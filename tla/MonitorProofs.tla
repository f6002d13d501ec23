---------------------------- MODULE MonitorProofs -----------------------------
(***************************************************************************)
(* Theorems about JobWatch and Monitor, for any number of jobs, lines and  *)
(* subscribers.  FinishedCountIsFinal and StoryInOrder follow from one     *)
(* inductive invariant of the watch, which relates what was published      *)
(* about a job (told) to what the watch remembers (seen), what it is       *)
(* reading (cur) and the registry.  A monitor is a subscriber like any     *)
(* other: Monitor implements JobWatch, so what is proved of the watch      *)
(* holds beside every monitor.                                             *)
(***************************************************************************)
EXTENDS Monitor, SequenceTheorems, FiniteSetTheorems, TLAPS

Boxes == {box \in [open : BOOLEAN, queue : Seq(Events), behind : BOOLEAN] :
            Len(box.queue) <= Capacity}

Ended(j) == life[j] \in {"finished", "evicted"}
Looking == pass \in {"state", "count", "announced"}
Counted == pass \in {"count", "announced"}

(* What was published about a job is what the watch remembers of it. *)
SeenInv ==
  \A j \in Jobs :
    /\ ~seen[j].here => \/ told[j].kind \in {"none", "evicted"}
                        \/ pass = "announced" /\ cur.job = j /\ told[j].kind = "created"
    /\ seen[j].here => /\ life[j] # "new"
                       /\ seen[j].lines <= lines[j]
                       /\ IF seen[j].running
                          THEN told[j].kind = "progress" /\ told[j].lines = seen[j].lines
                          ELSE told[j].kind = "finished"

(* What was published is true of the registry, and stays true. *)
ToldInv ==
  \A j \in Jobs :
    /\ told[j].kind = "created" => told[j].lines = 0
    /\ told[j].kind = "finished" => Ended(j) /\ told[j].lines = lines[j]
    /\ told[j].kind = "evicted" => life[j] = "evicted" /\ j \notin present

(* What is being read is not newer than the registry, nor older than the memory. *)
CurInv ==
  /\ pass = "sweep" => todo = {}
  /\ Looking => /\ cur.job \in todo
                /\ IF cur.running THEN life[cur.job] # "evicted" ELSE Ended(cur.job)
                /\ cur.running /\ seen[cur.job].here => seen[cur.job].running
  /\ Counted => /\ cur.lines <= lines[cur.job]
                /\ ~cur.running => cur.lines = lines[cur.job]
                /\ seen[cur.job].here => seen[cur.job].lines <= cur.lines
  /\ pass = "announced" /\ ~seen[cur.job].here => told[cur.job].kind = "created"

(* A job that left the registry has been seen ended, and is not in a later
   snapshot. *)
GoneInv ==
  \A j \in Jobs :
    /\ life[j] = "evicted" /\ seen[j].here => ~seen[j].running
    /\ pass # "idle" /\ seen[j].here /\ j \notin present => life[j] = "evicted"

IInv == WatchTypeOK /\ SeenInv /\ ToldInv /\ CurInv /\ GoneInv

(* A subscriber's queue stays within its capacity. *)
LEMMA DeliveredType ==
  ASSUME NEW box \in Boxes, NEW e \in Events
  PROVE  Delivered(box, e) \in Boxes
<1> USE WatchAssumption DEF WatchAssumption
<1> box.queue \in Seq(Events) /\ Len(box.queue) \in Nat
  BY DEF Boxes
<1>1. CASE ~box.open
  BY <1>1 DEF Delivered
<1>2. CASE box.open /\ Len(box.queue) < Capacity
  <2>1. Append(box.queue, e) \in Seq(Events) /\ Len(Append(box.queue, e)) = Len(box.queue) + 1
    OBVIOUS
  <2> QED BY <1>2, <2>1 DEF Delivered, Boxes
<1>3. CASE box.open /\ ~(Len(box.queue) < Capacity)
  <2>1. box.queue # <<>> /\ Len(box.queue) = Capacity
    BY <1>3 DEF Boxes
  <2>2. Tail(box.queue) \in Seq(Events) /\ Len(Tail(box.queue)) = Capacity - 1
    BY <2>1
  <2> DEFINE rest == Tail(box.queue)
  <2>3. Append(rest, e) \in Seq(Events) /\ Len(Append(rest, e)) = Capacity
    <3>1. rest \in Seq(Events) /\ Len(rest) = Capacity - 1
      BY <2>2
    <3> HIDE DEF rest
    <3>2. Append(rest, e) \in Seq(Events) /\ Len(Append(rest, e)) = Len(rest) + 1
      BY <3>1
    <3> QED BY <3>1, <3>2
  <2>4. Delivered(box, e) = [open |-> TRUE, queue |-> Append(rest, e), behind |-> TRUE]
    BY <1>3 DEF Delivered
  <2> HIDE DEF rest
  <2> QED BY <2>3, <2>4 DEF Boxes
<1> QED BY <1>1, <1>2, <1>3

(* The fields of what the watch remembers. *)
LEMMA LookType ==
  ASSUME NEW look \in Looks \cup {Absent}
  PROVE  look.here \in BOOLEAN /\ look.running \in BOOLEAN /\ look.lines \in 0..MaxLines
<1> USE WatchAssumption DEF WatchAssumption
<1>1. CASE look \in Looks
  BY <1>1 DEF Looks
<1>2. CASE look = Absent
  BY <1>2 DEF Absent
<1> QED BY <1>1, <1>2

(* The type of the channel: each subscriber's queue is within its capacity. *)
LEMMA InboxBoxes ==
  (inbox \in [Watchers -> [open : BOOLEAN, queue : Seq(Events), behind : BOOLEAN]]
     /\ \A w \in Watchers : Len(inbox[w].queue) <= Capacity)
  <=> inbox \in [Watchers -> Boxes]
BY DEF Boxes

(* Publishing keeps the types of the channel and of what was told. *)
LEMMA PublishType ==
  ASSUME WatchTypeOK, NEW e \in Events, Publish(e)
  PROVE  /\ inbox' \in [Watchers -> [open : BOOLEAN, queue : Seq(Events), behind : BOOLEAN]]
         /\ \A w \in Watchers : Len(inbox'[w].queue) <= Capacity
         /\ told' \in [Jobs -> [kind : Kinds \cup {"none"}, lines : 0..MaxLines]]
         /\ e.job \in Jobs /\ told'[e.job] = [kind |-> e.kind, lines |-> e.lines]
         /\ \A j \in Jobs : j # e.job => told'[j] = told[j]
<1>1. inbox \in [Watchers -> Boxes]
  BY InboxBoxes DEF WatchTypeOK
<1>2. \A w \in Watchers : Delivered(inbox[w], e) \in Boxes
  BY <1>1, DeliveredType
<1>3. inbox' \in [Watchers -> Boxes]
  BY <1>2 DEF Publish
<1> QED BY <1>3 DEF Publish, WatchTypeOK, Events, Kinds, Boxes

(* The invariant holds initially and is kept by every step. *)
THEOREM InitInv == WatchInit => IInv
<1> SUFFICES ASSUME WatchInit PROVE IInv
  OBVIOUS
<1> USE WatchAssumption DEF WatchAssumption, WatchInit
<1>1. WatchTypeOK
  BY DEF WatchTypeOK, Closed, Looks, Absent
<1>2. SeenInv /\ ToldInv /\ CurInv /\ GoneInv
  BY DEF SeenInv, ToldInv, CurInv, GoneInv, Looking, Counted, Absent
<1> QED BY <1>1, <1>2 DEF IInv

(* The registry's steps: created, grown, ended or evicted jobs keep what was read,
   remembered and told of them true. *)
LEMMA RegistryKeeps ==
  ASSUME OutlivesPass, IInv, Registry
  PROVE  IInv'
<1> USE WatchAssumption DEF WatchAssumption
<1> PICK j \in Jobs : CreateJob(j) \/ PushLine(j) \/ EndJob(j) \/ EvictJob(j)
  BY DEF Registry
<1>1. UNCHANGED <<pass, present, todo, cur, seen, told, inbox>>
  BY DEF CreateJob, PushLine, EndJob, EvictJob, passVars
<1>2. life' \in [Jobs -> {"new", "running", "finished", "evicted"}] /\ lines' \in [Jobs -> 0..MaxLines]
  <2>1. CASE PushLine(j)
    BY <2>1 DEF IInv, WatchTypeOK, PushLine
  <2>2. CASE CreateJob(j) \/ EndJob(j) \/ EvictJob(j)
    BY <2>2 DEF IInv, WatchTypeOK, CreateJob, EndJob, EvictJob
  <2> QED BY <2>1, <2>2
<1>3. \A i \in Jobs : /\ lines[i] <= lines'[i]
                      /\ Ended(i) => Ended(i)' /\ lines'[i] = lines[i]
                      /\ life[i] = "evicted" => life'[i] = "evicted"
                      /\ life'[i] = "new" => life[i] = "new"
  BY DEF IInv, WatchTypeOK, CreateJob, PushLine, EndJob, EvictJob, Ended
<1>4. \A i \in Jobs : life'[i] = "evicted" /\ life[i] # "evicted" => seen[i].here /\ ~seen[i].running
  BY DEF IInv, WatchTypeOK, CreateJob, PushLine, EndJob, EvictJob
<1>5. WatchTypeOK'
  BY <1>1, <1>2, <1>3 DEF IInv, WatchTypeOK
<1>6. SeenInv'
  <2> SUFFICES ASSUME NEW i \in Jobs, seen[i].here
               PROVE  life'[i] # "new" /\ seen[i].lines <= lines'[i]
    BY <1>1 DEF IInv, SeenInv
  <2>1. seen[i].lines \in Nat /\ lines[i] \in Nat /\ lines'[i] \in Nat
    BY <1>2, LookType DEF IInv, WatchTypeOK
  <2> QED BY <1>3, <2>1 DEF IInv, SeenInv
<1>7. ToldInv'
  BY <1>1, <1>2, <1>3 DEF IInv, ToldInv, WatchTypeOK
<1>8. CurInv'
  BY <1>1, <1>2, <1>3, <1>4 DEF IInv, CurInv, WatchTypeOK, Looking, Counted, Ended
<1>9. GoneInv'
  BY <1>1, <1>2, <1>3, <1>4 DEF IInv, GoneInv, WatchTypeOK
<1> QED BY <1>5, <1>6, <1>7, <1>8, <1>9 DEF IInv

(* Taking the snapshot: evicted jobs are not in it, and a job that is remembered and
   not in it has been evicted. *)
LEMMA SnapshotKeeps == ASSUME IInv, Snapshot PROVE IInv'
<1> USE DEF IInv, Snapshot, Silent, registryVars
<1>1. WatchTypeOK'
  BY DEF WatchTypeOK, Tracked
<1>2. SeenInv'
  BY DEF SeenInv
<1>3. ToldInv'
  BY DEF ToldInv, Tracked, Ended
<1>4. CurInv'
  BY DEF CurInv, Looking, Counted
<1>5. GoneInv'
  BY DEF GoneInv, SeenInv, WatchTypeOK, Tracked
<1> QED BY <1>1, <1>2, <1>3, <1>4, <1>5

(* Reading a job's state: a job remembered as ended is read as ended. *)
LEMMA ReadStateKeeps == ASSUME IInv, NEW j \in Jobs, ReadState(j) PROVE IInv'
<1> USE DEF IInv, ReadState, Silent, registryVars
<1>1. WatchTypeOK'
  BY WatchAssumption DEF WatchTypeOK, WatchAssumption
<1>2. SeenInv'
  BY DEF SeenInv
<1>3. ToldInv'
  BY DEF ToldInv, Ended
<1>4. CurInv'
  <2>1. life[j] \in {"running", "finished", "evicted"}
    BY DEF WatchTypeOK
  <2>2. life[j] = "running" /\ seen[j].here => seen[j].running
    BY DEF SeenInv, ToldInv, Ended
  <2>3. cur'.job = j /\ cur'.running = (life[j] = "running") /\ todo' = todo /\ pass' = "state"
    OBVIOUS
  <2> QED BY <2>1, <2>2, <2>3 DEF CurInv, Looking, Counted, Ended
<1>5. GoneInv'
  BY DEF GoneInv
<1> QED BY <1>1, <1>2, <1>3, <1>4, <1>5

(* Reading its count: it is final if the job was read as ended. *)
LEMMA ReadCountKeeps == ASSUME IInv, ReadCount PROVE IInv'
<1> USE DEF IInv, ReadCount, Silent, registryVars
<1>0. cur.job \in Jobs /\ lines[cur.job] \in 0..MaxLines
  BY DEF WatchTypeOK
<1>c. cur' = [job |-> cur.job, running |-> cur.running, lines |-> lines[cur.job]]
  BY DEF WatchTypeOK
<1>1. WatchTypeOK'
  BY <1>0, <1>c DEF WatchTypeOK
<1>2. SeenInv'
  BY DEF SeenInv
<1>3. ToldInv'
  BY DEF ToldInv, Ended
<1>4. CurInv'
  <2>1. lines[cur.job] \in Nat
    BY <1>0, WatchAssumption DEF WatchAssumption
  <2> QED BY <1>0, <1>c, <2>1 DEF CurInv, SeenInv, Looking, Counted, Ended
<1>5. GoneInv'
  BY DEF GoneInv
<1> QED BY <1>1, <1>2, <1>3, <1>4, <1>5

(* Announcing it, if it is new. *)
LEMMA AnnounceKeeps == ASSUME IInv, Announce PROVE IInv'
<1> USE DEF IInv, Announce, AnnounceUnless, registryVars
<1>0. cur.job \in Jobs /\ cur.job \in present /\ life[cur.job] # "new"
  BY DEF WatchTypeOK, CurInv, Looking
<1>a. CASE seen[cur.job].here
  <2> USE <1>a DEF Silent
  <2>1. WatchTypeOK'
    BY DEF WatchTypeOK
  <2>2. SeenInv'
    BY DEF SeenInv
  <2>3. ToldInv'
    BY DEF ToldInv, Ended
  <2>4. CurInv'
    BY DEF CurInv, Looking, Counted, Ended
  <2>5. GoneInv'
    BY DEF GoneInv
  <2> QED BY <2>1, <2>2, <2>3, <2>4, <2>5
<1>b. CASE ~seen[cur.job].here
  <2>e. Event("created", cur.job, 0) \in Events
    BY <1>0, WatchAssumption DEF Event, Events, Kinds, WatchAssumption
  <2>p. Publish(Event("created", cur.job, 0))
    BY <1>b
  <2>t. /\ told'[cur.job] = [kind |-> "created", lines |-> 0]
        /\ \A j \in Jobs : j # cur.job => told'[j] = told[j]
    BY <2>e, <2>p, PublishType DEF Event
  <2>u. UNCHANGED <<life, lines, present, todo, cur, seen>> /\ pass = "count" /\ pass' = "announced"
    OBVIOUS
  <2>1. WatchTypeOK'
    BY <2>e, <2>p, <2>u, PublishType DEF WatchTypeOK
  <2>2. SeenInv'
    BY <1>b, <2>t, <2>u DEF SeenInv
  <2>3. ToldInv'
    BY <2>t, <2>u DEF ToldInv, Ended
  <2>4. CurInv'
    BY <2>t, <2>u DEF CurInv, Looking, Counted, Ended
  <2>5. GoneInv'
    BY <2>u DEF GoneInv
  <2> QED BY <2>1, <2>2, <2>3, <2>4, <2>5
<1> QED BY <1>a, <1>b

(* Facts about the job being reported, when it has been announced. *)
LEMMA AboutCur ==
  ASSUME IInv, pass = "announced"
  PROVE  /\ cur.job \in Jobs /\ cur.job \in todo /\ cur.job \in present
         /\ cur.running \in BOOLEAN /\ cur.lines \in 0..MaxLines
         /\ life[cur.job] # "new" /\ cur.lines <= lines[cur.job]
         /\ cur.running => life[cur.job] # "evicted"
         /\ ~cur.running => Ended(cur.job) /\ cur.lines = lines[cur.job]
BY DEF IInv, WatchTypeOK, CurInv, Looking, Counted

(* A report of a job that is not news leaves what was told as it was; a report that is
   news tells it and remembers it. *)
LEMMA ReportTells ==
  ASSUME IInv, Report
  PROVE  /\ inbox' \in [Watchers -> [open : BOOLEAN, queue : Seq(Events), behind : BOOLEAN]]
         /\ \A w \in Watchers : Len(inbox'[w].queue) <= Capacity
         /\ told' \in [Jobs -> [kind : Kinds \cup {"none"}, lines : 0..MaxLines]]
         /\ \A j \in Jobs : j # cur.job => told'[j] = told[j]
         /\ told'[cur.job].kind = (IF cur.running THEN "progress" ELSE "finished")
         /\ told'[cur.job].lines = cur.lines
<1> USE DEF Report
<1>0. WatchTypeOK /\ cur.job \in Jobs /\ cur.lines \in 0..MaxLines
  BY AboutCur DEF IInv
<1>e. Event("progress", cur.job, cur.lines) \in Events /\ Event("finished", cur.job, cur.lines) \in Events
  BY <1>0 DEF Event, Events, Kinds
<1>1. CASE cur.running /\ Progress
  <2> DEFINE e == Event("progress", cur.job, cur.lines)
  <2>1. e.job = cur.job /\ e.kind = "progress" /\ e.lines = cur.lines
    BY DEF Event
  <2>2. e \in Events /\ Publish(e)
    BY <1>1, <1>e DEF Progress
  <2> HIDE DEF e
  <2>3. told'[cur.job] = [kind |-> "progress", lines |-> cur.lines] /\ \A j \in Jobs : j # cur.job => told'[j] = told[j]
    BY <1>0, <2>1, <2>2, PublishType
  <2>4. /\ inbox' \in [Watchers -> [open : BOOLEAN, queue : Seq(Events), behind : BOOLEAN]]
        /\ \A w \in Watchers : Len(inbox'[w].queue) <= Capacity
        /\ told' \in [Jobs -> [kind : Kinds \cup {"none"}, lines : 0..MaxLines]]
    BY <1>0, <2>2, PublishType
  <2>5. IF cur.running THEN TRUE ELSE FALSE
    BY <1>1
  <2> QED BY <2>3, <2>4, <2>5
<1>2. CASE ~cur.running /\ Publish(Event("finished", cur.job, cur.lines))
  <2> DEFINE e == Event("finished", cur.job, cur.lines)
  <2>1. e.job = cur.job /\ e.kind = "finished" /\ e.lines = cur.lines
    BY DEF Event
  <2>2. e \in Events /\ Publish(e)
    BY <1>2, <1>e
  <2> HIDE DEF e
  <2>3. told'[cur.job] = [kind |-> "finished", lines |-> cur.lines] /\ \A j \in Jobs : j # cur.job => told'[j] = told[j]
    BY <1>0, <2>1, <2>2, PublishType
  <2>4. /\ inbox' \in [Watchers -> [open : BOOLEAN, queue : Seq(Events), behind : BOOLEAN]]
        /\ \A w \in Watchers : Len(inbox'[w].queue) <= Capacity
        /\ told' \in [Jobs -> [kind : Kinds \cup {"none"}, lines : 0..MaxLines]]
    BY <1>0, <2>2, PublishType
  <2>5. IF cur.running THEN FALSE ELSE TRUE
    BY <1>2
  <2> QED BY <2>3, <2>4, <2>5
<1>3. CASE cur.running /\ seen[cur.job].here /\ seen[cur.job].lines = cur.lines /\ Silent
  BY <1>0, <1>3 DEF IInv, SeenInv, CurInv, Looking, WatchTypeOK, Silent
<1>4. CASE ~cur.running /\ Reported /\ Silent
  BY <1>0, <1>4, AboutCur DEF IInv, SeenInv, ToldInv, WatchTypeOK, Silent, Reported
<1> QED BY <1>1, <1>2, <1>3, <1>4 DEF ReportRunning, ReportEnded, EndedUnless

LEMMA ReportKeeps == ASSUME IInv, Report PROVE IInv'
<1> USE DEF IInv
<1>0. /\ cur.job \in Jobs /\ cur.job \in todo /\ cur.job \in present
      /\ cur.running \in BOOLEAN /\ cur.lines \in 0..MaxLines
      /\ life[cur.job] # "new" /\ cur.lines <= lines[cur.job]
      /\ cur.running => life[cur.job] # "evicted"
      /\ ~cur.running => Ended(cur.job) /\ cur.lines = lines[cur.job]
  BY AboutCur DEF Report
<1>u. UNCHANGED <<life, lines, present>> /\ pass' \in {"next", "sweep"}
  BY DEF Report, registryVars
<1>s. /\ seen'[cur.job] = Look(cur.running, cur.lines)
      /\ \A j \in Jobs : j # cur.job => seen'[j] = seen[j]
      /\ seen' \in [Jobs -> Looks \cup {Absent}]
  <2>1. Look(cur.running, cur.lines) \in Looks
    BY <1>0 DEF Look, Looks
  <2>2. seen' = [seen EXCEPT ![cur.job] = Look(cur.running, cur.lines)]
    BY DEF Report
  <2> QED BY <1>0, <2>1, <2>2 DEF WatchTypeOK
<1>1. WatchTypeOK'
  <2>1. cur' = [job |-> cur.job, running |-> FALSE, lines |-> 0]
    BY DEF Report, WatchTypeOK
  <2>2. todo' \subseteq todo
    BY DEF Report
  <2>3. cur' \in [job : Jobs, running : BOOLEAN, lines : 0..MaxLines]
    BY <1>0, <2>1, WatchAssumption DEF WatchAssumption
  <2> QED BY <1>u, <1>s, <2>2, <2>3, ReportTells DEF WatchTypeOK
<1>2. SeenInv'
  <2> SUFFICES ASSUME NEW j \in Jobs
               PROVE /\ ~seen'[j].here => told'[j].kind \in {"none", "evicted"}
                     /\ seen'[j].here => /\ life[j] # "new"
                                         /\ seen'[j].lines <= lines[j]
                                         /\ IF seen'[j].running
                                            THEN told'[j].kind = "progress" /\ told'[j].lines = seen'[j].lines
                                            ELSE told'[j].kind = "finished"
    BY <1>u DEF SeenInv
  <2>1. CASE j = cur.job
    BY <1>0, <1>s, <2>1, ReportTells DEF Look
  <2>2. CASE j # cur.job
    BY <1>s, <2>2, ReportTells DEF SeenInv
  <2> QED BY <2>1, <2>2
<1>3. ToldInv'
  <2> SUFFICES ASSUME NEW j \in Jobs
               PROVE /\ told'[j].kind = "created" => told'[j].lines = 0
                     /\ told'[j].kind = "finished" => Ended(j) /\ told'[j].lines = lines[j]
                     /\ told'[j].kind = "evicted" => life[j] = "evicted" /\ j \notin present
    BY <1>u DEF ToldInv, Ended
  <2>1. CASE j = cur.job
    BY <1>0, <2>1, ReportTells
  <2>2. CASE j # cur.job
    BY <2>2, ReportTells DEF ToldInv
  <2> QED BY <2>1, <2>2
<1>4. CurInv'
  <2>1. pass' = "sweep" => todo' = {}
    BY DEF Report
  <2> QED BY <1>u, <2>1 DEF CurInv, Looking, Counted
<1>5. GoneInv'
  <2> SUFFICES ASSUME NEW j \in Jobs
               PROVE /\ life[j] = "evicted" /\ seen'[j].here => ~seen'[j].running
                     /\ seen'[j].here /\ j \notin present => life[j] = "evicted"
    BY <1>u DEF GoneInv
  <2>1. CASE j = cur.job
    BY <1>0, <1>s, <2>1 DEF Look
  <2>2. CASE j # cur.job
    BY <1>s, <2>2 DEF GoneInv, Report
  <2> QED BY <2>1, <2>2
<1> QED BY <1>1, <1>2, <1>3, <1>4, <1>5

(* Forgetting a job that left: it was told finished, and its eviction is true. *)
LEMMA SweepKeeps == ASSUME IInv, NEW j \in Jobs, Sweep(j) PROVE IInv'
<1> USE DEF IInv
<1>u. /\ UNCHANGED <<life, lines, pass, present, todo, cur>> /\ pass = "sweep"
      /\ seen[j].here /\ j \notin present
  BY DEF Sweep, registryVars, passVars
<1>e. Event("evicted", j, 0) \in Events
  BY WatchAssumption DEF Event, Events, Kinds, WatchAssumption
<1>p. WatchTypeOK /\ Publish(Event("evicted", j, 0))
  BY DEF Sweep
<1>t. /\ told'[j] = [kind |-> "evicted", lines |-> 0]
      /\ \A i \in Jobs : i # j => told'[i] = told[i]
  BY <1>e, <1>p, PublishType DEF Event
<1>s. /\ seen' \in [Jobs -> Looks \cup {Absent}] /\ seen'[j] = Absent
      /\ \A i \in Jobs : i # j => seen'[i] = seen[i]
  BY DEF Sweep, WatchTypeOK
<1>1. WatchTypeOK'
  BY <1>u, <1>e, <1>p, <1>s, PublishType DEF WatchTypeOK
<1>2. SeenInv'
  BY <1>u, <1>t, <1>s DEF SeenInv, Absent
<1>3. ToldInv'
  BY <1>u, <1>t DEF ToldInv, GoneInv, Ended
<1>4. CurInv'
  BY <1>u DEF CurInv, Looking, Counted
<1>5. GoneInv'
  BY <1>u, <1>s DEF GoneInv, Absent
<1> QED BY <1>1, <1>2, <1>3, <1>4, <1>5

LEMMA PassDoneKeeps == ASSUME IInv, PassDone PROVE IInv'
<1> USE DEF IInv, PassDone, Silent, registryVars
<1>1. WatchTypeOK'
  BY DEF WatchTypeOK, CurInv
<1>2. SeenInv'
  BY DEF SeenInv
<1>3. ToldInv'
  BY DEF ToldInv, Ended
<1>4. CurInv'
  BY DEF CurInv, Looking, Counted
<1>5. GoneInv'
  BY DEF GoneInv
<1> QED BY <1>1, <1>2, <1>3, <1>4, <1>5

(* A subscriber's steps touch its queue only, which they empty or shorten. *)
LEMMA SubscribersKeep == ASSUME IInv, Subscribers PROVE IInv'
<1> PICK w \in Watchers : Subscribe(w) \/ Leave(w) \/ Heed(w) \/ Receive(w)
  BY DEF Subscribers
<1> DEFINE box == inbox[w]
<1>b. inbox \in [Watchers -> Boxes] /\ box \in Boxes
  BY InboxBoxes DEF IInv, WatchTypeOK
<1>u. UNCHANGED <<registryVars, passVars, seen, told>>
  BY DEF Subscribe, Leave, Heed, Receive, Box
<1>i. \E next \in Boxes : inbox' = [inbox EXCEPT ![w] = next]
  <2>1. CASE Subscribe(w) \/ Leave(w)
    <3>1. Opened \in Boxes /\ Closed \in Boxes
      BY WatchAssumption DEF WatchAssumption, Opened, Closed, Boxes
    <3> QED BY <2>1, <3>1 DEF Subscribe, Leave, Box
  <2>2. CASE Heed(w)
    <3>1. [box EXCEPT !.behind = FALSE] \in Boxes
      BY <1>b DEF Boxes
    <3> QED BY <2>2, <3>1 DEF Heed, Box
  <2>3. CASE Receive(w)
    <3>1. box.queue \in Seq(Events) /\ box.queue # <<>>
      BY <1>b, <2>3 DEF Boxes, Receive
    <3>2. Tail(box.queue) \in Seq(Events) /\ Len(Tail(box.queue)) = Len(box.queue) - 1 /\ Len(box.queue) \in Nat
      BY <3>1
    <3>3. [box EXCEPT !.queue = Tail(@)] \in Boxes
      BY <1>b, <3>2, WatchAssumption DEF Boxes, WatchAssumption
    <3> QED BY <2>3, <3>3 DEF Receive, Box
  <2> QED BY <2>1, <2>2, <2>3
<1>t. inbox' \in [Watchers -> Boxes]
  BY <1>b, <1>i
<1>c. /\ inbox' \in [Watchers -> [open : BOOLEAN, queue : Seq(Events), behind : BOOLEAN]]
      /\ \A v \in Watchers : Len(inbox'[v].queue) <= Capacity
  BY <1>t DEF Boxes
<1>1. WatchTypeOK'
  BY <1>u, <1>c DEF IInv, WatchTypeOK, registryVars, passVars
<1> QED BY <1>u, <1>1 DEF IInv, registryVars, passVars, SeenInv, ToldInv, CurInv, GoneInv,
                          Looking, Counted, Ended

(* A step that changes nothing the watch is about. *)
LEMMA StutterKeeps == ASSUME IInv, UNCHANGED watchVars PROVE IInv'
BY DEF IInv, watchVars, registryVars, passVars, WatchTypeOK, SeenInv, ToldInv, CurInv, GoneInv,
       Looking, Counted, Ended

(* Every step keeps the invariant, provided that no job is evicted before the watch
   has seen it ended (its retention outlives a pass). *)
THEOREM NextKeeps == ASSUME OutlivesPass, IInv, [WatchNext]_watchVars PROVE IInv'
<1>1. CASE Registry
  BY <1>1, RegistryKeeps
<1>2. CASE Watch
  BY <1>2, SnapshotKeeps, ReadStateKeeps, ReadCountKeeps, AnnounceKeeps, ReportKeeps,
     SweepKeeps, PassDoneKeeps DEF Watch
<1>3. CASE UNCHANGED watchVars
  BY <1>3, StutterKeeps
<1>4. CASE Subscribers
  BY <1>4, SubscribersKeep
<1> QED BY <1>1, <1>2, <1>3, <1>4 DEF WatchNext

(* The invariant holds in every state. *)
THEOREM InvariantHolds == OutlivesPass => (WatchSpec => []IInv)
<1>1. SUFFICES ASSUME OutlivesPass PROVE WatchSpec => []IInv
  OBVIOUS
<1>2. IInv /\ [WatchNext]_watchVars => IInv'
  BY <1>1, NextKeeps
<1> QED BY <1>2, InitInv, PTL DEF WatchSpec

(* The count told with a job's end is its last, for any number of jobs and lines. *)
THEOREM FinalCount == OutlivesPass => (WatchSpec => []FinishedCountIsFinal)
<1>1. IInv => FinishedCountIsFinal
  BY DEF IInv, ToldInv, FinishedCountIsFinal
<1> QED BY <1>1, InvariantHolds, PTL

(* Each step tells at most one job's next chapter: only Announce, Report and Sweep
   tell, each what may follow. *)
LEMMA StepFollows ==
  ASSUME IInv, [WatchNext]_watchVars, NEW j \in Jobs, told'[j] # told[j]
  PROVE  Follows(told'[j], told[j])
<1> USE WatchAssumption DEF WatchAssumption
<1>1. CASE Announce
  <2>1. j = cur.job /\ ~seen[j].here /\ told'[j] = [kind |-> "created", lines |-> 0] /\ j \in present
    BY <1>1 DEF Announce, AnnounceUnless, Silent, Publish, Event, IInv, WatchTypeOK, CurInv, Looking
  <2>2. told[j].kind = "none"
    BY <1>1, <2>1 DEF Announce, AnnounceUnless, IInv, SeenInv, ToldInv
  <2> QED BY <2>1, <2>2 DEF Follows
<1>2. CASE Report
  <2>0. /\ j = cur.job /\ pass = "announced"
        /\ told'[j].kind = (IF cur.running THEN "progress" ELSE "finished")
        /\ told'[j].lines = cur.lines
    BY <1>2, ReportTells DEF Report
  <2>n. cur.lines \in Nat /\ seen[j].lines \in Nat
    BY <2>0, AboutCur, LookType DEF IInv, WatchTypeOK
  <2>1. CASE ~seen[j].here
    <3>1. told[j].kind = "created" /\ told[j].lines = 0
      BY <2>0, <2>1 DEF IInv, CurInv, ToldInv
    <3>2. told'[j].kind \in {"progress", "finished"} /\ told'[j].lines >= told[j].lines
      BY <2>0, <2>n, <3>1
    <3> QED BY <3>1, <3>2 DEF Follows
  <2>2. CASE seen[j].here /\ seen[j].running
    <3>1. told[j].kind = "progress" /\ told[j].lines = seen[j].lines /\ seen[j].lines <= cur.lines
      BY <2>0, <2>2 DEF IInv, SeenInv, CurInv, Counted
    <3> QED BY <2>0, <2>n, <3>1 DEF Follows
  <2>3. CASE seen[j].here /\ ~seen[j].running
    <3>1. ~cur.running
      BY <2>0, <2>3 DEF IInv, CurInv, Looking
    <3> QED BY <1>2, <2>0, <2>3, <3>1 DEF Report, ReportEnded, EndedUnless, Reported, Silent
  <2> QED BY <2>1, <2>2, <2>3
<1>3. ASSUME NEW i \in Jobs, Sweep(i) PROVE Follows(told'[j], told[j])
  <2>1. j = i /\ told'[j] = [kind |-> "evicted", lines |-> 0]
    BY <1>3 DEF Sweep, Publish, Event, IInv, WatchTypeOK
  <2>2. told[j].kind = "finished"
    BY <1>3, <2>1 DEF Sweep, IInv, GoneInv, SeenInv
  <2> QED BY <2>1, <2>2 DEF Follows
<1>4. CASE Registry \/ Snapshot \/ (\E i \in Jobs : ReadState(i)) \/ ReadCount \/ PassDone
           \/ Subscribers \/ UNCHANGED watchVars
  BY <1>4 DEF Registry, CreateJob, PushLine, EndJob, EvictJob, Snapshot, ReadState, ReadCount, PassDone,
              Subscribers, Subscribe, Leave, Heed, Receive, Box, Silent, watchVars
<1> QED BY <1>1, <1>2, <1>3, <1>4 DEF WatchNext, Watch

(* What is published about a job is told in order. *)
THEOREM StoryTold == OutlivesPass => (WatchSpec => StoryInOrder)
<1>1. SUFFICES ASSUME OutlivesPass PROVE WatchSpec => StoryInOrder
  OBVIOUS
<1>2. IInv /\ [WatchNext]_watchVars
        => [\A j \in Jobs : told'[j] # told[j] => Follows(told'[j], told[j])]_watchVars
  BY StepFollows
<1>3. WatchSpec => []IInv
  BY <1>1, InvariantHolds
<1> QED BY <1>2, <1>3, PTL DEF WatchSpec, StoryInOrder

----------------------------------------------------------------------------
(* The monitor. *)

(* Every step of the server and the monitor is a step of the registry, the watch or a
   subscriber, or none of the three. *)
LEMMA StepWatches == ASSUME [Next]_vars PROVE [WatchNext]_watchVars
<1>1. CASE Server
  BY <1>1 DEF Server, WatchNext
<1>2. CASE Stream
  <2>1. Me \in Watchers
    BY MonitorAssumption DEF MonitorAssumption
  <2> QED BY <1>2, <2>1 DEF Stream, Connect, ReplayStates, ReplayCounts, ReplayEnds, RecvReplay,
                             RecvEvent, RecvLagged, WatchNext, Subscribers
<1>3. CASE \E f \in Fetchers : Fetch(f) \/ FetchFails(f)
  BY <1>3 DEF Fetch, FetchStates, FetchCounts, Refresh, RefreshWith, FetchFails, FetchOver
<1>4. CASE Disconnect
  BY <1>4, MonitorAssumption DEF Disconnect, MonitorAssumption, WatchNext, Subscribers
<1>5. CASE UNCHANGED vars
  BY <1>5 DEF vars
<1> QED BY <1>1, <1>2, <1>3, <1>4, <1>5 DEF Next

(* The system with its monitor implements the watch with its subscribers. *)
THEOREM ImplementsWatch == Spec => WatchSpec
<1>1. Init => WatchInit
  BY DEF Init
<1>2. [Next]_vars => [WatchNext]_watchVars
  BY StepWatches
<1> QED BY <1>1, <1>2, PTL DEF Spec, WatchSpec

(* With a monitor that comes, lags and goes, the count told with a job's end is its
   last. *)
THEOREM CountIsFinal == OutlivesPass => (Spec => []FinishedCountIsFinal)
BY ImplementsWatch, FinalCount

(* ... and what is told about a job is told in order. *)
THEOREM StoryIsInOrder == OutlivesPass => (Spec => StoryInOrder)
BY ImplementsWatch, StoryTold

----------------------------------------------------------------------------
(* What the monitor shows. *)

LEMMA InAppend ==
  ASSUME NEW q \in Seq(Events), NEW e \in Events, NEW K, NEW j
  PROVE  /\ In(q, K, j) => In(Append(q, e), K, j)
         /\ e.job = j /\ e.kind \in K => In(Append(q, e), K, j)
<1>1. /\ DOMAIN q = 1..Len(q) /\ Len(q) \in Nat /\ DOMAIN Append(q, e) = 1..(Len(q) + 1)
      /\ \A i \in DOMAIN q : Append(q, e)[i] = q[i]
      /\ Append(q, e)[Len(q) + 1] = e
  OBVIOUS
<1>. QED  BY <1>1 DEF In

LEMMA InTail ==
  ASSUME NEW q \in Seq(Events), q # <<>>, NEW K, NEW j, In(q, K, j)
  PROVE  In(Tail(q), K, j) \/ (Head(q).job = j /\ Head(q).kind \in K)
<1>1. PICK i \in DOMAIN q : q[i].job = j /\ q[i].kind \in K
  BY DEF In
<1>2. /\ Head(q) = q[1] /\ DOMAIN q = 1..Len(q) /\ Len(q) \in Nat /\ DOMAIN Tail(q) = 1..(Len(q) - 1)
      /\ \A k \in DOMAIN Tail(q) : Tail(q)[k] = q[k + 1]
  OBVIOUS
<1>3. CASE i = 1
  BY <1>1, <1>2, <1>3
<1>4. CASE i # 1
  <2>1. i - 1 \in DOMAIN Tail(q) /\ Tail(q)[i - 1] = q[i]
    BY <1>2, <1>4
  <2>. QED  BY <1>1, <2>1 DEF In
<1>. QED  BY <1>3, <1>4

(* A job goes on: what fitted it goes on to fit. *)
LEMMA FitsOn ==
  ASSUME NEW look \in Looks \cup {Absent}, NEW j, NEW s, NEW s2, NEW n \in Nat, NEW n2 \in Nat,
         NEW last, NEW q, n <= n2, n2 # n => s \notin {"finished", "evicted"},
         \/ s2 = s
         \/ s = "new" /\ s2 = "running"
         \/ s = "running" /\ s2 = "finished"
         \/ s = "finished" /\ s2 = "evicted",
         Fits(look, j, s, n, last, q)
  PROVE  Fits(look, j, s2, n2, last, q)
<1>1. look.lines \in 0..MaxLines
  BY LookType
<1>2. look.lines \in Nat
  BY <1>1, WatchAssumption
<1>. QED  BY <1>2 DEF Fits

(* A job is told of: the event is on its way, so what fitted still fits. *)
LEMMA FitsTold ==
  ASSUME NEW look, NEW j, NEW s, NEW n, NEW last, NEW last2, NEW q \in Seq(Events), NEW e \in Events,
         e.job = j => last2.kind = e.kind /\ last2.lines = e.lines,
         e.job # j => last2 = last,
         e.job = j /\ e.kind \in {"progress", "finished"} => last.kind # "none",
         e.job = j /\ e.kind = "evicted" => s = "evicted",
         Fits(look, j, s, n, last, q)
  PROVE  Fits(look, j, s, n, last2, Append(q, e))
<1>1. \A K : In(q, K, j) => In(Append(q, e), K, j)
  BY InAppend
<1>2. \A K : e.job = j /\ e.kind \in K => In(Append(q, e), K, j)
  BY InAppend
<1>3. e.kind \in Kinds
  BY DEF Events
<1>4. CASE e.job # j
  BY <1>1, <1>4 DEF Fits
<1>5. CASE e.job = j
  <2>1. CASE ~look.here
    BY <1>1, <1>2, <1>3, <1>5, <2>1 DEF Fits, Kinds
  <2>2. CASE look.here /\ look.running
    BY <1>1, <1>2, <1>3, <1>5, <2>2 DEF Fits, Kinds
  <2>3. CASE look.here /\ ~look.running
    BY <1>1, <1>2, <1>3, <1>5, <2>3 DEF Fits, Kinds
  <2>. QED  BY <2>1, <2>2, <2>3
<1>. QED  BY <1>4, <1>5

(* An event is received: applied to what fitted before it, it gives what fits after. *)
LEMMA FitsReceived ==
  ASSUME NEW look \in Looks \cup {Absent}, NEW j, NEW s, NEW n \in Nat, NEW last,
         NEW q \in Seq(Events), q # <<>>, Head(q).job = j,
         \E k \in 1..Len(q) : q[k] = Event(last.kind, j, last.lines),
         Head(q).lines <= n, s # "new",
         Head(q).kind = "finished" => s \in {"finished", "evicted"} /\ Head(q).lines = n,
         Head(q).kind = "evicted" => s = "evicted",
         Fits(look, j, s, n, last, q)
  PROVE  Fits(Applied(look, Head(q)), j, s, n, last, Tail(q))
<1> DEFINE e == Head(q)
<1>1. e \in Events /\ e.kind \in Kinds /\ e.lines \in Nat /\ n \in Nat
  <2>1. e \in Events
    OBVIOUS
  <2>. QED  BY <2>1, WatchAssumption DEF Events
<1>2. \A K : In(q, K, j) => In(Tail(q), K, j) \/ e.kind \in K
  BY InTail
<1>3. \/ In(Tail(q), {last.kind}, j)
      \/ last.kind = e.kind /\ last.lines = e.lines
  <2>1. PICK k \in 1..Len(q) : q[k] = Event(last.kind, j, last.lines)
    OBVIOUS
  <2>2. q[k].job = j /\ q[k].kind = last.kind /\ q[k].lines = last.lines
    BY <2>1 DEF Event
  <2>3. CASE k = 1
    BY <2>2, <2>3
  <2>4. CASE k # 1
    <3>1. k - 1 \in DOMAIN Tail(q) /\ Tail(q)[k - 1] = q[k]
      BY <2>4
    <3>. QED  BY <2>2, <3>1 DEF In
  <2>. QED  BY <2>3, <2>4
<1>4. \A K : last.kind \in K => (In(Tail(q), {last.kind}, j) => In(Tail(q), K, j))
  BY DEF In
<1>5. look.lines \in Nat
  BY LookType, WatchAssumption
<1> HIDE DEF e
<1>6. CASE e.kind = "created"
  <2>1. Applied(look, e) = IF look.here THEN look ELSE Look(TRUE, 0)
    BY <1>6 DEF Applied
  <2>2. CASE ~look.here
    <3>1. Applied(look, e) = Look(TRUE, 0) /\ 0 <= n
      BY <2>1, <2>2
    <3>2. last.kind \in {"finished", "evicted"} => In(Tail(q), {"finished", "evicted"}, j)
      BY <1>3, <1>4, <1>6
    <3>3. last.kind = "progress" => In(Tail(q), {"progress"}, j)
      BY <1>3, <1>4, <1>6
    <3>. QED  BY <3>1, <3>2, <3>3 DEF Fits, Look, e
  <2>3. CASE look.here
    <3>1. Applied(look, e) = look
      BY <2>1, <2>3
    <3>2. \A K : "created" \notin K /\ In(q, K, j) => In(Tail(q), K, j)
      BY <1>2, <1>6
    <3>. QED  BY <2>3, <3>1, <3>2 DEF Fits, e
  <2>. QED  BY <2>2, <2>3
<1>7. CASE e.kind = "progress"
  <2>1. Applied(look, e) = IF look.here /\ look.running THEN Look(TRUE, e.lines) ELSE look
    BY <1>7 DEF Applied
  <2>2. CASE look.here /\ look.running
    <3>1. Applied(look, e) = Look(TRUE, e.lines) /\ e.lines <= n
      BY <2>1, <2>2 DEF e
    <3>2. last.kind \in {"finished", "evicted"} => In(Tail(q), {"finished", "evicted"}, j)
      BY <1>3, <1>4, <1>7
    <3>3. last.kind = "progress" => last.lines <= e.lines \/ In(Tail(q), {"progress"}, j)
      BY <1>1, <1>3
    <3>. QED  BY <3>1, <3>2, <3>3 DEF Fits, Look, e
  <2>3. CASE ~(look.here /\ look.running)
    <3>1. Applied(look, e) = look
      BY <2>1, <2>3
    <3>2. \A K : "progress" \notin K /\ In(q, K, j) => In(Tail(q), K, j)
      BY <1>2, <1>7
    <3>. QED  BY <2>3, <3>1, <3>2 DEF Fits, e
  <2>. QED  BY <2>2, <2>3
<1>8. CASE e.kind = "finished"
  <2>1. Applied(look, e) = IF look.here THEN Look(FALSE, e.lines) ELSE look
    BY <1>8 DEF Applied
  <2>2. CASE look.here
    <3>1. Applied(look, e) = Look(FALSE, e.lines) /\ e.lines = n /\ s \in {"finished", "evicted"}
      BY <1>8, <2>1, <2>2 DEF e
    <3>2. last.kind = "evicted" => In(Tail(q), {"evicted"}, j)
      BY <1>3, <1>4, <1>8
    <3>. QED  BY <3>1, <3>2 DEF Fits, Look, e
  <2>3. CASE ~look.here
    <3>1. Applied(look, e) = look
      BY <2>1, <2>3
    <3>2. \A K : "finished" \notin K /\ In(q, K, j) => In(Tail(q), K, j)
      BY <1>2, <1>8
    <3>. QED  BY <2>3, <3>1, <3>2 DEF Fits, e
  <2>. QED  BY <2>2, <2>3
<1>9. CASE e.kind = "evicted"
  <2>1. Applied(look, e) = Absent /\ s = "evicted"
    BY <1>9 DEF Applied, e
  <2>. QED  BY <2>1 DEF Fits, Absent, e
<1>. QED  BY <1>1, <1>6, <1>7, <1>8, <1>9 DEF Kinds

LEMMA FitsPassed ==
  ASSUME NEW look, NEW j, NEW s, NEW n, NEW last,
         NEW q \in Seq(Events), q # <<>>, Head(q).job # j, Fits(look, j, s, n, last, q)
  PROVE  Fits(look, j, s, n, last, Tail(q))
<1>1. \A K : In(q, K, j) => In(Tail(q), K, j)
  BY InTail
<1>. QED  BY <1>1 DEF Fits

(* The job's lines grow between the reading of its state and of its count. *)
LEMMA FitsCounted ==
  ASSUME NEW look \in Looks \cup {Absent}, NEW j, NEW s, NEW n \in Nat, NEW n2 \in Nat,
         NEW last, NEW q, n <= n2, last.kind = "progress" => last.lines \in Nat /\ last.lines <= n,
         Fits(IF look.here THEN Look(look.running, n) ELSE Absent, j, s, n, last, q),
         n2 # n => s \notin {"finished", "evicted"}
  PROVE  Fits(IF look.here THEN Look(look.running, n2) ELSE Absent, j, s, n2, last, q)
<1>1. CASE ~look.here
  BY <1>1 DEF Fits, Absent
<1>2. CASE look.here /\ look.running
  <2>1. Fits(Look(TRUE, n), j, s, n, last, q)
    BY <1>2
  <2>2. Fits(Look(TRUE, n2), j, s, n2, last, q)
    BY <2>1 DEF Fits, Look
  <2>. QED  BY <1>2, <2>2
<1>3. CASE look.here /\ ~look.running
  <2>0. look.running = FALSE
    BY <1>3, LookType
  <2>1. Fits(Look(FALSE, n), j, s, n, last, q)
    BY <1>3, <2>0
  <2>2. Fits(Look(FALSE, n2), j, s, n2, last, q)
    BY <2>1 DEF Fits, Look
  <2>. QED  BY <1>3, <2>0, <2>2
<1>. QED  BY <1>1, <1>2, <1>3

(* Events on their way stay true while jobs go on... *)
LEMMA HonestOn ==
  ASSUME NEW q \in Seq(Events), NEW s, NEW n \in [Jobs -> Nat], NEW last,
         NEW s2, NEW n2 \in [Jobs -> Nat],
         \A j \in Jobs : /\ n[j] <= n2[j]
                         /\ s[j] \in {"finished", "evicted"} =>
                              s2[j] \in {"finished", "evicted"} /\ n2[j] = n[j]
                         /\ s[j] = "evicted" => s2[j] = "evicted",
         Honest(q, s, n, last)
  PROVE  Honest(q, s2, n2, last)
<1> SUFFICES ASSUME NEW i \in DOMAIN q
             PROVE  /\ \E k \in i..Len(q) : q[k] = Event(last[q[i].job].kind, q[i].job, last[q[i].job].lines)
                    /\ q[i].lines <= n2[q[i].job]
                    /\ q[i].kind = "finished" =>
                         s2[q[i].job] \in {"finished", "evicted"} /\ q[i].lines = n2[q[i].job]
                    /\ q[i].kind = "evicted" => s2[q[i].job] = "evicted"
  BY DEF Honest
<1>1. q[i] \in Events
  OBVIOUS
<1>2. q[i].job \in Jobs /\ q[i].lines \in Nat
  BY <1>1, WatchAssumption DEF Events, WatchAssumption
<1>. QED  BY <1>2 DEF Honest

(* ... when the first is taken ... *)
LEMMA HonestTail ==
  ASSUME NEW q \in Seq(Events), q # <<>>, NEW s, NEW n, NEW last, Honest(q, s, n, last)
  PROVE  Honest(Tail(q), s, n, last)
<1> DEFINE rest == Tail(q)
<1>1. /\ rest \in Seq(Events) /\ Len(rest) = Len(q) - 1 /\ Len(q) \in Nat
      /\ DOMAIN q = 1..Len(q) /\ DOMAIN rest = 1..Len(rest)
      /\ \A i \in 1..Len(rest) : i + 1 \in 1..Len(q) /\ rest[i] = q[i + 1]
      /\ \A k \in 2..Len(q) : k - 1 \in 1..Len(rest) /\ rest[k - 1] = q[k]
  OBVIOUS
<1> HIDE DEF rest
<1>2. Honest(rest, s, n, last)
  <2> SUFFICES ASSUME NEW i \in DOMAIN rest
               PROVE  /\ \E k \in i..Len(rest) :
                           rest[k] = Event(last[rest[i].job].kind, rest[i].job, last[rest[i].job].lines)
                      /\ rest[i].lines <= n[rest[i].job]
                      /\ rest[i].kind = "finished" =>
                           s[rest[i].job] \in {"finished", "evicted"} /\ rest[i].lines = n[rest[i].job]
                      /\ rest[i].kind = "evicted" => s[rest[i].job] = "evicted"
    BY DEF Honest
  <2>1. i \in 1..Len(rest) /\ i + 1 \in DOMAIN q /\ rest[i] = q[i + 1]
    BY <1>1
  <2>2. PICK k \in (i + 1)..Len(q) :
          q[k] = Event(last[rest[i].job].kind, rest[i].job, last[rest[i].job].lines)
    BY <2>1 DEF Honest
  <2>3. k \in 2..Len(q) /\ k - 1 \in i..Len(rest) /\ rest[k - 1] = q[k]
    BY <1>1, <2>1
  <2>4. \E m \in i..Len(rest) :
          rest[m] = Event(last[rest[i].job].kind, rest[i].job, last[rest[i].job].lines)
    BY <2>2, <2>3
  <2>5. /\ rest[i].lines <= n[rest[i].job]
        /\ rest[i].kind = "finished" =>
             s[rest[i].job] \in {"finished", "evicted"} /\ rest[i].lines = n[rest[i].job]
        /\ rest[i].kind = "evicted" => s[rest[i].job] = "evicted"
    BY <2>1 DEF Honest
  <2>. QED  BY <2>4, <2>5
<1>. QED  BY <1>2 DEF rest

(* ... and when one more is told. *)
LEMMA HonestAppend ==
  ASSUME NEW q \in Seq(Events), NEW e \in Events, NEW s, NEW n, NEW last, NEW last2,
         last2[e.job] = [kind |-> e.kind, lines |-> e.lines],
         \A j \in Jobs : j # e.job => last2[j] = last[j],
         e.lines <= n[e.job],
         e.kind = "finished" => s[e.job] \in {"finished", "evicted"} /\ e.lines = n[e.job],
         e.kind = "evicted" => s[e.job] = "evicted",
         Honest(q, s, n, last)
  PROVE  Honest(Append(q, e), s, n, last2)
<1> DEFINE more == Append(q, e)
<1>1. /\ more \in Seq(Events) /\ Len(more) = Len(q) + 1 /\ Len(q) \in Nat
      /\ \A i \in 1..Len(q) : more[i] = q[i]
      /\ more[Len(q) + 1] = e
  OBVIOUS
<1>2. e = Event(last2[e.job].kind, e.job, last2[e.job].lines)
  BY DEF Events, Event
<1> HIDE DEF more
<1>3. Honest(more, s, n, last2)
  <2> SUFFICES ASSUME NEW i \in DOMAIN more
               PROVE  /\ \E k \in i..Len(more) :
                           more[k] = Event(last2[more[i].job].kind, more[i].job, last2[more[i].job].lines)
                      /\ more[i].lines <= n[more[i].job]
                      /\ more[i].kind = "finished" =>
                           s[more[i].job] \in {"finished", "evicted"} /\ more[i].lines = n[more[i].job]
                      /\ more[i].kind = "evicted" => s[more[i].job] = "evicted"
    BY DEF Honest
  <2>1. i \in 1..Len(more) /\ Len(more) \in i..Len(more)
    BY <1>1
  <2>2. CASE i = Len(q) + 1
    <3>1. more[i] = e /\ more[Len(more)] = e
      BY <1>1, <2>2
    <3>. QED  BY <1>2, <2>1, <3>1
  <2>3. CASE i # Len(q) + 1
    <3>1. i \in DOMAIN q /\ more[i] = q[i]
      BY <1>1, <2>1, <2>3
    <3>2. /\ q[i].lines <= n[q[i].job]
          /\ q[i].kind = "finished" =>
               s[q[i].job] \in {"finished", "evicted"} /\ q[i].lines = n[q[i].job]
          /\ q[i].kind = "evicted" => s[q[i].job] = "evicted"
      BY <3>1 DEF Honest
    <3>3. \E k \in i..Len(more) :
            more[k] = Event(last2[q[i].job].kind, q[i].job, last2[q[i].job].lines)
      <4>1. CASE q[i].job = e.job
        BY <1>1, <1>2, <2>1, <4>1
      <4>2. CASE q[i].job # e.job
        <5>1. PICK k \in i..Len(q) : q[k] = Event(last[q[i].job].kind, q[i].job, last[q[i].job].lines)
          BY <3>1 DEF Honest
        <5>2. q[i].job \in Jobs
          <6>1. q[i] \in Events
            BY <3>1
          <6>. QED  BY <6>1 DEF Events
        <5>3. k \in 1..Len(q) /\ k \in i..Len(more)
          BY <1>1, <3>1
        <5>. QED  BY <1>1, <4>2, <5>1, <5>2, <5>3
      <4>. QED  BY <4>1, <4>2
    <3>. QED  BY <3>1, <3>2, <3>3
  <2>. QED  BY <2>2, <2>3
<1>. QED  BY <1>3 DEF more

(* What was told of a job is not newer than the job. *)
LEMMA ToldBorn ==
  ASSUME IInv, NEW j \in Jobs
  PROVE  /\ told[j].kind # "none" => life[j] # "new"
         /\ told[j].kind = "progress" => told[j].lines <= lines[j]
         /\ told[j].kind \in Kinds \cup {"none"} /\ told[j].lines \in Nat
         /\ life[j] \in {"new", "running", "finished", "evicted"} /\ lines[j] \in Nat
<1>1. /\ told[j].kind \in Kinds \cup {"none"} /\ told[j].lines \in Nat
      /\ life[j] \in {"new", "running", "finished", "evicted"} /\ lines[j] \in Nat
  BY WatchAssumption DEF IInv, WatchTypeOK, WatchAssumption
<1>2. CASE seen[j].here
  BY <1>1, <1>2 DEF IInv, SeenInv, ToldInv, Ended
<1>3. CASE ~seen[j].here
  <2>1. \/ told[j].kind \in {"none", "evicted"}
        \/ pass = "announced" /\ cur.job = j /\ told[j].kind = "created"
    BY <1>3 DEF IInv, SeenInv
  <2>2. CASE told[j].kind \in {"none", "evicted"}
    BY <1>1, <2>2 DEF IInv, ToldInv
  <2>3. CASE pass = "announced" /\ cur.job = j /\ told[j].kind = "created"
    BY <1>1, <2>3, AboutCur
  <2>. QED  BY <2>1, <2>2, <2>3
<1>. QED  BY <1>1, <1>2, <1>3

(* A job that goes on. *)
GoesOn(s, s2, n, n2) ==
  /\ n <= n2 /\ (n2 # n => s \notin {"finished", "evicted"})
  /\ \/ s2 = s
     \/ s = "new" /\ s2 = "running"
     \/ s = "running" /\ s2 = "finished"
     \/ s = "finished" /\ s2 = "evicted"

(* The registry lets jobs go on, unheard. *)
LEMMA RegistryEffect ==
  ASSUME IInv, Registry
  PROVE  /\ UNCHANGED <<inbox, told>>
         /\ \A j \in Jobs : GoesOn(life[j], life'[j], lines[j], lines'[j])
<1> PICK i \in Jobs : CreateJob(i) \/ PushLine(i) \/ EndJob(i) \/ EvictJob(i)
  BY DEF Registry
<1>0. life \in [Jobs -> {"new", "running", "finished", "evicted"}] /\ lines \in [Jobs -> Nat]
  BY WatchAssumption DEF IInv, WatchTypeOK, WatchAssumption
<1>1. CASE CreateJob(i)
  BY <1>0, <1>1 DEF CreateJob, GoesOn
<1>2. CASE PushLine(i)
  BY <1>0, <1>2 DEF PushLine, GoesOn
<1>3. CASE EndJob(i)
  BY <1>0, <1>3 DEF EndJob, GoesOn
<1>4. CASE EvictJob(i)
  BY <1>0, <1>4 DEF EvictJob, GoesOn
<1>. QED  BY <1>1, <1>2, <1>3, <1>4

(* An event that may be published. *)
Tellable(e, old, s, n) ==
  /\ e.kind \in {"progress", "finished"} => old.kind # "none"
  /\ e.kind = "finished" => s \in {"finished", "evicted"} /\ e.lines = n
  /\ e.kind = "evicted" => s = "evicted"
  /\ e.lines <= n

(* The watch leaves the registry alone; it is silent or it publishes one event, which is
   true of the registry. *)
LEMMA WatchEffect ==
  ASSUME IInv, Watch
  PROVE  /\ UNCHANGED <<life, lines>>
         /\ \/ UNCHANGED <<inbox, told>>
            \/ \E e \in Events : Publish(e) /\ Tellable(e, told[e.job], life[e.job], lines[e.job])
<1> USE WatchAssumption DEF WatchAssumption
<1>1. CASE Snapshot \/ (\E i \in Jobs : ReadState(i)) \/ ReadCount \/ PassDone
  BY <1>1 DEF Snapshot, ReadState, ReadCount, PassDone, Silent, registryVars
<1>2. CASE Announce
  <2>0. UNCHANGED <<life, lines>> /\ pass = "count"
    BY <1>2 DEF Announce, AnnounceUnless, registryVars
  <2>1. cur.job \in Jobs /\ lines[cur.job] \in Nat
    BY DEF IInv, WatchTypeOK
  <2> DEFINE e == Event("created", cur.job, 0)
  <2>2. e \in Events /\ e.kind = "created" /\ e.job = cur.job /\ e.lines = 0
    BY <2>1 DEF Events, Event, Kinds
  <2>3. UNCHANGED <<inbox, told>> \/ Publish(e)
    BY <1>2 DEF Announce, AnnounceUnless, Silent
  <2> HIDE DEF e
  <2>4. Tellable(e, told[e.job], life[e.job], lines[e.job])
    BY <2>1, <2>2 DEF Tellable
  <2>. QED  BY <2>0, <2>2, <2>3, <2>4
<1>3. CASE Report
  <2>0. UNCHANGED <<life, lines>> /\ pass = "announced"
    BY <1>3 DEF Report, registryVars
  <2>1. /\ cur.job \in Jobs /\ cur.lines \in 0..MaxLines /\ cur.lines <= lines[cur.job]
        /\ cur.running \in BOOLEAN
        /\ ~cur.running => Ended(cur.job) /\ cur.lines = lines[cur.job]
    BY <2>0, AboutCur
  <2>2. told[cur.job].kind # "none"
    <3>1. ~seen[cur.job].here => told[cur.job].kind = "created"
      BY <2>0 DEF IInv, CurInv
    <3>. QED  BY <2>1, <3>1 DEF IInv, SeenInv
  <2> DEFINE e == Event(IF cur.running THEN "progress" ELSE "finished", cur.job, cur.lines)
  <2>3. /\ e \in Events /\ e.job = cur.job /\ e.lines = cur.lines
        /\ e.kind = IF cur.running THEN "progress" ELSE "finished"
    BY <2>1 DEF Events, Event, Kinds
  <2>4. UNCHANGED <<inbox, told>> \/ Publish(e)
    BY <1>3 DEF Report, ReportRunning, ReportEnded, EndedUnless, Progress, Silent
  <2> HIDE DEF e
  <2>5. Tellable(e, told[e.job], life[e.job], lines[e.job])
    BY <2>1, <2>2, <2>3 DEF Tellable, Ended
  <2>. QED  BY <2>0, <2>3, <2>4, <2>5
<1>4. ASSUME NEW i \in Jobs, Sweep(i)
      PROVE  /\ UNCHANGED <<life, lines>>
             /\ \E e \in Events : Publish(e) /\ Tellable(e, told[e.job], life[e.job], lines[e.job])
  <2>0. UNCHANGED <<life, lines>> /\ lines[i] \in Nat
    BY <1>4 DEF Sweep, registryVars, IInv, WatchTypeOK
  <2>1. life[i] = "evicted"
    BY <1>4 DEF Sweep, IInv, GoneInv
  <2> DEFINE e == Event("evicted", i, 0)
  <2>2. e \in Events /\ e.kind = "evicted" /\ e.job = i /\ e.lines = 0
    BY DEF Events, Event, Kinds
  <2>3. Publish(e)
    BY <1>4 DEF Sweep
  <2> HIDE DEF e
  <2>4. Tellable(e, told[e.job], life[e.job], lines[e.job])
    BY <2>0, <2>1, <2>2 DEF Tellable
  <2>. QED  BY <2>0, <2>2, <2>3, <2>4
<1>. QED  BY <1>1, <1>2, <1>3, <1>4 DEF Watch

(* An evicted job was told to have ended, and nothing but its eviction is told after
   that. *)
LEMMA EvictedKept ==
  ASSUME OutlivesPass, IInv, EvictedInv, [WatchNext]_watchVars
  PROVE  EvictedInv'
<1> SUFFICES ASSUME NEW j \in Jobs, life'[j] = "evicted"
             PROVE  told'[j].kind \in {"finished", "evicted"}
  BY DEF EvictedInv
<1>1. IInv'
  BY NextKeeps
<1>2. CASE Registry
  <2>1. told' = told
    BY <1>2, RegistryEffect
  <2>2. CASE life[j] = "evicted"
    BY <2>1, <2>2 DEF EvictedInv
  <2>3. CASE life[j] # "evicted"
    <3>1. EvictJob(j)
      BY <1>2, <2>3 DEF Registry, CreateJob, PushLine, EndJob, EvictJob, IInv, WatchTypeOK
    <3>2. seen[j].here /\ ~seen[j].running
      BY <3>1 DEF EvictJob
    <3>. QED  BY <2>1, <3>2 DEF IInv, SeenInv
  <2>. QED  BY <2>2, <2>3
<1>3. CASE ~Registry
  <2>1. life' = life
    BY <1>3, WatchEffect DEF WatchNext, Subscribers, Subscribe, Leave, Heed, Receive, Box, watchVars, registryVars
  <2>2. told[j].kind \in {"finished", "evicted"}
    BY <2>1 DEF EvictedInv
  <2>3. told'[j] # told[j] => Follows(told'[j], told[j])
    BY StepFollows
  <2>4. told'[j] # told[j] => told'[j].kind \in Kinds
    <3>1. UNCHANGED told \/ \E e \in Events : Publish(e)
      BY <1>3, WatchEffect DEF WatchNext, Subscribers, Subscribe, Leave, Heed, Receive, Box, watchVars
    <3>2. ASSUME NEW e \in Events, Publish(e), told'[j] # told[j] PROVE told'[j].kind \in Kinds
      <4>1. WatchTypeOK
        BY DEF IInv
      <4>2. told'[e.job] = [kind |-> e.kind, lines |-> e.lines] /\ e.job = j
        BY <3>2, <4>1, PublishType
      <4>. QED  BY <4>2 DEF Events
    <3>. QED  BY <3>1, <3>2
  <2>5. CASE told'[j] = told[j]
    BY <2>2, <2>5
  <2>6. CASE told'[j] # told[j]
    <3>1. Follows(told'[j], told[j]) /\ told'[j].kind \in Kinds
      BY <2>3, <2>4, <2>6
    <3>. QED  BY <2>2, <3>1 DEF Follows, Kinds
  <2>. QED  BY <2>5, <2>6
<1>. QED  BY <1>2, <1>3

(* What a replay of a list says. *)
LEMMA ReplaySays ==
  ASSUME NEW list \in Lists, NEW r \in Replays(list)
  PROVE  /\ r \in Seq(Events)
         /\ \A i \in DOMAIN r :
              /\ r[i].kind \in {"created", "progress", "finished"}
              /\ r[i].kind = "created" =>
                   \E k \in DOMAIN r : /\ k > i /\ r[k].job = r[i].job
                                       /\ r[k].kind \in {"progress", "finished"}
              /\ r[i].kind \in {"progress", "finished"} =>
                   list[r[i].job] = Look(r[i].kind = "progress", r[i].lines)
         /\ \A j \in Jobs : list[j].here => In(r, {"created"}, j)
<1> DEFINE S == {j \in Jobs : list[j].here}
           n == Cardinality(S)
<1>1. n \in Nat
  <2>1. IsFiniteSet(Jobs) /\ S \subseteq Jobs
    BY MonitorAssumption DEF MonitorAssumption
  <2>2. IsFiniteSet(S)
    BY <2>1, FS_Subset
  <2>. QED  BY <2>2, FS_CardinalityType
<1>2. PICK order \in Orders(S) : r = ReplayInOrder(order, list)
  BY DEF Replays
<1>3. /\ order \in [1..n -> S]
      /\ \A j \in S : \E k \in 1..n : order[k] = j
  BY <1>2 DEF Orders
<1> HIDE DEF n
<1>4. order \in Seq(S) /\ Len(order) = n
  BY <1>1, <1>3
<1>5. r = [i \in 1..(2 * n) |->
             IF i % 2 = 1 THEN Event("created", order[(i + 1) \div 2], 0)
             ELSE Spoken(order[(i + 1) \div 2], list[order[(i + 1) \div 2]])]
  BY <1>2, <1>4 DEF ReplayInOrder
<1>6. \A k \in 1..n :
        /\ 2 * k - 1 \in 1..(2 * n) /\ 2 * k \in 1..(2 * n)
        /\ (2 * k - 1) % 2 = 1 /\ (2 * k) % 2 = 0
        /\ (2 * k - 1 + 1) \div 2 = k /\ (2 * k + 1) \div 2 = k
  BY <1>1
<1>7. \A i \in 1..(2 * n) :
        /\ (i + 1) \div 2 \in 1..n
        /\ i % 2 \in {0, 1}
        /\ i = IF i % 2 = 1 THEN 2 * ((i + 1) \div 2) - 1 ELSE 2 * ((i + 1) \div 2)
  BY <1>1
<1>8. \A k \in 1..n :
        /\ r[2 * k - 1] = Event("created", order[k], 0)
        /\ r[2 * k] = Spoken(order[k], list[order[k]])
  BY <1>5, <1>6
<1>9. \A k \in 1..n : order[k] \in Jobs /\ list[order[k]].here /\ list[order[k]] \in Looks
  BY <1>3 DEF Lists, Absent
<1>10. \A k \in 1..n :
         /\ r[2 * k - 1].kind = "created" /\ r[2 * k - 1].job = order[k]
         /\ r[2 * k].job = order[k] /\ r[2 * k].kind \in {"progress", "finished"}
         /\ list[order[k]] = Look(r[2 * k].kind = "progress", r[2 * k].lines)
  <2> SUFFICES ASSUME NEW k \in 1..n
               PROVE  /\ r[2 * k - 1].kind = "created" /\ r[2 * k - 1].job = order[k]
                      /\ r[2 * k].job = order[k] /\ r[2 * k].kind \in {"progress", "finished"}
                      /\ list[order[k]] = Look(r[2 * k].kind = "progress", r[2 * k].lines)
    OBVIOUS
  <2> DEFINE look == list[order[k]]
  <2>1. look \in Looks /\ look.running \in BOOLEAN
    BY <1>9 DEF Looks
  <2>2. look = Look(look.running, look.lines)
    BY <2>1 DEF Looks, Look
  <2>3. r[2 * k] = Event(IF look.running THEN "progress" ELSE "finished", order[k], look.lines)
    BY <1>8 DEF Spoken
  <2> HIDE DEF look
  <2>4. /\ r[2 * k].job = order[k] /\ r[2 * k].lines = look.lines
        /\ r[2 * k].kind = IF look.running THEN "progress" ELSE "finished"
    BY <2>3 DEF Event
  <2>5. (r[2 * k].kind = "progress") = look.running
    BY <2>1, <2>4
  <2>6. look = Look(r[2 * k].kind = "progress", r[2 * k].lines)
    BY <2>2, <2>4, <2>5
  <2>7. r[2 * k - 1].kind = "created" /\ r[2 * k - 1].job = order[k]
    <3> DEFINE e == r[2 * k - 1]
    <3>1. e = Event("created", order[k], 0)
      BY <1>8
    <3> HIDE DEF e
    <3>2. e.kind = "created" /\ e.job = order[k]
      BY <3>1 DEF Event
    <3>. QED  BY <3>2 DEF e
  <2>. QED  BY <2>4, <2>6, <2>7 DEF look
<1>11. r \in Seq(Events)
  <2>1. \A i \in 1..(2 * n) : r[i] \in Events
    <3>1. ASSUME NEW k \in 1..n PROVE r[2 * k - 1] \in Events /\ r[2 * k] \in Events
      <4> DEFINE look == list[order[k]]
      <4>0. order[k] \in Jobs /\ look \in Looks
        BY <1>9
      <4> HIDE DEF look
      <4>1. order[k] \in Jobs /\ look.lines \in 0..MaxLines /\ 0 \in 0..MaxLines
        BY <4>0, WatchAssumption DEF Looks, WatchAssumption
      <4>2. \A kind \in Kinds : /\ Event(kind, order[k], look.lines) \in Events
                                /\ Event(kind, order[k], 0) \in Events
        BY <4>1 DEF Event, Events
      <4>3. /\ Event("created", order[k], 0) \in Events
            /\ Event("progress", order[k], look.lines) \in Events
            /\ Event("finished", order[k], look.lines) \in Events
        BY <4>2 DEF Kinds
      <4>4. r[2 * k - 1] = Event("created", order[k], 0)
        BY <1>8
      <4>5. r[2 * k] = Spoken(order[k], look)
        BY <1>8 DEF look
      <4>6. r[2 * k] \in Events
        BY <4>3, <4>5 DEF Spoken
      <4>. QED  BY <4>3, <4>4, <4>6
    <3>. QED  BY <1>7, <3>1
  <2>2. r \in [1..(2 * n) -> Events] /\ 2 * n \in Nat
    BY <1>1, <1>5, <2>1
  <2>. QED  BY <2>2
<1>12. DOMAIN r = 1..(2 * n)
  BY <1>5
<1>13. \A j \in Jobs : list[j].here => In(r, {"created"}, j)
  <2> SUFFICES ASSUME NEW j \in S PROVE In(r, {"created"}, j)
    OBVIOUS
  <2>1. PICK k \in 1..n : order[k] = j
    BY <1>3
  <2>2. 2 * k - 1 \in DOMAIN r /\ r[2 * k - 1].job = j /\ r[2 * k - 1].kind \in {"created"}
    BY <1>6, <1>10, <1>12, <2>1
  <2>. QED  BY <2>2 DEF In
<1>14. ASSUME NEW i \in DOMAIN r
       PROVE  /\ r[i].kind \in {"created", "progress", "finished"}
              /\ r[i].kind = "created" =>
                   \E k \in DOMAIN r : /\ k > i /\ r[k].job = r[i].job
                                       /\ r[k].kind \in {"progress", "finished"}
              /\ r[i].kind \in {"progress", "finished"} =>
                   list[r[i].job] = Look(r[i].kind = "progress", r[i].lines)
  <2> DEFINE k == (i + 1) \div 2
  <2>1. i \in 1..(2 * n) /\ k \in 1..n /\ (i = 2 * k - 1 \/ i = 2 * k)
    BY <1>7, <1>12
  <2> HIDE DEF k
  <2>2. CASE i = 2 * k - 1
    <3>1. r[i].kind = "created" /\ r[i].job = order[k]
      BY <1>10, <2>1, <2>2
    <3>2. 2 * k \in DOMAIN r /\ 2 * k > i
      BY <1>6, <1>12, <2>1, <2>2
    <3>3. r[2 * k].job = order[k] /\ r[2 * k].kind \in {"progress", "finished"}
      BY <1>10, <2>1
    <3>. QED  BY <3>1, <3>2, <3>3
  <2>3. CASE i = 2 * k
    <3>1. /\ r[i].job = order[k] /\ r[i].kind \in {"progress", "finished"}
          /\ list[order[k]] = Look(r[i].kind = "progress", r[i].lines)
      BY <1>10, <2>1, <2>3
    <3>. QED  BY <3>1
  <2>. QED  BY <2>1, <2>2, <2>3
<1>. QED  BY <1>11, <1>13, <1>14

(* The monitor's subscription, and the looks that the invariant is about. *)
LEMMA MonitorTypes ==
  ASSUME TypeOK
  PROVE  /\ Me \in Watchers /\ inbox[Me] \in Boxes /\ Coming \in Seq(Events)
         /\ inbox[Me].behind \in BOOLEAN /\ inbox[Me].open \in BOOLEAN
         /\ \A i \in DOMAIN replay : replay[i] \in Events
         /\ \A e \in Events : /\ e.job \in Jobs /\ e.lines \in 0..MaxLines
                              /\ Look(TRUE, e.lines) \in Looks /\ Look(FALSE, e.lines) \in Looks
         /\ \A j \in Jobs : /\ view[j] \in Looks \cup {Absent}
                            /\ reading[j] \in Looks \cup {Absent}
                            /\ WithCounts(reading)[j] =
                                 IF reading[j].here THEN Look(reading[j].running, lines[j]) ELSE Absent
<1>1. Me \in Watchers
  BY MonitorAssumption DEF MonitorAssumption
<1>2. inbox \in [Watchers -> Boxes]
  BY InboxBoxes DEF TypeOK, WatchTypeOK
<1>3. inbox[Me] \in Boxes
  BY <1>1, <1>2
<1>4. Coming \in Seq(Events) /\ inbox[Me].behind \in BOOLEAN /\ inbox[Me].open \in BOOLEAN
  BY <1>3 DEF Coming, Boxes
<1>5. \A i \in DOMAIN replay : replay[i] \in Events
  BY DEF TypeOK
<1>6. \A e \in Events : /\ e.job \in Jobs /\ e.lines \in 0..MaxLines
                        /\ Look(TRUE, e.lines) \in Looks /\ Look(FALSE, e.lines) \in Looks
  BY DEF Events, Look, Looks
<1>7. \A j \in Jobs : /\ view[j] \in Looks \cup {Absent}
                      /\ reading[j] \in Looks \cup {Absent}
                      /\ WithCounts(reading)[j] =
                           IF reading[j].here THEN Look(reading[j].running, lines[j]) ELSE Absent
  BY DEF TypeOK, Lists, WithCounts
<1>. QED  BY <1>1, <1>3, <1>4, <1>5, <1>6, <1>7

(* How a look fits after a step. *)
FitsNext(look, j) == Fits(look, j, life'[j], lines'[j], told'[j], inbox'[Me].queue)

(* The invariant is kept by a step that touches neither the stream nor the list, if what
   fitted goes on to fit. *)
LEMMA SteadyKeeps ==
  ASSUME TypeOK, ReplayInv, ViewInv, UNCHANGED <<streamVars, viewVars>>,
         ~inbox'[Me].behind => ~inbox[Me].behind,
         ~inbox'[Me].behind =>
           \A j \in Jobs : /\ \A look \in Looks \cup {Absent} : FitsNow(look, j) => FitsNext(look, j)
                           /\ conn = "counting" /\ FitsNow(WithCounts(reading)[j], j)
                                => FitsNext(WithCounts(reading)'[j], j)
  PROVE  ReplayInv' /\ ViewInv'
<1>1. UNCHANGED <<conn, replay, reading, view, sound>>
  BY DEF streamVars, viewVars
<1>2. ReplayInv'
  <2>1. (conn # "live" => replay = <<>>)'
    BY <1>1 DEF ReplayInv
  <2>2. ASSUME ~inbox'[Me].behind, conn = "counting", NEW j \in Jobs
        PROVE  FitsNext(WithCounts(reading)'[j], j)
    BY <2>2 DEF ReplayInv
  <2>3. ASSUME ~inbox'[Me].behind, NEW i \in DOMAIN replay
        PROVE  /\ replay[i].kind # "evicted"
               /\ replay[i].kind = "created" =>
                    \E k \in DOMAIN replay : /\ k > i /\ replay[k].job = replay[i].job
                                             /\ replay[k].kind \in {"progress", "finished"}
               /\ replay[i].kind = "progress" => FitsNext(Look(TRUE, replay[i].lines), replay[i].job)
               /\ replay[i].kind = "finished" => FitsNext(Look(FALSE, replay[i].lines), replay[i].job)
    <3> DEFINE e == replay[i]
    <3>1. /\ e.job \in Jobs
          /\ Look(TRUE, e.lines) \in Looks \cup {Absent} /\ Look(FALSE, e.lines) \in Looks \cup {Absent}
      BY MonitorTypes
    <3>2. /\ e.kind # "evicted"
          /\ e.kind = "created" =>
               \E k \in DOMAIN replay : /\ k > i /\ replay[k].job = e.job
                                        /\ replay[k].kind \in {"progress", "finished"}
          /\ e.kind = "progress" => FitsNow(Look(TRUE, e.lines), e.job)
          /\ e.kind = "finished" => FitsNow(Look(FALSE, e.lines), e.job)
      BY <2>3 DEF ReplayInv
    <3> HIDE DEF e
    <3>3. /\ e.kind = "progress" => FitsNext(Look(TRUE, e.lines), e.job)
          /\ e.kind = "finished" => FitsNext(Look(FALSE, e.lines), e.job)
      BY <2>3, <3>1, <3>2
    <3>. QED  BY <3>2, <3>3 DEF e
  <2>. QED  BY <1>1, <2>1, <2>2, <2>3 DEF ReplayInv, FitsNow, FitsNext, Coming
<1>3. ViewInv'
  <2>1. ASSUME sound, ~inbox'[Me].behind, NEW j \in Jobs
        PROVE  IF ~view[j].here
               THEN \/ conn \in {"down", "snapshot", "counting"}
                    \/ FitsNext(view[j], j) \/ In(replay, {"created"}, j)
               ELSE /\ conn # "down"
                    /\ ~FitsNext(view[j], j) =>
                         view[j].running /\ In(replay, {"progress", "finished"}, j)
    <3>1. view[j] \in Looks \cup {Absent}
      BY MonitorTypes
    <3>2. FitsNow(view[j], j) => FitsNext(view[j], j)
      BY <2>1, <3>1
    <3>. QED  BY <2>1, <3>2 DEF ViewInv
  <2>. QED  BY <1>1, <2>1 DEF ViewInv, FitsNow, FitsNext, Coming
<1>. QED  BY <1>2, <1>3

(* At first nothing is on its way and nothing is shown. *)
LEMMA MonitorInit == Init => MonitorInv
<1> SUFFICES ASSUME Init PROVE MonitorInv
  OBVIOUS
<1>0. Me \in Watchers /\ MaxFaults \in Nat
  BY MonitorAssumption DEF MonitorAssumption
<1>1. inbox[Me] = Closed /\ WatchTypeOK
  BY <1>0, InitInv DEF Init, WatchInit, IInv
<1>2. TypeOK
  <2>1. fetch \in [Fetchers -> [at : {"idle", "counting", "answered"}, list : Lists]] /\ fetch["lag"].at = "idle"
    BY DEF Init, Fetchers, Idle, Lists
  <2>2. [j \in Jobs |-> Absent] \in Lists
    BY DEF Lists
  <2>3. /\ conn = "down" /\ replay = <<>> /\ sound = TRUE /\ faults = 0
        /\ reading = [j \in Jobs |-> Absent] /\ view = [j \in Jobs |-> Absent]
    BY DEF Init
  <2>4. replay \in Seq(Events) /\ faults \in 0..MaxFaults /\ reading \in Lists /\ view \in Lists
    BY <1>0, <2>2, <2>3
  <2>5. inbox[Me].open = FALSE
    BY <1>1 DEF Closed
  <2>. QED  BY <1>1, <2>1, <2>3, <2>4, <2>5 DEF TypeOK
<1>3. ComingInv
  BY <1>1 DEF ComingInv, Coming, Honest, Closed
<1>4. EvictedInv
  BY DEF EvictedInv, Init, WatchInit
<1>5. ReplayInv
  BY DEF ReplayInv, Init
<1>6. ViewInv
  BY DEF ViewInv, Init, Absent
<1>. QED  BY <1>2, <1>3, <1>4, <1>5, <1>6 DEF MonitorInv

(* The server's steps leave the monitor's own state alone, and its subscription open or
   closed. *)
LEMMA ServerLeaves ==
  ASSUME TypeOK, WatchTypeOK', UNCHANGED <<streamVars, fetch, viewVars, faults>>,
         inbox'[Me].open = inbox[Me].open
  PROVE  TypeOK'
BY DEF TypeOK, streamVars, viewVars

(* The registry goes on, or the watch without telling: what fitted fits. *)
LEMMA QuietKeeps ==
  ASSUME IInv, IInv', MonitorInv, UNCHANGED <<streamVars, fetch, viewVars, faults>>,
         UNCHANGED <<inbox, told>>,
         \A j \in Jobs : GoesOn(life[j], life'[j], lines[j], lines'[j])
  PROVE  TypeOK' /\ ComingInv' /\ ReplayInv' /\ ViewInv'
<1>t. TypeOK
  BY DEF MonitorInv
<1>n. lines \in [Jobs -> Nat] /\ lines' \in [Jobs -> Nat]
  BY WatchAssumption DEF IInv, WatchTypeOK, WatchAssumption
<1>q. Coming \in Seq(Events)
  BY <1>t, MonitorTypes
<1>1. TypeOK'
  BY <1>t, ServerLeaves DEF IInv
<1>2. ComingInv'
  <2>1. Honest(Coming, life, lines, told)
    BY DEF MonitorInv, ComingInv
  <2>2. \A j \in Jobs : /\ lines[j] <= lines'[j]
                        /\ life[j] \in {"finished", "evicted"} =>
                             life'[j] \in {"finished", "evicted"} /\ lines'[j] = lines[j]
                        /\ life[j] = "evicted" => life'[j] = "evicted"
    BY DEF GoesOn
  <2>3. Honest(Coming, life', lines', told)
    BY <1>n, <1>q, <2>1, <2>2, HonestOn
  <2>. QED  BY <2>3 DEF MonitorInv, ComingInv, Coming
<1>3. ASSUME NEW j \in Jobs, NEW look \in Looks \cup {Absent}, FitsNow(look, j)
      PROVE  FitsNext(look, j)
  <2>1. GoesOn(life[j], life'[j], lines[j], lines'[j]) /\ lines[j] \in Nat /\ lines'[j] \in Nat
    BY <1>n
  <2>2. Fits(look, j, life[j], lines[j], told[j], Coming)
    BY <1>3 DEF FitsNow
  <2>3. Fits(look, j, life'[j], lines'[j], told[j], Coming)
    BY <2>1, <2>2, FitsOn DEF GoesOn
  <2>. QED  BY <2>3 DEF FitsNext, Coming
<1>4. ASSUME NEW j \in Jobs, FitsNow(WithCounts(reading)[j], j)
      PROVE  FitsNext(WithCounts(reading)'[j], j)
  <2>1. /\ lines[j] <= lines'[j] /\ (lines'[j] # lines[j] => life[j] \notin {"finished", "evicted"})
        /\ lines[j] \in Nat /\ lines'[j] \in Nat
    BY <1>n DEF GoesOn
  <2>2. /\ reading[j] \in Looks \cup {Absent}
        /\ WithCounts(reading)[j] = IF reading[j].here THEN Look(reading[j].running, lines[j]) ELSE Absent
    BY <1>t, MonitorTypes
  <2>3. WithCounts(reading)'[j] = IF reading[j].here THEN Look(reading[j].running, lines'[j]) ELSE Absent
    BY DEF WithCounts, streamVars
  <2>4. told[j].kind = "progress" => told[j].lines \in Nat /\ told[j].lines <= lines[j]
    BY ToldBorn
  <2> DEFINE old == IF reading[j].here THEN Look(reading[j].running, lines[j]) ELSE Absent
             new == IF reading[j].here THEN Look(reading[j].running, lines'[j]) ELSE Absent
  <2>5. Fits(old, j, life[j], lines[j], told[j], Coming)
    BY <1>4, <2>2 DEF FitsNow
  <2>6. Fits(new, j, life[j], lines'[j], told[j], Coming)
    BY <2>1, <2>2, <2>4, <2>5, FitsCounted
  <2>7. new \in Looks \cup {Absent}
    <3>1. new = WithCounts(reading)'[j] /\ reading \in Lists /\ reading' \in Lists
      BY <1>1, <1>t, <2>3 DEF TypeOK
    <3>2. lines'[j] \in 0..MaxLines
      BY DEF IInv, WatchTypeOK
    <3>3. reading[j].running \in BOOLEAN
      BY <2>2, LookType
    <3>. QED  BY <3>2, <3>3 DEF Look, Looks
  <2> HIDE DEF new, old
  <2>8. lines'[j] <= lines'[j] /\ GoesOn(life[j], life'[j], lines[j], lines'[j])
    BY <2>1
  <2>9. Fits(new, j, life'[j], lines'[j], told[j], Coming)
    BY <2>1, <2>6, <2>7, <2>8, FitsOn DEF GoesOn
  <2>. QED  BY <2>3, <2>9 DEF FitsNext, Coming, new
<1>5. ReplayInv' /\ ViewInv'
  BY <1>t, <1>3, <1>4, SteadyKeeps DEF MonitorInv
<1>. QED  BY <1>1, <1>2, <1>5

(* The watch tells: a subscriber that keeps up gets the event, one that does not is
   behind, and one that is gone shows nothing it could be wrong about. *)
LEMMA TellKeeps ==
  ASSUME IInv, IInv', MonitorInv, UNCHANGED <<streamVars, fetch, viewVars, faults>>,
         UNCHANGED <<life, lines>>, NEW e \in Events, Publish(e),
         Tellable(e, told[e.job], life[e.job], lines[e.job])
  PROVE  TypeOK' /\ ComingInv' /\ ReplayInv' /\ ViewInv'
<1>t. TypeOK /\ WatchTypeOK
  BY DEF MonitorInv, IInv
<1>q. /\ Me \in Watchers /\ inbox[Me] \in Boxes /\ Coming \in Seq(Events)
      /\ inbox[Me].open \in BOOLEAN /\ e.job \in Jobs
  BY <1>t, MonitorTypes
<1>b. inbox'[Me] = Delivered(inbox[Me], e)
  BY <1>q DEF Publish
<1>e. /\ told'[e.job] = [kind |-> e.kind, lines |-> e.lines]
      /\ \A j \in Jobs : j # e.job => told'[j] = told[j]
  BY <1>t, PublishType
<1>h. Honest(Coming, life, lines, told)
  BY DEF MonitorInv, ComingInv
<1>k. /\ e.lines <= lines[e.job]
      /\ e.kind = "finished" => life[e.job] \in {"finished", "evicted"} /\ e.lines = lines[e.job]
      /\ e.kind = "evicted" => life[e.job] = "evicted"
  BY DEF Tellable
<1>1. CASE ~inbox[Me].open
  <2>1. inbox'[Me] = inbox[Me] /\ inbox[Me] = Closed /\ conn = "down" /\ conn' = conn /\ replay' = replay
    BY <1>1, <1>b, <1>t DEF Delivered, MonitorInv, ComingInv, TypeOK, streamVars
  <2>2. TypeOK'
    BY <1>t, <2>1, ServerLeaves DEF IInv
  <2>3. ComingInv'
    BY <2>1 DEF ComingInv, Coming, Closed, Honest
  <2>4. replay = <<>>
    BY <2>1 DEF MonitorInv, ReplayInv
  <2>5. ReplayInv'
    BY <2>1, <2>4 DEF ReplayInv
  <2>6. ViewInv'
    BY <2>1, <2>4 DEF MonitorInv, ViewInv, In, viewVars
  <2>. QED  BY <2>2, <2>3, <2>5, <2>6
<1>2. CASE inbox[Me].open /\ Len(Coming) < Capacity
  <2>1. inbox'[Me] = [inbox[Me] EXCEPT !.queue = Append(@, e)]
    BY <1>2, <1>b DEF Delivered, Coming
  <2>2. /\ inbox'[Me].queue = Append(Coming, e) /\ inbox'[Me].open = inbox[Me].open
        /\ inbox'[Me].behind = inbox[Me].behind
    BY <1>q, <2>1 DEF Boxes, Coming
  <2>3. TypeOK'
    BY <1>t, <2>2, ServerLeaves DEF IInv
  <2>4. Honest(Append(Coming, e), life, lines, told')
    BY <1>q, <1>e, <1>h, <1>k, HonestAppend
  <2>5. ComingInv'
    BY <1>2, <2>2, <2>4 DEF ComingInv, Coming
  <2>6. ASSUME NEW j \in Jobs, NEW look, FitsNow(look, j)
        PROVE  FitsNext(look, j)
    <3>1. /\ e.job = j => told'[j].kind = e.kind /\ told'[j].lines = e.lines
          /\ e.job # j => told'[j] = told[j]
          /\ e.job = j /\ e.kind \in {"progress", "finished"} => told[j].kind # "none"
          /\ e.job = j /\ e.kind = "evicted" => life[j] = "evicted"
      BY <1>e, <1>k DEF Tellable
    <3>2. Fits(look, j, life[j], lines[j], told[j], Coming)
      BY <2>6 DEF FitsNow
    <3>3. Fits(look, j, life[j], lines[j], told'[j], Append(Coming, e))
      BY <1>q, <3>1, <3>2, FitsTold
    <3>. QED  BY <2>2, <3>3 DEF FitsNext
  <2>7. WithCounts(reading)' = WithCounts(reading)
    BY DEF WithCounts, streamVars
  <2>8. ReplayInv' /\ ViewInv'
    BY <1>t, <2>2, <2>6, <2>7, SteadyKeeps DEF MonitorInv
  <2>. QED  BY <2>3, <2>5, <2>8
<1>3. CASE inbox[Me].open /\ ~(Len(Coming) < Capacity)
  <2>1. inbox'[Me] = [open |-> TRUE, queue |-> Append(Tail(Coming), e), behind |-> TRUE]
    BY <1>3, <1>b DEF Delivered, Coming
  <2>2. Coming # <<>>
    BY <1>3, <1>q, WatchAssumption DEF WatchAssumption
  <2>3. TypeOK'
    BY <1>3, <1>t, <2>1, ServerLeaves DEF IInv
  <2> DEFINE rest == Tail(Coming)
  <2>4. rest \in Seq(Events) /\ Honest(rest, life, lines, told)
    BY <1>q, <1>h, <2>2, HonestTail
  <2> HIDE DEF rest
  <2>5. Honest(Append(rest, e), life, lines, told')
    BY <1>q, <1>e, <1>k, <2>4, HonestAppend
  <2>6. ComingInv'
    BY <1>3, <2>1, <2>5 DEF ComingInv, Coming, rest
  <2>7. inbox'[Me].behind
    BY <2>1
  <2>8. ReplayInv'
    BY <2>7 DEF MonitorInv, ReplayInv, streamVars
  <2>9. ViewInv'
    BY <2>7 DEF ViewInv
  <2>. QED  BY <2>3, <2>6, <2>8, <2>9
<1>. QED  BY <1>1, <1>2, <1>3

(* The server keeps the invariant. *)
LEMMA ServerKeeps ==
  ASSUME OutlivesPass, IInv, MonitorInv, Server
  PROVE  MonitorInv'
<1>1. [WatchNext]_watchVars
  BY DEF Server, WatchNext
<1>2. IInv'
  BY <1>1, NextKeeps
<1>3. EvictedInv'
  BY <1>1, EvictedKept DEF MonitorInv
<1>4. UNCHANGED <<streamVars, fetch, viewVars, faults>>
  BY DEF Server
<1>5. CASE Registry
  BY <1>2, <1>3, <1>4, <1>5, RegistryEffect, QuietKeeps DEF MonitorInv
<1>6. CASE Watch
  <2>1. /\ UNCHANGED <<life, lines>>
        /\ \/ UNCHANGED <<inbox, told>>
           \/ \E e \in Events : Publish(e) /\ Tellable(e, told[e.job], life[e.job], lines[e.job])
    BY <1>6, WatchEffect
  <2>2. CASE UNCHANGED <<inbox, told>>
    <3>1. \A j \in Jobs : GoesOn(life[j], life'[j], lines[j], lines'[j])
      BY <2>1, WatchAssumption DEF GoesOn, IInv, WatchTypeOK, WatchAssumption
    <3>2. TypeOK' /\ ComingInv' /\ ReplayInv' /\ ViewInv'
      BY <1>2, <1>4, <2>2, <3>1, QuietKeeps
    <3>. QED  BY <1>3, <3>2 DEF MonitorInv
  <2>3. ASSUME NEW e \in Events, Publish(e), Tellable(e, told[e.job], life[e.job], lines[e.job])
        PROVE  MonitorInv'
    <3>1. TypeOK' /\ ComingInv' /\ ReplayInv' /\ ViewInv'
      BY <1>2, <1>4, <2>1, <2>3, TellKeeps
    <3>. QED  BY <1>3, <3>1 DEF MonitorInv
  <2>. QED  BY <2>1, <2>2, <2>3
<1>. QED  BY <1>5, <1>6 DEF Server

(* The registry's answer fits. *)
LEMMA TruthFits == ASSUME IInv, NEW j \in Jobs PROVE FitsNow(Truth(j), j)
<1>1. /\ told[j].kind = "progress" => told[j].lines <= lines[j]
      /\ told[j].kind # "none" => life[j] # "new"
      /\ life[j] \in {"new", "running", "finished", "evicted"} /\ lines[j] \in Nat
  BY ToldBorn
<1>2. /\ told[j].kind = "finished" => life[j] \in {"finished", "evicted"}
      /\ told[j].kind = "evicted" => life[j] = "evicted"
  BY DEF IInv, ToldInv, Ended
<1>3. CASE life[j] = "running"
  <2>1. Truth(j) = Look(TRUE, lines[j])
    BY <1>3 DEF Truth, Tracked
  <2>. QED  BY <1>1, <1>2, <1>3, <2>1 DEF FitsNow, Fits, Look
<1>4. CASE life[j] = "finished"
  <2>1. Truth(j) = Look(FALSE, lines[j])
    BY <1>4 DEF Truth, Tracked
  <2>. QED  BY <1>1, <1>2, <1>4, <2>1 DEF FitsNow, Fits, Look
<1>5. CASE life[j] \in {"new", "evicted"}
  <2>1. Truth(j) = Absent
    BY <1>5 DEF Truth, Tracked
  <2>. QED  BY <1>1, <1>2, <1>5, <2>1 DEF FitsNow, Fits, Absent
<1>. QED  BY <1>1, <1>3, <1>4, <1>5

(* What reading the list of jobs gives. *)
LEMMA ListTypes ==
  ASSUME IInv
  PROVE  /\ States \in Lists
         /\ \A list \in Lists : WithCounts(list) \in Lists
         /\ \A j \in Jobs : WithCounts(States)[j] = Truth(j)
<1>0. \A j \in Jobs : lines[j] \in 0..MaxLines
  BY DEF IInv, WatchTypeOK
<1>1. \A j \in Jobs, n \in 0..MaxLines, r \in BOOLEAN : Look(r, n) \in Looks \cup {Absent}
  BY DEF Look, Looks
<1>2. \A j \in Jobs : (IF j \in Tracked THEN Look(life[j] = "running", 0) ELSE Absent) \in Looks \cup {Absent}
  <2>1. 0 \in 0..MaxLines
    BY WatchAssumption DEF WatchAssumption
  <2>2. \A j \in Jobs : (life[j] = "running") \in BOOLEAN
    OBVIOUS
  <2>. QED  BY <1>1, <2>1, <2>2
<1>3. States \in Lists
  BY <1>2 DEF States, Lists
<1>4. ASSUME NEW list \in Lists PROVE WithCounts(list) \in Lists
  <2>1. ASSUME NEW j \in Jobs
        PROVE  (IF list[j].here THEN Look(list[j].running, lines[j]) ELSE Absent) \in Looks \cup {Absent}
    <3>1. list[j] \in Looks \cup {Absent}
      BY DEF Lists
    <3>2. list[j].running \in BOOLEAN
      BY <3>1, LookType
    <3>. QED  BY <1>0, <1>1, <3>2
  <2>. QED  BY <2>1 DEF WithCounts, Lists
<1>5. ASSUME NEW j \in Jobs PROVE WithCounts(States)[j] = Truth(j)
  <2>1. WithCounts(States)[j] = IF States[j].here THEN Look(States[j].running, lines[j]) ELSE Absent
    BY DEF WithCounts
  <2>2. States[j] = IF j \in Tracked THEN Look(life[j] = "running", 0) ELSE Absent
    BY DEF States
  <2>3. CASE j \in Tracked
    <3>1. States[j].here = TRUE /\ States[j].running = (life[j] = "running")
      BY <2>2, <2>3 DEF Look
    <3>. QED  BY <2>1, <2>3, <3>1 DEF Truth
  <2>4. CASE j \notin Tracked
    <3>1. States[j].here = FALSE
      BY <2>2, <2>4 DEF Absent
    <3>. QED  BY <2>1, <2>4, <3>1 DEF Truth
  <2>. QED  BY <2>3, <2>4
<1>. QED  BY <1>3, <1>4, <1>5

(* The watch is left alone, and so is what is on its way. *)
LEMMA StillComing ==
  ASSUME MonitorInv, UNCHANGED watchVars
  PROVE  /\ ComingInv' /\ EvictedInv' /\ UNCHANGED <<inbox, life, lines, told>>
         /\ \A look, j : FitsNext(look, j) <=> FitsNow(look, j)
<1>1. UNCHANGED <<inbox, life, lines, told>>
  BY DEF watchVars, registryVars
<1>. QED  BY <1>1 DEF MonitorInv, ComingInv, EvictedInv, Coming, FitsNow, FitsNext

(* The stream begins: the subscription is made before the registry is read, and the
   monitor has nothing to show yet. *)
LEMMA ConnectKeeps == ASSUME IInv, MonitorInv, WatchTypeOK', Connect PROVE MonitorInv'
<1>0. Me \in Watchers /\ inbox'[Me] = Opened /\ UNCHANGED <<life, lines, told>>
  BY MonitorTypes DEF MonitorInv, Connect, Subscribe, Box, TypeOK, WatchTypeOK, registryVars
<1>1. TypeOK'
  <2>1. /\ replay \in Seq(Events) /\ reading \in Lists /\ view \in Lists /\ sound \in BOOLEAN
        /\ fetch \in [Fetchers -> [at : {"idle", "counting", "answered"}, list : Lists]]
        /\ fetch["lag"].at = "idle" /\ faults \in 0..MaxFaults
    BY DEF MonitorInv, TypeOK, Connect
  <2>2. conn' = "snapshot" /\ UNCHANGED <<replay, reading, fetch, view, sound, faults>>
    BY DEF Connect, viewVars
  <2>3. inbox'[Me].open = TRUE
    BY <1>0 DEF Opened
  <2>4. inbox'[Me].open = (conn' # "down")
    BY <2>2, <2>3
  <2>. QED  BY <2>1, <2>2, <2>4 DEF TypeOK
<1>2. ComingInv'
  BY <1>0 DEF ComingInv, Coming, Honest, Opened
<1>3. EvictedInv'
  BY <1>0 DEF MonitorInv, EvictedInv
<1>4. replay = <<>>
  BY DEF MonitorInv, ReplayInv, Connect
<1>5. ReplayInv'
  BY <1>4 DEF ReplayInv, Connect
<1>6. ViewInv'
  <2>1. ~inbox[Me].behind
    <3>1. conn = "down" /\ inbox[Me].open = (conn # "down")
      BY DEF Connect, MonitorInv, TypeOK
    <3>2. ~inbox[Me].open
      BY <3>1
    <3>. QED  BY <3>2 DEF MonitorInv, ComingInv, Closed
  <2>2. sound => \A j \in Jobs : ~view[j].here
    BY <2>1 DEF Connect, MonitorInv, ViewInv
  <2>. QED  BY <2>2 DEF ViewInv, Connect, viewVars
<1>. QED  BY <1>1, <1>2, <1>3, <1>5, <1>6 DEF MonitorInv

(* The replay's states are read: whatever its counts will be, it fits. *)
LEMMA ReplayStatesKeeps == ASSUME IInv, MonitorInv, ReplayStates PROVE MonitorInv'
<1>0. ComingInv' /\ EvictedInv' /\ UNCHANGED <<inbox, life, lines, told>>
  BY StillComing DEF ReplayStates
<1>s. \A look, j : FitsNext(look, j) <=> FitsNow(look, j)
  BY StillComing DEF ReplayStates
<1>1. TypeOK'
  BY ListTypes DEF MonitorInv, TypeOK, ReplayStates, viewVars, watchVars, registryVars, passVars, WatchTypeOK
<1>2. replay = <<>>
  BY DEF MonitorInv, ReplayInv, ReplayStates
<1>3. \A j \in Jobs : FitsNext(WithCounts(reading)'[j], j)
  <2>1. WithCounts(reading)' = WithCounts(States)
    BY <1>0 DEF ReplayStates, WithCounts
  <2>. QED  BY <1>s, <2>1, ListTypes, TruthFits
<1>4. ReplayInv'
  BY <1>2, <1>3 DEF ReplayInv, ReplayStates, FitsNext, FitsNow, Coming
<1>5. ViewInv'
  BY <1>0, <1>2, <1>s DEF MonitorInv, ViewInv, ReplayStates, FitsNow, Coming, viewVars
<1>. QED  BY <1>0, <1>1, <1>4, <1>5 DEF MonitorInv

(* The counts are read and the replay is sent: it speaks of every job that the list
   does not fit. *)
LEMMA ReplayCountsKeeps == ASSUME IInv, MonitorInv, ReplayCounts PROVE MonitorInv'
<1> DEFINE list == WithCounts(reading)
<1>0. ComingInv' /\ EvictedInv' /\ UNCHANGED <<inbox, life, lines, told>>
  BY StillComing DEF ReplayCounts
<1>s. \A look, j : FitsNext(look, j) <=> FitsNow(look, j)
  BY StillComing DEF ReplayCounts
<1>t. TypeOK
  BY DEF MonitorInv
<1>l. list \in Lists
  BY <1>t, ListTypes DEF TypeOK
<1>r. /\ conn = "counting" /\ conn' = "live" /\ replay' \in Replays(list)
      /\ UNCHANGED <<watchVars, fetch, view, sound, faults>>
      /\ reading' = [j \in Jobs |-> Absent]
  BY DEF ReplayCounts, ReplayEnds, viewVars
<1>f. ~inbox[Me].behind => \A j \in Jobs : FitsNow(list[j], j)
  BY <1>r DEF MonitorInv, ReplayInv
<1> HIDE DEF list
<1>p. /\ replay' \in Seq(Events)
      /\ \A i \in DOMAIN replay' :
           /\ replay'[i].kind \in {"created", "progress", "finished"}
           /\ replay'[i].kind = "created" =>
                \E k \in DOMAIN replay' : /\ k > i /\ replay'[k].job = replay'[i].job
                                          /\ replay'[k].kind \in {"progress", "finished"}
           /\ replay'[i].kind \in {"progress", "finished"} =>
                list[replay'[i].job] = Look(replay'[i].kind = "progress", replay'[i].lines)
      /\ \A j \in Jobs : list[j].here => In(replay', {"created"}, j)
  BY <1>l, <1>r, ReplaySays
<1>1. TypeOK'
  <2>1. [j \in Jobs |-> Absent] \in Lists
    BY DEF Lists
  <2>2. WatchTypeOK'
    BY <1>r, StutterKeeps DEF IInv
  <2>3. inbox[Me].open = TRUE /\ fetch["lag"].at = "idle"
    BY <1>r, <1>t DEF TypeOK
  <2>4. inbox'[Me].open = (conn' # "down")
    BY <1>0, <1>r, <2>3
  <2>. QED  BY <1>t, <1>r, <1>p, <2>1, <2>2, <2>3, <2>4 DEF TypeOK
<1>2. ReplayInv'
  <2>1. ASSUME ~inbox'[Me].behind, NEW i \in DOMAIN replay'
        PROVE  /\ replay'[i].kind # "evicted"
               /\ replay'[i].kind = "created" =>
                    \E k \in DOMAIN replay' : /\ k > i /\ replay'[k].job = replay'[i].job
                                              /\ replay'[k].kind \in {"progress", "finished"}
               /\ replay'[i].kind = "progress" => FitsNext(Look(TRUE, replay'[i].lines), replay'[i].job)
               /\ replay'[i].kind = "finished" => FitsNext(Look(FALSE, replay'[i].lines), replay'[i].job)
    <3> DEFINE e == replay'[i]
    <3>1. /\ e.kind \in {"created", "progress", "finished"}
          /\ e.kind = "created" =>
               \E k \in DOMAIN replay' : /\ k > i /\ replay'[k].job = e.job
                                         /\ replay'[k].kind \in {"progress", "finished"}
          /\ e.kind \in {"progress", "finished"} => list[e.job] = Look(e.kind = "progress", e.lines)
      BY <1>p
    <3>2. e \in Events
      BY <1>p
    <3> HIDE DEF e
    <3>3. FitsNext(list[e.job], e.job)
      BY <1>0, <1>f, <1>s, <2>1, <3>2 DEF Events
    <3>4. e.kind = "progress" => list[e.job] = Look(TRUE, e.lines)
      <4>1. (e.kind = "progress") => (e.kind = "progress") = TRUE
        OBVIOUS
      <4>. QED  BY <3>1, <4>1
    <3>5. e.kind = "finished" => list[e.job] = Look(FALSE, e.lines)
      <4>1. (e.kind = "finished") => (e.kind = "progress") = FALSE
        OBVIOUS
      <4>. QED  BY <3>1, <4>1
    <3>6. /\ e.kind = "progress" => FitsNext(Look(TRUE, e.lines), e.job)
          /\ e.kind = "finished" => FitsNext(Look(FALSE, e.lines), e.job)
      BY <3>3, <3>4, <3>5
    <3>. QED  BY <3>1, <3>6 DEF e
  <2>. QED  BY <1>r, <2>1 DEF ReplayInv, FitsNow, FitsNext, Coming
<1>3. ViewInv'
  <2>1. ASSUME sound, ~inbox[Me].behind, NEW j \in Jobs
        PROVE  IF ~view[j].here
               THEN FitsNext(view[j], j) \/ In(replay', {"created"}, j)
               ELSE FitsNext(view[j], j)
    <3>0. replay = <<>>
      BY <1>r DEF MonitorInv, ReplayInv
    <3>1. CASE view[j].here
      <4>1. ~FitsNow(view[j], j) => In(replay, {"progress", "finished"}, j)
        BY <2>1, <3>1 DEF MonitorInv, ViewInv
      <4>2. ~In(replay, {"progress", "finished"}, j)
        BY <3>0 DEF In
      <4>. QED  BY <1>s, <3>1, <4>1, <4>2
    <3>2. CASE ~view[j].here /\ list[j].here
      BY <1>p, <3>2
    <3>3. CASE ~view[j].here /\ ~list[j].here
      <4>1. view[j] = Absent /\ list[j] = Absent
        BY <1>l, <1>t, <3>3 DEF TypeOK, Lists, Looks
      <4>. QED  BY <1>f, <1>s, <2>1, <3>3, <4>1
    <3>. QED  BY <3>1, <3>2, <3>3
  <2>. QED  BY <1>0, <1>r, <2>1 DEF ViewInv, FitsNow, FitsNext, Coming
<1>. QED  BY <1>0, <1>1, <1>2, <1>3 DEF MonitorInv

(* The replay's next event is applied. *)
LEMMA RecvReplayKeeps == ASSUME IInv, MonitorInv, RecvReplay PROVE MonitorInv'
<1> DEFINE e == Head(replay)
<1>0. ComingInv' /\ EvictedInv' /\ UNCHANGED <<inbox, life, lines, told>>
  BY StillComing DEF RecvReplay
<1>s. \A look, j : FitsNext(look, j) <=> FitsNow(look, j)
  BY StillComing DEF RecvReplay
<1>t. TypeOK /\ replay \in Seq(Events) /\ replay # <<>>
  BY DEF MonitorInv, TypeOK, RecvReplay
<1>r. /\ conn = "live" /\ replay' = Tail(replay)
      /\ UNCHANGED <<watchVars, conn, reading, fetch, sound, faults>>
  BY DEF RecvReplay
<1>e. e \in Events /\ e.job \in Jobs /\ e.lines \in 0..MaxLines
  <2>1. e \in Events
    BY <1>t
  <2>. QED  BY <1>t, <2>1, MonitorTypes
<1>v. /\ view'[e.job] = Applied(view[e.job], e)
      /\ \A j \in Jobs : j # e.job => view'[j] = view[j]
  BY <1>t, <1>e DEF RecvReplay, Apply, TypeOK, Lists
<1>i. /\ replay' \in Seq(Events) /\ DOMAIN replay' = 1..Len(replay') /\ DOMAIN replay = 1..Len(replay)
      /\ Len(replay') = Len(replay) - 1 /\ Len(replay) \in Nat /\ e = replay[1] /\ 1 \in DOMAIN replay
      /\ \A i \in DOMAIN replay' : i + 1 \in DOMAIN replay /\ replay'[i] = replay[i + 1]
      /\ \A k \in DOMAIN replay : k > 1 => k - 1 \in DOMAIN replay' /\ replay'[k - 1] = replay[k]
  BY <1>t, <1>r
<1>k. \A K, j : In(replay, K, j) => In(replay', K, j) \/ (e.job = j /\ e.kind \in K)
  BY <1>t, <1>r, InTail
<1> HIDE DEF e
<1>1. TypeOK'
  <2>1. WatchTypeOK'
    BY <1>r, StutterKeeps DEF IInv
  <2>2. view[e.job] \in Looks \cup {Absent}
    BY <1>t, <1>e, MonitorTypes
  <2>3. Look(TRUE, 0) \in Looks /\ Look(TRUE, e.lines) \in Looks /\ Look(FALSE, e.lines) \in Looks
    BY <1>e, WatchAssumption DEF Look, Looks, WatchAssumption
  <2>4. Applied(view[e.job], e) \in Looks \cup {Absent}
    BY <1>e, <2>2, <2>3 DEF Applied, Events, Kinds
  <2>5. view' \in Lists
    BY <1>t, <1>e, <2>4 DEF RecvReplay, Apply, TypeOK, Lists, e
  <2>. QED  BY <1>t, <1>r, <1>i, <2>1, <2>5, <1>0 DEF TypeOK
<1>2. ReplayInv'
  <2>1. ASSUME ~inbox[Me].behind, NEW i \in DOMAIN replay'
        PROVE  /\ replay'[i].kind # "evicted"
               /\ replay'[i].kind = "created" =>
                    \E k \in DOMAIN replay' : /\ k > i /\ replay'[k].job = replay'[i].job
                                              /\ replay'[k].kind \in {"progress", "finished"}
               /\ replay'[i].kind = "progress" => FitsNext(Look(TRUE, replay'[i].lines), replay'[i].job)
               /\ replay'[i].kind = "finished" => FitsNext(Look(FALSE, replay'[i].lines), replay'[i].job)
    <3> DEFINE d == replay'[i]
    <3>1. i + 1 \in DOMAIN replay /\ d = replay[i + 1] /\ i \in Nat /\ i > 0
      BY <1>i
    <3> HIDE DEF d
    <3>2. /\ d.kind # "evicted"
          /\ d.kind = "created" =>
               \E k \in DOMAIN replay : /\ k > i + 1 /\ replay[k].job = d.job
                                        /\ replay[k].kind \in {"progress", "finished"}
          /\ d.kind = "progress" => FitsNow(Look(TRUE, d.lines), d.job)
          /\ d.kind = "finished" => FitsNow(Look(FALSE, d.lines), d.job)
      BY <2>1, <3>1 DEF MonitorInv, ReplayInv
    <3>3. ASSUME d.kind = "created"
          PROVE  \E k \in DOMAIN replay' : /\ k > i /\ replay'[k].job = d.job
                                           /\ replay'[k].kind \in {"progress", "finished"}
      <4>1. PICK k \in DOMAIN replay : /\ k > i + 1 /\ replay[k].job = d.job
                                       /\ replay[k].kind \in {"progress", "finished"}
        BY <3>2, <3>3
      <4>2. k > 1 /\ k - 1 > i /\ k - 1 \in DOMAIN replay' /\ replay'[k - 1] = replay[k]
        BY <1>i, <3>1, <4>1
      <4>. QED  BY <4>1, <4>2
    <3>. QED  BY <1>s, <3>2, <3>3 DEF d
  <2>. QED  BY <1>r, <1>0, <2>1 DEF ReplayInv, FitsNow, FitsNext, Coming
<1>3. ViewInv'
  <2>1. ASSUME sound, ~inbox[Me].behind, NEW j \in Jobs
        PROVE  IF ~view'[j].here
               THEN FitsNext(view'[j], j) \/ In(replay', {"created"}, j)
               ELSE ~FitsNext(view'[j], j) =>
                      view'[j].running /\ In(replay', {"progress", "finished"}, j)
    <3>1. IF ~view[j].here
          THEN FitsNext(view[j], j) \/ In(replay, {"created"}, j)
          ELSE ~FitsNext(view[j], j) => view[j].running /\ In(replay, {"progress", "finished"}, j)
      BY <1>r, <1>s, <2>1 DEF MonitorInv, ViewInv
    <3>2. CASE j # e.job
      <4>1. view'[j] = view[j]
        BY <1>v, <3>2
      <4>. QED  BY <1>k, <3>1, <3>2, <4>1
    <3>3. CASE j = e.job
      <4>0. view'[j] = Applied(view[j], e)
        BY <1>v, <3>3
      <4>1. /\ e.kind \in {"created", "progress", "finished"}
            /\ e.kind = "created" =>
                 \E k \in DOMAIN replay : /\ k > 1 /\ replay[k].job = j
                                          /\ replay[k].kind \in {"progress", "finished"}
            /\ e.kind = "progress" => FitsNow(Look(TRUE, e.lines), j)
            /\ e.kind = "finished" => FitsNow(Look(FALSE, e.lines), j)
        BY <1>e, <1>i, <2>1, <3>3 DEF MonitorInv, ReplayInv, Events, Kinds
      <4>2. CASE e.kind = "created"
        <5>1. PICK k \in DOMAIN replay : /\ k > 1 /\ replay[k].job = j
                                         /\ replay[k].kind \in {"progress", "finished"}
          BY <4>1, <4>2
        <5>2. k - 1 \in DOMAIN replay' /\ replay'[k - 1] = replay[k]
          BY <1>i, <5>1
        <5>3. In(replay', {"progress", "finished"}, j)
          BY <5>1, <5>2 DEF In
        <5>4. view'[j] = IF view[j].here THEN view[j] ELSE Look(TRUE, 0)
          BY <4>0, <4>2 DEF Applied
        <5>5. Look(TRUE, 0).here = TRUE /\ Look(TRUE, 0).running = TRUE
          BY DEF Look
        <5>. QED  BY <3>1, <5>3, <5>4, <5>5
      <4>3. CASE e.kind = "progress"
        <5>1. view'[j] = IF view[j].here /\ view[j].running THEN Look(TRUE, e.lines) ELSE view[j]
          BY <4>0, <4>3 DEF Applied
        <5>2. Look(TRUE, e.lines).here = TRUE /\ FitsNext(Look(TRUE, e.lines), j)
          BY <1>s, <4>1, <4>3 DEF Look
        <5>3. In(replay, {"created"}, j) => In(replay', {"created"}, j)
          BY <1>k, <4>3
        <5>. QED  BY <3>1, <5>1, <5>2, <5>3
      <4>4. CASE e.kind = "finished"
        <5>1. view'[j] = IF view[j].here THEN Look(FALSE, e.lines) ELSE view[j]
          BY <4>0, <4>4 DEF Applied
        <5>2. Look(FALSE, e.lines).here = TRUE /\ FitsNext(Look(FALSE, e.lines), j)
          BY <1>s, <4>1, <4>4 DEF Look
        <5>3. In(replay, {"created"}, j) => In(replay', {"created"}, j)
          BY <1>k, <4>4
        <5>. QED  BY <3>1, <5>1, <5>2, <5>3
      <4>. QED  BY <4>1, <4>2, <4>3, <4>4
    <3>. QED  BY <3>2, <3>3
  <2>. QED  BY <1>0, <1>r, <2>1 DEF ViewInv, FitsNow, FitsNext, Coming
<1>. QED  BY <1>0, <1>1, <1>2, <1>3 DEF MonitorInv

(* A live event is applied, and what is shown of its job fits again. *)
LEMMA RecvEventKeeps == ASSUME IInv, MonitorInv, WatchTypeOK', RecvEvent PROVE MonitorInv'
<1> DEFINE e == Head(Coming)
<1>t. TypeOK /\ Me \in Watchers /\ inbox[Me] \in Boxes /\ Coming \in Seq(Events)
  BY MonitorTypes DEF MonitorInv
<1>r. /\ conn = "live" /\ replay = <<>> /\ Coming # <<>> /\ ~inbox[Me].behind
      /\ inbox' = [inbox EXCEPT ![Me] = [inbox[Me] EXCEPT !.queue = Tail(@)]]
      /\ UNCHANGED <<life, lines, told>>
      /\ UNCHANGED <<conn, replay, reading, fetch, sound, faults>>
      /\ view' = [view EXCEPT ![e.job] = Applied(@, e)]
  BY DEF RecvEvent, Receive, Box, Apply, Coming, registryVars, streamVars
<1>b. /\ inbox'[Me].queue = Tail(Coming) /\ inbox'[Me].open = inbox[Me].open
      /\ inbox'[Me].behind = inbox[Me].behind
  <2>1. inbox'[Me] = [inbox[Me] EXCEPT !.queue = Tail(@)]
    BY <1>r, <1>t DEF TypeOK, WatchTypeOK
  <2>. QED  BY <1>t, <2>1 DEF Boxes, Coming
<1>e. e \in Events /\ e.job \in Jobs /\ e.lines \in 0..MaxLines
  <2>1. e \in Events
    BY <1>t, <1>r
  <2>. QED  BY <1>t, <2>1, MonitorTypes
<1>v. /\ view'[e.job] = Applied(view[e.job], e)
      /\ \A j \in Jobs : j # e.job => view'[j] = view[j]
  BY <1>t, <1>r, <1>e DEF TypeOK, Lists
<1>h. Honest(Coming, life, lines, told)
  BY DEF MonitorInv, ComingInv
<1>k. /\ \E k \in 1..Len(Coming) : Coming[k] = Event(told[e.job].kind, e.job, told[e.job].lines)
      /\ e.lines <= lines[e.job]
      /\ e.kind = "finished" => life[e.job] \in {"finished", "evicted"} /\ e.lines = lines[e.job]
      /\ e.kind = "evicted" => life[e.job] = "evicted"
  <2>1. 1 \in DOMAIN Coming /\ e = Coming[1]
    BY <1>t, <1>r
  <2>. QED  BY <1>h, <2>1 DEF Honest
<1> HIDE DEF e
<1>n. life[e.job] # "new"
  <2>1. PICK k \in 1..Len(Coming) : Coming[k] = Event(told[e.job].kind, e.job, told[e.job].lines)
    BY <1>k
  <2>2. Coming[k] \in Events
    BY <1>t, <2>1
  <2>3. told[e.job].kind \in Kinds
    BY <2>1, <2>2 DEF Event, Events
  <2>. QED  BY <1>e, <2>3, ToldBorn DEF Kinds
<1>1. TypeOK'
  <2>2. view[e.job] \in Looks \cup {Absent}
    BY <1>t, <1>e, MonitorTypes
  <2>3. Look(TRUE, 0) \in Looks /\ Look(TRUE, e.lines) \in Looks /\ Look(FALSE, e.lines) \in Looks
    BY <1>e, WatchAssumption DEF Look, Looks, WatchAssumption
  <2>4. Applied(view[e.job], e) \in Looks \cup {Absent}
    BY <1>e, <2>2, <2>3 DEF Applied, Events, Kinds
  <2>5. view' \in Lists
    BY <1>t, <1>e, <1>r, <2>4 DEF TypeOK, Lists
  <2>6. inbox'[Me].open = (conn' # "down")
    BY <1>b, <1>r, <1>t DEF TypeOK
  <2>. QED  BY <1>t, <1>r, <2>5, <2>6 DEF TypeOK
<1>2. ComingInv'
  <2>1. Honest(Tail(Coming), life, lines, told)
    BY <1>t, <1>r, <1>h, HonestTail
  <2>2. inbox'[Me].open = TRUE
    BY <1>b, <1>r, <1>t DEF TypeOK
  <2>. QED  BY <1>b, <1>r, <2>1, <2>2 DEF ComingInv, Coming
<1>3. EvictedInv'
  BY <1>r DEF MonitorInv, EvictedInv
<1>4. ReplayInv'
  BY <1>r DEF ReplayInv
<1>5. ViewInv'
  <2>1. ASSUME sound, NEW j \in Jobs
        PROVE  FitsNext(view'[j], j)
    <3>1. FitsNow(view[j], j)
      <4>1. ~In(replay, {"created"}, j) /\ ~In(replay, {"progress", "finished"}, j)
        BY <1>r DEF In
      <4>. QED  BY <1>r, <2>1, <4>1 DEF MonitorInv, ViewInv
    <3>2. CASE j # e.job
      <4>1. Fits(view[j], j, life[j], lines[j], told[j], Tail(Coming))
        BY <1>t, <1>r, <3>1, <3>2, FitsPassed DEF FitsNow, e
      <4>. QED  BY <1>v, <1>b, <1>r, <3>2, <4>1 DEF FitsNext
    <3>3. CASE j = e.job
      <4>1. view[j] \in Looks \cup {Absent} /\ lines[j] \in Nat
        BY <1>t, MonitorTypes, ToldBorn
      <4>2. Fits(view[j], j, life[j], lines[j], told[j], Coming)
        BY <3>1 DEF FitsNow
      <4>3. Fits(Applied(view[j], e), j, life[j], lines[j], told[j], Tail(Coming))
        BY <1>t, <1>r, <1>k, <1>n, <3>3, <4>1, <4>2, FitsReceived DEF e
      <4>. QED  BY <1>v, <1>b, <1>r, <3>3, <4>3 DEF FitsNext
    <3>. QED  BY <3>2, <3>3
  <2>. QED  BY <1>r, <2>1 DEF ViewInv, FitsNow, FitsNext, Coming
<1>. QED  BY <1>1, <1>2, <1>3, <1>4, <1>5 DEF MonitorInv

(* A lag is told: what is shown is no longer sound. *)
LEMMA RecvLaggedKeeps == ASSUME IInv, MonitorInv, WatchTypeOK', RecvLagged PROVE MonitorInv'
<1>t. TypeOK /\ Me \in Watchers /\ inbox[Me] \in Boxes
  BY MonitorTypes DEF MonitorInv
<1>r. /\ conn = "live" /\ replay = <<>> /\ conn' = "resync" /\ sound' = FALSE
      /\ inbox' = [inbox EXCEPT ![Me] = [inbox[Me] EXCEPT !.behind = FALSE]]
      /\ UNCHANGED <<life, lines, told>> /\ UNCHANGED <<replay, reading, fetch, view, faults>>
  BY DEF RecvLagged, Heed, Box, registryVars
<1>b. inbox'[Me].queue = Coming /\ inbox'[Me].open = inbox[Me].open
  <2>1. inbox'[Me] = [inbox[Me] EXCEPT !.behind = FALSE]
    BY <1>r, <1>t DEF TypeOK, WatchTypeOK
  <2>. QED  BY <1>t, <2>1 DEF Boxes, Coming
<1>o. inbox[Me].open = TRUE
  BY <1>r, <1>t DEF TypeOK
<1>1. TypeOK'
  <2>1. inbox'[Me].open = (conn' # "down")
    BY <1>b, <1>o, <1>r
  <2>. QED  BY <1>t, <1>r, <2>1 DEF TypeOK
<1>2. ComingInv'
  BY <1>b, <1>o, <1>r DEF MonitorInv, ComingInv, Coming
<1>3. EvictedInv'
  BY <1>r DEF MonitorInv, EvictedInv
<1>4. ReplayInv'
  BY <1>r DEF ReplayInv
<1>5. ViewInv'
  BY <1>r DEF ViewInv
<1>. QED  BY <1>1, <1>2, <1>3, <1>4, <1>5 DEF MonitorInv

(* The connection is lost. *)
LEMMA DisconnectKeeps == ASSUME IInv, MonitorInv, WatchTypeOK', Disconnect PROVE MonitorInv'
<1>t. TypeOK /\ Me \in Watchers
  BY MonitorTypes DEF MonitorInv
<1>r. /\ conn # "resync" /\ conn' = "down" /\ replay' = <<>> /\ reading' = [j \in Jobs |-> Absent]
      /\ inbox'[Me] = Closed /\ sound' = FALSE /\ faults' \in 0..MaxFaults
      /\ UNCHANGED <<life, lines, told, fetch, view>>
  BY <1>t, MonitorAssumption
     DEF Disconnect, Leave, Box, Fault, TypeOK, WatchTypeOK, registryVars, MonitorAssumption
<1>1. TypeOK'
  <2>1. [j \in Jobs |-> Absent] \in Lists
    BY DEF Lists
  <2>2. fetch["lag"].at = "idle"
    BY <1>t, <1>r DEF TypeOK
  <2>3. inbox'[Me].open = FALSE /\ replay' \in Seq(Events) /\ reading' \in Lists
    BY <1>r, <2>1 DEF Closed
  <2>4. inbox'[Me].open = (conn' # "down")
    BY <1>r, <2>3
  <2>5. fetch'["lag"].at = "idle" /\ sound' \in BOOLEAN /\ view' \in Lists
    BY <1>t, <1>r, <2>2 DEF TypeOK
  <2>. QED  BY <1>t, <1>r, <2>3, <2>4, <2>5 DEF TypeOK
<1>2. ComingInv'
  BY <1>r DEF ComingInv, Coming, Closed, Honest
<1>3. EvictedInv'
  BY <1>r DEF MonitorInv, EvictedInv
<1>4. ReplayInv'
  BY <1>r DEF ReplayInv
<1>5. ViewInv'
  BY <1>r DEF ViewInv
<1>. QED  BY <1>1, <1>2, <1>3, <1>4, <1>5 DEF MonitorInv

(* A list is being fetched, or the fetch failed: nothing is shown of it. *)
LEMMA FetchKeeps ==
  ASSUME IInv, MonitorInv, NEW f \in Fetchers, FetchStates(f) \/ FetchCounts(f) \/ FetchFails(f)
  PROVE  MonitorInv'
<1>t. TypeOK
  BY DEF MonitorInv
<1>r. /\ UNCHANGED <<watchVars, replay, reading, view, sound>> /\ faults' \in 0..MaxFaults
      /\ conn' \in {conn, "live"} /\ (conn' # conn => conn = "resync" /\ f = "lag")
  <2>1. CASE FetchStates(f) \/ FetchCounts(f)
    BY <1>t, <2>1 DEF FetchStates, FetchCounts, streamVars, viewVars, TypeOK
  <2>2. CASE FetchFails(f)
    <3>1. fetch[f].at # "idle"
      BY <2>2 DEF FetchFails
    <3>2. f = "lag" => conn = "resync"
      BY <1>t, <3>1 DEF TypeOK
    <3>3. faults' \in 0..MaxFaults
      BY <1>t, <2>2, MonitorAssumption DEF FetchFails, Fault, TypeOK, MonitorAssumption
    <3>. QED  BY <2>2, <3>2, <3>3 DEF FetchFails, FetchOver, viewVars
  <2>. QED  BY <2>1, <2>2
<1>0. ComingInv' /\ EvictedInv' /\ UNCHANGED <<inbox, life, lines, told>>
  BY <1>r, StillComing
<1>f. /\ fetch' \in [Fetchers -> [at : {"idle", "counting", "answered"}, list : Lists]]
      /\ fetch'["lag"].at # "idle" => conn' = "resync"
  <2>1. CASE FetchStates(f)
    BY <1>t, <2>1, ListTypes DEF FetchStates, TypeOK, streamVars, Fetchers
  <2>2. CASE FetchCounts(f)
    <3>1. WithCounts(fetch[f].list) \in Lists
      BY <1>t, ListTypes DEF TypeOK
    <3>. QED  BY <1>t, <2>2, <3>1 DEF FetchCounts, TypeOK, streamVars, Fetchers
  <2>3. CASE FetchFails(f)
    <3>1. Idle \in [at : {"idle", "counting", "answered"}, list : Lists] /\ Idle.at = "idle"
      BY DEF Idle, Lists
    <3>. QED  BY <1>t, <2>3, <3>1 DEF FetchFails, FetchOver, TypeOK, Fetchers
  <2>. QED  BY <2>1, <2>2, <2>3
<1>1. TypeOK'
  <2>1. WatchTypeOK'
    BY <1>r, StutterKeeps DEF IInv
  <2>2. inbox'[Me].open = (conn' # "down")
    BY <1>0, <1>r, <1>t DEF TypeOK
  <2>. QED  BY <1>t, <1>r, <1>f, <2>1, <2>2 DEF TypeOK
<1>2. ReplayInv'
  BY <1>0, <1>r DEF MonitorInv, ReplayInv, FitsNow, Coming, WithCounts
<1>3. ViewInv'
  BY <1>0, <1>r DEF MonitorInv, ViewInv, FitsNow, Coming
<1>. QED  BY <1>0, <1>1, <1>2, <1>3 DEF MonitorInv

(* A fetched list replaces what is shown; if it is what the registry would answer now, it
   fits. *)
LEMMA RefreshKeeps == ASSUME IInv, MonitorInv, NEW f \in Fetchers, Refresh(f) PROVE MonitorInv'
<1>t. TypeOK
  BY DEF MonitorInv
<1>r. /\ UNCHANGED <<watchVars, replay, reading, faults>>
      /\ view' = fetch[f].list /\ fetch' = [fetch EXCEPT ![f] = Idle]
      /\ sound' = (conn # "down" /\ \A j \in Jobs : view'[j] = Truth(j))
      /\ conn' = IF f = "lag" THEN "live" ELSE conn
      /\ f = "lag" => conn = "resync"
  BY <1>t DEF Refresh, RefreshWith, FetchOver, TypeOK
<1>0. ComingInv' /\ EvictedInv' /\ UNCHANGED <<inbox, life, lines, told>>
  BY <1>r, StillComing
<1>s. \A look, j : FitsNext(look, j) <=> FitsNow(look, j)
  BY <1>r, StillComing
<1>1. TypeOK'
  <2>1. WatchTypeOK'
    BY <1>r, StutterKeeps DEF IInv
  <2>2. inbox'[Me].open = (conn' # "down")
    BY <1>0, <1>r, <1>t DEF TypeOK
  <2>3. Idle \in [at : {"idle", "counting", "answered"}, list : Lists] /\ Idle.at = "idle"
    BY DEF Idle, Lists
  <2>4. fetch["lag"].at # "idle" => conn = "resync"
    BY <1>t DEF TypeOK
  <2>5. fetch'["lag"].at # "idle" => conn' = "resync"
    BY <1>t, <1>r, <2>3, <2>4 DEF TypeOK, Fetchers
  <2>6. /\ view' \in Lists
        /\ fetch' \in [Fetchers -> [at : {"idle", "counting", "answered"}, list : Lists]]
    BY <1>t, <1>r, <2>3 DEF TypeOK
  <2>7. sound' \in BOOLEAN /\ conn' \in {"down", "snapshot", "counting", "live", "resync"}
    BY <1>t, <1>r DEF TypeOK
  <2>. QED  BY <1>t, <1>r, <2>1, <2>2, <2>5, <2>6, <2>7 DEF TypeOK
<1>2. ReplayInv'
  BY <1>0, <1>r DEF MonitorInv, ReplayInv, FitsNow, Coming, WithCounts
<1>3. ViewInv'
  <2>1. ASSUME sound', NEW j \in Jobs PROVE FitsNext(view'[j], j) /\ conn' # "down"
    <3>1. view'[j] = Truth(j) /\ conn # "down"
      BY <1>r, <2>1
    <3>. QED  BY <1>r, <1>s, <3>1, TruthFits
  <2>. QED  BY <2>1 DEF ViewInv, FitsNow, FitsNext, Coming
<1>. QED  BY <1>0, <1>1, <1>2, <1>3 DEF MonitorInv

(* Every step of the server and of the monitor keeps what the list rests on. *)
LEMMA MonitorKeeps ==
  ASSUME OutlivesPass, IInv, MonitorInv, [Next]_vars
  PROVE  MonitorInv'
<1>1. IInv' /\ WatchTypeOK'
  BY StepWatches, NextKeeps DEF IInv
<1>2. CASE Server
  BY <1>2, ServerKeeps
<1>3. CASE Stream
  BY <1>1, <1>3, ConnectKeeps, ReplayStatesKeeps, ReplayCountsKeeps, RecvReplayKeeps, RecvEventKeeps,
     RecvLaggedKeeps DEF Stream
<1>4. CASE \E f \in Fetchers : Fetch(f) \/ FetchFails(f)
  BY <1>4, FetchKeeps, RefreshKeeps DEF Fetch
<1>5. CASE Disconnect
  BY <1>1, <1>5, DisconnectKeeps
<1>6. CASE UNCHANGED vars
  <2>1. /\ UNCHANGED <<life, lines, told, inbox, conn, replay, reading, fetch, view, sound, faults>>
    BY <1>6 DEF vars, watchVars, registryVars, streamVars, viewVars
  <2>. QED  BY <1>1, <2>1 DEF MonitorInv, TypeOK, ComingInv, EvictedInv, ReplayInv, ViewInv, Coming, FitsNow,
                WithCounts
<1>. QED  BY <1>2, <1>3, <1>4, <1>5, <1>6 DEF Next

(* The invariants of the watch and of the monitor hold in every state. *)
THEOREM MonitorInvariantHolds == OutlivesPass => (Spec => [](IInv /\ MonitorInv))
<1>1. SUFFICES ASSUME OutlivesPass PROVE Spec => [](IInv /\ MonitorInv)
  OBVIOUS
<1>2. Init => IInv /\ MonitorInv
  BY InitInv, MonitorInit DEF Init
<1>3. IInv /\ MonitorInv /\ [Next]_vars => (IInv /\ MonitorInv)'
  BY <1>1, StepWatches, NextKeeps, MonitorKeeps
<1>. QED  BY <1>2, <1>3, PTL DEF Spec

(* When the replay and the live events are applied and all is told, a list that fits is
   the registry's. *)
LEMMA FittingIsRight ==
  ASSUME IInv, MonitorInv, CaughtUp, AllTold, sound, NEW j \in Jobs
  PROVE  view[j] = Truth(j)
<1>1. conn = "live" /\ replay = <<>> /\ Coming = <<>> /\ ~inbox[Me].behind
  BY DEF CaughtUp, Coming
<1>2. \A events, K : events = <<>> => ~In(events, K, j)
  BY DEF In
<1>3. FitsNow(view[j], j)
  BY <1>1, <1>2 DEF MonitorInv, ViewInv
<1>4. Fits(view[j], j, life[j], lines[j], told[j], <<>>)
  BY <1>1, <1>3 DEF FitsNow
<1>5. view[j] \in Looks \cup {Absent}
  BY MonitorTypes DEF MonitorInv
<1>6. life[j] \in {"new", "running", "finished", "evicted"} /\ lines[j] \in Nat
  BY ToldBorn
<1>7. /\ life[j] = "running" => told[j].kind = "progress" /\ told[j].lines = lines[j]
      /\ life[j] = "finished" => told[j].kind = "finished"
      /\ life[j] \in {"new", "evicted"} => told[j].kind \in {"none", "evicted"}
      /\ life[j] = "evicted" => told[j].kind = "evicted"
  BY <1>6 DEF AllTold, MonitorInv, EvictedInv
<1>8. CASE ~view[j].here
  <2>1. view[j] = Absent
    BY <1>5, <1>8 DEF Looks
  <2>2. life[j] \in {"new", "evicted"}
    BY <1>2, <1>4, <1>6, <1>7, <1>8 DEF Fits
  <2>. QED  BY <2>1, <2>2 DEF Truth, Tracked
<1>9. CASE view[j].here /\ view[j].running
  <2>1. view[j] = Look(TRUE, view[j].lines) /\ view[j].lines \in Nat
    <3>1. view[j] \in Looks
      BY <1>5, <1>9 DEF Absent
    <3>2. view[j].here = TRUE /\ view[j].running = TRUE
      BY <1>9, <3>1 DEF Looks
    <3>3. view[j].lines \in 0..MaxLines
      BY <1>5, LookType
    <3>4. view[j].lines \in Nat
      BY <3>3, WatchAssumption DEF WatchAssumption
    <3>. QED  BY <3>1, <3>2, <3>4 DEF Looks, Look
  <2>2. life[j] = "running" /\ view[j].lines = lines[j]
    BY <1>2, <1>4, <1>6, <1>7, <1>9, <2>1 DEF Fits
  <2>3. Truth(j) = Look(TRUE, lines[j])
    BY <2>2 DEF Truth, Tracked
  <2>. QED  BY <2>1, <2>2, <2>3
<1>10. CASE view[j].here /\ ~view[j].running
  <2>1. view[j] = Look(FALSE, view[j].lines)
    <3>1. view[j] \in Looks
      BY <1>5, <1>10 DEF Absent
    <3>2. view[j].here = TRUE /\ view[j].running = FALSE
      BY <1>10, <3>1 DEF Looks
    <3>. QED  BY <3>1, <3>2 DEF Looks, Look
  <2>2. life[j] = "finished" /\ view[j].lines = lines[j]
    BY <1>2, <1>4, <1>6, <1>7, <1>10 DEF Fits
  <2>3. Truth(j) = Look(FALSE, lines[j])
    BY <2>2 DEF Truth, Tracked
  <2>. QED  BY <2>1, <2>2, <2>3
<1>. QED  BY <1>8, <1>9, <1>10

(* A monitor that applied the replay and every live event shows the registry as it is,
   for any number of jobs and lines and any capacity of the channel. *)
THEOREM EventsAreEnough == OutlivesPass => (Spec => []EventsSuffice)
<1>1. IInv /\ MonitorInv => EventsSuffice
  BY FittingIsRight DEF EventsSuffice
<1>. QED  BY <1>1, MonitorInvariantHolds, PTL
=============================================================================
