------------------------------- MODULE JobWatch -------------------------------
(***************************************************************************)
(* The job half of the event bus (events.rs): a task diffs the registry on *)
(* a short interval and publishes what changed since its last pass, while  *)
(* jobs are created, print, end and are evicted under its eyes.  It reads  *)
(* a job piecemeal: the state, then the count of lines.                    *)
(*                                                                         *)
(* What a job says is abstracted to how many lines it has.  A subscriber   *)
(* of the broadcast channel is its queue of undelivered events; when the   *)
(* queue is full the oldest event is lost and the subscriber is behind.    *)
(***************************************************************************)
EXTENDS Naturals, Sequences

CONSTANTS
  Jobs,
  MaxLines,      \* bound: lines a job prints
  OutlivesPass,  \* a finished job is retained for longer than a pass takes
  Watchers,      \* subscribers of the channel
  Capacity       \* BROADCAST_CAPACITY (512 in the code)

ASSUME WatchAssumption ==
  /\ Jobs # {}
  /\ MaxLines \in Nat /\ Capacity \in Nat \ {0}
  /\ OutlivesPass \in BOOLEAN

VARIABLES
  life,     \* the jobs: "new", "running", "finished" or "evicted"
  lines,    \* their line counts
  pass,     \* the watch: "idle", "next", "state", "count", "announced" or "sweep"
  present,  \* the pass's snapshot of the registry
  todo,     \* jobs of the snapshot still to be diffed
  cur,      \* the job being diffed, and what was read of it
  seen,     \* what the last pass saw of each job
  told,     \* the last event published about each job
  inbox     \* the channel: for each watcher [open, queue, behind]

registryVars == <<life, lines>>
passVars == <<pass, present, todo, cur>>
watchVars == <<registryVars, passVars, seen, told, inbox>>

Event(kind, j, n) == [kind |-> kind, job |-> j, lines |-> n]
Kinds == {"created", "progress", "finished", "evicted"}
Events == [kind : Kinds, job : Jobs, lines : 0..MaxLines]

(* A view of a job: what was seen of it, or that it was not there. *)
Looks == [here : {TRUE}, running : BOOLEAN, lines : 0..MaxLines]
Absent == [here |-> FALSE, running |-> FALSE, lines |-> 0]
Look(running, n) == [here |-> TRUE, running |-> running, lines |-> n]

Closed == [open |-> FALSE, queue |-> <<>>, behind |-> FALSE]
Opened == [open |-> TRUE, queue |-> <<>>, behind |-> FALSE]

WatchTypeOK ==
  /\ life \in [Jobs -> {"new", "running", "finished", "evicted"}]
  /\ lines \in [Jobs -> 0..MaxLines]
  /\ pass \in {"idle", "next", "state", "count", "announced", "sweep"}
  /\ todo \subseteq present /\ present \subseteq {j \in Jobs : life[j] # "new"}
  /\ cur \in [job : Jobs, running : BOOLEAN, lines : 0..MaxLines]
  /\ seen \in [Jobs -> Looks \cup {Absent}]
  /\ told \in [Jobs -> [kind : Kinds \cup {"none"}, lines : 0..MaxLines]]
  /\ inbox \in [Watchers -> [open : BOOLEAN, queue : Seq(Events), behind : BOOLEAN]]
  /\ \A w \in Watchers : Len(inbox[w].queue) <= Capacity

WatchInit ==
  /\ life = [j \in Jobs |-> "new"] /\ lines = [j \in Jobs |-> 0]
  /\ pass = "idle" /\ present = {} /\ todo = {}
  /\ cur = [job |-> CHOOSE j \in Jobs : TRUE, running |-> FALSE, lines |-> 0]
  /\ seen = [j \in Jobs |-> Absent]
  /\ told = [j \in Jobs |-> [kind |-> "none", lines |-> 0]]
  /\ inbox = [w \in Watchers |-> Closed]

----------------------------------------------------------------------------
(* The registry. *)

Tracked == {j \in Jobs : life[j] \in {"running", "finished"}}

CreateJob(j) ==
  /\ life[j] = "new"
  /\ life' = [life EXCEPT ![j] = "running"]
  /\ UNCHANGED <<lines, passVars, seen, told, inbox>>

PushLine(j) ==
  /\ life[j] = "running" /\ lines[j] < MaxLines
  /\ lines' = [lines EXCEPT ![j] = @ + 1]
  /\ UNCHANGED <<life, passVars, seen, told, inbox>>

EndJob(j) ==
  /\ life[j] = "running"
  /\ life' = [life EXCEPT ![j] = "finished"]
  /\ UNCHANGED <<lines, passVars, seen, told, inbox>>

EvictJob(j) ==
  /\ life[j] = "finished"
  /\ OutlivesPass => seen[j].here /\ ~seen[j].running
  /\ life' = [life EXCEPT ![j] = "evicted"]
  /\ UNCHANGED <<lines, passVars, seen, told, inbox>>

Registry == \E j \in Jobs : CreateJob(j) \/ PushLine(j) \/ EndJob(j) \/ EvictJob(j)

----------------------------------------------------------------------------
(* The channel. *)

Delivered(box, e) ==
  IF ~box.open THEN box
  ELSE IF Len(box.queue) < Capacity THEN [box EXCEPT !.queue = Append(@, e)]
  ELSE [open |-> TRUE, queue |-> Append(Tail(box.queue), e), behind |-> TRUE]

Publish(e) ==
  /\ inbox' = [w \in Watchers |-> Delivered(inbox[w], e)]
  /\ told' = [told EXCEPT ![e.job] = [kind |-> e.kind, lines |-> e.lines]]

Silent == UNCHANGED <<inbox, told>>

(* A subscriber's side of it. *)
Box(w, box) ==
  /\ inbox' = [inbox EXCEPT ![w] = box]
  /\ UNCHANGED <<registryVars, passVars, seen, told>>

Subscribe(w) == Box(w, Opened)
Leave(w) == Box(w, Closed)
Heed(w) == inbox[w].behind /\ Box(w, [inbox[w] EXCEPT !.behind = FALSE])
Receive(w) ==
  /\ ~inbox[w].behind /\ inbox[w].queue # <<>>
  /\ Box(w, [inbox[w] EXCEPT !.queue = Tail(@)])

Subscribers == \E w \in Watchers : Subscribe(w) \/ Leave(w) \/ Heed(w) \/ Receive(w)

----------------------------------------------------------------------------
(* diff. *)

Snapshot ==
  /\ pass = "idle"
  /\ present' = Tracked /\ todo' = Tracked
  /\ pass' = IF Tracked = {} THEN "sweep" ELSE "next"
  /\ Silent /\ UNCHANGED <<registryVars, cur, seen>>

ReadState(j) ==
  /\ pass = "next" /\ j \in todo
  /\ cur' = [job |-> j, running |-> life[j] = "running", lines |-> 0]
  /\ pass' = "state"
  /\ Silent /\ UNCHANGED <<registryVars, present, todo, seen>>

ReadCount ==
  /\ pass = "state"
  /\ cur' = [cur EXCEPT !.lines = lines[cur.job]]
  /\ pass' = "count"
  /\ Silent /\ UNCHANGED <<registryVars, present, todo, seen>>

AnnounceUnless(known) ==
  /\ pass = "count"
  /\ IF known THEN Silent ELSE Publish(Event("created", cur.job, 0))
  /\ pass' = "announced"
  /\ UNCHANGED <<registryVars, present, todo, cur, seen>>

(* Mutant: a job last seen running is announced again when it is seen ended. *)
AnnounceAgain == AnnounceUnless(seen[cur.job].here /\ seen[cur.job].running = cur.running)
Announce == AnnounceUnless(seen[cur.job].here)

Progress == Publish(Event("progress", cur.job, cur.lines))

(* A running job is reported when it is new or has grown, and once in a while
   (the heartbeat) when it has not. *)
ReportRunning ==
  \/ Progress
  \/ seen[cur.job].here /\ seen[cur.job].lines = cur.lines /\ Silent

EndedUnless(known, n) == IF known THEN Silent ELSE Publish(Event("finished", cur.job, n))
Reported == seen[cur.job].here /\ ~seen[cur.job].running

(* Mutants: the end carries the count of the last pass; a job first seen ended is
   skipped. *)
ReportEndedSeen == EndedUnless(Reported, seen[cur.job].lines)
ReportEndedIfSeen == EndedUnless(~seen[cur.job].running, cur.lines)
(* An ended job is reported once. *)
ReportEnded == EndedUnless(Reported, cur.lines)

Report ==
  /\ pass = "announced"
  /\ IF cur.running THEN ReportRunning ELSE ReportEnded
  /\ seen' = [seen EXCEPT ![cur.job] = Look(cur.running, cur.lines)]
  /\ todo' = todo \ {cur.job}
  /\ pass' = IF todo = {cur.job} THEN "sweep" ELSE "next"
  /\ cur' = [cur EXCEPT !.running = FALSE, !.lines = 0]
  /\ UNCHANGED <<registryVars, present>>

(* Jobs that have left the registry are forgotten, each with an event. *)
Sweep(j) ==
  /\ pass = "sweep"
  /\ seen[j].here /\ j \notin present
  /\ seen' = [seen EXCEPT ![j] = Absent]
  /\ Publish(Event("evicted", j, 0))
  /\ UNCHANGED <<registryVars, passVars>>

PassDone ==
  /\ pass = "sweep"
  /\ \A j \in Jobs \ present : ~seen[j].here
  /\ pass' = "idle" /\ present' = {}
  /\ Silent /\ UNCHANGED <<registryVars, todo, cur, seen>>

Watch ==
  \/ Snapshot \/ (\E j \in Jobs : ReadState(j)) \/ ReadCount \/ Announce \/ Report
  \/ (\E j \in Jobs : Sweep(j)) \/ PassDone

WatchNext == Registry \/ Watch \/ Subscribers
WatchSpec == WatchInit /\ [][WatchNext]_watchVars

----------------------------------------------------------------------------
(* Properties. *)

(* What is published about a job is a story: it is created, progresses with counts
   that never fall, is finished once and is evicted, whatever the job does between
   two reads (events.rs, diff: "a short job must not be reported as still running,
   nor skipped"). *)
Follows(new, old) ==
  CASE new.kind = "created"  -> old.kind = "none"
    [] new.kind = "progress" -> old.kind \in {"created", "progress"} /\ new.lines >= old.lines
    [] new.kind = "finished" -> old.kind \in {"created", "progress"} /\ new.lines >= old.lines
    [] new.kind = "evicted"  -> old.kind = "finished"
StoryInOrder ==
  [][\A j \in Jobs : told'[j] # told[j] => Follows(told'[j], told[j])]_watchVars

(* The count published with the end is the job's last, although it was read while
   the job might still print (events.rs, JobFinished: "Carried so the final count is
   right even when the last JobProgress predates the job's closing output"). *)
FinishedCountIsFinal ==
  \A j \in Jobs : told[j].kind = "finished" => told[j].lines = lines[j]

(* The watch has told all there is to tell. *)
AllTold ==
  \A j \in Jobs :
    CASE life[j] = "running"  -> told[j].kind = "progress" /\ told[j].lines = lines[j]
      [] life[j] = "finished" -> told[j].kind = "finished"
      [] OTHER                -> told[j].kind \in {"none", "evicted"}

(* Counts, ends and evictions are all announced once the registry comes to rest: no
   change falls between two reads or two passes and is forgotten (events.rs, the
   module's head: "there is no emit site to forget"). *)
EverythingTold == <>[]AllTold
=============================================================================
