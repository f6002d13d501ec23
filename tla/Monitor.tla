-------------------------------- MODULE Monitor --------------------------------
(***************************************************************************)
(* The job list of a monitor (routes/events.rs: stream; bin/tui.rs:        *)
(* spawn_events, spawn_refresh; tui/app.rs: apply).  The monitor follows   *)
(* an event stream, which opens with a replay read from the registry and   *)
(* goes on with live events that overlap it, and now and then replaces its *)
(* list by one it fetched, which may be out of date when it arrives.       *)
(*                                                                         *)
(* Monitors do not meet, so there is one.  Its two tasks send to one queue *)
(* of actions, applied in order: sending stands for applying.  The server  *)
(* reads the jobs of a replay or a list one after the other; as each       *)
(* property is about one job, all states are read in one step here and all *)
(* counts in a later one.                                                  *)
(***************************************************************************)
EXTENDS JobWatch, FiniteSets

CONSTANTS
  Me,         \* the monitor's subscription
  MaxFaults   \* bound: lost connections and failed fetches

ASSUME MonitorAssumption == Watchers = {Me} /\ MaxFaults \in Nat /\ IsFiniteSet(Jobs)

VARIABLES
  conn,     \* the stream: "down", "snapshot", "counting", "live" or "resync"
  replay,   \* the replay's events not received yet
  reading,  \* the replay being read: what is known of each job
  fetch,    \* for each task that fetches, [at, list]
  view,     \* the monitor's list
  sound,    \* no event since the list was right is lost, nor was a stale list applied
  faults

streamVars == <<conn, replay, reading>>
viewVars == <<view, sound>>
vars == <<watchVars, streamVars, fetch, viewVars, faults>>

(* The reconciling ticker fetches, and the task that follows events after a lag. *)
Fetchers == {"ticker", "lag"}
Idle == [at |-> "idle", list |-> [j \in Jobs |-> Absent]]

(* What the registry would answer now. *)
Truth(j) == IF j \in Tracked THEN Look(life[j] = "running", lines[j]) ELSE Absent

(* Reading the list of jobs: their states first, counts later. *)
States == [j \in Jobs |-> IF j \in Tracked THEN Look(life[j] = "running", 0) ELSE Absent]
WithCounts(list) ==
  [j \in Jobs |-> IF list[j].here THEN Look(list[j].running, lines[j]) ELSE Absent]

Lists == [Jobs -> Looks \cup {Absent}]

TypeOK ==
  /\ WatchTypeOK
  /\ conn \in {"down", "snapshot", "counting", "live", "resync"}
  /\ replay \in Seq(Events) /\ reading \in Lists
  /\ fetch \in [Fetchers -> [at : {"idle", "counting", "answered"}, list : Lists]]
  /\ fetch["lag"].at # "idle" => conn = "resync"
  /\ view \in Lists /\ sound \in BOOLEAN /\ faults \in 0..MaxFaults
  /\ inbox[Me].open = (conn # "down")

Init ==
  /\ WatchInit
  /\ conn = "down" /\ replay = <<>> /\ reading = [j \in Jobs |-> Absent]
  /\ fetch = [f \in Fetchers |-> Idle]
  /\ view = [j \in Jobs |-> Absent] /\ sound = TRUE
  /\ faults = 0

(* The registry and the watch go on beside the monitor. *)
Server ==
  /\ Registry \/ Watch
  /\ UNCHANGED <<streamVars, fetch, viewVars, faults>>

----------------------------------------------------------------------------
(* The server's side of the stream. *)

(* stream: subscribe before the registry is read. *)
Connect ==
  /\ conn = "down"
  /\ conn' = "snapshot"
  /\ Subscribe(Me)
  /\ UNCHANGED <<replay, reading, fetch, viewVars, faults>>

ReplayStates ==
  /\ conn = "snapshot"
  /\ reading' = States
  /\ conn' = "counting"
  /\ UNCHANGED <<watchVars, replay, fetch, viewVars, faults>>

(* What a replay says of a job: that it was created, and how it is. *)
Spoken(j, look) == Event(IF look.running THEN "progress" ELSE "finished", j, look.lines)

(* The replays of a list: its jobs one after the other, as the registry's map happens
   to order them. *)
Orders(jobs) ==
  {order \in [1..Cardinality(jobs) -> jobs] : \A j \in jobs : \E k \in DOMAIN order : order[k] = j}
ReplayInOrder(order, list) ==
  [i \in 1..(2 * Len(order)) |->
     LET j == order[(i + 1) \div 2]
     IN  IF i % 2 = 1 THEN Event("created", j, 0) ELSE Spoken(j, list[j])]
Replays(list) == {ReplayInOrder(order, list) : order \in Orders({j \in Jobs : list[j].here})}

ReplayEnds ==
  /\ conn = "counting"
  /\ replay' \in Replays(WithCounts(reading))
  /\ reading' = [j \in Jobs |-> Absent]
  /\ conn' = "live"
  /\ UNCHANGED <<fetch, viewVars, faults>>

(* Mutant: the subscription is made when the replay has been read. *)
ReplayCountsThenSubscribe == ReplayEnds /\ Subscribe(Me)
ReplayCounts == ReplayEnds /\ UNCHANGED watchVars

----------------------------------------------------------------------------
(* apply. *)

Applied(old, e) ==
  CASE e.kind = "created"  -> IF old.here THEN old ELSE Look(TRUE, 0)
    [] e.kind = "progress" -> IF old.here /\ old.running THEN Look(TRUE, e.lines) ELSE old
    [] e.kind = "finished" -> IF old.here THEN Look(FALSE, e.lines) ELSE old
    [] e.kind = "evicted"  -> Absent

Apply(e) == view' = [view EXCEPT ![e.job] = Applied(@, e)]

RecvReplay ==
  /\ conn = "live" /\ replay # <<>>
  /\ Apply(Head(replay))
  /\ replay' = Tail(replay)
  /\ UNCHANGED <<watchVars, conn, reading, fetch, sound, faults>>

RecvEvent ==
  /\ conn = "live" /\ replay = <<>>
  /\ Receive(Me)
  /\ Apply(Head(inbox[Me].queue))
  /\ UNCHANGED <<streamVars, fetch, sound, faults>>

(* A lag is told before the events that are left; the task fetches the list and
   reads no event meanwhile. *)
RecvLagged ==
  /\ conn = "live" /\ replay = <<>>
  /\ Heed(Me)
  /\ conn' = "resync"
  /\ sound' = FALSE
  /\ UNCHANGED <<replay, reading, fetch, view, faults>>

----------------------------------------------------------------------------
(* list_jobs. *)

FetchStates(f) ==
  /\ fetch[f].at = "idle"
  /\ f = "lag" => conn = "resync"
  /\ fetch' = [fetch EXCEPT ![f] = [at |-> "counting", list |-> States]]
  /\ UNCHANGED <<watchVars, streamVars, viewVars, faults>>

FetchCounts(f) ==
  /\ fetch[f].at = "counting"
  /\ fetch' = [fetch EXCEPT ![f] = [at |-> "answered", list |-> WithCounts(@.list)]]
  /\ UNCHANGED <<watchVars, streamVars, viewVars, faults>>

(* The task is done with its fetch; the one that follows events follows on. *)
FetchOver(f) ==
  /\ fetch' = [fetch EXCEPT ![f] = Idle]
  /\ conn' = IF f = "lag" THEN "live" ELSE conn
  /\ UNCHANGED <<watchVars, replay, reading>>

RefreshWith(f, list) ==
  /\ fetch[f].at = "answered"
  /\ view' = list
  /\ sound' = (conn # "down" /\ \A j \in Jobs : list[j] = Truth(j))
  /\ FetchOver(f)
  /\ UNCHANGED faults

(* Mutant: the fetched jobs are merged into the list. *)
RefreshMerging(f) ==
  RefreshWith(f, [j \in Jobs |-> IF fetch[f].list[j].here THEN fetch[f].list[j] ELSE view[j]])
(* RefreshJobs replaces the list. *)
Refresh(f) == RefreshWith(f, fetch[f].list)

Fault == faults < MaxFaults /\ faults' = faults + 1

(* A fetch times out; the ticker will try again. *)
FetchFails(f) ==
  /\ fetch[f].at \in {"counting", "answered"}
  /\ Fault
  /\ FetchOver(f)
  /\ UNCHANGED viewVars

(* The connection is lost, and with it what was on its way. *)
Disconnect ==
  /\ conn \notin {"down", "resync"}
  /\ Fault
  /\ conn' = "down" /\ replay' = <<>> /\ reading' = [j \in Jobs |-> Absent]
  /\ Leave(Me)
  /\ sound' = FALSE
  /\ UNCHANGED <<fetch, view>>

Stream == Connect \/ ReplayStates \/ ReplayCounts \/ RecvReplay \/ RecvEvent \/ RecvLagged
Fetch(f) == FetchStates(f) \/ FetchCounts(f) \/ Refresh(f)

Next ==
  \/ Server \/ Stream \/ (\E f \in Fetchers : Fetch(f) \/ FetchFails(f))
  \/ Disconnect

Spec == Init /\ [][Next]_vars
FairSpec ==
  /\ Spec
  /\ WF_vars(Server /\ Watch)
  /\ WF_vars(Stream)
  /\ \A f \in Fetchers : WF_vars(Fetch(f))

----------------------------------------------------------------------------
(* Properties. *)

CaughtUp == conn = "live" /\ replay = <<>> /\ inbox[Me].queue = <<>> /\ ~inbox[Me].behind

(* A monitor that applied the replay and every live event shows the registry as it is,
   although the two overlap and the replay was read while jobs changed
   (routes/events.rs: "applied idempotently, so a duplicate costs nothing while a missed
   event would leave a watcher permanently wrong"). *)
EventsSuffice == CaughtUp /\ AllTold /\ sound => \A j \in Jobs : view[j] = Truth(j)

(* Whatever was lost and whatever stale list was applied, the reconciling ticker
   makes the list right in the end (bin/tui.rs, spawn_refresh: "a monitor must not stay
   wrong until the user restarts it"). *)
JobsHealed == \A j \in Jobs : <>[](view[j] = Truth(j))

----------------------------------------------------------------------------
(* The invariants that the proof of EventsSuffice rests on. *)

In(events, kinds, j) == \E i \in DOMAIN events : events[i].job = j /\ events[i].kind \in kinds

(* A look at a job is right, or the events on their way will make it so: state and
   count are the job's, last the last event told about it. *)
Fits(look, j, state, count, last, events) ==
  IF ~look.here
  THEN last.kind = "none" \/ state = "evicted" \/ In(events, {"created"}, j)
  ELSE IF look.running
  THEN /\ state # "new" /\ look.lines <= count
       /\ last.kind \in {"finished", "evicted"} => In(events, {"finished", "evicted"}, j)
       /\ last.kind = "progress" => last.lines <= look.lines \/ In(events, {"progress"}, j)
  ELSE /\ state \in {"finished", "evicted"} /\ look.lines = count
       /\ last.kind = "evicted" => In(events, {"evicted"}, j)

Coming == inbox[Me].queue
FitsNow(look, j) == Fits(look, j, life[j], lines[j], told[j], Coming)

(* Events on their way are true of the registry, and the last about a job is the last
   that was told. *)
Honest(events, states, counts, last) ==
  \A i \in DOMAIN events :
    LET e == events[i] IN
    /\ \E k \in i..Len(events) : events[k] = Event(last[e.job].kind, e.job, last[e.job].lines)
    /\ e.lines <= counts[e.job]
    /\ e.kind = "finished" => states[e.job] \in {"finished", "evicted"} /\ e.lines = counts[e.job]
    /\ e.kind = "evicted" => states[e.job] = "evicted"
ComingInv ==
  /\ ~inbox[Me].open => inbox[Me] = Closed
  /\ Honest(Coming, life, lines, told)

(* An evicted job was told to have ended. *)
EvictedInv == \A j \in Jobs : life[j] = "evicted" => told[j].kind \in {"finished", "evicted"}

(* What a replay says, or will say once its counts are read, fits; a job's creation is
   followed by how it is. *)
ReplayInv ==
  /\ conn # "live" => replay = <<>>
  /\ ~inbox[Me].behind =>
       /\ conn = "counting" => \A j \in Jobs : FitsNow(WithCounts(reading)[j], j)
       /\ \A i \in DOMAIN replay :
            LET e == replay[i] IN
            /\ e.kind # "evicted"
            /\ e.kind = "created" =>
                 \E k \in DOMAIN replay : /\ k > i /\ replay[k].job = e.job
                                         /\ replay[k].kind \in {"progress", "finished"}
            /\ e.kind = "progress" => FitsNow(Look(TRUE, e.lines), e.job)
            /\ e.kind = "finished" => FitsNow(Look(FALSE, e.lines), e.job)

(* The list fits, or the replay will see to it. *)
ViewInv ==
  sound /\ ~inbox[Me].behind =>
    \A j \in Jobs :
      IF ~view[j].here
      THEN conn \in {"down", "snapshot", "counting"} \/ FitsNow(view[j], j) \/ In(replay, {"created"}, j)
      ELSE /\ conn # "down"
           /\ ~FitsNow(view[j], j) => view[j].running /\ In(replay, {"progress", "finished"}, j)

MonitorInv == TypeOK /\ ComingInv /\ EvictedInv /\ ReplayInv /\ ViewInv
=============================================================================
