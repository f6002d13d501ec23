----------------------------- MODULE JobRegistry -----------------------------
(***************************************************************************)
(* The registry of live and recently finished jobs (job.rs: JobRegistry):  *)
(* creation up to a cap, the runner task of each job (jobs.rs: create),    *)
(* requests that hold a job while they serve it, and the cleanup task that *)
(* reaps jobs whose runner is gone and evicts those that ended long ago.   *)
(*                                                                         *)
(* A job is an `Arc<Job>`: what matters of the actors is whether they hold *)
(* one, because the reaper decides by counting.                            *)
(***************************************************************************)
EXTENDS Naturals, FiniteSets

CONSTANTS
  Jobs,       \* the ids that will be drawn, each used once (Uuid::new_v4)
  Readers,    \* requests that look a job up and keep it for a while
  MaxJobs,    \* --max-jobs
  NoJob

ASSUME LimitAssumption == MaxJobs \in Nat \ {0}
ASSUME ReadersAssumption == IsFiniteSet(Readers) /\ NoJob \notin Jobs

VARIABLES
  stored,     \* keys of the registry's map
  state,      \* "unborn", "running", "finished" or "refused"
  endedBy,    \* who called the Job::finish that took effect
  expired,    \* finished_at.elapsed() > ttl
  runner,     \* "none", "handler" (in `create`), "running", "returned",
              \* "finished" or "gone"
  holds,      \* the job each reader holds
  sweep,      \* the cleanup task: "idle", "reap" or "evict"
  snapshot,   \* the jobs of the reaper's snapshot it has not come to
  suspect     \* the job whose count was low enough

vars == <<stored, state, endedBy, expired, runner, holds, sweep, snapshot, suspect>>

(* Types, the cap on the map, and the discipline of the cleanup task: it never
   holds a job that is no longer in the map, for it alone evicts. *)
TypeOK ==
  /\ stored \in SUBSET Jobs /\ Cardinality(stored) <= MaxJobs
  /\ snapshot \in SUBSET stored
  /\ state \in [Jobs -> {"unborn", "running", "finished", "refused"}]
  /\ endedBy \in [Jobs -> {"nobody", "runner", "reaper"}]
  /\ expired \in SUBSET Jobs
  /\ runner \in [Jobs -> {"none", "handler", "running", "returned", "finished", "gone"}]
  /\ holds \in [Readers -> Jobs \cup {NoJob}]
  /\ sweep \in {"idle", "reap", "evict"}
  /\ suspect \in stored \cup {NoJob}

Init ==
  /\ stored = {} /\ expired = {} /\ snapshot = {}
  /\ state = [j \in Jobs |-> "unborn"] /\ endedBy = [j \in Jobs |-> "nobody"]
  /\ runner = [j \in Jobs |-> "none"]
  /\ holds = [r \in Readers |-> NoJob]
  /\ sweep = "idle" /\ suspect = NoJob

----------------------------------------------------------------------------
(* Mutant: the cap is compared with one job too few. *)
CreateOverCap(j) ==
  /\ state[j] = "unborn"
  /\ Cardinality(stored) <= MaxJobs
  /\ stored' = stored \cup {j}
  /\ state' = [state EXCEPT ![j] = "running"]
  /\ runner' = [runner EXCEPT ![j] = "handler"]
  /\ UNCHANGED <<endedBy, expired, holds, sweep, snapshot, suspect>>

(* JobRegistry::create: the cap is checked and the job inserted under one
   lock. *)
Create(j) ==
  /\ state[j] = "unborn"
  /\ Cardinality(stored) < MaxJobs
  /\ stored' = stored \cup {j}
  /\ state' = [state EXCEPT ![j] = "running"]
  /\ runner' = [runner EXCEPT ![j] = "handler"]
  /\ UNCHANGED <<endedBy, expired, holds, sweep, snapshot, suspect>>

(* TooManyJobs. *)
Refuse(j) ==
  /\ state[j] = "unborn"
  /\ Cardinality(stored) >= MaxJobs
  /\ state' = [state EXCEPT ![j] = "refused"]
  /\ UNCHANGED <<stored, endedBy, expired, runner, holds, sweep, snapshot, suspect>>

(* The handler spawns the supervising task, and that one the run itself. *)
SpawnRunner(j) ==
  /\ runner[j] = "handler"
  /\ runner' = [runner EXCEPT ![j] = "running"]
  /\ UNCHANGED <<stored, state, endedBy, expired, holds, sweep, snapshot, suspect>>

(* The run has returned, or panicked: the supervising task is left. *)
RunReturns(j) ==
  /\ runner[j] = "running"
  /\ runner' = [runner EXCEPT ![j] = "returned"]
  /\ UNCHANGED <<stored, state, endedBy, expired, holds, sweep, snapshot, suspect>>

(* Job::finish: the first one takes effect. *)
FinishJob(j, who) ==
  \/ /\ state[j] = "running"
     /\ state' = [state EXCEPT ![j] = "finished"]
     /\ endedBy' = [endedBy EXCEPT ![j] = who]
  \/ state[j] # "running" /\ UNCHANGED <<state, endedBy>>

RunnerFinishes(j) ==
  /\ runner[j] = "returned"
  /\ FinishJob(j, "runner")
  /\ runner' = [runner EXCEPT ![j] = "finished"]
  /\ UNCHANGED <<stored, expired, holds, sweep, snapshot, suspect>>

(* The metrics are recorded and the task ends. *)
RunnerEnds(j) ==
  /\ runner[j] = "finished"
  /\ runner' = [runner EXCEPT ![j] = "gone"]
  /\ UNCHANGED <<stored, state, endedBy, expired, holds, sweep, snapshot, suspect>>

(* The tasks are aborted, at any of their awaits. *)
RunnerAborted(j) ==
  /\ runner[j] \in {"running", "returned"}
  /\ runner' = [runner EXCEPT ![j] = "gone"]
  /\ UNCHANGED <<stored, state, endedBy, expired, holds, sweep, snapshot, suspect>>

(* JobRegistry::get, and the end of the request. *)
Get(r, j) ==
  /\ holds[r] = NoJob
  /\ j \in stored
  /\ holds' = [holds EXCEPT ![r] = j]
  /\ UNCHANGED <<stored, state, endedBy, expired, runner, sweep, snapshot, suspect>>

Release(r) ==
  /\ holds[r] # NoJob
  /\ holds' = [holds EXCEPT ![r] = NoJob]
  /\ UNCHANGED <<stored, state, endedBy, expired, runner, sweep, snapshot, suspect>>

(* The time to live of a finished job passes. *)
Expire(j) ==
  /\ state[j] = "finished"
  /\ j \notin expired
  /\ expired' = expired \cup {j}
  /\ UNCHANGED <<stored, state, endedBy, runner, holds, sweep, snapshot, suspect>>

----------------------------------------------------------------------------
(* The cleanup task. *)

(* A tick: reap_orphans clones every job of the map. *)
Tick ==
  /\ sweep = "idle"
  /\ sweep' = "reap"
  /\ snapshot' = stored
  /\ UNCHANGED <<stored, state, endedBy, expired, runner, holds, suspect>>

(* The clones of job j held by its runner: the supervising task, the run and its
   drain; then the supervising task alone; then none. *)
RunnerClones(j) ==
  CASE runner[j] = "running" -> 3
    [] runner[j] \in {"handler", "returned", "finished"} -> 1
    [] OTHER -> 0

(* Arc::strong_count, seen by the reaper, which has a clone itself. *)
StrongCount(j) ==
  1 + (IF j \in stored THEN 1 ELSE 0) + RunnerClones(j)
    + Cardinality({r \in Readers : holds[r] = j})

(* Mutant: one clone too many is tolerated. *)
LooksOrphanedByThree(j) == StrongCount(j) <= 3

LooksOrphaned(j) == StrongCount(j) <= 2

(* The count first, then the state: other tasks run in between. *)
ReapCount(j) ==
  /\ sweep = "reap" /\ suspect = NoJob
  /\ j \in snapshot
  /\ snapshot' = snapshot \ {j}
  /\ suspect' = IF LooksOrphaned(j) THEN j ELSE NoJob
  /\ UNCHANGED <<stored, state, endedBy, expired, runner, holds, sweep>>

(* Mutant: the orphan is noticed and only logged. *)
ReapLogging ==
  /\ suspect # NoJob
  /\ suspect' = NoJob
  /\ UNCHANGED <<stored, state, endedBy, expired, runner, holds, sweep, snapshot>>

(* Still running: Job::finish(Failed), which looks at the state again. *)
Reap ==
  /\ suspect # NoJob
  /\ FinishJob(suspect, "reaper")
  /\ suspect' = NoJob
  /\ UNCHANGED <<stored, expired, runner, holds, sweep, snapshot>>

ReapDone ==
  /\ sweep = "reap" /\ suspect = NoJob /\ snapshot = {}
  /\ sweep' = "evict"
  /\ UNCHANGED <<stored, state, endedBy, expired, runner, holds, snapshot, suspect>>

(* evict_expired, under one lock. *)
Evict ==
  /\ sweep = "evict"
  /\ stored' = {j \in stored : ~(state[j] = "finished" /\ j \in expired)}
  /\ sweep' = "idle"
  /\ UNCHANGED <<state, endedBy, expired, runner, holds, snapshot, suspect>>

Cleanup == Tick \/ (\E j \in Jobs : ReapCount(j)) \/ Reap \/ ReapDone \/ Evict
Runner(j) == SpawnRunner(j) \/ RunReturns(j) \/ RunnerFinishes(j) \/ RunnerEnds(j)

Next ==
  \/ \E j \in Jobs : Create(j) \/ Refuse(j) \/ Runner(j) \/ RunnerAborted(j) \/ Expire(j)
  \/ \E r \in Readers : Release(r) \/ \E j \in Jobs : Get(r, j)
  \/ Cleanup

Spec == Init /\ [][Next]_vars

(* The run of a job ends (JobRunner!EveryJobFinishes), time passes and the cleanup
   task is never stopped. A request on a running job may last as long as the
   job runs (a stream does); when the job has ended the request ends too. *)
FairSpec ==
  /\ Spec
  /\ WF_vars(Cleanup)
  /\ \A j \in Jobs : WF_vars(Runner(j)) /\ WF_vars(Expire(j))
  /\ \A r \in Readers :
       WF_vars(holds[r] # NoJob /\ state[holds[r]] = "finished" /\ Release(r))

----------------------------------------------------------------------------
(* Safety: the reaper fails a job only if its runner had already vanished. The
   verdict rests on a count read before the state, while runners end, jobs
   finish and requests come and go. *)
ReapsOnlyOrphans ==
  \A j \in Jobs : endedBy[j] = "reaper" => runner[j] = "gone"

(* Liveness: no job keeps its slot for ever, be its runner aborted or not; but
   for an orphan some request still holds, which the count cannot tell from a
   job that runs. *)
HeldOrphan(j) ==
  /\ state[j] = "running" /\ runner[j] = "gone"
  /\ \E r \in Readers : holds[r] = j

SlotsComeBack ==
  \A j \in Jobs : (j \in stored) ~> (j \notin stored \/ HeldOrphan(j))
=============================================================================
