------------------------------- MODULE EnvRefresh -------------------------------
(***************************************************************************)
(* The login-shell environment of spawned commands (env_refresh.rs).  One  *)
(* task captures, publishes, sleeps and captures again.  A capture runs    *)
(* the user's shell on a thread of its own and waits twice, each time      *)
(* with a bound: for the shell's pid, then for its output.                 *)
(*                                                                         *)
(* The environment is abstracted to one value, the registry token, which   *)
(* the user's profile may rotate.  A slot of Captures is a thread with its *)
(* shell; a wedged shell keeps its slot.  Bounds: MaxToken rotations and   *)
(* MaxWedges shells that hang, fail or are late; fewer than the slots.     *)
(***************************************************************************)
EXTENDS Integers, FiniteSets

CONSTANTS Captures, MaxToken, MaxWedges

ASSUME EnvAssumption ==
  IsFiniteSet(Captures) /\ MaxToken \in Nat /\ MaxWedges \in Nat /\ MaxWedges < Cardinality(Captures)

VARIABLES
  token,    \* what a login shell started now would export
  cache,    \* CACHE: the published token, or NoEnv
  task,     \* the refresher: [at, slot, pid]; pid tells whether the shell's is known
  thread,   \* per slot: "free", "spawning", "spawned" (the pid not sent yet), "waiting", "failed"
  shell,    \* per slot: "none", "init", "wedged", "dumped", "empty", "killed"
  dump,     \* per slot: the token the shell printed
  late,     \* the slots whose pid came after the bound
  wedges

envVars == <<token, cache, task, thread, shell, dump, late, wedges>>

NoEnv == -1
Asleep == [at |-> "asleep", slot |-> CHOOSE n \in Captures : TRUE, pid |-> FALSE]

EnvTypeOK ==
  /\ token \in 0..MaxToken /\ cache \in NoEnv..token
  /\ task \in [at : {"asleep", "pid", "output"}, slot : Captures, pid : BOOLEAN]
  /\ thread \in [Captures -> {"free", "spawning", "spawned", "waiting", "failed"}]
  /\ shell \in [Captures -> {"none", "init", "wedged", "dumped", "empty", "killed"}]
  /\ dump \in [Captures -> NoEnv..MaxToken]
  /\ late \subseteq Captures /\ wedges \in 0..MaxWedges

EnvInit ==
  /\ token = 0 /\ cache = NoEnv
  /\ task = Asleep
  /\ thread = [n \in Captures |-> "free"]
  /\ shell = [n \in Captures |-> "none"]
  /\ dump = [n \in Captures |-> NoEnv]
  /\ late = {} /\ wedges = 0

(* The user's keychain issues a new token. *)
Rotate ==
  /\ token < MaxToken
  /\ token' = token + 1
  /\ UNCHANGED <<cache, task, thread, shell, dump, late, wedges>>

----------------------------------------------------------------------------
(* The capture's thread. *)

ShellSpawns(n) ==
  /\ thread[n] = "spawning"
  /\ thread' = [thread EXCEPT ![n] = "spawned"]
  /\ shell' = [shell EXCEPT ![n] = "init"]
  /\ UNCHANGED <<token, cache, task, dump, late, wedges>>

SpawnFails(n) ==
  /\ thread[n] = "spawning" /\ wedges < MaxWedges
  /\ thread' = [thread EXCEPT ![n] = "failed"]
  /\ wedges' = wedges + 1
  /\ UNCHANGED <<token, cache, task, shell, dump, late>>

(* pid_tx.send, then wait_with_output. *)
SendPid(n) ==
  /\ thread[n] = "spawned"
  /\ thread' = [thread EXCEPT ![n] = "waiting"]
  /\ UNCHANGED <<token, cache, task, shell, dump, late, wedges>>

(* Whether wait_with_output is over. *)
Output(n, states) == thread[n] = "failed" \/ (thread[n] = "waiting" /\ shell[n] \in states)

ThreadDone(n) ==
  /\ Output(n, {"dumped", "empty", "killed"})
  /\ task.at # "asleep" => task.slot # n
  /\ thread' = [thread EXCEPT ![n] = "free"]
  /\ shell' = [shell EXCEPT ![n] = "none"] /\ dump' = [dump EXCEPT ![n] = NoEnv]
  /\ late' = late \ {n}
  /\ UNCHANGED <<token, task, wedges>>
(* The output is sent, to nobody if the capture is over.
   Mutant: the thread publishes what it read. *)
ThreadEndsPublishing(n) ==
  ThreadDone(n) /\ cache' = IF shell[n] = "dumped" THEN dump[n] ELSE cache
ThreadEnds(n) == ThreadDone(n) /\ UNCHANGED cache

(* printenv ran: a capture is either a whole environment or none. *)
ShellDumps(n) ==
  /\ shell[n] = "init"
  /\ shell' = [shell EXCEPT ![n] = "dumped"] /\ dump' = [dump EXCEPT ![n] = token]
  /\ UNCHANGED <<token, cache, task, thread, late, wedges>>

(* The profile stalls, or ends the shell before printenv. *)
ShellHangs(n) ==
  /\ shell[n] = "init" /\ wedges < MaxWedges
  /\ \E s \in {"wedged", "empty"} : shell' = [shell EXCEPT ![n] = s]
  /\ wedges' = wedges + 1
  /\ UNCHANGED <<token, cache, task, thread, dump, late>>

----------------------------------------------------------------------------
(* The refresher. *)

(* capture starts a thread. *)
StartCapture ==
  /\ task.at = "asleep"
  /\ \E n \in Captures :
       /\ thread[n] = "free"
       /\ thread' = [thread EXCEPT ![n] = "spawning"]
       /\ task' = [at |-> "pid", slot |-> n, pid |-> FALSE]
  /\ UNCHANGED <<token, cache, shell, dump, late, wedges>>

RecvPid ==
  /\ task.at = "pid"
  /\ thread[task.slot] \in {"waiting", "failed"}
  /\ task' = [task EXCEPT !.at = "output", !.pid = thread[task.slot] = "waiting"]
  /\ UNCHANGED <<token, cache, thread, shell, dump, late, wedges>>

(* A shell that is healthy and yet slower than the bound counts as one that hangs. *)
Slow == wedges < MaxWedges /\ wedges' = wedges + 1
InTime == shell[task.slot] # "wedged" /\ task.slot \notin late

(* recv_timeout: the pid may still come, but nobody reads it any more. *)
PidTimesOut ==
  /\ task.at = "pid" /\ thread[task.slot] \in {"spawning", "spawned"}
  /\ Slow
  /\ task' = [task EXCEPT !.at = "output"]
  /\ late' = late \cup {task.slot}
  /\ UNCHANGED <<token, cache, thread, shell, dump>>

(* The output is there; refresh_once publishes a capture that worked and leaves the
   last one in place otherwise. *)
RecvOutput ==
  LET n == task.slot IN
  /\ task.at = "output"
  /\ Output(n, {"dumped", "empty"})
  /\ cache' = IF shell[n] = "dumped" THEN dump[n] ELSE cache
  /\ task' = Asleep
  /\ UNCHANGED <<token, thread, shell, dump, late, wedges>>

Killed(s) == IF s \in {"init", "wedged"} THEN "killed" ELSE s

(* The output did not come in time: the shell's group is killed.
   Mutant: the capture is given up, as Command::output would be. *)
OutputTimesOutLeaving ==
  /\ task.at = "output"
  /\ IF InTime THEN Slow ELSE UNCHANGED wedges
  /\ task' = Asleep
  /\ UNCHANGED <<token, cache, thread, shell, dump, late>>
OutputTimesOut ==
  /\ task.at = "output"
  /\ IF InTime THEN Slow ELSE UNCHANGED wedges
  /\ shell' = IF task.pid THEN [shell EXCEPT ![task.slot] = Killed(@)] ELSE shell
  /\ task' = Asleep
  /\ UNCHANGED <<token, cache, thread, dump, late>>

(* Mutant: nothing bounds the wait for the shell's output. *)
RefresherUnbounded == StartCapture \/ RecvPid \/ PidTimesOut \/ RecvOutput
(* The loop of spawn_refresher: it goes on whether or not the capture worked. *)
Refresher == StartCapture \/ RecvPid \/ PidTimesOut \/ RecvOutput \/ OutputTimesOut

Thread(n) == ShellSpawns(n) \/ SendPid(n) \/ ThreadEnds(n)

EnvNext ==
  \/ Rotate \/ Refresher
  \/ \E n \in Captures : Thread(n) \/ SpawnFails(n) \/ ShellDumps(n) \/ ShellHangs(n)

----------------------------------------------------------------------------
(* Properties. *)

(* A shell that outlives its capture is one whose pid came too late to be killed by:
   the "1265 stray zsh -l -i -c printenv processes" of env_refresh.rs, capture. *)
StraysComeLate ==
  \A n \in Captures :
    shell[n] \in {"init", "wedged"} /\ (task.at = "asleep" \/ task.slot # n) => n \in late

(* A snapshot is never replaced by an older one, whatever a capture that was given up
   prints afterwards (env_refresh.rs: one shell per interval, read in order). *)
SnapshotsMoveForward == [][cache' >= cache]_envVars

(* Commands get a rotated token in the end, however many shells hung or failed before
   ("builds see a live token without the caller (or the sidecar) needing a restart"). *)
TokenArrives == <>[](cache = token)

----------------------------------------------------------------------------
(* The inductive invariant. *)

Current(n) == task.at # "asleep" /\ task.slot = n

(* Only a thread that has spawned its shell has one. *)
ThreadInv == \A n \in Captures : thread[n] \in {"free", "spawning", "failed"} => shell[n] = "none"

(* A capture that waits for the output knows the pid, failed, or had it too late. *)
PidInv ==
  /\ task.at = "output" /\ task.slot \notin late =>
       (thread[task.slot] = "waiting" /\ task.pid) \/ thread[task.slot] = "failed"
  /\ \A n \in Captures :
       thread[n] = "spawning" /\ (Current(n) => task.at = "output") => n \in late

(* What a shell printed is not older than the snapshot it may replace. *)
DumpInv ==
  /\ \A n \in Captures : dump[n] <= token
  /\ \A n \in Captures : Current(n) /\ shell[n] = "dumped" => cache <= dump[n]

EnvInv == EnvTypeOK /\ ThreadInv /\ PidInv /\ DumpInv /\ StraysComeLate
=============================================================================
