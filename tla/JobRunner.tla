------------------------------ MODULE JobRunner ------------------------------
(***************************************************************************)
(* One job under supervision: `pty::run` and its `KillHandle`, the         *)
(* blocking thread that spawns the child and pumps its terminal, the       *)
(* process group itself, the task that turns the result into               *)
(* `Job::finish`, and the DELETE /jobs/{id} requests that race them all.   *)
(*                                                                         *)
(* Five actors interleave:                                                 *)
(*   - the async run task (`pc`, `ladder`): a `select!` over the drain of  *)
(*     the chunk channel, the cancel escalation, the deadline and the idle *)
(*     clock, then the shutdown ladder;                                    *)
(*   - the blocking thread (`thr`): spawn, `KillHandle::set`, announce the *)
(*     pid, type the input, pump, wait;                                    *)
(*   - the child's processes (`live`, `tty`), which write, close the       *)
(*     terminal and exit whenever they like;                               *)
(*   - the kernel, delivering SIGTERM and SIGKILL to the process group;    *)
(*   - cancel requests (`cpc`).                                            *)
(*                                                                         *)
(* Every atomic access of the code is a step of its own where another      *)
(* actor can come in between: `pid` is loaded and `pending` stored in two  *)
(* steps, `set` stores `pid` and swaps `pending` in two steps.             *)
(*                                                                         *)
(* Abstractions.  Time: the deadline, the idle clock, the end of the grace *)
(* period and POST_SIGNAL_DRAIN may expire at any moment after they are    *)
(* started.  Data: the channel carries chunks (a line, a redraw, the pid)  *)
(* that are only counted; a taken chunk is applied to the job in the same  *)
(* step (push_line, mark_output or set_pid).                               *)
(***************************************************************************)
EXTENDS Naturals, JobOutcome

CONSTANTS
  Clients,         \* DELETE requests for this job
  Leader,          \* the spawned child, leader of its session and group
  Members,         \* descendants that stay in the child's process group
  Escapees,        \* descendants that left it with a setsid of their own
  Capacity,        \* bound of the mpsc channel (512 in the code)
  MaxWrites,       \* bound: writes of the child to its terminal
  GraceIsZero,     \* --kill-grace 0
  HasIdleTimeout,  \* the request carried idle_timeout_secs
  MayPanic         \* the run task may panic while it handles a line

Group == {Leader} \cup Members
Procs == Group \cup Escapees

ASSUME BoundsAssumption == Capacity \in Nat \ {0} /\ MaxWrites \in Nat
ASSUME FlagsAssumption == /\ GraceIsZero \in BOOLEAN
                          /\ HasIdleTimeout \in BOOLEAN
                          /\ MayPanic \in BOOLEAN
ASSUME EscapeesAssumption == Group \cap Escapees = {}

VARIABLES
  \* the Job (job.rs)
  state,      \* JobState: Running, or the outcome it finished with
  canceled,   \* the flag `cancel` sets and the run task reads
  armed,      \* kill_fn is Some
  \* the KillHandle (pty.rs)
  published,  \* pid # 0
  pending,    \* a request found no pid and left this for `set`
  \* the kernel's view of the job's processes
  live,       \* processes that exist
  tty,        \* processes that hold the terminal (or the pipes) open
  termed,     \* SIGTERM reached a live group
  \* the blocking thread and the two channels it feeds
  thr, exit,
  written,    \* writes to the terminal
  read,       \* of those, consumed by `pump`
  sent,       \* chunks handed to the channel
  taken,      \* of those, received by `drain` and applied to the job
  \* the run task
  pc, stop, ladder, woken, escalated, result,
  \* the cancel requests
  cpc, reply

jobVars    == <<state, canceled, armed>>
killVars   == <<published, pending>>
procVars   == <<live, tty, termed>>
threadVars == <<thr, exit, written, read, sent>>
runVars    == <<pc, stop, ladder, woken, escalated, result>>
clientVars == <<cpc, reply>>
vars == <<jobVars, killVars, procVars, threadVars, taken, runVars, clientVars>>

----------------------------------------------------------------------------
IsRunning == state = Running

ThreadSteps == {"idle", "spawn", "publish", "replay", "announce", "input",
                "pump", "flush", "wait", "close", "closed"}
(* The child's pid cannot be known, or the replay has not run yet. *)
BeforeReplay == {"idle", "spawn", "publish", "replay"}
LadderSteps == {"unpolled", "waiting", "term", "termStore", "grace", "kill",
                "killStore", "done"}

TypeOK ==
  /\ state \in OutcomeSet /\ result \in OutcomeSet
  /\ canceled \in BOOLEAN /\ armed \in BOOLEAN
  /\ published \in BOOLEAN /\ pending \in BOOLEAN /\ termed \in BOOLEAN
  /\ woken \in BOOLEAN /\ escalated \in BOOLEAN
  /\ live \subseteq Procs /\ tty \subseteq live
  /\ thr \in ThreadSteps
  /\ exit \in {"none", "ok", "error", "dropped"}
  /\ written \in Nat /\ read \in 0..written
  /\ sent \in Nat /\ taken \in 0..sent /\ sent <= taken + Capacity
  /\ pc \in {"new", "armed", "loop", "shutdown", "postdrain", "returned", "finished"}
  /\ stop \in {"none", "timed_out", "idle_timed_out"}
  /\ ladder \in LadderSteps
  /\ cpc \in [Clients -> {"idle", "checked", "running", "marked", "store", "notify", "done"}]
  /\ reply \in [Clients -> {"none", "refused", "intent", "signalled"}]

Init ==
  /\ state = Running /\ canceled = FALSE /\ armed = FALSE
  /\ published = FALSE /\ pending = FALSE
  /\ live = {} /\ tty = {} /\ termed = FALSE
  /\ thr = "idle" /\ exit = "none"
  /\ written = 0 /\ read = 0 /\ sent = 0 /\ taken = 0
  /\ pc = "new" /\ stop = "none" /\ ladder = "unpolled"
  /\ woken = FALSE /\ escalated = FALSE /\ result = Running
  /\ cpc = [c \in Clients |-> "idle"] /\ reply = [c \in Clients |-> "none"]

----------------------------------------------------------------------------
(* kill(2) on the process group. *)

GroupAlive == live \cap Group # {}
(* A group exists while it has a live member or an unreaped leader. *)
GroupExists == GroupAlive \/ thr \notin {"close", "closed"}

TermArrives == /\ termed' = (termed \/ GroupAlive)
               /\ UNCHANGED <<live, tty>>
KillArrives == /\ live' = live \ Group
               /\ tty' = tty \ Group
               /\ UNCHANGED termed

(* What the child's processes do on their own. *)
ChildWrites(p) ==
  /\ p \in tty
  /\ written < MaxWrites
  /\ written' = written + 1
  /\ UNCHANGED <<jobVars, killVars, procVars, thr, exit, read, sent, taken, runVars, clientVars>>

ChildClosesTerminal(p) ==
  /\ p \in tty
  /\ tty' = tty \ {p}
  /\ UNCHANGED <<jobVars, killVars, live, termed, threadVars, taken, runVars, clientVars>>

ChildExits(p) ==
  /\ p \in live
  /\ live' = live \ {p}
  /\ tty' = tty \ {p}
  /\ UNCHANGED <<jobVars, killVars, termed, threadVars, taken, runVars, clientVars>>

Child == \E p \in Procs : ChildWrites(p) \/ ChildClosesTerminal(p) \/ ChildExits(p)

----------------------------------------------------------------------------
(* The blocking thread. *)

(* The receiver lives inside `drain`, which is dropped when `run` returns. *)
ReceiverOpen == pc \in {"armed", "loop", "shutdown", "postdrain"}

(* `Sender::blocking_send`: waits for room, fails once the receiver is gone. *)
SendChunk(ok, gone) ==
  \/ /\ ReceiverOpen
     /\ sent - taken < Capacity
     /\ sent' = sent + 1
     /\ thr' = ok
  \/ /\ ~ReceiverOpen
     /\ thr' = gone
     /\ UNCHANGED sent

(* Command::spawn: the child exists, or the spawn fails, or setting it up
   panics before there is a child. *)
Spawn ==
  /\ thr = "spawn"
  /\ \/ \E helpers \in SUBSET (Members \cup Escapees) :
          /\ live' = {Leader} \cup helpers
          /\ tty' = {Leader} \cup helpers
          /\ thr' = "publish"
          /\ UNCHANGED exit
     \/ /\ exit' = "error"
        /\ thr' = "close"
        /\ UNCHANGED <<live, tty>>
     \/ /\ exit' = "dropped"
        /\ thr' = "close"
        /\ UNCHANGED <<live, tty>>
  /\ UNCHANGED <<jobVars, killVars, termed, written, read, sent, taken, runVars, clientVars>>

(* KillHandle::set, first half: store the pid ... *)
SetPublish ==
  /\ thr = "publish"
  /\ published' = TRUE
  /\ thr' = "replay"
  /\ UNCHANGED <<jobVars, pending, procVars, exit, written, read, sent, taken, runVars, clientVars>>

(* ... second half: swap `pending`, and deliver a request that came first. *)
SetReplay ==
  /\ thr = "replay"
  /\ \/ pending /\ KillArrives
     \/ ~pending /\ UNCHANGED procVars
  /\ pending' = FALSE
  /\ thr' = "announce"
  /\ UNCHANGED <<jobVars, published, exit, written, read, sent, taken, runVars, clientVars>>

AnnouncePid ==
  /\ thr = "announce"
  /\ SendChunk("input", "input")
  /\ UNCHANGED <<jobVars, killVars, procVars, exit, written, read, taken, runVars, clientVars>>

(* Typing the queued answers.  The write returns when the child's side takes
   them, which it may never do, or fails once nobody holds the terminal. *)
WriteInput ==
  /\ thr = "input"
  /\ thr' = "pump"
  /\ UNCHANGED <<jobVars, killVars, procVars, exit, written, read, sent, taken, runVars, clientVars>>

(* `pump`: read what the child wrote and send a chunk for it; a failed send
   ends the pump. *)
PumpRead ==
  /\ thr = "pump"
  /\ read < written
  /\ SendChunk("pump", "wait")
  /\ read' = read + 1
  /\ UNCHANGED <<jobVars, killVars, procVars, exit, written, taken, runVars, clientVars>>

(* End of file: nobody holds the terminal and everything written was read.
   `LineAssembler::finish` may have a last line to flush. *)
PumpEof ==
  /\ thr = "pump"
  /\ read = written
  /\ tty = {}
  /\ thr' \in {"flush", "wait"}
  /\ UNCHANGED <<jobVars, killVars, procVars, exit, written, read, sent, taken, runVars, clientVars>>

PumpFlush ==
  /\ thr = "flush"
  /\ SendChunk("wait", "wait")
  /\ UNCHANGED <<jobVars, killVars, procVars, exit, written, read, taken, runVars, clientVars>>

(* child.wait(), then exit_tx.send. *)
WaitChild ==
  /\ thr = "wait"
  /\ Leader \notin live
  /\ exit' = "ok"
  /\ thr' = "close"
  /\ UNCHANGED <<jobVars, killVars, procVars, written, read, sent, taken, runVars, clientVars>>

(* The thread's closure ends and drops the channel's last sender. *)
DropSender ==
  /\ thr = "close"
  /\ thr' = "closed"
  /\ UNCHANGED <<jobVars, killVars, procVars, exit, written, read, sent, taken, runVars, clientVars>>

Thread == \/ Spawn \/ SetPublish \/ SetReplay \/ AnnouncePid \/ WriteInput
          \/ PumpRead \/ PumpEof \/ PumpFlush \/ WaitChild \/ DropSender

----------------------------------------------------------------------------
(* The run task: `pty::run`. *)

(* Between reading `pid` and acting on it, the task does not reach an await:
   nothing else it does can come in between. *)
AtAwait == ladder \notin {"kill", "termStore", "killStore"}

ArmKill ==
  /\ pc = "new"
  /\ armed' = TRUE
  /\ pc' = "armed"
  /\ UNCHANGED <<state, canceled, killVars, procVars, threadVars, taken, stop, ladder,
                 woken, escalated, result, clientVars>>

SpawnBlocking ==
  /\ pc = "armed"
  /\ thr' = "spawn"
  /\ pc' = "loop"
  /\ UNCHANGED <<jobVars, killVars, procVars, exit, written, read, sent, taken, stop, ladder,
                 woken, escalated, result, clientVars>>

(* The drain future is polled in the select loop, during the shutdown and in
   the bounded wait after it, and nowhere else. *)
Draining == pc \in {"loop", "shutdown", "postdrain"} /\ AtAwait

Drain ==
  /\ Draining
  /\ taken < sent
  /\ taken' = taken + 1
  /\ UNCHANGED <<jobVars, killVars, procVars, threadVars, runVars, clientVars>>

(* Mutant: the exit status is collected without waiting for the channel. *)
ExitReported == exit # "none"

(* `recv` returned None: the sender is dropped and nothing is buffered. *)
ChannelClosed == thr = "closed" /\ taken = sent

(* What the drain returns once the channel is closed. *)
ExitOutcome == IF exit = "ok" THEN Completed ELSE Failed
(* Mutant: a run that had to be killed is taken for a canceled one. *)
VerdictIfKilled(o) ==
  IF canceled \/ escalated THEN Outcome("canceled", escalated) ELSE o
(* A cancel outranks whatever ended the run. *)
Verdict(o) == IF canceled THEN Outcome("canceled", escalated) ELSE o

Return(o) ==
  /\ result' = Verdict(o)
  /\ pc' = "returned"
  /\ UNCHANGED <<jobVars, killVars, procVars, threadVars, taken, stop, ladder, woken,
                 escalated, clientVars>>

(* select! arm: the drain finished on its own. *)
DrainedInLoop == pc = "loop" /\ AtAwait /\ ChannelClosed /\ Return(ExitOutcome)

(* select! arm: the escalation future is polled for the first time, and only
   from then on is it registered with the Notify. *)
PollEscalation ==
  /\ pc = "loop"
  /\ ladder = "unpolled"
  /\ ladder' = "waiting"
  /\ UNCHANGED <<jobVars, killVars, procVars, threadVars, taken, pc, stop, woken, escalated,
                 result, clientVars>>

(* The notification arrived: enforce_grace, with the SIGTERM already sent. *)
WakeEscalation ==
  /\ pc = "loop"
  /\ ladder = "waiting"
  /\ woken
  /\ ladder' = IF GraceIsZero THEN "kill" ELSE "grace"
  /\ UNCHANGED <<jobVars, killVars, procVars, threadVars, taken, pc, stop, woken, escalated,
                 result, clientVars>>

(* select! arms: the deadline, and the idle clock when there is one.  The
   escalation future is not polled again. *)
StopWaiting(reason) ==
  /\ pc = "loop"
  /\ AtAwait
  /\ pc' = "shutdown"
  /\ stop' = reason
  /\ ladder' = "term"
  /\ UNCHANGED <<jobVars, killVars, procVars, threadVars, taken, woken, escalated, result,
                 clientVars>>

Deadline    == StopWaiting("timed_out")
IdleExpired == HasIdleTimeout /\ StopWaiting("idle_timed_out")

(* shut_down: terminate_group, or straight to the kill without a grace. *)
TerminateGroup ==
  /\ pc = "shutdown"
  /\ ladder = "term"
  /\ \/ GraceIsZero /\ ladder' = "kill" /\ UNCHANGED procVars
     \/ ~GraceIsZero /\ published /\ TermArrives /\ ladder' = "grace"
     \/ ~GraceIsZero /\ ~published /\ ladder' = "termStore" /\ UNCHANGED procVars
  /\ UNCHANGED <<jobVars, killVars, threadVars, taken, pc, stop, woken, escalated, result,
                 clientVars>>

(* Mutant: a SIGTERM with no pid to go to is forgotten. *)
TermForgotten ==
  /\ ladder = "termStore"
  /\ ladder' = "grace"
  /\ UNCHANGED <<jobVars, killVars, procVars, threadVars, taken, pc, stop, woken, escalated,
                 result, clientVars>>

TermStore ==
  /\ ladder = "termStore"
  /\ pending' = TRUE
  /\ ladder' = "grace"
  /\ UNCHANGED <<jobVars, published, procVars, threadVars, taken, pc, stop, woken, escalated,
                 result, clientVars>>

InGrace == pc \in {"loop", "shutdown"} /\ ladder = "grace"

(* enforce_grace: the probe found no group (without a pid it reports alive). *)
GraceSeesExit ==
  /\ InGrace
  /\ published
  /\ ~GroupAlive
  /\ ladder' = "done"
  /\ UNCHANGED <<jobVars, killVars, procVars, threadVars, taken, pc, stop, woken, escalated,
                 result, clientVars>>

(* enforce_grace: the grace period is over. *)
GraceExpires ==
  /\ InGrace
  /\ ladder' = "kill"
  /\ UNCHANGED <<jobVars, killVars, procVars, threadVars, taken, pc, stop, woken, escalated,
                 result, clientVars>>

(* kill_group, and the escalation is recorded whatever it found. *)
KillGroup ==
  /\ ladder = "kill"
  /\ \/ published /\ KillArrives /\ ladder' = "done" /\ escalated' = TRUE
     \/ ~published /\ ladder' = "killStore" /\ UNCHANGED <<procVars, escalated>>
  /\ UNCHANGED <<jobVars, killVars, threadVars, taken, pc, stop, woken, result, clientVars>>

KillStore ==
  /\ ladder = "killStore"
  /\ pending' = TRUE
  /\ ladder' = "done"
  /\ escalated' = TRUE
  /\ UNCHANGED <<jobVars, published, procVars, threadVars, taken, pc, stop, woken, result,
                 clientVars>>

StopOutcome == Outcome(stop, escalated)

(* The drain finished while the ladder was still climbing. *)
DrainedInShutdown == pc = "shutdown" /\ AtAwait /\ ChannelClosed /\ Return(StopOutcome)

(* The ladder finished first: keep draining, for a bounded moment. *)
ShutdownDone ==
  /\ pc = "shutdown"
  /\ ladder = "done"
  /\ pc' = "postdrain"
  /\ UNCHANGED <<jobVars, killVars, procVars, threadVars, taken, stop, ladder, woken, escalated,
                 result, clientVars>>

DrainedAfterShutdown == pc = "postdrain" /\ ChannelClosed /\ Return(StopOutcome)
(* Mutant: the wait for a late end of file is not bounded. *)
PostSignalDrainUnbounded == pc = "postdrain" /\ ChannelClosed /\ Return(StopOutcome)
PostSignalDrain      == pc = "postdrain" /\ Return(StopOutcome)

(* Handling a line (echoing it in verbose mode) panics: the task is gone, and
   the join in `create` turns that into Failed. *)
RunPanics ==
  /\ MayPanic
  /\ Draining
  /\ taken < sent
  /\ result' = Failed
  /\ pc' = "returned"
  /\ UNCHANGED <<jobVars, killVars, procVars, threadVars, taken, stop, ladder, woken,
                 escalated, clientVars>>

(* The supervising task of `create`: Job::finish, first outcome wins. *)
Finish ==
  /\ pc = "returned"
  /\ state' = IF IsRunning THEN result ELSE state
  /\ pc' = "finished"
  /\ UNCHANGED <<canceled, armed, killVars, procVars, threadVars, taken, stop, ladder, woken,
                 escalated, result, clientVars>>

Ladder == \/ PollEscalation \/ WakeEscalation \/ TerminateGroup \/ TermStore
          \/ GraceSeesExit \/ GraceExpires \/ KillGroup \/ KillStore

RunTask == \/ ArmKill \/ SpawnBlocking \/ Drain \/ DrainedInLoop
           \/ Ladder \/ Deadline \/ IdleExpired
           \/ DrainedInShutdown \/ ShutdownDone \/ DrainedAfterShutdown
           \/ PostSignalDrain \/ RunPanics \/ Finish

----------------------------------------------------------------------------
(* A cancel request: the handler of DELETE /jobs/{id}, and Job::cancel. *)

(* The handler's own look at the state (`was_running`). *)
CancelRequest(c) ==
  /\ cpc[c] = "idle"
  /\ \/ IsRunning /\ cpc' = [cpc EXCEPT ![c] = "checked"] /\ UNCHANGED reply
     \/ /\ ~IsRunning
        /\ cpc' = [cpc EXCEPT ![c] = "done"]
        /\ reply' = [reply EXCEPT ![c] = "refused"]
  /\ UNCHANGED <<jobVars, killVars, procVars, threadVars, taken, runVars>>

(* Job::cancel looks again. *)
CancelCheck(c) ==
  /\ cpc[c] = "checked"
  /\ \/ IsRunning /\ cpc' = [cpc EXCEPT ![c] = "running"] /\ UNCHANGED reply
     \/ /\ ~IsRunning
        /\ cpc' = [cpc EXCEPT ![c] = "done"]
        /\ reply' = [reply EXCEPT ![c] = "intent"]
  /\ UNCHANGED <<jobVars, killVars, procVars, threadVars, taken, runVars>>

CancelMark(c) ==
  /\ cpc[c] = "running"
  /\ canceled' = TRUE
  /\ cpc' = [cpc EXCEPT ![c] = "marked"]
  /\ UNCHANGED <<state, armed, killVars, procVars, threadVars, taken, runVars, reply>>

(* The kill callback, if armed: terminate_group loads the pid ... *)
CancelSignal(c) ==
  /\ cpc[c] = "marked"
  /\ \/ /\ ~armed
        /\ cpc' = [cpc EXCEPT ![c] = "done"]
        /\ reply' = [reply EXCEPT ![c] = "intent"]
        /\ UNCHANGED procVars
     \/ /\ armed /\ published
        /\ TermArrives
        /\ cpc' = [cpc EXCEPT ![c] = "notify"]
        /\ reply' = [reply EXCEPT ![c] = IF GroupExists THEN "signalled" ELSE "intent"]
     \/ /\ armed /\ ~published
        /\ cpc' = [cpc EXCEPT ![c] = "store"]
        /\ UNCHANGED <<reply, procVars>>
  /\ UNCHANGED <<jobVars, killVars, threadVars, taken, runVars>>

(* ... and leaves the request for `set` when there was none. *)
CancelStore(c) ==
  /\ cpc[c] = "store"
  /\ pending' = TRUE
  /\ cpc' = [cpc EXCEPT ![c] = "notify"]
  /\ reply' = [reply EXCEPT ![c] = "signalled"]
  /\ UNCHANGED <<jobVars, published, procVars, threadVars, taken, runVars>>

(* notify_waiters reaches only a future that is already waiting. *)
CancelNotify(c) ==
  /\ cpc[c] = "notify"
  /\ woken' = (woken \/ ladder = "waiting")
  /\ cpc' = [cpc EXCEPT ![c] = "done"]
  /\ UNCHANGED <<jobVars, killVars, procVars, threadVars, taken, pc, stop, ladder, escalated,
                 result, reply>>

CancelSteps(c) == \/ CancelCheck(c) \/ CancelMark(c) \/ CancelSignal(c)
                  \/ CancelStore(c) \/ CancelNotify(c)
Cancel == \E c \in Clients : CancelRequest(c) \/ CancelSteps(c)

----------------------------------------------------------------------------
(* Everything has come to rest. *)
Rest ==
  /\ pc = "finished" /\ thr = "closed" /\ live = {}
  /\ \A c \in Clients : cpc[c] = "done"
  /\ UNCHANGED vars

Next == RunTask \/ Thread \/ Child \/ Cancel \/ Rest
Spec == Init /\ [][Next]_vars

(* Fairness.  tokio polls a ready task and a ready timer; the blocking thread
   runs; a request that was accepted is carried through.  The child owes
   nothing: it need not write, read its input, close its terminal or exit. *)
TimerFree == ArmKill \/ SpawnBlocking \/ Drain \/ DrainedInLoop \/ DrainedInShutdown
             \/ DrainedAfterShutdown \/ ShutdownDone \/ Finish
ThreadProgress == \/ Spawn \/ SetPublish \/ SetReplay \/ AnnouncePid
                  \/ (tty = {} /\ WriteInput)
                  \/ PumpRead \/ PumpEof \/ PumpFlush \/ WaitChild \/ DropSender
Fairness ==
  /\ WF_vars(TimerFree) /\ WF_vars(Ladder) /\ WF_vars(PostSignalDrain)
  /\ WF_vars(ThreadProgress)
  /\ \A c \in Clients : WF_vars(CancelSteps(c))
  /\ WF_vars(Deadline)

FairSpec == Spec /\ Fairness

(* The job as its clients see it; a chunk applied is output. *)
Lifecycle == INSTANCE JobLifecycle WITH output <- taken

----------------------------------------------------------------------------
(* Properties. *)

(* A job reported as completed has its whole output: everything the child
   wrote was read, and every chunk that was sent was applied, before the exit
   status was looked at (pty.rs: the drain collects the status only after the
   channel closed). *)
NoOutputLost ==
  state.kind = "completed" => read = written /\ taken = sent

(* Once a reader can see a terminal state, nothing about the job changes any
   more: no later outcome replaces it and no late chunk adds a line, so a
   client that stops polling at `running: false` has seen the end. *)
FinishedIsFinal == [][~IsRunning => state' = state /\ taken' = taken]_vars

(* The process group is known to the signals and nothing of it is left. *)
GroupEnded == thr \notin BeforeReplay /\ ~GroupAlive

(* The two rungs of the ladder cannot both be lost to the spawn race: once the
   ladder is through and `set` has replayed, no process of the group is left.
   One request can vanish between `set`'s store and its swap, so this is owed
   to SIGTERM and SIGKILL being requested in that order, and needs a grace. *)
LadderReachesGroup ==
  ~GraceIsZero /\ ladder = "done" /\ thr \notin BeforeReplay => GroupEnded

(* Every job finishes: whatever the child does, ignoring signals, holding the
   terminal from outside its group or never reading its input, and even if the
   run task panics, its deadline ends it (pty::run, jobs.rs create). *)
EveryJobFinishes == <>(~IsRunning)

(* The runner, with its threads, signals and races, is one job that finishes
   exactly once (job.rs: Job). *)
ImplementsLifecycle == Lifecycle!FairSpec

----------------------------------------------------------------------------
(* The inductive invariant behind the safety properties, in named parts. *)

(* How far the blocking thread is, against what the kernel and `set` know. *)
SpawnInv ==
  /\ thr = "idle" <=> pc \in {"new", "armed"}
  /\ thr \in {"idle", "spawn"} => live = {} /\ written = 0 /\ read = 0
  /\ published => thr \notin {"idle", "spawn", "publish"}
  /\ ~published => \/ thr \in {"idle", "spawn", "publish"}
                   \/ thr \in {"close", "closed"} /\ live = {}

(* A request made of the KillHandle is known to it: the pid was there, or the
   request is waiting for `set`. *)
Requested == published \/ pending
RequestInv ==
  /\ woken => Requested
  /\ \A c \in Clients : cpc[c] = "notify" => Requested
  /\ ~GraceIsZero /\ ladder \in {"grace", "kill"} => Requested

(* The end of the ladder: the kill is waiting for the replay, or it happened. *)
Settled == \/ thr \in BeforeReplay /\ pending
           \/ thr \notin {"idle", "spawn"} /\ ~GroupAlive
LadderInv == ~GraceIsZero /\ ladder \in {"killStore", "done"} => Settled

(* Past end of file nothing can be written or left unread, as long as there
   is somebody to send it to. *)
PumpInv ==
  thr \in {"flush", "wait", "close", "closed"} /\ ReceiverOpen =>
    tty = {} /\ read = written

(* The result of the run task, and the state `finish` makes of it. *)
ResultInv ==
  /\ pc \notin {"returned", "finished"} => result = Running
  /\ pc \in {"returned", "finished"} => result \in TerminalSet
  /\ pc \in {"shutdown", "postdrain"} => stop # "none"
  /\ result.kind = "canceled" => canceled
  /\ result.kind = "completed" =>
       thr = "closed" /\ tty = {} /\ read = written /\ taken = sent
  /\ state = IF pc = "finished" THEN result ELSE Running

IInv == TypeOK /\ SpawnInv /\ RequestInv /\ LadderInv /\ PumpInv /\ ResultInv

============================================================================
