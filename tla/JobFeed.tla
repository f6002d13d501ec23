------------------------------- MODULE JobFeed -------------------------------
(***************************************************************************)
(* The output of one job as its readers meet it (job.rs: push_line,        *)
(* finish): the runner appends lines to the buffer and sends an event for  *)
(* each through a broadcast channel, then sets the terminal state and      *)
(* sends the last event.  Buffer and channel are two things: between the   *)
(* lock and the send a reader can see one without the other.               *)
(*                                                                         *)
(* The channel keeps every event ever sent; a receiver is a position in    *)
(* that sequence, and BroadcastCapacity says how far behind it may fall.   *)
(***************************************************************************)
EXTENDS LineBuffer

CONSTANT BroadcastCapacity  \* BROADCAST_CAPACITY (1024 in the code)

ASSUME BroadcastAssumption == BroadcastCapacity \in Nat \ {0}

VARIABLES
  running,    \* JobState::Running
  events,     \* what was sent
  producer    \* where the runner is: "idle", "pushed", "finishing" or "done"

feedVars == <<bufferVars, running, events, producer>>

LineEvent(i) == [kind |-> "line", index |-> i]
Finished     == [kind |-> "finished", index |-> 0]

FeedTypeOK ==
  /\ BufferTypeOK
  /\ running \in BOOLEAN
  /\ events \in Seq([kind : {"line", "finished"}, index : Nat])
  /\ producer \in {"idle", "pushed", "finishing", "done"}

FeedInit ==
  /\ BufferInit
  /\ running = TRUE /\ events = <<>> /\ producer = "idle"

(* Job::push_line: the line is stored under the lock ... *)
PushLine ==
  /\ producer = "idle"
  /\ total < MaxLines
  /\ Push
  /\ producer' = "pushed"
  /\ UNCHANGED <<running, events>>

(* ... and then broadcast. *)
SendLine ==
  /\ producer = "pushed"
  /\ events' = Append(events, LineEvent(total - 1))
  /\ producer' = "idle"
  /\ UNCHANGED <<bufferVars, running>>

(* Job::finish: the state is set under the lock ... *)
FinishState ==
  /\ producer = "idle"
  /\ running' = FALSE
  /\ producer' = "finishing"
  /\ UNCHANGED <<bufferVars, events>>

(* Mutant: the outcome is broadcast while the runner still prints. *)
SendFinishedEarly ==
  /\ producer = "finishing"
  /\ events' = Append(events, Finished)
  /\ producer' = "idle"
  /\ UNCHANGED <<bufferVars, running>>

(* ... and then the outcome is broadcast. *)
SendFinished ==
  /\ producer = "finishing"
  /\ events' = Append(events, Finished)
  /\ producer' = "done"
  /\ UNCHANGED <<bufferVars, running>>

Produce == PushLine \/ SendLine \/ FinishState \/ SendFinished
(* The runner is not required to print, but what it began it ends. *)
ProduceFairness == WF_feedVars(SendLine \/ FinishState \/ SendFinished)

(* broadcast::Receiver, for a receiver at position `pos`. *)
Subscribed     == Len(events)
HasLagged(pos) == Len(events) - pos > BroadcastCapacity
HasEvent(pos)  == pos < Len(events) /\ ~HasLagged(pos)
Resumed        == Len(events) - BroadcastCapacity

----------------------------------------------------------------------------
(* The channel tells what the buffer and the state hold, one line or the
   outcome behind them: the k-th event is about the k-th line, and the last
   about the end. *)
FeedInv ==
  /\ BufferTypeOK /\ RingIsTail /\ SpillIsIndexed
  /\ running <=> producer \in {"idle", "pushed"}
  /\ Len(events) = CASE producer = "pushed" -> total - 1
                     [] producer = "done"   -> total + 1
                     [] OTHER               -> total
  /\ \A k \in DOMAIN events : events[k] = IF k <= total THEN LineEvent(k - 1) ELSE Finished
=============================================================================
