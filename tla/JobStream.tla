------------------------------ MODULE JobStream ------------------------------
(***************************************************************************)
(* GET /jobs/{id}/stream (jobs.rs: stream): subscribers that replay a      *)
(* job's history and then follow it live, resynchronising from the buffer  *)
(* when the broadcast channel leaves them behind.                          *)
(***************************************************************************)
EXTENDS JobFeed, SequencesExt

CONSTANTS
  Watchers,
  Chunk          \* SSE_REPLAY_CHUNK (1000 in the code)

ASSUME ChunkAssumption == Chunk \in Nat \ {0}

VARIABLES
  phase,      \* where the handler is
  pos,        \* the receiver's position
  boundary,   \* the end of the history to replay
  ended,      \* the job was finished when the handler looked (start_state)
  cursor,     \* next line to replay; once live, the next line to forward
  target,     \* the end of the resync after a lag
  window,     \* the read_window in progress
  announced,  \* a gap event was sent during the replay
  sent,       \* the lines sent, in order
  told        \* the largest loss a gap event spoke of

watcherVars == <<phase, pos, boundary, ended, cursor, target, window, announced, sent, told>>
vars == <<feedVars, watcherVars>>

Phases == {"new", "subscribed", "bounded", "replay", "replayRead", "replayed", "live",
           "lagged", "resync", "resyncRead", "exited", "panicked"}

TypeOK ==
  /\ FeedTypeOK
  /\ phase \in [Watchers -> Phases]
  /\ pos \in [Watchers -> 0..Len(events)]
  /\ boundary \in [Watchers -> 0..total] /\ target \in [Watchers -> 0..total]
  /\ cursor \in [Watchers -> 0..total] /\ told \in [Watchers -> 0..total]
  /\ ended \in [Watchers -> BOOLEAN] /\ announced \in [Watchers -> BOOLEAN]
  /\ sent \in [Watchers -> Seq(Nat)]
  /\ window \in [Watchers -> WindowSet]

Init ==
  /\ FeedInit
  /\ phase = [s \in Watchers |-> "new"]
  /\ pos = [s \in Watchers |-> 0] /\ boundary = [s \in Watchers |-> 0]
  /\ cursor = [s \in Watchers |-> 0] /\ target = [s \in Watchers |-> 0]
  /\ ended = [s \in Watchers |-> FALSE] /\ announced = [s \in Watchers |-> FALSE]
  /\ window = [s \in Watchers |-> Window({}, 0, 0, 0, 0)]
  /\ sent = [s \in Watchers |-> <<>>] /\ told = [s \in Watchers |-> 0]

Become(s, p) == phase' = [phase EXCEPT ![s] = p]

(* job.subscribe() *)
Subscribe(s) ==
  /\ phase[s] = "new"
  /\ pos' = [pos EXCEPT ![s] = Subscribed]
  /\ Become(s, "subscribed")
  /\ UNCHANGED <<feedVars, boundary, ended, cursor, target, window, announced, sent, told>>

(* job.next_index() *)
ReadBoundary(s) ==
  /\ phase[s] = "subscribed"
  /\ boundary' = [boundary EXCEPT ![s] = total]
  /\ Become(s, "bounded")
  /\ UNCHANGED <<feedVars, pos, ended, cursor, target, window, announced, sent, told>>

(* job.state() *)
ReadState(s) ==
  /\ phase[s] = "bounded"
  /\ ended' = [ended EXCEPT ![s] = ~running]
  /\ Become(s, "replay")
  /\ UNCHANGED <<feedVars, pos, boundary, cursor, target, window, announced, sent, told>>

(* The first half of read_window, for lines up to `end`. *)
PlanRead(s, end, next) ==
  /\ cursor[s] < end
  /\ window' = [window EXCEPT ![s] = Plan(cursor[s], Least(end - cursor[s], Chunk))]
  /\ Become(s, IF window'[s].panics THEN "panicked" ELSE next)

(* A set of lines in their order. *)
InOrder(lines) ==
  CHOOSE seq \in [1..Cardinality(lines) -> lines] :
    /\ ToSet(seq) = lines
    /\ \A i, j \in DOMAIN seq : i < j => seq[i] < seq[j]

(* The second half: the lines go out in order and the cursor moves on; a
   window without progress ends the loop. *)
SendRead(s, again, stop) ==
  LET w == window[s] IN
  /\ \E lines \in LinesRead(w) :
       sent' = [sent EXCEPT ![s] = @ \o InOrder(lines)]
  /\ \/ w.next > cursor[s] /\ cursor' = [cursor EXCEPT ![s] = w.next] /\ Become(s, again)
     \/ w.next <= cursor[s] /\ Become(s, stop) /\ UNCHANGED cursor

(* A gap event tells how many lines were lost. *)
Tell(s) == told' = [told EXCEPT ![s] = Most(@, window[s].dropped)]

ReplayPlan(s) ==
  /\ phase[s] = "replay"
  /\ PlanRead(s, boundary[s], "replayRead")
  /\ UNCHANGED <<feedVars, pos, boundary, ended, cursor, target, announced, sent, told>>

(* The gap is announced once in a replay. *)
ReplayRead(s) ==
  /\ phase[s] = "replayRead"
  /\ SendRead(s, "replay", "replayed")
  /\ \/ /\ window[s].dropped > 0 /\ ~announced[s]
        /\ Tell(s)
        /\ announced' = [announced EXCEPT ![s] = TRUE]
     \/ /\ window[s].dropped = 0 \/ announced[s]
        /\ UNCHANGED <<told, announced>>
  /\ UNCHANGED <<feedVars, pos, boundary, ended, target, window>>

(* Mutant: the state the handler saw is forgotten. *)
ReplayDoneLive(s) ==
  /\ phase[s] = "replayed" \/ (phase[s] = "replay" /\ cursor[s] >= boundary[s])
  /\ cursor' = [cursor EXCEPT ![s] = boundary[s]]
  /\ Become(s, "live")
  /\ UNCHANGED <<feedVars, pos, boundary, ended, target, window, announced, sent, told>>

(* Replayed: a job that had ended when the handler looked sends no event. *)
ReplayDone(s) ==
  /\ phase[s] = "replayed" \/ (phase[s] = "replay" /\ cursor[s] >= boundary[s])
  /\ cursor' = [cursor EXCEPT ![s] = boundary[s]]
  /\ Become(s, IF ended[s] THEN "exited" ELSE "live")
  /\ UNCHANGED <<feedVars, pos, boundary, ended, target, window, announced, sent, told>>

(* Mutant: whatever the channel brings is forwarded. *)
RecvLineAgain(s) ==
  LET line == events[pos[s] + 1].index IN
  /\ phase[s] = "live"
  /\ HasEvent(pos[s]) /\ events[pos[s] + 1].kind = "line"
  /\ pos' = [pos EXCEPT ![s] = @ + 1]
  /\ sent' = [sent EXCEPT ![s] = Append(@, line)]
  /\ cursor' = [cursor EXCEPT ![s] = line + 1]
  /\ UNCHANGED <<feedVars, phase, boundary, ended, target, window, announced, told>>

(* rx.recv() yields a line: forwarded unless the replay or a resync had it. *)
RecvLine(s) ==
  LET line == events[pos[s] + 1].index IN
  /\ phase[s] = "live"
  /\ HasEvent(pos[s]) /\ events[pos[s] + 1].kind = "line"
  /\ pos' = [pos EXCEPT ![s] = @ + 1]
  /\ \/ /\ line >= cursor[s]
        /\ sent' = [sent EXCEPT ![s] = Append(@, line)]
        /\ cursor' = [cursor EXCEPT ![s] = line + 1]
     \/ line < cursor[s] /\ UNCHANGED <<sent, cursor>>
  /\ UNCHANGED <<feedVars, phase, boundary, ended, target, window, announced, told>>

RecvFinished(s) ==
  /\ phase[s] = "live"
  /\ HasEvent(pos[s]) /\ events[pos[s] + 1] = Finished
  /\ pos' = [pos EXCEPT ![s] = @ + 1]
  /\ Become(s, "exited")
  /\ UNCHANGED <<feedVars, boundary, ended, cursor, target, window, announced, sent, told>>

(* Mutant: a receiver that has lagged resumes blind. *)
RecvBlind(s) ==
  /\ phase[s] = "live"
  /\ HasLagged(pos[s])
  /\ pos' = [pos EXCEPT ![s] = Resumed]
  /\ UNCHANGED <<feedVars, phase, boundary, ended, cursor, target, window, announced, sent, told>>

(* rx.recv() has lagged ... *)
RecvLagged(s) ==
  /\ phase[s] = "live"
  /\ HasLagged(pos[s])
  /\ pos' = [pos EXCEPT ![s] = Resumed]
  /\ Become(s, "lagged")
  /\ UNCHANGED <<feedVars, boundary, ended, cursor, target, window, announced, sent, told>>

(* ... job.next_index(): the buffer is re-read up to the present. *)
ReadTarget(s) ==
  /\ phase[s] = "lagged"
  /\ target' = [target EXCEPT ![s] = total]
  /\ Become(s, "resync")
  /\ UNCHANGED <<feedVars, pos, boundary, ended, cursor, window, announced, sent, told>>

ResyncPlan(s) ==
  /\ phase[s] = "resync"
  /\ PlanRead(s, target[s], "resyncRead")
  /\ UNCHANGED <<feedVars, pos, boundary, ended, cursor, target, announced, sent, told>>

(* Mutant: a gap met in a resync is passed over. *)
ResyncReadSilent(s) ==
  /\ phase[s] = "resyncRead"
  /\ SendRead(s, "resync", "live")
  /\ UNCHANGED <<feedVars, pos, boundary, ended, target, window, announced, told>>

(* Every gap met in a resync is announced. *)
ResyncRead(s) ==
  /\ phase[s] = "resyncRead"
  /\ SendRead(s, "resync", "live")
  /\ Tell(s)
  /\ UNCHANGED <<feedVars, pos, boundary, ended, target, window, announced>>

ResyncDone(s) ==
  /\ phase[s] = "resync"
  /\ cursor[s] >= target[s]
  /\ Become(s, "live")
  /\ UNCHANGED <<feedVars, pos, boundary, ended, cursor, target, window, announced, sent, told>>

Watch(s) ==
  \/ Subscribe(s) \/ ReadBoundary(s) \/ ReadState(s)
  \/ ReplayPlan(s) \/ ReplayRead(s) \/ ReplayDone(s)
  \/ RecvLine(s) \/ RecvFinished(s) \/ RecvLagged(s) \/ ReadTarget(s)
  \/ ResyncPlan(s) \/ ResyncRead(s) \/ ResyncDone(s)

(* The job is over; whether every watcher knows is for StreamEnds to say. *)
Rest == producer = "done" /\ UNCHANGED vars

Next == (Produce /\ UNCHANGED watcherVars) \/ (\E s \in Watchers : Watch(s)) \/ Rest
Spec == Init /\ [][Next]_vars

(* tokio polls the handler of a connected watcher; the runner ends
   (JobRunner!EveryJobFinishes). *)
FairSpec == Spec /\ ProduceFairness /\ \A s \in Watchers : WF_vars(Watch(s))

----------------------------------------------------------------------------
(* Properties. *)

(* Every watcher sees the lines in order and none twice, however replay, live
   events and resyncs overlap (jobs.rs, stream: "earlier duplicates are
   filtered"). *)
SentInOrder ==
  \A s \in Watchers : \A i, j \in DOMAIN sent[s] : i < j => sent[s][i] < sent[s][j]

(* A watcher that followed the job to its end has the whole output, even if it
   fell behind the channel, as long as nothing was dropped (jobs.rs, stream: a
   lagged subscriber "re-reads from the line buffer instead of silently
   skipping whatever it missed"). *)
FollowedToTheEnd ==
  \A s \in Watchers : phase[s] = "exited" /\ ~ended[s] /\ enabled =>
    ToSet(sent[s]) = 0..(total - 1)

(* Of the lines after the boundary, a live watcher has each one or was told of a
   gap that covers it, however often it lagged and whatever the buffer evicted
   before the resync came (jobs.rs, stream: a lagged subscriber re-reads "instead
   of silently skipping whatever it missed").  The replay, which announces its
   first gap only, owes less. *)
LagLossIsTold ==
  \A s \in Watchers : phase[s] = "live" =>
    \A i \in boundary[s]..(cursor[s] - 1) : i \in ToSet(sent[s]) \/ i < told[s]

(* Every stream comes to its exit event, or to a window it cannot plan: the
   last event is never lost to lag, and a job that ended before the
   subscription is noticed (jobs.rs, stream; job.rs, JobEvent). *)
StreamEnds ==
  \A s \in Watchers : phase[s] = "subscribed" ~> phase[s] \in {"exited", "panicked"}

----------------------------------------------------------------------------
(* What the repository says, and the code does not do. *)

(* jobs.rs, stream: "we subscribe before reading the boundary, so no line can
   slip through the gap".  One can: between the boundary and the look at the
   state, if the job ends there. *)
NoLineSlipsThrough ==
  \A s \in Watchers : phase[s] = "exited" /\ enabled => ToSet(sent[s]) = 0..(total - 1)
----------------------------------------------------------------------------
(* The inductive invariants. *)

Replaying == {"new", "subscribed", "bounded", "replay", "replayRead"}
Following == {"live", "lagged", "resync", "resyncRead"}

(* The lines sent are those before the cursor, or some of them. *)
CursorInv ==
  \A s \in Watchers :
    /\ \A i \in DOMAIN sent[s] : sent[s][i] < cursor[s]
    /\ phase[s] # "replayed" /\ (phase[s] \in Replaying => cursor[s] <= boundary[s])

(* A window in progress goes on from the cursor, and is settled. *)
WindowInv ==
  \A s \in Watchers : phase[s] \in {"replayRead", "resyncRead"} =>
    /\ Planned(disk, offsets, total, window[s], cursor[s]) /\ cursor[s] < window[s].next
    /\ phase[s] = "replayRead" => window[s].next <= boundary[s]
    /\ enabled => window[s].dropped = 0

(* The receiver is never ahead of what was, or is about to be, read from the
   buffer, unless the job was over before the subscription: what the channel
   brings next is the line at the cursor or one that went out already. *)
PlaceInv ==
  \A s \in Watchers :
    /\ phase[s] = "subscribed" => pos[s] <= total \/ ~running
    /\ phase[s] = "bounded" => pos[s] <= boundary[s] \/ ~running
    /\ phase[s] \in {"replay", "replayRead"} => pos[s] <= boundary[s] \/ ended[s]
    /\ phase[s] \in Following => ~ended[s]
    /\ phase[s] = "lagged" => pos[s] <= total
    /\ phase[s] \in {"resync", "resyncRead"} => pos[s] <= target[s]
    /\ phase[s] = "live" => pos[s] <= cursor[s]
    /\ phase[s] = "exited" /\ ~ended[s] => producer = "done" /\ cursor[s] = total

IInv == TypeOK /\ FeedInv /\ SentInOrder /\ CursorInv /\ WindowInv /\ PlaceInv

(* While the spill file can be read back: without a loss every line before the
   cursor was sent ... *)
AllSent == \A s \in Watchers : enabled => ToSet(sent[s]) = 0..(cursor[s] - 1)

(* ... and LagLossIsTold, during a resync too. *)
LagToldInv ==
  \A s \in Watchers : phase[s] \in Following =>
    \A i \in boundary[s]..(cursor[s] - 1) : i \in ToSet(sent[s]) \/ i < told[s]
=============================================================================
