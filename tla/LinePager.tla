------------------------------ MODULE LinePager ------------------------------
(***************************************************************************)
(* Clients paging through a job's output while it grows (job.rs:           *)
(* Job::read_window; jobs.rs: lines).  A window is planned under the lock  *)
(* and its spilled part is read after the lock is released, so the buffer  *)
(* moves on in between.                                                    *)
(***************************************************************************)
EXTENDS LineBuffer

CONSTANTS
  Readers,
  Page,          \* MAX_LINES_PER_POLL (500 in the code)
  MaxFrom        \* bound: the first `from` a client asks for

ASSUME PageAssumption == Page \in Nat \ {0} /\ MaxFrom \in Nat

VARIABLES
  start,      \* the first `from` of the client
  cursor,     \* its next `from`
  phase,      \* "idle", "reading" (planned, not answered) or "panicked"
  window,     \* the plan of the poll in progress
  seen,       \* lines the client was given
  noticed     \* the largest `dropped` it was told

pagerVars == <<start, cursor, phase, window, seen, noticed>>
vars == <<bufferVars, pagerVars>>

TypeOK ==
  /\ BufferTypeOK
  /\ start \in [Readers -> Nat] /\ cursor \in [Readers -> Nat]
  /\ noticed \in [Readers -> Nat]
  /\ phase \in [Readers -> {"idle", "reading", "panicked"}]
  /\ seen \in [Readers -> SUBSET Nat]
  /\ window \in [Readers -> WindowSet]

Init ==
  /\ BufferInit
  /\ start \in [Readers -> 0..MaxFrom]
  /\ cursor = start
  /\ phase = [r \in Readers |-> "idle"]
  /\ window = [r \in Readers |-> Window({}, 0, 0, 0, 0)]
  /\ seen = [r \in Readers |-> {}]
  /\ noticed = [r \in Readers |-> 0]

PushLine ==
  /\ total < MaxLines
  /\ Push
  /\ UNCHANGED pagerVars

(* read_window, under the lock. *)
PlanWindow(r) ==
  /\ phase[r] # "reading"
  /\ window' = [window EXCEPT ![r] = Plan(cursor[r], Page)]
  /\ phase' = [phase EXCEPT ![r] = IF window'[r].panics THEN "panicked" ELSE "reading"]
  /\ UNCHANGED <<bufferVars, start, cursor, seen, noticed>>

(* read_window, after the lock, and the answer. *)
ReadWindow(r) ==
  LET w == window[r] IN
  /\ phase[r] = "reading"
  /\ \E lines \in LinesRead(w) : seen' = [seen EXCEPT ![r] = @ \cup lines]
  /\ cursor' = [cursor EXCEPT ![r] = w.next]
  /\ noticed' = [noticed EXCEPT ![r] = Most(@, w.dropped)]
  /\ phase' = [phase EXCEPT ![r] = "idle"]
  /\ UNCHANGED <<bufferVars, start, window>>

Next == PushLine \/ \E r \in Readers : PlanWindow(r) \/ ReadWindow(r)
Spec == Init /\ [][Next]_vars

----------------------------------------------------------------------------
(* Properties. *)

(* The window planned under the lock is still exactly what will be delivered
   when its disk part is read later, however many lines were pushed, spilled or
   dropped in between: every line from the cursor (or from the end of the gap
   it reports) to `next_from`, none of them twice (job.rs: plan, read_window,
   and Spill: "a reader opening its own handle sees a stable prefix"). *)
WindowExact ==
  \A r \in Readers : phase[r] = "reading" =>
    LET w == window[r] IN
    /\ Readable(w) /\ OnDisk(w) \cap w.mem = {}
    /\ OnDisk(w) \cup w.mem = Most(cursor[r], w.dropped)..(w.next - 1)

(* A client that pages forward has been given every line behind its cursor,
   except those the responses counted as dropped (README, Output buffering:
   "loss is visible rather than silent").  Owed by every response unless the
   spill file cannot be read back. *)
NothingSilentlyMissed ==
  \A r \in Readers : \A i \in start[r]..(cursor[r] - 1) :
    i \in seen[r] \/ i < noticed[r]

(* README, Output buffering: "`next_from` jumps past the gap, so loss is
   visible rather than silent".  A poll whose window lies before the oldest
   retained line has no such answer: it panics. *)
GapIsAnswered == \A r \in Readers : phase[r] # "panicked"

----------------------------------------------------------------------------
(* The inductive invariant. *)
PagerInv ==
  \A r \in Readers :
    /\ cursor[r] <= total \/ (cursor[r] <= start[r] /\ seen[r] = {})
    /\ phase[r] = "reading" => /\ window[r].next <= total
                               /\ window[r].dropped <= window[r].next
                               /\ window[r].offset + window[r].count <= Len(offsets)

IInv == TypeOK /\ RingIsTail /\ SpillIsIndexed /\ PagerInv /\ WindowExact
=============================================================================
