------------------------------ MODULE ActivityLog ------------------------------
(***************************************************************************)
(* The record of one-shot calls (events.rs: start, finish, persist and the *)
(* calls' part of replay) and a monitor's copy of it (tui/app.rs: apply).  *)
(* The server keeps the last MaxActivities calls in a ring, announces each *)
(* start and each end to its subscribers, and hands a row to the metrics   *)
(* store before it announces an end; the store may be missing, or drop the *)
(* row with a warning.  The operators below are the steps between two lock *)
(* operations; OneShot puts them in order.                                 *)
(*                                                                         *)
(* Bound: the channel to the monitor holds every event of the run, so a    *)
(* monitor never lags; Monitor has the lags.                               *)
(***************************************************************************)
EXTENDS Integers, Sequences, SequencesExt

CONSTANTS
  Calls,         \* every call that may be made: what start returns an id for
  MaxActivities  \* the length of both rings

ASSUME ActivityAssumption == MaxActivities \in Nat \ {0}

VARIABLES
  log,         \* the server's ring, oldest first
  rows,        \* the calls with a row in the metrics store
  unrecorded,  \* the ended calls that have none: no store is set, or the append failed
  sub,         \* the monitor's subscription: [at, replay, queue]; what is left of the replay comes
               \* before the queue
  view         \* the monitor's ring

rowVars == <<rows, unrecorded>>
activityVars == <<log, rowVars, sub, view>>

(* The calls that went through persist. *)
Persisted == rows \cup unrecorded

(* A failed call is one that could not run or whose command failed. *)
Ends == {"ok", "failed"}
Record(c, end) == [call |-> c, end |-> end]
Records == [call : Calls, end : Ends \cup {"running"}]

IsRing(s) ==
  /\ Len(s) <= MaxActivities /\ \A i \in DOMAIN s : s[i] \in Records
  /\ IsInjective([i \in DOMAIN s |-> s[i].call])

ActivityInit ==
  /\ log = <<>> /\ rows = {} /\ unrecorded = {}
  /\ sub = [at |-> "away", replay |-> <<>>, queue |-> <<>>]
  /\ view = <<>>

(* The ring drops its oldest records. *)
Trimmed(s) == IF Len(s) > MaxActivities THEN SubSeq(s, Len(s) - MaxActivities + 1, Len(s)) ELSE s

Held(s, c) == \E i \in DOMAIN s : s[i].call = c

(* start, under the lock. *)
PushRunning(c) == log' = Trimmed(Append(log, Record(c, "running")))

WithEnd(s, c, end) == [i \in DOMAIN s |-> IF s[i].call = c THEN Record(c, end) ELSE s[i]]

(* finish, under the lock: a call that has left the ring is not finished at all. *)
Stamp(c, end) == log' = WithEnd(log, c, end)

(* persist appends the row, or returns without it: no recorder is attached, or record
   logs the failure and drops it. *)
Persist(c) ==
  \/ rows' = rows \cup {c} /\ UNCHANGED unrecorded
  \/ unrecorded' = unrecorded \cup {c} /\ UNCHANGED rows

(* publish: without a subscriber the event goes nowhere. *)
Publish(c, end) ==
  sub' = IF sub.at = "away" THEN sub ELSE [sub EXCEPT !.queue = Append(@, Record(c, end))]

----------------------------------------------------------------------------
(* The monitor. *)

(* apply, for ActivityStarted and ActivityFinished: one row per call. *)
Upsert(s, rec) ==
  IF Held(s, rec.call) THEN WithEnd(s, rec.call, rec.end) ELSE Trimmed(Append(s, rec))

(* stream: subscribe before the replay is read. *)
Subscribe ==
  /\ sub.at = "away"
  /\ sub' = [sub EXCEPT !.at = "subscribed"]
  /\ UNCHANGED <<log, rowVars, view>>

(* replay reads the ring under its lock, ... *)
ReadReplay ==
  /\ sub.at = "subscribed"
  /\ sub' = [sub EXCEPT !.at = "live", !.replay = log]
  /\ UNCHANGED <<log, rowVars, view>>

(* ... and the stream opens with it, one event after the other. *)
ReceiveReplay ==
  /\ sub.replay # <<>>
  /\ view' = Upsert(view, Head(sub.replay))
  /\ sub' = [sub EXCEPT !.replay = Tail(@)]
  /\ UNCHANGED <<log, rowVars>>

(* Mutant: an event about a call already shown is taken for a duplicate. *)
ReceiveOnce ==
  /\ sub.at = "live" /\ sub.replay = <<>> /\ sub.queue # <<>>
  /\ view' = IF Held(view, Head(sub.queue).call) THEN view ELSE Upsert(view, Head(sub.queue))
  /\ sub' = [sub EXCEPT !.queue = Tail(@)]
  /\ UNCHANGED <<log, rowVars>>

ReceiveEvent ==
  /\ sub.at = "live" /\ sub.replay = <<>> /\ sub.queue # <<>>
  /\ view' = Upsert(view, Head(sub.queue))
  /\ sub' = [sub EXCEPT !.queue = Tail(@)]
  /\ UNCHANGED <<log, rowVars>>

Watching == Subscribe \/ ReadReplay \/ ReceiveReplay \/ ReceiveEvent
=============================================================================
