------------------------------ MODULE Diagnostics ------------------------------
(***************************************************************************)
(* How a failure that the server logs reaches the error log of a monitor   *)
(* (events.rs: record_diagnostic, diagnostics, spawn_job_watch, replay;    *)
(* routes/events.rs: stream; bin/tui.rs: spawn_events; tui/app.rs: apply,  *)
(* record_error).  A thread draws an id, then pushes its diagnostic on a   *)
(* ring under a lock.  The job watch copies the ring at every tick and     *)
(* publishes what lies above its high-water mark.  A monitor subscribes,   *)
(* is sent the ring, then what is published; it records an id once, and    *)
(* opens the stream again when it is lost, to the same server or to the    *)
(* next one, whose ids start at 1 again.                                   *)
(*                                                                         *)
(* A diagnostic carries `overtaken`, which the code does not know: it      *)
(* entered the ring after one with a larger id.                            *)
(*                                                                         *)
(* Bounds: MaxId ids in a life of the server, MaxLives lives, MaxRepeats   *)
(* losses of the stream without another error between them.  Messages of   *)
(* one kind, of two lags say, are taken to be equal.                       *)
(***************************************************************************)
EXTENDS Integers, Sequences, SequencesExt

CONSTANTS
  Writers,         \* threads that log one failure each
  MaxDiagnostics,  \* the length of the ring (500)
  Capacity,        \* BROADCAST_CAPACITY
  MaxErrors,       \* MAX_ERRORS of the monitor
  MaxId, MaxLives, MaxRepeats

ASSUME DiagnosticsAssumption ==
  /\ {MaxDiagnostics, Capacity, MaxErrors} \subseteq Nat \ {0}
  /\ Writers \cap {"lag", "lagged", "lost"} = {}

VARIABLES
  next,       \* NEXT_DIAGNOSTIC_ID
  held,       \* the id a thread holds; Silent before it, HasLogged after
  ring,       \* DIAGNOSTICS
  top,        \* the largest id that was ever in the ring
  published,  \* published_diagnostics
  batch,      \* what the watch still has to look at of its copy of the ring
  lives,      \* how often the server was started
  conn,       \* the stream: [at, replay, queue, lagged, whole]
  seen,       \* seen_diagnostics
  old,        \* the ids the monitor had seen when this server was started
  errors      \* the monitor's error log

threadVars == <<next, held, ring, top>>
watchVars == <<published, batch>>
monitorVars == <<seen, old, errors>>
diagVars == <<threadVars, watchVars, lives, conn, monitorVars>>

Silent == 0
HasLogged == -1

(* The task of the stream logs that its monitor lagged. *)
Stream == "lag"
Threads == Writers \cup {Stream}
Diagnostic == [id : Nat \ {0}, text : Threads, overtaken : BOOLEAN]
ErrorEntry == [text : Threads \cup {"lagged", "lost"}, count : Nat \ {0}]

Away == [at |-> "away", replay |-> <<>>, queue |-> <<>>, lagged |-> FALSE, whole |-> TRUE]

DiagTypeOK ==
  /\ next \in Nat \ {0} /\ top \in 0..(next - 1)
  /\ held \in [Threads -> -1..(next - 1)]
  /\ ring \in Seq(Diagnostic) /\ Len(ring) <= MaxDiagnostics
  /\ batch \in Seq(Diagnostic) /\ published \in 0..top
  /\ lives \in Nat
  /\ conn \in [at : {"away", "subscribed", "live"}, replay : Seq(Diagnostic), queue : Seq(Diagnostic),
               lagged : BOOLEAN, whole : BOOLEAN]
  /\ Len(conn.queue) <= Capacity
  /\ seen \subseteq Nat \ {0} /\ old \subseteq seen
  /\ errors \in Seq(ErrorEntry) /\ Len(errors) <= MaxErrors

DiagInit ==
  /\ next = 1 /\ held = [t \in Threads |-> Silent] /\ ring = <<>> /\ top = 0
  /\ published = 0 /\ batch = <<>> /\ lives = 1
  /\ conn = Away /\ seen = {} /\ old = {} /\ errors = <<>>

(* A push on a ring of length n that was within it. *)
Pushed(s, x, n) == IF Len(s) = n THEN Append(Tail(s), x) ELSE Append(s, x)

----------------------------------------------------------------------------
(* The server. *)

(* fetch_add. *)
DrawId(t) ==
  /\ held[t] = Silent /\ next <= MaxId
  /\ held' = [held EXCEPT ![t] = next]
  /\ next' = next + 1
  /\ UNCHANGED <<ring, top>>

(* push_back and the trim, under the lock. *)
PushDiagnostic(t, after) ==
  /\ held[t] > 0
  /\ ring' = Pushed(ring, [id |-> held[t], text |-> t, overtaken |-> held[t] < top], MaxDiagnostics)
  /\ top' = IF held[t] > top THEN held[t] ELSE top
  /\ held' = [held EXCEPT ![t] = after]
  /\ UNCHANGED next

Log(w) ==
  /\ DrawId(w) \/ PushDiagnostic(w, HasLogged)
  /\ UNCHANGED <<watchVars, lives, conn, monitorVars>>

(* A tick copies the ring under its lock ... *)
CopyRing ==
  /\ batch = <<>>
  /\ batch' = ring
  /\ UNCHANGED <<threadVars, published, lives, conn, monitorVars>>

(* publish: to a full channel at the price of its oldest event. *)
Sent(d) ==
  IF conn.at = "away" THEN conn
  ELSE IF Len(conn.queue) < Capacity THEN [conn EXCEPT !.queue = Append(@, d)]
  ELSE [conn EXCEPT !.queue = Append(Tail(@), d), !.lagged = TRUE, !.whole = FALSE]

(* ... and passes on what lies above the mark. *)
Forward ==
  /\ batch # <<>>
  /\ LET d == Head(batch)
     IN  IF d.id > published THEN published' = d.id /\ conn' = Sent(d)
         ELSE UNCHANGED <<published, conn>>
  /\ batch' = Tail(batch)
  /\ UNCHANGED <<threadVars, lives, monitorVars>>

(* The server dies and is started again.  A thread that held an id is gone. *)
Restart ==
  /\ lives < MaxLives
  /\ lives' = lives + 1
  /\ next' = 1 /\ ring' = <<>> /\ top' = 0 /\ published' = 0 /\ batch' = <<>>
  /\ held' = [t \in Threads |->
                IF held[t] = Silent \/ t = Stream THEN Silent ELSE HasLogged]
  /\ conn' = Away /\ old' = seen
  /\ UNCHANGED <<seen, errors>>

----------------------------------------------------------------------------
(* The stream and its monitor. *)

(* record_error: a repeat of the newest entry bumps its count. *)
RecordError(log, text) ==
  IF log # <<>> /\ Last(log).text = text
  THEN [log EXCEPT ![Len(log)].count = @ + 1]
  ELSE Pushed(log, [text |-> text, count |-> 1], MaxErrors)

(* Mutant: the monitor records whatever it is sent, replays included. *)
SeenNever(d) == FALSE
(* seen_diagnostics.contains. *)
Seen(d) == d.id \in seen

(* apply, for a diagnostic. *)
Apply(d) ==
  /\ seen' = seen \cup {d.id}
  /\ errors' = IF Seen(d) THEN errors ELSE RecordError(errors, d.text)
  /\ UNCHANGED old

(* The subscription comes before the replay is read. *)
Subscribe ==
  /\ conn.at = "away"
  /\ conn' = [conn EXCEPT !.at = "subscribed"]
  /\ UNCHANGED <<threadVars, watchVars, lives, monitorVars>>

ReadReplay ==
  /\ conn.at = "subscribed"
  /\ conn' = [conn EXCEPT !.at = "live", !.replay = ring]
  /\ UNCHANGED <<threadVars, watchVars, lives, monitorVars>>

RecvReplay ==
  /\ conn.replay # <<>>
  /\ Apply(Head(conn.replay))
  /\ conn' = [conn EXCEPT !.replay = Tail(@)]
  /\ UNCHANGED <<threadVars, watchVars, lives>>

(* Past the replay the stream waits for the channel, unless it is logging a lag. *)
Listening == conn.at = "live" /\ conn.replay = <<>> /\ held[Stream] = Silent

RecvDiagnostic ==
  /\ Listening /\ ~conn.lagged /\ conn.queue # <<>>
  /\ Apply(Head(conn.queue))
  /\ conn' = [conn EXCEPT !.queue = Tail(@)]
  /\ UNCHANGED <<threadVars, watchVars, lives>>

(* RecvError::Lagged: the stream logs it, which is a diagnostic as well, and tells. *)
NoticeLag ==
  /\ Listening /\ conn.lagged
  /\ conn' = [conn EXCEPT !.lagged = FALSE]
  /\ DrawId(Stream)
  /\ UNCHANGED <<watchVars, lives, monitorVars>>

TellLag ==
  /\ PushDiagnostic(Stream, Silent)
  /\ errors' = RecordError(errors, "lagged")
  /\ UNCHANGED <<watchVars, lives, conn, seen, old>>

(* StreamLost: the stream breaks, or cannot be opened. *)
LoseStream ==
  /\ held[Stream] = Silent
  /\ errors # <<>> /\ Last(errors).text = "lost" => Last(errors).count < MaxRepeats
  /\ conn' = Away
  /\ errors' = RecordError(errors, "lost")
  /\ UNCHANGED <<threadVars, watchVars, lives, seen, old>>

DiagNext ==
  \/ \E w \in Writers : Log(w)
  \/ CopyRing \/ Forward \/ Restart
  \/ Subscribe \/ ReadReplay \/ RecvReplay \/ RecvDiagnostic \/ NoticeLag \/ TellLag \/ LoseStream

DiagSpec == DiagInit /\ [][DiagNext]_diagVars

----------------------------------------------------------------------------
(* What is promised. *)

InTransit(d) == Contains(conn.replay, d) \/ Contains(conn.queue, d)
Entries(text) == {i \in DOMAIN errors : errors[i].text = text}
ShownOnce(d) == \E i \in DOMAIN errors : Entries(d.text) = {i} /\ errors[i].count = 1

(* A failure that is in the ring, and that the watch has passed, is in the error log of
   every monitor whose stream lost nothing, or on its way there, and it is there once,
   whatever replays, reconnects and lags of earlier streams it came through: "pushed live
   so a watcher sees a failure as it happens" (events.rs), "replay's copies are not
   re-recorded on every reconnect" (app.rs).  Three have no such promise: one that entered
   the ring out of order, one whose id the monitor had seen of the server before, and all
   of them once the log is full. *)
FailuresShownOnce ==
  conn.at = "live" /\ conn.whole /\ Len(errors) < MaxErrors =>
    \A i \in DOMAIN ring :
      LET d == ring[i]
      IN  d.text \in Writers =>
            \/ d.overtaken \/ d.id \in old
            \/ d.id > published \/ InTransit(d) \/ ShownOnce(d)
=============================================================================
