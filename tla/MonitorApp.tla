------------------------------- MODULE MonitorApp -------------------------------
(***************************************************************************)
(* The monitor's program (bin/tui.rs: run, spawn_log_stream, map_event;    *)
(* tui/app.rs: update): the list of jobs (JobRows), the log pane           *)
(* (LogPane), the task that streams the output of the job under the        *)
(* cursor, the keys, and the frames between which they meet.               *)
(*                                                                         *)
(* All actions come through one queue.  Those of the server and the user   *)
(* are applied as they are sent; log lines are sent first and applied      *)
(* later, as they are the ones another action can overtake in effect: by   *)
(* the time a line is applied its job may have left the pane.  A key means *)
(* what the mode of the last frame makes of it.                            *)
(*                                                                         *)
(* Bound: MaxSent lines on their way.                                      *)
(***************************************************************************)
EXTENDS JobRows, LogPane

CONSTANT MaxSent

ASSUME SentAssumption == MaxSent \in Nat

VARIABLES
  loaded,  \* loaded_job_id, or NoJob
  feed,    \* the log task: [of, next], the job and the number of the line it sends next
  sent,    \* lines on their way
  panel,   \* the overlay: "none", "help", "errors" or "stats"
  mode,    \* what the input task knows: [typing, panel]
  over     \* the program has ended

appVars == <<loaded, feed, sent, panel, mode, over>>
vars == <<listVars, paneVars, appVars>>

Panels == {"help", "errors", "stats"}
NoFeed == [of |-> NoJob, next |-> 0]

TypeOK ==
  /\ ListTypeOK /\ PaneTypeOK
  /\ loaded \in Jobs \cup {NoJob}
  /\ feed \in [of : Jobs \cup {NoJob}, next : 0..MaxLines + 1]
  /\ Len(sent) <= MaxSent
  /\ panel \in Panels \cup {"none"} /\ over \in BOOLEAN
  /\ mode \in [typing : BOOLEAN, panel : Panels \cup {"none"}]

Init ==
  /\ ListInit /\ PaneInit
  /\ loaded = NoJob /\ feed = NoFeed /\ sent = <<>>
  /\ panel = "none" /\ mode = [typing |-> FALSE, panel |-> "none"] /\ over = FALSE

----------------------------------------------------------------------------
(* The event loop of run. *)

NewFeed(j) == IF j = NoJob THEN NoFeed ELSE [of |-> j, next |-> 0]

FrameWith(reload) ==
  /\ IF reload
     THEN loaded' = SelectedJob /\ feed' = NewFeed(SelectedJob)
     ELSE UNCHANGED <<loaded, feed>>
  /\ mode' = [typing |-> typing, panel |-> panel]
  /\ UNCHANGED <<listVars, paneVars, sent, panel, over>>

(* Mutant: the stream is opened again only when the pane was reset. *)
FrameAfterReset == FrameWith(loaded = NoJob /\ SelectedJob # NoJob)
(* A frame opens the stream of the job under the cursor when it is not the loaded one,
   and publishes the mode; what the pane holds and what is on its way stay. *)
Frame == FrameWith(loaded # SelectedJob)

(* The pane is reset when the cursor's row changes, and only then. *)
ListAction(A) ==
  /\ A
  /\ IF selected' # selected THEN ResetLog ELSE UNCHANGED paneVars
  /\ IF selected' # selected THEN loaded' = NoJob ELSE UNCHANGED loaded
  /\ UNCHANGED <<feed, sent, panel, mode, over>>

PaneAction(A) == A /\ UNCHANGED <<listVars, appVars>>

ServerSays ==
  \/ ListAction(RefreshJobs)
  \/ \E j \in Jobs :
       \/ ListAction(JobCreated(j)) \/ ListAction(JobEvicted(j))
       \/ \E t \in 0..MaxElapsed : ListAction(JobProgress(j, t)) \/ ListAction(JobFinished(j, t))

----------------------------------------------------------------------------
(* The log task: it follows the job it was opened for until a frame aborts it. *)

Line(n) == [of |-> feed.of, index |-> n, gap |-> FALSE]
GapMark == [of |-> feed.of, index |-> 0, gap |-> TRUE]

Send(line) ==
  /\ feed.of # NoJob /\ Len(sent) < MaxSent /\ feed.next <= MaxLines
  /\ sent' = Append(sent, line)
  /\ feed' = [feed EXCEPT !.next = @ + 1]
  /\ UNCHANGED <<listVars, paneVars, loaded, panel, mode, over>>

(* The server sends the next line, or tells that it dropped it. *)
LogTask == Send(Line(feed.next)) \/ Send(GapMark)

RecvLine ==
  /\ sent # <<>>
  /\ AppendLogLine(Head(sent))
  /\ sent' = Tail(sent)
  /\ UNCHANGED <<listVars, loaded, feed, panel, mode, over>>

----------------------------------------------------------------------------
(* The user: map_event, by the mode that the last frame published. *)

(* Showing an overlay takes another down. *)
Toggle(p) ==
  /\ panel' = IF panel = p THEN "none" ELSE p
  /\ UNCHANGED <<listVars, paneVars, loaded, feed, sent, mode, over>>

Quit ==
  /\ over' = TRUE /\ feed' = NoFeed
  /\ UNCHANGED <<listVars, paneVars, loaded, sent, panel, mode>>

StartSearch ==
  /\ SearchStart
  /\ panel' = IF panel = "help" THEN "none" ELSE panel
  /\ UNCHANGED <<listVars, loaded, feed, sent, mode, over>>

(* The wheel, in every mode. *)
WheelTurns == PaneAction(Scroll(Wheel)) \/ PaneAction(Scroll(-Wheel))

(* An overlay takes every key: it scrolls, closes or quits. *)
OverlayKey == mode.panel # "none" /\ (Quit \/ Toggle(mode.panel))

(* Paging and jumping between matches work while typing too. *)
BrowseKey ==
  \/ PaneAction(Scroll(-Page)) \/ PaneAction(Scroll(Page))
  \/ PaneAction(JumpMatch(TRUE)) \/ PaneAction(JumpMatch(FALSE))

TypingKey ==
  /\ mode.panel = "none" /\ mode.typing
  /\ \/ PaneAction(SearchCancel) \/ PaneAction(SearchAccept) \/ PaneAction(SearchBackspace)
     \/ PaneAction(SearchInput) \/ BrowseKey
     \/ PaneAction(Scroll(-1)) \/ PaneAction(Scroll(1))

CommandKey ==
  /\ mode.panel = "none" /\ ~mode.typing
  /\ \/ Quit \/ StartSearch \/ BrowseKey
     \/ PaneAction(Follow) \/ PaneAction(ToggleFollow) \/ PaneAction(ToggleFilterMatches)
     \/ PaneAction(SearchCancel)
     \/ \E p \in Panels : Toggle(p)

(* The keys that act on the list. *)
ListKey ==
  /\ mode.panel = "none" /\ ~mode.typing
  /\ \/ \E b \in BOOLEAN : ListAction(Step(b)) \/ ListAction(Jump(b))
     \/ ListAction(ToggleGrouping) \/ ListAction(ToggleRunningOnly)

Key == WheelTurns \/ OverlayKey \/ TypingKey \/ CommandKey

Next == ~over /\ (Frame \/ ServerSays \/ LogTask \/ RecvLine \/ Key \/ ListKey)

Spec == Init /\ [][Next]_vars
FairSpec == Spec /\ WF_vars(~over /\ Frame)

----------------------------------------------------------------------------
(* Properties. *)

(* Whatever the server says and however the rows are sorted, grouped or filtered, the
   cursor stays on its job while that is in view: "a remembered index would silently
   slide onto a different job" (app.rs, rebuild_rows).  Not so when a job is evicted:
   then the anchor is read from rows that name positions in the list before. *)
CursorKeepsItsJob ==
  [][ /\ jobs' # jobs \/ grouped' # grouped \/ runningOnly' # runningOnly
      /\ ~ \E j \in Jobs : JobEvicted(j)
      /\ SelectedJob # NoJob
      /\ \E k \in Selectable(rows') : jobs'[rows'[k].job].id = SelectedJob
      => SelectedJob' = SelectedJob ]_vars

(* The stream of the job under the cursor is opened, also when that job came under the
   cursor without a move: the row stayed and its job changed (bin/tui.rs, run). *)
PaneLoads ==
  \A j \in Jobs : (SelectedJob = j /\ ~over) ~> (loaded = j \/ SelectedJob # j \/ over)

Drawn == Window(Shown, pinned)

(* Output does not move a paused pane, with or without the filter: "a paused view drifted
   instead of holding still" (app.rs, pinned), unless it scrolls out of the buffer; a pane
   that is not full yet fills.  Two things do move it: lines out of order (a marker for
   dropped lines in the middle, a job loaded twice), and a pin on a line that the filter
   hides and that is newer than all it shows (ToggleFollow and SearchInput pin the newest
   line that is held): the next match then enters the pane. *)
PausedViewHolds ==
  [][ /\ sent # <<>> /\ sent' = Tail(sent) /\ tidy'
      /\ pinned # Nowhere /\ Len(Drawn) = LogRows /\ pinned <= Last(Shown)
      => Drawn' = Drawn \/ ~Contains(Indices(lines'), Head(Drawn)) ]_vars

(* Scrolling, jumping to a match, toggling the filter and losing old lines never leave rows
   of the pane blank when there are lines for them ("that would leave blank rows above the
   text", app.rs, scroll), as long as the lines come in order: a marker for dropped lines
   has the number of the first line, and a pin that was clamped to it can stay behind when
   it has reached the front.  While the filter is on, editing the query may. *)
NoBlankRows ==
  tidy /\ (filter => query.empty) =>
    Len(Drawn) = Least(LogRows, Len(Shown))
=============================================================================
