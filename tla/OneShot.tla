-------------------------------- MODULE OneShot --------------------------------
(***************************************************************************)
(* The endpoints that answer when the work is done: /exec, /batch, the     *)
(* browser bridge and the Google Docs bridge (routes/exec.rs, batch.rs,    *)
(* browser.rs, gdocs.rs, gdocs_read.rs; gdocs/clipboard.rs, export.rs).    *)
(* Each records its calls (ActivityLog), waits for a process with a time   *)
(* limit, and stops it when the limit passes or the client goes away.      *)
(*                                                                         *)
(* What a command does is free: it exits, hangs, closes its output, leaves *)
(* a helper behind that keeps the output open.  What Chrome does is        *)
(* external: a script may go on, fail or stall at each step, and the user  *)
(* may close a tab.  Commands take the published login-shell environment   *)
(* (EnvRefresh) at their start.                                            *)
(***************************************************************************)
EXTENDS ActivityLog, EnvRefresh

CONSTANTS Requests, Asks

(* What a client may ask: kind, the malformed or denied steps, and whether it wants to
   go on after a failed step or to keep the tab. *)
Kinds == {"exec", "batch", "fetch", "tab", "read", "paste"}
ASSUME OneShotAssumption ==
  /\ Asks \subseteq [kind : Kinds, bad : SUBSET {1, 2}, lax : BOOLEAN]
  /\ Calls = Requests \X {1, 2}

VARIABLES
  ask,     \* what each request asks
  at,      \* where its handler is
  step,    \* the step of a batch it is at
  result,  \* how the current step ended: "none" or one of Ends
  proc,    \* its command: [child, open, env]; open: its output has not ended
  script,  \* its osascript: "none", "open", "load", "prepare", "extract", "closing",
           \* "failing", "set", "info", "ok", "error" or "killed"
  tabs     \* the requests whose tab is open in Chrome

callVars == <<ask, at, step, result, proc, script, tabs>>
vars == <<callVars, activityVars, envVars>>

NoProc == [child |-> "none", open |-> FALSE, env |-> NoEnv]
Scripts == {"none", "open", "load", "prepare", "extract", "closing", "failing", "set", "info",
            "ok", "error", "killed"}
Stopped == {"none", "ok", "error", "killed"}
Places == {"new", "pushed", "begun", "waiting", "ended", "stamped", "recorded", "closed",
           "answered", "gone"}

Call(r) == <<r, step[r]>>
IsCommand(r) == ask[r].kind \in {"exec", "batch"}
Over(r) == at[r] \in {"answered", "gone"}

TypeOK ==
  /\ ask \in [Requests -> Asks] /\ at \in [Requests -> Places]
  /\ step \in [Requests -> {1, 2}] /\ result \in [Requests -> Ends \cup {"none"}]
  /\ \A r \in Requests : /\ proc[r].child \in {"none", "running", "ended"}
                         /\ script[r] \in Scripts
                         /\ proc[r].child = "running" => at[r] = "waiting"
  /\ tabs \subseteq Requests
  /\ IsRing(log) /\ IsRing(view) /\ rows \subseteq Calls /\ unrecorded \subseteq Calls
  /\ EnvTypeOK

CallsInit ==
  /\ ask \in [Requests -> Asks]
  /\ at = [r \in Requests |-> "new"] /\ step = [r \in Requests |-> 1]
  /\ result = [r \in Requests |-> "none"]
  /\ proc = [r \in Requests |-> NoProc] /\ script = [r \in Requests |-> "none"]
  /\ tabs = {}

Init == CallsInit /\ ActivityInit /\ EnvInit

Go(r, place) == at' = [at EXCEPT ![r] = place]
End(r, end) == result' = [result EXCEPT ![r] = end]

----------------------------------------------------------------------------
(* The handlers. *)

(* What is refused before anything is recorded: a batch with a denied step, as a whole; ... *)
BatchRefused(r) == ask[r].kind = "batch" /\ ask[r].bad # {}

(* ... a URL that is not one of the web, ... *)
UrlRefused(r) == ask[r].kind = "fetch" /\ ask[r].bad # {}

(* ... Markdown that is missing, empty, too large or given twice, or a path that will not
   do, ... *)
SourceRefused(r) == ask[r].kind = "paste" /\ ask[r].bad # {}

(* ... and a document that is not named exactly once, or whose title DriveIndex does not
   resolve. *)
TargetRefused(r) == ask[r].kind = "read" /\ ask[r].bad # {}

Refused(r) == BatchRefused(r) \/ UrlRefused(r) \/ SourceRefused(r) \/ TargetRefused(r)

Refuse(r) ==
  /\ at[r] = "new" /\ step[r] = 1 /\ Refused(r)
  /\ Go(r, "answered")
  /\ UNCHANGED <<ask, step, result, proc, script, tabs, activityVars>>

(* start: the record enters the ring under the lock, ... *)
Start(r) ==
  /\ at[r] = "new" /\ (step[r] = 1 => ~Refused(r))
  /\ Go(r, "pushed")
  /\ PushRunning(Call(r))
  /\ UNCHANGED <<ask, step, result, proc, script, tabs, rowVars, sub, view>>

(* ... and is announced after it. *)
Announce(r) ==
  /\ at[r] = "pushed"
  /\ Go(r, "begun")
  /\ Publish(Call(r), "running")
  /\ UNCHANGED <<ask, step, result, proc, script, tabs, log, rowVars, view>>

Fails(r) ==
  /\ End(r, "failed") /\ Go(r, "ended")
  /\ UNCHANGED <<ask, step, proc, script, tabs, activityVars>>

(* validate, for /exec: a denied command is recorded. *)
Denied(r) == at[r] = "begun" /\ ask[r].kind = "exec" /\ ask[r].bad # {} /\ Fails(r)

(* No such binary, or it cannot be started. *)
CannotRun(r) == at[r] = "begun" /\ IsCommand(r) /\ ask[r].bad = {} /\ Fails(r)

(* The bridges need macOS; ... *)
NoBridge(r) == at[r] = "begun" /\ ask[r].kind \in {"fetch", "tab"} /\ Fails(r)

(* ... not every format goes with every kind of document; ... *)
FormatUnsupported(r) == at[r] = "begun" /\ ask[r].kind = "read" /\ Fails(r)

(* ... the HTML may not be writable. *)
WriteFails(r) == at[r] = "begun" /\ ask[r].kind = "paste" /\ Fails(r)

FailsAtOnce(r) ==
  Denied(r) \/ CannotRun(r) \/ NoBridge(r) \/ FormatUnsupported(r) \/ WriteFails(r)

(* run_command spawns the command with the published environment. *)
Spawn(r) ==
  /\ at[r] = "begun" /\ IsCommand(r) /\ ask[r].bad = {}
  /\ proc' = [proc EXCEPT ![r] = [child |-> "running", open |-> TRUE, env |-> cache]]
  /\ Go(r, "waiting")
  /\ UNCHANGED <<ask, step, result, script, tabs, activityVars>>

(* The bridges run osascript. *)
RunScript(r, kind, first) ==
  /\ at[r] = "begun" /\ ask[r].kind = kind
  /\ script' = [script EXCEPT ![r] = first]
  /\ Go(r, "waiting")
  /\ UNCHANGED <<ask, step, result, proc, tabs, activityVars>>

FetchPage(r) == RunScript(r, "fetch", "open")
ReadTab(r) == RunScript(r, "tab", "extract")
ReadDocument(r) == RunScript(r, "read", "open")
SetClipboard(r) == RunScript(r, "paste", "set")

Bridge(r) == FetchPage(r) \/ ReadTab(r) \/ ReadDocument(r) \/ SetClipboard(r)

(* /gdocs/clipboard with set_clipboard off is done when the file is written. *)
RenderOnly(r) ==
  /\ at[r] = "begun" /\ ask[r].kind = "paste"
  /\ End(r, "ok") /\ Go(r, "ended")
  /\ UNCHANGED <<ask, step, proc, script, tabs, activityVars>>

(* The future of a call is dropped: kill_on_drop.  Its collectors read on, for nobody. *)
KillChild(r) ==
  /\ proc' = [proc EXCEPT ![r] = IF @ = NoProc THEN @ ELSE [@ EXCEPT !.child = "ended", !.open = FALSE]]
  /\ script' = [script EXCEPT ![r] = IF @ \in Stopped THEN @ ELSE "killed"]

(* Both streams have ended and the child is reaped. *)
Collected(r) ==
  /\ at[r] = "waiting" /\ IsCommand(r)
  /\ ~proc[r].open /\ proc[r].child = "ended"
  /\ \E end \in Ends : End(r, end)
  /\ Go(r, "ended")
  /\ UNCHANGED <<ask, step, proc, script, tabs, activityVars>>

(* A script's output may be no page, or not convert to Markdown; ... *)
PageArrives(r) ==
  /\ at[r] = "waiting" /\ script[r] = "ok" /\ ask[r].kind \in {"fetch", "tab"}
  /\ \E end \in Ends : End(r, end)
  /\ Go(r, "ended")
  /\ UNCHANGED <<ask, step, proc, script, tabs, activityVars>>

(* ... a download that worked may be an error, nothing, too much, or a sign-in page. *)
DownloadArrives(r) ==
  /\ at[r] = "waiting" /\ script[r] = "ok" /\ ask[r].kind = "read"
  /\ \E end \in Ends : End(r, end)
  /\ Go(r, "ended")
  /\ UNCHANGED <<ask, step, proc, script, tabs, activityVars>>

FlavorVerified(r) ==
  /\ at[r] = "waiting" /\ script[r] = "ok" /\ ask[r].kind = "paste"
  /\ End(r, "ok") /\ Go(r, "ended")
  /\ UNCHANGED <<ask, step, proc, script, tabs, activityVars>>

ScriptFailed(r) == at[r] = "waiting" /\ script[r] = "error" /\ Fails(r)

Returns(r) ==
  Collected(r) \/ PageArrives(r) \/ DownloadArrives(r) \/ FlavorVerified(r) \/ ScriptFailed(r)

(* Mutant: only a child that still runs is waited for with a bound. *)
TimesOutWithChild(r) ==
  /\ at[r] = "waiting" /\ (IsCommand(r) => proc[r].child = "running")
  /\ KillChild(r)
  /\ End(r, "failed") /\ Go(r, "ended")
  /\ UNCHANGED <<ask, step, tabs, activityVars>>
TimesOut(r) ==
  /\ at[r] = "waiting"
  /\ KillChild(r)
  /\ End(r, "failed") /\ Go(r, "ended")
  /\ UNCHANGED <<ask, step, tabs, activityVars>>

(* The client hangs up: the handler is dropped where it waits, its call unfinished. *)
HangUp(r) ==
  /\ at[r] = "waiting"
  /\ KillChild(r)
  /\ Go(r, "gone")
  /\ UNCHANGED <<ask, step, result, tabs, activityVars>>

----------------------------------------------------------------------------
(* finish. *)

(* A batch goes on to its next step unless this one failed; otherwise the call is
   answered. *)
GoesOn(r) == ask[r].kind = "batch" /\ step[r] = 1 /\ (result[r] = "ok" \/ ask[r].lax)
After(r) == IF GoesOn(r) THEN "closed" ELSE "answered"

(* A call that left the ring before it ended is neither recorded nor announced. *)
FinishCall(r) ==
  /\ at[r] = "ended"
  /\ Stamp(Call(r), result[r])
  /\ Go(r, IF Held(log, Call(r)) THEN "stamped" ELSE After(r))
  /\ UNCHANGED <<ask, step, result, proc, script, tabs, rowVars, sub, view>>

(* Mutant: the end is announced before its row is appended. *)
RecordCallTold(r) ==
  /\ at[r] = "stamped"
  /\ Publish(Call(r), result[r])
  /\ Go(r, "recorded")
  /\ UNCHANGED <<ask, step, result, proc, script, tabs, log, rowVars, view>>

RecordCall(r) ==
  /\ at[r] = "stamped"
  /\ Persist(Call(r))
  /\ Go(r, "recorded")
  /\ UNCHANGED <<ask, step, result, proc, script, tabs, log, sub, view>>

AnnounceEnd(r) ==
  /\ at[r] = "recorded"
  /\ Publish(Call(r), result[r])
  /\ Go(r, After(r))
  /\ UNCHANGED <<ask, step, result, proc, script, tabs, log, rowVars, view>>

NextStep(r) ==
  /\ at[r] = "closed"
  /\ Go(r, "new")
  /\ step' = [step EXCEPT ![r] = 2] /\ result' = [result EXCEPT ![r] = "none"]
  /\ proc' = [proc EXCEPT ![r] = NoProc]
  /\ UNCHANGED <<ask, script, tabs, activityVars>>

Handler(r) ==
  \/ Refuse(r) \/ Start(r) \/ Announce(r)
  \/ FailsAtOnce(r) \/ Spawn(r) \/ Bridge(r) \/ RenderOnly(r)
  \/ Returns(r) \/ TimesOut(r)
  \/ FinishCall(r) \/ RecordCall(r) \/ AnnounceEnd(r) \/ NextStep(r)

----------------------------------------------------------------------------
(* The command's processes, while the handler waits; what becomes of a helper or of its
   output afterwards concerns nobody. *)

Outside == <<ask, at, step, result, activityVars>>

ChildExits(r) ==
  /\ proc[r].child = "running"
  /\ proc' = [proc EXCEPT ![r].child = "ended"]
  /\ UNCHANGED <<Outside, script, tabs>>

(* The output ends when nobody holds it: a child may close it and run on, and a helper
   it left behind may hold it for ever. *)
OutputEnds(r) ==
  /\ at[r] = "waiting" /\ proc[r].open
  /\ proc' = [proc EXCEPT ![r].open = FALSE]
  /\ UNCHANGED <<Outside, script, tabs>>

----------------------------------------------------------------------------
(* FETCH_SCRIPT, TAB_SCRIPT, EXPORT_SCRIPT and the clipboard's two scripts. *)

Becomes(r, s) == script' = [script EXCEPT ![r] = s]

OpenTab(r) ==
  /\ script[r] = "open"
  /\ tabs' = tabs \cup {r} /\ Becomes(r, "load")
  /\ UNCHANGED <<Outside, proc>>

(* The load loop ends by its own budget if not by the page ... *)
Loaded(r) ==
  /\ script[r] = "load"
  /\ Becomes(r, IF ask[r].kind = "fetch" THEN "prepare" ELSE "extract")
  /\ UNCHANGED <<Outside, proc, tabs>>

(* ... and so does the loop that opens a transcript. *)
Prepared(r) ==
  /\ script[r] = "prepare" /\ Becomes(r, "extract")
  /\ UNCHANGED <<Outside, proc, tabs>>

Extracted(r) ==
  /\ script[r] = "extract" /\ ask[r].kind = "fetch" /\ Becomes(r, "closing")
  /\ UNCHANGED <<Outside, proc, tabs>>

Exported(r) ==
  /\ script[r] = "extract" /\ ask[r].kind = "read" /\ Becomes(r, "closing")
  /\ UNCHANGED <<Outside, proc, tabs>>

TabRead(r) ==
  /\ script[r] = "extract" /\ ask[r].kind = "tab" /\ Becomes(r, "ok")
  /\ UNCHANGED <<Outside, proc, tabs>>

ClipboardSet(r) ==
  /\ script[r] = "set" /\ Becomes(r, "info")
  /\ UNCHANGED <<Outside, proc, tabs>>

(* Whether the clipboard has HTML on it now. *)
FlavorRead(r) ==
  /\ script[r] = "info" /\ \E s \in {"ok", "error"} : Becomes(r, s)
  /\ UNCHANGED <<Outside, proc, tabs>>

Keeps(r) == ask[r].kind = "fetch" /\ ask[r].lax

(* The page's script fails: the handler closes the tab and passes the error on.
   Mutant: the error is passed on at once. *)
ScriptFailsOpen(r) ==
  /\ script[r] \in {"prepare", "extract"}
  /\ Becomes(r, "error")
  /\ UNCHANGED <<Outside, proc, tabs>>
ScriptFails(r) ==
  /\ script[r] \in {"prepare", "extract"}
  /\ Becomes(r, IF ask[r].kind = "tab" THEN "error" ELSE "failing")
  /\ UNCHANGED <<Outside, proc, tabs>>

(* Outside the handler an error ends the script as it is: no window, or no permission;
   the tab of "load" is gone, or it would answer. *)
ScriptDies(r) ==
  /\ script[r] \in {"open", "set", "info"} \/ (script[r] = "load" /\ r \notin tabs)
  /\ Becomes(r, "error")
  /\ UNCHANGED <<Outside, proc, tabs>>

(* A tab that the user closed cannot be closed again: an error outside the try. *)
CloseTab(r) ==
  /\ script[r] \in {"closing", "failing"}
  /\ tabs' = IF Keeps(r) THEN tabs ELSE tabs \ {r}
  /\ Becomes(r, IF script[r] = "failing" \/ (~Keeps(r) /\ r \notin tabs) THEN "error" ELSE "ok")
  /\ UNCHANGED <<Outside, proc>>

UserClosesTab(r) ==
  /\ at[r] = "waiting" /\ r \in tabs
  /\ tabs' = tabs \ {r}
  /\ UNCHANGED <<Outside, proc, script>>

Script(r) ==
  \/ OpenTab(r) \/ Loaded(r) \/ Prepared(r) \/ Extracted(r) \/ Exported(r) \/ TabRead(r)
  \/ ClipboardSet(r) \/ FlavorRead(r)
  \/ ScriptFails(r) \/ ScriptDies(r) \/ CloseTab(r)

Processes(r) == ChildExits(r) \/ OutputEnds(r) \/ Script(r) \/ UserClosesTab(r)

----------------------------------------------------------------------------
CallsNext ==
  /\ \/ \E r \in Requests : Handler(r) \/ HangUp(r) \/ Processes(r)
     \/ Watching /\ UNCHANGED callVars
  /\ UNCHANGED envVars

Next == CallsNext \/ (EnvNext /\ UNCHANGED <<callVars, activityVars>>)

Spec == Init /\ [][Next]_vars

(* Some handler that can run runs, and the refresher does; commands, Chrome and clients owe
   nothing.  A shell that does not hang gets to its printenv. *)
Fairness ==
  /\ WF_vars(\E r \in Requests : Handler(r) /\ UNCHANGED envVars)
  /\ WF_vars(Refresher /\ UNCHANGED <<callVars, activityVars>>)
  /\ \A n \in Captures :
       WF_vars((Thread(n) \/ ShellDumps(n)) /\ UNCHANGED <<callVars, activityVars>>)

FairSpec == Spec /\ Fairness

----------------------------------------------------------------------------
(* Properties. *)

Ended(c) == at[c[1]] = "answered" \/ step[c[1]] > c[2]

(* A monitor that has applied every event shows no call as running that has ended and
   was still in the server's ring when it did, although starts and ends are announced
   outside the lock and the replay overlaps both (events.rs, Activity: "Lets a watcher
   replace a started record with its finished form"). *)
EndIsShown ==
  sub.at = "live" /\ sub.replay = <<>> /\ sub.queue = <<>> =>
    \A i \in DOMAIN view : LET c == view[i].call IN
      Ended(c) /\ c \in Persisted => view[i].end # "running"

(* An end is published only after the store was asked for its row: the row is there, or
   there is no store, or the append failed and was dropped with a warning (metrics.rs,
   record).  With those two exceptions "a watcher that reacts to the event by querying
   /stats cannot observe a gap" (events.rs, finish).  Of the replay the code makes no such
   promise: it tells an end as soon as the ring has it. *)
StoreAskedFirst ==
  \A i \in DOMAIN sub.queue : sub.queue[i].end # "running" =>
    sub.queue[i].call \in Persisted

(* A tab opened for a request is closed again unless the caller wants it or the script
   was killed half-way: on success, and on an error of the page's script. *)
TabsAreClosed ==
  \A r \in Requests : script[r] \in {"ok", "error"} /\ ~Keeps(r) => r \notin tabs

(* Every request is answered or dropped by its client, and its step's call is over with
   it, whatever its command, the helpers that hold its output, or Chrome do. *)
EveryCallEnds == <>(\A r \in Requests : Over(r))

----------------------------------------------------------------------------
(* The inductive invariant of the two safety properties about one call. *)

CallTypeOK ==
  /\ ask \in [Requests -> Asks] /\ at \in [Requests -> Places]
  /\ step \in [Requests -> {1, 2}] /\ result \in [Requests -> Ends \cup {"none"}]
  /\ script \in [Requests -> Scripts] /\ tabs \subseteq Requests
  /\ log \in Seq(Records) /\ view \in Seq(Records)
  /\ sub \in [at : {"away", "subscribed", "live"}, replay : Seq(Records), queue : Seq(Records)]

(* A call that ended has an end; one that is to be announced as ended went to the store. *)
RowInv ==
  \A r \in Requests :
    /\ at[r] \in {"ended", "stamped", "recorded"} => result[r] \in Ends
    /\ at[r] = "recorded" => Call(r) \in Persisted

(* A script is run once per request, and never by a command. *)
ScriptInv ==
  \A r \in Requests :
    /\ IsCommand(r) \/ at[r] \in {"new", "pushed", "begun"} => script[r] = "none"
    /\ at[r] = "closed" => ask[r].kind = "batch"
    /\ script[r] = "open" => ask[r].kind \in {"fetch", "read"}

(* An open tab is wanted, or has a script that will close it, or one that was killed. *)
TabInv ==
  \A r \in tabs :
    \/ Keeps(r)
    \/ /\ ask[r].kind \in {"fetch", "read"}
       /\ script[r] \in {"load", "prepare", "extract", "closing", "failing", "killed"}

CallInv == CallTypeOK /\ RowInv /\ ScriptInv /\ TabInv /\ StoreAskedFirst

----------------------------------------------------------------------------
(* The inductive invariant of what a monitor shows. *)

IsShownRunning(s, c) == \E i \in DOMAIN s : s[i].call = c /\ s[i].end = "running"
HasEnd(s, c) == \E i \in DOMAIN s : s[i].call = c /\ s[i].end # "running"

(* The call went to the store, and its end was announced. *)
Told(c) == c \in Persisted /\ ~(at[c[1]] = "recorded" /\ step[c[1]] = c[2])

(* A call goes to the store once, late, and the second step of a batch after the first. *)
StageInv ==
  \A r \in Requests :
    /\ Call(r) \in Persisted => at[r] \in {"recorded", "closed", "answered"}
    /\ step[r] = 1 => <<r, 2>> \notin Persisted
    /\ at[r] = "closed" => step[r] = 1

(* The ring knows the end before the store does. *)
RingInv ==
  /\ \A c \in Persisted : ~IsShownRunning(log, c)
  /\ \A r \in Requests : at[r] = "stamped" => ~IsShownRunning(log, Call(r))

(* What a monitor has heard, and what is on its way to it. *)
QuietInv ==
  /\ sub.at # "live" => sub.replay = <<>> /\ view = <<>>
  /\ sub.at = "away" => sub.queue = <<>>

(* Whatever says that a told call runs is followed by what says that it ended. *)
ShownInv ==
  \A c \in Calls : Told(c) =>
    /\ \A i \in DOMAIN sub.queue : sub.queue[i].call = c /\ sub.queue[i].end = "running" =>
         \E k \in DOMAIN sub.queue : k > i /\ sub.queue[k].call = c /\ sub.queue[k].end # "running"
    /\ IsShownRunning(sub.replay, c) => HasEnd(sub.queue, c)
    /\ IsShownRunning(view, c) => HasEnd(sub.replay, c) \/ HasEnd(sub.queue, c)

MonitorInv == CallInv /\ StageInv /\ RingInv /\ QuietInv /\ ShownInv
=============================================================================
