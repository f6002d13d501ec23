----------------------------- MODULE MCMonitorApp -----------------------------
(***************************************************************************)
(* Bounds for MonitorApp and Diagnostics.  The list and the pane share the *)
(* row of the cursor only, and the error log nothing with either, so a     *)
(* behaviour has one of them: three jobs come and go and the user moves in *)
(* the list; one job is under the cursor from the start and the user moves *)
(* in its output; or the server fails and the monitor is told.             *)
(***************************************************************************)
EXTENDS MonitorApp, Diagnostics

CONSTANTS a, b, c, w, s

VARIABLE scene

sceneVars == <<scene, vars, diagVars>>

MCSessionOf == [j \in Jobs |-> IF j = b THEN NoSession ELSE s]
MCQueries == {{0, 1, 4}, {2}, {}}

(* Lists a fetch may bring: older, shorter or in another order than the monitor's. *)
MCLists ==
  { <<Job(c, TRUE, 1), Job(a, TRUE, 0), Job(b, TRUE, 0)>>,
    <<Job(b, FALSE, 0), Job(c, TRUE, 1)>>, <<Job(a, TRUE, 0)>>, <<>> }

WatchInit ==
  /\ jobs = <<Job(w, TRUE, 0)>> /\ rows = <<JobRow(jobs, 1)>> /\ selected = 1
  /\ grouped = FALSE /\ runningOnly = FALSE
  /\ PaneInit
  /\ loaded = w /\ feed = NewFeed(w) /\ sent = <<>>
  /\ panel = "none" /\ mode = [typing |-> FALSE, panel |-> "none"] /\ over = FALSE

MCInit ==
  /\ scene \in {"list", "pane", "failures"}
  /\ IF scene = "pane" THEN WatchInit ELSE Init
  /\ DiagInit

ListNext == (ServerSays \/ ListKey \/ Frame) /\ ~(\E i \in DOMAIN jobs' : jobs'[i].id = w)
PaneNext == LogTask \/ RecvLine \/ Key \/ Frame
MCNext ==
  /\ UNCHANGED scene
  /\ \/ scene = "list" /\ ~over /\ ListNext /\ UNCHANGED diagVars
     \/ scene = "pane" /\ ~over /\ PaneNext /\ UNCHANGED diagVars
     \/ scene = "failures" /\ DiagNext /\ UNCHANGED vars

MCSpec == MCInit /\ [][MCNext]_sceneVars /\ WF_vars(~over /\ Frame)
=============================================================================
