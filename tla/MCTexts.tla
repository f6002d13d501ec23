-------------------------------- MODULE MCTexts --------------------------------
(***************************************************************************)
(* Bounds for LineAssembly, DocRender and DriveIndex: the three transform  *)
(* what they are given and share nothing, so a behaviour is about one of   *)
(* them and the others keep their first state.                             *)
(***************************************************************************)
EXTENDS LineAssembly, DocRender, DriveIndex

CONSTANTS m1, m2, d1, d2, d3

VARIABLE part

vars == <<part, assemblyVars, renderVars, driveVars>>

(* Two mounts; below the first, more directories than the walk goes down. *)
MCDirs == m1 :> NoDir @@ m2 :> NoDir @@ d1 :> m1 @@ d2 :> d1 @@ d3 :> m1

Doc(name, dir, title) == [name |-> name, dir |-> dir, title |-> title]
MCDocuments ==
  { Doc("top", m1, {"plan"}), Doc("other", m2, {"plan", "old"}), Doc("twin", d3, {"plan"}),
    Doc("deep", d1, {"notes"}), Doc("deeper", d2, {"notes"}) }
MCWords == {{}, {"plan"}, {"notes"}, {"old"}}

RenderQuiet == chrome = FALSE
DriveQuiet == tree = {} /\ unread = {}

MCInit ==
  /\ part \in {"lines", "document", "drive"}
  /\ AssemblyInit /\ RenderInit /\ DriveInit
  /\ part # "document" => RenderQuiet
  /\ part # "drive" => DriveQuiet

MCNext ==
  /\ UNCHANGED part
  /\ \/ part = "lines" /\ AssemblyNext /\ UNCHANGED <<renderVars, driveVars>>
     \/ part = "document" /\ RenderNext /\ UNCHANGED <<assemblyVars, driveVars>>
     \/ part = "drive" /\ DriveNext /\ UNCHANGED <<assemblyVars, renderVars>>

MCSpec == MCInit /\ [][MCNext]_vars
=============================================================================
