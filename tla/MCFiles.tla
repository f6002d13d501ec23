-------------------------------- MODULE MCFiles --------------------------------
(***************************************************************************)
(* Bounds for LinePager and MetricsStore: the files the server writes, the *)
(* spill file of a job and the log of calls, share nothing, so a behaviour *)
(* is about one of them and the other keeps its first state.               *)
(***************************************************************************)
EXTENDS LinePager, MetricsStore

VARIABLE file  \* "spill" or "calls"

filesVars == <<file, vars, storeVars>>

NoReader == start = [r \in Readers |-> 0]

MCInit ==
  /\ file \in {"spill", "calls"}
  /\ Init /\ StoreInit
  /\ file = "calls" => NoReader

Paging(action) == file = "spill" /\ action /\ UNCHANGED <<file, storeVars>>
Recording(action) == file = "calls" /\ action /\ UNCHANGED <<file, vars>>

MCNext == Paging(Next) \/ Recording(StoreNext)

MCSpec == MCInit /\ [][MCNext]_filesVars /\ WF_filesVars(Recording(Rollup))
=============================================================================
