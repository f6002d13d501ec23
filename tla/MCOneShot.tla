------------------------------- MODULE MCOneShot -------------------------------
(***************************************************************************)
(* Bounds for OneShot.  Calls and the refresher share nothing but the      *)
(* published snapshot, so a behaviour has either: requests, with the       *)
(* snapshot of the start, or none, and the refresher runs.                 *)
(***************************************************************************)
EXTENDS OneShot

CONSTANTS r1, r2, n1, n2

MCRequests == {r1, r2}
MCCaptures == {n1, n2}
MCCalls == MCRequests \X {1, 2}

Ask(kind, bad, lax) == [kind |-> kind, bad |-> bad, lax |-> lax]
(* One request runs a command; the other does anything else.  What calls share, the ring
   and the monitor, does not depend on their kind. *)
Exec == Ask("exec", {}, FALSE)
Others ==
  { Ask("exec", {1}, FALSE), Ask("batch", {}, FALSE), Ask("fetch", {}, TRUE),
    Ask("fetch", {}, FALSE), Ask("tab", {}, FALSE), Ask("read", {}, FALSE),
    Ask("paste", {}, FALSE) }
  \cup {Ask(kind, {2}, FALSE) : kind \in {"batch", "fetch", "read", "paste"}}
MCAsks == Others \cup {Exec}

(* Requests come when the refresher sleeps after its first capture ... *)
Captured ==
  /\ token = 0 /\ cache = 0 /\ task = Asleep
  /\ thread = [n \in Captures |-> "free"] /\ shell = [n \in Captures |-> "none"]
  /\ dump = [n \in Captures |-> NoEnv] /\ late = {} /\ wedges = 0

(* ... or never: they are over before the start, without a trace. *)
NoCalls ==
  /\ ask = [r \in Requests |-> Ask("tab", {}, FALSE)]
  /\ at = [r \in Requests |-> "gone"] /\ step = [r \in Requests |-> 1]
  /\ result = [r \in Requests |-> "none"]
  /\ proc = [r \in Requests |-> NoProc] /\ script = [r \in Requests |-> "none"]
  /\ tabs = {}

MCInit == ActivityInit /\ ((CallsInit /\ ask[r1] # Exec /\ ask[r2] = Exec /\ Captured) \/ (NoCalls /\ EnvInit))

Quiet == log = <<>> /\ \A r \in Requests : at[r] = "gone"
RefresherNext == Quiet /\ EnvNext /\ UNCHANGED <<callVars, activityVars>>

(* Bound: the store drops rows only where both requests are for commands. *)
StoreHolds == unrecorded' = {} \/ ask[r1].kind = "exec"

MCNext == (CallsNext /\ StoreHolds) \/ RefresherNext

(* The fairness of OneShot, with the steps these behaviours have. *)
MCFairness ==
  /\ WF_vars(\E r \in Requests : Handler(r) /\ UNCHANGED envVars)
  /\ WF_vars(RefresherNext /\ Refresher)
  /\ \A n \in Captures : WF_vars(RefresherNext /\ (Thread(n) \/ ShellDumps(n)))

MCSpec == MCInit /\ [][MCNext]_vars /\ MCFairness
=============================================================================
