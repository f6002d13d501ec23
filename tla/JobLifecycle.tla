----------------------------- MODULE JobLifecycle -----------------------------
(***************************************************************************)
(* What a job promises the clients that watch it (job.rs: push_line,       *)
(* cancel, finish): it produces output while it runs, a cancel may be      *)
(* requested at any time, and it finishes exactly once, with an outcome    *)
(* that is never replaced and after which it produces nothing.  It is      *)
(* reported as canceled only if somebody asked for that.                   *)
(***************************************************************************)
EXTENDS Naturals, JobOutcome

VARIABLES state, canceled, output
vars == <<state, canceled, output>>

Init == state = Running /\ canceled = FALSE /\ output = 0

Produce ==
  /\ state = Running
  /\ output' = output + 1
  /\ UNCHANGED <<state, canceled>>

RequestCancel ==
  /\ canceled' = TRUE
  /\ UNCHANGED <<state, output>>

Finish(o) ==
  /\ state = Running
  /\ o.kind = "canceled" => canceled
  /\ state' = o
  /\ UNCHANGED <<canceled, output>>

Next == Produce \/ RequestCancel \/ \E o \in TerminalSet : Finish(o)

Spec == Init /\ [][Next]_vars
(* The job finishes: `create` supervises the runner it spawned. *)
FairSpec == Spec /\ WF_vars(\E o \in TerminalSet : Finish(o))
===============================================================================
