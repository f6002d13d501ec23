------------------------------ MODULE JobOutcome ------------------------------
(* How a job ends (`Outcome` and `JobState` of job.rs).  The exit code of
   Completed is left out. *)

OutcomeKinds == {"running", "completed", "timed_out", "idle_timed_out",
                 "canceled", "failed"}
OutcomeSet   == [kind : OutcomeKinds, escalated : BOOLEAN]
Outcome(k, e) == [kind |-> k, escalated |-> e]

Running   == Outcome("running", FALSE)
Completed == Outcome("completed", FALSE)
Failed    == Outcome("failed", FALSE)

(* The variants that carry an `escalated` field. *)
SignalledKinds == {"timed_out", "idle_timed_out", "canceled"}
TerminalSet == {Completed, Failed} \cup [kind : SignalledKinds, escalated : BOOLEAN]
===============================================================================
