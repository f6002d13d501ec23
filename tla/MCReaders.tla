------------------------------- MODULE MCReaders -------------------------------
(***************************************************************************)
(* Bounds for JobStream and JobPoll: readers of one job owe each other     *)
(* nothing, as none changes what another reads, so a behaviour has either  *)
(* streams or polls beside the runner, and the others do not come.         *)
(***************************************************************************)
EXTENDS JobStream, JobPoll

VARIABLE comes  \* "stream" or "poll"

readerVars == <<comes, feedVars, watcherVars, clientVars>>

MCInit == comes \in {"stream", "poll"} /\ Init /\ PollInit

Streaming(action) == comes = "stream" /\ action /\ UNCHANGED <<comes, clientVars>>
Polling(action) == comes = "poll" /\ action /\ UNCHANGED <<comes, watcherVars>>

MCNext == Streaming(Next) \/ Polling(PollNext)

(* The fairness of the two. *)
MCFairness ==
  /\ WF_readerVars(Streaming((SendLine \/ FinishState \/ SendFinished) /\ UNCHANGED watcherVars))
  /\ WF_readerVars(Polling((SendLine \/ FinishState \/ SendFinished) /\ UNCHANGED clientVars))
  /\ \A s \in Watchers : WF_readerVars(Streaming(Watch(s)))
  /\ \A c \in Clients : WF_readerVars(Polling(Poll(c)))

MCSpec == MCInit /\ [][MCNext]_readerVars /\ MCFairness
=============================================================================
