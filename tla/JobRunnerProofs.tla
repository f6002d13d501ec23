--------------------------- MODULE JobRunnerProofs ---------------------------
(***************************************************************************)
(* Theorems about JobRunner, for every number of cancel requests and of    *)
(* processes, every channel capacity and every setting of the options.     *)
(* The inductive invariant IInv is proved one conjunct at a time; each     *)
(* lemma singles out the actions that can disturb its conjunct.            *)
(* At the end, theorems about LineAssembly, which its pump feeds: for any  *)
(* characters, whatever and however much is printed.                       *)
(***************************************************************************)
EXTENDS JobRunner, LineAssembly, FiniteSetTheorems, WellFoundedInduction, TLAPS

(* The outcomes the code builds are outcomes, and what their fields are. *)
LEMMA OutcomeFacts ==
  /\ Running \in OutcomeSet /\ TerminalSet \subseteq OutcomeSet
  /\ Completed \in TerminalSet /\ Failed \in TerminalSet
  /\ \A k \in SignalledKinds, e \in BOOLEAN :
        Outcome(k, e) \in TerminalSet /\ Outcome(k, e).kind = k
  /\ Running.kind = "running" /\ Completed.kind = "completed" /\ Failed.kind = "failed"
<1> USE DEF Outcome, Running, Completed, Failed
<1>1. Running \in OutcomeSet /\ Completed \in OutcomeSet /\ Failed \in OutcomeSet
  BY DEF OutcomeSet, OutcomeKinds
<1>2. [kind : SignalledKinds, escalated : BOOLEAN] \subseteq OutcomeSet
  BY DEF OutcomeSet, OutcomeKinds, SignalledKinds
<1>3. Completed \in TerminalSet /\ Failed \in TerminalSet
  BY DEF TerminalSet
<1>4. \A k \in SignalledKinds, e \in BOOLEAN :
        Outcome(k, e) \in TerminalSet /\ Outcome(k, e).kind = k
  BY DEF TerminalSet, SignalledKinds
<1>5. Running.kind = "running" /\ Completed.kind = "completed" /\ Failed.kind = "failed"
  OBVIOUS
<1>6. TerminalSet \subseteq OutcomeSet
  BY <1>1, <1>2 DEF TerminalSet
<1>. QED  BY <1>1, <1>3, <1>4, <1>5, <1>6

(* What `run` returns is an outcome of the right kind, whatever ended it. *)
LEMMA VerdictFacts ==
  ASSUME TypeOK, NEW o \in TerminalSet,
         o.kind = "canceled" => canceled
  PROVE  /\ Verdict(o) \in TerminalSet
         /\ Verdict(o).kind = "canceled" => canceled
         /\ Verdict(o).kind = "completed" => Verdict(o) = o /\ o.kind = "completed"
<1>1. Outcome("canceled", escalated) \in TerminalSet /\ Outcome("canceled", escalated).kind = "canceled"
  BY OutcomeFacts DEF TypeOK, SignalledKinds
<1>. QED  BY <1>1 DEF Verdict

(* A job that stopped waiting reports why. *)
LEMMA StopOutcomeFacts ==
  ASSUME TypeOK, stop # "none"
  PROVE  StopOutcome \in TerminalSet /\ StopOutcome.kind = stop
  BY OutcomeFacts DEF TypeOK, StopOutcome, SignalledKinds

LEMMA ExitOutcomeFacts ==
  /\ ExitOutcome \in TerminalSet
  /\ ExitOutcome.kind # "canceled"
  BY OutcomeFacts DEF ExitOutcome

(* The initial state. *)
LEMMA InitInv == Init => IInv
<1> SUFFICES ASSUME Init PROVE IInv
  OBVIOUS
<1>1. TypeOK
  <2>1. read \in 0..written /\ sent \in Nat /\ taken \in 0..sent /\ sent <= taken + Capacity
    BY BoundsAssumption DEF Init
  <2>. QED  BY OutcomeFacts, <2>1 DEF Init, TypeOK, ThreadSteps, LadderSteps
<1>2. SpawnInv /\ RequestInv /\ LadderInv /\ PumpInv
  BY DEF Init, SpawnInv, RequestInv, LadderInv, PumpInv
<1>3. ResultInv
  BY OutcomeFacts DEF Init, ResultInv
<1>. QED  BY <1>1, <1>2, <1>3 DEF IInv

(* Every variable keeps its type. *)
LEMMA TypeStep == IInv /\ [Next]_vars => TypeOK'
<1> SUFFICES ASSUME IInv, [Next]_vars
             PROVE  TypeOK'
  OBVIOUS
<1> USE DEF IInv, TypeOK, ThreadSteps, LadderSteps, jobVars, killVars,
    procVars, threadVars, runVars, clientVars
<1>1. CASE ArmKill
  BY <1>1 DEF ArmKill
<1>2. CASE SpawnBlocking
  BY <1>2 DEF SpawnBlocking
<1>3. CASE Drain
  <2>1. /\ written' \in Nat /\ read' \in 0..written' /\ sent' \in Nat
        /\ taken' \in 0..sent' /\ sent' <= taken' + Capacity
    BY <1>3, BoundsAssumption DEF Drain
  <2>. QED  BY <1>3, <2>1 DEF Drain
<1>4. CASE DrainedInLoop
  BY <1>4, OutcomeFacts, VerdictFacts, ExitOutcomeFacts DEF DrainedInLoop,
     Return
<1>5. CASE PollEscalation
  BY <1>5 DEF PollEscalation
<1>6. CASE WakeEscalation
  BY <1>6 DEF WakeEscalation
<1>7. CASE TerminateGroup
  BY <1>7 DEF TerminateGroup, TermArrives
<1>8. CASE TermStore
  BY <1>8 DEF TermStore
<1>9. CASE GraceSeesExit
  BY <1>9 DEF GraceSeesExit
<1>10. CASE GraceExpires
  BY <1>10 DEF GraceExpires
<1>11. CASE KillGroup
  <2>1. live \ Group \subseteq Procs /\ tty \ Group \subseteq live \ Group
    OBVIOUS
  <2>2. (live' = live /\ tty' = tty) \/ (live' = live \ Group /\ tty' = tty \ Group)
    BY <1>11 DEF KillGroup, KillArrives
  <2>3. live' \subseteq Procs /\ tty' \subseteq live'
    BY <2>1, <2>2
  <2>4. termed' \in BOOLEAN /\ escalated' \in BOOLEAN /\ ladder' \in LadderSteps
    BY <1>11 DEF KillGroup, KillArrives
  <2>. QED  BY <1>11, <2>3, <2>4 DEF KillGroup
<1>12. CASE KillStore
  BY <1>12 DEF KillStore
<1>13. CASE Deadline
  BY <1>13 DEF Deadline, StopWaiting
<1>14. CASE IdleExpired
  BY <1>14 DEF IdleExpired, StopWaiting
<1>15. CASE DrainedInShutdown
  BY <1>15, OutcomeFacts, VerdictFacts, StopOutcomeFacts DEF
     DrainedInShutdown, Return, ResultInv
<1>16. CASE ShutdownDone
  BY <1>16 DEF ShutdownDone
<1>17. CASE DrainedAfterShutdown
  BY <1>17, OutcomeFacts, VerdictFacts, StopOutcomeFacts DEF
     DrainedAfterShutdown, Return, ResultInv
<1>18. CASE PostSignalDrain
  BY <1>18, OutcomeFacts, VerdictFacts, StopOutcomeFacts DEF PostSignalDrain,
     Return, ResultInv
<1>19. CASE RunPanics
  BY <1>19, OutcomeFacts DEF RunPanics
<1>20. CASE Finish
  BY <1>20 DEF Finish
<1>21. CASE Spawn
  BY <1>21 DEF Spawn, Procs, Group
<1>22. CASE SetPublish
  BY <1>22 DEF SetPublish
<1>23. CASE SetReplay
  <2>1. live \ Group \subseteq Procs /\ tty \ Group \subseteq live \ Group
    OBVIOUS
  <2>2. (live' = live /\ tty' = tty) \/ (live' = live \ Group /\ tty' = tty \ Group)
    BY <1>23 DEF SetReplay, KillArrives
  <2>3. live' \subseteq Procs /\ tty' \subseteq live'
    BY <2>1, <2>2
  <2>4. termed' \in BOOLEAN
    BY <1>23 DEF SetReplay, KillArrives
  <2>5. /\ pending' \in BOOLEAN /\ thr' \in ThreadSteps
        /\ UNCHANGED <<jobVars, published, exit, written, read, sent, taken, runVars, clientVars>>
    BY <1>23 DEF SetReplay
  <2>. QED  BY <2>3, <2>4, <2>5
<1>24. CASE AnnouncePid
  <2>1. /\ written' \in Nat /\ read' \in 0..written' /\ sent' \in Nat
        /\ taken' \in 0..sent' /\ sent' <= taken' + Capacity
    BY <1>24, BoundsAssumption DEF AnnouncePid, SendChunk
  <2>2. thr' \in ThreadSteps
    BY <1>24 DEF AnnouncePid, SendChunk
  <2>. QED  BY <1>24, <2>1, <2>2 DEF AnnouncePid
<1>25. CASE WriteInput
  BY <1>25 DEF WriteInput
<1>26. CASE PumpRead
  <2>1. /\ written' \in Nat /\ read' \in 0..written' /\ sent' \in Nat
        /\ taken' \in 0..sent' /\ sent' <= taken' + Capacity
    BY <1>26, BoundsAssumption DEF PumpRead, SendChunk
  <2>2. thr' \in ThreadSteps
    BY <1>26 DEF PumpRead, SendChunk
  <2>. QED  BY <1>26, <2>1, <2>2 DEF PumpRead
<1>27. CASE PumpEof
  BY <1>27 DEF PumpEof
<1>28. CASE PumpFlush
  <2>1. /\ written' \in Nat /\ read' \in 0..written' /\ sent' \in Nat
        /\ taken' \in 0..sent' /\ sent' <= taken' + Capacity
    BY <1>28, BoundsAssumption DEF PumpFlush, SendChunk
  <2>2. thr' \in ThreadSteps
    BY <1>28 DEF PumpFlush, SendChunk
  <2>. QED  BY <1>28, <2>1, <2>2 DEF PumpFlush
<1>29. CASE WaitChild
  BY <1>29 DEF WaitChild
<1>30. CASE DropSender
  BY <1>30 DEF DropSender
<1>31. ASSUME NEW p \in Procs, ChildWrites(p)
      PROVE  TypeOK'
  BY <1>31 DEF ChildWrites
<1>32. ASSUME NEW p \in Procs, ChildClosesTerminal(p)
      PROVE  TypeOK'
  BY <1>32 DEF ChildClosesTerminal
<1>33. ASSUME NEW p \in Procs, ChildExits(p)
      PROVE  TypeOK'
  BY <1>33 DEF ChildExits
<1>34. ASSUME NEW c \in Clients, CancelRequest(c)
      PROVE  TypeOK'
  BY <1>34 DEF CancelRequest
<1>35. ASSUME NEW c \in Clients, CancelCheck(c)
      PROVE  TypeOK'
  BY <1>35 DEF CancelCheck
<1>36. ASSUME NEW c \in Clients, CancelMark(c)
      PROVE  TypeOK'
  BY <1>36 DEF CancelMark
<1>37. ASSUME NEW c \in Clients, CancelSignal(c)
      PROVE  TypeOK'
  BY <1>37 DEF CancelSignal, TermArrives
<1>38. ASSUME NEW c \in Clients, CancelStore(c)
      PROVE  TypeOK'
  BY <1>38 DEF CancelStore
<1>39. ASSUME NEW c \in Clients, CancelNotify(c)
      PROVE  TypeOK'
  BY <1>39 DEF CancelNotify
<1>40. CASE UNCHANGED vars
  BY <1>40 DEF vars
<1>. QED   BY <1>1, <1>2, <1>3, <1>4, <1>5, <1>6, <1>7, <1>8, <1>9, <1>10,
     <1>11, <1>12, <1>13, <1>14, <1>15, <1>16, <1>17, <1>18, <1>19, <1>20,
     <1>21, <1>22, <1>23, <1>24, <1>25, <1>26, <1>27, <1>28, <1>29, <1>30,
     <1>31, <1>32, <1>33, <1>34, <1>35, <1>36, <1>37, <1>38, <1>39, <1>40
  DEF Next, RunTask, Ladder, Thread, Child, Cancel, CancelSteps, Rest

(* Only the blocking thread moves what SpawnInv speaks of, and a process can
   only disappear behind its back. *)
LEMMA SpawnStep == IInv /\ [Next]_vars => SpawnInv'
<1> SUFFICES ASSUME IInv, [Next]_vars
             PROVE  SpawnInv'
  OBVIOUS
<1> USE DEF IInv, TypeOK, SpawnInv, jobVars, killVars, procVars, threadVars,
    runVars, clientVars
<1>1. CASE ArmKill
  BY <1>1 DEF ArmKill
<1>2. CASE SpawnBlocking
  BY <1>2 DEF SpawnBlocking
<1>3. CASE Drain
  BY <1>3 DEF Drain
<1>4. CASE DrainedInLoop
  BY <1>4 DEF DrainedInLoop, Return
<1>5. CASE PollEscalation
  BY <1>5 DEF PollEscalation
<1>6. CASE WakeEscalation
  BY <1>6 DEF WakeEscalation
<1>7. CASE TerminateGroup
  BY <1>7 DEF TerminateGroup, TermArrives
<1>8. CASE TermStore
  BY <1>8 DEF TermStore
<1>9. CASE GraceSeesExit
  BY <1>9 DEF GraceSeesExit
<1>10. CASE GraceExpires
  BY <1>10 DEF GraceExpires
<1>11. CASE KillGroup
  BY <1>11 DEF KillGroup, KillArrives
<1>12. CASE KillStore
  BY <1>12 DEF KillStore
<1>13. CASE Deadline
  BY <1>13 DEF Deadline, StopWaiting
<1>14. CASE IdleExpired
  BY <1>14 DEF IdleExpired, StopWaiting
<1>15. CASE DrainedInShutdown
  BY <1>15 DEF DrainedInShutdown, Return
<1>16. CASE ShutdownDone
  BY <1>16 DEF ShutdownDone
<1>17. CASE DrainedAfterShutdown
  BY <1>17 DEF DrainedAfterShutdown, Return
<1>18. CASE PostSignalDrain
  BY <1>18 DEF PostSignalDrain, Return
<1>19. CASE RunPanics
  BY <1>19 DEF RunPanics, Draining
<1>20. CASE Finish
  BY <1>20 DEF Finish
<1>21. CASE Spawn
  BY <1>21 DEF Spawn
<1>22. CASE SetPublish
  BY <1>22 DEF SetPublish
<1>23. CASE SetReplay
  BY <1>23 DEF SetReplay, KillArrives
<1>24. CASE AnnouncePid
  BY <1>24 DEF AnnouncePid, SendChunk
<1>25. CASE WriteInput
  BY <1>25 DEF WriteInput
<1>26. CASE PumpRead
  BY <1>26 DEF PumpRead, SendChunk
<1>27. CASE PumpEof
  BY <1>27 DEF PumpEof
<1>28. CASE PumpFlush
  BY <1>28 DEF PumpFlush, SendChunk
<1>29. CASE WaitChild
  BY <1>29 DEF WaitChild
<1>30. CASE DropSender
  BY <1>30 DEF DropSender
<1>31. ASSUME NEW p \in Procs, ChildWrites(p)
      PROVE  SpawnInv'
  BY <1>31 DEF ChildWrites
<1>32. ASSUME NEW p \in Procs, ChildExits(p)
      PROVE  SpawnInv'
  BY <1>32 DEF ChildExits
<1>33. ASSUME NEW p \in Procs, ChildClosesTerminal(p)
      PROVE  SpawnInv'
  BY <1>33 DEF ChildClosesTerminal
<1>34. ASSUME NEW c \in Clients, CancelRequest(c) \/ CancelCheck(c) \/
            CancelMark(c) \/ CancelSignal(c) \/ CancelStore(c) \/
            CancelNotify(c)
      PROVE  SpawnInv'
  BY <1>34 DEF CancelCheck, CancelMark, CancelNotify, CancelRequest,
     CancelSignal, CancelStore, TermArrives
<1>35. CASE UNCHANGED vars
  BY <1>35 DEF vars
<1>. QED   BY <1>1, <1>2, <1>3, <1>4, <1>5, <1>6, <1>7, <1>8, <1>9, <1>10,
     <1>11, <1>12, <1>13, <1>14, <1>15, <1>16, <1>17, <1>18, <1>19, <1>20,
     <1>21, <1>22, <1>23, <1>24, <1>25, <1>26, <1>27, <1>28, <1>29, <1>30,
     <1>31, <1>32, <1>33, <1>34, <1>35
  DEF Next, RunTask, Ladder, Thread, Child, Cancel, CancelSteps, Rest

(* Whoever asked for a signal left a trace of it. *)
LEMMA RequestStep == IInv /\ [Next]_vars => RequestInv'
<1> SUFFICES ASSUME IInv, [Next]_vars
             PROVE  RequestInv'
  OBVIOUS
<1> USE DEF IInv, TypeOK, SpawnInv, RequestInv, Requested, jobVars, killVars,
    procVars, threadVars, runVars, clientVars
<1>1. CASE WakeEscalation
  BY <1>1 DEF WakeEscalation
<1>2. CASE TerminateGroup
  BY <1>2 DEF TerminateGroup, TermArrives
<1>3. CASE TermStore
  BY <1>3 DEF TermStore
<1>4. CASE GraceExpires
  BY <1>4 DEF GraceExpires, InGrace
<1>5. CASE SetReplay
  BY <1>5 DEF SetReplay, KillArrives
<1>6. ASSUME NEW c \in Clients, CancelSignal(c)
      PROVE  RequestInv'
  BY <1>6 DEF CancelSignal, TermArrives
<1>7. ASSUME NEW c \in Clients, CancelStore(c)
      PROVE  RequestInv'
  BY <1>7 DEF CancelStore
<1>8. ASSUME NEW c \in Clients, CancelNotify(c)
      PROVE  RequestInv'
  BY <1>8 DEF CancelNotify
<1>9. ASSUME NEW p \in Procs, ChildWrites(p) \/ ChildClosesTerminal(p) \/
            ChildExits(p)
      PROVE  RequestInv'
  BY <1>9 DEF ChildClosesTerminal, ChildExits, ChildWrites
<1>10. ASSUME NEW c \in Clients, CancelRequest(c) \/ CancelCheck(c) \/
            CancelMark(c)
      PROVE  RequestInv'
  BY <1>10 DEF CancelCheck, CancelMark, CancelRequest
<1>11. CASE ArmKill \/ SpawnBlocking \/ Drain \/ DrainedInLoop \/
          PollEscalation \/ GraceSeesExit \/ KillGroup \/ KillStore \/
          Deadline \/ IdleExpired \/ DrainedInShutdown \/ ShutdownDone \/
          DrainedAfterShutdown \/ PostSignalDrain \/ RunPanics \/ Finish
  BY <1>11 DEF ArmKill, SpawnBlocking, Drain, DrainedInLoop, PollEscalation,
     GraceSeesExit, KillGroup, KillStore, Deadline, IdleExpired,
     DrainedInShutdown, ShutdownDone, DrainedAfterShutdown, PostSignalDrain,
     RunPanics, Finish, KillArrives, Return, StopWaiting
<1>12. CASE Spawn \/ SetPublish \/ AnnouncePid \/ WriteInput \/ PumpRead \/
          PumpEof \/ PumpFlush \/ WaitChild \/ DropSender
  BY <1>12 DEF Spawn, SetPublish, AnnouncePid, WriteInput, PumpRead, PumpEof,
     PumpFlush, WaitChild, DropSender, SendChunk
<1>13. CASE UNCHANGED vars
  BY <1>13 DEF vars
<1>. QED   BY <1>1, <1>2, <1>3, <1>4, <1>5, <1>6, <1>7, <1>8, <1>9, <1>10,
     <1>11, <1>12, <1>13
  DEF Next, RunTask, Ladder, Thread, Child, Cancel, CancelSteps, Rest

(* The end of the ladder is reached with the kill delivered or waiting. *)
LEMMA LadderStep == IInv /\ [Next]_vars => LadderInv'
<1> SUFFICES ASSUME IInv, [Next]_vars
             PROVE  LadderInv'
  OBVIOUS
<1> USE DEF IInv, TypeOK, SpawnInv, RequestInv, LadderInv, Requested, Settled,
    GroupAlive, BeforeReplay, jobVars, killVars, procVars, threadVars,
    runVars, clientVars
<1>1. CASE SpawnBlocking
  BY <1>1 DEF SpawnBlocking
<1>2. CASE GraceSeesExit
  BY <1>2 DEF GraceSeesExit
<1>3. CASE KillGroup
  BY <1>3 DEF KillGroup, KillArrives
<1>4. CASE KillStore
  BY <1>4 DEF KillStore
<1>5. CASE Spawn
  BY <1>5 DEF Spawn
<1>6. CASE SetPublish
  BY <1>6 DEF SetPublish
<1>7. CASE SetReplay
  BY <1>7 DEF SetReplay, KillArrives
<1>8. ASSUME NEW p \in Procs, ChildExits(p)
      PROVE  LadderInv'
  BY <1>8 DEF ChildExits
<1>9. ASSUME NEW p \in Procs, ChildWrites(p) \/ ChildClosesTerminal(p)
      PROVE  LadderInv'
  BY <1>9 DEF ChildClosesTerminal, ChildWrites
<1>10. ASSUME NEW c \in Clients, CancelRequest(c) \/ CancelCheck(c) \/
            CancelMark(c) \/ CancelSignal(c) \/ CancelStore(c) \/
            CancelNotify(c)
      PROVE  LadderInv'
  BY <1>10 DEF CancelCheck, CancelMark, CancelNotify, CancelRequest,
     CancelSignal, CancelStore, TermArrives
<1>11. CASE ArmKill \/ Drain \/ DrainedInLoop \/ PollEscalation \/
          WakeEscalation \/ TerminateGroup \/ TermStore \/ GraceExpires \/
          Deadline \/ IdleExpired \/ DrainedInShutdown \/ ShutdownDone \/
          DrainedAfterShutdown \/ PostSignalDrain \/ RunPanics \/ Finish
  BY <1>11 DEF ArmKill, Drain, DrainedInLoop, PollEscalation, WakeEscalation,
     TerminateGroup, TermStore, GraceExpires, Deadline, IdleExpired,
     DrainedInShutdown, ShutdownDone, DrainedAfterShutdown, PostSignalDrain,
     RunPanics, Finish, Return, StopWaiting, TermArrives
<1>12. CASE AnnouncePid \/ WriteInput \/ PumpRead \/ PumpEof \/ PumpFlush \/
          WaitChild \/ DropSender
  BY <1>12 DEF AnnouncePid, WriteInput, PumpRead, PumpEof, PumpFlush,
     WaitChild, DropSender, SendChunk
<1>13. CASE UNCHANGED vars
  BY <1>13 DEF vars
<1>. QED   BY <1>1, <1>2, <1>3, <1>4, <1>5, <1>6, <1>7, <1>8, <1>9, <1>10,
     <1>11, <1>12, <1>13
  DEF Next, RunTask, Ladder, Thread, Child, Cancel, CancelSteps, Rest

(* End of file is final while somebody listens. *)
LEMMA PumpStep == IInv /\ [Next]_vars => PumpInv'
<1> SUFFICES ASSUME IInv, [Next]_vars
             PROVE  PumpInv'
  OBVIOUS
<1> USE DEF IInv, TypeOK, SpawnInv, PumpInv, ReceiverOpen, jobVars, killVars,
    procVars, threadVars, runVars, clientVars
<1>1. CASE ArmKill
  BY <1>1 DEF ArmKill
<1>2. CASE SpawnBlocking
  BY <1>2 DEF SpawnBlocking
<1>3. CASE Drain
  BY <1>3 DEF Drain
<1>4. CASE DrainedInLoop
  BY <1>4 DEF DrainedInLoop, Return
<1>5. CASE PollEscalation
  BY <1>5 DEF PollEscalation
<1>6. CASE WakeEscalation
  BY <1>6 DEF WakeEscalation
<1>7. CASE TerminateGroup
  BY <1>7 DEF TerminateGroup, TermArrives
<1>8. CASE TermStore
  BY <1>8 DEF TermStore
<1>9. CASE GraceSeesExit
  BY <1>9 DEF GraceSeesExit
<1>10. CASE GraceExpires
  BY <1>10 DEF GraceExpires
<1>11. CASE KillGroup
  BY <1>11 DEF KillGroup, KillArrives
<1>12. CASE KillStore
  BY <1>12 DEF KillStore
<1>13. CASE Deadline
  BY <1>13 DEF Deadline, StopWaiting
<1>14. CASE IdleExpired
  BY <1>14 DEF IdleExpired, StopWaiting
<1>15. CASE DrainedInShutdown
  BY <1>15 DEF DrainedInShutdown, Return
<1>16. CASE ShutdownDone
  BY <1>16 DEF ShutdownDone
<1>17. CASE DrainedAfterShutdown
  BY <1>17 DEF DrainedAfterShutdown, Return
<1>18. CASE PostSignalDrain
  BY <1>18 DEF PostSignalDrain, Return
<1>19. CASE RunPanics
  BY <1>19 DEF RunPanics
<1>20. CASE Finish
  BY <1>20 DEF Finish
<1>21. CASE Spawn
  BY <1>21 DEF Spawn
<1>22. CASE SetPublish
  BY <1>22 DEF SetPublish
<1>23. CASE SetReplay
  BY <1>23 DEF SetReplay, KillArrives
<1>24. CASE AnnouncePid
  BY <1>24 DEF AnnouncePid, SendChunk
<1>25. CASE WriteInput
  BY <1>25 DEF WriteInput
<1>26. CASE PumpRead
  BY <1>26 DEF PumpRead, SendChunk
<1>27. CASE PumpEof
  BY <1>27 DEF PumpEof
<1>28. CASE PumpFlush
  BY <1>28 DEF PumpFlush, SendChunk
<1>29. CASE WaitChild
  BY <1>29 DEF WaitChild
<1>30. CASE DropSender
  BY <1>30 DEF DropSender
<1>31. ASSUME NEW p \in Procs, ChildWrites(p)
      PROVE  PumpInv'
  BY <1>31 DEF ChildWrites
<1>32. ASSUME NEW p \in Procs, ChildClosesTerminal(p)
      PROVE  PumpInv'
  BY <1>32 DEF ChildClosesTerminal
<1>33. ASSUME NEW p \in Procs, ChildExits(p)
      PROVE  PumpInv'
  BY <1>33 DEF ChildExits
<1>34. ASSUME NEW c \in Clients, CancelRequest(c) \/ CancelCheck(c) \/
            CancelMark(c) \/ CancelSignal(c) \/ CancelStore(c) \/
            CancelNotify(c)
      PROVE  PumpInv'
  BY <1>34 DEF CancelCheck, CancelMark, CancelNotify, CancelRequest,
     CancelSignal, CancelStore, TermArrives
<1>35. CASE UNCHANGED vars
  BY <1>35 DEF vars
<1>. QED   BY <1>1, <1>2, <1>3, <1>4, <1>5, <1>6, <1>7, <1>8, <1>9, <1>10,
     <1>11, <1>12, <1>13, <1>14, <1>15, <1>16, <1>17, <1>18, <1>19, <1>20,
     <1>21, <1>22, <1>23, <1>24, <1>25, <1>26, <1>27, <1>28, <1>29, <1>30,
     <1>31, <1>32, <1>33, <1>34, <1>35
  DEF Next, RunTask, Ladder, Thread, Child, Cancel, CancelSteps, Rest

(* The result is computed once, from what is settled by then. *)
LEMMA ResultStep == IInv /\ [Next]_vars => ResultInv'
<1> SUFFICES ASSUME IInv, [Next]_vars
             PROVE  ResultInv'
  OBVIOUS
<1> USE DEF IInv, ResultInv, jobVars, killVars, procVars, threadVars, runVars,
    clientVars
<1>1. CASE SpawnBlocking
  BY <1>1, OutcomeFacts DEF SpawnBlocking, SpawnInv
<1>2. CASE Drain
  BY <1>2, OutcomeFacts DEF Drain, Draining
<1>3. CASE DrainedInLoop
  BY <1>3, VerdictFacts, ExitOutcomeFacts, OutcomeFacts DEF DrainedInLoop,
     Return, ChannelClosed, PumpInv, ReceiverOpen
<1>4. CASE KillGroup
  BY <1>4 DEF KillGroup, KillArrives, TypeOK
<1>5. CASE Deadline
  BY <1>5 DEF Deadline, StopWaiting
<1>6. CASE IdleExpired
  BY <1>6 DEF IdleExpired, StopWaiting
<1>7. CASE DrainedInShutdown
  BY <1>7, VerdictFacts, StopOutcomeFacts DEF DrainedInShutdown, Return,
     TypeOK
<1>8. CASE DrainedAfterShutdown
  BY <1>8, VerdictFacts, StopOutcomeFacts DEF DrainedAfterShutdown, Return,
     TypeOK
<1>9. CASE PostSignalDrain
  BY <1>9, VerdictFacts, StopOutcomeFacts DEF PostSignalDrain, Return, TypeOK
<1>10. CASE RunPanics
  BY <1>10, OutcomeFacts DEF RunPanics, Draining
<1>11. CASE Finish
  BY <1>11 DEF Finish, IsRunning
<1>12. CASE Spawn
  BY <1>12 DEF Spawn, TypeOK
<1>13. CASE SetPublish
  BY <1>13 DEF SetPublish, TypeOK
<1>14. CASE SetReplay
  BY <1>14 DEF SetReplay, KillArrives, TypeOK
<1>15. CASE AnnouncePid
  BY <1>15 DEF AnnouncePid, SendChunk, TypeOK
<1>16. CASE WriteInput
  BY <1>16 DEF WriteInput, TypeOK
<1>17. CASE PumpRead
  BY <1>17 DEF PumpRead, SendChunk, TypeOK
<1>18. CASE PumpEof
  BY <1>18 DEF PumpEof, TypeOK
<1>19. CASE PumpFlush
  BY <1>19 DEF PumpFlush, SendChunk, TypeOK
<1>20. CASE WaitChild
  BY <1>20 DEF WaitChild, TypeOK
<1>21. CASE DropSender
  BY <1>21 DEF DropSender, TypeOK
<1>22. ASSUME NEW p \in Procs, ChildWrites(p)
      PROVE  ResultInv'
  BY <1>22 DEF ChildWrites, TypeOK
<1>23. ASSUME NEW p \in Procs, ChildClosesTerminal(p)
      PROVE  ResultInv'
  BY <1>23 DEF ChildClosesTerminal, TypeOK
<1>24. ASSUME NEW p \in Procs, ChildExits(p)
      PROVE  ResultInv'
  BY <1>24 DEF ChildExits, TypeOK
<1>25. ASSUME NEW c \in Clients, CancelRequest(c) \/ CancelCheck(c) \/
            CancelMark(c) \/ CancelSignal(c) \/ CancelStore(c) \/
            CancelNotify(c)
      PROVE  ResultInv'
  BY <1>25 DEF CancelCheck, CancelMark, CancelNotify, CancelRequest,
     CancelSignal, CancelStore, TermArrives
<1>26. CASE ArmKill \/ PollEscalation \/ WakeEscalation \/ TerminateGroup \/
          TermStore \/ GraceSeesExit \/ GraceExpires \/ KillStore \/
          ShutdownDone
  BY <1>26 DEF ArmKill, PollEscalation, WakeEscalation, TerminateGroup,
     TermStore, GraceSeesExit, GraceExpires, KillStore, ShutdownDone,
     TermArrives
<1>27. CASE UNCHANGED vars
  BY <1>27 DEF vars
<1>. QED   BY <1>1, <1>2, <1>3, <1>4, <1>5, <1>6, <1>7, <1>8, <1>9, <1>10,
     <1>11, <1>12, <1>13, <1>14, <1>15, <1>16, <1>17, <1>18, <1>19, <1>20,
     <1>21, <1>22, <1>23, <1>24, <1>25, <1>26, <1>27
  DEF Next, RunTask, Ladder, Thread, Child, Cancel, CancelSteps, Rest

(* The inductive invariant. *)
THEOREM InvariantHolds == Spec => []IInv
<1>1. IInv /\ [Next]_vars => IInv'
  BY TypeStep, SpawnStep, RequestStep, LadderStep, PumpStep, ResultStep DEF IInv
<1>. QED  BY InitInv, <1>1, PTL DEF Spec

THEOREM TypeCorrect == Spec => []TypeOK
<1>1. IInv => TypeOK
  BY DEF IInv
<1>. QED  BY <1>1, InvariantHolds, PTL

(* With a grace period, the ladder ends with nothing of the group left once the
   spawn race is over: of SIGTERM and SIGKILL, at most the first can be lost
   between the two halves of KillHandle::set. *)
THEOREM LadderReaches == Spec => []LadderReachesGroup
<1>1. IInv => LadderReachesGroup
  BY DEF IInv, LadderInv, Settled, LadderReachesGroup, GroupEnded
<1>. QED  BY <1>1, InvariantHolds, PTL

(* A completed job has lost none of its output. *)
THEOREM OutputKept == Spec => []NoOutputLost
<1>1. IInv => NoOutputLost
  BY OutcomeFacts DEF IInv, ResultInv, NoOutputLost
<1>. QED  BY <1>1, InvariantHolds, PTL

(* Nothing about a finished job changes. *)
THEOREM FinishedStays == Spec => FinishedIsFinal
<1>1. ASSUME IInv, [Next]_vars, ~IsRunning
      PROVE  state' = state /\ taken' = taken
  <2> USE <1>1 DEF IInv, jobVars, killVars, procVars, threadVars, runVars, clientVars
  <2>1. pc = "finished"
    BY DEF ResultInv, IsRunning
  <2>2. CASE RunTask
    BY <2>1, <2>2 DEF RunTask, Ladder, Draining, Return, StopWaiting, ArmKill, SpawnBlocking, Drain, DrainedInLoop, PollEscalation, WakeEscalation,
           TerminateGroup, TermStore, GraceSeesExit, GraceExpires, KillGroup,
           KillStore, Deadline, IdleExpired, DrainedInShutdown, ShutdownDone,
           DrainedAfterShutdown, PostSignalDrain, RunPanics, Finish
  <2>3. CASE Thread
    BY <2>3 DEF Thread, Spawn, SetPublish, SetReplay, AnnouncePid, WriteInput, PumpRead, PumpEof, PumpFlush, WaitChild, DropSender
  <2>4. CASE Child
    BY <2>4 DEF Child, ChildWrites, ChildClosesTerminal, ChildExits
  <2>5. CASE Cancel
    BY <2>5 DEF Cancel, CancelSteps, CancelRequest, CancelCheck, CancelMark, CancelSignal, CancelStore, CancelNotify
  <2>6. CASE Rest \/ UNCHANGED vars
    BY <2>6 DEF Rest, vars
  <2>. QED  BY <2>2, <2>3, <2>4, <2>5, <2>6 DEF Next
<1>2. IInv /\ [Next]_vars => [~IsRunning => state' = state /\ taken' = taken]_vars
  BY <1>1
<1>. QED  BY <1>2, InvariantHolds, PTL DEF Spec, FinishedIsFinal

(* The runner implements the job its clients see: taking a chunk produces
   output, marking a cancel requests it, Job::finish finishes it with an
   outcome that is "canceled" only on request, and nothing else is visible. *)
THEOREM RefinesLifecycle == Spec => Lifecycle!Spec
<1> USE DEF Lifecycle!vars, jobVars, killVars, procVars, threadVars, runVars, clientVars
<1>0. Lifecycle!Running = Running /\ Lifecycle!TerminalSet = TerminalSet
  BY DEF Lifecycle!Running, Lifecycle!Outcome, Lifecycle!TerminalSet,
         Lifecycle!Completed, Lifecycle!Failed, Lifecycle!SignalledKinds,
         Running, Outcome, TerminalSet, Completed, Failed, SignalledKinds
<1>1. Init => Lifecycle!Init
  BY <1>0 DEF Init, Lifecycle!Init
<1>2. ASSUME IInv, [Next]_vars
      PROVE  [Lifecycle!Next]_(Lifecycle!vars)
  <2> USE <1>2 DEF IInv
  <2>1. CASE Drain
    <3>1. state = Running
      BY <2>1 DEF Drain, Draining, ResultInv
    <3>2. Lifecycle!Produce
      BY <1>0, <2>1, <3>1 DEF Drain, Lifecycle!Produce
    <3>. QED  BY <3>2 DEF Lifecycle!Next
  <2>2. CASE Finish
    <3>1. state = Running /\ result \in TerminalSet /\ (result.kind = "canceled" => canceled)
      BY <2>2 DEF Finish, ResultInv
    <3>2. Lifecycle!Finish(result)
      BY <1>0, <2>2, <3>1 DEF Finish, IsRunning, Lifecycle!Finish
    <3>. QED  BY <1>0, <3>1, <3>2 DEF Lifecycle!Next
  <2>3. ASSUME NEW c \in Clients, CancelMark(c)
        PROVE  Lifecycle!RequestCancel
    BY <2>3 DEF CancelMark, Lifecycle!RequestCancel
  <2>4. CASE ArmKill \/ SpawnBlocking \/ DrainedInLoop \/ PollEscalation \/
            WakeEscalation \/ TerminateGroup \/ TermStore \/ GraceSeesExit \/
            GraceExpires \/ KillGroup \/ KillStore \/ Deadline \/ IdleExpired
            \/ DrainedInShutdown \/ ShutdownDone \/ DrainedAfterShutdown \/
            PostSignalDrain \/ RunPanics
    BY <2>4 DEF ArmKill, SpawnBlocking, DrainedInLoop, PollEscalation,
       WakeEscalation, TerminateGroup, TermStore, GraceSeesExit, GraceExpires,
       KillGroup, KillStore, Deadline, IdleExpired, DrainedInShutdown,
       ShutdownDone, DrainedAfterShutdown, PostSignalDrain, RunPanics,
       KillArrives, Return, StopWaiting, TermArrives
  <2>5. CASE Spawn \/ SetPublish \/ SetReplay \/ AnnouncePid \/ WriteInput \/
            PumpRead \/ PumpEof \/ PumpFlush \/ WaitChild \/ DropSender
    BY <2>5 DEF Spawn, SetPublish, SetReplay, AnnouncePid, WriteInput,
       PumpRead, PumpEof, PumpFlush, WaitChild, DropSender, KillArrives,
       SendChunk
  <2>6. CASE Child
    BY <2>6 DEF Child, ChildWrites, ChildClosesTerminal, ChildExits
  <2>7. ASSUME NEW c \in Clients, CancelRequest(c) \/ CancelCheck(c) \/
              CancelSignal(c) \/ CancelStore(c) \/ CancelNotify(c)
        PROVE  UNCHANGED Lifecycle!vars
    BY <2>7 DEF CancelRequest, CancelCheck, CancelSignal, CancelStore,
       CancelNotify, TermArrives
  <2>8. CASE Rest \/ UNCHANGED vars
    BY <2>8 DEF Rest, vars
  <2>. QED
    BY <2>1, <2>2, <2>3, <2>4, <2>5, <2>6, <2>7, <2>8
    DEF Next, RunTask, Ladder, Thread, Cancel, CancelSteps, Lifecycle!Next
<1>. QED  BY <1>1, <1>2, InvariantHolds, PTL DEF Spec, Lifecycle!Spec

----------------------------------------------------------------------------
(* The line assembler: what strip_ansi leaves. *)

Chars == Texts \cup {ESC, "[", "1", "3", "m", "~"}
NothingRead == [at |-> "text", out |-> <<>>]

(* A nonempty set of numbers has a least one. *)
LEMMA LeastNumber ==
  ASSUME NEW T \in SUBSET Nat, T # {}
  PROVE  \E x \in T : \A y \in T : x <= y
<1>1. PICK x \in T : \A y \in T : ~(<<y, x>> \in OpToRel(<, Nat))
  BY NatLessThanWellFounded, WFMin
<1>2. \A y \in T : ~(y < x)
  BY <1>1 DEF OpToRel
<1>. QED  BY <1>2

(* What has been read after each of a line's characters. *)
ReadsTo(t, line) ==
  /\ t = [k \in 0..Len(line) |-> t[k]]
  /\ t[0] = NothingRead
  /\ \A k \in 1..Len(line) : t[k] = StripChar(t[k - 1], line[k])

LEMMA ReadOneMore ==
  ASSUME NEW line \in Seq(Chars), NEW c \in Chars, NEW t, ReadsTo(t, line)
  PROVE  \E u : /\ ReadsTo(u, Append(line, c))
                /\ u[Len(Append(line, c))] = StripChar(t[Len(line)], c)
<1> DEFINE n == Len(line)
           more == Append(line, c)
           u == [k \in 0..(n + 1) |-> IF k <= n THEN t[k] ELSE StripChar(t[n], c)]
<1>1. n \in Nat /\ Len(more) = n + 1 /\ (\A k \in 1..n : more[k] = line[k]) /\ more[n + 1] = c
  OBVIOUS
<1> HIDE DEF more, n
<1>2. u = [k \in 0..Len(more) |-> u[k]] /\ u[0] = NothingRead
  BY <1>1 DEF ReadsTo
<1>3. \A k \in 1..n : u[k] = t[k] /\ u[k - 1] = t[k - 1]
  BY <1>1
<1>4. u[n + 1] = StripChar(t[n], c) /\ u[n] = t[n]
  BY <1>1
<1>5. \A k \in 1..(n + 1) : u[k] = StripChar(u[k - 1], more[k])
  <2> TAKE k \in 1..(n + 1)
  <2>1. CASE k \in 1..n
    <3>1. t[k] = StripChar(t[k - 1], line[k])
      BY <2>1 DEF ReadsTo, n
    <3>. QED  BY <1>1, <1>3, <2>1, <3>1
  <2>2. CASE k = n + 1
    <3>1. k - 1 = n
      BY <1>1, <2>2
    <3>. QED  BY <1>1, <1>4, <2>2, <3>1
  <2>. QED  BY <1>1, <2>1, <2>2
<1> HIDE DEF u
<1>6. ReadsTo(u, more) /\ u[Len(more)] = StripChar(t[n], c)
  BY <1>1, <1>2, <1>4, <1>5 DEF ReadsTo
<1>. QED  BY <1>6 DEF more, n

(* Every line can be read: there is no shortest one that cannot. *)
LEMMA AllIsRead ==
  ASSUME NEW line \in Seq(Chars)
  PROVE  \E t : ReadsTo(t, line)
<1> DEFINE Fails(l) == \A t : ~ReadsTo(t, l)
           bad == {n \in Nat : \E l \in Seq(Chars) : Len(l) = n /\ Fails(l)}
<1> SUFFICES ASSUME Fails(line) PROVE FALSE
  OBVIOUS
<1>1. Len(line) \in bad /\ bad \in SUBSET Nat
  OBVIOUS
<1>2. PICK x \in bad : \A y \in bad : x <= y
  <2> HIDE DEF bad
  <2>. QED  BY <1>1, LeastNumber
<1>3. PICK l \in Seq(Chars) : Len(l) = x /\ Fails(l)
  OBVIOUS
<1>4. CASE x = 0
  <2> DEFINE t == [k \in 0..0 |-> NothingRead]
  <2>1. Len(l) = 0
    BY <1>3, <1>4
  <2>2. ReadsTo(t, l)
    BY <2>1 DEF ReadsTo
  <2>. QED  BY <1>3, <2>2
<1>5. CASE x # 0
  <2> DEFINE shorter == SubSeq(l, 1, x - 1)
  <2>1. x \in Nat /\ x - 1 \in Nat /\ x - 1 \notin bad
    BY <1>2, <1>5
  <2>2. /\ shorter \in Seq(Chars) /\ Len(shorter) = x - 1 /\ l[x] \in Chars
        /\ l = Append(shorter, l[x])
    BY <1>3, <1>5, <2>1
  <2>3. ~Fails(shorter)
    BY <2>1, <2>2
  <2>4. PICK t : ReadsTo(t, shorter)
    BY <2>3
  <2>5. \E u : ReadsTo(u, Append(shorter, l[x]))
    <3> HIDE DEF shorter
    <3>. QED  BY <2>2, <2>4, ReadOneMore
  <2>. QED  BY <1>3, <2>2, <2>5
<1>. QED  BY <1>4, <1>5

(* Stripped is what such a reading comes to. *)
LEMMA StrippedIsRead ==
  ASSUME NEW line \in Seq(Chars), NEW t, ReadsTo(t, line)
  PROVE  Stripped(line) = t[Len(line)]
<1> DEFINE n == Len(line)
           Fold(g) == g = [k \in 0..n |-> IF k = 0 THEN [at |-> "text", out |-> <<>>]
                                          ELSE StripChar(g[k - 1], line[k])]
           f == CHOOSE g : Fold(g)
<1>1. n \in Nat
  OBVIOUS
<1>2. \A k \in 0..n : t[k] = IF k = 0 THEN [at |-> "text", out |-> <<>>] ELSE StripChar(t[k - 1], line[k])
  BY <1>1 DEF ReadsTo, NothingRead
<1>3. Fold(t)
  BY <1>2 DEF ReadsTo
<1>4. Fold(f)
  BY <1>3
<1>5. Stripped(line) = f[n]
  BY DEF Stripped
<1> HIDE DEF f
<1>6. \A k \in 0..n : f[k] = IF k = 0 THEN [at |-> "text", out |-> <<>>] ELSE StripChar(f[k - 1], line[k])
  BY <1>4
<1> HIDE DEF Fold
<1>7. \A k \in 0..n : f[k] = t[k]
  <2> DEFINE bad == {k \in 0..n : f[k] # t[k]}
  <2> SUFFICES ASSUME bad # {} PROVE FALSE
    OBVIOUS
  <2>0. bad \in SUBSET Nat
    BY <1>1
  <2>1. PICK x \in bad : \A y \in bad : x <= y
    <3> HIDE DEF bad
    <3>. QED  BY <2>0, LeastNumber
  <2>2. x \in 1..n /\ x - 1 \in 0..n /\ x - 1 \notin bad
    BY <1>1, <1>2, <1>6, <2>1
  <2>3. f[x - 1] = t[x - 1]
    BY <2>2
  <2>. QED  BY <1>2, <1>6, <2>1, <2>2, <2>3
<1>. QED  BY <1>1, <1>5, <1>7

(* One character more. *)
LEMMA StrippedMore ==
  ASSUME NEW line \in Seq(Chars), NEW c \in Chars
  PROVE  Append(line, c) \in Seq(Chars) /\ Stripped(Append(line, c)) = StripChar(Stripped(line), c)
<1>1. PICK t : ReadsTo(t, line)
  BY AllIsRead
<1>2. PICK u : ReadsTo(u, Append(line, c)) /\ u[Len(Append(line, c))] = StripChar(t[Len(line)], c)
  BY <1>1, ReadOneMore
<1>3. Append(line, c) \in Seq(Chars)
  OBVIOUS
<1>. QED  BY <1>1, <1>2, <1>3, StrippedIsRead

LEMMA StrippedEmpty == <<>> \in Seq(Chars) /\ Stripped(<<>>) = NothingRead
<1>1. <<>> \in Seq(Chars) /\ Len(<<>>) = 0
  OBVIOUS
<1>2. PICK t : ReadsTo(t, <<>>)
  BY <1>1, AllIsRead
<1>3. Stripped(<<>>) = t[Len(<<>>)]
  BY <1>1, <1>2, StrippedIsRead
<1>. QED  BY <1>1, <1>2, <1>3 DEF ReadsTo

(* A style leaves nothing. *)
LEMMA StrippedStyle ==
  ASSUME NEW line \in Seq(Chars), NEW text, Stripped(line) = [at |-> "text", out |-> text]
  PROVE  line \o Bytes("style") \in Seq(Chars) /\ Stripped(line \o Bytes("style")) = Stripped(line)
<1> DEFINE l1 == Append(line, ESC)
           l2 == Append(l1, "[")
           l3 == Append(l2, "1")
           l4 == Append(l3, "m")
<1>0. ESC \in Chars /\ "[" \in Chars /\ "1" \in Chars /\ "m" \in Chars
  BY DEF Chars
<1>1. line \o Bytes("style") = l4
  BY <1>0 DEF Bytes
<1>2. l1 \in Seq(Chars) /\ Stripped(l1) = [at |-> "esc", out |-> text]
  BY <1>0, StrippedMore DEF StripChar
<1> HIDE DEF l1
<1>3. l2 \in Seq(Chars) /\ Stripped(l2) = [at |-> "csi", out |-> text]
  BY <1>0, <1>2, StrippedMore DEF StripChar
<1> HIDE DEF l2
<1>4. l3 \in Seq(Chars) /\ Stripped(l3) = [at |-> "csi", out |-> text]
  BY <1>0, <1>3, StrippedMore DEF StripChar, Letters
<1> HIDE DEF l3
<1>5. l4 \in Seq(Chars) /\ Stripped(l4) = [at |-> "text", out |-> text]
  BY <1>0, <1>4, StrippedMore DEF StripChar, Letters
<1>. QED  BY <1>1, <1>5

(* A text leaves itself. *)
LEMMA StrippedText ==
  ASSUME NEW line \in Seq(Chars), NEW text, Stripped(line) = [at |-> "text", out |-> text],
         NEW c \in Texts
  PROVE  /\ line \o Bytes(c) \in Seq(Chars)
         /\ Stripped(line \o Bytes(c)) = [at |-> "text", out |-> Append(text, c)]
<1>1. c \in Chars /\ c # ESC /\ c \notin Breaks \cup Controls
  BY TextsAssumption DEF Chars
<1>2. line \o Bytes(c) = Append(line, c)
  BY <1>1 DEF Bytes, Controls
<1>3. StripChar(Stripped(line), c) = [at |-> "text", out |-> Append(text, c)]
  BY <1>1 DEF StripChar
<1>. QED  BY <1>1, <1>2, <1>3, StrippedMore

----------------------------------------------------------------------------
(* The line assembler: lines and the places of what they show. *)

(* The greatest number more is the last in rank. *)
LEMMA RankOfMore ==
  ASSUME NEW n \in Nat, NEW P \in SUBSET (1..n)
  PROVE  /\ IsFiniteSet(P) /\ Cardinality(P) \in Nat
         /\ Cardinality(P \cup {n + 1}) = Cardinality(P) + 1
         /\ Rank(n + 1, P \cup {n + 1}) = Cardinality(P) + 1
         /\ \A k \in P : /\ Rank(k, P \cup {n + 1}) = Rank(k, P)
                         /\ Rank(k, P) \in 1..Cardinality(P)
<1>1. IsFiniteSet(P) /\ Cardinality(P) \in Nat
  <2>1. IsFiniteSet(1..n) /\ P \subseteq 1..n
    BY FS_Interval
  <2>. QED  BY <2>1, FS_Subset, FS_CardinalityType
<1>2. n + 1 \notin P
  OBVIOUS
<1>3. Cardinality(P \cup {n + 1}) = Cardinality(P) + 1
  BY <1>1, <1>2, FS_AddElement
<1>4. {i \in P \cup {n + 1} : i <= n + 1} = P \cup {n + 1}
  <2>1. \A i \in P \cup {n + 1} : i <= n + 1
    OBVIOUS
  <2>. QED  BY <2>1
<1>5. ASSUME NEW k \in P
      PROVE  Rank(k, P \cup {n + 1}) = Rank(k, P) /\ Rank(k, P) \in 1..Cardinality(P)
  <2> DEFINE below == {i \in P : i <= k}
  <2>1. {i \in P \cup {n + 1} : i <= k} = below
    OBVIOUS
  <2>2. below \subseteq P /\ k \in below
    OBVIOUS
  <2> HIDE DEF below
  <2>3. IsFiniteSet(below) /\ Cardinality(below) \in Nat /\ Cardinality(below) <= Cardinality(P)
    BY <1>1, <2>2, FS_Subset, FS_CardinalityType
  <2>4. Cardinality(below) # 0
    BY <2>2, <2>3, FS_EmptySet
  <2>5. Rank(k, P) = Cardinality(below)
    BY DEF Rank, below
  <2>6. Rank(k, P \cup {n + 1}) = Cardinality(below)
    BY <2>1 DEF Rank
  <2>. QED  BY <1>1, <2>3, <2>4, <2>5, <2>6
<1>. QED  BY <1>1, <1>3, <1>4, <1>5 DEF Rank

(* The line spells what it did when a token more is printed, and with a text more that text too. *)
LEMMA SpellsMore ==
  ASSUME NEW tokens \in Seq(Tokens), NEW token \in Tokens, NEW text \in Seq(Texts),
         NEW places \in SUBSET DOMAIN tokens, Spells(text, tokens, places)
  PROVE  /\ Spells(text, Append(tokens, token), places)
         /\ token \in Texts => Spells(Append(text, token), Append(tokens, token), places \cup {Len(tokens) + 1})
<1> DEFINE n == Len(tokens)
           more == Append(tokens, token)
           longer == Append(text, token)
<1>1. /\ n \in Nat /\ DOMAIN tokens = 1..n /\ places \in SUBSET (1..n)
      /\ \A k \in 1..n : more[k] = tokens[k]
      /\ more[n + 1] = token
  OBVIOUS
<1>2. \A k \in places : more[k] = tokens[k]
  BY <1>1
<1>3. Spells(text, more, places)
  BY <1>2 DEF Spells
<1>4. ASSUME token \in Texts PROVE Spells(longer, more, places \cup {n + 1})
  <2>1. /\ Len(longer) = Len(text) + 1 /\ longer[Len(text) + 1] = token
        /\ \A k \in 1..Len(text) : longer[k] = text[k]
    BY <1>4
  <2>2. Len(text) = Cardinality(places) /\ \A k \in places : text[Rank(k, places)] = tokens[k]
    BY DEF Spells
  <2> HIDE DEF longer, more, n
  <2>3. /\ Cardinality(places \cup {n + 1}) = Cardinality(places) + 1
        /\ Rank(n + 1, places \cup {n + 1}) = Cardinality(places) + 1
        /\ \A k \in places : /\ Rank(k, places \cup {n + 1}) = Rank(k, places)
                             /\ Rank(k, places) \in 1..Cardinality(places)
    BY <1>1, RankOfMore
  <2>4. \A k \in places : longer[Rank(k, places \cup {n + 1})] = more[k]
    BY <1>2, <2>1, <2>2, <2>3
  <2>5. longer[Rank(n + 1, places \cup {n + 1})] = more[n + 1]
    BY <1>1, <2>1, <2>2, <2>3
  <2>. QED  BY <2>1, <2>2, <2>3, <2>4, <2>5 DEF Spells
<1>. QED  BY <1>3, <1>4

(* The frame that is being drawn, a return after it or not. *)
Drawn(tokens) ==
  {k \in DOMAIN tokens : tokens[k] \in Texts /\ \A i \in (k + 1)..Len(tokens) : tokens[i] \notin Breaks}

LEMMA DrawnMore ==
  ASSUME NEW tokens \in Seq(Tokens), NEW token \in Tokens
  PROVE  Drawn(Append(tokens, token)) =
           IF token \in Breaks THEN {} ELSE
           IF token \in Texts THEN Drawn(tokens) \cup {Len(tokens) + 1} ELSE Drawn(tokens)
<1> DEFINE n == Len(tokens)
           more == Append(tokens, token)
<1>1. /\ n \in Nat /\ DOMAIN tokens = 1..n /\ DOMAIN more = 1..(n + 1) /\ Len(more) = n + 1
      /\ \A k \in 1..n : more[k] = tokens[k]
      /\ more[n + 1] = token
  OBVIOUS
<1>2. Texts \cap Breaks = {}
  BY TextsAssumption
<1> HIDE DEF more, n
<1>3. \A k \in 1..n : (\A i \in (k + 1)..(n + 1) : more[i] \notin Breaks)
                        <=> token \notin Breaks /\ \A i \in (k + 1)..n : tokens[i] \notin Breaks
  <2> TAKE k \in 1..n
  <2>1. (k + 1)..(n + 1) = ((k + 1)..n) \cup {n + 1}
    BY <1>1
  <2>2. \A i \in (k + 1)..n : more[i] = tokens[i]
    BY <1>1
  <2>. QED  BY <1>1, <2>1, <2>2
<1>4. \A i \in (n + 1 + 1)..(n + 1) : FALSE
  BY <1>1
<1>5. \A k \in 1..n : k \in Drawn(more) <=> token \notin Breaks /\ k \in Drawn(tokens)
  BY <1>1, <1>3 DEF Drawn, n
<1>6. n + 1 \in Drawn(more) <=> token \in Texts
  BY <1>1, <1>4 DEF Drawn
<1>7. Drawn(more) \subseteq 1..(n + 1) /\ Drawn(tokens) \subseteq 1..n
  BY <1>1 DEF Drawn
<1>8. \A k \in 1..(n + 1) : k \in 1..n \/ k = n + 1
  BY <1>1
<1>9. token \in Breaks => Drawn(more) = {}
  BY <1>2, <1>5, <1>6, <1>7, <1>8
<1>10. token \notin Breaks /\ token \in Texts => Drawn(more) = Drawn(tokens) \cup {n + 1}
  BY <1>5, <1>6, <1>7, <1>8
<1>11. token \notin Breaks /\ token \notin Texts => Drawn(more) = Drawn(tokens)
  BY <1>5, <1>6, <1>7, <1>8
<1>. QED  BY <1>9, <1>10, <1>11 DEF more, n

(* What was printed up to some place decides what the line that ends there shows. *)
LEMMA FrameTextMore ==
  ASSUME NEW tokens \in Seq(Tokens), NEW token \in Tokens, NEW e \in 1..(Len(tokens) + 1)
  PROVE  FrameText(Append(tokens, token), e) = FrameText(tokens, e)
<1>1. \A k \in 1..(e - 1) : Append(tokens, token)[k] = tokens[k]
  OBVIOUS
<1>. QED  BY <1>1 DEF FrameText

(* At the end of the output the last frame is the one that is being drawn, or before a return was. *)
LEMMA LastFrame ==
  ASSUME NEW tokens \in Seq(Tokens)
  PROVE  /\ FrameText(tokens, Len(tokens) + 1) \in SUBSET DOMAIN tokens
         /\ Drawn(tokens) \in SUBSET DOMAIN tokens
         /\ (tokens = <<>> \/ tokens[Len(tokens)] # "CR") => FrameText(tokens, Len(tokens) + 1) = Drawn(tokens)
         /\ FrameText(Append(tokens, "CR"), Len(tokens) + 2) = Drawn(tokens)
<1> DEFINE n == Len(tokens)
           more == Append(tokens, "CR")
<1>1. /\ n \in Nat /\ DOMAIN tokens = 1..n /\ "CR" \in Tokens
      /\ \A k \in 1..n : more[k] = tokens[k]
      /\ more[n + 1] = "CR"
      /\ n + 1 - 1 = n /\ n + 2 - 1 = n + 1
  BY DEF Tokens, Breaks
<1>2. FrameText(tokens, n + 1) \in SUBSET DOMAIN tokens /\ Drawn(tokens) \in SUBSET DOMAIN tokens
  <2>1. FrameText(tokens, n + 1) \subseteq 1..n
    <3> HIDE DEF n
    <3>. QED  BY <1>1 DEF FrameText
  <2>2. Drawn(tokens) \subseteq DOMAIN tokens
    BY DEF Drawn
  <2>. QED  BY <1>1, <2>1, <2>2
<1>3. ASSUME tokens = <<>> \/ tokens[n] # "CR" PROVE FrameText(tokens, n + 1) = Drawn(tokens)
  <2>1. \A k \in 1..n : \A i \in (k + 1)..n :
          (tokens[i] # "LF" /\ (tokens[i] = "CR" => i = n)) <=> tokens[i] \notin Breaks
    <3> SUFFICES ASSUME NEW k \in 1..n, NEW i \in (k + 1)..n
                 PROVE  (tokens[i] # "LF" /\ (tokens[i] = "CR" => i = n)) <=> tokens[i] \notin Breaks
      OBVIOUS
    <3>1. i \in 1..n /\ tokens # <<>>
      BY <1>1
    <3>2. i = n => tokens[i] # "CR"
      BY <1>3, <3>1
    <3> HIDE DEF n
    <3>. QED  BY <3>1, <3>2 DEF Breaks
  <2>2. FrameText(tokens, n + 1) = {k \in 1..n : tokens[k] \in Texts
          /\ \A i \in (k + 1)..n : tokens[i] # "LF" /\ (tokens[i] = "CR" => i = n)}
    <3> HIDE DEF n
    <3>. QED  BY <1>1 DEF FrameText
  <2>3. Drawn(tokens) = {k \in 1..n : tokens[k] \in Texts /\ \A i \in (k + 1)..n : tokens[i] \notin Breaks}
    BY <1>1 DEF Drawn
  <2> HIDE DEF n
  <2>. QED  BY <2>1, <2>2, <2>3
<1>4. FrameText(more, n + 2) = Drawn(tokens)
  <2> HIDE DEF more
  <2>1. \A k \in 1..n : (\A i \in (k + 1)..(n + 1) : more[i] # "LF" /\ (more[i] = "CR" => i = n + 1))
                          <=> \A i \in (k + 1)..n : tokens[i] \notin Breaks
    <3> TAKE k \in 1..n
    <3>1. (k + 1)..(n + 1) = ((k + 1)..n) \cup {n + 1}
      BY <1>1
    <3>2. \A i \in (k + 1)..n : more[i] = tokens[i] /\ i # n + 1
      BY <1>1
    <3>3. more[n + 1] # "LF"
      BY <1>1
    <3>. QED  BY <3>1, <3>2, <3>3 DEF Breaks
  <2>2. more[n + 1] \notin Texts
    BY <1>1, TextsAssumption DEF Breaks
  <2>3. \A k \in 1..(n + 1) : k \in 1..n \/ k = n + 1
    BY <1>1
  <2>. QED  BY <1>1, <2>1, <2>2, <2>3 DEF FrameText, Drawn, n
<1>. QED  BY <1>2, <1>3, <1>4

----------------------------------------------------------------------------
(* The line assembler: its steps. *)

(* Stripped of its styles, the line has the texts that are at some places. *)
Clean(line, tokens, places) ==
  \E text \in Seq(Texts) :
    Stripped(line) = [at |-> "text", out |-> text] /\ Spells(text, tokens, places)

NewlineEnds(tokens) == {e \in DOMAIN tokens : tokens[e] = "LF" /\ FrameText(tokens, e) # {}}

(* Some lines are what is shown at some ends of lines. *)
Lists(shown, tokens, ends) ==
  /\ shown \in Seq(Seq(Texts)) /\ Len(shown) = Cardinality(ends)
  /\ \A e \in ends : Spells(shown[Rank(e, ends)], tokens, FrameText(tokens, e))

AssemblyTypeOK ==
  /\ printed \in Seq(Tokens)
  /\ asm \in [pending : Seq(Chars), held : Seq(Chars), some : BOOLEAN, cr : BOOLEAN]

(* after_cr is about the last byte; whatever comes after a return is pending. *)
ReturnInv ==
  /\ asm.cr <=> printed # <<>> /\ printed[Len(printed)] = "CR"
  /\ asm.cr => asm.some /\ asm.pending = <<>>
  /\ asm.some /\ ~asm.cr => asm.pending # <<>>

(* What is pending is the frame that is being drawn, what is held the one before. *)
FrameInv ==
  ~Contains(printed, "key") =>
    /\ Lists(lines, printed, NewlineEnds(printed))
    /\ Clean(asm.pending, printed, Drawn(printed))
    /\ asm.cr => Clean(asm.held, printed, FrameText(printed, Len(printed) + 1))

AssemblyInv == AssemblyTypeOK /\ ReturnInv /\ FrameInv

LEMMA CleanEmpty == ASSUME NEW tokens PROVE Clean(<<>>, tokens, {})
<1>1. Stripped(<<>>) = [at |-> "text", out |-> <<>>] /\ <<>> \in Seq(Texts)
  BY StrippedEmpty DEF NothingRead
<1>2. Spells(<<>>, tokens, {})
  BY FS_EmptySet DEF Spells
<1>. QED  BY <1>1, <1>2 DEF Clean

(* A line with no places has nothing, one with places something. *)
LEMMA CleanAndStored ==
  ASSUME NEW line, NEW tokens \in Seq(Tokens), NEW places \in SUBSET DOMAIN tokens, Clean(line, tokens, places)
  PROVE  /\ StripAnsi(line) \in Seq(Texts) /\ Spells(StripAnsi(line), tokens, places)
         /\ StripAnsi(line) = <<>> <=> places = {}
<1>1. PICK text \in Seq(Texts) :
        Stripped(line) = [at |-> "text", out |-> text] /\ Spells(text, tokens, places)
  BY DEF Clean
<1>2. StripAnsi(line) = text
  BY <1>1 DEF StripAnsi
<1>3. IsFiniteSet(places)
  <2>1. IsFiniteSet(1..Len(tokens)) /\ places \subseteq 1..Len(tokens)
    BY FS_Interval
  <2>. QED  BY <2>1, FS_Subset
<1>4. Len(text) = 0 <=> places = {}
  BY <1>1, <1>3, FS_EmptySet DEF Spells
<1>5. Len(text) = 0 <=> text = <<>>
  OBVIOUS
<1>. QED  BY <1>1, <1>2, <1>4, <1>5

(* Storing a line that ends at the end, if it has text. *)
LEMMA EmittedLists ==
  ASSUME NEW tokens \in Seq(Tokens), NEW line, Lists(lines, tokens, NewlineEnds(tokens)),
         Clean(line, tokens, FrameText(tokens, Len(tokens) + 1))
  PROVE  Lists(Emitted(line), tokens, LineEnds(tokens))
<1> DEFINE n == Len(tokens)
           ends == NewlineEnds(tokens)
           text == StripAnsi(line)
           more == Append(lines, text)
<1>1. n \in Nat /\ DOMAIN tokens = 1..n /\ ends \in SUBSET (1..n)
  BY DEF NewlineEnds
<1>2. /\ text \in Seq(Texts) /\ Spells(text, tokens, FrameText(tokens, n + 1))
      /\ text = <<>> <=> FrameText(tokens, n + 1) = {}
  BY LastFrame, CleanAndStored
<1>3. LineEnds(tokens) = IF FrameText(tokens, n + 1) = {} THEN ends ELSE ends \cup {n + 1}
  <2>1. \A e \in 1..(n + 1) : e \in 1..n \/ e = n + 1
    BY <1>1
  <2>2. n + 1 \notin DOMAIN tokens /\ n + 1 \in 1..(n + 1) /\ 1..n \subseteq 1..(n + 1)
    BY <1>1
  <2>. QED  BY <1>1, <2>1, <2>2 DEF LineEnds, NewlineEnds
<1>4. /\ lines \in Seq(Seq(Texts)) /\ Len(lines) = Cardinality(ends)
      /\ \A e \in ends : Spells(lines[Rank(e, ends)], tokens, FrameText(tokens, e))
  BY DEF Lists
<1>5. CASE text = <<>>
  BY <1>2, <1>3, <1>4, <1>5 DEF Emitted, Lists
<1>6. CASE text # <<>>
  <2> HIDE DEF text, ends, n
  <2>1. /\ more \in Seq(Seq(Texts)) /\ Len(more) = Len(lines) + 1 /\ more[Len(lines) + 1] = text
        /\ \A k \in 1..Len(lines) : more[k] = lines[k]
    BY <1>2, <1>4
  <2>2. /\ Cardinality(ends \cup {n + 1}) = Cardinality(ends) + 1
        /\ Rank(n + 1, ends \cup {n + 1}) = Cardinality(ends) + 1
        /\ \A e \in ends : Rank(e, ends \cup {n + 1}) = Rank(e, ends) /\ Rank(e, ends) \in 1..Cardinality(ends)
    BY <1>1, RankOfMore
  <2> HIDE DEF more
  <2>3. \A e \in ends \cup {n + 1} :
          Spells(more[Rank(e, ends \cup {n + 1})], tokens, FrameText(tokens, e))
    BY <1>2, <1>4, <2>1, <2>2
  <2>4. Lists(more, tokens, ends \cup {n + 1})
    BY <1>4, <2>1, <2>2, <2>3 DEF Lists
  <2>. QED  BY <1>2, <1>3, <1>6, <2>4 DEF Emitted, text, more
<1>. QED  BY <1>5, <1>6

(* The ends and what is shown at them stay when a token more is printed; a newline makes the
   end of the output the end of a line. *)
LEMMA ListsMore ==
  ASSUME NEW tokens \in Seq(Tokens), NEW token \in Tokens, NEW shown
  PROVE  /\ token # "LF" /\ Lists(shown, tokens, NewlineEnds(tokens))
              => Lists(shown, Append(tokens, token), NewlineEnds(Append(tokens, token)))
         /\ token = "LF" /\ Lists(shown, tokens, LineEnds(tokens))
              => Lists(shown, Append(tokens, token), NewlineEnds(Append(tokens, token)))
<1> DEFINE n == Len(tokens)
           more == Append(tokens, token)
<1>1. /\ n \in Nat /\ DOMAIN tokens = 1..n /\ DOMAIN more = 1..(n + 1) /\ Len(more) = n + 1
      /\ \A k \in 1..n : more[k] = tokens[k]
      /\ more[n + 1] = token
  OBVIOUS
<1>2. \A e \in 1..(n + 1) : FrameText(more, e) = FrameText(tokens, e)
  BY FrameTextMore
<1>3. \A line, e : e \in 1..(n + 1) =>
        (Spells(line, tokens, FrameText(tokens, e)) <=> Spells(line, more, FrameText(more, e)))
  <2> SUFFICES ASSUME NEW line, NEW e \in 1..(n + 1)
               PROVE  Spells(line, tokens, FrameText(tokens, e)) <=> Spells(line, more, FrameText(more, e))
    OBVIOUS
  <2>1. FrameText(tokens, e) \subseteq 1..(e - 1)
    BY DEF FrameText
  <2>2. \A k \in FrameText(tokens, e) : more[k] = tokens[k]
    BY <1>1, <2>1
  <2>. QED  BY <1>2, <2>2 DEF Spells
<1> HIDE DEF more, n
<1>4. ASSUME token # "LF" PROVE NewlineEnds(more) = NewlineEnds(tokens)
  <2>1. \A e \in 1..(n + 1) : e \in 1..n \/ e = n + 1
    BY <1>1
  <2>2. n + 1 \notin 1..n /\ 1..n \subseteq 1..(n + 1)
    BY <1>1
  <2>. QED  BY <1>1, <1>2, <1>4, <2>1, <2>2 DEF NewlineEnds
<1>5. ASSUME token = "LF" PROVE NewlineEnds(more) = LineEnds(tokens)
  <2>1. \A e \in 1..(n + 1) : e \in 1..n \/ e = n + 1
    BY <1>1
  <2>2. n + 1 \notin 1..n /\ 1..n \subseteq 1..(n + 1)
    BY <1>1
  <2>3. LineEnds(tokens) = {e \in 1..(n + 1) : (e \in 1..n => tokens[e] = "LF") /\ FrameText(tokens, e) # {}}
    BY <1>1 DEF LineEnds, n
  <2>. QED  BY <1>1, <1>2, <1>5, <2>1, <2>2, <2>3 DEF NewlineEnds
<1>6. NewlineEnds(tokens) \subseteq 1..(n + 1) /\ LineEnds(tokens) \subseteq 1..(n + 1)
  BY <1>1 DEF NewlineEnds, LineEnds, n
<1>7. \A ends \in SUBSET (1..(n + 1)) : Lists(shown, tokens, ends) => Lists(shown, more, ends)
  BY <1>3 DEF Lists
<1>. QED  BY <1>4, <1>5, <1>6, <1>7 DEF more

(* What a newline would complete is what is left at the end, and shows the last frame. *)
LEMMA CompletedIsLastFrame ==
  ASSUME AssemblyInv, ~Contains(printed, "key")
  PROVE  Finished = CompletedLine /\ Clean(CompletedLine, printed, FrameText(printed, Len(printed) + 1))
<1>1. CASE asm.cr
  <2>1. asm.some /\ asm.pending = <<>> /\ Clean(asm.held, printed, FrameText(printed, Len(printed) + 1))
    BY <1>1 DEF AssemblyInv, ReturnInv, FrameInv
  <2>. QED  BY <1>1, <2>1 DEF Finished, CompletedLine
<1>2. CASE ~asm.cr
  <2>1. FrameText(printed, Len(printed) + 1) = Drawn(printed)
    BY <1>2, LastFrame DEF AssemblyInv, AssemblyTypeOK, ReturnInv
  <2>2. Clean(asm.pending, printed, Drawn(printed)) /\ (asm.some => asm.pending # <<>>)
    BY <1>2 DEF AssemblyInv, ReturnInv, FrameInv
  <2>. QED  BY <1>2, <2>1, <2>2 DEF Finished, CompletedLine
<1>. QED  BY <1>1, <1>2

LEMMA FramesAreStored == AssemblyInv => LinesAreLastFrames
<1> SUFFICES ASSUME AssemblyInv, ~Contains(printed, "key")
             PROVE  /\ Len(Stored) = Cardinality(LineEnds(printed))
                    /\ \A e \in LineEnds(printed) :
                         Spells(Stored[Rank(e, LineEnds(printed))], printed, FrameText(printed, e))
  BY DEF LinesAreLastFrames
<1>1. printed \in Seq(Tokens) /\ Lists(lines, printed, NewlineEnds(printed))
  BY DEF AssemblyInv, AssemblyTypeOK, FrameInv
<1>2. Lists(Emitted(Finished), printed, LineEnds(printed))
  BY <1>1, CompletedIsLastFrame, EmittedLists
<1>. QED  BY <1>2 DEF Stored, Lists

LEMMA AssemblyInitInv == AssemblyInit => AssemblyInv
<1> SUFFICES ASSUME AssemblyInit PROVE AssemblyInv
  OBVIOUS
<1>1. /\ printed = <<>> /\ lines = <<>>
      /\ asm = [pending |-> <<>>, held |-> <<>>, some |-> FALSE, cr |-> FALSE]
  BY DEF AssemblyInit
<1>2. AssemblyTypeOK
  <2>1. <<>> \in Seq(Chars) /\ <<>> \in Seq(Tokens)
    OBVIOUS
  <2>. QED  BY <1>1, <2>1 DEF AssemblyTypeOK
<1>3. ReturnInv
  BY <1>1 DEF ReturnInv
<1>4. NewlineEnds(printed) = {} /\ Drawn(printed) = {}
  BY <1>1 DEF NewlineEnds, Drawn
<1>5. Lists(lines, printed, NewlineEnds(printed))
  BY <1>1, <1>4, FS_EmptySet DEF Lists
<1>6. FrameInv
  BY <1>1, <1>4, <1>5, CleanEmpty DEF FrameInv
<1>. QED  BY <1>2, <1>3, <1>6 DEF AssemblyInv

LEMMA WriteFacts ==
  ASSUME AssemblyInv, NEW token \in Tokens, Write(token)
  PROVE  /\ printed \in Seq(Tokens) /\ printed' = Append(printed, token) /\ printed' \in Seq(Tokens)
         /\ printed' # <<>> /\ printed'[Len(printed')] = token /\ Len(printed') = Len(printed) + 1
         /\ ~Contains(printed', "key") => ~Contains(printed, "key") /\ token # "key"
<1>1. printed \in Seq(Tokens) /\ printed' = Append(printed, token)
  BY DEF AssemblyInv, AssemblyTypeOK, Write
<1>2. /\ \A k \in 1..Len(printed) : printed'[k] = printed[k]
      /\ Len(printed') = Len(printed) + 1 /\ printed'[Len(printed) + 1] = token /\ Len(printed) \in Nat
  BY <1>1
<1>3. ~Contains(printed', "key") => ~Contains(printed, "key") /\ token # "key"
  BY <1>2 DEF Contains
<1>. QED  BY <1>1, <1>2, <1>3

(* What a line spells it still spells when more is printed. *)
LEMMA StillClean ==
  ASSUME NEW tokens \in Seq(Tokens), NEW token \in Tokens, NEW line,
         NEW places \in SUBSET DOMAIN tokens, Clean(line, tokens, places)
  PROVE  Clean(line, Append(tokens, token), places)
<1>1. PICK text \in Seq(Texts) :
        Stripped(line) = [at |-> "text", out |-> text] /\ Spells(text, tokens, places)
  BY DEF Clean
<1>. QED  BY <1>1, SpellsMore DEF Clean

LEMMA NewlineInv == ASSUME AssemblyInv, Newline PROVE AssemblyInv'
<1>0. "LF" \in Tokens /\ Write("LF")
  BY DEF Tokens, Breaks, Newline
<1>1. /\ printed \in Seq(Tokens) /\ printed' = Append(printed, "LF") /\ printed' \in Seq(Tokens)
      /\ printed' # <<>> /\ printed'[Len(printed')] = "LF"
      /\ ~Contains(printed', "key") => ~Contains(printed, "key")
  BY <1>0, WriteFacts
<1>2. asm' = [pending |-> <<>>, held |-> <<>>, some |-> FALSE, cr |-> FALSE] /\ lines' = Emitted(CompletedLine)
  BY DEF Newline, AssemblyInv, ReturnInv
<1>3. AssemblyTypeOK'
  <2>1. <<>> \in Seq(Chars)
    OBVIOUS
  <2>. QED  BY <1>1, <1>2, <2>1 DEF AssemblyTypeOK
<1>4. ReturnInv'
  BY <1>1, <1>2 DEF ReturnInv
<1>5. ASSUME ~Contains(printed', "key")
      PROVE  Lists(lines', printed', NewlineEnds(printed')) /\ Clean(asm'.pending, printed', Drawn(printed'))
  <2>1. Lists(lines, printed, NewlineEnds(printed))
    BY <1>1, <1>5 DEF AssemblyInv, FrameInv
  <2>2. Lists(lines', printed, LineEnds(printed))
    BY <1>1, <1>2, <1>5, <2>1, CompletedIsLastFrame, EmittedLists
  <2>3. Lists(lines', printed', NewlineEnds(printed'))
    BY <1>0, <1>1, <2>2, ListsMore
  <2>4. Drawn(printed') = {}
    BY <1>0, <1>1, DrawnMore DEF Breaks
  <2>. QED  BY <1>2, <2>3, <2>4, CleanEmpty
<1>6. FrameInv'
  BY <1>2, <1>5 DEF FrameInv
<1>. QED  BY <1>3, <1>4, <1>6 DEF AssemblyInv

LEMMA CarriageReturnInv == ASSUME AssemblyInv, CarriageReturn PROVE AssemblyInv'
<1>0. "CR" \in Tokens /\ Write("CR")
  BY DEF Tokens, Breaks, CarriageReturn
<1>1. /\ printed \in Seq(Tokens) /\ printed' = Append(printed, "CR") /\ printed' \in Seq(Tokens)
      /\ printed' # <<>> /\ printed'[Len(printed')] = "CR" /\ Len(printed') = Len(printed) + 1
      /\ ~Contains(printed', "key") => ~Contains(printed, "key")
  BY <1>0, WriteFacts
<1>2. asm' = [pending |-> <<>>, held |-> asm.pending, some |-> TRUE, cr |-> TRUE] /\ lines' = lines
  BY DEF CarriageReturn
<1>3. AssemblyTypeOK'
  <2>1. <<>> \in Seq(Chars) /\ asm.pending \in Seq(Chars)
    BY DEF AssemblyInv, AssemblyTypeOK
  <2>. QED  BY <1>1, <1>2, <2>1 DEF AssemblyTypeOK
<1>4. ReturnInv'
  BY <1>1, <1>2 DEF ReturnInv
<1>5. ASSUME ~Contains(printed', "key")
      PROVE  /\ Lists(lines', printed', NewlineEnds(printed')) /\ Clean(asm'.pending, printed', Drawn(printed'))
             /\ Clean(asm'.held, printed', FrameText(printed', Len(printed') + 1))
  <2>1. Lists(lines, printed, NewlineEnds(printed)) /\ Clean(asm.pending, printed, Drawn(printed))
    BY <1>1, <1>5 DEF AssemblyInv, FrameInv
  <2>2. Lists(lines', printed', NewlineEnds(printed'))
    BY <1>0, <1>1, <1>2, <2>1, ListsMore
  <2>3. Drawn(printed') = {}
    BY <1>0, <1>1, DrawnMore DEF Breaks
  <2>4. Drawn(printed) \in SUBSET DOMAIN printed
    BY <1>1, LastFrame
  <2>5. Clean(asm.pending, printed', Drawn(printed))
    BY <1>0, <1>1, <2>1, <2>4, StillClean
  <2>6. Len(printed') + 1 = Len(printed) + 2
    BY <1>1
  <2>7. FrameText(printed', Len(printed') + 1) = Drawn(printed)
    BY <1>1, <2>6, LastFrame
  <2>. QED  BY <1>2, <2>2, <2>3, <2>5, <2>7, CleanEmpty
<1>6. FrameInv'
  BY <1>2, <1>5 DEF FrameInv
<1>. QED  BY <1>3, <1>4, <1>6 DEF AssemblyInv

(* A text or a style more. *)
LEMMA CleanMore ==
  ASSUME NEW tokens \in Seq(Tokens), NEW line \in Seq(Chars), Clean(line, tokens, Drawn(tokens)),
         NEW token \in Texts \cup {"style"}
  PROVE  Clean(line \o Bytes(token), Append(tokens, token), Drawn(Append(tokens, token)))
<1>1. token \in Tokens /\ token \notin Breaks /\ "style" \notin Texts
  BY TextsAssumption DEF Tokens, Breaks, Controls
<1>2. PICK text \in Seq(Texts) :
        Stripped(line) = [at |-> "text", out |-> text] /\ Spells(text, tokens, Drawn(tokens))
  BY DEF Clean
<1>3. Drawn(tokens) \in SUBSET DOMAIN tokens
  BY LastFrame
<1>4. CASE token = "style"
  <2>1. Stripped(line \o Bytes(token)) = [at |-> "text", out |-> text]
    BY <1>2, <1>4, StrippedStyle
  <2>2. Drawn(Append(tokens, token)) = Drawn(tokens)
    BY <1>1, <1>4, DrawnMore
  <2>. QED  BY <1>1, <1>2, <1>3, <2>1, <2>2, SpellsMore DEF Clean
<1>5. CASE token \in Texts
  <2>1. Stripped(line \o Bytes(token)) = [at |-> "text", out |-> Append(text, token)]
    BY <1>2, <1>5, StrippedText
  <2>2. Drawn(Append(tokens, token)) = Drawn(tokens) \cup {Len(tokens) + 1}
    BY <1>1, <1>5, DrawnMore
  <2>3. Spells(Append(text, token), Append(tokens, token), Drawn(tokens) \cup {Len(tokens) + 1})
    BY <1>1, <1>2, <1>3, <1>5, SpellsMore
  <2>4. Append(text, token) \in Seq(Texts)
    BY <1>2, <1>5
  <2>. QED  BY <2>1, <2>2, <2>3, <2>4 DEF Clean
<1>. QED  BY <1>4, <1>5

LEMMA PushInv == ASSUME AssemblyInv, NEW token \in Tokens \ Breaks, Push(token) PROVE AssemblyInv'
<1>1. /\ printed \in Seq(Tokens) /\ printed' = Append(printed, token) /\ printed' \in Seq(Tokens)
      /\ printed' # <<>> /\ printed'[Len(printed')] = token
      /\ ~Contains(printed', "key") => ~Contains(printed, "key") /\ token # "key"
  BY WriteFacts DEF Push
<1>2. /\ asm' = [asm EXCEPT !.pending = @ \o Bytes(token), !.cr = FALSE] /\ lines' = lines
      /\ asm \in [pending : Seq(Chars), held : Seq(Chars), some : BOOLEAN, cr : BOOLEAN]
  BY DEF Push, AssemblyInv, AssemblyTypeOK
<1>3. /\ asm'.pending = asm.pending \o Bytes(token) /\ asm'.cr = FALSE
      /\ asm'.held = asm.held /\ asm'.some = asm.some
  BY <1>2
<1>4. Bytes(token) \in Seq(Chars) /\ Bytes(token) # <<>>
  <2>1. token \in Texts \/ token = "style" \/ token = "key"
    BY DEF Tokens, Controls
  <2>2. CASE token = "style"
    BY <2>2 DEF Bytes, Chars
  <2>3. CASE token = "key"
    BY <2>3 DEF Bytes, Chars
  <2>4. CASE token \in Texts
    <3>1. Bytes(token) = <<token>>
      BY <2>4, TextsAssumption DEF Bytes, Controls
    <3>. QED  BY <2>4, <3>1 DEF Chars
  <2>. QED  BY <2>1, <2>2, <2>3, <2>4
<1>5. asm.pending \o Bytes(token) \in Seq(Chars) /\ asm.pending \o Bytes(token) # <<>>
  <2>1. asm.pending \in Seq(Chars)
    BY <1>2
  <2>. QED  BY <1>4, <2>1
<1>6. AssemblyTypeOK'
  BY <1>1, <1>2, <1>5 DEF AssemblyTypeOK
<1>7. ReturnInv'
  BY <1>1, <1>3, <1>5 DEF ReturnInv, Breaks
<1>8. ASSUME ~Contains(printed', "key")
      PROVE  Lists(lines', printed', NewlineEnds(printed')) /\ Clean(asm'.pending, printed', Drawn(printed'))
  <2>1. Lists(lines, printed, NewlineEnds(printed)) /\ Clean(asm.pending, printed, Drawn(printed))
    BY <1>1, <1>8 DEF AssemblyInv, FrameInv
  <2>2. token \in Texts \cup {"style"} /\ token # "LF"
    BY <1>1, <1>8 DEF Tokens, Controls, Breaks
  <2>3. Lists(lines', printed', NewlineEnds(printed'))
    BY <1>1, <1>2, <2>1, <2>2, ListsMore
  <2>4. asm.pending \in Seq(Chars)
    BY <1>2
  <2>. QED  BY <1>1, <1>3, <2>1, <2>2, <2>3, <2>4, CleanMore
<1>9. FrameInv'
  BY <1>3, <1>8 DEF FrameInv
<1>. QED  BY <1>6, <1>7, <1>9 DEF AssemblyInv

LEMMA AssemblyNextInv == AssemblyInv /\ [AssemblyNext]_assemblyVars => AssemblyInv'
<1> SUFFICES ASSUME AssemblyInv, [AssemblyNext]_assemblyVars PROVE AssemblyInv'
  OBVIOUS
<1>1. CASE AssemblyNext
  BY <1>1, NewlineInv, CarriageReturnInv, PushInv DEF AssemblyNext
<1>2. CASE UNCHANGED assemblyVars
  BY <1>2 DEF assemblyVars, AssemblyInv, AssemblyTypeOK, ReturnInv, FrameInv
<1>. QED  BY <1>1, <1>2

(* The inductive invariant of the line assembler: what is pending is the frame that is being
   drawn, what is held the one before, and the lines are the frames at the newlines. *)
THEOREM AssemblyInvariantHolds == AssemblySpec => []AssemblyInv
  BY AssemblyInitInv, AssemblyNextInv, PTL DEF AssemblySpec

(* For any characters, however much is printed and however it is redrawn, the lines that are
   stored are what is left of each line (pty.rs, LineAssembler, strip_ansi). *)
THEOREM FramesBecomeLines == AssemblySpec => []LinesAreLastFrames
  BY AssemblyInvariantHolds, FramesAreStored, PTL
================================================================================
