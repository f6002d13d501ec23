----------------------------- MODULE StoreProofs -----------------------------
(***************************************************************************)
(* Theorems about what the sidecar keeps.  Of the registry of jobs, for    *)
(* any number of jobs and requests and any cap: it keeps its bound, and    *)
(* the reaper's count never takes a job with a runner for an orphan.  Of   *)
(* the metrics, for any calls, days and faults: compactions keep every row *)
(* and count none twice, and only torn appends cost records.  Of the ring  *)
(* of diagnostics, for any threads, ring, channel and log: failures reach  *)
(* the monitor's error log, and once.                                      *)
(***************************************************************************)
EXTENDS JobRegistry, MetricsStore, Diagnostics, FiniteSetTheorems, TLAPS

----------------------------------------------------------------------------
(* The registry. *)

(* A job in the map has had a runner, one that is not born has none, and the
   cleanup task holds a suspect only between its two looks at it. *)
RunnerKnown ==
  /\ \A j \in stored : runner[j] # "none"
  /\ \A j \in Jobs : state[j] = "unborn" => runner[j] = "none"

SuspectIsOrphan ==
  /\ suspect # NoJob => runner[suspect] = "gone"
  /\ sweep # "reap" => suspect = NoJob /\ snapshot = {}

IInv ==
  /\ TypeOK
  /\ IsFiniteSet(stored)
  /\ RunnerKnown
  /\ SuspectIsOrphan
  /\ ReapsOnlyOrphans

LEMMA InitInv == Init => IInv
<1> SUFFICES ASSUME Init PROVE IInv
  OBVIOUS
<1>1. IsFiniteSet(stored) /\ Cardinality(stored) = 0
  BY FS_EmptySet DEF Init
<1>2. TypeOK
  BY <1>1, LimitAssumption DEF Init, TypeOK
<1>. QED
  BY <1>1, <1>2, ReadersAssumption
  DEF Init, IInv, RunnerKnown, SuspectIsOrphan, ReapsOnlyOrphans

(* The reaper's count: in the map, and with two references or fewer, a job has
   no runner left. Every clone is counted, those of requests too. *)
LEMMA CountTellsOrphans ==
  ASSUME TypeOK, NEW j \in stored, runner[j] # "none", LooksOrphaned(j)
  PROVE  runner[j] = "gone"
<1> DEFINE watching == {r \in Readers : holds[r] = j}
<1>1. IsFiniteSet(watching)
  BY FS_Subset, ReadersAssumption
<1>2. Cardinality(watching) \in Nat
  BY <1>1, FS_CardinalityType
<1> HIDE DEF watching
<1>3. runner[j] \in {"none", "handler", "running", "returned", "finished", "gone"}
  BY DEF TypeOK
<1>4. RunnerClones(j) \in {0, 1, 3} /\ (RunnerClones(j) = 0 => runner[j] = "gone")
  BY <1>3 DEF RunnerClones
<1>5. 2 + RunnerClones(j) + Cardinality(watching) <= 2
  BY DEF LooksOrphaned, StrongCount, watching
<1>. QED  BY <1>2, <1>4, <1>5

LEMMA CreateInv ==
  ASSUME IInv, NEW j \in Jobs, Create(j)
  PROVE  IInv'
<1>1. IsFiniteSet(stored') /\ Cardinality(stored') <= MaxJobs
  <2>1. Cardinality(stored) \in Nat /\ Cardinality(stored) < MaxJobs
    BY FS_CardinalityType DEF IInv, Create
  <2>2. /\ IsFiniteSet(stored \cup {j})
        /\ \/ Cardinality(stored \cup {j}) = Cardinality(stored)
           \/ Cardinality(stored \cup {j}) = Cardinality(stored) + 1
    BY FS_AddElement DEF IInv
  <2>. QED  BY <2>1, <2>2, LimitAssumption DEF Create
<1>2. TypeOK'
  BY <1>1 DEF IInv, TypeOK, Create
<1>3. RunnerKnown'
  BY DEF IInv, TypeOK, RunnerKnown, Create
<1>4. runner[j] = "none" /\ state[j] = "unborn"
  BY DEF IInv, RunnerKnown, Create
<1>5. SuspectIsOrphan'
  BY <1>4 DEF IInv, TypeOK, SuspectIsOrphan, Create
<1>6. ReapsOnlyOrphans'
  BY <1>4 DEF IInv, TypeOK, ReapsOnlyOrphans, Create
<1>. QED  BY <1>1, <1>2, <1>3, <1>5, <1>6 DEF IInv

(* The steps of a runner, which moves towards its end and never back. *)
LEMMA RunnerInv ==
  ASSUME IInv, NEW j \in Jobs, Runner(j) \/ RunnerAborted(j)
  PROVE  IInv'
<1>1. /\ UNCHANGED <<stored, expired, holds, sweep, snapshot, suspect>>
      /\ runner[j] \notin {"none", "gone"}
      /\ \E to \in {"running", "returned", "finished", "gone"} :
           runner' = [runner EXCEPT ![j] = to]
  BY DEF Runner, SpawnRunner, RunReturns, RunnerFinishes, RunnerEnds, RunnerAborted
<1>2. \/ UNCHANGED <<state, endedBy>>
      \/ /\ state' = [state EXCEPT ![j] = "finished"]
         /\ endedBy' = [endedBy EXCEPT ![j] = "runner"]
  BY DEF Runner, SpawnRunner, RunReturns, RunnerFinishes, RunnerEnds, RunnerAborted,
         FinishJob
<1>3. TypeOK'
  BY <1>1, <1>2 DEF IInv, TypeOK
<1>4. RunnerKnown'
  BY <1>1, <1>2 DEF IInv, TypeOK, RunnerKnown
<1>5. SuspectIsOrphan'
  BY <1>1 DEF IInv, TypeOK, SuspectIsOrphan
<1>6. ReapsOnlyOrphans'
  BY <1>1, <1>2 DEF IInv, TypeOK, ReapsOnlyOrphans
<1>. QED  BY <1>1, <1>3, <1>4, <1>5, <1>6 DEF IInv

(* The steps of requests and of time, which touch no runner. *)
LEMMA RequestInv ==
  ASSUME IInv,
         \/ \E j \in Jobs : Refuse(j) \/ Expire(j)
         \/ \E r \in Readers : Release(r) \/ \E j \in Jobs : Get(r, j)
  PROVE  IInv'
<1>1. CASE \E j \in Jobs : Refuse(j) \/ Expire(j)
  BY <1>1 DEF IInv, TypeOK, RunnerKnown, SuspectIsOrphan, ReapsOnlyOrphans, Refuse, Expire
<1>2. CASE \E r \in Readers : Release(r) \/ \E j \in Jobs : Get(r, j)
  BY <1>2 DEF IInv, TypeOK, RunnerKnown, SuspectIsOrphan, ReapsOnlyOrphans, Release, Get
<1>. QED  BY <1>1, <1>2

LEMMA CleanupInv ==
  ASSUME IInv, Cleanup
  PROVE  IInv'
<1>1. CASE Tick
  BY <1>1, ReadersAssumption
  DEF IInv, TypeOK, RunnerKnown, SuspectIsOrphan, ReapsOnlyOrphans, Tick
<1>2. ASSUME NEW j \in Jobs, ReapCount(j) PROVE IInv'
  <2>1. j \in stored /\ runner[j] # "none" /\ TypeOK
    BY <1>2 DEF IInv, TypeOK, RunnerKnown, ReapCount
  <2>2. LooksOrphaned(j) => runner[j] = "gone"
    BY <2>1, CountTellsOrphans
  <2>3. SuspectIsOrphan'
    BY <1>2, <2>2 DEF IInv, SuspectIsOrphan, ReapCount
  <2>. QED
    BY <1>2, <2>1, <2>3 DEF IInv, TypeOK, RunnerKnown, ReapsOnlyOrphans, ReapCount
<1>3. CASE Reap
  <2>1. suspect \in Jobs /\ runner[suspect] = "gone"
    BY <1>3 DEF IInv, TypeOK, SuspectIsOrphan, Reap
  <2>2. /\ UNCHANGED <<stored, expired, runner, holds, sweep, snapshot>>
        /\ suspect' = NoJob
        /\ \/ UNCHANGED <<state, endedBy>>
           \/ /\ state' = [state EXCEPT ![suspect] = "finished"]
              /\ endedBy' = [endedBy EXCEPT ![suspect] = "reaper"]
    BY <1>3 DEF Reap, FinishJob
  <2>. QED
    BY <2>1, <2>2 DEF IInv, TypeOK, RunnerKnown, SuspectIsOrphan, ReapsOnlyOrphans
<1>4. CASE ReapDone
  BY <1>4 DEF IInv, TypeOK, RunnerKnown, SuspectIsOrphan, ReapsOnlyOrphans, ReapDone
<1>5. CASE Evict
  <2>1. stored' \in SUBSET stored
    BY <1>5 DEF Evict
  <2>2. IsFiniteSet(stored') /\ Cardinality(stored') <= Cardinality(stored)
    BY <2>1, FS_Subset DEF IInv
  <2>3. Cardinality(stored) \in Nat /\ Cardinality(stored') \in Nat
    BY <2>2, FS_CardinalityType DEF IInv
  <2>4. snapshot = {} /\ suspect = NoJob
    BY <1>5 DEF IInv, SuspectIsOrphan, Evict
  <2>5. TypeOK'
    BY <1>5, <2>1, <2>2, <2>3, <2>4, LimitAssumption DEF IInv, TypeOK, Evict
  <2>. QED
    BY <1>5, <2>1, <2>2, <2>4, <2>5
    DEF IInv, RunnerKnown, SuspectIsOrphan, ReapsOnlyOrphans, Evict
<1>. QED  BY <1>1, <1>2, <1>3, <1>4, <1>5 DEF Cleanup

LEMMA StepInv == IInv /\ [Next]_vars => IInv'
<1> SUFFICES ASSUME IInv, [Next]_vars PROVE IInv'
  OBVIOUS
<1>1. CASE Next
  BY <1>1, CreateInv, RunnerInv, RequestInv, CleanupInv DEF Next
<1>2. CASE UNCHANGED vars
  BY <1>2 DEF vars, IInv, TypeOK, RunnerKnown, SuspectIsOrphan, ReapsOnlyOrphans
<1>. QED  BY <1>1, <1>2

(* The inductive invariant of the registry. *)
THEOREM InvariantHolds == Spec => []IInv
<1>1. Init => IInv
  BY InitInv
<1>2. IInv /\ [Next]_vars => IInv'
  BY StepInv
<1>. QED  BY <1>1, <1>2, PTL DEF Spec

(* Types, and the cap: create checks it under the lock it inserts under, and
   nothing else adds a job, so --max-jobs is never exceeded. *)
THEOREM CapKept == Spec => []TypeOK
<1>1. IInv => TypeOK
  BY DEF IInv
<1>. QED  BY <1>1, InvariantHolds, PTL

(* reap_orphans fails no job that has a runner, whatever runs between its look
   at the count and its look at the state. *)
THEOREM RunnersAreSpared == Spec => []ReapsOnlyOrphans
<1>1. IInv => ReapsOnlyOrphans
  BY DEF IInv
<1>. QED  BY <1>1, InvariantHolds, PTL

----------------------------------------------------------------------------
(* The metrics. *)

LEMMA LineFacts ==
  ASSUME NEW calls \in SUBSET Calls, NEW ends \in BOOLEAN, NEW parses \in BOOLEAN, NEW utf8 \in BOOLEAN
  PROVE  /\ Line(calls, ends, parses, utf8) \in Lines /\ Line(calls, ends, parses, utf8).calls = calls
         /\ Line(calls, ends, parses, utf8).ends = ends
         /\ Line(calls, ends, parses, utf8).parses = parses
         /\ Line(calls, ends, parses, utf8).utf8 = utf8
  BY DEF Line, Lines

(* What a write does to the lines: it adds one, or spoils the open last one. *)
LEMMA WriteFacts ==
  ASSUME NEW lines \in Seq(Lines), NEW line \in Lines
  PROVE  /\ Write(lines, line) \in Seq(Lines) /\ Write(lines, line) # <<>>
         /\ Len(Write(lines, line)) = IF Open(lines) THEN Len(lines) ELSE Len(lines) + 1
         /\ \A i \in DOMAIN lines : ~(Open(lines) /\ i = Len(lines)) => Write(lines, line)[i] = lines[i]
         /\ Open(lines) =>
              Write(lines, line)[Len(lines)] =
                Line(lines[Len(lines)].calls \cup line.calls, line.ends, FALSE,
                     lines[Len(lines)].utf8 /\ line.utf8)
         /\ ~Open(lines) => Write(lines, line)[Len(lines) + 1] = line
<1>1. CASE Open(lines)
  <2> DEFINE n == Len(lines)
             new == Line(lines[n].calls \cup line.calls, line.ends, FALSE,
                         lines[n].utf8 /\ line.utf8)
  <2>1. n \in DOMAIN lines /\ lines[n] \in Lines
    BY <1>1 DEF Open
  <2>2. new \in Lines
    BY <2>1 DEF Line, Lines
  <2>3. Write(lines, line) = [lines EXCEPT ![n] = new]
    BY <1>1 DEF Write, Line
  <2> HIDE DEF new
  <2>4. [lines EXCEPT ![n] = new] \in Seq(Lines)
    BY <2>1, <2>2
  <2>5. /\ Len([lines EXCEPT ![n] = new]) = n /\ [lines EXCEPT ![n] = new][n] = new
        /\ \A i \in DOMAIN lines : i # n => [lines EXCEPT ![n] = new][i] = lines[i]
    BY <2>1
  <2>6. Write(lines, line) # <<>>
    BY <2>1, <2>3, <2>4, <2>5
  <2>. QED  BY <1>1, <2>3, <2>4, <2>5, <2>6 DEF new
<1>2. CASE ~Open(lines)
  <2>1. Write(lines, line) = Append(lines, line)
    BY <1>2 DEF Write
  <2>2. /\ Append(lines, line) \in Seq(Lines) /\ Append(lines, line) # <<>>
        /\ Len(Append(lines, line)) = Len(lines) + 1
        /\ \A i \in DOMAIN lines : Append(lines, line)[i] = lines[i]
        /\ Append(lines, line)[Len(lines) + 1] = line
    OBVIOUS
  <2>. QED  BY <1>2, <2>1, <2>2
<1>. QED  BY <1>1, <1>2

(* Text joined by text stays text, and a line that ends closes the log. *)
LEMMA WriteText ==
  ASSUME NEW lines \in Seq(Lines), NEW line \in Lines, line.utf8,
         \A i \in DOMAIN lines : lines[i].utf8
  PROVE  /\ \A i \in DOMAIN Write(lines, line) : Write(lines, line)[i].utf8
         /\ line.ends => ~Open(Write(lines, line))
<1> DEFINE all == Write(lines, line)
           n == Len(lines)
           joined == Line(lines[n].calls \cup line.calls, line.ends, FALSE, lines[n].utf8 /\ line.utf8)
<1>1. /\ all \in Seq(Lines) /\ Len(all) = IF Open(lines) THEN n ELSE n + 1
      /\ \A i \in DOMAIN lines : ~(Open(lines) /\ i = n) => all[i] = lines[i]
      /\ Open(lines) => all[n] = joined
      /\ ~Open(lines) => all[n + 1] = line
  BY WriteFacts
<1>2. n \in Nat /\ DOMAIN lines = 1..n /\ (Open(lines) => n \in DOMAIN lines)
  BY DEF Open
<1>3. Open(lines) => joined.utf8 = TRUE /\ joined.ends = line.ends
  <2> HAVE Open(lines)
  <2>1. n \in DOMAIN lines /\ lines[n] \in Lines
    BY <1>2
  <2>2. lines[n].calls \cup line.calls \in SUBSET Calls /\ line.ends \in BOOLEAN
    BY <2>1 DEF Lines
  <2>3. (lines[n].utf8 /\ line.utf8) = TRUE
    BY <2>1
  <2>. QED  BY <2>2, <2>3, LineFacts
<1> HIDE DEF all, n, joined
<1>4. DOMAIN all = 1..Len(all)
  BY <1>1
<1>5. CASE Open(lines)
  <2>1. \A i \in 1..n : all[i].utf8
    BY <1>1, <1>2, <1>3, <1>5
  <2>2. Len(all) = n /\ all[n].ends = line.ends
    BY <1>1, <1>3, <1>5
  <2>3. line.ends => ~Open(all)
    BY <2>2 DEF Open
  <2>. QED  BY <1>4, <2>1, <2>2, <2>3 DEF all
<1>6. CASE ~Open(lines)
  <2>1. \A i \in 1..(n + 1) : all[i].utf8
    BY <1>1, <1>2, <1>6
  <2>2. Len(all) = n + 1 /\ all[n + 1] = line
    BY <1>1, <1>6
  <2>3. line.ends => ~Open(all)
    BY <2>2 DEF Open
  <2>. QED  BY <1>4, <2>1, <2>2, <2>3 DEF all
<1>. QED  BY <1>5, <1>6

(* The rows before a write and after it. *)
LEMMA WriteRows ==
  ASSUME NEW lines \in Seq(Lines), NEW c \in Calls, NEW line \in Lines, line.calls = {c},
         \A i \in DOMAIN lines : ~lines[i].ends => i = Len(lines)
  PROVE  /\ ReadLog(Write(lines, line)) \subseteq ReadLog(lines) \cup {c}
         /\ ~Open(lines) => ReadLog(lines) \subseteq ReadLog(Write(lines, line))
         /\ Open(lines) => ReadLog(lines) \ lines[Len(lines)].calls \subseteq ReadLog(Write(lines, line))
         /\ ~Open(lines) /\ line.parses /\ line.utf8 /\ (\A i \in DOMAIN lines : lines[i].utf8)
              => c \in ReadLog(Write(lines, line))
<1> DEFINE all == Write(lines, line)
           n == Len(lines)
<1>1. /\ all \in Seq(Lines) /\ Len(all) = IF Open(lines) THEN n ELSE n + 1
      /\ \A i \in DOMAIN lines : ~(Open(lines) /\ i = n) => all[i] = lines[i]
      /\ Open(lines) => ~all[n].parses
      /\ ~Open(lines) => all[n + 1] = line
  <2>0. Open(lines) => all[n] = Line(lines[n].calls \cup line.calls, line.ends, FALSE,
                                     lines[n].utf8 /\ line.utf8)
    BY WriteFacts
  <2>1. Open(lines) => all[n].parses = FALSE
    BY <2>0 DEF Line
  <2>. QED  BY <2>1, WriteFacts
<1>2. n \in Nat /\ DOMAIN lines = 1..n /\ (Open(lines) => n > 0)
  BY DEF Open
<1> HIDE DEF all, n
<1>3. DOMAIN all = IF Open(lines) THEN 1..n ELSE 1..(n + 1)
  BY <1>1, <1>2
<1>4. \A i \in Rows(all) : \/ i \in Rows(lines) /\ all[i] = lines[i]
                           \/ all[i] = line
  <2> TAKE i \in Rows(all)
  <2>1. i \in DOMAIN all /\ all[i].parses /\ \A j \in 1..i : all[j].utf8
    BY DEF Rows
  <2>2. CASE i = n + 1 /\ ~Open(lines)
    BY <1>1, <2>2
  <2>3. CASE i \in 1..n /\ ~(Open(lines) /\ i = n)
    <3>1. \A j \in 1..i : j \in DOMAIN lines /\ all[j] = lines[j]
      BY <1>1, <1>2, <2>3
    <3>2. i \in Rows(lines)
      BY <1>2, <2>1, <2>3, <3>1 DEF Rows
    <3>. QED  BY <1>2, <2>3, <3>1, <3>2
  <2>. QED  BY <1>1, <1>2, <1>3, <2>1, <2>2, <2>3
<1>5. \A i \in Rows(lines) : ~(Open(lines) /\ i = n) => i \in Rows(all) /\ all[i] = lines[i]
  <2> TAKE i \in Rows(lines)
  <2> HAVE ~(Open(lines) /\ i = n)
  <2>1. i \in 1..n /\ lines[i].parses /\ \A j \in 1..i : lines[j].utf8
    BY <1>2 DEF Rows
  <2>2. \A j \in 1..i : j \in DOMAIN lines /\ all[j] = lines[j] /\ j \in DOMAIN all
    BY <1>1, <1>2, <1>3, <2>1
  <2>. QED  BY <1>2, <2>1, <2>2 DEF Rows
<1>6. ~Open(lines) /\ line.parses /\ line.utf8 /\ (\A i \in DOMAIN lines : lines[i].utf8)
        => n + 1 \in Rows(all) /\ all[n + 1] = line
  <2> HAVE ~Open(lines) /\ line.parses /\ line.utf8 /\ (\A i \in DOMAIN lines : lines[i].utf8)
  <2>1. \A j \in 1..(n + 1) : all[j].utf8
    BY <1>1, <1>2
  <2>. QED  BY <1>1, <1>2, <1>3, <2>1 DEF Rows
<1>7. ReadLog(all) \subseteq ReadLog(lines) \cup {c}
  BY <1>4 DEF ReadLog
<1>8. ~Open(lines) => ReadLog(lines) \subseteq ReadLog(all)
  BY <1>5 DEF ReadLog
<1>9. Open(lines) => ReadLog(lines) \ lines[n].calls \subseteq ReadLog(all)
  BY <1>5 DEF ReadLog
<1>10. n + 1 \in Rows(all) /\ all[n + 1] = line => c \in ReadLog(all)
  BY DEF ReadLog
<1>. QED  BY <1>6, <1>7, <1>8, <1>9, <1>10 DEF all, n

(* Whatever is read is a call that was recorded, whole or not. *)
LEMMA LoggedKnown ==
  ASSUME StoreTypeOK, LogInv
  PROVE  Logged \subseteq acked \cup torn /\ Logged \subseteq Calls
  BY DEF StoreTypeOK, LogInv, Logged, ReadLog, Rows

LEMMA StoreInitInv == StoreInit => StoreInv
<1> SUFFICES ASSUME StoreInit PROVE StoreInv
  OBVIOUS
<1>1. 0 \in Days
  BY MetricsAssumption DEF Days
<1>2. StoreTypeOK
  BY <1>1, MetricsAssumption DEF StoreInit, StoreTypeOK
<1>3. LogInv /\ CompactInv
  BY DEF StoreInit, LogInv, CompactInv, Locked
<1>4. \A d \in Days : Partition(d) = {}
  BY DEF StoreInit, Partition
<1>5. ArchiveInv /\ OnceInv
  BY <1>4 DEF StoreInit, ArchiveInv, OnceInv, Archived
<1>. QED  BY <1>2, <1>3, <1>5 DEF StoreInv

(* A step that leaves files and compaction alone, or nearly so. *)
LEMMA ArchiveStays ==
  ASSUME UNCHANGED archive
  PROVE  Archived' = Archived /\ \A d \in Days : Partition(d)' = Partition(d)
  BY DEF Archived, Partition

(* A record, whole or torn, while the lock is free. *)
LEMMA WriteInv ==
  ASSUME StoreInv, NEW c \in Calls, NEW d \in Days, NEW line \in Lines, line.calls = {c},
         ~Locked, Started(c, d), UNCHANGED <<archive, today, rollupVars, broken>>,
         log' = log \/ log' = Write(log, line),
         \/ acked' = acked \cup {c} /\ torn' = torn /\ line.ends
         \/ acked' = acked /\ torn' = torn \cup {c},
         faults' \in 0..MaxFaults, split' \in BOOLEAN
  PROVE  StoreInv'
<1> DEFINE n == Len(log)
<1>1. StoreTypeOK /\ LogInv /\ ArchiveInv /\ OnceInv /\ c \in pending
  BY DEF StoreInv, Started
<1>2. log' \in Seq(Lines)
  BY <1>1, WriteFacts DEF StoreTypeOK
<1>3. /\ c \notin acked /\ c \notin torn /\ acked' \cup torn' = acked \cup torn \cup {c}
      /\ acked' \cap torn' = {} /\ torn \subseteq torn' /\ (~line.ends => c \in torn')
      /\ day' = [day EXCEPT ![c] = d] /\ pending' = pending \ {c}
  BY <1>1 DEF StoreTypeOK, Started
<1>4. StoreTypeOK'
  BY <1>1, <1>2, <1>3 DEF StoreTypeOK, rollupVars
<1>5. LogInv'
  <2>1. CASE log' = log
    BY <1>1, <1>3, <2>1 DEF LogInv
  <2>2. CASE log' = Write(log, line) /\ Open(log)
    <3>1. /\ n \in DOMAIN log /\ DOMAIN log' = DOMAIN log /\ Len(log') = n
          /\ \A i \in DOMAIN log : i # n => log'[i] = log[i]
          /\ log'[n].calls = log[n].calls \cup {c} /\ log'[n].ends = line.ends
          /\ ~log'[n].parses
      <4>1. n \in DOMAIN log
        BY <1>1, <2>2 DEF StoreTypeOK, Open
      <4>2. /\ log \in Seq(Lines)
            /\ log'[n] = Line(log[n].calls \cup line.calls, line.ends, FALSE, log[n].utf8 /\ line.utf8)
            /\ Len(log') = n /\ \A i \in DOMAIN log : i # n => log'[i] = log[i]
        BY <1>1, <2>2, WriteFacts DEF StoreTypeOK
      <4>. QED  BY <1>2, <4>1, <4>2 DEF Line
    <3>2. ~log[n].ends
      BY <2>2 DEF Open
    <3>3. log[n].calls \subseteq torn
      BY <1>1, <3>1, <3>2 DEF LogInv
    <3>4. \A i \in DOMAIN log : c \notin log[i].calls
      BY <1>1, <1>3 DEF LogInv
    <3>. QED  BY <1>1, <1>3, <3>1, <3>3, <3>4 DEF LogInv
  <2>3. CASE log' = Write(log, line) /\ ~Open(log)
    <3>1. /\ n \in Nat /\ DOMAIN log = 1..n /\ DOMAIN log' = 1..(n + 1) /\ Len(log') = n + 1
          /\ \A i \in 1..n : log'[i] = log[i]
          /\ log'[n + 1] = line
      <4>1. log \in Seq(Lines)
        BY <1>1 DEF StoreTypeOK
      <4>2. /\ Len(log') = n + 1 /\ log'[n + 1] = line
            /\ \A i \in DOMAIN log : log'[i] = log[i]
        BY <2>3, <4>1, WriteFacts
      <4>. QED  BY <1>2, <4>1, <4>2
    <3>2. \A i \in 1..n : log[i].ends
      BY <1>1, <2>3, <3>1 DEF LogInv, Open
    <3>3. \A i \in 1..n : c \notin log[i].calls
      BY <1>1, <1>3, <3>1 DEF LogInv
    <3> HIDE DEF n
    <3>4. \A i \in DOMAIN log' : i \in 1..n \/ i = n + 1
      BY <3>1
    <3>. QED  BY <1>1, <1>3, <3>1, <3>2, <3>3, <3>4 DEF LogInv
  <2>. QED  BY <2>1, <2>2, <2>3
<1>6. Archived' = Archived /\ \A e \in Days : Partition(e)' = Partition(e)
  BY ArchiveStays
<1>7. \A x \in Archived : x \in acked \cup torn
  BY <1>1 DEF ArchiveInv, Archived
<1>8. ArchiveInv'
  BY <1>1, <1>3, <1>6, <1>7 DEF ArchiveInv, Archived, StoreTypeOK
<1>9. Locked' <=> Locked
  BY DEF Locked, rollupVars
<1>10. CompactInv'
  <2>1. CompactInv
    BY DEF StoreInv
  <2>. QED  BY <1>9, <2>1 DEF CompactInv, Locked
<1>11. Logged' \subseteq Logged \cup {c}
  <2>1. log \in Seq(Lines) /\ \A i \in DOMAIN log : ~log[i].ends => i = Len(log)
    BY <1>1 DEF StoreTypeOK, LogInv
  <2>. QED  BY <2>1, WriteRows DEF Logged
<1>12. OnceInv'
  <2>1. c \notin Archived
    BY <1>3, <1>7
  <2>. QED  BY <1>1, <1>6, <1>11, <2>1 DEF OnceInv
<1>. QED  BY <1>4, <1>5, <1>8, <1>10, <1>12 DEF StoreInv

LEMMA RecordInv ==
  ASSUME StoreInv, NEW c \in Calls, NEW d \in Days, Record(c, d)
  PROVE  StoreInv'
<1> DEFINE line == Line({c}, TRUE, TRUE, TRUE)
<1>1. line \in Lines /\ line.calls = {c} /\ line.ends
  BY DEF Line, Lines
<1>2. /\ ~Locked /\ Started(c, d) /\ log' = Write(log, line) /\ acked' = acked \cup {c}
      /\ torn' = torn /\ UNCHANGED <<archive, today, rollupVars, broken, split>> /\ faults' = faults
  BY DEF Record, AppendLine
<1>3. faults \in 0..MaxFaults /\ split \in BOOLEAN
  BY DEF StoreInv, StoreTypeOK
<1> HIDE DEF line
<1>. QED  BY <1>1, <1>2, <1>3, WriteInv

LEMMA TearInv ==
  ASSUME StoreInv, NEW c \in Calls, NEW d \in Days, Tear(c, d)
  PROVE  StoreInv'
<1>1. /\ ~Locked /\ Started(c, d) /\ acked' = acked /\ torn' = torn \cup {c}
      /\ UNCHANGED <<archive, today, rollupVars, broken>>
  BY DEF Tear
<1>2. faults' \in 0..MaxFaults /\ split' \in BOOLEAN
  <2>1. faults' \in 0..MaxFaults
    BY MetricsAssumption DEF StoreInv, StoreTypeOK, Tear, Fault
  <2>2. split' = split \/ split' = TRUE
    BY DEF Tear
  <2>3. split \in BOOLEAN
    BY DEF StoreInv, StoreTypeOK
  <2>. QED  BY <2>1, <2>2, <2>3, Zenon
<1>3. PICK line \in Lines : line.calls = {c} /\ (log' = log \/ log' = Write(log, line))
  <2>1. \A whole, utf8 \in BOOLEAN :
          Line({c}, FALSE, whole, utf8) \in Lines /\ Line({c}, FALSE, whole, utf8).calls = {c}
    BY DEF Line, Lines
  <2>2. \/ log' = log
        \/ \E whole, utf8 \in BOOLEAN : log' = Write(log, Line({c}, FALSE, whole, utf8))
    BY DEF Tear
  <2>. QED  BY <2>1, <2>2
<1>. QED  BY <1>1, <1>2, <1>3, WriteInv

(* The day turns, or the rollup task takes note of it. *)
LEMMA ClockInv ==
  ASSUME StoreInv, NextDay \/ RollupTick
  PROVE  StoreInv'
<1>1. UNCHANGED <<fileVars, callVars, groups, records, faults, broken, split>>
  BY DEF NextDay, RollupTick, rollupVars
<1>2. Archived' = Archived /\ \A e \in Days : Partition(e)' = Partition(e)
  BY <1>1, ArchiveStays DEF fileVars
<1>3. StoreTypeOK'
  <2>1. CASE NextDay
    <3>1. today' \in Days /\ cutoff' \in 0..today' /\ cutoff' = cutoff /\ rollup' = rollup
      BY <2>1, MetricsAssumption DEF StoreInv, StoreTypeOK, NextDay, Days, rollupVars
    <3>. QED  BY <1>1, <3>1 DEF StoreInv, StoreTypeOK, fileVars, callVars
  <2>2. CASE RollupTick
    <3>1. /\ today' = today /\ cutoff' = today /\ rollup' = "waiting" /\ today \in Nat
          /\ cutoff \in 0..today
      BY <2>2, MetricsAssumption DEF StoreInv, StoreTypeOK, RollupTick, Days
    <3>2. cutoff' \in 0..today' /\ groups \in SUBSET (0..(cutoff' - 1))
      BY <3>1 DEF StoreInv, StoreTypeOK
    <3>. QED  BY <1>1, <3>1, <3>2 DEF StoreInv, StoreTypeOK, fileVars, callVars
  <2>. QED  BY <2>1, <2>2
<1>4. LogInv' /\ ArchiveInv'
  BY <1>1, <1>2 DEF StoreInv, LogInv, ArchiveInv, fileVars, callVars
<1>5. Logged' = Logged
  BY <1>1 DEF Logged, fileVars
<1>6. CASE NextDay
  <2>1. cutoff' = cutoff /\ rollup' = rollup /\ day' = day
    BY <1>6 DEF NextDay, rollupVars, callVars
  <2>2. CompactInv' /\ OnceInv'
    BY <1>1, <1>2, <1>5, <2>1 DEF StoreInv, CompactInv, OnceInv, Locked, Past, fileVars
  <2>. QED  BY <1>3, <1>4, <2>2 DEF StoreInv
<1>7. CASE RollupTick
  <2>1. ~Locked /\ ~Locked' /\ rollup' # "rewriting"
    BY <1>7 DEF RollupTick, Locked
  <2>2. CompactInv' /\ OnceInv'
    BY <1>1, <1>2, <1>5, <2>1 DEF StoreInv, CompactInv, OnceInv, fileVars
  <2>. QED  BY <1>3, <1>4, <2>2 DEF StoreInv
<1>. QED  BY <1>6, <1>7

LEMMA CompactStepInv ==
  ASSUME StoreInv, Compact
  PROVE  StoreInv'
<1> DEFINE days == {day[c] : c \in Past(Logged)}
<1>1. /\ UNCHANGED <<fileVars, today, callVars, cutoff, faults, broken, split>>
      /\ \/ rollup' = "idle" /\ UNCHANGED <<records, groups>>
         \/ rollup' = "sealing" /\ records' = log /\ groups' = days
      /\ ~Locked
  BY DEF Compact, Locked
<1>2. Archived' = Archived /\ \A e \in Days : Partition(e)' = Partition(e)
  BY <1>1, ArchiveStays DEF fileVars
<1>3. days \in SUBSET (0..(cutoff - 1))
  <2>1. Logged \subseteq Calls
    BY LoggedKnown DEF StoreInv
  <2>2. cutoff \in Nat /\ \A c \in Calls : day[c] \in Nat
    BY MetricsAssumption DEF StoreInv, StoreTypeOK, Days
  <2>. QED  BY <2>1, <2>2 DEF Past
<1>4. StoreTypeOK'
  BY <1>1, <1>3 DEF StoreInv, StoreTypeOK, fileVars, callVars
<1>5. LogInv' /\ ArchiveInv' /\ Logged' = Logged /\ Past(Logged)' = Past(Logged)
  BY <1>1, <1>2 DEF StoreInv, LogInv, ArchiveInv, fileVars, callVars, Logged, Past
<1>6. CompactInv'
  BY <1>1, <1>5 DEF CompactInv, Locked, fileVars, callVars
<1>7. OnceInv'
  BY <1>1, <1>2, <1>5 DEF StoreInv, OnceInv, fileVars
<1>. QED  BY <1>4, <1>5, <1>6, <1>7 DEF StoreInv

(* A seal adds a file with the rows of a day, and takes nothing away. *)
LEMMA SealFacts ==
  ASSUME StoreTypeOK, NEW d \in Days, Seal(d)
  PROVE  /\ archive' \in [Days -> Seq(SUBSET Calls)]
         /\ \A e \in Days \ {d} : archive'[e] = archive[e]
         /\ DOMAIN archive'[d] = 1..(Len(archive[d]) + 1)
         /\ \A i \in DOMAIN archive[d] : archive'[d][i] = archive[d][i]
         /\ archive'[d][Len(archive[d]) + 1] = Batch(d)
         /\ Partition(d)' = Partition(d) \cup Batch(d)
         /\ \A e \in Days \ {d} : Partition(e)' = Partition(e)
         /\ Archived' = Archived \cup Batch(d)
<1> DEFINE n == Len(archive[d])
<1>1. Batch(d) \in SUBSET Calls
  <2>1. \A i \in DOMAIN records : records[i] \in Lines
    BY DEF StoreTypeOK
  <2>2. \A i \in DOMAIN records : records[i].calls \subseteq Calls
    BY <2>1 DEF Lines
  <2>. QED  BY <2>2 DEF Batch, ReadLog, Rows
<1>2. /\ archive[d] \in Seq(SUBSET Calls) /\ DOMAIN archive[d] = 1..n /\ n \in Nat
      /\ archive' = [archive EXCEPT ![d] = Append(archive[d], Batch(d))]
      /\ DOMAIN archive = Days
  BY DEF StoreTypeOK, Seal
<1>3. /\ Append(archive[d], Batch(d)) \in Seq(SUBSET Calls)
      /\ Len(Append(archive[d], Batch(d))) = n + 1
      /\ \A i \in 1..n : Append(archive[d], Batch(d))[i] = archive[d][i]
      /\ Append(archive[d], Batch(d))[n + 1] = Batch(d)
  BY <1>1, <1>2
<1>4. archive' \in [Days -> Seq(SUBSET Calls)]
  BY <1>2, <1>3 DEF StoreTypeOK
<1>5. archive'[d] = Append(archive[d], Batch(d)) /\ \A e \in Days \ {d} : archive'[e] = archive[e]
  BY <1>2
<1>6. DOMAIN archive'[d] = 1..(n + 1)
  BY <1>3, <1>5
<1>7. /\ \A i \in 1..n : archive'[d][i] = archive[d][i]
      /\ archive'[d][n + 1] = Batch(d)
  BY <1>3, <1>5
<1> HIDE DEF n
<1>8. Partition(d)' = Partition(d) \cup Batch(d)
  <2>1. Partition(d)' \subseteq Partition(d) \cup Batch(d)
    <3> SUFFICES ASSUME NEW i \in DOMAIN archive'[d]
                 PROVE  archive'[d][i] \subseteq Partition(d) \cup Batch(d)
      BY DEF Partition
    <3>1. CASE i \in 1..n
      BY <1>2, <1>7, <3>1 DEF Partition
    <3>2. CASE i = n + 1
      BY <1>7, <3>2
    <3>. QED  BY <1>2, <1>6, <3>1, <3>2
  <2>2. Partition(d) \subseteq Partition(d)'
    <3> SUFFICES ASSUME NEW i \in DOMAIN archive[d]
                 PROVE  archive[d][i] \subseteq Partition(d)'
      BY DEF Partition
    <3>1. i \in DOMAIN archive'[d] /\ archive'[d][i] = archive[d][i]
      BY <1>2, <1>6, <1>7
    <3>. QED  BY <3>1 DEF Partition
  <2>3. Batch(d) \subseteq Partition(d)'
    <3>1. n + 1 \in DOMAIN archive'[d]
      BY <1>2, <1>6
    <3>. QED  BY <1>7, <3>1 DEF Partition
  <2>. QED  BY <2>1, <2>2, <2>3
<1>9. \A e \in Days \ {d} : Partition(e)' = Partition(e)
  BY <1>5 DEF Partition
<1>10. Archived' = Archived \cup Batch(d)
  BY <1>8, <1>9 DEF Archived
<1>. QED  BY <1>2, <1>4, <1>5, <1>6, <1>7, <1>8, <1>9, <1>10 DEF n

LEMMA SealInv ==
  ASSUME StoreInv, NEW d \in Days, Seal(d)
  PROVE  StoreInv'
<1> DEFINE n == Len(archive[d])
<1>1. /\ StoreTypeOK /\ LogInv /\ ArchiveInv /\ CompactInv /\ OnceInv /\ Locked /\ records = log
      /\ rollup = "sealing" /\ d \in groups /\ groups' = groups \ {d}
      /\ rollup' = IF groups = {d} THEN "rewriting" ELSE "sealing"
      /\ UNCHANGED <<log, today, callVars, cutoff, records, faults, broken, split>>
  BY DEF StoreInv, Seal, Sealed, NextGroup, Locked, CompactInv
<1>2. Locked'
  BY <1>1 DEF Locked
<1>3. /\ archive' \in [Days -> Seq(SUBSET Calls)]
      /\ \A e \in Days \ {d} : archive'[e] = archive[e]
      /\ DOMAIN archive'[d] = 1..(n + 1)
      /\ \A i \in DOMAIN archive[d] : archive'[d][i] = archive[d][i]
      /\ archive'[d][n + 1] = Batch(d)
      /\ Partition(d)' = Partition(d) \cup Batch(d)
      /\ \A e \in Days \ {d} : Partition(e)' = Partition(e)
      /\ Archived' = Archived \cup Batch(d)
  BY <1>1, SealFacts
<1>4. n \in Nat /\ DOMAIN archive[d] = 1..n
  BY <1>1 DEF StoreTypeOK
<1> HIDE DEF n
<1>5. StoreTypeOK'
  BY <1>1, <1>3 DEF StoreTypeOK, callVars
<1>6. LogInv'
  BY <1>1 DEF LogInv, callVars
<1>7. /\ Batch(d) = {c \in Logged : day[c] = d} /\ Batch(d) \subseteq Past(Logged)
      /\ Logged' = Logged /\ Past(Logged)' = Past(Logged)
  <2>1. d < cutoff
    BY <1>1, MetricsAssumption DEF StoreTypeOK, Days
  <2>. QED  BY <1>1, <2>1 DEF Batch, Logged, Past, callVars
<1>8. ArchiveInv'
  <2>1. \A c \in Batch(d) : c \in acked \cup torn /\ day[c] = d
    BY <1>1, <1>7, LoggedKnown
  <2>. QED  BY <1>1, <1>3, <2>1 DEF ArchiveInv, callVars
<1>9. CompactInv'
  <2>1. records' = log' /\ (rollup' = "rewriting" => groups' = {})
    BY <1>1
  <2>2. \A c \in Past(Logged) : day[c] \in groups' \/ c \in Archived'
    <3> TAKE c \in Past(Logged)
    <3>1. day[c] \in groups \/ c \in Archived
      BY <1>1 DEF CompactInv
    <3>2. CASE day[c] = d
      BY <1>3, <1>7, <3>2 DEF Past
    <3>. QED  BY <1>1, <1>3, <3>1, <3>2
  <2>. QED  BY <1>1, <1>7, <2>1, <2>2 DEF CompactInv, callVars
<1>10. OnceInv'
  <2> SUFFICES ASSUME ~broken
               PROVE  /\ \A e, f \in Days : \A i \in DOMAIN archive'[e], j \in DOMAIN archive'[f] :
                           <<e, i>> # <<f, j>> => archive'[e][i] \cap archive'[f][j] = {}
                      /\ \A c \in Logged' \cap Archived' :
                           Locked' /\ c \in Past(Logged)' /\ day'[c] \notin groups'
    BY <1>1 DEF OnceInv
  <2>1. Batch(d) \cap Archived = {}
    BY <1>1, <1>7 DEF OnceInv
  <2>2. \A e \in Days : \A i \in DOMAIN archive[e] : archive[e][i] \subseteq Archived
    BY DEF Archived, Partition
  <2>3. ASSUME NEW e \in Days, NEW i \in DOMAIN archive'[e]
        PROVE  \/ i \in DOMAIN archive[e] /\ archive'[e][i] = archive[e][i]
               \/ e = d /\ i = n + 1 /\ archive'[e][i] = Batch(d)
    <3>1. CASE e = d
      BY <1>3, <1>4, <2>3, <3>1
    <3>2. CASE e # d
      BY <1>3, <2>3, <3>2
    <3>. QED  BY <3>1, <3>2
  <2>4. ASSUME NEW e \in Days, NEW f \in Days, NEW i \in DOMAIN archive'[e],
               NEW j \in DOMAIN archive'[f], <<e, i>> # <<f, j>>
        PROVE  archive'[e][i] \cap archive'[f][j] = {}
    <3>1. CASE i \in DOMAIN archive[e] /\ archive'[e][i] = archive[e][i]
               /\ j \in DOMAIN archive[f] /\ archive'[f][j] = archive[f][j]
      BY <1>1, <2>4, <3>1 DEF OnceInv
    <3>2. CASE i \in DOMAIN archive[e] /\ archive'[e][i] = archive[e][i]
               /\ f = d /\ j = n + 1 /\ archive'[f][j] = Batch(d)
      BY <2>1, <2>2, <3>2
    <3>3. CASE e = d /\ i = n + 1 /\ archive'[e][i] = Batch(d)
               /\ j \in DOMAIN archive[f] /\ archive'[f][j] = archive[f][j]
      BY <2>1, <2>2, <3>3
    <3>. QED  BY <2>3, <2>4, <3>1, <3>2, <3>3
  <2>5. \A c \in Logged' \cap Archived' :
          Locked' /\ c \in Past(Logged)' /\ day'[c] \notin groups'
    <3> TAKE c \in Logged' \cap Archived'
    <3>1. CASE c \in Batch(d)
      BY <1>1, <1>2, <1>7, <3>1 DEF callVars
    <3>2. CASE c \in Archived
      BY <1>1, <1>2, <1>7, <3>2 DEF OnceInv, callVars
    <3>. QED  BY <1>3, <3>1, <3>2
  <2>. QED  BY <2>4, <2>5
<1>. QED  BY <1>5, <1>6, <1>8, <1>9, <1>10 DEF StoreInv

(* The log is rewritten with the rows that are not past, in their order. *)
LEMMA RewriteFacts ==
  ASSUME StoreInv, Rewrite
  PROVE  /\ Locked /\ rollup' = "idle" /\ records' = <<>> /\ groups = {}
         /\ UNCHANGED <<archive, today, callVars, cutoff, groups, faults, broken, split>>
         /\ log' \in Seq(Lines)
         /\ \A k \in DOMAIN log' : log'[k].ends /\ log'[k].utf8 /\ log'[k].parses
         /\ \A k \in DOMAIN log' : \E i \in DOMAIN log :
              log'[k].calls = log[i].calls /\ log[i].parses
         /\ \A k, l \in DOMAIN log' : k # l => log'[k].calls \cap log'[l].calls = {}
         /\ Logged' = Logged \ Past(Logged)
<1>1. /\ StoreTypeOK /\ LogInv /\ CompactInv /\ Locked /\ records = log /\ rollup' = "idle"
      /\ groups = {} /\ records' = <<>>
      /\ UNCHANGED <<archive, today, callVars, cutoff, groups, faults, broken, split>>
  BY DEF StoreInv, Rewrite, RewriteAs, Locked, CompactInv
<1>2. PICK rows \in Orders(Kept) :
        log' = [k \in DOMAIN rows |-> Line(log[rows[k]].calls, TRUE, TRUE, TRUE)]
  BY <1>1 DEF Rewrite, RewriteAs
<1> DEFINE n == Cardinality(Kept)
<1>3. Kept \subseteq Rows(log) /\ Rows(log) \subseteq DOMAIN log
  BY <1>1 DEF Kept, Rows
<1>4. n \in Nat
  <2>1. DOMAIN log = 1..Len(log) /\ Len(log) \in Nat
    BY <1>1 DEF StoreTypeOK
  <2>2. IsFiniteSet(DOMAIN log)
    BY <2>1, FS_Interval
  <2>. QED  BY <1>3, <2>2, FS_Subset, FS_CardinalityType
<1>5. /\ rows \in [1..n -> Kept] /\ \A i \in Kept : \E k \in DOMAIN rows : rows[k] = i
      /\ \A i, j \in DOMAIN rows : i < j => rows[i] < rows[j]
  BY DEF Orders
<1> HIDE DEF n
<1>6. \A i \in DOMAIN log : log[i] \in Lines /\ log[i].calls \subseteq Calls
  <2>1. \A i \in DOMAIN log : log[i] \in Lines
    BY <1>1 DEF StoreTypeOK
  <2>. QED  BY <2>1 DEF Lines
<1>7. DOMAIN log' = 1..n /\ DOMAIN rows = 1..n
  BY <1>2, <1>5
<1>8. \A k \in 1..n : /\ rows[k] \in Kept /\ rows[k] \in DOMAIN log
                      /\ log'[k] = Line(log[rows[k]].calls, TRUE, TRUE, TRUE)
  BY <1>2, <1>3, <1>5, <1>7
<1>9. \A k \in 1..n : /\ log'[k] \in Lines /\ log'[k].calls = log[rows[k]].calls
                      /\ log'[k].ends /\ log'[k].utf8 /\ log'[k].parses
  <2> TAKE k \in 1..n
  <2>1. log[rows[k]].calls \in SUBSET Calls /\ log'[k] = Line(log[rows[k]].calls, TRUE, TRUE, TRUE)
    BY <1>6, <1>8
  <2>2. /\ Line(log[rows[k]].calls, TRUE, TRUE, TRUE) \in Lines
        /\ Line(log[rows[k]].calls, TRUE, TRUE, TRUE).calls = log[rows[k]].calls
        /\ Line(log[rows[k]].calls, TRUE, TRUE, TRUE).ends
        /\ Line(log[rows[k]].calls, TRUE, TRUE, TRUE).utf8
        /\ Line(log[rows[k]].calls, TRUE, TRUE, TRUE).parses
    BY <2>1, LineFacts
  <2>. QED  BY <2>1, <2>2
<1>10. log' \in Seq(Lines)
  <2>1. log' \in [1..n -> Lines]
    BY <1>2, <1>7, <1>9
  <2>. QED  BY <1>4, <2>1
<1>11. \A k, l \in 1..n : k # l => rows[k] # rows[l]
  <2>0. DOMAIN log \subseteq Nat
    BY <1>1 DEF StoreTypeOK
  <2>1. \A k \in 1..n : rows[k] \in Nat
    BY <2>0, <1>8
  <2>2. \A k, l \in 1..n : k < l => rows[k] < rows[l]
    BY <1>5, <1>7
  <2>. QED  BY <1>4, <2>1, <2>2
<1>12. \A k, l \in 1..n : k # l => log'[k].calls \cap log'[l].calls = {}
  <2> TAKE k, l \in 1..n
  <2> HAVE k # l
  <2>1. rows[k] \in DOMAIN log /\ rows[l] \in DOMAIN log /\ rows[k] # rows[l]
    BY <1>8, <1>11
  <2>2. log[rows[k]].calls \cap log[rows[l]].calls = {}
    BY <1>1, <2>1 DEF LogInv
  <2>. QED  BY <1>9, <2>2
<1>13. \A k \in DOMAIN log' : \E i \in DOMAIN log : log'[k].calls = log[i].calls /\ log[i].parses
  BY <1>3, <1>7, <1>8, <1>9 DEF Rows
<1>14. Logged' = UNION {log[i].calls : i \in Kept}
  <2>1. Rows(log') = 1..n
    BY <1>4, <1>7, <1>9 DEF Rows
  <2>2. Logged' = UNION {log'[k].calls : k \in 1..n}
    BY <2>1 DEF Logged, ReadLog
  <2>3. \A k \in 1..n : rows[k] \in Kept /\ log'[k].calls = log[rows[k]].calls
    BY <1>8, <1>9
  <2>4. \A i \in Kept : \E k \in 1..n : rows[k] = i
    BY <1>5, <1>7
  <2>. QED  BY <2>2, <2>3, <2>4
<1>15. UNION {log[i].calls : i \in Kept} = Logged \ Past(Logged)
  <2>1. \A i \in Rows(log) : i \in DOMAIN log /\ \E c \in Calls : log[i].calls = {c}
    BY <1>1 DEF Rows, LogInv
  <2>2. cutoff \in Int /\ \A c \in Calls : day[c] \in Int
    BY <1>1 DEF StoreTypeOK, Days
  <2>3. \A i \in Rows(log) : i \in Kept <=> \A c \in log[i].calls : ~(day[c] < cutoff)
    <3> TAKE i \in Rows(log)
    <3>1. PICK c \in Calls : log[i].calls = {c}
      BY <2>1
    <3>2. day[c] >= cutoff <=> ~(day[c] < cutoff)
      BY <2>2
    <3>3. i \in Kept <=> day[c] >= cutoff
      BY <1>1, <3>1 DEF Kept
    <3>4. i \in Kept => \A x \in log[i].calls : ~(day[x] < cutoff)
      BY <3>1, <3>2, <3>3
    <3>5. (\A x \in log[i].calls : ~(day[x] < cutoff)) => i \in Kept
      BY <3>1, <3>2, <3>3
    <3>. QED  BY <3>4, <3>5
  <2>4. \A i \in Kept : \A c \in log[i].calls : c \in Logged /\ c \notin Past(Logged)
    BY <1>3, <2>3 DEF Logged, ReadLog, Past
  <2>5. \A c \in Logged \ Past(Logged) : \E i \in Kept : c \in log[i].calls
    <3> TAKE c \in Logged \ Past(Logged)
    <3>1. PICK i \in Rows(log) : c \in log[i].calls
      BY DEF Logged, ReadLog
    <3>2. log[i].calls = {c} /\ ~(day[c] < cutoff)
      BY <2>1, <3>1 DEF Past
    <3>. QED  BY <2>3, <3>1, <3>2
  <2>. QED  BY <2>4, <2>5
<1>. QED  BY <1>1, <1>7, <1>9, <1>10, <1>12, <1>13, <1>14, <1>15

LEMMA RewriteInv ==
  ASSUME StoreInv, Rewrite
  PROVE  StoreInv'
<1>1. StoreTypeOK /\ LogInv /\ ArchiveInv /\ CompactInv /\ OnceInv
  BY DEF StoreInv
<1>2. Archived' = Archived /\ \A e \in Days : Partition(e)' = Partition(e)
  BY RewriteFacts, ArchiveStays
<1>3. StoreTypeOK'
  <2>1. <<>> \in Seq(Lines)
    OBVIOUS
  <2>. QED  BY <1>1, <2>1, RewriteFacts DEF StoreTypeOK, callVars
<1>4. LogInv'
  <2>1. \A k \in DOMAIN log' :
          /\ log'[k].calls # {} /\ log'[k].calls \subseteq acked \cup torn
          /\ \E c \in Calls : log'[k].calls = {c}
    BY <1>1, RewriteFacts DEF LogInv
  <2>. QED  BY <2>1, RewriteFacts DEF LogInv, callVars
<1>5. ArchiveInv'
  BY <1>1, <1>2, RewriteFacts DEF ArchiveInv, callVars
<1>6. CompactInv'
  BY RewriteFacts DEF CompactInv, Locked
<1>7. OnceInv'
  <2>1. ~broken => Logged' \cap Archived' = {}
    BY <1>1, <1>2, RewriteFacts DEF OnceInv
  <2>. QED  BY <1>1, <2>1, RewriteFacts DEF OnceInv
<1>. QED  BY <1>3, <1>4, <1>5, <1>6, <1>7 DEF StoreInv

(* A compaction that fails or dies: the files stay as they are. *)
LEMMA InterruptedInv ==
  ASSUME StoreInv, Interrupted
  PROVE  StoreInv'
<1>1. StoreTypeOK /\ LogInv /\ ArchiveInv /\ CompactInv /\ OnceInv
  BY DEF StoreInv
<1>2. /\ UNCHANGED <<fileVars, today, callVars, cutoff, split>> /\ rollup' = "idle" /\ records' = <<>>
      /\ groups' = {} /\ broken' = (broken \/ HalfSealed) /\ Fault
  BY DEF Interrupted, Stop
<1>3. Archived' = Archived /\ \A e \in Days : Partition(e)' = Partition(e)
  BY <1>2, ArchiveStays DEF fileVars
<1>4. StoreTypeOK'
  <2>1. <<>> \in Seq(Lines) /\ broken' \in BOOLEAN /\ faults' \in 0..MaxFaults
    BY <1>1, <1>2, MetricsAssumption DEF Fault, StoreTypeOK
  <2>2. groups' \in SUBSET (0..(cutoff' - 1))
    BY <1>2
  <2>. QED  BY <1>1, <1>2, <2>1, <2>2 DEF StoreTypeOK, fileVars, callVars
<1>5. LogInv' /\ ArchiveInv' /\ Logged' = Logged
  BY <1>1, <1>2, <1>3 DEF LogInv, ArchiveInv, Logged, fileVars, callVars
<1>6. CompactInv'
  BY <1>2 DEF CompactInv, Locked
<1>7. OnceInv'
  <2>1. ASSUME ~broken' PROVE ~broken /\ Logged \cap Archived = {}
    <3>1. ~broken /\ ~HalfSealed
      BY <1>2, <2>1
    <3>2. Locked => groups = {day[c] : c \in Past(Logged)}
      BY <1>1, <3>1 DEF HalfSealed, CompactInv, Logged
    <3>. QED  BY <1>1, <3>1, <3>2 DEF OnceInv
  <2>. QED  BY <1>1, <1>2, <1>3, <1>5, <2>1 DEF OnceInv, fileVars
<1>. QED  BY <1>4, <1>5, <1>6, <1>7 DEF StoreInv

LEMMA StoreStutter == StoreInv /\ UNCHANGED storeVars => StoreInv'
<1> SUFFICES ASSUME StoreInv, UNCHANGED storeVars PROVE StoreInv'
  OBVIOUS
<1>1. UNCHANGED <<log, archive, today, day, pending, acked, torn, rollup, cutoff, groups, records,
                  faults, broken, split>>
  BY DEF storeVars, fileVars, callVars, rollupVars
<1>2. Archived' = Archived /\ \A e \in Days : Partition(e)' = Partition(e)
  BY <1>1, ArchiveStays
<1>3. StoreTypeOK' /\ LogInv' /\ ArchiveInv'
  BY <1>1, <1>2 DEF StoreInv, StoreTypeOK, LogInv, ArchiveInv
<1>4. CompactInv' /\ OnceInv'
  BY <1>1, <1>2 DEF StoreInv, CompactInv, OnceInv, Locked, Past, Logged
<1>. QED  BY <1>3, <1>4 DEF StoreInv

LEMMA StoreNextInv == StoreInv /\ [StoreNext]_storeVars => StoreInv'
  BY RecordInv, TearInv, ClockInv, CompactStepInv, SealInv, RewriteInv, InterruptedInv, StoreStutter
  DEF StoreNext, Rollup

(* The inductive invariant of the log, the archive and the compaction. *)
THEOREM StoreInvariantHolds == StoreSpec => []StoreInv
  BY StoreInitInv, StoreNextInv, PTL DEF StoreSpec

(* Compactions that were not cut short count no call twice. *)
THEOREM CallsCountedOnce == StoreSpec => []CountedOnce
<1>1. StoreInv => CountedOnce
  BY DEF StoreInv, LogInv, OnceInv, CountedOnce, Rows
<1>. QED  BY <1>1, StoreInvariantHolds, PTL

(* No step takes a sealed row away. *)
THEOREM SealedRowsStay == StoreSpec => SealedStays
<1>1. ASSUME StoreInv, [StoreNext]_storeVars, NEW d \in Days
      PROVE  Partition(d) \subseteq Partition(d)'
  <2>1. CASE UNCHANGED archive
    BY <2>1, ArchiveStays
  <2>2. CASE \E e \in Days : Seal(e)
    <3>1. PICK e \in Days : Seal(e)
      BY <2>2
    <3>2. Partition(e)' = Partition(e) \cup Batch(e) /\ \A f \in Days \ {e} : Partition(f)' = Partition(f)
      <4>1. StoreTypeOK
        BY <1>1 DEF StoreInv
      <4>. QED  BY <3>1, <4>1, SealFacts
    <3>. QED  BY <3>2
  <2>3. UNCHANGED archive \/ \E e \in Days : Seal(e)
    BY <1>1 DEF StoreNext, Rollup, Record, AppendLine, Tear, NextDay, RollupTick, Compact, Rewrite,
       RewriteAs, Interrupted, Stop, fileVars, storeVars
  <2>. QED  BY <2>1, <2>2, <2>3
<1>2. StoreInv /\ [StoreNext]_storeVars
        => [\A d \in Days : Partition(d) \subseteq Partition(d)']_storeVars
  BY <1>1
<1>. QED  BY <1>2, StoreInvariantHolds, PTL DEF StoreSpec, SealedStays

----------------------------------------------------------------------------
(* What is lost.  No more than one record per torn append: the one that joins
   the torn line. *)

(* A set that loses elements, or gains one. *)
LEMMA CountSub ==
  ASSUME NEW S, NEW T, IsFiniteSet(S), T \subseteq S
  PROVE  IsFiniteSet(T) /\ Cardinality(T) \in Nat /\ Cardinality(T) <= Cardinality(S)
  BY FS_Subset, FS_CardinalityType

LEMMA CountAdd ==
  ASSUME NEW S, NEW x, IsFiniteSet(S)
  PROVE  /\ IsFiniteSet(S \cup {x}) /\ Cardinality(S \cup {x}) \in Nat /\ Cardinality(S) \in Nat
         /\ Cardinality(S \cup {x}) <= Cardinality(S) + 1
         /\ x \notin S => Cardinality(S \cup {x}) = Cardinality(S) + 1
<1>1. Cardinality(S) \in Nat
  BY FS_CardinalityType
<1>2. /\ IsFiniteSet(S \cup {x})
      /\ x \in S => Cardinality(S \cup {x}) = Cardinality(S)
      /\ x \notin S => Cardinality(S \cup {x}) = Cardinality(S) + 1
  <2>1. x \in S => S \cup {x} = S
    OBVIOUS
  <2>. QED  BY <2>1, FS_AddElement
<1>. QED  BY <1>1, <1>2

LEMMA LossInit ==
  ASSUME StoreInit
  PROVE  LossInv
<1>1. acked = {} /\ torn = {} /\ log = <<>> /\ Lost = {}
  BY DEF StoreInit, Lost
<1>. QED  BY <1>1, FS_EmptySet DEF LossInv, Open

(* A step after which nothing more is lost, and no line is open that was not. *)
LEMMA LossKept ==
  ASSUME ~split, LossInv, Lost' \subseteq Lost, acked' = acked, torn' = torn, Open(log') => Open(log),
         \A i \in DOMAIN log' : log'[i].utf8
  PROVE  LossInv'
<1>1. IsFiniteSet(Lost)
  BY FS_Subset DEF LossInv, Lost
<1>2. Cardinality(Lost') \in Nat /\ Cardinality(Lost') <= Cardinality(Lost) /\ Cardinality(Lost) \in Nat
  BY <1>1, CountSub
<1>3. Cardinality(torn) \in Nat
  BY FS_CardinalityType DEF LossInv
<1>. QED  BY <1>2, <1>3 DEF LossInv

(* A record is lost if a torn line is open; the line ends with it. *)
LEMMA LossOfRecord ==
  ASSUME ~split, StoreInv, LossInv, NEW c \in Calls, NEW d \in Days, Record(c, d)
  PROVE  LossInv'
<1> DEFINE line == Line({c}, TRUE, TRUE, TRUE)
           n == Len(log)
<1>1. line \in Lines /\ line.calls = {c} /\ line.ends /\ line.parses /\ line.utf8
  BY DEF Line, Lines
<1>2. /\ log' = Write(log, line) /\ acked' = acked \cup {c} /\ torn' = torn /\ archive' = archive
      /\ c \in pending
  BY DEF Record, AppendLine, Started
<1> HIDE DEF line
<1>3. log \in Seq(Lines) /\ n \in Nat /\ \A i \in DOMAIN log : ~log[i].ends => i = n
  BY DEF StoreInv, StoreTypeOK, LogInv
<1>4. Archived' = Archived
  BY <1>2, ArchiveStays
<1>5. acked \cap torn = {} /\ c \notin acked
  BY <1>2 DEF StoreInv, StoreTypeOK
<1>6. IsFiniteSet(Lost) /\ IsFiniteSet(acked) /\ IsFiniteSet(torn)
  BY FS_Subset DEF LossInv, Lost
<1>7. \A i \in DOMAIN log' : log'[i].utf8
  BY <1>1, <1>2, <1>3, WriteText DEF LossInv
<1>8. ~Open(log')
  BY <1>1, <1>2, <1>3, WriteText DEF LossInv
<1>9. CASE Open(log)
  <2>1. Logged \ log[n].calls \subseteq Logged'
    BY <1>1, <1>2, <1>3, <1>9, WriteRows DEF Logged
  <2>2. log[n].calls \subseteq torn
    <3>1. n \in DOMAIN log /\ ~log[n].ends
      BY <1>3, <1>9 DEF Open
    <3>. QED  BY <3>1 DEF StoreInv, LogInv
  <2>3. Lost' \subseteq Lost \cup {c}
    BY <1>2, <1>4, <1>5, <2>1, <2>2 DEF Lost
  <2>4. IsFiniteSet(Lost \cup {c}) /\ Cardinality(Lost \cup {c}) <= Cardinality(Lost) + 1
        /\ Cardinality(Lost) \in Nat /\ Cardinality(Lost \cup {c}) \in Nat
    BY <1>6, CountAdd
  <2>5. Cardinality(Lost') <= Cardinality(Lost \cup {c}) /\ Cardinality(Lost') \in Nat
    BY <2>3, <2>4, CountSub
  <2>6. Cardinality(Lost) + 1 <= Cardinality(torn) /\ Cardinality(torn) \in Nat
    BY <1>6, <1>9, FS_CardinalityType DEF LossInv
  <2>7. IsFiniteSet(acked')
    BY <1>2, <1>6, CountAdd
  <2>. QED  BY <1>2, <1>6, <1>7, <1>8, <2>4, <2>5, <2>6, <2>7 DEF LossInv
<1>10. CASE ~Open(log)
  <2>1. Logged \subseteq Logged' /\ c \in Logged'
    BY <1>1, <1>2, <1>3, <1>10, WriteRows DEF Logged, LossInv
  <2>2. Lost' \subseteq Lost
    BY <1>2, <1>4, <2>1 DEF Lost
  <2>3. Cardinality(Lost') \in Nat /\ Cardinality(Lost') <= Cardinality(Lost) /\ Cardinality(Lost) \in Nat
    BY <1>6, <2>2, CountSub
  <2>4. IsFiniteSet(acked') /\ Cardinality(torn) \in Nat
    BY <1>2, <1>6, CountAdd, FS_CardinalityType
  <2>. QED  BY <1>2, <1>6, <1>7, <1>8, <1>10, <2>3, <2>4 DEF LossInv
<1>. QED  BY <1>9, <1>10

(* A torn append costs no record that was there, and may leave a line open. *)
LEMMA LossOfTear ==
  ASSUME ~split, ~split', StoreInv, LossInv, NEW c \in Calls, NEW d \in Days, Tear(c, d)
  PROVE  LossInv'
<1> DEFINE n == Len(log)
<1>1. /\ acked' = acked /\ torn' = torn \cup {c} /\ archive' = archive /\ c \in pending
      /\ \/ log' = log
         \/ \E whole \in BOOLEAN : log' = Write(log, Line({c}, FALSE, whole, TRUE))
  BY DEF Tear, Started
<1>2. log \in Seq(Lines) /\ n \in Nat /\ \A i \in DOMAIN log : ~log[i].ends => i = n
  BY DEF StoreInv, StoreTypeOK, LogInv
<1>3. Archived' = Archived
  BY <1>1, ArchiveStays
<1>4. acked \cap torn = {} /\ c \notin torn
  BY <1>1 DEF StoreInv, StoreTypeOK
<1>5. IsFiniteSet(Lost) /\ IsFiniteSet(acked) /\ IsFiniteSet(torn)
  BY FS_Subset DEF LossInv, Lost
<1>6. (\A i \in DOMAIN log' : log'[i].utf8) /\ Lost' \subseteq Lost
  <2>1. CASE log' = log
    BY <1>1, <1>3, <2>1 DEF LossInv, Lost, Logged
  <2>2. ASSUME NEW whole \in BOOLEAN, log' = Write(log, Line({c}, FALSE, whole, TRUE))
        PROVE  (\A i \in DOMAIN log' : log'[i].utf8) /\ Lost' \subseteq Lost
    <3> DEFINE line == Line({c}, FALSE, whole, TRUE)
    <3>1. line \in Lines /\ line.calls = {c} /\ line.utf8
      BY DEF Line, Lines
    <3>2. log' = Write(log, line)
      BY <2>2
    <3> HIDE DEF line
    <3>0. \A i \in DOMAIN log' : log'[i].utf8
      BY <1>2, <3>1, <3>2, WriteText DEF LossInv
    <3>3. CASE Open(log)
      <4>1. n \in DOMAIN log /\ ~log[n].ends
        BY <1>2, <3>3 DEF Open
      <4>2. Logged \ log[n].calls \subseteq Logged'
        BY <1>2, <3>1, <3>2, <3>3, WriteRows DEF Logged
      <4>3. log[n].calls \subseteq torn
        BY <4>1 DEF StoreInv, LogInv
      <4>. QED  BY <1>1, <1>3, <1>4, <3>0, <4>2, <4>3 DEF Lost
    <3>4. CASE ~Open(log)
      <4>1. Logged \subseteq Logged'
        BY <1>2, <3>1, <3>2, <3>4, WriteRows DEF Logged
      <4>. QED  BY <1>1, <1>3, <3>0, <4>1 DEF Lost
    <3>. QED  BY <3>3, <3>4
  <2>. QED  BY <1>1, <2>1, <2>2
<1>7. Cardinality(Lost') \in Nat /\ Cardinality(Lost') <= Cardinality(Lost) /\ Cardinality(Lost) \in Nat
  BY <1>5, <1>6, CountSub
<1>8. IsFiniteSet(torn') /\ Cardinality(torn') = Cardinality(torn) + 1 /\ Cardinality(torn) \in Nat
  BY <1>1, <1>4, <1>5, CountAdd
<1>9. Cardinality(Lost) + (IF Open(log) THEN 1 ELSE 0) <= Cardinality(torn)
  BY DEF LossInv
<1>10. Cardinality(Lost') + (IF Open(log') THEN 1 ELSE 0) <= Cardinality(torn')
  BY <1>7, <1>8, <1>9
<1>. QED  BY <1>1, <1>5, <1>6, <1>8, <1>10 DEF LossInv

(* A rewrite takes out of the log only what the archive has. *)
LEMMA LossOfRewrite ==
  ASSUME ~split, StoreInv, LossInv, Rewrite
  PROVE  LossInv'
<1>1. Past(Logged) \subseteq Archived
  BY RewriteFacts DEF StoreInv, CompactInv
<1>2. Archived' = Archived
  BY RewriteFacts, ArchiveStays
<1>3. Lost' \subseteq Lost /\ acked' = acked /\ torn' = torn
  BY <1>1, <1>2, RewriteFacts DEF Lost, callVars
<1>4. ~Open(log')
  BY RewriteFacts DEF Open
<1>5. \A i \in DOMAIN log' : log'[i].utf8
  BY RewriteFacts
<1>. QED  BY <1>3, <1>4, <1>5, LossKept

(* A record, whole or torn, is one; and a split is not forgotten. *)
LEMMA RecordsAreFinite ==
  ASSUME LossInv, [StoreNext]_storeVars
  PROVE  IsFiniteSet(acked') /\ IsFiniteSet(torn') /\ (split => split')
<1>0. IsFiniteSet(acked) /\ IsFiniteSet(torn)
  BY DEF LossInv
<1>1. ASSUME NEW c \in Calls, NEW d \in Days, Record(c, d) \/ Tear(c, d)
      PROVE  IsFiniteSet(acked') /\ IsFiniteSet(torn') /\ (split => split')
  <2>1. IsFiniteSet(acked \cup {c}) /\ IsFiniteSet(torn \cup {c})
    BY <1>0, CountAdd
  <2>2. CASE Record(c, d)
    BY <1>0, <2>1, <2>2 DEF Record, AppendLine
  <2>3. CASE Tear(c, d)
    <3>1. acked' = acked /\ torn' = torn \cup {c}
      BY <2>3 DEF Tear
    <3>2. split => split'
      BY <2>3 DEF Tear
    <3>. QED  BY <1>0, <2>1, <3>1, <3>2
  <2>. QED  BY <1>1, <2>2, <2>3
<1>2. CASE UNCHANGED <<acked, torn, split>>
  BY <1>2 DEF LossInv
<1>3. CASE NextDay \/ Rollup \/ Interrupted \/ UNCHANGED storeVars
  <2>1. UNCHANGED <<acked, torn, split>>
    BY <1>3 DEF NextDay, Rollup, RollupTick, Compact, Seal, Rewrite, RewriteAs, Interrupted, Stop,
                storeVars, callVars
  <2>. QED  BY <1>2, <2>1
<1>. QED  BY <1>1, <1>3 DEF StoreNext

LEMMA LossStep ==
  ASSUME StoreInv, LossInv, [StoreNext]_storeVars
  PROVE  LossInv'
<1>1. CASE split'
  BY <1>1, RecordsAreFinite DEF LossInv
<1>2. CASE ~split'
  <2>1. ~split
    BY <1>2, RecordsAreFinite
  <2>2. CASE \E c \in Calls, d \in Days : Record(c, d) \/ Tear(c, d)
    BY <1>2, <2>1, <2>2, LossOfRecord, LossOfTear
  <2>3. CASE Rewrite
    BY <2>1, <2>3, LossOfRewrite
  <2>4. CASE log' = log /\ acked' = acked /\ torn' = torn /\ Archived \subseteq Archived'
    BY <2>1, <2>4, LossKept DEF Lost, Logged, LossInv
  <2>5. CASE \E d \in Days : Seal(d)
    <3>1. Archived \subseteq Archived'
      BY <2>5, SealFacts DEF StoreInv
    <3>. QED  BY <2>4, <2>5, <3>1 DEF Seal, callVars
  <2>6. CASE NextDay \/ RollupTick \/ Compact \/ Interrupted \/ UNCHANGED storeVars
    <3>1. UNCHANGED <<log, archive, acked, torn>>
      BY <2>6 DEF NextDay, RollupTick, Compact, Interrupted, Stop, storeVars, fileVars, callVars
    <3>2. Archived' = Archived
      BY <3>1, ArchiveStays
    <3>. QED  BY <2>4, <3>1, <3>2
  <2>. QED  BY <2>2, <2>3, <2>5, <2>6 DEF StoreNext, Rollup
<1>. QED  BY <1>1, <1>2

(* As long as no append was torn inside a character (which ends every later read
   of the log there), no more of the calls whose append succeeded are lost than
   appends were torn (metrics.rs, try_record, read_log, compact). *)
THEOREM LossStaysBounded == StoreSpec => []LossIsBounded
<1>1. StoreInit => LossInv
  BY LossInit
<1>2. StoreInv /\ LossInv /\ [StoreNext]_storeVars => LossInv'
  BY LossStep
<1>3. LossInv => LossIsBounded
  <2> SUFFICES ASSUME LossInv PROVE LossIsBounded
    OBVIOUS
  <2>1. IsFiniteSet(Lost) /\ Cardinality(Lost) \in Nat /\ Cardinality(torn) \in Nat
    BY CountSub, FS_CardinalityType DEF LossInv, Lost
  <2>. QED  BY <2>1 DEF LossInv, LossIsBounded, Lost
<1>. QED  BY <1>1, <1>2, <1>3, StoreInvariantHolds, PTL DEF StoreSpec

----------------------------------------------------------------------------
(* The diagnostics. *)

In(s) == {s[i] : i \in DOMAIN s}
Around == In(ring) \cup In(batch) \cup In(conn.replay) \cup In(conn.queue)

(* An id names one diagnostic of this life of the server, and a thread logs one. *)
IdInv ==
  /\ \A d \in Around :
       /\ d.id <= top
       /\ \A t \in Threads : held[t] # d.id
       /\ d.text \in Writers => held[d.text] = HasLogged
  /\ \A d \in Around, e \in Around :
       d.id = e.id \/ (d.text = e.text /\ d.text \in Writers) => d = e
  /\ \A t \in Threads, u \in Threads : held[t] > 0 /\ held[t] = held[u] => t = u
  /\ \A t \in Threads : held[t] > 0 => held[t] # top
  /\ \A n \in seen \ old : n < next /\ \A t \in Threads : held[t] # n

(* What is in the ring in order has a larger id than all before it. *)
RingInv ==
  \A i \in DOMAIN ring, j \in DOMAIN ring :
    i < j /\ ~ring[j].overtaken => ring[i].id < ring[j].id

(* The watch does not pass over a diagnostic that entered in order. *)
WatchInv ==
  \A d \in In(ring) : ~d.overtaken /\ d.id > published =>
    \A k \in DOMAIN batch : batch[k].id > d.id => \E j \in DOMAIN batch : j < k /\ batch[j] = d

(* A whole stream brings what the watch has passed. *)
StreamInv ==
  conn.at = "live" /\ conn.whole =>
    \A d \in In(ring) :
      \/ d.overtaken \/ d.id > published \/ d.id \in seen
      \/ d \in In(conn.replay) \cup In(conn.queue)

(* What was not seen has no entry; what was seen of this server has one. *)
ErrorLogInv ==
  /\ \A w \in Writers : held[w] # HasLogged => Entries(w) = {}
  /\ \A d \in Around : d.text \in Writers =>
       /\ d.id \notin seen => Entries(d.text) = {}
       /\ d.id \in seen \ old /\ Len(errors) < MaxErrors => ShownOnce(d)

DiagInv == DiagTypeOK /\ IdInv /\ RingInv /\ WatchInv /\ StreamInv /\ ErrorLogInv

----------------------------------------------------------------------------
(* Sequences. *)

(* A push drops the first element of a full ring and no other. *)
LEMMA PushedAt ==
  ASSUME NEW S, NEW s \in Seq(S), NEW x \in S, NEW n \in Nat \ {0}, Len(s) <= n
  PROVE  /\ Pushed(s, x, n) \in Seq(S)
         /\ Len(s) = n => /\ Len(Pushed(s, x, n)) = n /\ Pushed(s, x, n)[n] = x
                          /\ \A i \in 1..(n - 1) : Pushed(s, x, n)[i] = s[i + 1]
         /\ Len(s) # n => /\ Len(Pushed(s, x, n)) = Len(s) + 1 /\ Pushed(s, x, n)[Len(s) + 1] = x
                          /\ \A i \in 1..Len(s) : Pushed(s, x, n)[i] = s[i]
<1>1. CASE Len(s) = n
  <2>1. s # <<>> /\ Pushed(s, x, n) = Append(Tail(s), x)
    BY <1>1 DEF Pushed
  <2>2. /\ Tail(s) \in Seq(S) /\ Len(Tail(s)) = Len(s) - 1
        /\ \A i \in 1..(Len(s) - 1) : Tail(s)[i] = s[i + 1]
    BY <2>1
  <2> QED BY <1>1, <2>1, <2>2
<1>2. CASE Len(s) # n
  BY <1>2 DEF Pushed
<1> QED BY <1>1, <1>2

LEMMA PushedIn ==
  ASSUME NEW S, NEW s \in Seq(S), NEW x \in S, NEW n \in Nat \ {0}, Len(s) <= n
  PROVE  /\ Len(Pushed(s, x, n)) <= n
         /\ In(Pushed(s, x, n)) \subseteq In(s) \cup {x}
<1> DEFINE r == Pushed(s, x, n)
<1>0. /\ r \in Seq(S)
      /\ Len(s) = n => /\ Len(r) = n /\ r[n] = x
                       /\ \A i \in 1..(n - 1) : r[i] = s[i + 1]
      /\ Len(s) # n => /\ Len(r) = Len(s) + 1 /\ r[Len(s) + 1] = x
                       /\ \A i \in 1..Len(s) : r[i] = s[i]
  BY PushedAt
<1> HIDE DEF r
<1>1. ASSUME Len(s) = n PROVE Len(r) <= n /\ In(r) \subseteq In(s) \cup {x}
  BY <1>0, <1>1 DEF In
<1>2. ASSUME Len(s) # n PROVE Len(r) <= n /\ In(r) \subseteq In(s) \cup {x}
  BY <1>0, <1>2 DEF In
<1> QED BY <1>1, <1>2 DEF r

LEMMA TailIn ==
  ASSUME NEW S, NEW s \in Seq(S), s # <<>>
  PROVE  /\ Tail(s) \in Seq(S) /\ Len(Tail(s)) = Len(s) - 1
         /\ Head(s) \in S /\ Head(s) \in In(s)
         /\ In(s) = In(Tail(s)) \cup {Head(s)}
         /\ \A i \in DOMAIN Tail(s) : i + 1 \in DOMAIN s /\ Tail(s)[i] = s[i + 1]
<1>1. /\ Tail(s) \in Seq(S) /\ Len(Tail(s)) = Len(s) - 1 /\ Head(s) = s[1] /\ 1 \in DOMAIN s
      /\ \A i \in 1..(Len(s) - 1) : Tail(s)[i] = s[i + 1]
  OBVIOUS
<1>2. ASSUME NEW e \in In(s) PROVE e \in In(Tail(s)) \cup {Head(s)}
  <2>1. PICK i \in 1..Len(s) : e = s[i]
    BY DEF In
  <2>2. CASE i = 1
    BY <1>1, <2>1, <2>2
  <2>3. CASE i # 1
    <3>1. i - 1 \in DOMAIN Tail(s) /\ Tail(s)[i - 1] = e
      BY <1>1, <2>1, <2>3
    <3> QED BY <3>1 DEF In
  <2> QED BY <2>2, <2>3
<1>3. In(Tail(s)) \cup {Head(s)} \subseteq In(s)
  BY <1>1 DEF In
<1> QED BY <1>1, <1>2, <1>3

LEMMA AppendIn ==
  ASSUME NEW S, NEW s \in Seq(S), NEW x \in S
  PROVE  Append(s, x) \in Seq(S) /\ Len(Append(s, x)) = Len(s) + 1 /\ In(Append(s, x)) = In(s) \cup {x}
<1>1. /\ Append(s, x) \in Seq(S) /\ Len(Append(s, x)) = Len(s) + 1
      /\ Append(s, x)[Len(s) + 1] = x /\ \A i \in 1..Len(s) : Append(s, x)[i] = s[i]
  OBVIOUS
<1>2. DOMAIN Append(s, x) = DOMAIN s \cup {Len(s) + 1}
  BY <1>1
<1> QED BY <1>1, <1>2 DEF In

(* A new entry disturbs no other while the log has room. *)
LEMMA RecordErrorKeeps ==
  ASSUME DiagTypeOK, NEW text \in Threads \cup {"lagged", "lost"},
         errors' = RecordError(errors, text)
  PROVE  /\ errors' \in Seq(ErrorEntry) /\ Len(errors') <= MaxErrors /\ Len(errors) <= Len(errors')
         /\ \A u : u # text /\ Entries(u) = {} => Entries(u)' = {}
         /\ \A d : d.text # text /\ Len(errors') < MaxErrors /\ ShownOnce(d) => ShownOnce(d)'
         /\ \A d : d.text = text /\ Len(errors') < MaxErrors /\ Entries(text) = {} => ShownOnce(d)'
<1> USE DEF Entries, ShownOnce
<1>0. errors \in Seq(ErrorEntry) /\ Len(errors) <= MaxErrors /\ MaxErrors \in Nat \ {0}
  BY DiagnosticsAssumption DEF DiagTypeOK, DiagnosticsAssumption
<1>1. CASE errors # <<>> /\ Last(errors).text = text
  <2> DEFINE n == Len(errors)
  <2>1. n \in DOMAIN errors /\ errors[n].text = text /\ errors[n] \in ErrorEntry
    BY <1>0, <1>1 DEF Last
  <2>2. errors' = [errors EXCEPT ![n].count = @ + 1]
    BY <1>1 DEF RecordError
  <2>3. [errors[n] EXCEPT !.count = @ + 1] \in ErrorEntry
    BY <2>1 DEF ErrorEntry
  <2>4. /\ errors' \in Seq(ErrorEntry) /\ Len(errors') = n /\ DOMAIN errors' = DOMAIN errors
        /\ \A i \in DOMAIN errors : errors'[i].text = errors[i].text
        /\ \A i \in DOMAIN errors : i # n => errors'[i] = errors[i]
    BY <1>0, <2>1, <2>2, <2>3 DEF ErrorEntry
  <2>5. \A u : Entries(u)' = Entries(u)
    BY <2>4
  <2>6. n \in Entries(text)
    BY <2>1
  <2>7. ASSUME NEW d, d.text # text, ShownOnce(d) PROVE ShownOnce(d)'
    <3>1. PICK i \in DOMAIN errors : Entries(d.text) = {i} /\ errors[i].count = 1
      BY <2>7
    <3>2. i # n
      BY <2>1, <2>7, <3>1
    <3> QED BY <2>4, <2>5, <3>1, <3>2
  <2> QED BY <1>0, <2>4, <2>5, <2>6, <2>7
<1>2. CASE ~(errors # <<>> /\ Last(errors).text = text)
  <2> DEFINE x == [text |-> text, count |-> 1]
  <2>1. errors' = Pushed(errors, x, MaxErrors) /\ x \in ErrorEntry
    BY <1>2 DEF RecordError, ErrorEntry
  <2>2. /\ errors' \in Seq(ErrorEntry) /\ Len(errors') <= MaxErrors
        /\ In(errors') \subseteq In(errors) \cup {x}
    BY <1>0, <2>1, PushedAt, PushedIn
  <2>3. /\ Len(errors) = MaxErrors => Len(errors') = MaxErrors
        /\ Len(errors) # MaxErrors =>
             /\ Len(errors') = Len(errors) + 1 /\ errors'[Len(errors) + 1] = x
             /\ \A i \in 1..Len(errors) : errors'[i] = errors[i]
    <3> DEFINE r == Pushed(errors, x, MaxErrors)
    <3>1. /\ Len(errors) = MaxErrors => Len(r) = MaxErrors
          /\ Len(errors) # MaxErrors =>
               /\ Len(r) = Len(errors) + 1 /\ r[Len(errors) + 1] = x
               /\ \A i \in 1..Len(errors) : r[i] = errors[i]
      <4> HIDE DEF x, Entries, ShownOnce
      <4> QED BY <1>0, <2>1, PushedAt
    <3> HIDE DEF r
    <3>2. errors' = r
      BY <2>1 DEF r
    <3> QED BY <3>1, <3>2
  <2>4. ASSUME NEW u, u # text, Entries(u) = {} PROVE Entries(u)' = {}
    BY <2>2, <2>4 DEF In
  <2>5. ASSUME Len(errors') < MaxErrors
        PROVE  /\ DOMAIN errors' = DOMAIN errors \cup {Len(errors) + 1}
               /\ Len(errors) + 1 \notin DOMAIN errors
               /\ \A i \in DOMAIN errors : errors'[i] = errors[i]
               /\ errors'[Len(errors) + 1] = x
    <3>1. Len(errors) # MaxErrors /\ Len(errors') = Len(errors) + 1
      BY <1>0, <2>3, <2>5
    <3>2. DOMAIN errors' = 1..(Len(errors) + 1) /\ DOMAIN errors = 1..Len(errors) /\ Len(errors) \in Nat
      BY <1>0, <2>2, <3>1
    <3> QED BY <2>3, <3>1, <3>2
  <2>6. ASSUME NEW d, d.text # text, Len(errors') < MaxErrors, ShownOnce(d) PROVE ShownOnce(d)'
    <3>1. PICK i \in DOMAIN errors : Entries(d.text) = {i} /\ errors[i].count = 1
      BY <2>6
    <3>2. Entries(d.text)' = {i}
      BY <2>5, <2>6, <3>1
    <3> QED BY <2>5, <2>6, <3>1, <3>2
  <2>7. ASSUME NEW d, d.text = text, Len(errors') < MaxErrors, Entries(text) = {} PROVE ShownOnce(d)'
    <3>1. Entries(text)' = {Len(errors) + 1}
      BY <2>5, <2>7
    <3> QED BY <2>5, <2>7, <3>1
  <2>8. Len(errors) <= Len(errors')
    BY <1>0, <2>3
  <2> HIDE DEF Entries, ShownOnce
  <2> QED BY <2>2, <2>4, <2>6, <2>7, <2>8
<1> QED BY <1>1, <1>2

LEMMA DiagInitInv == DiagInit => DiagInv
<1> SUFFICES ASSUME DiagInit PROVE DiagInv
  OBVIOUS
<1> USE DEF DiagInit, Away
<1>1. Around = {} /\ In(ring) = {}
  BY DEF Around, In
<1>2. DiagTypeOK
  BY DiagnosticsAssumption DEF DiagTypeOK, DiagnosticsAssumption, Silent, HasLogged, Threads
<1>3. IdInv /\ RingInv /\ WatchInv /\ StreamInv
  BY <1>1 DEF IdInv, RingInv, WatchInv, StreamInv, Silent
<1>4. ErrorLogInv
  BY <1>1 DEF ErrorLogInv, Entries
<1> QED BY <1>2, <1>3, <1>4 DEF DiagInv

----------------------------------------------------------------------------
(* What a step that adds no diagnostic keeps. *)

LEMMA IdKept ==
  ASSUME IdInv, Around' \subseteq Around, UNCHANGED <<next, held, top, seen, old>>
  PROVE  IdInv'
BY DEF IdInv

LEMMA LogKept ==
  ASSUME ErrorLogInv, Around' \subseteq Around, UNCHANGED <<held, seen, old, errors>>
  PROVE  ErrorLogInv'
BY DEF ErrorLogInv, Entries, ShownOnce

LEMMA AroundTypes == DiagTypeOK => Around \subseteq Diagnostic
BY DEF DiagTypeOK, Around, In

----------------------------------------------------------------------------
(* The threads. *)

LEMMA DrawInv ==
  ASSUME DiagInv, NEW t \in Threads, DrawId(t), Around' = Around,
         UNCHANGED <<watchVars, lives, seen, old, errors>>
  PROVE  /\ next' \in Nat \ {0} /\ top' \in 0..(next' - 1)
         /\ held' \in [Threads -> -1..(next' - 1)]
         /\ IdInv' /\ ErrorLogInv'
<1>1. /\ next \in Nat \ {0} /\ top \in 0..(next - 1) /\ held \in [Threads -> -1..(next - 1)]
      /\ held[t] = Silent /\ held' = [held EXCEPT ![t] = next] /\ next' = next + 1 /\ top' = top
  BY DEF DiagInv, DiagTypeOK, DrawId
<1>2. held' \in [Threads -> -1..(next' - 1)] /\ next' \in Nat \ {0} /\ top' \in 0..(next' - 1)
  BY <1>1
<1>3. \A u \in Threads : held'[u] = IF u = t THEN next ELSE held[u]
  BY <1>1
<1>4. \A d \in Around : d \in Diagnostic /\ d.id <= top
  BY AroundTypes DEF DiagInv, IdInv
<1>5. IdInv'
  <2> USE DEF IdInv, DiagInv
  <2>1. \A d \in Around' :
          /\ d.id <= top'
          /\ \A u \in Threads : held'[u] # d.id
          /\ d.text \in Writers => held'[d.text] = HasLogged
    BY <1>1, <1>3, <1>4 DEF Silent, HasLogged, Diagnostic, Threads
  <2>2. \A d \in Around', e \in Around' :
          d.id = e.id \/ (d.text = e.text /\ d.text \in Writers) => d = e
    OBVIOUS
  <2>3. /\ \A u \in Threads, v \in Threads : held'[u] > 0 /\ held'[u] = held'[v] => u = v
        /\ \A u \in Threads : held'[u] > 0 => held'[u] # top'
    BY <1>1, <1>3
  <2>4. \A n \in seen' \ old' : n < next' /\ \A u \in Threads : held'[u] # n
    BY <1>1, <1>3 DEF DiagTypeOK
  <2> QED BY <2>1, <2>2, <2>3, <2>4
<1>6. ErrorLogInv'
  BY <1>1, <1>3 DEF DiagInv, ErrorLogInv, Entries, ShownOnce, Silent, HasLogged, Threads
<1> QED BY <1>1, <1>2, <1>5, <1>6

(* A push puts one diagnostic at the end of the ring. *)
LEMMA PushInv ==
  ASSUME DiagInv, NEW t \in Threads, NEW after \in {Silent, HasLogged}, t \in Writers <=> after = HasLogged,
         PushDiagnostic(t, after), UNCHANGED <<watchVars, lives, conn, seen, old>>
  PROVE  LET x == [id |-> held[t], text |-> t, overtaken |-> held[t] < top]
         IN  /\ x \in Diagnostic /\ x.id \notin seen \ old /\ Around' \subseteq Around \cup {x}
             /\ ring' \in Seq(Diagnostic) /\ Len(ring') <= MaxDiagnostics
             /\ top' \in 0..(next' - 1) /\ published' \in 0..top' /\ next' = next
             /\ held' \in [Threads -> -1..(next' - 1)]
             /\ held' = [held EXCEPT ![t] = after]
             /\ IdInv' /\ RingInv' /\ WatchInv' /\ StreamInv'
<1> DEFINE x == [id |-> held[t], text |-> t, overtaken |-> held[t] < top]
<1>1. /\ next \in Nat \ {0} /\ top \in 0..(next - 1) /\ held \in [Threads -> -1..(next - 1)]
      /\ held[t] > 0 /\ held[t] # top /\ published \in 0..top
      /\ held' = [held EXCEPT ![t] = after] /\ next' = next
      /\ top' = (IF held[t] > top THEN held[t] ELSE top)
  BY DEF DiagInv, DiagTypeOK, IdInv, PushDiagnostic
<1>2. x \in Diagnostic /\ x.id = held[t] /\ x.text = t /\ (x.overtaken <=> held[t] < top)
  <2> DEFINE b == held[t] < top
  <2>1. b \in BOOLEAN /\ held[t] \in Nat \ {0}
    BY <1>1
  <2> HIDE DEF b
  <2>2. [id |-> held[t], text |-> t, overtaken |-> b] \in Diagnostic
    BY <2>1 DEF Diagnostic
  <2> QED BY <2>2 DEF b
<1>3. /\ ring' = Pushed(ring, x, MaxDiagnostics) /\ ring \in Seq(Diagnostic)
      /\ Len(ring) <= MaxDiagnostics /\ MaxDiagnostics \in Nat \ {0}
  BY DiagnosticsAssumption DEF DiagInv, DiagTypeOK, PushDiagnostic, DiagnosticsAssumption
<1>4. /\ held' \in [Threads -> -1..(next' - 1)] /\ top' \in 0..(next' - 1) /\ published' \in 0..top'
      /\ top <= top' /\ held[t] <= top'
      /\ \A u \in Threads : held'[u] = IF u = t THEN after ELSE held[u]
  BY <1>1 DEF Silent, HasLogged, watchVars
<1> HIDE DEF x
<1>5. /\ ring' \in Seq(Diagnostic) /\ Len(ring') <= MaxDiagnostics
      /\ In(ring') \subseteq In(ring) \cup {x}
  BY <1>2, <1>3, PushedAt, PushedIn
<1>6. Around' \subseteq Around \cup {x}
  BY <1>5 DEF Around, watchVars
<1>7. \A d \in Around : d \in Diagnostic /\ d.id <= top /\ d.id # x.id /\ (d.text \in Writers => d.text # t)
  BY <1>1, <1>2, AroundTypes DEF DiagInv, IdInv, HasLogged
<1>8. IdInv'
  <2> USE DEF IdInv, DiagInv
  <2>1. \A d \in Around' :
          /\ d.id <= top'
          /\ \A u \in Threads : held'[u] # d.id
          /\ d.text \in Writers => held'[d.text] = HasLogged
    <3>1. ASSUME NEW d \in Around
          PROVE  /\ d.id <= top'
                 /\ \A u \in Threads : held'[u] # d.id
                 /\ d.text \in Writers => held'[d.text] = HasLogged
      BY <1>1, <1>4, <1>7 DEF Diagnostic, Silent, HasLogged, Threads
    <3>2. /\ x.id <= top'
          /\ \A u \in Threads : held'[u] # x.id
          /\ x.text \in Writers => held'[x.text] = HasLogged
      BY <1>1, <1>2, <1>4 DEF Silent, HasLogged, Threads
    <3> QED BY <1>6, <3>1, <3>2
  <2>2. \A d \in Around', e \in Around' :
          d.id = e.id \/ (d.text = e.text /\ d.text \in Writers) => d = e
    BY <1>2, <1>6, <1>7
  <2>3. /\ \A u \in Threads, v \in Threads : held'[u] > 0 /\ held'[u] = held'[v] => u = v
        /\ \A u \in Threads : held'[u] > 0 => held'[u] # top'
    BY <1>1, <1>4 DEF Silent, HasLogged
  <2>4. \A n \in seen' \ old' : n < next' /\ \A u \in Threads : held'[u] # n
    BY <1>1, <1>4 DEF DiagTypeOK, Silent, HasLogged
  <2> QED BY <2>1, <2>2, <2>3, <2>4
<1>9. RingInv'
  <2> SUFFICES ASSUME NEW i \in DOMAIN ring', NEW j \in DOMAIN ring', i < j, ~ring'[j].overtaken
               PROVE  ring'[i].id < ring'[j].id
    BY DEF RingInv
  <2> DEFINE k == IF Len(ring) = MaxDiagnostics THEN 1 ELSE 0
  <2>1. /\ Len(ring') = Len(ring) + 1 - k /\ ring'[Len(ring')] = x
        /\ \A m \in 1..(Len(ring') - 1) : m + k \in DOMAIN ring /\ ring'[m] = ring[m + k]
    <3>1. /\ Len(ring) = MaxDiagnostics =>
               /\ Len(ring') = MaxDiagnostics /\ ring'[MaxDiagnostics] = x
               /\ \A m \in 1..(MaxDiagnostics - 1) : ring'[m] = ring[m + 1]
          /\ Len(ring) # MaxDiagnostics =>
               /\ Len(ring') = Len(ring) + 1 /\ ring'[Len(ring) + 1] = x
               /\ \A m \in 1..Len(ring) : ring'[m] = ring[m]
      <4> DEFINE r == Pushed(ring, x, MaxDiagnostics)
      <4>1. ring \in Seq(Diagnostic) /\ x \in Diagnostic /\ MaxDiagnostics \in Nat \ {0} /\ Len(ring) <= MaxDiagnostics
        BY <1>2, <1>3
      <4>2. /\ r \in Seq(Diagnostic)
            /\ Len(ring) = MaxDiagnostics =>
                 /\ Len(r) = MaxDiagnostics /\ r[MaxDiagnostics] = x
                 /\ \A m \in 1..(MaxDiagnostics - 1) : r[m] = ring[m + 1]
            /\ Len(ring) # MaxDiagnostics =>
                 /\ Len(r) = Len(ring) + 1 /\ r[Len(ring) + 1] = x
                 /\ \A m \in 1..Len(ring) : r[m] = ring[m]
        BY ONLY <4>1, PushedAt
      <4> HIDE DEF r
      <4>3. ring' = r
        BY <1>3 DEF r
      <4> QED BY <4>2, <4>3
    <3>2. CASE Len(ring) = MaxDiagnostics
      BY <1>3, <3>1, <3>2
    <3>3. CASE Len(ring) # MaxDiagnostics
      BY <1>3, <3>1, <3>3
    <3> QED BY <3>2, <3>3
  <2>2. i \in 1..(Len(ring') - 1) /\ ring'[i] = ring[i + k] /\ i + k \in DOMAIN ring
    BY <1>5, <2>1
  <2>3. CASE j = Len(ring')
    <3>1. ring[i + k] \in Around /\ held[t] > top
      BY <1>1, <1>2, <2>1, <2>2, <2>3 DEF Around, In
    <3> QED BY <1>1, <1>2, <1>7, <2>1, <2>2, <2>3, <3>1 DEF Diagnostic
  <2>4. CASE j # Len(ring')
    <3>1. j \in 1..(Len(ring') - 1) /\ ring'[j] = ring[j + k] /\ j + k \in DOMAIN ring /\ i + k < j + k
      BY <1>5, <2>1, <2>4
    <3> QED BY <2>2, <3>1 DEF DiagInv, RingInv
  <2> QED BY <2>3, <2>4
<1>10. WatchInv'
  <2> SUFFICES ASSUME NEW d \in In(ring'), ~d.overtaken, d.id > published, NEW k \in DOMAIN batch, batch[k].id > d.id
               PROVE  \E j \in DOMAIN batch : j < k /\ batch[j] = d
    BY DEF WatchInv, watchVars
  <2>1. batch[k] \in Around
    BY DEF Around, In
  <2>2. CASE d \in In(ring)
    BY <2>2 DEF DiagInv, WatchInv
  <2>3. CASE d = x
    BY <1>1, <1>2, <1>7, <2>1, <2>3 DEF Diagnostic
  <2> QED BY <1>5, <2>2, <2>3
<1>11. StreamInv'
  <2> SUFFICES ASSUME conn.at = "live" /\ conn.whole, NEW d \in In(ring')
               PROVE  d.overtaken \/ d.id > published \/ d.id \in seen \/ d \in In(conn.replay) \cup In(conn.queue)
    BY DEF StreamInv, watchVars
  <2>1. CASE d \in In(ring)
    BY <2>1 DEF DiagInv, StreamInv
  <2>2. CASE d = x
    BY <1>1, <1>2, <2>2
  <2> QED BY <1>5, <2>1, <2>2
<1>12. x.id \notin seen \ old
  BY <1>2 DEF DiagInv, IdInv
<1> QED BY <1>1, <1>2, <1>4, <1>5, <1>6, <1>8, <1>9, <1>10, <1>11, <1>12 DEF x

(* A writer logs. *)
LEMMA WriterInv ==
  ASSUME DiagInv, NEW w \in Writers, Log(w)
  PROVE  DiagInv'
<1>0. w \in Threads /\ w # Stream
  BY DiagnosticsAssumption DEF Threads, Stream, DiagnosticsAssumption
<1>1. CASE DrawId(w)
  <2>1. Around' = Around /\ UNCHANGED <<ring, watchVars, lives, conn, seen, old, errors>>
    BY <1>1 DEF Log, DrawId, Around, watchVars, monitorVars, PushDiagnostic
  <2>2. /\ next' \in Nat \ {0} /\ top' \in 0..(next' - 1)
        /\ held' \in [Threads -> -1..(next' - 1)]
        /\ IdInv' /\ ErrorLogInv'
    BY <1>0, <1>1, <2>1, DrawInv
  <2>3. DiagTypeOK'
    BY <1>1, <2>1, <2>2 DEF DiagInv, DiagTypeOK, watchVars, DrawId
  <2>4. RingInv' /\ WatchInv' /\ StreamInv'
    BY <2>1 DEF DiagInv, RingInv, WatchInv, StreamInv, watchVars
  <2> QED BY <2>2, <2>3, <2>4 DEF DiagInv
<1>2. CASE PushDiagnostic(w, HasLogged)
  <2> DEFINE x == [id |-> held[w], text |-> w, overtaken |-> held[w] < top]
  <2>1. UNCHANGED <<watchVars, lives, conn, seen, old, errors>>
    BY DEF Log, monitorVars
  <2>2. /\ x \in Diagnostic /\ x.id \notin seen \ old /\ Around' \subseteq Around \cup {x}
        /\ ring' \in Seq(Diagnostic) /\ Len(ring') <= MaxDiagnostics
        /\ top' \in 0..(next' - 1) /\ published' \in 0..top' /\ next' = next
        /\ held' \in [Threads -> -1..(next' - 1)]
        /\ held' = [held EXCEPT ![w] = HasLogged]
        /\ IdInv' /\ RingInv' /\ WatchInv' /\ StreamInv'
    BY <1>0, <1>2, <2>1, PushInv
  <2>3. x.text = w /\ x.id = held[w] /\ held[w] > 0
    BY <1>2 DEF PushDiagnostic
  <2> HIDE DEF x
  <2>4. DiagTypeOK'
    BY <2>1, <2>2 DEF DiagInv, DiagTypeOK, watchVars
  <2>5. Entries(w) = {} /\ \A v \in Writers : held'[v] # HasLogged => held[v] # HasLogged
    BY <1>0, <2>2, <2>3 DEF DiagInv, DiagTypeOK, ErrorLogInv, HasLogged, Threads
  <2>6. ErrorLogInv'
    BY <2>1, <2>2, <2>3, <2>5 DEF DiagInv, ErrorLogInv, Entries, ShownOnce
  <2> QED BY <2>2, <2>4, <2>6 DEF DiagInv
<1> QED BY <1>1, <1>2 DEF Log

----------------------------------------------------------------------------
(* The watch. *)

LEMMA CopyInv ==
  ASSUME DiagInv, CopyRing
  PROVE  DiagInv'
<1> USE DEF CopyRing, threadVars, monitorVars
<1>1. Around' \subseteq Around
  BY DEF Around
<1>2. DiagTypeOK' /\ RingInv' /\ StreamInv'
  BY DEF DiagInv, DiagTypeOK, RingInv, StreamInv
<1>3. IdInv' /\ ErrorLogInv'
  BY <1>1, IdKept, LogKept DEF DiagInv
<1>4. WatchInv'
  <2> SUFFICES ASSUME NEW d \in In(ring), ~d.overtaken, NEW k \in DOMAIN ring, ring[k].id > d.id
               PROVE  \E j \in DOMAIN ring : j < k /\ ring[j] = d
    BY DEF WatchInv
  <2>1. PICK j \in DOMAIN ring : ring[j] = d
    BY DEF In
  <2>2. ring \in Seq(Diagnostic)
    BY DEF DiagInv, DiagTypeOK
  <2>3. ring[k].id \in Nat /\ ring[j].id \in Nat /\ k \in Nat /\ j \in Nat
    <3>1. ring[k] \in Diagnostic /\ ring[j] \in Diagnostic
      BY <2>2
    <3> QED BY <2>2, <3>1 DEF Diagnostic
  <2>4. k < j => ring[k].id < ring[j].id
    BY <2>1 DEF DiagInv, RingInv
  <2> QED BY <2>1, <2>3, <2>4
<1> QED BY <1>2, <1>3, <1>4 DEF DiagInv

(* publish: what is queued is the event, and what is lost breaks the stream. *)
LEMMA SentKeeps ==
  ASSUME DiagTypeOK, NEW d \in Diagnostic
  PROVE  /\ Sent(d) \in [at : {"away", "subscribed", "live"}, replay : Seq(Diagnostic), queue : Seq(Diagnostic),
                         lagged : BOOLEAN, whole : BOOLEAN]
         /\ Len(Sent(d).queue) <= Capacity
         /\ Sent(d).at = conn.at /\ Sent(d).replay = conn.replay
         /\ In(Sent(d).queue) \subseteq In(conn.queue) \cup {d}
         /\ conn.at # "away" /\ Sent(d).whole =>
              conn.whole /\ In(Sent(d).queue) = In(conn.queue) \cup {d}
<1>1. /\ conn.queue \in Seq(Diagnostic) /\ Len(conn.queue) <= Capacity /\ Capacity \in Nat \ {0}
      /\ conn = [at |-> conn.at, replay |-> conn.replay, queue |-> conn.queue,
                 lagged |-> conn.lagged, whole |-> conn.whole]
      /\ conn.at \in {"away", "subscribed", "live"} /\ conn.replay \in Seq(Diagnostic)
      /\ conn.lagged \in BOOLEAN /\ conn.whole \in BOOLEAN
  BY DiagnosticsAssumption DEF DiagTypeOK, DiagnosticsAssumption
<1>2. CASE conn.at = "away"
  <2>1. Sent(d) = conn
    BY <1>2 DEF Sent
  <2> QED BY <1>1, <1>2, <2>1 DEF DiagTypeOK
<1>3. CASE conn.at # "away" /\ Len(conn.queue) < Capacity
  <2>1. Sent(d) = [at |-> conn.at, replay |-> conn.replay, queue |-> Append(conn.queue, d),
                   lagged |-> conn.lagged, whole |-> conn.whole]
    BY <1>1, <1>3 DEF Sent
  <2>2. /\ Append(conn.queue, d) \in Seq(Diagnostic)
        /\ Len(Append(conn.queue, d)) = Len(conn.queue) + 1
        /\ In(Append(conn.queue, d)) = In(conn.queue) \cup {d}
    BY <1>1, AppendIn
  <2> QED BY <1>1, <1>3, <2>1, <2>2
<1>4. CASE conn.at # "away" /\ ~(Len(conn.queue) < Capacity)
  <2>1. Sent(d) = [at |-> conn.at, replay |-> conn.replay, queue |-> Append(Tail(conn.queue), d),
                   lagged |-> TRUE, whole |-> FALSE]
    BY <1>1, <1>4 DEF Sent
  <2>2. /\ Tail(conn.queue) \in Seq(Diagnostic) /\ Len(Tail(conn.queue)) = Len(conn.queue) - 1
        /\ In(Tail(conn.queue)) \subseteq In(conn.queue)
    BY <1>1, <1>4, TailIn
  <2>3. /\ Append(Tail(conn.queue), d) \in Seq(Diagnostic)
        /\ Len(Append(Tail(conn.queue), d)) = Len(Tail(conn.queue)) + 1
        /\ In(Append(Tail(conn.queue), d)) = In(Tail(conn.queue)) \cup {d}
    <3> DEFINE s == Tail(conn.queue)
    <3>1. s \in Seq(Diagnostic)
      BY <2>2
    <3> HIDE DEF s
    <3>2. /\ Append(s, d) \in Seq(Diagnostic) /\ Len(Append(s, d)) = Len(s) + 1
          /\ In(Append(s, d)) = In(s) \cup {d}
      BY <3>1, AppendIn
    <3> QED BY <3>2 DEF s
  <2> QED BY <1>1, <1>4, <2>1, <2>2, <2>3
<1> QED BY <1>2, <1>3, <1>4

LEMMA ForwardInv ==
  ASSUME DiagInv, Forward
  PROVE  DiagInv'
<1> DEFINE h == Head(batch)
<1>1. /\ batch \in Seq(Diagnostic) /\ batch # <<>> /\ batch' = Tail(batch)
      /\ UNCHANGED <<next, held, ring, top, lives, seen, old, errors>>
      /\ IF h.id > published THEN published' = h.id /\ conn' = Sent(h)
         ELSE UNCHANGED <<published, conn>>
  BY DEF Forward, DiagInv, DiagTypeOK, threadVars, monitorVars
<1>2. /\ batch' \in Seq(Diagnostic) /\ Len(batch') = Len(batch) - 1
      /\ h \in Diagnostic /\ h \in In(batch) /\ In(batch) = In(batch') \cup {h}
      /\ \A i \in DOMAIN batch' : i + 1 \in DOMAIN batch /\ batch'[i] = batch[i + 1]
  BY <1>1, TailIn
<1>3. h.id <= top /\ h.id \in Nat \ {0} /\ published \in 0..top /\ top \in Nat /\ h = batch[1]
  BY <1>1, <1>2 DEF DiagInv, DiagTypeOK, IdInv, Around, Diagnostic
<1> HIDE DEF h
<1>4. conn' = conn \/ conn' = Sent(h)
  BY <1>1
<1>5. Around' \subseteq Around
  <2>1. In(conn'.replay) = In(conn.replay) /\ In(conn'.queue) \subseteq In(conn.queue) \cup {h}
    BY <1>2, <1>4, SentKeeps DEF DiagInv
  <2> QED BY <1>1, <1>2, <2>1 DEF Around
<1>6. DiagTypeOK'
  <2>1. /\ conn' \in [at : {"away", "subscribed", "live"}, replay : Seq(Diagnostic), queue : Seq(Diagnostic),
                       lagged : BOOLEAN, whole : BOOLEAN]
        /\ Len(conn'.queue) <= Capacity
    BY <1>2, <1>4, SentKeeps DEF DiagInv, DiagTypeOK
  <2>2. published' \in 0..top'
    BY <1>1, <1>3
  <2> QED BY <1>1, <1>2, <2>1, <2>2 DEF DiagInv, DiagTypeOK
<1>7. IdInv' /\ ErrorLogInv' /\ RingInv'
  BY <1>1, <1>5, IdKept, LogKept DEF DiagInv, RingInv
<1>8. \A d \in In(ring) : d \in Diagnostic /\ d.id \in Nat
  BY AroundTypes DEF DiagInv, Around, Diagnostic
<1>9. published <= published' /\ h.id <= published' /\ published' \in Nat
  BY <1>1, <1>3
<1>10. WatchInv'
  <2> SUFFICES ASSUME NEW d \in In(ring), ~d.overtaken, d.id > published',
                      NEW k \in DOMAIN batch', batch'[k].id > d.id
               PROVE  \E j \in DOMAIN batch' : j < k /\ batch'[j] = d
    BY <1>1 DEF WatchInv
  <2>1. d.id > published /\ d # h
    BY <1>3, <1>8, <1>9
  <2>2. k + 1 \in DOMAIN batch /\ batch[k + 1].id > d.id
    BY <1>2
  <2>3. PICK j \in DOMAIN batch : j < k + 1 /\ batch[j] = d
    BY <2>1, <2>2 DEF DiagInv, WatchInv
  <2>4. j # 1
    BY <1>3, <2>1, <2>3
  <2>5. j - 1 \in DOMAIN batch' /\ batch'[j - 1] = batch[j]
    BY <1>1, <1>2, <2>3, <2>4
  <2> QED BY <1>2, <2>3, <2>5
<1>11. StreamInv'
  <2> SUFFICES ASSUME conn'.at = "live", conn'.whole, NEW d \in In(ring), ~d.overtaken, ~(d.id > published')
               PROVE  d.id \in seen \/ d \in In(conn'.replay) \cup In(conn'.queue)
    BY <1>1 DEF StreamInv
  <2>1. /\ conn.at = "live" /\ conn.whole /\ conn'.replay = conn.replay
        /\ In(conn.queue) \subseteq In(conn'.queue)
        /\ conn' = Sent(h) => h \in In(conn'.queue)
    BY <1>2, <1>4, SentKeeps DEF DiagInv
  <2>2. CASE ~(d.id > published)
    BY <2>1, <2>2 DEF DiagInv, StreamInv
  <2>3. CASE d.id > published
    <3>1. h.id > published /\ conn' = Sent(h) /\ published' = h.id /\ d.id <= h.id
      BY <1>1, <1>3, <1>8, <2>3
    <3>2. ~(h.id > d.id)
      <4>1. ASSUME h.id > d.id PROVE FALSE
        <5>1. \E j \in DOMAIN batch : j < 1 /\ batch[j] = d
          BY <1>1, <1>3, <2>3, <4>1 DEF DiagInv, WatchInv
        <5> QED BY <1>1, <5>1
      <4> QED BY <4>1
    <3>3. d = h
      BY <1>2, <1>3, <1>8, <3>1, <3>2 DEF DiagInv, IdInv, Around
    <3> QED BY <2>1, <3>1, <3>3
  <2> QED BY <2>2, <2>3
<1> QED BY <1>6, <1>7, <1>10, <1>11 DEF DiagInv

(* A restart leaves the monitor's log only. *)
LEMMA RestartInv ==
  ASSUME DiagInv, Restart
  PROVE  DiagInv'
<1> USE DEF Restart, Away
<1>1. Around' = {} /\ In(ring') = {} /\ seen' \ old' = {}
  BY DEF Around, In
<1>2. \A t \in Threads : held'[t] \in {Silent, HasLogged} /\ (t \in Writers /\ held'[t] = Silent => held[t] = Silent)
  BY DiagnosticsAssumption DEF DiagnosticsAssumption, Stream, Silent, HasLogged
<1>3. held' \in [Threads -> -1..(next' - 1)]
  BY <1>2 DEF Silent, HasLogged
<1>4. DiagTypeOK'
  BY <1>3, DiagnosticsAssumption DEF DiagInv, DiagTypeOK, DiagnosticsAssumption
<1>5. IdInv' /\ RingInv' /\ WatchInv' /\ StreamInv'
  BY <1>1, <1>2 DEF IdInv, RingInv, WatchInv, StreamInv, Silent, HasLogged
<1>6. ErrorLogInv'
  BY <1>1, <1>2 DEF DiagInv, ErrorLogInv, Entries, Silent, HasLogged, Threads
<1> QED BY <1>4, <1>5, <1>6 DEF DiagInv

----------------------------------------------------------------------------
(* The stream and the monitor. *)

LEMMA ConnectInv ==
  ASSUME DiagInv, Subscribe \/ ReadReplay
  PROVE  DiagInv'
<1> USE DEF threadVars, watchVars, monitorVars
<1>1. /\ UNCHANGED <<next, held, ring, top, published, batch, lives, seen, old, errors>>
      /\ conn'.at = "subscribed" \/ (conn'.at = "live" /\ conn'.replay = ring)
      /\ conn'.replay = conn.replay \/ conn'.replay = ring
      /\ conn'.queue = conn.queue
      /\ conn' \in [at : {"away", "subscribed", "live"}, replay : Seq(Diagnostic), queue : Seq(Diagnostic),
                    lagged : BOOLEAN, whole : BOOLEAN]
  BY DEF DiagInv, DiagTypeOK, Subscribe, ReadReplay
<1>2. Around' \subseteq Around
  BY <1>1 DEF Around
<1>3. DiagTypeOK'
  BY <1>1 DEF DiagInv, DiagTypeOK
<1>4. IdInv' /\ ErrorLogInv' /\ RingInv' /\ WatchInv'
  BY <1>1, <1>2, IdKept, LogKept DEF DiagInv, RingInv, WatchInv
<1>5. StreamInv'
  BY <1>1 DEF StreamInv
<1> QED BY <1>3, <1>4, <1>5 DEF DiagInv

(* The monitor applies a diagnostic that was on its way. *)
LEMMA ApplyInv ==
  ASSUME DiagInv, NEW d \in Around, Apply(d), Around' \subseteq Around,
         UNCHANGED <<threadVars, watchVars, lives>>,
         conn' \in [at : {"away", "subscribed", "live"}, replay : Seq(Diagnostic), queue : Seq(Diagnostic),
                   lagged : BOOLEAN, whole : BOOLEAN],
         Len(conn'.queue) <= Capacity, conn'.at = conn.at, conn'.whole = conn.whole,
         In(conn.replay) \cup In(conn.queue) \subseteq In(conn'.replay) \cup In(conn'.queue) \cup {d}
  PROVE  DiagInv'
<1> USE DEF threadVars, watchVars
<1>1. /\ d \in Diagnostic /\ d.id \in Nat \ {0} /\ d.text \in Threads /\ d.id <= top /\ top \in 0..(next - 1)
      /\ next \in Nat \ {0} /\ seen \subseteq Nat \ {0} /\ old \subseteq seen
      /\ \A t \in Threads : held[t] # d.id
      /\ d.text \in Writers => held[d.text] = HasLogged
  BY AroundTypes DEF DiagInv, DiagTypeOK, IdInv, Diagnostic
<1>2. /\ seen' = seen \cup {d.id} /\ old' = old
      /\ errors' = IF d.id \in seen THEN errors ELSE RecordError(errors, d.text)
  BY DEF Apply, Seen
<1>3. errors' \in Seq(ErrorEntry) /\ Len(errors') <= MaxErrors /\ Len(errors) <= Len(errors')
  <2>1. errors \in Seq(ErrorEntry) /\ Len(errors) <= MaxErrors
    BY DEF DiagInv, DiagTypeOK
  <2> QED BY <1>1, <1>2, <2>1, RecordErrorKeeps DEF DiagInv
<1>4. DiagTypeOK'
  BY <1>1, <1>2, <1>3 DEF DiagInv, DiagTypeOK
<1>5. IdInv'
  <2>1. \A n \in seen' \ old' : n < next' /\ \A t \in Threads : held'[t] # n
    BY <1>1, <1>2 DEF DiagInv, IdInv
  <2> QED BY <2>1 DEF DiagInv, IdInv
<1>6. RingInv' /\ WatchInv'
  BY DEF DiagInv, RingInv, WatchInv
<1>7. StreamInv'
  BY <1>2 DEF DiagInv, StreamInv
<1>8. ErrorLogInv'
  <2>1. CASE d.id \in seen
    BY <1>2, <2>1, LogKept DEF DiagInv
  <2>2. CASE d.id \notin seen
    <3>1. errors' = RecordError(errors, d.text) /\ DiagTypeOK /\ d.text \in Threads \cup {"lagged", "lost"}
      BY <1>1, <1>2, <2>2 DEF DiagInv
    <3>2. /\ \A u : u # d.text /\ Entries(u) = {} => Entries(u)' = {}
          /\ \A e : e.text # d.text /\ Len(errors') < MaxErrors /\ ShownOnce(e) => ShownOnce(e)'
          /\ \A e : e.text = d.text /\ Len(errors') < MaxErrors /\ Entries(d.text) = {} => ShownOnce(e)'
      BY <3>1, RecordErrorKeeps
    <3>3. ASSUME NEW w \in Writers, held'[w] # HasLogged PROVE Entries(w)' = {}
      BY <1>1, <3>2, <3>3 DEF DiagInv, ErrorLogInv
    <3>4. ASSUME NEW e \in Around', e.text \in Writers
          PROVE  /\ e.id \notin seen' => Entries(e.text)' = {}
                 /\ e.id \in seen' \ old' /\ Len(errors') < MaxErrors => ShownOnce(e)'
      <4>1. CASE e = d
        BY <1>2, <2>2, <3>2, <3>4, <4>1 DEF DiagInv, ErrorLogInv
      <4>2. CASE e # d
        <5>1. e.id # d.id /\ e.text # d.text /\ e \in Around
          BY <3>4, <4>2 DEF DiagInv, IdInv
        <5>2. Len(errors') < MaxErrors => Len(errors) < MaxErrors
          BY <1>3, DiagnosticsAssumption DEF DiagnosticsAssumption, DiagInv, DiagTypeOK
        <5> QED BY <1>2, <3>2, <3>4, <5>1, <5>2 DEF DiagInv, ErrorLogInv
      <4> QED BY <4>1, <4>2
    <3> QED BY <3>3, <3>4 DEF ErrorLogInv
  <2> QED BY <2>1, <2>2
<1> QED BY <1>4, <1>5, <1>6, <1>7, <1>8 DEF DiagInv

LEMMA RecvInv ==
  ASSUME DiagInv, RecvReplay \/ RecvDiagnostic
  PROVE  DiagInv'
<1>1. /\ conn.replay \in Seq(Diagnostic) /\ conn.queue \in Seq(Diagnostic) /\ Len(conn.queue) <= Capacity
      /\ conn = [at |-> conn.at, replay |-> conn.replay, queue |-> conn.queue,
                 lagged |-> conn.lagged, whole |-> conn.whole]
      /\ conn.at \in {"away", "subscribed", "live"} /\ conn.lagged \in BOOLEAN /\ conn.whole \in BOOLEAN
  BY DEF DiagInv, DiagTypeOK
<1>2. CASE RecvReplay
  <2>1. /\ conn.replay # <<>> /\ Apply(Head(conn.replay)) /\ UNCHANGED <<threadVars, watchVars, lives>>
        /\ conn' = [at |-> conn.at, replay |-> Tail(conn.replay), queue |-> conn.queue,
                    lagged |-> conn.lagged, whole |-> conn.whole]
    BY <1>1, <1>2 DEF RecvReplay
  <2>2. /\ Tail(conn.replay) \in Seq(Diagnostic) /\ Head(conn.replay) \in In(conn.replay)
        /\ In(conn.replay) = In(Tail(conn.replay)) \cup {Head(conn.replay)}
    BY <1>1, <2>1, TailIn
  <2>3. Head(conn.replay) \in Around /\ Around' \subseteq Around
    BY <2>1, <2>2 DEF Around, threadVars, watchVars
  <2> QED BY <1>1, <2>1, <2>2, <2>3, ApplyInv
<1>3. CASE RecvDiagnostic
  <2>1. /\ conn.queue # <<>> /\ Apply(Head(conn.queue)) /\ UNCHANGED <<threadVars, watchVars, lives>>
        /\ conn' = [at |-> conn.at, replay |-> conn.replay, queue |-> Tail(conn.queue),
                    lagged |-> conn.lagged, whole |-> conn.whole]
    BY <1>1, <1>3 DEF RecvDiagnostic
  <2>2. /\ Tail(conn.queue) \in Seq(Diagnostic) /\ Head(conn.queue) \in In(conn.queue)
        /\ Len(Tail(conn.queue)) = Len(conn.queue) - 1
        /\ In(conn.queue) = In(Tail(conn.queue)) \cup {Head(conn.queue)}
    BY <1>1, <2>1, TailIn
  <2>3. Head(conn.queue) \in Around /\ Around' \subseteq Around
    BY <2>1, <2>2 DEF Around, threadVars, watchVars
  <2>4. Len(conn'.queue) <= Capacity
    BY <1>1, <2>1, <2>2, DiagnosticsAssumption DEF DiagnosticsAssumption
  <2> QED BY <1>1, <2>1, <2>2, <2>3, <2>4, ApplyInv
<1> QED BY <1>2, <1>3

LEMMA NoticeInv ==
  ASSUME DiagInv, NoticeLag
  PROVE  DiagInv'
<1> USE DEF watchVars, monitorVars
<1>1. /\ DrawId(Stream) /\ UNCHANGED <<ring, watchVars, lives, seen, old, errors>>
      /\ conn' = [conn EXCEPT !.lagged = FALSE]
  BY DEF NoticeLag, DrawId
<1>2. /\ conn'.at = conn.at /\ conn'.replay = conn.replay /\ conn'.queue = conn.queue
      /\ conn'.whole = conn.whole
      /\ conn' \in [at : {"away", "subscribed", "live"}, replay : Seq(Diagnostic), queue : Seq(Diagnostic),
                    lagged : BOOLEAN, whole : BOOLEAN]
  BY <1>1 DEF DiagInv, DiagTypeOK
<1>3. Around' = Around /\ Stream \in Threads
  BY <1>1, <1>2 DEF Around, Threads
<1>4. /\ next' \in Nat \ {0} /\ top' \in 0..(next' - 1)
      /\ held' \in [Threads -> -1..(next' - 1)]
      /\ IdInv' /\ ErrorLogInv' /\ top' = top
  BY <1>1, <1>3, DrawInv DEF DrawId
<1>5. DiagTypeOK'
  BY <1>1, <1>2, <1>4 DEF DiagInv, DiagTypeOK
<1>6. RingInv' /\ WatchInv' /\ StreamInv'
  BY <1>1, <1>2 DEF DiagInv, RingInv, WatchInv, StreamInv
<1> QED BY <1>4, <1>5, <1>6 DEF DiagInv

(* A message of the monitor's own is no writer's. *)
LEMMA OwnError ==
  ASSUME DiagInv, NEW text \in {"lagged", "lost"}, errors' = RecordError(errors, text),
         UNCHANGED <<seen, old>>, \A w \in Writers : held'[w] = held[w],
         \A d \in Around' : d.text \in Writers => d \in Around
  PROVE  ErrorLogInv' /\ errors' \in Seq(ErrorEntry) /\ Len(errors') <= MaxErrors
<1>1. /\ errors' \in Seq(ErrorEntry) /\ Len(errors') <= MaxErrors /\ Len(errors) <= Len(errors')
      /\ \A u : u # text /\ Entries(u) = {} => Entries(u)' = {}
      /\ \A d : d.text # text /\ Len(errors') < MaxErrors /\ ShownOnce(d) => ShownOnce(d)'
  BY RecordErrorKeeps DEF DiagInv
<1>2. \A w \in Writers : w # text
  BY DiagnosticsAssumption DEF DiagnosticsAssumption
<1>3. Len(errors') < MaxErrors => Len(errors) < MaxErrors
  BY <1>1, DiagnosticsAssumption DEF DiagnosticsAssumption, DiagInv, DiagTypeOK
<1>4. ASSUME NEW w \in Writers, held'[w] # HasLogged PROVE Entries(w)' = {}
  BY <1>1, <1>2, <1>4 DEF DiagInv, ErrorLogInv
<1>5. ASSUME NEW d \in Around', d.text \in Writers
      PROVE  /\ d.id \notin seen' => Entries(d.text)' = {}
             /\ d.id \in seen' \ old' /\ Len(errors') < MaxErrors => ShownOnce(d)'
  <2>1. d \in Around /\ d.text # text
    BY <1>2, <1>5
  <2> QED BY <1>1, <1>3, <1>5, <2>1 DEF DiagInv, ErrorLogInv
<1> QED BY <1>1, <1>4, <1>5 DEF ErrorLogInv

LEMMA TellInv ==
  ASSUME DiagInv, TellLag
  PROVE  DiagInv'
<1> DEFINE x == [id |-> held[Stream], text |-> Stream, overtaken |-> held[Stream] < top]
<1>1. /\ PushDiagnostic(Stream, Silent) /\ errors' = RecordError(errors, "lagged")
      /\ UNCHANGED <<watchVars, lives, conn, seen, old>>
  BY DEF TellLag
<1>2. Stream \in Threads /\ Stream \notin Writers /\ Silent # HasLogged
  BY DiagnosticsAssumption DEF Threads, Stream, Silent, HasLogged, DiagnosticsAssumption
<1>3. /\ Around' \subseteq Around \cup {x}
      /\ ring' \in Seq(Diagnostic) /\ Len(ring') <= MaxDiagnostics
      /\ top' \in 0..(next' - 1) /\ published' \in 0..top' /\ next' = next
      /\ held' \in [Threads -> -1..(next' - 1)]
      /\ held' = [held EXCEPT ![Stream] = Silent]
      /\ IdInv' /\ RingInv' /\ WatchInv' /\ StreamInv'
  BY <1>1, <1>2, PushInv
<1>4. x.text = Stream
  OBVIOUS
<1> HIDE DEF x
<1>5. /\ \A w \in Writers : held'[w] = held[w]
      /\ \A d \in Around' : d.text \in Writers => d \in Around
  BY <1>2, <1>3, <1>4 DEF DiagInv, DiagTypeOK, Threads
<1>6. ErrorLogInv' /\ errors' \in Seq(ErrorEntry) /\ Len(errors') <= MaxErrors
  BY <1>1, <1>5, OwnError
<1>7. DiagTypeOK'
  BY <1>1, <1>3, <1>6 DEF DiagInv, DiagTypeOK, watchVars
<1> QED BY <1>3, <1>6, <1>7 DEF DiagInv

LEMMA LoseInv ==
  ASSUME DiagInv, LoseStream
  PROVE  DiagInv'
<1> USE DEF threadVars, watchVars
<1>1. /\ UNCHANGED <<next, held, ring, top, published, batch, lives, seen, old>>
      /\ conn' = Away /\ errors' = RecordError(errors, "lost")
  BY DEF LoseStream
<1>2. Around' \subseteq Around
  BY <1>1 DEF Around, Away, In
<1>3. ErrorLogInv' /\ errors' \in Seq(ErrorEntry) /\ Len(errors') <= MaxErrors
  BY <1>1, <1>2, OwnError
<1>4. DiagTypeOK'
  BY <1>1, <1>3, DiagnosticsAssumption DEF DiagInv, DiagTypeOK, Away, DiagnosticsAssumption
<1>5. IdInv' /\ RingInv' /\ WatchInv'
  BY <1>1, <1>2, IdKept DEF DiagInv, RingInv, WatchInv
<1>6. StreamInv'
  BY <1>1 DEF StreamInv, Away
<1> QED BY <1>3, <1>4, <1>5, <1>6 DEF DiagInv

----------------------------------------------------------------------------
(* The types and the invariant above hold of every state. *)
THEOREM DiagInvariantHolds == DiagSpec => []DiagInv
<1>1. DiagInv /\ [DiagNext]_diagVars => DiagInv'
  <2> SUFFICES ASSUME DiagInv, [DiagNext]_diagVars PROVE DiagInv'
    OBVIOUS
  <2>1. CASE UNCHANGED diagVars
    <3> USE <2>1 DEF diagVars, threadVars, watchVars, monitorVars
    <3>1. Around' = Around
      BY DEF Around
    <3> QED BY <3>1, IdKept, LogKept DEF DiagInv, DiagTypeOK, RingInv, WatchInv, StreamInv
  <2>2. CASE DiagNext
    BY <2>2, WriterInv, CopyInv, ForwardInv, RestartInv, ConnectInv, RecvInv, NoticeInv, TellInv, LoseInv
       DEF DiagNext
  <2> QED BY <2>1, <2>2
<1> QED BY <1>1, DiagInitInv, PTL DEF DiagSpec

(* A failure that entered the ring in order, and that the watch has passed, is in the log
   of a monitor whose stream is whole, once, or on its way: the watch passes over none
   that entered in order, the replay brings what was published before the subscription,
   and an id names one diagnostic in a life of the server. *)
THEOREM FailuresReachTheLog == DiagSpec => []FailuresShownOnce
<1>1. DiagInv => FailuresShownOnce
  <2> SUFFICES ASSUME DiagInv, conn.at = "live" /\ conn.whole, Len(errors) < MaxErrors,
                      NEW i \in DOMAIN ring, ring[i].text \in Writers,
                      ~ring[i].overtaken, ring[i].id \notin old, ~(ring[i].id > published)
               PROVE  InTransit(ring[i]) \/ ShownOnce(ring[i])
    BY DEF FailuresShownOnce
  <2>1. ring[i] \in In(ring) /\ ring[i] \in Around
    BY DEF In, Around
  <2>2. CASE ring[i].id \in seen
    BY <2>1, <2>2 DEF DiagInv, ErrorLogInv
  <2>3. CASE ring[i] \in In(conn.replay) \cup In(conn.queue)
    <3>1. conn.replay \in Seq(Diagnostic) /\ conn.queue \in Seq(Diagnostic)
      BY DEF DiagInv, DiagTypeOK
    <3> QED BY <2>3, <3>1 DEF In, InTransit, Contains
  <2> QED BY <2>1, <2>2, <2>3 DEF DiagInv, StreamInv
<1> QED BY <1>1, DiagInvariantHolds, PTL
=============================================================================
