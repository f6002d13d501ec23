----------------------------- MODULE MetricsStore -----------------------------
(***************************************************************************)
(* The durable call metrics (metrics.rs): every completed call is appended *)
(* to a log, and the rollup task moves completed days from the log into    *)
(* partitions of immutable files.  Appends may be torn, any file operation *)
(* of a compaction may fail, and the process may die between two of them.  *)
(*                                                                         *)
(* A call stands for its record; a line of the log says which records have *)
(* bytes in it and whether it parses.  A record becomes visible in a       *)
(* partition by a rename and leaves the log by a rename, so what a crash   *)
(* leaves of a temporary file is read by nobody and not represented.       *)
(***************************************************************************)
EXTENDS Naturals, FiniteSets, SequencesExt

CONSTANTS
  Calls,
  LastDay,     \* bound: days that pass
  MaxFaults    \* bound: torn appends, failed operations and crashes

ASSUME MetricsAssumption == LastDay \in Nat /\ MaxFaults \in Nat

Days == 0..LastDay

VARIABLES
  log,       \* calls.jsonl, a sequence of lines
  archive,   \* the partitions: for each day its files, each a set of calls
  today,     \* the clock
  day,       \* the day a recorded call started
  pending,   \* calls not recorded yet
  acked,     \* calls whose append succeeded
  torn,      \* calls whose append failed
  rollup,    \* the rollup task: "idle", "waiting", "sealing" or "rewriting"
  cutoff,    \* compact's `today`
  groups,    \* compact's `by_date`: the days still to be sealed
  records,   \* compact's copy of the log, line by line
  faults,    \* faults so far
  broken,    \* history: a compaction ended between a seal and the rewrite
  split      \* history: an append was torn in the middle of a character

rollupVars == <<rollup, cutoff, groups, records>>
fileVars == <<log, archive>>
callVars == <<day, pending, acked, torn>>
storeVars == <<fileVars, today, callVars, rollupVars, faults, broken, split>>

----------------------------------------------------------------------------
(* A line: the records it has bytes of, whether it has its newline, whether it
   parses as one record and whether it is text at all. *)
Line(calls, ends, parses, utf8) ==
  [calls |-> calls, ends |-> ends, parses |-> parses, utf8 |-> utf8]

Lines == [calls : SUBSET Calls, ends : BOOLEAN, parses : BOOLEAN, utf8 : BOOLEAN]

Open(lines) == lines # <<>> /\ ~lines[Len(lines)].ends

(* Bytes appended to the file: they join a line that has no newline yet. *)
Write(lines, line) ==
  IF Open(lines)
  THEN [lines EXCEPT ![Len(lines)] =
          Line(@.calls \cup line.calls, line.ends, FALSE, @.utf8 /\ line.utf8)]
  ELSE Append(lines, line)

(* read_log: the lines that parse, before the first that is not text, which
   ends the read (map_while). *)
Rows(lines) ==
  {i \in DOMAIN lines : lines[i].parses /\ \A j \in 1..i : lines[j].utf8}
ReadLog(lines) == UNION {lines[i].calls : i \in Rows(lines)}

(* Rows of the log and of the archive. *)
Logged == ReadLog(log)
Partition(d) == UNION {archive[d][i] : i \in DOMAIN archive[d]}
Archived == UNION {Partition(d) : d \in Days}

StoreTypeOK ==
  /\ log \in Seq(Lines) /\ records \in Seq(Lines)
  /\ archive \in [Days -> Seq(SUBSET Calls)]
  /\ today \in Days /\ cutoff \in 0..today /\ day \in [Calls -> Days]
  /\ acked \in SUBSET Calls /\ torn \in SUBSET Calls /\ acked \cap torn = {}
  /\ pending = Calls \ (acked \cup torn)
  /\ rollup \in {"idle", "waiting", "sealing", "rewriting"}
  /\ groups \in SUBSET (0..(cutoff - 1))
  /\ faults \in 0..MaxFaults /\ broken \in BOOLEAN /\ split \in BOOLEAN

StoreInit ==
  /\ log = <<>> /\ archive = [d \in Days |-> <<>>]
  /\ today = 0 /\ day = [c \in Calls |-> 0]
  /\ pending = Calls /\ acked = {} /\ torn = {}
  /\ rollup = "idle" /\ cutoff = 0 /\ groups = {} /\ records = <<>>
  /\ faults = 0 /\ broken = FALSE /\ split = FALSE

----------------------------------------------------------------------------
(* The mutex serializes appends against compactions. *)
Locked == rollup \in {"sealing", "rewriting"}

Started(c, d) ==
  /\ c \in pending
  /\ d <= today
  /\ day' = [day EXCEPT ![c] = d]
  /\ pending' = pending \ {c}

(* record: the call is dated by its start, which may be some days ago. *)
AppendLine(c, d) ==
  /\ Started(c, d)
  /\ log' = Write(log, Line({c}, TRUE, TRUE, TRUE))
  /\ acked' = acked \cup {c}
  /\ UNCHANGED <<archive, today, torn, rollupVars, faults, broken, split>>

(* Mutant: the append does not take the lock. *)
RecordUnlocked(c, d) == AppendLine(c, d)
Record(c, d) == ~Locked /\ AppendLine(c, d)

Fault == faults < MaxFaults /\ faults' = faults + 1

(* write_all fails after some bytes, or the process dies there: a part of the
   record, perhaps half a character, perhaps all but the newline. *)
Tear(c, d) ==
  /\ ~Locked
  /\ Fault
  /\ Started(c, d)
  /\ torn' = torn \cup {c}
  /\ \/ UNCHANGED <<log, split>>
     \/ /\ \E whole \in BOOLEAN : log' = Write(log, Line({c}, FALSE, whole, TRUE))
        /\ UNCHANGED split
     \/ log' = Write(log, Line({c}, FALSE, FALSE, FALSE)) /\ split' = TRUE
  /\ UNCHANGED <<archive, today, acked, rollupVars, broken>>

NextDay ==
  /\ today < LastDay
  /\ today' = today + 1
  /\ UNCHANGED <<fileVars, callVars, rollupVars, faults, broken, split>>

(* The rollup task ticks: the day is read before the lock is taken. *)
RollupTick ==
  /\ rollup = "idle"
  /\ cutoff' = today
  /\ rollup' = "waiting"
  /\ UNCHANGED <<fileVars, today, callVars, groups, records, faults, broken, split>>

Past(calls) == {c \in calls : day[c] < cutoff}

(* compact: lock, read the log, group the past days. *)
Compact ==
  /\ rollup = "waiting"
  /\ LET days == {day[c] : c \in Past(Logged)} IN
     IF days = {}
     THEN rollup' = "idle" /\ UNCHANGED <<records, groups>>
     ELSE rollup' = "sealing" /\ records' = log /\ groups' = days
  /\ UNCHANGED <<fileVars, today, callVars, cutoff, faults, broken, split>>

Batch(d) == {c \in ReadLog(records) : day[c] = d}

(* Days are sealed in order. *)
NextGroup(d) == d \in groups /\ \A e \in groups : d <= e
Sealed(d) == /\ groups' = groups \ {d}
             /\ rollup' = IF groups = {d} THEN "rewriting" ELSE "sealing"

(* Mutant: the partition's file is written over. *)
SealOver(d) ==
  /\ rollup = "sealing" /\ NextGroup(d)
  /\ archive' = [archive EXCEPT ![d] = <<Batch(d)>>]
  /\ Sealed(d)
  /\ UNCHANGED <<log, today, callVars, cutoff, records, faults, broken, split>>

(* write_parquet to the next free file name of the day's partition. *)
Seal(d) ==
  /\ rollup = "sealing" /\ NextGroup(d)
  /\ archive' = [archive EXCEPT ![d] = Append(@, Batch(d))]
  /\ Sealed(d)
  /\ UNCHANGED <<log, today, callVars, cutoff, records, faults, broken, split>>

(* The rows of the given lines in their order, one to a line. *)
Orders(rows) ==
  {seq \in [1..Cardinality(rows) -> rows] :
     /\ \A i \in rows : \E k \in DOMAIN seq : seq[k] = i
     /\ \A i, j \in DOMAIN seq : i < j => seq[i] < seq[j]}

(* The log becomes what is still open, renamed into place. *)
RewriteAs(kept) ==
  /\ rollup = "rewriting"
  /\ \E rows \in Orders(kept) :
       log' = [k \in DOMAIN rows |-> Line(records[rows[k]].calls, TRUE, TRUE, TRUE)]
  /\ rollup' = "idle"
  /\ records' = <<>>
  /\ UNCHANGED <<archive, today, callVars, cutoff, groups, faults, broken, split>>

Kept == {i \in Rows(records) : \A c \in records[i].calls : day[c] >= cutoff}
(* Mutant: nothing is written when no row is open. *)
RewriteSome == RewriteAs(IF Kept = {} THEN Rows(records) ELSE Kept)
Rewrite == RewriteAs(Kept)

(* A group of the running compaction is sealed already. *)
HalfSealed == Locked /\ groups # {day[c] : c \in Past(ReadLog(records))}

Stop(state) ==
  /\ rollup # "idle"
  /\ Fault
  /\ broken' = (broken \/ HalfSealed)
  /\ rollup' = state /\ records' = <<>> /\ groups' = {}
  /\ UNCHANGED <<fileVars, today, callVars, cutoff, split>>

(* Mutant: the rollup task ends at its first error. *)
InterruptedEnds == Stop("ended")
(* An operation of the compaction fails, or the process dies and starts again:
   what the compaction held in memory is gone and the lock is free. *)
Interrupted == Stop("idle")

Rollup == RollupTick \/ Compact \/ (\E d \in Days : Seal(d)) \/ Rewrite

StoreNext ==
  \/ \E c \in Calls, d \in Days : Record(c, d) \/ Tear(c, d)
  \/ NextDay \/ Rollup \/ Interrupted

StoreSpec == StoreInit /\ [][StoreNext]_storeVars
(* The rollup task ticks for as long as the process runs; faults are bounded. *)
StoreFairSpec == StoreSpec /\ WF_storeVars(Rollup)

----------------------------------------------------------------------------
(* Properties. *)

(* Unless an append was torn in the middle of a character, of the calls whose
   append succeeded no more are lost than appends were torn, whatever else fails
   or dies and whenever: the record that joins a torn line.  Compaction loses
   none (metrics.rs, compact: "a crash mid-write cannot truncate the history that
   was not yet sealed"). *)
Lost == acked \ (Logged \cup Archived)
LossIsBounded == ~split => Cardinality(Lost) <= Cardinality(torn)

(* The same of every torn append, as the reader of the log has it (metrics.rs,
   read_log: "a torn final write costs one record, not the whole history").  It
   fails: a line that is not text ends the read, so one append torn inside a
   character hides every later record, and the next rewrite drops them. *)
TornCostsOneRecord == Cardinality(Lost) <= Cardinality(torn)

(* A sealed row stays where it is: no later batch for the same day, no retry and
   no crash takes it away (metrics.rs, compact: "overwriting would silently drop
   the rows already sealed"). *)
SealedStays == [][\A d \in Days : Partition(d) \subseteq Partition(d)']_storeVars

(* As long as no compaction was cut short between sealing a day and rewriting the
   log, no row is in two files of the archive, in two lines of the log or in
   both while no compaction runs, be it a late row of a day already sealed or one
   of a second batch: a query over log and partitions counts each call once. *)
CountedOnce ==
  ~broken /\ ~Locked =>
    /\ \A d, e \in Days : \A i \in DOMAIN archive[d], j \in DOMAIN archive[e] :
         <<d, i>> # <<e, j>> => archive[d][i] \cap archive[e][j] = {}
    /\ \A i, j \in Rows(log) : i # j => log[i].calls \cap log[j].calls = {}
    /\ Logged \cap Archived = {}

(* A whole line of a past day gets into its partition, whatever faults come
   before (metrics.rs, spawn_rollup). *)
PastDaysSealed ==
  \A c \in Calls :
    (c \in Logged /\ day[c] < today /\ (Open(log) => c \notin log[Len(log)].calls))
      ~> (c \in Archived)

----------------------------------------------------------------------------
(* The invariants that the proofs of the properties rest on. *)

(* The lines of the log: a row is one call, no call is in two lines, the lines
   but the last have their newline and what lacks one was torn. *)
LogInv ==
  /\ \A i \in DOMAIN log :
       /\ log[i].calls # {} /\ log[i].calls \subseteq acked \cup torn
       /\ log[i].parses => \E c \in Calls : log[i].calls = {c}
       /\ ~log[i].ends => i = Len(log) /\ log[i].calls \subseteq torn
  /\ \A i, j \in DOMAIN log : i # j => log[i].calls \cap log[j].calls = {}

(* The rows of the archive are calls of their day. *)
ArchiveInv ==
  \A d \in Days : \A c \in Partition(d) : c \in acked \cup torn /\ day[c] = d

(* A compaction works on what the log holds, and what it is to take out of the
   log is sealed or in a group still to come. *)
CompactInv ==
  /\ Locked => records = log
  /\ rollup = "rewriting" => groups = {}
  /\ Locked => \A c \in Past(Logged) : day[c] \in groups \/ c \in Archived

(* CountedOnce at every moment: while a compaction runs the rows it has sealed
   are still in the log. *)
OnceInv ==
  ~broken =>
    /\ \A d, e \in Days : \A i \in DOMAIN archive[d], j \in DOMAIN archive[e] :
         <<d, i>> # <<e, j>> => archive[d][i] \cap archive[e][j] = {}
    /\ \A c \in Logged \cap Archived : Locked /\ c \in Past(Logged) /\ day[c] \notin groups

StoreInv == StoreTypeOK /\ LogInv /\ ArchiveInv /\ CompactInv /\ OnceInv

(* LossIsBounded, with the torn line that may still cost a record. *)
LossInv ==
  /\ IsFiniteSet(acked) /\ IsFiniteSet(torn)
  /\ ~split =>
       /\ \A i \in DOMAIN log : log[i].utf8
       /\ Cardinality(Lost) + (IF Open(log) THEN 1 ELSE 0) <= Cardinality(torn)
=============================================================================
