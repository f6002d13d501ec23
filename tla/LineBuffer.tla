----------------------------- MODULE LineBuffer -----------------------------
(***************************************************************************)
(* A job's output history (job.rs: Spill, LineBuffer): a ring of the most  *)
(* recent `Cap` lines, and, when the sidecar spills, an append-only file   *)
(* that takes the lines the ring evicts.                                   *)
(*                                                                         *)
(* A line is its logical index.  A record of the spill file takes one unit *)
(* of its length, so that an offset is the number of records before it.    *)
(***************************************************************************)
EXTENDS Integers, Sequences, FiniteSets

CONSTANTS
  Cap,         \* lines kept in memory (`cap.max(1)`)
  Spilling,    \* the job was given a spill path
  ReadMayFail, \* reading the spill file back may fail
  MaxLines,    \* bound: lines the job prints
  Torn         \* a record that was only partly written

ASSUME CapAssumption == Cap \in Nat \ {0} /\ MaxLines \in Nat
ASSUME SpillAssumption == /\ Spilling \in BOOLEAN /\ ReadMayFail \in BOOLEAN
                          /\ Torn \notin Nat

VARIABLES
  recent,      \* the ring, oldest line first
  total,       \* lines ever pushed, and the next line's index
  enabled,     \* Spill::enabled; FALSE too for a job without one
  offsets,     \* offsets[i + 1] is the offset of spilled line i
  spilledLen,  \* Spill::len
  disk         \* the records of the spill file

bufferVars == <<recent, total, enabled, offsets, spilledLen, disk>>

(* Index of the oldest line in memory: the number of lines evicted. *)
FirstIndex == total - Len(recent)

BufferTypeOK ==
  /\ recent \in Seq(Nat) /\ Len(recent) <= Cap
  /\ total \in Nat
  /\ enabled \in BOOLEAN
  /\ offsets \in Seq(Nat)
  /\ spilledLen \in Nat
  /\ disk \in Seq(Nat \cup {Torn})

BufferInit ==
  /\ recent = <<>> /\ total = 0
  /\ enabled = Spilling
  /\ offsets = <<>> /\ spilledLen = 0 /\ disk = <<>>

(* Opening the file, encoding or writing failed.  `write_all` may have got
   part of the record out; spilling stops for good. *)
SpillFails(line) ==
  /\ enabled' = FALSE
  /\ disk' \in {disk, Append(disk, Torn)}
  /\ UNCHANGED <<offsets, spilledLen>>

(* Spill::append. *)
SpillAppend(line) ==
  \/ /\ disk' = Append(disk, line)
     /\ offsets' = Append(offsets, spilledLen)
     /\ spilledLen' = spilledLen + 1
     /\ UNCHANGED enabled
  \/ SpillFails(line)

(* LineBuffer::push.  The ring is over its cap by one line at the most. *)
Push ==
  LET pushed == Append(recent, total) IN
  /\ total' = total + 1
  /\ \/ /\ Len(pushed) <= Cap
        /\ recent' = pushed
        /\ UNCHANGED <<enabled, offsets, spilledLen, disk>>
     \/ /\ Len(pushed) > Cap
        /\ recent' = Tail(pushed)
        /\ \/ enabled /\ SpillAppend(Head(pushed))
           \/ ~enabled /\ UNCHANGED <<enabled, offsets, spilledLen, disk>>

(* A read window: lines already in memory, and `count` records of the file
   from `offset` on, to be read after the lock is released. *)
Window(mem, offset, count, next, dropped) ==
  [mem |-> mem, offset |-> offset, count |-> count, next |-> next,
   dropped |-> dropped, panics |-> FALSE]
WindowSet == [mem : SUBSET Nat, offset : Nat, count : Nat, next : Nat,
              dropped : Nat, panics : BOOLEAN]

(* Planning one indexes out of range: the request's task panics. *)
PlanPanic == [mem |-> {}, offset |-> 0, count |-> 0, next |-> 0, dropped |-> 0,
              panics |-> TRUE]

(* The lines in memory with an index in from..end-1. *)
InMemory(from, end) == {recent[i - FirstIndex + 1] : i \in from..(end - 1)}

Least(a, b) == IF a <= b THEN a ELSE b
Most(a, b)  == IF a >= b THEN a ELSE b

(* Mutant: a job that was given a spill file is taken never to drop. *)
DroppedIfNeverSpilling == IF Spilling THEN 0 ELSE FirstIndex

(* Lines that can no longer be read. *)
Dropped == IF enabled THEN 0 ELSE FirstIndex

(* Mutant: the window is not cut where memory begins. *)
DiskEndUncut(end) == end

DiskEnd(end) == Least(end, FirstIndex)

(* LineBuffer::plan. *)
Plan(from, max) ==
  LET end == Least(from + max, total) IN
  CASE from >= end -> Window({}, 0, 0, total, Dropped)
    [] from < end /\ enabled /\ from < FirstIndex ->
         Window(InMemory(FirstIndex, end), offsets[from + 1], DiskEnd(end) - from,
                end, Dropped)
    [] from < end /\ ~(enabled /\ from < FirstIndex) /\ end >= FirstIndex ->
         Window(InMemory(Most(from, FirstIndex), end), 0, 0, end, Dropped)
    [] OTHER -> PlanPanic

(* The records read_spilled finds. *)
OnDisk(w) == {disk[k] : k \in ((w.offset + 1)..(w.offset + w.count)) \cap DOMAIN disk}

Readable(w) == w.offset + w.count <= Len(disk) /\ Torn \notin OnDisk(w)

(* What Job::read_window may return for a window, when the lock is long
   released: the spilled lines, all of them or on any error none, and then the
   lines from memory. *)
LinesRead(w) ==
  (IF Readable(w) THEN {OnDisk(w) \cup w.mem} ELSE {w.mem})
    \cup (IF ReadMayFail THEN {w.mem} ELSE {})

----------------------------------------------------------------------------
(* Properties of the buffer. *)

(* What a window planned from `from` delivers is settled, whatever happens to
   the buffer before it is read: given the file `d`, the offsets `offs` and `n`
   lines by now, each line from `from`, or from the end of the gap, to `next`. *)
Planned(d, offs, n, w, from) ==
  LET found == {d[k] : k \in ((w.offset + 1)..(w.offset + w.count)) \cap DOMAIN d} IN
  /\ w \in WindowSet
  /\ w.next <= n /\ w.dropped <= w.next /\ w.offset + w.count <= Len(offs)
  /\ found \cap w.mem = {} /\ found \cup w.mem = Most(from, w.dropped)..(w.next - 1)
  /\ \E first \in from..w.next : w.mem = first..(w.next - 1)

(* The ring is the tail of the history: a poll that asks for an index gets the
   line with that index (job.rs: "a line's logical index is a monotonic counter
   independent of its physical slot, so ?from=N polling stays correct"). *)
RingIsTail ==
  /\ Len(recent) = Least(total, Cap)
  /\ \A i \in 1..Len(recent) : recent[i] = FirstIndex + i - 1

(* job.rs, Spill: "the invariant offsets.len() == first_index (every evicted
   line was spilled) holds as long as `enabled` is true", and every offset leads
   to the record of its line, whatever failed before and since. *)
SpillIsIndexed ==
  /\ enabled => Len(offsets) = FirstIndex /\ Len(disk) = FirstIndex
  /\ Len(offsets) = spilledLen /\ Len(offsets) <= FirstIndex /\ Len(offsets) <= Len(disk)
  /\ \A i \in 1..Len(offsets) : offsets[i] = i - 1 /\ disk[i] = i - 1
=============================================================================
