---------------------------- MODULE BufferProofs ----------------------------
(***************************************************************************)
(* Lemmas about the line buffer and the windows planned on it, for every   *)
(* cap and sequence of disk errors; what its readers' proofs share.        *)
(***************************************************************************)
EXTENDS LineBuffer, TLAPS

BufferInv == BufferTypeOK /\ RingIsTail /\ SpillIsIndexed

LEMMA LeastFacts ==
  ASSUME NEW a \in Int, NEW b \in Int
  PROVE  /\ Least(a, b) \in {a, b} /\ Least(a, b) <= a /\ Least(a, b) <= b
         /\ Most(a, b) \in {a, b} /\ Most(a, b) >= a /\ Most(a, b) >= b
  BY DEF Least, Most

LEMMA BufferInitInv == BufferInit => BufferInv
<1> SUFFICES ASSUME BufferInit PROVE BufferInv
  OBVIOUS
<1>1. BufferTypeOK
  BY CapAssumption, SpillAssumption DEF BufferInit, BufferTypeOK
<1>2. RingIsTail
  BY CapAssumption DEF BufferInit, RingIsTail, FirstIndex, Least
<1>3. Len(offsets) = 0 /\ Len(disk) = 0 /\ FirstIndex = 0 /\ spilledLen = 0
  <2>1. Len(offsets) = 0 /\ Len(disk) = 0 /\ Len(recent) = 0 /\ spilledLen = 0 /\ total = 0
    BY DEF BufferInit
  <2>. QED  BY <2>1 DEF FirstIndex
<1>4. SpillIsIndexed
  BY <1>3 DEF SpillIsIndexed
<1>. QED  BY <1>1, <1>2, <1>4 DEF BufferInv

(* A line pushed while there is room. *)
LEMMA PushWithRoom ==
  ASSUME BufferInv, Push, Len(recent) < Cap
  PROVE  BufferInv'
<1> USE CapAssumption
<1>t. /\ recent \in Seq(Nat) /\ total \in Nat /\ Len(recent) \in Nat
      /\ BufferTypeOK
  BY DEF BufferInv, BufferTypeOK
<1>0. /\ total' = total + 1 /\ recent' = Append(recent, total)
      /\ UNCHANGED <<enabled, offsets, spilledLen, disk>>
  <2>1. Len(Append(recent, total)) = Len(recent) + 1
    BY <1>t
  <2>. QED  BY <1>t, <2>1 DEF Push
<1>1. /\ recent' \in Seq(Nat) /\ Len(recent') = Len(recent) + 1
      /\ \A i \in 1..Len(recent) : recent'[i] = recent[i]
      /\ recent'[Len(recent) + 1] = total
  BY <1>0, <1>t
<1>2. Len(recent) = total
  BY <1>t DEF BufferInv, RingIsTail, Least
<1>3. FirstIndex = 0 /\ FirstIndex' = 0
  BY <1>0, <1>1, <1>2, <1>t DEF FirstIndex
<1>4. BufferTypeOK'
  BY <1>0, <1>1, <1>t DEF BufferTypeOK
<1>5. RingIsTail'
  <2>1. \A i \in 1..Len(recent) : recent[i] = i - 1
    BY <1>3, <1>t DEF BufferInv, RingIsTail
  <2>2. \A i \in 1..Len(recent') : recent'[i] = FirstIndex' + i - 1
    BY <2>1, <1>1, <1>2, <1>3, <1>t
  <2>3. Len(recent') = Least(total', Cap)
    BY <1>0, <1>1, <1>2, <1>t DEF Least
  <2>. QED  BY <2>2, <2>3 DEF RingIsTail
<1>6. SpillIsIndexed'
  BY <1>0, <1>3 DEF BufferInv, SpillIsIndexed
<1>. QED  BY <1>4, <1>5, <1>6 DEF BufferInv

(* A line pushed into a full ring evicts the oldest, to disk if it can. *)
LEMMA PushWhenFull ==
  ASSUME BufferInv, Push, Len(recent) = Cap
  PROVE  BufferInv'
<1> USE CapAssumption
<1>t. /\ recent \in Seq(Nat) /\ total \in Nat /\ enabled \in BOOLEAN
      /\ offsets \in Seq(Nat) /\ spilledLen \in Nat /\ disk \in Seq(Nat \cup {Torn})
  BY DEF BufferInv, BufferTypeOK
<1> DEFINE pushed == Append(recent, total)
<1>1. /\ pushed \in Seq(Nat) /\ Len(pushed) = Cap + 1
      /\ \A i \in 1..Cap : pushed[i] = recent[i]
      /\ pushed[Cap + 1] = total
  BY <1>t
<1>3. total' = total + 1 /\ recent' = Tail(pushed)
  BY <1>1 DEF Push
<1>2. \/ enabled /\ SpillAppend(Head(pushed))
      \/ ~enabled /\ UNCHANGED <<enabled, offsets, spilledLen, disk>>
  BY <1>1 DEF Push
<1> HIDE DEF pushed
<1>0. Head(pushed) = recent[1]
  BY <1>1
<1>4. /\ recent' \in Seq(Nat) /\ Len(recent') = Cap
      /\ \A i \in 1..Cap : recent'[i] = pushed[i + 1]
  BY <1>1, <1>3
<1>5. Cap <= total /\ \A i \in 1..Cap : recent[i] = total - Cap + i - 1
  <2>1. Len(recent) = Least(total, Cap) /\ \A i \in 1..Cap : recent[i] = total - Cap + i - 1
    BY DEF BufferInv, RingIsTail, FirstIndex
  <2>. QED  BY <1>t, <2>1 DEF Least
<1>6. FirstIndex = total - Cap /\ FirstIndex' = total - Cap + 1
  <2>1. total' = total + 1 /\ Len(recent') = Cap
    BY <1>3, <1>4
  <2>. QED  BY <2>1, <1>t DEF FirstIndex
<1>7. recent[1] = FirstIndex /\ FirstIndex \in Nat
  BY <1>5, <1>6, <1>t
<1>8. RingIsTail'
  <2>1. \A i \in 1..Cap : pushed[i + 1] = total - Cap + i
    <3> TAKE i \in 1..Cap
    <3>1. CASE i = Cap
      BY <3>1, <1>1, <1>t
    <3>2. CASE i < Cap
      <4>1. i + 1 \in 1..Cap
        BY <3>2
      <4>. QED  BY <4>1, <1>1, <1>5, <1>t
    <3>. QED  BY <3>1, <3>2
  <2>2. \A i \in 1..Len(recent') : recent'[i] = FirstIndex' + i - 1
    <3>1. \A i \in 1..Cap : recent'[i] = total - Cap + i
      BY <1>4, <2>1
    <3>. QED  BY <1>4, <1>6, <1>t, <3>1
  <2>3. Len(recent') = Least(total', Cap)
    BY <1>3, <1>4, <1>5, <1>t DEF Least
  <2>. QED  BY <2>2, <2>3 DEF RingIsTail
<1>s. /\ enabled => Len(offsets) = FirstIndex /\ Len(disk) = FirstIndex
      /\ Len(offsets) = spilledLen /\ Len(offsets) <= FirstIndex /\ Len(offsets) <= Len(disk)
      /\ \A i \in 1..Len(offsets) : offsets[i] = i - 1 /\ disk[i] = i - 1
  BY DEF BufferInv, SpillIsIndexed
<1>9. CASE /\ enabled /\ disk' = Append(disk, recent[1])
           /\ offsets' = Append(offsets, spilledLen)
           /\ spilledLen' = spilledLen + 1 /\ enabled' = enabled
  <2>1. /\ disk' \in Seq(Nat \cup {Torn}) /\ Len(disk') = Len(disk) + 1
        /\ \A i \in 1..Len(disk) : disk'[i] = disk[i]
        /\ disk'[Len(disk) + 1] = FirstIndex
    BY <1>7, <1>9, <1>t
  <2>2. /\ offsets' \in Seq(Nat) /\ Len(offsets') = Len(offsets) + 1
        /\ \A i \in 1..Len(offsets) : offsets'[i] = offsets[i]
        /\ offsets'[Len(offsets) + 1] = spilledLen
    BY <1>9, <1>t
  <2>3. BufferTypeOK'
    <3>1. total' \in Nat /\ spilledLen' \in Nat /\ enabled' \in BOOLEAN
      BY <1>3, <1>9, <1>t
    <3>. QED  BY <1>4, <2>1, <2>2, <3>1 DEF BufferTypeOK
  <2>4. \A i \in 1..Len(offsets') : offsets'[i] = i - 1 /\ disk'[i] = i - 1
    <3> TAKE i \in 1..Len(offsets')
    <3>1. CASE i \in 1..Len(offsets)
      BY <3>1, <1>9, <1>s, <2>1, <2>2, <1>t
    <3>2. CASE i = Len(offsets) + 1
      BY <3>2, <1>9, <1>s, <2>1, <2>2, <1>t
    <3>. QED  BY <3>1, <3>2, <2>2, <1>t
  <2>5. SpillIsIndexed'
    <3>1. FirstIndex' = FirstIndex + 1
      BY <1>6, <1>t
    <3>2. /\ Len(offsets') = FirstIndex' /\ Len(disk') = FirstIndex'
          /\ Len(offsets') = spilledLen'
      BY <1>9, <1>s, <2>1, <2>2, <3>1, <1>t
    <3>. QED  BY <2>4, <3>1, <3>2, <1>7 DEF SpillIsIndexed
  <2>. QED  BY <1>8, <2>3, <2>5 DEF BufferInv
<1>10. CASE SpillFails(recent[1])
  <2>1. /\ disk' \in Seq(Nat \cup {Torn}) /\ Len(disk') >= Len(disk)
        /\ \A i \in 1..Len(disk) : disk'[i] = disk[i]
    <3>1. CASE disk' = disk
      BY <3>1, <1>t
    <3>2. CASE disk' = Append(disk, Torn)
      BY <3>2, <1>t
    <3>. QED  BY <1>10, <3>1, <3>2 DEF SpillFails
  <2>2. enabled' = FALSE /\ offsets' = offsets /\ spilledLen' = spilledLen
    BY <1>10 DEF SpillFails
  <2>3. BufferTypeOK'
    <3>1. total' \in Nat
      BY <1>3, <1>t
    <3>2. enabled' \in BOOLEAN /\ offsets' \in Seq(Nat) /\ spilledLen' \in Nat
      BY <1>t, <2>2
    <3>. QED  BY <1>4, <2>1, <3>1, <3>2 DEF BufferTypeOK
  <2>4. SpillIsIndexed'
    BY <1>6, <1>7, <1>s, <1>t, <2>1, <2>2 DEF SpillIsIndexed
  <2>. QED  BY <1>8, <2>3, <2>4 DEF BufferInv
<1>11. CASE ~enabled /\ UNCHANGED <<enabled, offsets, spilledLen, disk>>
  <2>1. BufferTypeOK'
    <3>1. total' \in Nat
      BY <1>3, <1>t
    <3>. QED  BY <1>4, <1>11, <1>t, <3>1 DEF BufferTypeOK
  <2>2. SpillIsIndexed'
    BY <1>6, <1>7, <1>s, <1>11 DEF SpillIsIndexed
  <2>. QED  BY <1>8, <2>1, <2>2 DEF BufferInv
<1>. QED  BY <1>0, <1>2, <1>9, <1>10, <1>11 DEF SpillAppend

LEMMA PushInv == BufferInv /\ Push => BufferInv'
<1>1. BufferInv => Len(recent) \in Nat /\ Len(recent) <= Cap
  BY DEF BufferInv, BufferTypeOK
<1>. QED  BY <1>1, PushWithRoom, PushWhenFull, CapAssumption

(* What a plan finds on disk, now and after any number of pushes. *)
LEMMA OnDiskFacts ==
  ASSUME BufferInv, NEW w \in WindowSet, w.offset + w.count <= Len(offsets)
  PROVE  Readable(w) /\ OnDisk(w) = w.offset..(w.offset + w.count - 1)
<1>1. /\ disk \in Seq(Nat \cup {Torn}) /\ Len(offsets) \in Nat /\ Len(offsets) <= Len(disk)
      /\ \A i \in 1..Len(offsets) : disk[i] = i - 1
  BY DEF BufferInv, BufferTypeOK, SpillIsIndexed
<1>2. w.offset \in Nat /\ w.count \in Nat
  BY DEF WindowSet
<1>3. OnDisk(w) = w.offset..(w.offset + w.count - 1)
  <2>1. ASSUME NEW o \in Nat, NEW c \in Nat, o = w.offset, c = w.count
        PROVE  OnDisk(w) = o..(o + c - 1)
    <3>1. ((o + 1)..(o + c)) \cap DOMAIN disk = (o + 1)..(o + c)
      BY <1>1, <2>1
    <3>2. \A k \in (o + 1)..(o + c) : disk[k] = k - 1
      BY <1>1, <2>1
    <3>3. \A j \in o..(o + c - 1) : j + 1 \in (o + 1)..(o + c) /\ disk[j + 1] = j
      BY <3>2
    <3>4. OnDisk(w) = {disk[k] : k \in (o + 1)..(o + c)}
      BY <2>1, <3>1 DEF OnDisk
    <3>. QED  BY <3>2, <3>3, <3>4
  <2>. QED  BY <1>2, <2>1
<1>4. w.offset + w.count <= Len(disk) /\ Torn \notin w.offset..(w.offset + w.count - 1)
  <2>1. Len(disk) \in Nat
    BY <1>1
  <2>. QED  BY <1>1, <1>2, <2>1, SpillAssumption
<1>. QED  BY <1>3, <1>4 DEF Readable

(* The lines of the ring with indices in a range. *)
LEMMA InMemoryFacts ==
  ASSUME BufferInv, NEW from \in Nat, NEW end \in Nat, FirstIndex <= from, end <= total
  PROVE  InMemory(from, end) = from..(end - 1)
<1>1. /\ \A i \in 1..Len(recent) : recent[i] = FirstIndex + i - 1
      /\ FirstIndex \in Int /\ total = FirstIndex + Len(recent) /\ Len(recent) \in Nat
  BY DEF BufferInv, BufferTypeOK, RingIsTail, FirstIndex
<1>2. \A i \in from..(end - 1) : i - FirstIndex + 1 \in 1..Len(recent)
  BY <1>1
<1>3. \A i \in from..(end - 1) : recent[i - FirstIndex + 1] = i
  BY <1>1, <1>2
<1>. QED  BY <1>3 DEF InMemory

(* A plan that does not panic is exactly the window that was asked for. *)
LEMMA PlanFacts ==
  ASSUME BufferInv, NEW from \in Nat, NEW max \in Nat \ {0}, NEW w, w = Plan(from, max),
         ~w.panics
  PROVE  /\ w \in WindowSet
         /\ w.next <= total /\ w.dropped <= w.next
         /\ w.offset + w.count <= Len(offsets)
         /\ OnDisk(w) \cap w.mem = {}
         /\ OnDisk(w) \cup w.mem = Most(from, w.dropped)..(w.next - 1)
         /\ w.next = Least(from + max, total) /\ (enabled => w.dropped = 0)
         /\ from <= total => \E first \in from..w.next : w.mem = first..(w.next - 1)
<1> DEFINE end == Least(from + max, total)
<1>1. /\ total \in Nat /\ FirstIndex \in Nat /\ FirstIndex <= total /\ enabled \in BOOLEAN
      /\ Len(offsets) \in Nat
  <2>1. total \in Nat /\ Len(recent) \in Nat /\ enabled \in BOOLEAN /\ Len(offsets) \in Nat
    BY DEF BufferInv, BufferTypeOK
  <2>2. Len(recent) <= total
    BY <2>1, CapAssumption DEF BufferInv, RingIsTail, Least
  <2>. QED  BY <2>1, <2>2 DEF FirstIndex
<1>2. end \in Nat /\ end <= total /\ (from >= total => end = total)
      /\ (end # total => end = from + max)
  BY <1>1 DEF Least
<1>3. Dropped \in Nat /\ Dropped <= FirstIndex /\ (enabled => Dropped = 0)
      /\ (~enabled => Dropped = FirstIndex)
  BY <1>1 DEF Dropped
<1> HIDE DEF end
<1>4. CASE from >= end
  <2>1. w = Window({}, 0, 0, total, Dropped)
    BY <1>1, <1>2, <1>4 DEF Plan, end
  <2>2. /\ w \in WindowSet /\ w.mem = {} /\ w.offset = 0 /\ w.count = 0
        /\ w.next = total /\ w.dropped = Dropped
    BY <2>1, <1>1, <1>3 DEF Window, WindowSet
  <2>3. OnDisk(w) = {}
    <3>1. OnDisk(w) = 0..(0 - 1)
      BY <2>2, <1>1, OnDiskFacts DEF WindowSet
    <3>. QED  BY <3>1
  <2>4. from >= total
    BY <1>1, <1>2, <1>4
  <2>5. Most(from, w.dropped)..(w.next - 1) = {}
    BY <2>2, <2>4, <1>1, <1>3 DEF Most
  <2>6. w.next = end /\ (enabled => w.dropped = 0)
    BY <2>2, <2>4, <1>2, <1>3
  <2>7. from <= total => from \in from..w.next /\ w.mem = from..(w.next - 1)
    BY <2>2, <2>4, <1>1
  <2>. QED  BY <2>2, <2>3, <2>5, <2>6, <2>7, <1>1, <1>3 DEF end
<1>5. CASE from < end /\ enabled /\ from < FirstIndex
  <2>1. /\ Len(offsets) = FirstIndex /\ offsets[from + 1] = from
    <3>1. from + 1 \in 1..FirstIndex
      BY <1>1, <1>5
    <3>. QED  BY <1>5, <3>1 DEF BufferInv, SpillIsIndexed
  <2>2. w = Window(InMemory(FirstIndex, end), from, DiskEnd(end) - from, end, Dropped)
    BY <1>5, <2>1 DEF Plan, end
  <2>3. InMemory(FirstIndex, end) = FirstIndex..(end - 1)
    BY <1>1, <1>2, InMemoryFacts
  <2>4. DiskEnd(end) \in Nat /\ DiskEnd(end) > from /\ DiskEnd(end) <= FirstIndex
        /\ DiskEnd(end) <= end /\ DiskEnd(end) \in {end, FirstIndex}
    BY <1>1, <1>2, <1>5 DEF DiskEnd, Least
  <2>5. /\ w \in WindowSet /\ w.mem = FirstIndex..(end - 1) /\ w.offset = from
        /\ w.count = DiskEnd(end) - from /\ w.next = end /\ w.dropped = 0
    <3>1. FirstIndex..(end - 1) \in SUBSET Nat /\ DiskEnd(end) - from \in Nat
      BY <2>4, <1>1, <1>2
    <3>. QED  BY <2>2, <2>3, <3>1, <1>1, <1>2, <1>3, <1>5 DEF Window, WindowSet
  <2>6. w.offset + w.count = DiskEnd(end)
    BY <2>4, <2>5
  <2>7. OnDisk(w) = from..(DiskEnd(end) - 1)
    BY <2>1, <2>4, <2>5, <2>6, OnDiskFacts DEF WindowSet
  <2>8. Most(from, w.dropped) = from
    BY <2>5 DEF Most
  <2>9. \E first \in from..w.next : w.mem = first..(w.next - 1)
    <3>1. CASE FirstIndex <= end
      BY <3>1, <2>5, <1>1, <1>2, <1>5
    <3>2. CASE FirstIndex > end
      <4>1. w.mem = end..(end - 1) /\ end \in from..w.next
        BY <3>2, <2>5, <1>1, <1>2, <1>5
      <4>. QED  BY <4>1, <2>5
    <3>. QED  BY <3>1, <3>2, <1>1, <1>2
  <2>10. /\ w \in WindowSet /\ w.next <= total /\ w.dropped <= w.next
         /\ w.offset + w.count <= Len(offsets) /\ OnDisk(w) \cap w.mem = {}
         /\ OnDisk(w) \cup w.mem = Most(from, w.dropped)..(w.next - 1)
    BY <1>1, <1>2, <1>5, <2>1, <2>4, <2>5, <2>6, <2>7, <2>8
  <2>. QED  BY <2>5, <2>9, <2>10 DEF end
<1>6. CASE from < end /\ ~(enabled /\ from < FirstIndex)
  <2>1. end >= FirstIndex
    BY <1>1, <1>2, <1>6 DEF Plan, PlanPanic, end
  <2>2. w = Window(InMemory(Most(from, FirstIndex), end), 0, 0, end, Dropped)
    BY <1>6, <2>1 DEF Plan, end
  <2>3. Most(from, FirstIndex) \in Nat /\ Most(from, FirstIndex) >= FirstIndex
    BY <1>1 DEF Most
  <2>4. InMemory(Most(from, FirstIndex), end) = Most(from, FirstIndex)..(end - 1)
    BY <1>1, <1>2, <2>3, InMemoryFacts
  <2>5. Most(from, FirstIndex) = Most(from, Dropped)
    BY <1>1, <1>3, <1>6 DEF Most
  <2>6. /\ w \in WindowSet /\ w.mem = Most(from, Dropped)..(end - 1) /\ w.offset = 0
        /\ w.count = 0 /\ w.next = end /\ w.dropped = Dropped
    <3>1. Most(from, Dropped)..(end - 1) \in SUBSET Nat
      BY <2>3, <2>5, <1>2
    <3>. QED  BY <2>2, <2>4, <2>5, <3>1, <1>2, <1>3 DEF Window, WindowSet
  <2>7. OnDisk(w) = {}
    <3>1. OnDisk(w) = 0..(0 - 1)
      BY <2>6, <1>1, OnDiskFacts DEF WindowSet
    <3>. QED  BY <3>1
  <2>8. \E first \in from..w.next : w.mem = first..(w.next - 1)
    BY <1>1, <1>2, <1>3, <1>6, <2>1, <2>6 DEF Most
  <2>9. /\ w.next <= total /\ w.dropped <= w.next /\ w.offset + w.count <= Len(offsets)
        /\ OnDisk(w) \cap w.mem = {} /\ OnDisk(w) \cup w.mem = Most(from, w.dropped)..(w.next - 1)
    BY <1>1, <1>2, <1>3, <2>1, <2>6, <2>7
  <2>. QED  BY <1>3, <2>6, <2>8, <2>9 DEF end
<1>. QED  BY <1>1, <1>2, <1>4, <1>5, <1>6

(* The file only grows, and so does its index. *)
LEMMA PushKeepsDisk ==
  ASSUME BufferInv, Push
  PROVE  /\ Len(disk') >= Len(disk) /\ Len(offsets') >= Len(offsets)
         /\ \A i \in 1..Len(disk) : disk'[i] = disk[i]
         /\ disk' \in Seq(Nat \cup {Torn})
<1>1. offsets \in Seq(Nat) /\ disk \in Seq(Nat \cup {Torn})
  BY DEF BufferInv, BufferTypeOK
<1>2. \/ disk' = disk
      \/ \E x : disk' = Append(disk, x)
  BY DEF Push, SpillAppend, SpillFails
<1>3. Len(disk') >= Len(disk) /\ \A i \in 1..Len(disk) : disk'[i] = disk[i]
  BY <1>1, <1>2
<1>4. offsets' = offsets \/ \E x : offsets' = Append(offsets, x)
  BY DEF Push, SpillAppend, SpillFails
<1>5. Len(offsets') >= Len(offsets)
  BY <1>1, <1>4
<1>6. BufferInv'
  BY PushInv
<1>. QED  BY <1>3, <1>5, <1>6 DEF BufferInv, BufferTypeOK
(* What is planned now is planned, and keeps so while the job prints. *)
LEMMA PlanPlanned ==
  ASSUME BufferInv, NEW from \in Nat, from <= total, NEW max \in Nat \ {0}, NEW w,
         w = Plan(from, max), ~w.panics
  PROVE  /\ Planned(disk, offsets, total, w, from)
         /\ w.next = Least(from + max, total) /\ (enabled => w.dropped = 0)
  BY PlanFacts DEF Planned, OnDisk

LEMMA PushKeepsPlanned ==
  ASSUME BufferInv, Push, NEW w, NEW from \in Nat, Planned(disk, offsets, total, w, from)
  PROVE  Planned(disk', offsets', total', w, from)
<1>1. /\ Len(disk') >= Len(disk) /\ Len(offsets') >= Len(offsets)
      /\ \A i \in 1..Len(disk) : disk'[i] = disk[i]
      /\ disk' \in Seq(Nat \cup {Torn}) /\ total' = total + 1 /\ total \in Nat
  BY PushKeepsDisk DEF Push, BufferInv, BufferTypeOK
<1>2. /\ disk \in Seq(Nat \cup {Torn}) /\ Len(offsets) \in Nat /\ Len(offsets) <= Len(disk)
      /\ Len(offsets') \in Nat
  <2>1. BufferInv'
    BY PushInv
  <2>. QED  BY <2>1 DEF BufferInv, BufferTypeOK, SpillIsIndexed
<1>3. w.offset \in Nat /\ w.count \in Nat /\ w.next \in Nat
  BY DEF Planned, WindowSet
<1>4. w.offset + w.count <= Len(disk) /\ w.offset + w.count <= Len(offsets')
  BY <1>1, <1>2, <1>3 DEF Planned
<1>5. ((w.offset + 1)..(w.offset + w.count)) \cap DOMAIN disk'
        = ((w.offset + 1)..(w.offset + w.count)) \cap DOMAIN disk
  BY <1>1, <1>2, <1>3, <1>4
<1>6. {disk'[k] : k \in ((w.offset + 1)..(w.offset + w.count)) \cap DOMAIN disk'}
        = {disk[k] : k \in ((w.offset + 1)..(w.offset + w.count)) \cap DOMAIN disk}
  <2>1. \A k \in ((w.offset + 1)..(w.offset + w.count)) \cap DOMAIN disk : disk'[k] = disk[k]
    BY <1>1, <1>2
  <2>. QED  BY <1>5, <2>1
<1>7. w.next <= total'
  BY <1>1, <1>3 DEF Planned
<1>. QED  BY <1>4, <1>6, <1>7 DEF Planned

(* What is read of it: all, or, when the file cannot be read, its end. *)
LEMMA ReadPlanned ==
  ASSUME BufferInv, NEW w, NEW from \in Nat, Planned(disk, offsets, total, w, from),
         NEW lines \in LinesRead(w)
  PROVE  /\ \E first \in Nat : first >= from /\ lines = first..(w.next - 1)
         /\ ~ReadMayFail => lines = Most(from, w.dropped)..(w.next - 1)
<1>1. w \in WindowSet /\ w.next \in Nat /\ w.dropped \in Nat
  BY DEF Planned, WindowSet
<1>2. OnDisk(w) \cup w.mem = Most(from, w.dropped)..(w.next - 1)
  BY DEF Planned, OnDisk
<1>3. Readable(w)
  BY <1>1, OnDiskFacts DEF Planned
<1>4. lines = OnDisk(w) \cup w.mem \/ (ReadMayFail /\ lines = w.mem)
  BY <1>3 DEF LinesRead
<1>5. Most(from, w.dropped) \in Nat /\ Most(from, w.dropped) >= from
  BY <1>1 DEF Most
<1>6. \E first \in Nat : first >= from /\ w.mem = first..(w.next - 1)
  BY <1>1 DEF Planned
<1>. QED  BY <1>2, <1>4, <1>5, <1>6
=============================================================================
