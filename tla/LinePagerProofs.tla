--------------------------- MODULE LinePagerProofs ---------------------------
(***************************************************************************)
(* Theorems about the clients that page through the line buffer, for every *)
(* cap, page size, number of readers and sequence of disk errors.          *)
(***************************************************************************)
EXTENDS LinePager, BufferProofs

(* What was planned survives a push. *)
LEMMA PushStep == IInv /\ PushLine => IInv'
<1> SUFFICES ASSUME IInv, PushLine PROVE IInv'
  OBVIOUS
<1>1. BufferInv /\ Push /\ UNCHANGED pagerVars /\ total \in Nat
  BY DEF IInv, TypeOK, BufferTypeOK, BufferInv, PushLine
<1>2. BufferInv' /\ total' = total + 1
  BY <1>1, PushInv DEF Push
<1>3. TypeOK' /\ RingIsTail' /\ SpillIsIndexed'
  BY <1>1, <1>2 DEF IInv, TypeOK, BufferInv, pagerVars
<1>4. /\ Len(disk') >= Len(disk) /\ Len(offsets') >= Len(offsets)
      /\ \A i \in 1..Len(disk) : disk'[i] = disk[i]
      /\ disk' \in Seq(Nat \cup {Torn}) /\ disk \in Seq(Nat \cup {Torn})
      /\ Len(offsets) \in Nat /\ Len(offsets') \in Nat /\ Len(offsets) <= Len(disk)
  <2>1. /\ Len(offsets) \in Nat /\ Len(offsets') \in Nat /\ Len(offsets) <= Len(disk)
        /\ disk \in Seq(Nat \cup {Torn})
    BY <1>1, <1>2 DEF BufferInv, BufferTypeOK, SpillIsIndexed
  <2>. QED  BY <1>1, <2>1, PushKeepsDisk
<1>5. ASSUME NEW r \in Readers, phase[r] = "reading"
      PROVE  /\ window[r] \in WindowSet
             /\ window[r].next <= total /\ window[r].dropped <= window[r].next
             /\ window[r].offset + window[r].count <= Len(offsets)
  BY <1>5 DEF IInv, TypeOK, PagerInv, WindowSet
<1>6. PagerInv'
  <2> SUFFICES ASSUME NEW r \in Readers
               PROVE  /\ cursor[r] <= total' \/ (cursor[r] <= start[r] /\ seen[r] = {})
                      /\ phase[r] = "reading" =>
                           /\ window[r].next <= total'
                           /\ window[r].dropped <= window[r].next
                           /\ window[r].offset + window[r].count <= Len(offsets')
    BY <1>1 DEF PagerInv, pagerVars
  <2>1. cursor[r] \in Nat /\ (cursor[r] <= total \/ (cursor[r] <= start[r] /\ seen[r] = {}))
    BY DEF IInv, TypeOK, PagerInv
  <2>2. CASE phase[r] = "reading"
    <3>1. window[r].next \in Nat /\ window[r].offset \in Nat /\ window[r].count \in Nat
      BY <1>5, <2>2 DEF WindowSet
    <3>. QED  BY <1>1, <1>2, <1>4, <1>5, <2>1, <2>2, <3>1
  <2>. QED  BY <1>1, <1>2, <2>1, <2>2
<1>7. WindowExact'
  <2> SUFFICES ASSUME NEW r \in Readers, phase[r] = "reading"
               PROVE  Readable(window[r])' /\ OnDisk(window[r])' = OnDisk(window[r])
    BY <1>1 DEF IInv, WindowExact, pagerVars
  <2>1. ASSUME NEW w, w = window[r]
        PROVE  /\ w.offset + w.count <= Len(disk')
               /\ {disk'[k] : k \in ((w.offset + 1)..(w.offset + w.count)) \cap DOMAIN disk'}
                    = OnDisk(w)
    <3>1. w \in WindowSet /\ w.offset + w.count <= Len(offsets)
      BY <1>5, <2>1
    <3>2. w.offset \in Nat /\ w.count \in Nat
      BY <3>1 DEF WindowSet
    <3>3. w.offset + w.count <= Len(disk) /\ w.offset + w.count <= Len(disk')
      BY <1>4, <3>1, <3>2
    <3>4. ((w.offset + 1)..(w.offset + w.count)) \cap DOMAIN disk'
            = ((w.offset + 1)..(w.offset + w.count)) \cap DOMAIN disk
      BY <1>4, <3>2, <3>3
    <3>5. \A k \in ((w.offset + 1)..(w.offset + w.count)) \cap DOMAIN disk :
            disk'[k] = disk[k]
      BY <1>4
    <3>. QED  BY <3>3, <3>4, <3>5 DEF OnDisk
  <2>2. window[r]' = window[r] /\ Readable(window[r])
    BY <1>1 DEF pagerVars, IInv, WindowExact
  <2>. QED  BY <2>1, <2>2 DEF OnDisk, Readable
<1>. QED  BY <1>3, <1>6, <1>7 DEF IInv

(* WindowExact, of one window and the records of the file it is read from. *)
ExactFor(d, w, from) ==
  LET found == {d[k] : k \in ((w.offset + 1)..(w.offset + w.count)) \cap DOMAIN d} IN
  /\ w.offset + w.count <= Len(d) /\ Torn \notin found
  /\ found \cap w.mem = {}
  /\ found \cup w.mem = Most(from, w.dropped)..(w.next - 1)

LEMMA ExactWindows ==
  WindowExact <=> \A r \in Readers : phase[r] = "reading" => ExactFor(disk, window[r], cursor[r])
  BY DEF WindowExact, ExactFor, Readable, OnDisk

LEMMA ExactWindowsNext ==
  WindowExact' <=> \A r \in Readers :
                     phase'[r] = "reading" => ExactFor(disk', window'[r], cursor'[r])
  BY DEF WindowExact, ExactFor, Readable, OnDisk

(* What is planned is right. *)
LEMMA PlanStep ==
  ASSUME IInv, NEW r \in Readers, PlanWindow(r)
  PROVE  IInv'
<1> DEFINE w == Plan(cursor[r], Page)
<1>1. BufferInv /\ cursor[r] \in Nat /\ total \in Nat
  BY DEF IInv, TypeOK, BufferTypeOK, BufferInv
<1>2. /\ window' = [window EXCEPT ![r] = w]
      /\ phase' = [phase EXCEPT ![r] = IF w.panics THEN "panicked" ELSE "reading"]
      /\ UNCHANGED <<bufferVars, start, cursor, seen, noticed>>
  BY DEF PlanWindow, IInv, TypeOK
<1>3. w.panics \in BOOLEAN /\ (w.panics => w \in WindowSet)
  BY DEF Plan, PlanPanic, Window, WindowSet
<1>4. ASSUME ~w.panics
      PROVE  /\ w \in WindowSet
             /\ w.next <= total /\ w.dropped <= w.next
             /\ w.offset + w.count <= Len(offsets)
             /\ Readable(w) /\ OnDisk(w) \cap w.mem = {}
             /\ OnDisk(w) \cup w.mem = Most(cursor[r], w.dropped)..(w.next - 1)
  BY <1>1, <1>4, PageAssumption, PlanFacts, OnDiskFacts
<1> HIDE DEF w
<1>5. RingIsTail' /\ SpillIsIndexed' /\ BufferTypeOK'
  BY <1>2 DEF IInv, TypeOK, bufferVars, RingIsTail, SpillIsIndexed, BufferTypeOK, FirstIndex
<1>6. TypeOK'
  BY <1>2, <1>3, <1>4, <1>5 DEF IInv, TypeOK, WindowSet
<1>7. PagerInv'
  BY <1>2, <1>3, <1>4 DEF IInv, TypeOK, PagerInv, bufferVars
<1>8. WindowExact'
  <2>1. ASSUME NEW q \in Readers, phase'[q] = "reading"
        PROVE  ExactFor(disk', window'[q], cursor'[q])
    <3>1. disk' = disk /\ cursor' = cursor
      BY <1>2 DEF bufferVars
    <3>2. CASE q = r
      <4>1. ~w.panics /\ window'[q] = w
        BY <1>2, <1>3, <2>1, <3>2 DEF IInv, TypeOK
      <4>2. ExactFor(disk, w, cursor[r])
        BY <1>4, <4>1 DEF ExactFor, Readable, OnDisk
      <4>. QED  BY <3>1, <3>2, <4>1, <4>2
    <3>3. CASE q # r
      <4>1. phase[q] = "reading" /\ window'[q] = window[q]
        BY <1>2, <2>1, <3>3 DEF IInv, TypeOK
      <4>. QED  BY <3>1, <4>1, ExactWindows DEF IInv
    <3>. QED  BY <3>2, <3>3
  <2>. QED  BY <2>1, ExactWindowsNext
<1>. QED  BY <1>5, <1>6, <1>7, <1>8 DEF IInv

(* What is read moves the cursor behind it. *)
LEMMA ReadStep ==
  ASSUME IInv, NEW r \in Readers, ReadWindow(r)
  PROVE  IInv'
<1> DEFINE w == window[r]
<1>1. phase[r] = "reading" /\ w \in WindowSet
  BY DEF ReadWindow, IInv, TypeOK, WindowSet
<1>2. PICK lines \in {OnDisk(w) \cup w.mem, w.mem} :
        seen' = [seen EXCEPT ![r] = @ \cup lines]
  <2>1. LinesRead(w) \subseteq {OnDisk(w) \cup w.mem, w.mem}
    BY DEF LinesRead
  <2>. QED  BY <2>1 DEF ReadWindow
<1>3. /\ cursor' = [cursor EXCEPT ![r] = w.next]
      /\ noticed' = [noticed EXCEPT ![r] = Most(@, w.dropped)]
      /\ phase' = [phase EXCEPT ![r] = "idle"]
      /\ UNCHANGED <<bufferVars, start, window>>
  BY DEF ReadWindow
<1>4. OnDisk(w) \cup w.mem = Most(cursor[r], w.dropped)..(w.next - 1)
  BY <1>1 DEF IInv, WindowExact
<1>5. lines \in SUBSET Nat
  <2>1. Most(cursor[r], w.dropped) \in Nat
    BY <1>1 DEF IInv, TypeOK, WindowSet, Most
  <2>. QED  BY <1>4, <2>1
<1>6. w.next \in Nat /\ w.dropped \in Nat /\ w.next <= total
  BY <1>1 DEF IInv, PagerInv, WindowSet
<1> HIDE DEF w
<1>7. RingIsTail' /\ SpillIsIndexed' /\ BufferTypeOK'
  BY <1>3 DEF IInv, TypeOK, bufferVars, RingIsTail, SpillIsIndexed, BufferTypeOK, FirstIndex
<1>8. TypeOK'
  <2>1. seen' \in [Readers -> SUBSET Nat]
    BY <1>2, <1>5 DEF IInv, TypeOK
  <2>2. noticed' \in [Readers -> Nat]
    BY <1>3, <1>6 DEF IInv, TypeOK, Most
  <2>3. cursor' \in [Readers -> Nat] /\ phase' \in [Readers -> {"idle", "reading", "panicked"}]
    BY <1>3, <1>6 DEF IInv, TypeOK
  <2>4. start' = start /\ window' = window
    BY <1>3
  <2>. QED  BY <1>7, <2>1, <2>2, <2>3, <2>4 DEF IInv, TypeOK
<1>9. PagerInv'
  BY <1>2, <1>3, <1>6 DEF IInv, TypeOK, PagerInv, bufferVars
<1>10. WindowExact'
  <2>1. ASSUME NEW q \in Readers, phase'[q] = "reading"
        PROVE  ExactFor(disk', window'[q], cursor'[q])
    <3>1. phase[q] = "reading" /\ cursor'[q] = cursor[q]
      BY <1>3, <2>1 DEF IInv, TypeOK
    <3>2. disk' = disk /\ window' = window
      BY <1>3 DEF bufferVars
    <3>. QED  BY <3>1, <3>2, ExactWindows DEF IInv
  <2>. QED  BY <2>1, ExactWindowsNext
<1>. QED  BY <1>7, <1>8, <1>9, <1>10 DEF IInv

LEMMA InitInv == Init => IInv
<1> SUFFICES ASSUME Init PROVE IInv
  OBVIOUS
<1>1. BufferInv
  BY BufferInitInv DEF Init
<1>2. TypeOK
  BY <1>1, PageAssumption DEF Init, TypeOK, BufferInv, Window, WindowSet
<1>3. PagerInv /\ WindowExact
  BY PageAssumption DEF Init, PagerInv, WindowExact
<1>. QED  BY <1>1, <1>2, <1>3 DEF IInv, BufferInv

LEMMA NextInv == IInv /\ [Next]_vars => IInv'
<1>1. ASSUME IInv, UNCHANGED vars
      PROVE  IInv'
  <2> USE <1>1 DEF vars, bufferVars, pagerVars
  <2>1. TypeOK'
    BY DEF IInv, TypeOK, BufferTypeOK
  <2>2. RingIsTail' /\ SpillIsIndexed'
    BY DEF IInv, RingIsTail, SpillIsIndexed, FirstIndex
  <2>3. PagerInv'
    BY DEF IInv, PagerInv
  <2>4. WindowExact'
    BY ExactWindows, ExactWindowsNext DEF IInv
  <2>. QED  BY <2>1, <2>2, <2>3, <2>4 DEF IInv
<1>. QED  BY <1>1, PushStep, PlanStep, ReadStep DEF Next

(* Every window is answered exactly, and the buffer behind it is sound. *)
THEOREM InvariantHolds == Spec => []IInv
  BY InitInv, NextInv, PTL DEF Spec

THEOREM WindowsAreExact == Spec => [](TypeOK /\ RingIsTail /\ SpillIsIndexed /\ WindowExact)
<1>1. IInv => TypeOK /\ RingIsTail /\ SpillIsIndexed /\ WindowExact
  BY DEF IInv
<1>. QED  BY <1>1, InvariantHolds, PTL

(* When the spill file can be read back, no client is denied a line without
   being told, whatever is dropped while it pages. *)
THEOREM NothingMissed ==
  ASSUME ~ReadMayFail
  PROVE  Spec => []NothingSilentlyMissed
<1>1. Init => NothingSilentlyMissed
  BY PageAssumption DEF Init, NothingSilentlyMissed
<1>2. ASSUME IInv, NothingSilentlyMissed, [Next]_vars
      PROVE  NothingSilentlyMissed'
  <2>1. CASE PushLine \/ UNCHANGED vars \/ \E r \in Readers : PlanWindow(r)
    BY <1>2, <2>1 DEF PushLine, PlanWindow, vars, pagerVars, NothingSilentlyMissed
  <2>2. ASSUME NEW r \in Readers, ReadWindow(r)
        PROVE  NothingSilentlyMissed'
    <3> DEFINE w == window[r]
    <3>1. phase[r] = "reading" /\ w \in WindowSet
      BY <1>2, <2>2 DEF ReadWindow, IInv, TypeOK, WindowSet
    <3>2. Readable(w) /\ OnDisk(w) \cup w.mem = Most(cursor[r], w.dropped)..(w.next - 1)
      BY <1>2, <3>1 DEF IInv, WindowExact
    <3>3. seen' = [seen EXCEPT ![r] = @ \cup (Most(cursor[r], w.dropped)..(w.next - 1))]
      <4>1. \A lines \in LinesRead(w) : lines = OnDisk(w) \cup w.mem
        BY <3>2 DEF LinesRead
      <4>. QED  BY <2>2, <3>2, <4>1 DEF ReadWindow
    <3>4. /\ cursor' = [cursor EXCEPT ![r] = w.next]
          /\ noticed' = [noticed EXCEPT ![r] = Most(@, w.dropped)]
          /\ start' = start
      BY <2>2 DEF ReadWindow
    <3>5. /\ cursor \in [Readers -> Nat] /\ noticed \in [Readers -> Nat]
          /\ seen \in [Readers -> SUBSET Nat] /\ start \in [Readers -> Nat]
          /\ w.next \in Nat /\ w.dropped \in Nat
      BY <1>2, <3>1 DEF IInv, TypeOK, WindowSet
    <3> HIDE DEF w
    <3> SUFFICES ASSUME NEW q \in Readers, NEW i \in start[q]..(cursor'[q] - 1)
                 PROVE  i \in seen'[q] \/ i < noticed'[q]
      BY <3>4 DEF NothingSilentlyMissed
    <3>6. CASE q # r
      BY <1>2, <3>3, <3>4, <3>5, <3>6 DEF NothingSilentlyMissed
    <3>7. CASE q = r /\ i < cursor[r]
      <4>1. i \in seen[r] \/ i < noticed[r]
        BY <1>2, <3>5, <3>7 DEF NothingSilentlyMissed
      <4>. QED  BY <4>1, <3>3, <3>4, <3>5, <3>7 DEF Most
    <3>8. CASE q = r /\ i >= cursor[r]
      <4>1. i \in Nat /\ i < w.next
        BY <3>4, <3>5, <3>8
      <4>2. CASE i < w.dropped
        BY <4>1, <4>2, <3>4, <3>5, <3>8 DEF Most
      <4>3. CASE i >= w.dropped
        <5>1. i \in Most(cursor[r], w.dropped)..(w.next - 1)
          BY <4>1, <4>3, <3>5, <3>8 DEF Most
        <5>. QED  BY <5>1, <3>3, <3>5, <3>8
      <4>. QED  BY <4>1, <4>2, <4>3, <3>5
    <3>9. i \in Int /\ cursor[r] \in Int
      BY <3>4, <3>5
    <3>. QED  BY <3>6, <3>7, <3>8, <3>9
  <2>. QED  BY <1>2, <2>1, <2>2 DEF Next
<1>. QED  BY <1>1, <1>2, InvariantHolds, PTL DEF Spec
=============================================================================
