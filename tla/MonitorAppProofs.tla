---------------------------- MODULE MonitorAppProofs ----------------------------
(***************************************************************************)
(* Theorems about the monitor's program, for any jobs, lists, height of    *)
(* the pane, buffer and queries: the cursor keeps its job, the pane has no *)
(* blank rows, and output does not move it while it is paused.             *)
(*                                                                         *)
(* What is sorted or filtered is put in order by ranks (Ordering), and so  *)
(* are the least and the greatest of some numbers found here.              *)
(***************************************************************************)
EXTENDS MonitorApp, FiniteSetTheorems, SequenceTheorems, TLAPS

----------------------------------------------------------------------------
(* Orders. *)

Increasing(s) == \A i, j \in DOMAIN s : i < j => s[i] < s[j]

(* The elements of a finite set that is ordered have the ranks from 1 on; B[x] is what
   does not come after x. *)
LEMMA Ranks ==
  ASSUME NEW S, IsFiniteSet(S), NEW B \in [S -> SUBSET S],
         \A x \in S : x \in B[x],
         \A x, y \in S : x \in B[y] => B[x] \subseteq B[y],
         \A x, y \in S : x # y => (x \in B[y] <=> y \notin B[x])
  PROVE  /\ Cardinality(S) \in Nat
         /\ \A n \in 1..Cardinality(S) : \E x \in S : Cardinality(B[x]) = n
         /\ \A x \in S : Cardinality(B[x]) \in 1..Cardinality(S)
         /\ \A x, y \in S : Cardinality(B[x]) <= Cardinality(B[y]) <=> x \in B[y]
<1> DEFINE n == Cardinality(S)
           rank == [x \in S |-> Cardinality(B[x])]
<1>1. n \in Nat
  BY FS_CardinalityType
<1>2. \A x \in S : IsFiniteSet(B[x]) /\ Cardinality(B[x]) \in 1..n
  <2> TAKE x \in S
  <2>1. IsFiniteSet(B[x]) /\ Cardinality(B[x]) <= n
    BY FS_Subset
  <2>2. Cardinality(B[x]) \in Nat /\ Cardinality(B[x]) # 0
    BY <2>1, FS_CardinalityType, FS_EmptySet
  <2>. QED  BY <1>1, <2>1, <2>2
<1>3. \A x, y \in S : x \in B[y] => Cardinality(B[x]) <= Cardinality(B[y])
  BY <1>2, FS_Subset
<1>4. \A x, y \in S : x \in B[y] /\ x # y => Cardinality(B[x]) < Cardinality(B[y])
  <2> SUFFICES ASSUME NEW x \in S, NEW y \in S, x \in B[y], x # y
               PROVE  Cardinality(B[x]) < Cardinality(B[y])
    OBVIOUS
  <2>1. B[x] \in SUBSET B[y] /\ B[x] # B[y]
    OBVIOUS
  <2>2. Cardinality(B[x]) # Cardinality(B[y])
    BY <1>2, <2>1, FS_Subset
  <2>. QED  BY <1>2, <1>3, <2>2
<1>5. \A x, y \in S : Cardinality(B[x]) <= Cardinality(B[y]) <=> x \in B[y]
  <2> SUFFICES ASSUME NEW x \in S, NEW y \in S, Cardinality(B[x]) <= Cardinality(B[y]), x \notin B[y]
               PROVE  FALSE
    BY <1>3
  <2>1. y \in B[x] /\ x # y
    OBVIOUS
  <2>. QED  BY <1>2, <1>4, <2>1
<1>6. rank \in Injection(S, 1..n)
  <2>1. rank \in [S -> 1..n]
    BY <1>2
  <2>2. \A x, y \in S : rank[x] = rank[y] => x = y
    <3> SUFFICES ASSUME NEW x \in S, NEW y \in S, rank[x] = rank[y] PROVE x = y
      OBVIOUS
    <3>1. x \in B[y] /\ y \in B[x]
      BY <1>2, <1>5
    <3>. QED  BY <3>1
  <2>. QED  BY <2>1, <2>2 DEF Injection, IsInjective
<1>7. IsFiniteSet(1..n) /\ Cardinality(1..n) = n
  BY <1>1, FS_Interval
<1>8. rank \in Surjection(S, 1..n)
  BY <1>6, <1>7, FS_Injection
<1>9. \A k \in 1..n : \E x \in S : rank[x] = k
  BY <1>8 DEF Surjection
<1>. QED  BY <1>1, <1>2, <1>5, <1>9

(* The order on the elements of a finite set that upTo stands for is a total one. *)
IsOrder(S, upTo) ==
  /\ IsFiniteSet(S) /\ upTo \in [S -> SUBSET S]
  /\ \A x \in S : x \in upTo[x]
  /\ \A x, y \in S : x \in upTo[y] => upTo[x] \subseteq upTo[y]
  /\ \A x, y \in S : x # y => (x \in upTo[y] <=> y \notin upTo[x])

(* Ranked lists all the elements of such a set, each once, in their order. *)
LEMMA RankedFacts ==
  ASSUME NEW S, NEW upTo, IsOrder(S, upTo)
  PROVE  /\ Cardinality(S) \in Nat
         /\ Ranked(S, upTo) \in [1..Cardinality(S) -> S]
         /\ \A x \in S : \E n \in 1..Cardinality(S) : Ranked(S, upTo)[n] = x
         /\ \A i, j \in 1..Cardinality(S) : i <= j <=> Ranked(S, upTo)[i] \in upTo[Ranked(S, upTo)[j]]
         /\ \A i, j \in 1..Cardinality(S) : Ranked(S, upTo)[i] = Ranked(S, upTo)[j] => i = j
<1> DEFINE N == Cardinality(S)
           f == Ranked(S, upTo)
<1>1. /\ N \in Nat
      /\ \A n \in 1..N : \E x \in S : Cardinality(upTo[x]) = n
      /\ \A x \in S : Cardinality(upTo[x]) \in 1..N
      /\ \A x, y \in S : Cardinality(upTo[x]) <= Cardinality(upTo[y]) <=> x \in upTo[y]
  BY Ranks DEF IsOrder
<1>2. f = [n \in 1..N |-> CHOOSE x \in S : Cardinality(upTo[x]) = n]
  BY DEF Ranked
<1>3. \A n \in 1..N : f[n] \in S /\ Cardinality(upTo[f[n]]) = n
  <2> HIDE DEF N
  <2>. QED  BY <1>1, <1>2
<1>4. f \in [1..N -> S]
  BY <1>2, <1>3
<1> HIDE DEF f, N
<1>5. \A x \in S : \E n \in 1..N : f[n] = x
  <2> TAKE x \in S
  <2>1. PICK n \in 1..N : n = Cardinality(upTo[x])
    BY <1>1
  <2>2. f[n] \in S /\ Cardinality(upTo[f[n]]) = Cardinality(upTo[x]) /\ Cardinality(upTo[x]) \in Int
    BY <1>1, <1>3, <2>1
  <2>3. f[n] \in upTo[x] /\ x \in upTo[f[n]]
    BY <1>1, <2>2
  <2>. QED  BY <2>2, <2>3 DEF IsOrder
<1>6. \A i, j \in 1..N : i <= j <=> f[i] \in upTo[f[j]]
  <2> TAKE i \in 1..N, j \in 1..N
  <2>1. /\ f[i] \in S /\ Cardinality(upTo[f[i]]) = i
        /\ f[j] \in S /\ Cardinality(upTo[f[j]]) = j
    BY <1>3
  <2>. QED  BY <1>1, <2>1
<1>7. \A i, j \in 1..N : f[i] = f[j] => i = j
  BY <1>3
<1>. QED  BY <1>1, <1>4, <1>5, <1>6, <1>7 DEF f, N

(* Numbers are ordered by UpTo. *)
LEMMA NumberOrder ==
  ASSUME NEW m \in Nat, NEW S \in SUBSET (0..m)
  PROVE  IsOrder(S, [x \in S |-> UpTo(S, x)])
<1> DEFINE B == [x \in S |-> UpTo(S, x)]
<1>1. IsFiniteSet(S)
  BY FS_Interval, FS_Subset, 0 \in Int, m \in Int
<1>2. B \in [S -> SUBSET S]
  BY DEF UpTo
<1>3. \A x, y \in S : x \in B[y] <=> x <= y
  BY DEF UpTo
<1>4. \A x \in S : x \in B[x]
  BY <1>3
<1>5. \A x, y \in S : x # y => (x \in B[y] <=> y \notin B[x])
  BY <1>3
<1>6. \A x, y \in S : x \in B[y] => B[x] \subseteq B[y]
  <2> SUFFICES ASSUME NEW x \in S, NEW y \in S, x \in B[y], NEW i \in B[x] PROVE i \in B[y]
    OBVIOUS
  <2>1. i \in S
    BY <1>2
  <2>2. i <= x /\ x <= y
    BY <1>3, <2>1
  <2>3. i <= y
    BY <2>1, <2>2
  <2>. QED  BY <1>3, <2>1, <2>3
<1> HIDE DEF B
<1>7. IsOrder(S, B)
  BY <1>1, <1>2, <1>4, <1>5, <1>6 DEF IsOrder
<1>. QED  BY <1>7 DEF B

(* A finite set that is ordered has a first element. *)
LEMMA FirstOfOrder ==
  ASSUME NEW S, NEW upTo, IsOrder(S, upTo), S # {}
  PROVE  \E x \in S : \A y \in S : x \in upTo[y]
<1> DEFINE N == Cardinality(S)
           f == Ranked(S, upTo)
<1>1. /\ N \in Nat /\ f \in [1..N -> S]
      /\ \A x \in S : \E n \in 1..N : f[n] = x
      /\ \A i, j \in 1..N : i <= j <=> f[i] \in upTo[f[j]]
  BY RankedFacts
<1> HIDE DEF N, f
<1>2. 1 \in 1..N
  BY <1>1
<1>3. \A y \in S : f[1] \in upTo[y]
  <2> TAKE y \in S
  <2>1. PICK n \in 1..N : f[n] = y
    BY <1>1
  <2>2. 1 <= n
    BY <1>1
  <2>. QED  BY <1>1, <1>2, <2>1, <2>2
<1>. QED  BY <1>1, <1>2, <1>3

LEMMA LeastNumber ==
  ASSUME NEW S \in SUBSET Nat, S # {}
  PROVE  \E k \in S : \A n \in S : k <= n
<1>1. PICK m \in S : TRUE
  OBVIOUS
<1> DEFINE T == S \cap 0..m
           B == [x \in T |-> UpTo(T, x)]
<1>2. T \in SUBSET (0..m) /\ m \in T /\ m \in Nat
  BY <1>1
<1>3. \A n \in S : n \in T \/ n > m
  BY <1>2
<1>4. \A x, y \in T : x \in B[y] => x <= y
  BY DEF UpTo
<1>5. T \subseteq S
  OBVIOUS
<1> HIDE DEF T
<1>6. IsOrder(T, B)
  BY <1>2, NumberOrder
<1> HIDE DEF B
<1>7. PICK k \in T : \A n \in T : k \in B[n]
  BY <1>2, <1>6, FirstOfOrder
<1>8. \A n \in T : k <= n
  BY <1>4, <1>7
<1>9. k <= m /\ k \in Nat
  BY <1>2, <1>8
<1>10. \A n \in S : k <= n
  <2> TAKE n \in S
  <2>. QED  BY <1>2, <1>3, <1>8, <1>9
<1>. QED  BY <1>5, <1>7, <1>10

LEMMA GreatestNumber ==
  ASSUME NEW m \in Nat, NEW S \in SUBSET (0..m), S # {}
  PROVE  \E k \in S : \A n \in S : n <= k
<1> DEFINE T == {m - k : k \in S}
<1>1. PICK t \in T : \A u \in T : t <= u
  <2>1. \A k \in S : k \in 0..m /\ m - k \in Nat
    OBVIOUS
  <2>2. T \in SUBSET Nat /\ T # {}
    BY <2>1
  <2> HIDE DEF T
  <2>. QED  BY <2>2, LeastNumber
<1>2. PICK k \in S : t = m - k
  OBVIOUS
<1>3. \A n \in S : n <= k
  BY <1>1, <1>2
<1>. QED  BY <1>3

(* Sorted lists the numbers of a set, each once, from the least to the greatest. *)
LEMMA SortedFacts ==
  ASSUME NEW m \in Nat, NEW S \in SUBSET (0..m)
  PROVE  /\ Cardinality(S) \in Nat
         /\ Sorted(S) \in [1..Cardinality(S) -> S]
         /\ \A x \in S : \E n \in 1..Cardinality(S) : Sorted(S)[n] = x
         /\ Increasing(Sorted(S))
<1> DEFINE B == [x \in S |-> UpTo(S, x)]
           f == Ranked(S, B)
           N == Cardinality(S)
<1>1. IsOrder(S, B)
  BY NumberOrder
<1>2. \A x \in S, y \in S : x \in B[y] <=> x <= y
  BY DEF UpTo
<1>3. \A x \in S : x \in Nat
  OBVIOUS
<1> HIDE DEF B
<1>4. /\ N \in Nat /\ f \in [1..N -> S]
      /\ \A x \in S : \E n \in 1..N : f[n] = x
      /\ \A i, j \in 1..N : i <= j <=> f[i] \in B[f[j]]
  BY <1>1, RankedFacts
<1> HIDE DEF f, N
<1>5. Increasing(f)
  <2> SUFFICES ASSUME NEW i \in 1..N, NEW j \in 1..N, i < j PROVE f[i] < f[j]
    BY <1>4 DEF Increasing
  <2>1. f[i] \in S /\ f[j] \in S /\ f[i] \in Nat /\ f[j] \in Nat
    BY <1>3, <1>4
  <2>2. ~(j <= i)
    BY <1>4
  <2>3. ~(f[j] <= f[i])
    BY <1>2, <1>4, <2>1, <2>2
  <2>. QED  BY <2>1, <2>3
<1>6. f = Sorted(S)
  BY DEF f, B, Sorted
<1>. QED  BY <1>4, <1>5, <1>6 DEF N

(* Small facts about numbers and sequences that the provers want on their own. *)
LEMMA LessIsStrict == \A x, y \in Nat : x < y => ~(y < x) /\ x # y
OBVIOUS

LEMMA FunctionIsSeq ==
  ASSUME NEW N \in Nat, NEW S, NEW s \in [1..N -> S]
  PROVE  s \in Seq(S) /\ Len(s) = N
OBVIOUS

LEMMA SameSeq ==
  ASSUME NEW S, NEW s \in Seq(S), NEW t \in Seq(S), Len(s) = Len(t),
         \A i \in 1..Len(s) : s[i] = t[i]
  PROVE  s = t
OBVIOUS

LEMMA SeqIsFunction ==
  ASSUME NEW S, NEW s \in Seq(S)
  PROVE  Len(s) \in Nat /\ DOMAIN s = 1..Len(s) /\ \A n \in 1..Len(s) : s[n] \in S
OBVIOUS

----------------------------------------------------------------------------
(* The log pane. *)

LineSet == {line \in [of : Jobs \cup {NoJob}, index : 0..MaxLines, gap : BOOLEAN] :
              line.gap => line.index = 0}

LEMMA LineNumber ==
  ASSUME NEW ls \in Seq(LineSet)
  PROVE  /\ Len(ls) \in Nat /\ DOMAIN ls = 1..Len(ls)
         /\ \A k \in 1..Len(ls) : ls[k] \in LineSet /\ ls[k].index \in 0..MaxLines /\ ls[k].index \in Nat
<1>1. \A line \in LineSet : line.index \in 0..MaxLines /\ line.index \in Nat
  BY DEF LineSet
<1>2. Len(ls) \in Nat /\ DOMAIN ls = 1..Len(ls) /\ \A k \in 1..Len(ls) : ls[k] \in LineSet
  OBVIOUS
<1>. QED  BY <1>1, <1>2

(* The nth place of some in order is the nth at the earliest. *)
LEMMA IncreasingGrows ==
  ASSUME NEW N \in Nat, NEW m \in Nat, NEW at \in [1..N -> 1..m], Increasing(at)
  PROVE  \A n \in 1..N : at[n] >= n
<1> DEFINE Bad == {n \in 1..N : at[n] < n}
<1>1. SUFFICES ASSUME Bad # {} PROVE FALSE
  OBVIOUS
<1>2. Bad \in SUBSET Nat
  OBVIOUS
<1>3. PICK n \in Bad : \A k \in Bad : n <= k
  <2> HIDE DEF Bad
  <2>. QED  BY <1>1, <1>2, LeastNumber
<1>4. n \in 1..N /\ at[n] < n /\ at[n] \in 1..m
  OBVIOUS
<1>5. n - 1 \in 1..N
  BY <1>4
<1>6. at[n-1] < at[n] /\ at[n-1] \in 1..m
  BY <1>4, <1>5 DEF Increasing
<1>7. n - 1 \in Bad
  BY <1>4, <1>5, <1>6
<1>. QED  BY <1>3, <1>4, <1>7

(* What a filter lets through. *)
Passes(q, f, n) == f /\ ~q.empty => n \in q.hits

(* The rows of the pane are those lines that pass the filter, in the order they are held in. *)
LEMMA VisibleFacts ==
  ASSUME NEW ls \in Seq(LineSet), NEW q, NEW f \in BOOLEAN
  PROVE  /\ Visible(ls, q, f) \in Seq(0..MaxLines)
         /\ \E at \in [1..Len(Visible(ls, q, f)) -> 1..Len(ls)] :
              /\ Increasing(at)
              /\ \A n \in 1..Len(Visible(ls, q, f)) :
                   at[n] >= n /\ Visible(ls, q, f)[n] = ls[at[n]].index
              /\ \A n \in 1..Len(Visible(ls, q, f)) : Passes(q, f, Visible(ls, q, f)[n])
              /\ \A k \in 1..Len(ls) : Passes(q, f, ls[k].index) =>
                   \E n \in 1..Len(Visible(ls, q, f)) : at[n] = k
<1> DEFINE V == Visible(ls, q, f)
           m == Len(ls)
<1>1. m \in Nat /\ DOMAIN ls = 1..m /\ \A k \in 1..m : ls[k] \in LineSet /\ ls[k].index \in 0..MaxLines
  BY LineNumber
<1>2. CASE f /\ ~q.empty
  <2> DEFINE S == {k \in DOMAIN ls : ls[k].index \in q.hits}
             at == Sorted(S)
             N == Cardinality(S)
  <2>1. S \in SUBSET (0..m) /\ S \in SUBSET (1..m)
    BY <1>1
  <2>2. /\ N \in Nat /\ at \in [1..N -> S] /\ Increasing(at)
        /\ \A x \in S : \E n \in 1..N : at[n] = x
    <3> HIDE DEF S
    <3>. QED  BY <1>1, <2>1, SortedFacts
  <2>3. at \in [1..N -> 1..m]
    BY <2>1, <2>2
  <2>4. V = Indices(Matching(ls, q))
    BY <1>2 DEF Visible
  <2>5. Matching(ls, q) = [n \in DOMAIN at |-> ls[at[n]]]
    BY DEF Matching, Picked
  <2>6. V = [n \in 1..N |-> ls[at[n]].index]
    BY <2>2, <2>4, <2>5 DEF Indices
  <2>7. \A n \in 1..N : V[n] \in 0..MaxLines /\ V[n] \in q.hits
    <3> TAKE n \in 1..N
    <3>1. at[n] \in S
      BY <2>2
    <3>2. V[n] = ls[at[n]].index /\ at[n] \in 1..m /\ ls[at[n]].index \in q.hits
      BY <2>3, <2>6, <3>1
    <3>. QED  BY <1>1, <3>2
  <2>8. V \in Seq(0..MaxLines) /\ Len(V) = N
    <3>1. V \in [1..N -> 0..MaxLines]
      BY <2>6, <2>7
    <3>2. N \in Nat
      BY <2>2
    <3> HIDE DEF V, N
    <3>. QED  BY <3>1, <3>2, FunctionIsSeq
  <2>9. \A n \in 1..N : at[n] >= n
    BY <1>1, <2>2, <2>3, IncreasingGrows
  <2>10. \A k \in 1..m : Passes(q, f, ls[k].index) => \E n \in 1..N : at[n] = k
    <3> SUFFICES ASSUME NEW k \in 1..m, Passes(q, f, ls[k].index) PROVE \E n \in 1..N : at[n] = k
      OBVIOUS
    <3>1. k \in S
      BY <1>1, <1>2 DEF Passes
    <3>. QED  BY <2>2, <3>1
  <2>11. \A n \in 1..N : V[n] = ls[at[n]].index /\ Passes(q, f, V[n])
    BY <2>6, <2>7 DEF Passes
  <2> HIDE DEF at, N, V, S
  <2>. QED  BY <2>2, <2>3, <2>8, <2>9, <2>10, <2>11 DEF V
<1>3. CASE ~(f /\ ~q.empty)
  <2> DEFINE at == [n \in 1..m |-> n]
  <2>1. V = [k \in 1..m |-> ls[k].index]
    BY <1>1, <1>3 DEF Visible, Indices
  <2>2. V \in Seq(0..MaxLines) /\ Len(V) = m
    BY <1>1, <2>1
  <2>3. at \in [1..m -> 1..m] /\ Increasing(at) /\ \A n \in 1..m : at[n] >= n /\ V[n] = ls[at[n]].index
    BY <1>1, <2>1 DEF Increasing
  <2>4. \A n \in 1..m : Passes(q, f, V[n])
    BY <1>3 DEF Passes
  <2>5. \A k \in 1..m : \E n \in 1..m : at[n] = k
    OBVIOUS
  <2> HIDE DEF at, V
  <2>. QED  BY <2>2, <2>3, <2>4, <2>5 DEF V
<1>. QED  BY <1>2, <1>3

(* The numbers that the pane may show. *)
Numbers(ls, q, f) == {n \in {ls[k].index : k \in DOMAIN ls} : Passes(q, f, n)}

(* What the pane shows is those numbers, in order when the lines are; none is further up
   than in the unfiltered pane. *)
LEMMA VisibleNumbers ==
  ASSUME NEW ls \in Seq(LineSet), NEW q, NEW f \in BOOLEAN
  PROVE  /\ Visible(ls, q, f) \in Seq(0..MaxLines)
         /\ \A n \in DOMAIN Visible(ls, q, f) : Visible(ls, q, f)[n] \in Numbers(ls, q, f)
         /\ \A x \in Numbers(ls, q, f) : \E n \in DOMAIN Visible(ls, q, f) : Visible(ls, q, f)[n] = x
         /\ InOrder(ls) => Increasing(Visible(ls, q, f))
         /\ InOrder(ls) => \A n \in DOMAIN Visible(ls, q, f) :
                             n <= Len(ls) /\ ls[n].index <= Visible(ls, q, f)[n]
<1> DEFINE V == Visible(ls, q, f)
<1>1. V \in Seq(0..MaxLines)
  BY VisibleFacts
<1>2. PICK at \in [1..Len(V) -> 1..Len(ls)] :
        /\ Increasing(at)
        /\ \A n \in 1..Len(V) : at[n] >= n /\ V[n] = ls[at[n]].index
        /\ \A n \in 1..Len(V) : Passes(q, f, V[n])
        /\ \A k \in 1..Len(ls) : Passes(q, f, ls[k].index) => \E n \in 1..Len(V) : at[n] = k
  BY VisibleFacts
<1> HIDE DEF V
<1>3. DOMAIN V = 1..Len(V) /\ Len(V) \in Nat /\ DOMAIN ls = 1..Len(ls) /\ Len(ls) \in Nat
  BY <1>1
<1>4. \A n \in DOMAIN V : at[n] \in DOMAIN ls /\ V[n] \in 0..MaxLines
  <2> TAKE n \in DOMAIN V
  <2>1. n \in 1..Len(V) /\ V[n] \in 0..MaxLines
    BY <1>1, SeqIsFunction
  <2>2. at[n] \in 1..Len(ls)
    BY <2>1
  <2>. QED  BY <1>3, <2>1, <2>2
<1>5. \A n \in DOMAIN V : V[n] \in Numbers(ls, q, f)
  BY <1>2, <1>3, <1>4 DEF Numbers
<1>6. \A x \in Numbers(ls, q, f) : \E n \in DOMAIN V : V[n] = x
  <2> SUFFICES ASSUME NEW k \in DOMAIN ls, Passes(q, f, ls[k].index)
               PROVE  \E n \in DOMAIN V : V[n] = ls[k].index
    BY DEF Numbers
  <2>1. PICK n \in 1..Len(V) : at[n] = k
    BY <1>2, <1>3
  <2>. QED  BY <1>2, <1>3, <2>1
<1>7. \A k \in DOMAIN ls : ls[k].index \in Int
  BY LineNumber
<1>8. InOrder(ls) => Increasing(V)
  BY <1>2, <1>3, <1>4 DEF InOrder, Increasing
<1>9. InOrder(ls) => \A n \in DOMAIN V : n <= Len(ls) /\ ls[n].index <= V[n]
  <2> SUFFICES ASSUME InOrder(ls), NEW n \in DOMAIN V PROVE n <= Len(ls) /\ ls[n].index <= V[n]
    OBVIOUS
  <2>1. at[n] >= n /\ at[n] \in 1..Len(ls) /\ V[n] = ls[at[n]].index /\ n \in 1..Len(V)
    BY <1>2, <1>3, <1>4
  <2>2. n \in DOMAIN ls
    BY <1>3, <2>1
  <2>3. CASE at[n] = n
    BY <1>7, <2>1, <2>2, <2>3
  <2>4. CASE n < at[n]
    BY <1>3, <1>7, <2>1, <2>2, <2>4 DEF InOrder
  <2>. QED  BY <1>3, <2>1, <2>3, <2>4
<1>. QED  BY <1>1, <1>5, <1>6, <1>8, <1>9 DEF V

Pin_Set == Nowhere..MaxLines

LEMMA NumberSeq ==
  ASSUME NEW V \in Seq(0..MaxLines)
  PROVE  /\ Len(V) \in Nat /\ DOMAIN V = 1..Len(V)
         /\ \A n \in 1..Len(V) : V[n] \in 0..MaxLines /\ V[n] \in Nat
<1> DEFINE S == 0..MaxLines
<1>1. \A x \in S : x \in Nat
  OBVIOUS
<1>2. V \in Seq(S)
  OBVIOUS
<1> HIDE DEF S
<1>3. Len(V) \in Nat /\ DOMAIN V = 1..Len(V) /\ \A n \in 1..Len(V) : V[n] \in S
  BY <1>2, SeqIsFunction
<1>4. Len(V) \in Nat /\ DOMAIN V = 1..Len(V) /\ \A n \in 1..Len(V) : V[n] \in S /\ V[n] \in Nat
  BY <1>1, <1>3
<1>. QED  BY <1>4 DEF S

(* RowOf is the first row at or after a line. *)
LEMMA RowFacts ==
  ASSUME NEW V \in Seq(0..MaxLines), NEW p \in Int
  PROVE  /\ RowOf(V, p) \in 1..Len(V) + 1
         /\ \A k \in 1..Len(V) : k < RowOf(V, p) => V[k] < p
         /\ RowOf(V, p) <= Len(V) => V[RowOf(V, p)] >= p
<1> DEFINE at == {k \in DOMAIN V : V[k] >= p}
<1>1. Len(V) \in Nat /\ DOMAIN V = 1..Len(V) /\ \A n \in 1..Len(V) : V[n] \in 0..MaxLines /\ V[n] \in Int
  BY NumberSeq
<1>2. CASE at = {}
  BY <1>1, <1>2 DEF RowOf
<1>3. CASE at # {}
  <2>1. at \in SUBSET Nat
    BY <1>1
  <2>2. \E k \in at : \A n \in at : k <= n
    <3> HIDE DEF at
    <3>. QED  BY <1>3, <2>1, LeastNumber
  <2>3. RowOf(V, p) = CHOOSE k \in at : \A n \in at : k <= n
    BY <1>3 DEF RowOf
  <2>4. RowOf(V, p) \in at /\ \A n \in at : RowOf(V, p) <= n
    <3> HIDE DEF at
    <3>. QED  BY <2>2, <2>3
  <2>. QED  BY <1>1, <2>4
<1>. QED  BY <1>2, <1>3

LEMMA FloorFacts ==
  ASSUME NEW S, NEW s \in Seq(S)
  PROVE  /\ Floor(s) \in 0..Len(s) /\ Floor(s) <= LogRows
         /\ Floor(s) = LogRows \/ Floor(s) = Len(s)
         /\ s # <<>> => Floor(s) \in 1..Len(s)
         /\ s # <<>> <=> Len(s) > 0
  BY PaneAssumption DEF Floor, Least

LEMMA LastFacts ==
  ASSUME NEW S, NEW s \in Seq(S), s # <<>>
  PROVE  Last(s) = s[Len(s)] /\ Len(s) \in 1..Len(s) /\ Last(s) \in S
  BY DEF Last

(* The pane is pinned a screen away from the front, or not at all. *)
PinOK(ls, p) == p = Nowhere \/ (ls # <<>> /\ ls[Floor(ls)].index <= p)

(* A pin on a row at or after the floor is at or after the floor of all the lines, filter or not. *)
LEMMA PinToKeepsFloor ==
  ASSUME NEW ls \in Seq(LineSet), NEW q, NEW f \in BOOLEAN,
         NEW V, V = Visible(ls, q, f), V # <<>>, NEW row \in Floor(V)..Len(V)
  PROVE  PinTo(V, row) \in Pin_Set /\ (InOrder(ls) => PinOK(ls, PinTo(V, row)))
<1>1. V \in Seq(0..MaxLines)
  BY VisibleNumbers
<1>2. Floor(V) \in 1..Len(V) /\ (Floor(V) = LogRows \/ Floor(V) = Len(V)) /\ Len(V) \in Nat
  BY <1>1, FloorFacts
<1>3. row \in 1..Len(V) /\ V[row] \in 0..MaxLines
  BY <1>1, <1>2, NumberSeq
<1>4. PinTo(V, row) \in Pin_Set
  BY <1>3, PaneAssumption DEF PinTo, Pin_Set, Nowhere
<1>5. ASSUME InOrder(ls) PROVE PinOK(ls, PinTo(V, row))
  <2>1. CASE V[row] >= Last(V)
    BY <2>1 DEF PinTo, PinOK
  <2>2. CASE ~(V[row] >= Last(V))
    <3>1. PinTo(V, row) = V[row]
      BY <2>2 DEF PinTo
    <3>2. row # Len(V)
      BY <1>1, <1>3, <2>2, LastFacts
    <3>3. Floor(V) = LogRows
      BY <1>2, <1>3, <3>2
    <3>4. LogRows <= Len(ls) /\ ls[LogRows].index <= V[LogRows] /\ LogRows \in 1..Len(V)
      BY <1>1, <1>2, <1>5, <3>3, VisibleNumbers
    <3>5. Floor(ls) = LogRows /\ ls # <<>>
      BY <3>4, LineNumber, PaneAssumption DEF Floor, Least
    <3>6. V[LogRows] <= V[row]
      <4>1. Increasing(V)
        BY <1>5, VisibleNumbers
      <4>2. LogRows <= row
        BY <3>3
      <4>3. V[LogRows] \in 0..MaxLines
        BY <1>1, <3>4, NumberSeq
      <4>. QED  BY <1>1, <1>3, <3>4, <4>1, <4>2, <4>3 DEF Increasing
    <3>7. ls[LogRows].index \in Nat /\ V[LogRows] \in Nat /\ V[row] \in Nat
      BY <1>1, <1>3, <3>4, LineNumber, PaneAssumption
    <3>. QED  BY <3>1, <3>4, <3>5, <3>6, <3>7 DEF PinOK
  <2>. QED  BY <2>1, <2>2
<1>. QED  BY <1>4, <1>5

(* clamp_pin makes a pin. *)
LEMMA ClampedFacts ==
  ASSUME NEW V \in Seq(0..MaxLines), NEW p \in Pin_Set
  PROVE  /\ Clamped(V, p) \in Pin_Set
         /\ \/ Clamped(V, p) = Nowhere
            \/ /\ p # Nowhere /\ V # <<>> /\ p < Last(V) /\ Last(V) \in 0..MaxLines
               /\ Clamped(V, p) = Greatest(p, V[Floor(V)])
               /\ Clamped(V, p) >= p /\ Clamped(V, p) >= V[Floor(V)] /\ V[Floor(V)] \in 0..MaxLines
               /\ Clamped(V, p) \in {p, V[Floor(V)]}
<1>1. CASE p = Nowhere \/ V = <<>> \/ p >= Last(V)
  BY <1>1, PaneAssumption DEF Clamped, Pin_Set, Nowhere
<1>2. CASE ~(p = Nowhere \/ V = <<>> \/ p >= Last(V))
  <2>1. Clamped(V, p) = Greatest(p, V[Floor(V)])
    BY <1>2 DEF Clamped
  <2>2. V[Floor(V)] \in 0..MaxLines
    BY <1>2, FloorFacts, NumberSeq
  <2>3. Last(V) \in 0..MaxLines
    BY <1>2, LastFacts
  <2>. QED  BY <1>2, <2>1, <2>2, <2>3, PaneAssumption DEF Greatest, Pin_Set, Nowhere
<1>. QED  BY <1>1, <1>2

(* clamp_pin, on what the filter shows, leaves the pin at or after the floor of all the lines. *)
LEMMA ClampedKeepsFloor ==
  ASSUME NEW ls \in Seq(LineSet), NEW q, NEW f \in BOOLEAN, NEW p \in Pin_Set, PinOK(ls, p)
  PROVE  PinOK(ls, Clamped(Visible(ls, q, f), p))
<1>1. Visible(ls, q, f) \in Seq(0..MaxLines)
  BY VisibleNumbers
<1> DEFINE c == Clamped(Visible(ls, q, f), p)
<1>2. c = Nowhere \/ (p # Nowhere /\ c >= p /\ c \in Pin_Set)
  BY <1>1, ClampedFacts
<1>3. ls # <<>> => ls[Floor(ls)].index \in Nat
  BY LineNumber, FloorFacts
<1> HIDE DEF c
<1>4. PinOK(ls, c)
  BY <1>2, <1>3, PaneAssumption DEF PinOK, Pin_Set, Nowhere
<1>. QED  BY <1>4 DEF c

(* The pane holds what it held and the new line, without the oldest when it is full. *)
LEMMA HeldFacts ==
  ASSUME NEW ls \in Seq(LineSet), Len(ls) <= MaxScrollback, NEW line \in LineSet
  PROVE  LET a == Append(ls, line)
             h == Held(a)
         IN  /\ a \in Seq(LineSet) /\ Len(a) = Len(ls) + 1
             /\ a[Len(a)] = line /\ \A k \in 1..Len(ls) : a[k] = ls[k]
             /\ h \in Seq(LineSet) /\ h # <<>> /\ Len(h) <= MaxScrollback
             /\ \/ Len(a) <= MaxScrollback /\ h = a
                \/ /\ Len(h) = Len(ls) /\ Len(ls) = MaxScrollback
                   /\ \A k \in 1..Len(h) : h[k] = a[k+1]
<1> DEFINE a == Append(ls, line)
           h == Held(a)
<1>1. a \in Seq(LineSet) /\ Len(a) = Len(ls) + 1
      /\ a[Len(a)] = line /\ \A k \in 1..Len(ls) : a[k] = ls[k]
  BY AppendProperties
<1>2. CASE Len(a) <= MaxScrollback
  <2>1. h = a
    BY <1>1, <1>2, PaneAssumption DEF Held
  <2>2. a # <<>>
    BY <1>1
  <2>. QED  BY <1>1, <1>2, <2>1, <2>2
<1>3. CASE Len(a) > MaxScrollback
  <2>1. Len(ls) = MaxScrollback /\ Len(ls) \in Nat /\ Len(a) = MaxScrollback + 1
    BY <1>1, <1>3, PaneAssumption
  <2>2. h = SubSeq(a, 2, Len(a))
    BY <1>3, <2>1 DEF Held
  <2>3. h \in Seq(LineSet) /\ Len(h) = Len(ls) /\ \A k \in 1..Len(h) : h[k] = a[k+1]
    <3>1. \A i \in 2..Len(a) : a[i] \in LineSet
      BY <1>1, SeqIsFunction
    <3> HIDE DEF a
    <3>2. Len(a) \in Int
      BY <2>1, PaneAssumption
    <3>3. /\ SubSeq(a, 2, Len(a)) \in Seq(LineSet)
          /\ Len(SubSeq(a, 2, Len(a))) = IF 2 <= Len(a) THEN Len(a) - 2 + 1 ELSE 0
          /\ \A i \in 1..Len(a) - 2 + 1 : SubSeq(a, 2, Len(a))[i] = a[2 + i - 1]
      BY <3>1, <3>2, SubSeqProperties
    <3>4. Len(h) = Len(ls) /\ Len(a) - 2 + 1 = Len(h)
      BY <2>1, <2>2, <3>3, PaneAssumption
    <3>5. \A k \in 1..Len(h) : 2 + k - 1 = k + 1
      OBVIOUS
    <3>. QED  BY <2>2, <3>3, <3>4, <3>5
  <2>4. h # <<>>
    BY <2>1, <2>3, PaneAssumption
  <2>. QED  BY <1>1, <2>1, <2>3, <2>4
<1>. QED  BY <1>1, <1>2, <1>3, PaneAssumption

(* A new line in order leaves the pin at or after the floor, also when it pushes the first out. *)
LEMMA AppendKeepsFloor ==
  ASSUME NEW ls \in Seq(LineSet), Len(ls) <= MaxScrollback, NEW line \in LineSet,
         NEW q, NEW f \in BOOLEAN, NEW p \in Pin_Set,
         InOrder(Append(ls, line)), PinOK(ls, p),
         NEW h, h = Held(Append(ls, line))
  PROVE  InOrder(h) /\ PinOK(h, Clamped(Visible(h, q, f), p))
<1> DEFINE a == Append(ls, line)
           V == Visible(h, q, f)
           c == Clamped(V, p)
           F == Floor(ls)
<1>1. /\ a \in Seq(LineSet) /\ Len(a) = Len(ls) + 1
      /\ a[Len(a)] = line /\ \A k \in 1..Len(ls) : a[k] = ls[k]
      /\ h \in Seq(LineSet) /\ h # <<>> /\ Len(h) <= MaxScrollback
      /\ \/ Len(a) <= MaxScrollback /\ h = a
         \/ /\ Len(h) = Len(ls) /\ Len(ls) = MaxScrollback
            /\ \A k \in 1..Len(h) : h[k] = a[k+1]
  BY HeldFacts
<1>2. InOrder(a)
  OBVIOUS
<1> HIDE DEF a
<1>3. /\ DOMAIN h = 1..Len(h) /\ DOMAIN a = 1..Len(a) /\ Len(h) \in Nat /\ Len(a) \in Nat /\ Len(ls) \in Nat
      /\ \A k \in 1..Len(h) : h[k].index \in Nat
      /\ \A k \in 1..Len(a) : a[k].index \in Nat
  BY <1>1, LineNumber
<1>4. \A k, n \in 1..Len(a) : k < n => a[k].index < a[n].index
  BY <1>2, <1>3 DEF InOrder
<1>5. InOrder(h)
  <2>1. \A k, n \in 1..Len(h) : k < n => h[k].index < h[n].index
    <3>1. CASE h = a
      BY <1>4, <3>1
    <3>2. CASE /\ Len(h) = Len(ls)
               /\ \A k \in 1..Len(h) : h[k] = a[k+1]
      <4> SUFFICES ASSUME NEW k \in 1..Len(h), NEW n \in 1..Len(h), k < n PROVE h[k].index < h[n].index
        OBVIOUS
      <4>1. k + 1 \in 1..Len(a) /\ n + 1 \in 1..Len(a) /\ k + 1 < n + 1
        BY <1>1, <1>3, <3>2
      <4>2. a[k+1].index < a[n+1].index
        BY <1>4, <4>1
      <4>. QED  BY <3>2, <4>2
    <3>. QED  BY <1>1, <3>1, <3>2
  <2>. QED  BY <1>3, <2>1 DEF InOrder
<1>6. V \in Seq(0..MaxLines)
  BY <1>1, VisibleNumbers
<1>7. CASE c = Nowhere
  BY <1>5, <1>7 DEF PinOK
<1>8. CASE c # Nowhere
  <2>1. /\ p # Nowhere /\ V # <<>> /\ p < Last(V) /\ Last(V) \in 0..MaxLines
        /\ c >= p /\ c >= V[Floor(V)] /\ V[Floor(V)] \in 0..MaxLines /\ c \in Pin_Set
    BY <1>6, <1>8, ClampedFacts
  <2>2. Floor(V) \in 1..Len(V) /\ (Floor(V) = LogRows \/ Floor(V) = Len(V)) /\ Len(V) \in Nat
    BY <1>6, <2>1, FloorFacts
  <2>3. Floor(h) \in 1..Len(h) /\ Floor(h) <= LogRows
    BY <1>1, FloorFacts
  <2>4. ls # <<>> /\ ls[F].index <= p /\ F \in 1..Len(ls)
    BY <2>1, FloorFacts DEF PinOK
  <2>5. a[F].index <= p /\ F \in 1..Len(a) /\ F + 1 \in 1..Len(a) /\ p \in Int
    BY <1>1, <1>3, <2>1, <2>4, PaneAssumption DEF Pin_Set, Nowhere
  <2>6. CASE Floor(V) = LogRows
    <3>1. LogRows <= Len(h) /\ h[LogRows].index <= V[LogRows]
      BY <1>1, <1>5, <1>6, <2>2, <2>6, VisibleNumbers, NumberSeq
    <3>2. Floor(h) = LogRows
      BY <1>3, <3>1, PaneAssumption DEF Floor, Least
    <3>3. h[LogRows].index \in Nat /\ c \in Int /\ V[LogRows] \in Int
      BY <1>3, <2>1, <2>3, <2>6, <3>2, PaneAssumption DEF Pin_Set, Nowhere
    <3>. QED  BY <1>1, <1>5, <2>1, <2>6, <3>1, <3>2, <3>3 DEF PinOK
  <2>7. CASE Floor(V) = Len(V)
    <3>1. Last(V) = V[Len(V)] /\ Len(V) \in DOMAIN V
      BY <1>6, <2>1, <2>2, LastFacts, NumberSeq
    <3>2. c >= Last(V)
      BY <2>1, <2>7, <3>1
    <3>3. PICK k \in 1..Len(h) : Last(V) = h[k].index
      <4>1. V[Len(V)] \in Numbers(h, q, f)
        BY <1>1, <3>1, VisibleNumbers
      <4>. QED  BY <1>3, <3>1, <4>1 DEF Numbers
    <3>4. CASE h = a
      <4>1. a[k].index > a[F].index
        BY <1>3, <2>1, <2>5, <3>3, <3>4
      <4>2. k > F
        BY <1>3, <1>4, <2>5, <3>3, <3>4, <4>1
      <4>3. Floor(h) <= F + 1
        BY <1>1, <1>3, <3>4, PaneAssumption DEF Floor, Least
      <4>4. Floor(h) <= k
        BY <1>3, <2>3, <2>5, <3>3, <4>2, <4>3
      <4>5. h[Floor(h)].index <= h[k].index
        BY <1>3, <1>5, <2>3, <3>3, <4>4 DEF InOrder
      <4>. QED  BY <1>1, <1>3, <1>5, <2>1, <2>3, <3>2, <3>3, <4>5, PaneAssumption DEF PinOK, Pin_Set, Nowhere
    <3>5. CASE Len(h) = Len(ls) /\ \A n \in 1..Len(h) : h[n] = a[n+1]
      <4>1. a[k+1].index > a[F].index /\ k + 1 \in 1..Len(a)
        BY <1>1, <1>3, <2>1, <2>5, <3>3, <3>5
      <4>2. k + 1 > F
        BY <1>3, <1>4, <2>5, <3>3, <3>5, <4>1
      <4>3. Floor(h) = F
        BY <3>5 DEF Floor
      <4>4. Floor(h) <= k
        BY <1>3, <2>3, <2>5, <3>3, <4>2, <4>3
      <4>5. h[Floor(h)].index <= h[k].index
        BY <1>3, <1>5, <2>3, <3>3, <4>4 DEF InOrder
      <4>. QED  BY <1>1, <1>3, <1>5, <2>1, <2>3, <3>2, <3>3, <4>5, PaneAssumption DEF PinOK, Pin_Set, Nowhere
    <3>. QED  BY <1>1, <3>4, <3>5
  <2>. QED  BY <2>2, <2>6, <2>7
<1>. QED  BY <1>5, <1>7, <1>8

(* A pin at or after the floor leaves no row of the pane blank. *)
LEMMA FullPane ==
  ASSUME NEW ls \in Seq(LineSet), InOrder(ls), NEW p \in Pin_Set, PinOK(ls, p)
  PROVE  Len(Window(Indices(ls), p)) = Least(LogRows, Len(Indices(ls)))
<1> DEFINE V == Indices(ls)
           end == WindowEnd(V, p)
<1>1. V \in Seq(0..MaxLines) /\ Len(V) = Len(ls) /\ \A k \in 1..Len(ls) : V[k] = ls[k].index
  <2>1. V \in [1..Len(ls) -> 0..MaxLines]
    BY LineNumber DEF Indices
  <2>2. Len(ls) \in Nat
    OBVIOUS
  <2>3. \A k \in 1..Len(ls) : V[k] = ls[k].index
    BY LineNumber DEF Indices
  <2> HIDE DEF V
  <2>. QED  BY <2>1, <2>2, <2>3, FunctionIsSeq
<1> HIDE DEF V
<1>2. Len(V) \in Nat /\ \A k \in 1..Len(V) : V[k] \in Nat
  BY <1>1, NumberSeq
<1>3. p \in Int /\ RowOf(V, p) \in 1..Len(V) + 1
  <2>1. p \in Int
    BY PaneAssumption DEF Pin_Set, Nowhere
  <2>. QED  BY <1>1, <2>1, RowFacts
<1>4. end \in 0..Len(V) /\ (end = Len(V) \/ end >= LogRows)
  <2>1. CASE p = Nowhere
    BY <1>2, <2>1 DEF WindowEnd
  <2>2. CASE p # Nowhere
    <3>1. ls # <<>> /\ ls[Floor(ls)].index <= p /\ Floor(ls) \in 1..Len(ls)
      BY <2>2, FloorFacts DEF PinOK
    <3>2. Floor(ls) <= RowOf(V, p)
      <4>1. SUFFICES ASSUME RowOf(V, p) < Floor(ls) PROVE FALSE
        BY <1>2, <1>3, <3>1
      <4>2. RowOf(V, p) \in 1..Len(V) /\ V[RowOf(V, p)] >= p
        <5>1. RowOf(V, p) \in 1..Len(V) /\ RowOf(V, p) <= Len(V)
          BY <1>1, <1>2, <1>3, <3>1, <4>1
        <5>. QED  BY <1>1, <1>3, <5>1, RowFacts
      <4>3. ls[RowOf(V, p)].index < ls[Floor(ls)].index
        BY <1>1, <3>1, <4>1, <4>2, LineNumber DEF InOrder
      <4>4. ls[RowOf(V, p)].index \in Nat /\ ls[Floor(ls)].index \in Nat
        BY <1>1, <3>1, <4>2, LineNumber
      <4>. QED  BY <1>1, <1>3, <3>1, <4>2, <4>3, <4>4
    <3>3. end = Least(RowOf(V, p), Len(V))
      BY <2>2 DEF WindowEnd
    <3>4. Floor(ls) = LogRows \/ Floor(ls) = Len(V)
      BY <1>1, FloorFacts
    <3>. QED  BY <1>1, <1>2, <1>3, <3>1, <3>2, <3>3, <3>4, PaneAssumption DEF Least
  <2>. QED  BY <2>1, <2>2
<1> DEFINE start == Greatest(end - LogRows, 0) + 1
<1>5. Window(V, p) = SubSeq(V, start, end)
  BY DEF Window
<1>6. start \in 1..end + 1 /\ start \in Int /\ end \in Int
      /\ end - start + 1 = Least(LogRows, Len(V))
  BY <1>2, <1>4, PaneAssumption DEF Greatest, Least
<1> HIDE DEF end, start
<1>7. \A i \in start..end : V[i] \in 0..MaxLines
  BY <1>1, <1>2, <1>4, <1>6, NumberSeq
<1>8. Len(SubSeq(V, start, end)) = IF start <= end THEN end - start + 1 ELSE 0
  BY <1>6, <1>7, SubSeqProperties
<1>9. Len(Window(V, p)) = Least(LogRows, Len(V))
  BY <1>5, <1>6, <1>8
<1>. QED  BY <1>9 DEF V

PaneInv ==
  /\ PaneTypeOK /\ lines \in Seq(LineSet)
  /\ tidy => InOrder(lines) /\ PinOK(lines, pinned)

(* PaneInv, part by part; and a step that has the parts has it. *)
LEMMA PaneTypes ==
  ASSUME PaneInv
  PROVE  /\ lines \in Seq(LineSet) /\ Len(lines) <= MaxScrollback /\ tidy \in BOOLEAN
         /\ pinned \in Pin_Set /\ cursor \in Pin_Set /\ query \in QuerySet /\ filter \in BOOLEAN
         /\ typing \in BOOLEAN /\ (tidy => InOrder(lines) /\ PinOK(lines, pinned))
         /\ Shown \in Seq(0..MaxLines)
  BY VisibleNumbers DEF PaneInv, PaneTypeOK, Pin_Set, Shown

LEMMA PaneAfter ==
  ASSUME lines' \in Seq(LineSet), Len(lines') <= MaxScrollback, tidy' \in BOOLEAN,
         pinned' \in Pin_Set, cursor' \in Pin_Set, query' \in QuerySet, filter' \in BOOLEAN,
         typing' \in BOOLEAN, tidy' => InOrder(lines') /\ PinOK(lines', pinned')
  PROVE  PaneInv'
<1>1. \A k \in DOMAIN lines' : lines'[k].index \in 0..MaxLines /\ (lines'[k].gap => lines'[k].index = 0)
  <2>1. \A line \in LineSet : line.gap => line.index = 0
    BY DEF LineSet
  <2>. QED  BY <2>1, LineNumber
<1>2. PaneTypeOK'
  BY <1>1 DEF PaneTypeOK, Pin_Set
<1>3. lines' \in Seq(LineSet)
  OBVIOUS
<1>. QED  BY <1>2, <1>3 DEF PaneInv

(* The line that pin() freezes the pane on is at or after the floor. *)
LEMMA PinFacts ==
  ASSUME PaneInv
  PROVE  Pin \in Pin_Set /\ Pin \in Int /\ (tidy => PinOK(lines, Pin))
<1>1. CASE pinned # Nowhere \/ lines = <<>>
  BY <1>1, PaneTypes, PaneAssumption DEF Pin, Pin_Set, Nowhere
<1>2. CASE pinned = Nowhere /\ lines # <<>>
  <2>1. Pin = lines[Len(lines)].index /\ Len(lines) \in 1..Len(lines)
    BY <1>2, PaneTypes, LastFacts DEF Pin
  <2>2. Pin \in 0..MaxLines
    BY <2>1, PaneTypes, LineNumber
  <2>3. tidy => lines[Floor(lines)].index <= Pin
    <3>1. Floor(lines) \in 1..Len(lines)
      BY <1>2, PaneTypes, FloorFacts
    <3>2. lines[Floor(lines)].index \in Nat /\ lines[Len(lines)].index \in Nat
      BY <2>1, <3>1, PaneTypes, LineNumber
    <3>3. tidy /\ Floor(lines) < Len(lines) => lines[Floor(lines)].index < lines[Len(lines)].index
      BY <2>1, <3>1, PaneTypes, LineNumber DEF InOrder
    <3>4. Floor(lines) = Len(lines) \/ Floor(lines) < Len(lines)
      BY <2>1, <3>1
    <3>. QED  BY <2>1, <3>2, <3>3, <3>4
  <2>. QED  BY <1>2, <2>2, <2>3, PaneAssumption DEF PinOK, Pin_Set, Nowhere
<1>. QED  BY <1>1, <1>2

LEMMA BetweenFloorAndEnd ==
  ASSUME PaneInv, Shown # <<>>, NEW n \in Int
  PROVE  /\ Least(Greatest(n, Floor(Shown)), Len(Shown)) \in Floor(Shown)..Len(Shown)
         /\ Greatest(Least(n, Len(Shown)), Floor(Shown)) \in Floor(Shown)..Len(Shown)
<1>1. Floor(Shown) \in 1..Len(Shown) /\ Len(Shown) \in Nat
  BY PaneTypes, FloorFacts
<1>. QED  BY <1>1 DEF Least, Greatest

LEMMA PinnedToRow ==
  ASSUME PaneInv, Shown # <<>>, NEW row \in Floor(Shown)..Len(Shown)
  PROVE  PinTo(Shown, row) \in Pin_Set /\ (tidy => PinOK(lines, PinTo(Shown, row)))
  BY PaneTypes, PinToKeepsFloor DEF Shown

LEMMA NowhereIsOK ==
  Nowhere \in Pin_Set /\ \A ls : PinOK(ls, Nowhere)
  BY PaneAssumption DEF Pin_Set, PinOK, Nowhere

(* The actions on the pane, each of which keeps it in order. *)
LEMMA PaneScroll ==
  ASSUME PaneInv, NEW delta \in Int, Scroll(delta)
  PROVE  PaneInv'
<1> USE PaneTypes
<1>1. pinned' \in Pin_Set /\ (tidy => PinOK(lines, pinned'))
  <2>1. CASE Shown = <<>>
    BY <2>1 DEF Scroll
  <2>2. CASE Shown # <<>>
    <3> DEFINE at == Least(RowOf(Shown, Pin), Len(Shown))
               row == Least(Greatest(at + delta, Floor(Shown)), Len(Shown))
    <3>1. pinned' = PinTo(Shown, row)
      BY <2>2 DEF Scroll
    <3>2. RowOf(Shown, Pin) \in 1..Len(Shown) + 1 /\ Len(Shown) \in Nat
      BY PinFacts, RowFacts
    <3>3. at + delta \in Int
      BY <3>2 DEF Least
    <3>4. row \in Floor(Shown)..Len(Shown)
      <4> HIDE DEF at
      <4>. QED  BY <2>2, <3>3, BetweenFloorAndEnd
    <3> HIDE DEF row
    <3>. QED  BY <2>2, <3>1, <3>4, PinnedToRow
  <2>. QED  BY <2>1, <2>2
<1>2. UNCHANGED <<lines, tidy, query, typing, filter>> /\ cursor' = Nowhere
  BY DEF Scroll, outputVars, searchVars
<1>3. lines' \in Seq(LineSet) /\ Len(lines') <= MaxScrollback /\ tidy' \in BOOLEAN
      /\ pinned' \in Pin_Set /\ cursor' \in Pin_Set /\ query' \in QuerySet /\ filter' \in BOOLEAN
      /\ typing' \in BOOLEAN /\ (tidy' => InOrder(lines') /\ PinOK(lines', pinned'))
  BY <1>1, <1>2, NowhereIsOK
<1>. QED  BY <1>3, PaneAfter

LEMMA PaneReset ==
  ASSUME PaneInv, ResetLog
  PROVE  PaneInv'
<1>1. lines' = <<>> /\ tidy' = TRUE /\ pinned' = Nowhere /\ cursor' = Nowhere
      /\ UNCHANGED <<query, typing, filter>>
  BY DEF ResetLog, searchVars
<1>2. InOrder(<<>>) /\ <<>> \in Seq(LineSet) /\ Len(<<>>) <= MaxScrollback
  BY PaneAssumption DEF InOrder
<1>3. query' \in QuerySet /\ filter' \in BOOLEAN /\ typing' \in BOOLEAN
  BY <1>1, PaneTypes
<1>. QED  BY <1>1, <1>2, <1>3, NowhereIsOK, PaneAfter

LEMMA PaneAppend ==
  ASSUME PaneInv, NEW line \in LineSet, AppendLogLine(line)
  PROVE  PaneInv'
<1> DEFINE a == Append(lines, line)
           V == Visible(lines', query, filter)
<1>1. /\ lines' = Held(a) /\ tidy' = (tidy /\ InOrder(a)) /\ pinned' = Clamped(V, pinned)
      /\ UNCHANGED <<query, typing, filter, cursor>>
  BY DEF AppendLogLine, searchVars
<1>2. lines' \in Seq(LineSet) /\ Len(lines') <= MaxScrollback
  BY <1>1, PaneTypes, HeldFacts
<1>3. V \in Seq(0..MaxLines)
  BY <1>2, PaneTypes, VisibleNumbers
<1>4. pinned' \in Pin_Set
  BY <1>1, <1>3, PaneTypes, ClampedFacts
<1>5. tidy' => InOrder(lines') /\ PinOK(lines', pinned')
  BY <1>1, PaneTypes, AppendKeepsFloor
<1>6. cursor' \in Pin_Set /\ query' \in QuerySet /\ filter' \in BOOLEAN /\ typing' \in BOOLEAN
  BY <1>1, PaneTypes
<1>7. tidy' \in BOOLEAN
  BY <1>1
<1>. QED  BY <1>2, <1>4, <1>5, <1>6, <1>7, PaneAfter

(* A key that leaves the lines alone keeps the pane in order when the pin it makes is. *)
LEMMA PaneKey ==
  ASSUME PaneInv, lines' = lines, tidy' = tidy, pinned' \in Pin_Set,
         tidy => PinOK(lines, pinned'), cursor' \in Pin_Set,
         query' \in QuerySet, filter' \in BOOLEAN, typing' \in BOOLEAN
  PROVE  PaneInv'
<1>1. lines' \in Seq(LineSet) /\ Len(lines') <= MaxScrollback /\ tidy' \in BOOLEAN
      /\ (tidy' => InOrder(lines') /\ PinOK(lines', pinned'))
  BY PaneTypes
<1>. QED  BY <1>1, PaneAfter

LEMMA PaneFollow ==
  ASSUME PaneInv, Follow \/ ToggleFollow
  PROVE  PaneInv'
<1>1. UNCHANGED <<lines, tidy, cursor, query, typing, filter>>
  BY DEF Follow, ToggleFollow, outputVars, searchVars
<1>2. pinned' = Nowhere \/ pinned' = Pin
  BY DEF Follow, ToggleFollow
<1>3. pinned' \in Pin_Set /\ (tidy => PinOK(lines, pinned'))
  BY <1>2, PinFacts, NowhereIsOK
<1>4. cursor' \in Pin_Set /\ query' \in QuerySet /\ filter' \in BOOLEAN /\ typing' \in BOOLEAN
  BY <1>1, PaneTypes
<1>. QED  BY <1>1, <1>3, <1>4, PaneKey

LEMMA PaneSearch ==
  ASSUME PaneInv, SearchStart \/ SearchInput \/ SearchBackspace \/ SearchAccept \/ SearchCancel
  PROVE  PaneInv'
<1>1. lines' = lines /\ tidy' = tidy
  BY DEF SearchStart, SearchInput, SearchBackspace, SearchAccept, SearchCancel, outputVars
<1>2. pinned' = pinned \/ pinned' = Pin
  BY DEF SearchStart, SearchInput, SearchBackspace, SearchAccept, SearchCancel
<1>3. cursor' = cursor \/ cursor' = Nowhere
  BY DEF SearchStart, SearchInput, SearchBackspace, SearchAccept, SearchCancel
<1>4. query' = query \/ query' \in QuerySet
  BY DEF SearchStart, SearchInput, SearchBackspace, SearchAccept, SearchCancel, QuerySet
<1>5. filter' \in {filter, FALSE} /\ typing' \in {typing, TRUE, FALSE}
  BY DEF SearchStart, SearchInput, SearchBackspace, SearchAccept, SearchCancel
<1>6. pinned' \in Pin_Set /\ (tidy => PinOK(lines, pinned'))
  BY <1>2, PinFacts, PaneTypes
<1>7. cursor' \in Pin_Set /\ query' \in QuerySet /\ filter' \in BOOLEAN /\ typing' \in BOOLEAN
  BY <1>3, <1>4, <1>5, NowhereIsOK, PaneTypes
<1>. QED  BY <1>1, <1>6, <1>7, PaneKey

LEMMA PaneToggleFilter ==
  ASSUME PaneInv, ToggleFilterMatches
  PROVE  PaneInv'
<1> DEFINE V == Visible(lines, query, filter')
<1>1. /\ UNCHANGED <<lines, tidy, cursor, query, typing>> /\ filter' \in BOOLEAN
      /\ pinned' = Clamped(V, pinned)
  BY PaneTypes DEF ToggleFilterMatches, outputVars
<1>2. V \in Seq(0..MaxLines)
  BY <1>1, PaneTypes, VisibleNumbers
<1>3. pinned' \in Pin_Set
  BY <1>1, <1>2, PaneTypes, ClampedFacts
<1>4. tidy => PinOK(lines, pinned')
  BY <1>1, PaneTypes, ClampedKeepsFloor
<1>5. cursor' \in Pin_Set /\ query' \in QuerySet /\ typing' \in BOOLEAN
  BY <1>1, PaneTypes
<1>. QED  BY <1>1, <1>3, <1>4, <1>5, PaneKey

LEMMA PaneJump ==
  ASSUME PaneInv, NEW forward \in BOOLEAN, JumpMatch(forward)
  PROVE  PaneInv'
<1> DEFINE hits == Indices(Matching(lines, query))
           from == IF cursor # Nowhere THEN cursor ELSE IF pinned # Nowhere THEN pinned ELSE Last(lines).index
           beyond == {k \in DOMAIN hits : IF forward THEN hits[k] > from ELSE hits[k] < from}
           among == IF beyond = {} THEN DOMAIN hits ELSE beyond
           at == CHOOSE k \in among : \A n \in among : IF forward THEN k <= n ELSE n <= k
<1>1. /\ hits # <<>> /\ cursor' = hits[at] /\ pinned' = Revealed(hits[at])
      /\ UNCHANGED <<lines, tidy, query, typing, filter>>
  BY DEF JumpMatch, outputVars, searchVars
<1>2. hits \in Seq(0..MaxLines)
  <2> DEFINE q == [empty |-> FALSE, hits |-> query.hits]
  <2>1. Matching(lines, q) = Matching(lines, query)
    BY DEF Matching
  <2>2. Visible(lines, q, TRUE) = hits
    BY <2>1 DEF Visible
  <2>3. Visible(lines, q, TRUE) \in Seq(0..MaxLines)
    BY PaneTypes, VisibleNumbers
  <2>. QED  BY <2>2, <2>3
<1>3. at \in DOMAIN hits
  <2> HIDE DEF hits, from
  <2>1. DOMAIN hits = 1..Len(hits) /\ Len(hits) \in Nat /\ Len(hits) # 0
    BY <1>1, <1>2
  <2>2. among \in SUBSET DOMAIN hits /\ among # {}
    <3>1. beyond \in SUBSET DOMAIN hits
      OBVIOUS
    <3>2. DOMAIN hits # {}
      BY <2>1
    <3> HIDE DEF beyond
    <3>. QED  BY <3>1, <3>2
  <2>3. among \in SUBSET (0..Len(hits)) /\ among \in SUBSET Nat
    BY <2>1, <2>2
  <2> HIDE DEF beyond, among
  <2>4. CASE forward
    <3>1. \E k \in among : \A n \in among : k <= n
      BY <2>2, <2>3, LeastNumber
    <3>. QED  BY <2>2, <2>4, <3>1
  <2>5. CASE ~forward
    <3>1. \E k \in among : \A n \in among : n <= k
      BY <2>1, <2>2, <2>3, GreatestNumber
    <3>. QED  BY <2>2, <2>5, <3>1
  <2>. QED  BY <2>4, <2>5
<1> HIDE DEF at, hits
<1>4. hits[at] \in 0..MaxLines /\ hits[at] \in Int
  BY <1>2, <1>3, NumberSeq
<1>5. pinned' \in Pin_Set /\ (tidy => PinOK(lines, pinned'))
  <2>1. CASE Shown = <<>>
    BY <1>1, <2>1, PaneTypes DEF Revealed
  <2>2. CASE Shown # <<>>
    <3> DEFINE row == RowOf(Shown, hits[at])
               start == IF row > Len(Shown) THEN 1 ELSE row
               to == start + LogRows \div 3
    <3>1. pinned' = PinTo(Shown, Greatest(Least(to, Len(Shown)), Floor(Shown)))
      BY <1>1, <2>2 DEF Revealed
    <3>2. row \in 1..Len(Shown) + 1 /\ Len(Shown) \in Nat
      <4>1. Shown \in Seq(0..MaxLines)
        BY PaneTypes
      <4>2. \A n \in Int : RowOf(Shown, n) \in 1..Len(Shown) + 1
        BY <4>1, RowFacts
      <4>. QED  BY <1>4, <4>1, <4>2, NumberSeq
    <3> HIDE DEF row
    <3>3. to \in Int
      BY <3>2, PaneAssumption
    <3> HIDE DEF to
    <3>4. Greatest(Least(to, Len(Shown)), Floor(Shown)) \in Floor(Shown)..Len(Shown)
      BY <2>2, <3>3, BetweenFloorAndEnd
    <3>. QED  BY <2>2, <3>1, <3>4, PinnedToRow
  <2>. QED  BY <2>1, <2>2
<1>6. cursor' \in Pin_Set /\ query' \in QuerySet /\ filter' \in BOOLEAN /\ typing' \in BOOLEAN
  BY <1>1, <1>4, PaneTypes, PaneAssumption DEF Pin_Set, Nowhere
<1>. QED  BY <1>1, <1>5, <1>6, PaneKey

LEMMA PaneStutters ==
  ASSUME PaneInv, UNCHANGED paneVars
  PROVE  PaneInv'
<1>1. UNCHANGED <<lines, tidy, pinned, cursor, query, typing, filter>>
  BY DEF paneVars
<1>2. pinned' \in Pin_Set /\ cursor' \in Pin_Set /\ query' \in QuerySet /\ filter' \in BOOLEAN
      /\ typing' \in BOOLEAN /\ (tidy => PinOK(lines, pinned'))
  BY <1>1, PaneTypes
<1>. QED  BY <1>1, <1>2, PaneKey

(* Two increasing sequences of the same numbers agree. *)
LEMMA SamePrefix ==
  ASSUME NEW V \in Seq(0..MaxLines), NEW W \in Seq(0..MaxLines), Increasing(V), Increasing(W),
         \A n \in 1..Len(V) : \E m \in 1..Len(W) : W[m] = V[n],
         \A m \in 1..Len(W) : \E n \in 1..Len(V) : V[n] = W[m]
  PROVE  Len(V) <= Len(W) /\ \A n \in 1..Len(V) : V[n] = W[n]
<1> DEFINE Bad == {n \in 1..Len(V) : n > Len(W) \/ V[n] # W[n]}
<1>1. /\ Len(V) \in Nat /\ DOMAIN V = 1..Len(V) /\ \A n \in 1..Len(V) : V[n] \in Nat
      /\ Len(W) \in Nat /\ DOMAIN W = 1..Len(W) /\ \A n \in 1..Len(W) : W[n] \in Nat
  BY NumberSeq
<1>7. Len(V) \in Nat /\ Len(W) \in Nat
  BY <1>1
<1>2. \A i, j \in 1..Len(V) : i < j => V[i] < V[j]
  BY <1>1 DEF Increasing
<1>3. \A i, j \in 1..Len(W) : i < j => W[i] < W[j]
  BY <1>1 DEF Increasing
<1>4. Bad = {}
  <2>1. SUFFICES ASSUME Bad # {} PROVE FALSE
    OBVIOUS
  <2>2. PICK n \in Bad : \A k \in Bad : n <= k
    <3>1. Bad \in SUBSET Nat
      OBVIOUS
    <3> HIDE DEF Bad
    <3>. QED  BY <2>1, <3>1, LeastNumber
  <2>3. n \in 1..Len(V) /\ (n > Len(W) \/ V[n] # W[n])
    OBVIOUS
  <2>4. \A k \in 1..Len(V) : k < n => k <= Len(W) /\ V[k] = W[k]
    <3> SUFFICES ASSUME NEW k \in 1..Len(V), k < n PROVE k <= Len(W) /\ V[k] = W[k]
      OBVIOUS
    <3>1. k \notin Bad
      BY <1>1, <2>2, <2>3
    <3>. QED  BY <1>1, <3>1
  <2> HIDE DEF Bad
  <2>9. n \in Nat /\ V[n] \in Nat /\ n <= Len(V)
    BY <1>1, <2>3
  <2>5. PICK m \in 1..Len(W) : W[m] = V[n]
    BY <2>3
  <2>10. m \in Nat /\ W[m] \in Nat /\ m <= Len(W)
    BY <1>1
  <2>6. CASE m < n
    <3>1. m \in 1..Len(V) /\ V[m] = W[m]
      <4>1. m \in 1..Len(V) /\ m < n
        BY <1>7, <2>6, <2>9, <2>10
      <4>. QED  BY <2>4, <4>1
    <3>. QED  BY <1>1, <1>2, <2>3, <2>5, <2>6, <3>1
  <2>7. CASE m = n
    BY <1>1, <2>3, <2>5, <2>7
  <2>8. CASE m > n
    <3>1. n \in 1..Len(W) /\ W[n] < W[m]
      <4>1. n \in 1..Len(W) /\ n < m
        BY <1>7, <2>3, <2>8, <2>9, <2>10
      <4>. QED  BY <1>3, <4>1
    <3>2. PICK j \in 1..Len(V) : V[j] = W[n]
      BY <3>1
    <3>5. j \in Nat /\ V[j] < V[n] /\ V[j] \in Nat
      BY <1>1, <2>5, <3>1, <3>2
    <3>3. j < n
      <4>1. ~(n < j) /\ n # j
        <5>1. n < j => V[n] < V[j]
          BY <1>2, <2>3
        <5>2. ~(V[n] < V[j]) /\ V[j] # V[n]
          BY <2>9, <3>5, LessIsStrict
        <5>. QED  BY <5>1, <5>2
      <4>. QED  BY <2>9, <3>5, <4>1
    <3>4. W[j] = V[j] /\ j \in 1..Len(W)
      <4>1. j <= Len(W) /\ V[j] = W[j]
        BY <2>4, <3>3
      <4>2. j >= 1
        BY <1>7
      <4>. QED  BY <1>7, <3>5, <4>1, <4>2
    <3>. QED  BY <1>1, <1>3, <3>1, <3>2, <3>3, <3>4
  <2>. QED  BY <1>1, <2>3, <2>6, <2>7, <2>8
<1>5. \A n \in 1..Len(V) : n <= Len(W) /\ V[n] = W[n]
  BY <1>1, <1>4
<1>6. Len(V) <= Len(W)
  BY <1>1, <1>5
<1>. QED  BY <1>5, <1>6

LEMMA SameRows ==
  ASSUME NEW V \in Seq(0..MaxLines), NEW W \in Seq(0..MaxLines), Increasing(V), Increasing(W),
         \A n \in 1..Len(V) : \E m \in 1..Len(W) : W[m] = V[n],
         \A m \in 1..Len(W) : \E n \in 1..Len(V) : V[n] = W[m]
  PROVE  V = W
<1>1. Len(V) <= Len(W) /\ \A n \in 1..Len(V) : V[n] = W[n]
  BY SamePrefix
<1>2. Len(W) <= Len(V)
  BY SamePrefix
<1>3. Len(V) = Len(W)
  BY <1>1, <1>2, NumberSeq
<1>. QED  BY <1>1, <1>3

(* The window on a pin that is a screen away from the front ends at its row. *)
LEMMA WindowAtPin ==
  ASSUME NEW U \in Seq(0..MaxLines), Increasing(U), NEW e \in LogRows..Len(U), NEW p \in 0..MaxLines,
         \A k \in 1..Len(U) : k < e => U[k] < p, U[e] >= p
  PROVE  Window(U, Clamped(U, p)) = SubSeq(U, e - LogRows + 1, e)
<1> DEFINE c == Clamped(U, p)
<1>1. /\ Len(U) \in Nat /\ DOMAIN U = 1..Len(U) /\ \A n \in 1..Len(U) : U[n] \in 0..MaxLines /\ U[n] \in Nat
      /\ LogRows \in Nat \ {0} /\ e \in 1..Len(U) /\ LogRows <= e /\ e <= Len(U) /\ e \in Nat /\ p \in Nat /\ MaxLines \in Nat
  BY NumberSeq, PaneAssumption
<1>2. U # <<>> /\ Last(U) = U[Len(U)] /\ Len(U) \in 1..Len(U)
  BY <1>1, LastFacts
<1>9. Len(U) \in Nat /\ LogRows \in Nat \ {0} /\ LogRows <= Len(U)
  BY <1>1
<1>3. Floor(U) = LogRows /\ LogRows \in 1..Len(U)
  BY <1>9 DEF Floor, Least
<1>4. p \in Pin_Set /\ p # Nowhere
  BY <1>1 DEF Pin_Set, Nowhere
<1>5. \A i, j \in 1..Len(U) : i < j => U[i] < U[j]
  BY <1>1 DEF Increasing
<1>6. WindowEnd(U, c) = e
  <2>1. CASE p >= Last(U)
    <3>1. c = Nowhere
      BY <2>1 DEF Clamped
    <3>2. e = Len(U)
      <4>1. U[e] >= U[Len(U)]
        BY <1>1, <1>2, <2>1
      <4>2. ~(e < Len(U))
        BY <1>1, <1>2, <1>5, <4>1
      <4>3. e \in Nat /\ e <= Len(U)
        BY <1>1
      <4>. QED  BY <1>9, <4>2, <4>3
    <3>. QED  BY <3>1, <3>2 DEF WindowEnd
  <2>2. CASE ~(p >= Last(U))
    <3>1. c = Greatest(p, U[LogRows])
      BY <1>2, <1>3, <1>4, <2>2 DEF Clamped
    <3>2. c \in Nat /\ c # Nowhere
      BY <1>1, <1>3, <3>1 DEF Greatest, Nowhere
    <3>3. U[e] >= c /\ \A k \in 1..Len(U) : k < e => U[k] < c
      <4>1. U[LogRows] <= U[e]
        BY <1>1, <1>3, <1>5
      <4>2. c >= p /\ (c = p \/ c = U[LogRows])
        BY <1>1, <1>3, <3>1 DEF Greatest
      <4> HIDE DEF c
      <4>. QED  BY <1>1, <3>2, <4>1, <4>2
    <3> HIDE DEF c
    <3>4. /\ RowOf(U, c) \in 1..Len(U) + 1
          /\ \A k \in 1..Len(U) : k < RowOf(U, c) => U[k] < c
          /\ RowOf(U, c) <= Len(U) => U[RowOf(U, c)] >= c
      BY <3>2, RowFacts
    <3>5. ~(RowOf(U, c) > e)
      BY <1>1, <3>2, <3>3, <3>4
    <3>6. ~(RowOf(U, c) < e)
      <4>1. SUFFICES ASSUME RowOf(U, c) < e PROVE FALSE
        OBVIOUS
      <4>2. RowOf(U, c) \in 1..Len(U)
        BY <1>1, <3>4, <4>1
      <4>. QED  BY <1>1, <3>2, <3>3, <3>4, <4>1, <4>2
    <3>7. RowOf(U, c) = e
      BY <1>1, <3>4, <3>5, <3>6
    <3>. QED  BY <1>1, <3>2, <3>7 DEF WindowEnd, Least
  <2>. QED  BY <2>1, <2>2
<1>7. Greatest(e - LogRows, 0) = e - LogRows
  BY <1>1 DEF Greatest
<1>. QED  BY <1>6, <1>7 DEF Window

(* The rows after a new line: those before and the line, if it passes the filter, less the
   first one if that was dropped. *)
LEMMA NewRows ==
  ASSUME NEW ls \in Seq(LineSet), Len(ls) <= MaxScrollback, NEW line \in LineSet,
         NEW q, NEW f \in BOOLEAN, InOrder(ls), InOrder(Append(ls, line)),
         NEW V, V = Visible(ls, q, f), NEW h, h = Held(Append(ls, line))
  PROVE  \E U \in Seq(0..MaxLines) :
           /\ Increasing(U) /\ Len(V) <= Len(U) /\ Len(U) <= Len(V) + 1
           /\ \A n \in 1..Len(V) : U[n] = V[n]
           /\ Len(U) > Len(V) /\ V # <<>> => U[Len(U)] > Last(V)
           /\ \/ Visible(h, q, f) = U
              \/ /\ U # <<>> /\ Visible(h, q, f) = Tail(U)
                 /\ \A k \in DOMAIN h : h[k].index # U[1]
<1> DEFINE a == Append(ls, line)
           W == Visible(h, q, f)
           x == line.index
           U == IF Passes(q, f, x) THEN Append(V, x) ELSE V
<1>1. /\ a \in Seq(LineSet) /\ Len(a) = Len(ls) + 1
      /\ a[Len(a)] = line /\ \A k \in 1..Len(ls) : a[k] = ls[k]
      /\ h \in Seq(LineSet) /\ h # <<>> /\ Len(h) <= MaxScrollback
      /\ \/ Len(a) <= MaxScrollback /\ h = a
         \/ /\ Len(h) = Len(ls) /\ Len(ls) = MaxScrollback
            /\ \A k \in 1..Len(h) : h[k] = a[k+1]
  BY HeldFacts
<1>2. InOrder(a)
  OBVIOUS
<1> HIDE DEF a
<1>3. /\ DOMAIN h = 1..Len(h) /\ DOMAIN a = 1..Len(a) /\ DOMAIN ls = 1..Len(ls)
      /\ Len(h) \in Nat /\ Len(a) \in Nat /\ Len(ls) \in Nat
  BY <1>1, LineNumber
<1>19. Len(a) = Len(ls) + 1 /\ Len(ls) \in Nat /\ Len(a) \in Nat
  BY <1>1, <1>3
<1>4. /\ \A k \in 1..Len(a) : a[k].index \in Nat
      /\ \A k, n \in 1..Len(a) : k < n => a[k].index < a[n].index
  BY <1>1, <1>2, <1>3, LineNumber DEF InOrder
<1>5. x \in 0..MaxLines /\ x \in Nat /\ x = a[Len(a)].index
  BY <1>1 DEF LineSet
<1>6. /\ V \in Seq(0..MaxLines) /\ Increasing(V)
      /\ \A n \in DOMAIN V : V[n] \in Numbers(ls, q, f)
      /\ \A y \in Numbers(ls, q, f) : \E n \in DOMAIN V : V[n] = y
  BY VisibleNumbers
<1>7. /\ Len(V) \in Nat /\ DOMAIN V = 1..Len(V) /\ \A n \in 1..Len(V) : V[n] \in 0..MaxLines /\ V[n] \in Nat
  BY <1>6, NumberSeq
<1>8. \A y \in Numbers(ls, q, f) : y < x /\ y \in Nat
  <2> SUFFICES ASSUME NEW k \in DOMAIN ls PROVE ls[k].index < x /\ ls[k].index \in Nat
    BY DEF Numbers
  <2>1. k \in 1..Len(ls) /\ ls[k] = a[k]
    BY <1>1, <1>3
  <2>2. k \in 1..Len(a) /\ k < Len(a) /\ Len(a) \in 1..Len(a)
    BY <1>19, <2>1
  <2>. QED  BY <1>4, <1>5, <2>1, <2>2
<1>9. \A n \in 1..Len(V) : V[n] < x
  BY <1>6, <1>7, <1>8
<1> HIDE DEF x
<1>10. /\ U \in Seq(0..MaxLines) /\ Increasing(U)
       /\ \A n \in 1..Len(V) : U[n] = V[n]
       /\ Len(V) <= Len(U) /\ Len(U) <= Len(V) + 1
       /\ Len(U) > Len(V) => Passes(q, f, x) /\ Len(U) = Len(V) + 1 /\ U[Len(U)] = x
       /\ Passes(q, f, x) => Len(U) = Len(V) + 1
  <2>1. CASE ~Passes(q, f, x)
    <3>1. U = V
      BY <2>1
    <3> HIDE DEF U
    <3>2. Len(U) \in Nat /\ Len(V) <= Len(U) /\ Len(U) <= Len(V) + 1 /\ ~(Len(U) > Len(V))
      BY <1>7, <3>1
    <3>. QED  BY <1>6, <2>1, <3>1, <3>2
  <2>2. CASE Passes(q, f, x)
    <3>1. U \in Seq(0..MaxLines) /\ Len(U) = Len(V) + 1 /\ U[Len(U)] = x
          /\ \A n \in 1..Len(V) : U[n] = V[n]
      BY <1>5, <1>6, <2>2, AppendProperties
    <3> HIDE DEF U
    <3>2. \A i, j \in 1..Len(U) : i < j => U[i] < U[j]
      <4> TAKE i \in 1..Len(U), j \in 1..Len(U)
      <4> HAVE i < j
      <4>1. i \in 1..Len(V) /\ U[i] = V[i]
        BY <1>7, <3>1
      <4>2. CASE j = Len(U)
        BY <1>9, <3>1, <4>1, <4>2
      <4>3. CASE j # Len(U)
        <5>1. j \in 1..Len(V) /\ U[j] = V[j]
          BY <1>7, <3>1, <4>3
        <5>. QED  BY <1>6, <1>7, <4>1, <5>1 DEF Increasing
      <4>. QED  BY <4>2, <4>3
    <3>3. Increasing(U)
      BY <3>1, <3>2, NumberSeq DEF Increasing
    <3>. QED  BY <1>7, <2>2, <3>1, <3>3
  <2>. QED  BY <2>1, <2>2
<1> HIDE DEF U
<1>11. Len(U) \in Nat /\ DOMAIN U = 1..Len(U) /\ \A n \in 1..Len(U) : U[n] \in 0..MaxLines /\ U[n] \in Nat
  BY <1>10, NumberSeq
<1>20. Len(U) \in Nat /\ Len(V) \in Nat /\ Len(V) <= Len(U) /\ Len(U) <= Len(V) + 1
  BY <1>7, <1>10, <1>11
<1>12. Len(U) > Len(V) /\ V # <<>> => U[Len(U)] > Last(V)
  <2> SUFFICES ASSUME Len(U) > Len(V), V # <<>> PROVE U[Len(U)] > Last(V)
    OBVIOUS
  <2>1. Last(V) = V[Len(V)] /\ Len(V) \in 1..Len(V)
    BY <1>6, LastFacts
  <2>2. V[Len(V)] < x /\ U[Len(U)] = x
    BY <1>9, <1>10, <2>1
  <2>. QED  BY <1>5, <1>7, <2>1, <2>2
<1>13. \A n \in 1..Len(U) : \E k \in 1..Len(a) : U[n] = a[k].index /\ Passes(q, f, U[n])
  <2> TAKE n \in 1..Len(U)
  <2>1. CASE n \in 1..Len(V)
    <3>1. U[n] \in Numbers(ls, q, f)
      BY <1>6, <1>7, <1>10, <2>1
    <3>2. PICK k \in 1..Len(ls) : U[n] = ls[k].index /\ Passes(q, f, U[n])
      BY <1>3, <3>1 DEF Numbers
    <3>3. k \in 1..Len(a) /\ a[k] = ls[k]
      <4>1. k \in 1..Len(a)
        BY <1>19
      <4>. QED  BY <1>1, <4>1
    <3>. QED  BY <3>2, <3>3
  <2>2. CASE n \notin 1..Len(V)
    <3>1. n = Len(U) /\ Len(U) > Len(V)
      BY <1>20, <2>2
    <3>2. Passes(q, f, x) /\ U[n] = x
      BY <1>10, <3>1
    <3>3. Len(a) \in 1..Len(a)
      BY <1>19
    <3>. QED  BY <1>5, <3>2, <3>3
  <2>. QED  BY <2>1, <2>2
<1>14. \A k \in 1..Len(a) : Passes(q, f, a[k].index) => \E n \in 1..Len(U) : U[n] = a[k].index
  <2> SUFFICES ASSUME NEW k \in 1..Len(a), Passes(q, f, a[k].index) PROVE \E n \in 1..Len(U) : U[n] = a[k].index
    OBVIOUS
  <2>1. CASE k = Len(a)
    BY <1>5, <1>7, <1>10, <1>11, <2>1
  <2>2. CASE k # Len(a)
    <3>1. k \in 1..Len(ls) /\ a[k] = ls[k]
      <4>1. k \in 1..Len(ls)
        BY <1>19, <2>2
      <4>. QED  BY <1>1, <4>1
    <3>2. ls[k].index \in Numbers(ls, q, f)
      BY <1>3, <3>1 DEF Numbers
    <3>3. PICK n \in 1..Len(V) : V[n] = ls[k].index
      BY <1>6, <1>7, <3>2
    <3>4. n \in 1..Len(U) /\ U[n] = V[n]
      <4>1. n \in 1..Len(U)
        BY <1>20
      <4>. QED  BY <1>10, <4>1
    <3>. QED  BY <3>1, <3>3, <3>4
  <2>. QED  BY <2>1, <2>2
<1>15. /\ W \in Seq(0..MaxLines) /\ Len(W) \in Nat /\ DOMAIN W = 1..Len(W)
       /\ \A n \in 1..Len(W) : W[n] \in 0..MaxLines /\ W[n] \in Nat
       /\ \A n \in 1..Len(W) : \E k \in 1..Len(h) : W[n] = h[k].index /\ Passes(q, f, h[k].index)
       /\ \A k \in 1..Len(h) : Passes(q, f, h[k].index) => \E n \in 1..Len(W) : W[n] = h[k].index
  <2>1. /\ W \in Seq(0..MaxLines)
        /\ \A n \in DOMAIN W : W[n] \in Numbers(h, q, f)
        /\ \A y \in Numbers(h, q, f) : \E n \in DOMAIN W : W[n] = y
    BY <1>1, VisibleNumbers
  <2> HIDE DEF W
  <2>2. Len(W) \in Nat /\ DOMAIN W = 1..Len(W) /\ \A n \in 1..Len(W) : W[n] \in 0..MaxLines /\ W[n] \in Nat
    BY <2>1, NumberSeq
  <2>3. \A n \in 1..Len(W) : \E k \in 1..Len(h) : W[n] = h[k].index /\ Passes(q, f, h[k].index)
    BY <1>3, <2>1, <2>2 DEF Numbers
  <2>4. \A k \in 1..Len(h) : Passes(q, f, h[k].index) => \E n \in 1..Len(W) : W[n] = h[k].index
    BY <1>3, <2>1, <2>2 DEF Numbers
  <2>. QED  BY <2>1, <2>2, <2>3, <2>4
<1>16. Increasing(W)
  <2>1. InOrder(h)
    <3>1. \A k, n \in 1..Len(h) : k < n => h[k].index < h[n].index
      <4>1. CASE h = a
        BY <1>4, <4>1
      <4>2. CASE /\ Len(h) = Len(ls)
                 /\ \A k \in 1..Len(h) : h[k] = a[k+1]
        <5> SUFFICES ASSUME NEW k \in 1..Len(h), NEW n \in 1..Len(h), k < n PROVE h[k].index < h[n].index
          OBVIOUS
        <5>1. k + 1 \in 1..Len(a) /\ n + 1 \in 1..Len(a) /\ k + 1 < n + 1
          BY <1>1, <1>3, <4>2
        <5>2. a[k+1].index < a[n+1].index
          BY <1>4, <5>1
        <5>. QED  BY <4>2, <5>2
      <4>. QED  BY <1>1, <4>1, <4>2
    <3>. QED  BY <1>3, <3>1 DEF InOrder
  <2>. QED  BY <1>1, <2>1, VisibleNumbers
<1> HIDE DEF W
<1>17. CASE h = a
  <2>1. \A n \in 1..Len(W) : \E k \in 1..Len(U) : U[k] = W[n]
    <3> TAKE n \in 1..Len(W)
    <3>1. PICK k \in 1..Len(a) : W[n] = a[k].index /\ Passes(q, f, a[k].index)
      BY <1>15, <1>17
    <3>2. PICK m \in 1..Len(U) : U[m] = a[k].index
      BY <1>14, <3>1
    <3>. QED  BY <3>1, <3>2
  <2>2. \A k \in 1..Len(U) : \E n \in 1..Len(W) : W[n] = U[k]
    <3> TAKE m \in 1..Len(U)
    <3>1. PICK k \in 1..Len(a) : U[m] = a[k].index /\ Passes(q, f, U[m])
      BY <1>13
    <3>2. PICK n \in 1..Len(W) : W[n] = a[k].index
      BY <1>15, <1>17, <3>1
    <3>. QED  BY <3>1, <3>2
  <2>3. W = U
    BY <1>10, <1>15, <1>16, <2>1, <2>2, SameRows
  <2>. QED  BY <1>10, <1>12, <2>3 DEF W
<1>18. CASE /\ Len(h) = Len(ls) /\ Len(ls) = MaxScrollback
            /\ \A k \in 1..Len(h) : h[k] = a[k+1]
  <2> DEFINE o == a[1].index
  <2>1. Len(a) >= 2 /\ Len(h) = Len(a) - 1 /\ 1 \in 1..Len(a) /\ o \in Nat
    BY <1>1, <1>3, <1>4, <1>18, PaneAssumption
  <2>2. \A k \in 1..Len(h) : k + 1 \in 1..Len(a) /\ h[k].index = a[k+1].index /\ h[k].index > o
    <3> TAKE k \in 1..Len(h)
    <3>1. k + 1 \in 1..Len(a) /\ 1 < k + 1
      BY <1>1, <1>3, <1>18
    <3>2. a[1].index < a[k+1].index
      BY <1>4, <2>1, <3>1
    <3>3. h[k].index = a[k+1].index /\ a[k+1].index \in Nat
      BY <1>4, <1>18, <3>1
    <3>. QED  BY <2>1, <3>1, <3>2, <3>3
  <2>3. \A k \in 1..Len(a) : k = 1 \/ (k - 1 \in 1..Len(h) /\ h[k-1].index = a[k].index)
    <3> TAKE k \in 1..Len(a)
    <3> SUFFICES ASSUME k # 1 PROVE k - 1 \in 1..Len(h) /\ h[k-1].index = a[k].index
      OBVIOUS
    <3>1. k - 1 \in 1..Len(h) /\ (k - 1) + 1 = k
      BY <1>3, <2>1
    <3>2. h[k-1] = a[(k-1)+1]
      BY <1>18, <3>1
    <3>. QED  BY <3>1, <3>2
  <2> HIDE DEF o
  <2>4. \A n \in 1..Len(W) : W[n] > o /\ \E m \in 1..Len(U) : U[m] = W[n]
    <3> TAKE n \in 1..Len(W)
    <3>1. PICK k \in 1..Len(h) : W[n] = h[k].index /\ Passes(q, f, h[k].index)
      BY <1>15
    <3>2. k + 1 \in 1..Len(a) /\ Passes(q, f, a[k+1].index) /\ a[k+1].index = W[n] /\ W[n] > o
      BY <2>2, <3>1
    <3>3. PICK m \in 1..Len(U) : U[m] = a[k+1].index
      BY <1>14, <3>2
    <3>. QED  BY <3>2, <3>3
  <2>5. \A m \in 1..Len(U) : U[m] = o \/ \E n \in 1..Len(W) : W[n] = U[m]
    <3> TAKE m \in 1..Len(U)
    <3>1. PICK k \in 1..Len(a) : U[m] = a[k].index /\ Passes(q, f, U[m])
      BY <1>13
    <3>2. CASE k = 1
      BY <3>1, <3>2 DEF o
    <3>3. CASE k # 1
      <4>1. k - 1 \in 1..Len(h) /\ h[k-1].index = U[m]
        BY <2>3, <3>1, <3>3
      <4>. QED  BY <1>15, <3>1, <4>1
    <3>. QED  BY <3>2, <3>3
  <2>6. CASE ~Passes(q, f, o)
    <3>1. \A m \in 1..Len(U) : \E n \in 1..Len(W) : W[n] = U[m]
      <4> TAKE m \in 1..Len(U)
      <4>1. U[m] # o
        BY <1>13, <2>6
      <4>. QED  BY <2>5, <4>1
    <3>2. W = U
      BY <1>10, <1>15, <1>16, <2>4, <3>1, SameRows
    <3>. QED  BY <1>10, <1>12, <3>2 DEF W
  <2>7. CASE Passes(q, f, o)
    <3>1. PICK m \in 1..Len(U) : U[m] = o
      BY <1>14, <2>1, <2>7 DEF o
    <3>2. \A n \in 1..Len(U) : U[n] >= o
      <4> TAKE n \in 1..Len(U)
      <4>1. CASE U[n] = o
        BY <2>1, <4>1
      <4>2. CASE \E i \in 1..Len(W) : W[i] = U[n]
        BY <1>11, <1>15, <2>1, <2>4, <4>2
      <4>. QED  BY <2>5, <4>1, <4>2
    <3>3. \A i, j \in 1..Len(U) : i < j => U[i] < U[j]
      BY <1>10, <1>11 DEF Increasing
    <3>4. U[1] = o /\ 1 \in 1..Len(U) /\ U # <<>>
      <4>1. 1 \in 1..Len(U)
        BY <1>11, <3>1
      <4>2. m = 1 \/ 1 < m
        BY <3>1
      <4>3. 1 < m => U[1] < U[m]
        BY <3>3, <4>1
      <4>4. ~(1 < m)
        BY <1>11, <2>1, <3>1, <3>2, <4>1, <4>3
      <4>5. U # <<>>
        BY <4>1
      <4>. QED  BY <3>1, <4>1, <4>2, <4>4, <4>5
    <3> DEFINE T == Tail(U)
    <3>5. T \in Seq(0..MaxLines) /\ Len(T) = Len(U) - 1 /\ \A i \in 1..Len(T) : T[i] = U[i+1]
      BY <1>10, <3>4, HeadTailProperties
    <3> HIDE DEF T
    <3>6. Len(T) \in Nat /\ DOMAIN T = 1..Len(T)
      BY <3>5, NumberSeq
    <3>7. Increasing(T)
      <4> SUFFICES ASSUME NEW i \in 1..Len(T), NEW j \in 1..Len(T), i < j PROVE T[i] < T[j]
        BY <3>6 DEF Increasing
      <4>1. i + 1 \in 1..Len(U) /\ j + 1 \in 1..Len(U) /\ i + 1 < j + 1
        BY <1>11, <3>5, <3>6
      <4>2. U[i+1] < U[j+1]
        BY <3>3, <4>1
      <4>. QED  BY <3>5, <4>2
    <3>8. \A i \in 1..Len(T) : \E n \in 1..Len(W) : W[n] = T[i]
      <4> TAKE i \in 1..Len(T)
      <4>1. i + 1 \in 1..Len(U) /\ 1 < i + 1
        BY <1>11, <3>5, <3>6
      <4>2. U[1] < U[i+1]
        BY <3>3, <3>4, <4>1
      <4>3. U[i+1] # o
        BY <1>11, <2>1, <3>4, <4>1, <4>2
      <4>4. PICK n \in 1..Len(W) : W[n] = U[i+1]
        BY <2>5, <4>1, <4>3
      <4>. QED  BY <3>5, <4>4
    <3>9. \A n \in 1..Len(W) : \E i \in 1..Len(T) : T[i] = W[n]
      <4> TAKE n \in 1..Len(W)
      <4>1. PICK k \in 1..Len(U) : U[k] = W[n] /\ W[n] > o
        BY <2>4
      <4>2. k # 1
        BY <2>1, <3>4, <4>1
      <4>3. k - 1 \in 1..Len(T) /\ (k - 1) + 1 = k
        BY <1>11, <3>5, <3>6, <4>2
      <4>4. T[k-1] = U[(k-1)+1]
        BY <3>5, <4>3
      <4>. QED  BY <4>1, <4>3, <4>4
    <3>10. W = T
      BY <1>15, <1>16, <3>5, <3>7, <3>8, <3>9, SameRows
    <3>11. \A k \in DOMAIN h : h[k].index # U[1]
      BY <1>3, <2>1, <2>2, <3>4
    <3>. QED  BY <1>10, <1>12, <3>4, <3>10, <3>11 DEF W, T
  <2>. QED  BY <2>6, <2>7
<1>. QED  BY <1>1, <1>17, <1>18

(* A new line moves a full and paused pane only when the pane's first line is dropped. *)
LEMMA PausedPaneHolds ==
  ASSUME NEW ls \in Seq(LineSet), Len(ls) <= MaxScrollback, NEW line \in LineSet,
         NEW q, NEW f \in BOOLEAN, InOrder(ls), InOrder(Append(ls, line)),
         NEW V, V = Visible(ls, q, f), NEW h, h = Held(Append(ls, line)),
         NEW p \in 0..MaxLines, Len(Window(V, p)) = LogRows, p <= Last(V),
         NEW W, W = Visible(h, q, f)
  PROVE  \/ Window(W, Clamped(W, p)) = Window(V, p)
         \/ ~Contains(Indices(h), Head(Window(V, p)))
<1> DEFINE e == RowOf(V, p)
<1>1. V \in Seq(0..MaxLines) /\ Increasing(V)
  BY VisibleNumbers
<1>2. /\ Len(V) \in Nat /\ DOMAIN V = 1..Len(V) /\ \A n \in 1..Len(V) : V[n] \in 0..MaxLines /\ V[n] \in Nat
      /\ \A i, j \in 1..Len(V) : i < j => V[i] < V[j]
  BY <1>1, NumberSeq DEF Increasing
<1>3. LogRows \in Nat \ {0} /\ p \in Nat /\ p # Nowhere
  BY PaneAssumption DEF Nowhere
<1>4. /\ e \in 1..Len(V) + 1
      /\ \A k \in 1..Len(V) : k < e => V[k] < p
      /\ e <= Len(V) => V[e] >= p
  <2>1. p \in Int
    BY <1>3
  <2>2. V \in Seq(0..MaxLines)
    BY <1>1
  <2>. QED  BY <2>1, <2>2, RowFacts
<1>5. WindowEnd(V, p) = Least(e, Len(V))
  BY <1>3 DEF WindowEnd
<1> HIDE DEF e
<1>6. /\ Window(V, p) = SubSeq(V, Greatest(Least(e, Len(V)) - LogRows, 0) + 1, Least(e, Len(V)))
      /\ Least(e, Len(V)) \in 0..Len(V)
  BY <1>2, <1>4, <1>5 DEF Window, Least
<1>7. Least(e, Len(V)) >= LogRows
  <2> DEFINE end == Least(e, Len(V))
             start == Greatest(end - LogRows, 0) + 1
  <2>1. end \in 0..Len(V) /\ start \in Int /\ end \in Int /\ start >= 1
    BY <1>2, <1>3, <1>6 DEF Greatest
  <2>2. start = 1 \/ start = end - LogRows + 1
    BY <1>3, <2>1 DEF Greatest
  <2>5. Window(V, p) = SubSeq(V, start, end)
    BY <1>6
  <2> HIDE DEF end, start
  <2>3. \A i \in start..end : V[i] \in 0..MaxLines
    BY <1>2, <2>1
  <2>4. Len(SubSeq(V, start, end)) = IF start <= end THEN end - start + 1 ELSE 0
    BY <2>1, <2>3, SubSeqProperties
  <2>6. LogRows = IF start <= end THEN end - start + 1 ELSE 0
    BY <2>4, <2>5
  <2>7. end >= LogRows
    BY <1>3, <2>1, <2>2, <2>6
  <2>. QED  BY <2>7 DEF end
<1>8. V # <<>> /\ Len(V) \in 1..Len(V) /\ Last(V) = V[Len(V)]
  <2>1. V # <<>>
    BY <1>2, <1>3, <1>6, <1>7
  <2>. QED  BY <1>1, <2>1, LastFacts
<1>9. e \in LogRows..Len(V) /\ e \in 1..Len(V) /\ V[e] >= p
  <2>1. ~(Len(V) < e)
    <3>1. SUFFICES ASSUME Len(V) < e PROVE FALSE
      OBVIOUS
    <3>2. V[Len(V)] < p
      BY <1>4, <1>8, <3>1
    <3>. QED  BY <1>2, <1>3, <1>8, <3>2
  <2>2. e <= Len(V)
    BY <1>2, <1>4, <2>1
  <2>3. e >= LogRows
    BY <1>2, <1>4, <1>7, <2>2 DEF Least
  <2>. QED  BY <1>2, <1>3, <1>4, <2>2, <2>3
<1>10. Window(V, p) = SubSeq(V, e - LogRows + 1, e)
  <2>1. Least(e, Len(V)) = e
    BY <1>9 DEF Least
  <2>2. Greatest(e - LogRows, 0) = e - LogRows
    BY <1>3, <1>9 DEF Greatest
  <2>. QED  BY <1>6, <2>1, <2>2
<1>11. PICK U \in Seq(0..MaxLines) :
         /\ Increasing(U) /\ Len(V) <= Len(U) /\ Len(U) <= Len(V) + 1
         /\ \A n \in 1..Len(V) : U[n] = V[n]
         /\ Len(U) > Len(V) /\ V # <<>> => U[Len(U)] > Last(V)
         /\ \/ Visible(h, q, f) = U
            \/ /\ U # <<>> /\ Visible(h, q, f) = Tail(U)
               /\ \A k \in DOMAIN h : h[k].index # U[1]
  BY NewRows
<1>12. /\ Len(U) \in Nat /\ DOMAIN U = 1..Len(U) /\ \A n \in 1..Len(U) : U[n] \in 0..MaxLines /\ U[n] \in Nat
       /\ \A i, j \in 1..Len(U) : i < j => U[i] < U[j]
  BY <1>11, NumberSeq DEF Increasing
<1>13. \A k \in 1..e : k \in 1..Len(V) /\ k \in 1..Len(U) /\ U[k] = V[k]
  <2> TAKE k \in 1..e
  <2>1. k \in 1..Len(V)
    BY <1>2, <1>9
  <2>2. k \in 1..Len(U)
    BY <1>2, <1>11, <1>12, <2>1
  <2>. QED  BY <1>11, <2>1, <2>2
<1>14. CASE W = U
  <2>1. e \in LogRows..Len(U)
    BY <1>2, <1>9, <1>11, <1>12
  <2>2. U[e] >= p /\ \A k \in 1..Len(U) : k < e => U[k] < p
    <3>1. \A k \in 1..Len(U) : k < e => k \in 1..e /\ k \in 1..Len(V)
      BY <1>2, <1>9, <1>12
    <3>2. e \in 1..e
      BY <1>9
    <3>. QED  BY <1>4, <1>9, <1>13, <3>1, <3>2
  <2>3. Window(W, Clamped(W, p)) = SubSeq(U, e - LogRows + 1, e)
    BY <1>11, <1>14, <2>1, <2>2, WindowAtPin
  <2>4. SubSeq(U, e - LogRows + 1, e) = SubSeq(V, e - LogRows + 1, e)
    <3> DEFINE s == e - LogRows + 1
    <3>1. s \in 1..e /\ s \in Int /\ e \in Int
      BY <1>3, <1>9
    <3> HIDE DEF s
    <3>2. \A i \in s..e : U[i] = V[i] /\ U[i] \in 0..MaxLines
      <4> TAKE i \in s..e
      <4>1. i \in 1..e
        BY <3>1
      <4>. QED  BY <1>12, <1>13, <4>1
    <3>3. SubSeq(U, s, e) = SubSeq(V, s, e)
      BY <3>1, <3>2, SubSeqProperties
    <3>. QED  BY <3>3 DEF s
  <2>. QED  BY <1>10, <2>3, <2>4
<1>15. CASE U # <<>> /\ W = Tail(U) /\ \A k \in DOMAIN h : h[k].index # U[1]
  <2>1. /\ W \in Seq(0..MaxLines) /\ Len(W) = Len(U) - 1
        /\ \A i \in 1..Len(W) : W[i] = U[i+1]
    BY <1>11, <1>15, HeadTailProperties
  <2>2. Len(W) \in Nat /\ DOMAIN W = 1..Len(W)
    BY <2>1, NumberSeq
  <2>3. CASE e = LogRows
    <3>1. Head(Window(V, p)) = V[1]
      <4>1. Window(V, p) = SubSeq(V, 1, e)
        BY <1>3, <1>10, <2>3
      <4>2. 1 \in 1..Len(V) /\ e \in 1..Len(V)
        BY <1>8, <1>9
      <4>. QED  BY <1>1, <4>1, <4>2, HeadTailOfSubSeq
    <3>2. V[1] = U[1]
      BY <1>3, <1>9, <1>13
    <3>3. \A k \in DOMAIN Indices(h) : Indices(h)[k] # U[1]
      BY <1>15 DEF Indices
    <3>. QED  BY <3>1, <3>2, <3>3 DEF Contains
  <2>4. CASE e # LogRows
    <3> DEFINE d == e - 1
    <3>1. d \in LogRows..Len(W) /\ d \in 1..Len(W) /\ d + 1 = e /\ d \in Nat
      BY <1>2, <1>3, <1>9, <1>11, <1>12, <2>1, <2>2, <2>4
    <3> HIDE DEF d
    <3>2. Increasing(W)
      <4> SUFFICES ASSUME NEW i \in 1..Len(W), NEW j \in 1..Len(W), i < j PROVE W[i] < W[j]
        BY <2>2 DEF Increasing
      <4>1. i + 1 \in 1..Len(U) /\ j + 1 \in 1..Len(U) /\ i + 1 < j + 1
        BY <1>12, <2>1, <2>2
      <4>2. U[i+1] < U[j+1]
        BY <1>12, <4>1
      <4>. QED  BY <2>1, <4>2
    <3>3. W[d] >= p /\ \A k \in 1..Len(W) : k < d => W[k] < p
      <4>1. W[d] = V[e]
        <5>1. W[d] = U[d+1] /\ e \in 1..e
          BY <1>9, <2>1, <3>1
        <5>. QED  BY <1>13, <3>1, <5>1
      <4>2. ASSUME NEW k \in 1..Len(W), k < d PROVE W[k] < p
        <5>1. k + 1 \in 1..e /\ k + 1 < e
          BY <3>1, <4>2
        <5>2. W[k] = V[k+1] /\ k + 1 \in 1..Len(V)
          BY <1>13, <2>1, <5>1
        <5>. QED  BY <1>4, <5>1, <5>2
      <4>. QED  BY <1>9, <4>1, <4>2
    <3>4. Window(W, Clamped(W, p)) = SubSeq(W, d - LogRows + 1, d)
      BY <2>1, <3>1, <3>2, <3>3, WindowAtPin
    <3> DEFINE s == d - LogRows + 1
               t == e - LogRows + 1
    <3>5. s \in 1..d /\ s \in Int /\ d \in Int /\ t \in 1..e /\ t \in Int /\ e \in Int
          /\ t = s + 1 /\ d - s = e - t /\ s <= d /\ t <= e
      BY <1>3, <1>9, <3>1
    <3>6. Window(W, Clamped(W, p)) = SubSeq(W, s, d) /\ Window(V, p) = SubSeq(V, t, e)
      BY <1>10, <3>4
    <3> HIDE DEF s, t
    <3>7. \A i \in s..d : W[i] = V[i+1] /\ W[i] \in 0..MaxLines
      <4> TAKE i \in s..d
      <4>1. i \in 1..Len(W) /\ i + 1 \in 1..e
        BY <2>2, <3>1, <3>5
      <4>. QED  BY <1>12, <1>13, <2>1, <4>1
    <3>8. \A i \in t..e : V[i] \in 0..MaxLines
      <4> TAKE i \in t..e
      <4>1. i \in 1..Len(V)
        BY <1>2, <1>9, <3>5
      <4>. QED  BY <1>2, <4>1
    <3>9. /\ SubSeq(W, s, d) \in Seq(0..MaxLines) /\ Len(SubSeq(W, s, d)) = d - s + 1
          /\ \A i \in 1..d - s + 1 : SubSeq(W, s, d)[i] = W[s + i - 1]
      BY <3>5, <3>7, SubSeqProperties
    <3>10. /\ SubSeq(V, t, e) \in Seq(0..MaxLines) /\ Len(SubSeq(V, t, e)) = e - t + 1
           /\ \A i \in 1..e - t + 1 : SubSeq(V, t, e)[i] = V[t + i - 1]
      BY <3>5, <3>8, SubSeqProperties
    <3>11. Len(SubSeq(W, s, d)) = Len(SubSeq(V, t, e))
      BY <3>5, <3>9, <3>10
    <3>12. \A i \in 1..Len(SubSeq(W, s, d)) : SubSeq(W, s, d)[i] = SubSeq(V, t, e)[i]
      <4> TAKE i \in 1..Len(SubSeq(W, s, d))
      <4>1. i \in 1..d - s + 1 /\ i \in 1..e - t + 1
        BY <3>5, <3>9
      <4>2. s + i - 1 \in s..d /\ (s + i - 1) + 1 = t + i - 1
        BY <3>5, <4>1
      <4>3. SubSeq(W, s, d)[i] = W[s + i - 1] /\ SubSeq(V, t, e)[i] = V[t + i - 1]
        BY <3>9, <3>10, <4>1
      <4>4. W[s + i - 1] = V[(s + i - 1) + 1]
        BY <3>7, <4>2
      <4>. QED  BY <4>2, <4>3, <4>4
    <3>13. SubSeq(W, s, d) = SubSeq(V, t, e)
      BY <3>9, <3>10, <3>11, <3>12, SameSeq
    <3>. QED  BY <3>6, <3>13
  <2>. QED  BY <2>3, <2>4
<1>. QED  BY <1>11, <1>14, <1>15

----------------------------------------------------------------------------
(* The rows of the list. *)

LEMMA JobFacts ==
  ASSUME NEW js \in Seq(JobSet)
  PROVE  /\ Len(js) \in Nat /\ DOMAIN js = 1..Len(js)
         /\ \A i \in DOMAIN js : /\ js[i] \in JobSet /\ js[i].id \in Jobs
                                 /\ js[i].running \in BOOLEAN /\ js[i].elapsed \in Int
<1>1. \A job \in JobSet : job.id \in Jobs /\ job.running \in BOOLEAN /\ job.elapsed \in Int
  BY DEF JobSet
<1>. QED  BY <1>1, SeqIsFunction

(* The jobs are ordered by what sort_by_key looks at, then by their positions. *)
LEMMA ComesFacts ==
  ASSUME NEW js \in Seq(JobSet)
  PROVE  /\ \A i \in DOMAIN js : Comes(js, i, i)
         /\ \A i, k, n \in DOMAIN js : Comes(js, i, k) /\ Comes(js, k, n) => Comes(js, i, n)
         /\ \A i, k \in DOMAIN js : i # k => (Comes(js, i, k) <=> ~Comes(js, k, i))
<1>1. \A i \in DOMAIN js : js[i].running \in BOOLEAN /\ js[i].elapsed \in Int /\ i \in Int
  BY JobFacts
<1>2. \A i \in DOMAIN js : Comes(js, i, i)
  BY <1>1 DEF Comes, Before
<1>3. ASSUME NEW i \in DOMAIN js, NEW k \in DOMAIN js, NEW n \in DOMAIN js,
             Comes(js, i, k), Comes(js, k, n)
      PROVE  Comes(js, i, n)
  BY <1>1, <1>3 DEF Comes, Before
<1>4. ASSUME NEW i \in DOMAIN js, NEW k \in DOMAIN js, i # k
      PROVE  Comes(js, i, k) <=> ~Comes(js, k, i)
  BY <1>1, <1>4 DEF Comes, Before
<1>. QED  BY <1>2, <1>3, <1>4

LEMMA ViewOrder ==
  ASSUME NEW js \in Seq(JobSet), NEW view \in SUBSET DOMAIN js
  PROVE  IsOrder(view, [k \in view |-> {i \in view : Comes(js, i, k)}])
<1> DEFINE B == [k \in view |-> {i \in view : Comes(js, i, k)}]
<1>1. IsFiniteSet(view)
  BY JobFacts, FS_Interval, FS_Subset
<1>2. B \in [view -> SUBSET view] /\ \A i, k \in view : i \in B[k] <=> Comes(js, i, k)
  OBVIOUS
<1> HIDE DEF B
<1>3. \A i \in view : i \in B[i]
  BY <1>2, ComesFacts
<1>4. \A i, k \in view : i \in B[k] => B[i] \subseteq B[k]
  <2> SUFFICES ASSUME NEW i \in view, NEW k \in view, i \in B[k], NEW n \in B[i] PROVE n \in B[k]
    OBVIOUS
  <2>1. n \in view /\ Comes(js, n, i) /\ Comes(js, i, k)
    BY <1>2
  <2>2. Comes(js, n, k)
    BY <2>1, ComesFacts
  <2>. QED  BY <1>2, <2>1, <2>2
<1>5. \A i, k \in view : i # k => (i \in B[k] <=> k \notin B[i])
  BY <1>2, ComesFacts
<1>6. IsOrder(view, B)
  BY <1>1, <1>2, <1>3, <1>4, <1>5 DEF IsOrder
<1>. QED  BY <1>6 DEF B

(* The sessions of the jobs in view are ordered: by the first job of each. *)
LEMMA GroupFacts ==
  ASSUME NEW js \in Seq(JobSet), NEW view \in SUBSET DOMAIN js,
         NEW sessions, sessions = {SessionOf[js[i].id] : i \in view}
  PROVE  /\ \A s, t \in sessions : s # t =>
              (GroupComes(js, view, s, t) <=> ~GroupComes(js, view, t, s))
         /\ \A s, t, u \in sessions :
              GroupComes(js, view, s, t) /\ GroupComes(js, view, t, u) => GroupComes(js, view, s, u)
<1> DEFINE Of(s) == {i \in view : SessionOf[js[i].id] = s}
           Lead(s, i) == i \in Of(s) /\ \A k \in Of(s) : Comes(js, i, k)
<1>1. \A s \in sessions : \E i \in view : Lead(s, i)
  <2> TAKE s \in sessions
  <2> DEFINE S == Of(s)
             B == [k \in S |-> {i \in S : Comes(js, i, k)}]
  <2>1. S \in SUBSET DOMAIN js /\ S # {} /\ S \in SUBSET view
    OBVIOUS
  <2>2. \A i, k \in S : i \in B[k] => Comes(js, i, k)
    OBVIOUS
  <2> HIDE DEF S
  <2>3. IsOrder(S, B)
    BY <2>1, ViewOrder
  <2> HIDE DEF B
  <2>4. PICK i \in S : \A k \in S : i \in B[k]
    BY <2>1, <2>3, FirstOfOrder
  <2>5. \A k \in S : Comes(js, i, k)
    BY <2>2, <2>4
  <2>. QED  BY <2>1, <2>4, <2>5 DEF S
<1>2. /\ \A i \in view : Comes(js, i, i)
      /\ \A i, k, n \in view : Comes(js, i, k) /\ Comes(js, k, n) => Comes(js, i, n)
      /\ \A i, k \in view : i # k => (Comes(js, i, k) <=> ~Comes(js, k, i))
  BY ComesFacts
<1>3. \A s, t : GroupComes(js, view, s, t) <=>
        (t = NoSession \/ (s # NoSession /\ \E i \in Of(s) : \A k \in Of(t) : Comes(js, i, k)))
  BY DEF GroupComes
<1>4. \A s : \A i \in Of(s) : i \in view /\ SessionOf[js[i].id] = s
  OBVIOUS
<1> HIDE DEF Of
<1>5. ASSUME NEW s \in sessions, NEW t \in sessions, s # t
      PROVE  GroupComes(js, view, s, t) <=> ~GroupComes(js, view, t, s)
  <2>1. CASE s = NoSession \/ t = NoSession
    BY <1>3, <1>5, <2>1
  <2>2. CASE s # NoSession /\ t # NoSession
    <3>1. PICK i \in view : Lead(s, i)
      BY <1>1
    <3>2. PICK k \in view : Lead(t, k)
      BY <1>1
    <3>3. i # k
      BY <1>4, <1>5, <3>1, <3>2
    <3>4. Comes(js, i, k) => GroupComes(js, view, s, t)
      BY <1>2, <1>3, <1>4, <2>2, <3>1, <3>2
    <3>5. Comes(js, k, i) => GroupComes(js, view, t, s)
      BY <1>2, <1>3, <1>4, <2>2, <3>1, <3>2
    <3>6. GroupComes(js, view, s, t) => Comes(js, i, k)
      BY <1>2, <1>3, <1>4, <2>2, <3>1, <3>2
    <3>7. GroupComes(js, view, t, s) => Comes(js, k, i)
      BY <1>2, <1>3, <1>4, <2>2, <3>1, <3>2
    <3>8. Comes(js, i, k) <=> ~Comes(js, k, i)
      BY <1>2, <3>3
    <3>. QED  BY <3>4, <3>5, <3>6, <3>7, <3>8
  <2>. QED  BY <2>1, <2>2
<1>6. ASSUME NEW s \in sessions, NEW t \in sessions, NEW u \in sessions,
             GroupComes(js, view, s, t), GroupComes(js, view, t, u), u # NoSession
      PROVE  GroupComes(js, view, s, u)
  <2>1. t # NoSession /\ s # NoSession
    BY <1>3, <1>6
  <2>2. PICK i \in Of(s) : \A k \in Of(t) : Comes(js, i, k)
    BY <1>3, <1>6, <2>1
  <2>3. PICK k \in Of(t) : \A n \in Of(u) : Comes(js, k, n)
    BY <1>3, <1>6
  <2>4. \A n \in Of(u) : Comes(js, i, n)
    BY <1>2, <1>4, <2>2, <2>3
  <2>. QED  BY <1>3, <2>1, <2>4
<1>7. \A s : GroupComes(js, view, s, NoSession)
  BY <1>3
<1>. QED  BY <1>5, <1>6, <1>7

LEMMA ImageIsFinite ==
  ASSUME NEW S, IsFiniteSet(S), NEW f, DOMAIN f = S
  PROVE  IsFiniteSet({f[x] : x \in S})
<1> DEFINE T == {f[x] : x \in S}
           g == [x \in S |-> f[x]]
<1>1. g \in Surjection(S, T)
  BY DEF Surjection
<1>. QED  BY <1>1, FS_Surjection

(* The rows of a grouped list are ordered, and each is a job in view or a header. *)
LEMMA RowOrder ==
  ASSUME NEW js \in Seq(JobSet), NEW view \in SUBSET DOMAIN js,
         NEW all, all = RowSet(js, view),
         NEW upTo, upTo = [q \in all |-> {r \in all : RowComes(js, view, r, q)}]
  PROVE  /\ IsOrder(all, upTo)
         /\ \A r \in all : r.job = 0 \/ r.job \in view
<1> USE DEF RowSet
<1> DEFINE B == [q \in all |-> {r \in all : RowComes(js, view, r, q)}]
           sessions == {SessionOf[js[i].id] : i \in view}
<1>1. \A i \in view : i # 0
  BY JobFacts
<1>2. \A r \in all : /\ r.session \in sessions
                     /\ r.job # 0 => r.job \in view /\ r.session = SessionOf[js[r.job].id]
                     /\ r = [session |-> r.session, job |-> r.job]
  <2>1. \A i \in view : /\ JobRow(js, i).session = SessionOf[js[i].id] /\ JobRow(js, i).job = i
                        /\ JobRow(js, i) = [session |-> SessionOf[js[i].id], job |-> i]
    BY DEF JobRow
  <2>2. \A s : Header(s).session = s /\ Header(s).job = 0 /\ Header(s) = [session |-> s, job |-> 0]
    BY DEF Header
  <2>. QED  BY <2>1, <2>2
<1>3. IsFiniteSet(all)
  <2> DEFINE f == [i \in view |-> JobRow(js, i)]
             g == [i \in view |-> Header(SessionOf[js[i].id])]
  <2>1. IsFiniteSet(view)
    BY ViewOrder DEF IsOrder
  <2>2. IsFiniteSet({f[i] : i \in view})
    <3>1. DOMAIN f = view
      OBVIOUS
    <3> HIDE DEF f
    <3>. QED  BY <2>1, <3>1, ImageIsFinite
  <2>3. IsFiniteSet({g[i] : i \in view})
    <3>1. DOMAIN g = view
      OBVIOUS
    <3> HIDE DEF g
    <3>. QED  BY <2>1, <3>1, ImageIsFinite
  <2> DEFINE F == {f[i] : i \in view}
             G == {g[i] : i \in view}
  <2>4. all = F \cup G
    OBVIOUS
  <2>5. IsFiniteSet(F) /\ IsFiniteSet(G)
    BY <2>2, <2>3
  <2> HIDE DEF F, G
  <2>. QED  BY <2>4, <2>5, FS_Union
<1>4. B \in [all -> SUBSET all] /\ \A r, q \in all : r \in B[q] <=> RowComes(js, view, r, q)
  OBVIOUS
<1>5. /\ \A i \in view : Comes(js, i, i)
      /\ \A i, k, n \in view : Comes(js, i, k) /\ Comes(js, k, n) => Comes(js, i, n)
      /\ \A i, k \in view : i # k => (Comes(js, i, k) <=> ~Comes(js, k, i))
  BY ComesFacts
<1>6. /\ \A s, t \in sessions : s # t =>
           (GroupComes(js, view, s, t) <=> ~GroupComes(js, view, t, s))
      /\ \A s, t, u \in sessions :
           GroupComes(js, view, s, t) /\ GroupComes(js, view, t, u) => GroupComes(js, view, s, u)
  BY GroupFacts
<1>7. \A r, q : RowComes(js, view, r, q) <=>
        \/ r.session # q.session /\ GroupComes(js, view, r.session, q.session)
        \/ r.session = q.session /\ (r.job = 0 \/ (q.job # 0 /\ Comes(js, r.job, q.job)))
  BY DEF RowComes
<1> HIDE DEF sessions
<1>8. \A r \in all : r \in B[r]
  BY <1>2, <1>4, <1>5, <1>7
<1>9. \A r, q \in all : r \in B[q] => B[r] \subseteq B[q]
  <2> SUFFICES ASSUME NEW r \in all, NEW q \in all, r \in B[q], NEW p \in B[r] PROVE p \in B[q]
    OBVIOUS
  <2>1. p \in all /\ RowComes(js, view, p, r) /\ RowComes(js, view, r, q)
    BY <1>4
  <2>2. RowComes(js, view, p, q)
    <3>1. CASE p.session = r.session /\ r.session = q.session
      BY <1>2, <1>5, <1>7, <2>1, <3>1
    <3>2. CASE p.session = r.session /\ r.session # q.session
      BY <1>7, <2>1, <3>2
    <3>3. CASE p.session # r.session /\ r.session = q.session
      BY <1>7, <2>1, <3>3
    <3>4. CASE p.session # r.session /\ r.session # q.session
      <4>1. p.session \in sessions /\ r.session \in sessions /\ q.session \in sessions
        BY <1>2, <2>1
      <4>2. GroupComes(js, view, p.session, r.session) /\ GroupComes(js, view, r.session, q.session)
        BY <1>7, <2>1, <3>4
      <4>3. p.session # q.session
        BY <1>6, <3>4, <4>1, <4>2
      <4>. QED  BY <1>6, <1>7, <4>1, <4>2, <4>3
    <3>. QED  BY <3>1, <3>2, <3>3, <3>4
  <2>. QED  BY <1>4, <2>1, <2>2
<1>10. \A r, q \in all : r # q => (r \in B[q] <=> q \notin B[r])
  <2> SUFFICES ASSUME NEW r \in all, NEW q \in all, r # q
               PROVE  RowComes(js, view, r, q) <=> ~RowComes(js, view, q, r)
    BY <1>4
  <2>1. CASE r.session # q.session
    BY <1>2, <1>6, <1>7, <2>1
  <2>2. CASE r.session = q.session
    <3>1. r.job # q.job
      BY <1>2, <2>2
    <3>. QED  BY <1>2, <1>5, <1>7, <2>2, <3>1
  <2>. QED  BY <2>1, <2>2
<1> HIDE DEF B
<1>11. IsOrder(all, B)
  BY <1>3, <1>4, <1>8, <1>9, <1>10 DEF IsOrder
<1>. QED  BY <1>2, <1>11 DEF B

(* The rows name jobs by their positions. *)
LEMMA RowsFacts ==
  ASSUME NEW js \in Seq(JobSet), NEW g \in BOOLEAN, NEW only \in BOOLEAN,
         NEW rs, rs = RowsOf(js, g, only)
  PROVE  /\ Len(rs) \in Nat /\ DOMAIN rs = 1..Len(rs)
         /\ \A k \in DOMAIN rs : rs[k].job \in 0..Len(js)
<1> DEFINE view == InView(js, only)
           all == RowSet(js, view)
<1>1. view \in SUBSET DOMAIN js /\ DOMAIN js = 1..Len(js) /\ Len(js) \in Nat
  BY JobFacts DEF InView
<1> HIDE DEF view
<1>2. CASE g
  <2> DEFINE B == [q \in all |-> {r \in all : RowComes(js, view, r, q)}]
             N == Cardinality(all)
  <2>1. rs = Ranked(all, B)
    BY <1>2 DEF RowsOf, GroupRows, view
  <2>2. IsOrder(all, B) /\ \A r \in all : r.job = 0 \/ r.job \in view
    <3>1. all = RowSet(js, view) /\ B = [q \in all |-> {r \in all : RowComes(js, view, r, q)}]
      OBVIOUS
    <3> HIDE DEF all, B
    <3>. QED  BY <1>1, <3>1, RowOrder
  <2> HIDE DEF all, B
  <2>3. N \in Nat /\ rs \in [1..N -> all]
    BY <2>1, <2>2, RankedFacts
  <2> HIDE DEF N
  <2>4. Len(rs) = N /\ DOMAIN rs = 1..N
    BY <2>3, FunctionIsSeq
  <2>5. \A k \in 1..N : rs[k].job \in 0..Len(js)
    BY <1>1, <2>2, <2>3
  <2>. QED  BY <2>3, <2>4, <2>5
<1>3. CASE ~g
  <2> DEFINE order == Order(js, view)
             N == Cardinality(view)
  <2>1. N \in Nat /\ order \in [1..N -> view]
    <3> DEFINE B == [k \in view |-> {i \in view : Comes(js, i, k)}]
    <3>1. order = Ranked(view, B)
      BY DEF Order
    <3>2. IsOrder(view, B)
      BY <1>1, ViewOrder
    <3> HIDE DEF B
    <3>. QED  BY <3>1, <3>2, RankedFacts
  <2>2. rs = [k \in DOMAIN order |-> JobRow(js, order[k])]
    BY <1>3 DEF RowsOf, view
  <2> HIDE DEF order, N
  <2>3. \A k \in 1..N : rs[k].job \in view
    BY <2>1, <2>2 DEF JobRow
  <2>4. rs \in [1..N -> {JobRow(js, i) : i \in view}]
    BY <2>1, <2>2
  <2>5. Len(rs) = N /\ DOMAIN rs = 1..N
    BY <2>1, <2>4, FunctionIsSeq
  <2>. QED  BY <1>1, <2>1, <2>3, <2>5
<1>. QED  BY <1>2, <1>3

----------------------------------------------------------------------------
(* The list and its cursor. *)

ListInv == ListTypeOK /\ Len(rows) \in Nat /\ DOMAIN rows = 1..Len(rows)

LEMMA FirstFacts ==
  ASSUME NEW n \in Nat, NEW S \in SUBSET (1..n)
  PROVE  /\ First(S) \in 0..n
         /\ S # {} => First(S) \in S /\ Max(S) \in S /\ Min(S) \in S
<1>1. S \in SUBSET Nat /\ S \in SUBSET (0..n) /\ \A k \in S : k \in 0..n
  OBVIOUS
<1>2. ASSUME S # {} PROVE Min(S) \in S /\ Max(S) \in S
  <2>1. PICK k \in S : \A i \in S : k <= i
    BY <1>1, <1>2, LeastNumber
  <2>2. \E m \in S : \A i \in S : i <= m
    BY <1>1, <1>2, GreatestNumber
  <2>3. \A i, h \in S : h <= i <=> i >= h
    BY <1>1
  <2>4. Min(S) \in S
    BY <2>1 DEF Min
  <2>5. Max(S) \in S
    <3>1. \E m \in S : \A i \in S : m >= i
      BY <2>2, <2>3
    <3>. QED  BY <3>1 DEF Max
  <2>. QED  BY <2>4, <2>5
<1>3. CASE S = {}
  BY <1>3 DEF First
<1>4. CASE S # {}
  BY <1>1, <1>2, <1>4 DEF First
<1>. QED  BY <1>3, <1>4

(* The cursor is put on the row of its job, when that is in view. *)
LEMMA AnchoredFacts ==
  ASSUME NEW js, NEW rs, Len(rs) \in Nat, DOMAIN rs = 1..Len(rs), NEW anchor
  PROVE  /\ Anchored(js, rs, anchor) \in 0..Len(rs)
         /\ (\E k \in Selectable(rs) : js[rs[k].job].id = anchor) =>
              /\ Anchored(js, rs, anchor) \in Selectable(rs)
              /\ js[rs[Anchored(js, rs, anchor)].job].id = anchor
<1> DEFINE same == {k \in Selectable(rs) : js[rs[k].job].id = anchor}
           S == IF same # {} THEN same ELSE Selectable(rs)
<1>1. S \in SUBSET (1..Len(rs)) /\ Anchored(js, rs, anchor) = First(S)
  BY DEF Selectable, Anchored
<1>2. First(S) \in 0..Len(rs) /\ (S # {} => First(S) \in S)
  <2> HIDE DEF S
  <2>. QED  BY <1>1, FirstFacts
<1>3. same # {} => First(S) \in same
  BY <1>2
<1>. QED  BY <1>1, <1>2, <1>3

(* rebuild_rows makes a list from any jobs, with the cursor on one of its rows or none. *)
LEMMA RebuildInv ==
  ASSUME NEW anchor, NEW js \in Seq(JobSet), IsInjective(Ids(js)), NEW g \in BOOLEAN, NEW only \in BOOLEAN,
         RebuildAround(anchor, js, g, only)
  PROVE  ListInv'
<1>1. /\ jobs' = js /\ grouped' = g /\ runningOnly' = only
      /\ rows' = RowsOf(js, g, only) /\ selected' = Anchored(js, rows', anchor)
  BY DEF RebuildAround
<1>2. /\ Len(rows') \in Nat /\ DOMAIN rows' = 1..Len(rows')
      /\ \A k \in DOMAIN rows' : rows'[k].job \in 0..Len(js)
  BY <1>1, RowsFacts
<1>3. selected' \in 0..Len(rows')
  BY <1>1, <1>2, AnchoredFacts
<1>. QED  BY <1>1, <1>2, <1>3 DEF ListInv, ListTypeOK, Ids

LEMMA IdFacts ==
  ASSUME NEW js \in Seq(JobSet)
  PROVE  DOMAIN Ids(js) = DOMAIN js /\ \A i \in DOMAIN js : Ids(js)[i] = js[i].id
  BY DEF Ids

LEMMA DistinctIds ==
  ASSUME NEW js \in Seq(JobSet)
  PROVE  IsInjective(Ids(js)) <=> \A i, k \in DOMAIN js : js[i].id = js[k].id => i = k
  BY IdFacts DEF IsInjective

LEMMA AppendedSeq ==
  ASSUME NEW S, NEW s \in Seq(S), NEW x \in S
  PROVE  /\ Append(s, x) \in Seq(S) /\ Len(Append(s, x)) = Len(s) + 1
         /\ Append(s, x)[Len(s) + 1] = x /\ \A i \in 1..Len(s) : Append(s, x)[i] = s[i]
OBVIOUS

(* What the events make of the jobs are jobs again, with an id each. *)
LEMMA AppendedJob ==
  ASSUME ListInv, NEW j \in Jobs, ~Known(j), NEW js, js = Append(jobs, Job(j, TRUE, 0))
  PROVE  js \in Seq(JobSet) /\ IsInjective(Ids(js))
<1>1. jobs \in Seq(JobSet) /\ Job(j, TRUE, 0) \in JobSet /\ Job(j, TRUE, 0).id = j
  BY ListsAssumption DEF ListInv, ListTypeOK, Job, JobSet
<1>2. /\ js \in Seq(JobSet) /\ Len(js) = Len(jobs) + 1 /\ Len(jobs) \in Nat
      /\ js[Len(js)].id = j /\ \A i \in 1..Len(jobs) : js[i].id = jobs[i].id
  <2> DEFINE x == Job(j, TRUE, 0)
  <2>1. jobs \in Seq(JobSet) /\ x \in JobSet /\ js = Append(jobs, x) /\ x.id = j
    BY <1>1
  <2> HIDE DEF x
  <2>2. /\ js \in Seq(JobSet) /\ Len(js) = Len(jobs) + 1
        /\ js[Len(jobs) + 1] = x /\ \A i \in 1..Len(jobs) : js[i] = jobs[i]
    <3>1. /\ Append(jobs, x) \in Seq(JobSet) /\ Len(Append(jobs, x)) = Len(jobs) + 1
          /\ Append(jobs, x)[Len(jobs) + 1] = x /\ \A i \in 1..Len(jobs) : Append(jobs, x)[i] = jobs[i]
      BY <2>1, AppendedSeq
    <3>. QED  BY <2>1, <3>1
  <2>3. Len(jobs) \in Nat
    BY <2>1, JobFacts
  <2>. QED  BY <2>1, <2>2, <2>3
<1>3. DOMAIN js = 1..Len(js) /\ DOMAIN jobs = 1..Len(jobs)
  BY <1>1, <1>2, JobFacts
<1>4. \A i \in 1..Len(jobs) : jobs[i].id # j
  BY <1>3 DEF Known
<1>5. \A i, k \in 1..Len(jobs) : jobs[i].id = jobs[k].id => i = k
  BY <1>1, <1>3, IdFacts DEF ListInv, ListTypeOK, IsInjective
<1>6. \A i, k \in DOMAIN js : js[i].id = js[k].id => i = k
  <2>1. \A i \in DOMAIN js : i \in 1..Len(jobs) \/ i = Len(js)
    BY <1>2, <1>3
  <2> SUFFICES ASSUME NEW i \in DOMAIN js, NEW k \in DOMAIN js, js[i].id = js[k].id PROVE i = k
    OBVIOUS
  <2>2. CASE i \in 1..Len(jobs) /\ k \in 1..Len(jobs)
    <3>1. jobs[i].id = jobs[k].id
      BY <1>2, <2>2
    <3>. QED  BY <1>5, <2>2, <3>1
  <2>3. CASE i \in 1..Len(jobs) /\ k = Len(js)
    BY <1>2, <1>4, <2>3
  <2>4. CASE i = Len(js) /\ k \in 1..Len(jobs)
    BY <1>2, <1>4, <2>4
  <2>5. (i \in 1..Len(jobs) \/ i = Len(js)) /\ (k \in 1..Len(jobs) \/ k = Len(js))
    BY <2>1
  <2>6. CASE i = Len(js) /\ k = Len(js)
    BY <2>6
  <2>. QED  BY <2>2, <2>3, <2>4, <2>5, <2>6
<1>7. js \in Seq(JobSet)
  BY <1>2
<1>. QED  BY <1>6, <1>7, DistinctIds

LEMMA ChangedJob ==
  ASSUME ListInv, NEW j \in Jobs, NEW running \in BOOLEAN, NEW t \in 0..MaxElapsed,
         NEW js, js = With(j, Job(j, running, t))
  PROVE  /\ js \in Seq(JobSet) /\ IsInjective(Ids(js)) /\ Len(js) = Len(jobs)
         /\ DOMAIN js = DOMAIN jobs /\ \A i \in DOMAIN jobs : js[i].id = jobs[i].id
<1>1. jobs \in Seq(JobSet) /\ Job(j, running, t) \in JobSet /\ Job(j, running, t).id = j
  BY DEF ListInv, ListTypeOK, Job, JobSet
<1>2. Len(jobs) \in Nat /\ DOMAIN jobs = 1..Len(jobs) /\ \A i \in 1..Len(jobs) : jobs[i] \in JobSet
  BY <1>1, JobFacts
<1>3. js \in [1..Len(jobs) -> JobSet] /\ \A i \in 1..Len(jobs) : js[i].id = jobs[i].id
  BY <1>1, <1>2 DEF With
<1>4. js \in Seq(JobSet) /\ Len(js) = Len(jobs) /\ DOMAIN js = 1..Len(jobs)
  BY <1>2, <1>3, FunctionIsSeq
<1>5. \A i, k \in 1..Len(jobs) : jobs[i].id = jobs[k].id => i = k
  BY <1>1, <1>2, IdFacts DEF ListInv, ListTypeOK, IsInjective
<1>6. IsInjective(Ids(js))
  BY <1>3, <1>4, <1>5, IdFacts DEF IsInjective
<1>. QED  BY <1>2, <1>3, <1>4, <1>6

LEMMA PickedJobs ==
  ASSUME ListInv, NEW at \in SUBSET DOMAIN jobs, NEW js, js = Picked(jobs, at)
  PROVE  js \in Seq(JobSet) /\ IsInjective(Ids(js))
<1> DEFINE f == Sorted(at)
           N == Cardinality(at)
<1>1. /\ jobs \in Seq(JobSet) /\ Len(jobs) \in Nat /\ DOMAIN jobs = 1..Len(jobs)
      /\ \A i \in DOMAIN jobs : jobs[i] \in JobSet
  BY JobFacts DEF ListInv, ListTypeOK
<1>2. N \in Nat /\ f \in [1..N -> at] /\ Increasing(f)
  <2>1. at \in SUBSET (0..Len(jobs))
    BY <1>1
  <2>. QED  BY <1>1, <2>1, SortedFacts
<1>3. js = [n \in DOMAIN f |-> jobs[f[n]]]
  BY DEF Picked
<1>4. \A n, m \in 1..N : n < m => f[n] < f[m]
  BY <1>2 DEF Increasing
<1>5. \A n \in 1..N : f[n] \in at /\ f[n] \in DOMAIN jobs /\ f[n] \in Nat
  BY <1>1, <1>2
<1> HIDE DEF f, N
<1>6. js \in [1..N -> JobSet] /\ \A n \in 1..N : js[n] = jobs[f[n]]
  BY <1>1, <1>2, <1>3, <1>5
<1>7. js \in Seq(JobSet) /\ Len(js) = N /\ DOMAIN js = 1..N
  BY <1>2, <1>6, FunctionIsSeq
<1>8. \A i, k \in DOMAIN jobs : jobs[i].id = jobs[k].id => i = k
  BY <1>1, IdFacts DEF ListInv, ListTypeOK, IsInjective
<1>9. ASSUME NEW n \in 1..N, NEW m \in 1..N, js[n].id = js[m].id PROVE n = m
  <2>1. f[n] = f[m] /\ f[n] \in Nat
    BY <1>5, <1>6, <1>8, <1>9
  <2>2. ~(n < m) /\ ~(m < n)
    BY <1>4, <1>5, <2>1
  <2>. QED  BY <1>2, <2>2
<1>10. IsInjective(Ids(js))
  BY <1>7, <1>9, IdFacts DEF IsInjective
<1>. QED  BY <1>7, <1>10

(* What the server says and what the user does keep the list in order. *)
LEMMA RebuildsInv ==
  ASSUME ListInv, NEW js \in Seq(JobSet), IsInjective(Ids(js)), NEW g \in BOOLEAN, NEW only \in BOOLEAN,
         Rebuild(js, g, only) \/ RebuildStale(js, g, only)
  PROVE  ListInv'
  BY RebuildInv DEF Rebuild, RebuildStale

LEMMA ServerInv ==
  ASSUME ListInv,
         \/ RefreshJobs
         \/ \E j \in Jobs :
              \/ JobCreated(j) \/ JobEvicted(j)
              \/ \E t \in 0..MaxElapsed : JobProgress(j, t) \/ JobFinished(j, t)
  PROVE  ListInv'
<1>1. /\ jobs \in Seq(JobSet) /\ IsInjective(Ids(jobs))
      /\ grouped \in BOOLEAN /\ runningOnly \in BOOLEAN
  BY DEF ListInv, ListTypeOK
<1>2. CASE RefreshJobs
  <2>1. PICK js \in Lists : Resort(js)
    BY <1>2 DEF RefreshJobs
  <2>2. js \in Seq(JobSet) /\ IsInjective(Ids(js))
    BY ListsAssumption
  <2>. QED  BY <1>1, <2>1, <2>2, RebuildsInv DEF Resort
<1>3. ASSUME NEW j \in Jobs, JobCreated(j) PROVE ListInv'
  <2> DEFINE js == Append(jobs, Job(j, TRUE, 0))
  <2>1. ~Known(j) /\ Rebuild(js, grouped, runningOnly)
    BY <1>3 DEF JobCreated, Resort
  <2>2. js \in Seq(JobSet) /\ IsInjective(Ids(js))
    BY <2>1, AppendedJob
  <2> HIDE DEF js
  <2>. QED  BY <1>1, <2>1, <2>2, RebuildsInv
<1>4. ASSUME NEW j \in Jobs, JobEvicted(j) PROVE ListInv'
  <2> DEFINE at == {i \in DOMAIN jobs : jobs[i].id # j}
             js == Picked(jobs, at)
  <2>1. RebuildStale(js, grouped, runningOnly)
    BY <1>4 DEF JobEvicted
  <2>2. at \in SUBSET DOMAIN jobs
    OBVIOUS
  <2> HIDE DEF at
  <2>3. js \in Seq(JobSet) /\ IsInjective(Ids(js))
    BY <2>2, PickedJobs
  <2> HIDE DEF js
  <2>. QED  BY <1>1, <2>1, <2>3, RebuildsInv
<1>5. ASSUME NEW j \in Jobs, NEW t \in 0..MaxElapsed, JobProgress(j, t) PROVE ListInv'
  <2> DEFINE js == With(j, Job(j, TRUE, t))
  <2>1. jobs' = js /\ UNCHANGED <<rows, selected, grouped, runningOnly>>
    BY <1>5 DEF JobProgress
  <2>2. js \in Seq(JobSet) /\ IsInjective(Ids(js)) /\ Len(js) = Len(jobs)
    BY ChangedJob
  <2> HIDE DEF js
  <2>. QED  BY <2>1, <2>2 DEF ListInv, ListTypeOK, Ids
<1>6. ASSUME NEW j \in Jobs, NEW t \in 0..MaxElapsed, JobFinished(j, t) PROVE ListInv'
  <2> DEFINE js == With(j, Job(j, FALSE, t))
  <2>1. Rebuild(js, grouped, runningOnly)
    BY <1>6 DEF JobFinished, Resort
  <2>2. js \in Seq(JobSet) /\ IsInjective(Ids(js))
    BY ChangedJob
  <2> HIDE DEF js
  <2>. QED  BY <1>1, <2>1, <2>2, RebuildsInv
<1>. QED  BY <1>2, <1>3, <1>4, <1>5, <1>6

LEMMA UserInv ==
  ASSUME ListInv,
         \/ \E b \in BOOLEAN : Step(b) \/ Jump(b)
         \/ ToggleGrouping \/ ToggleRunningOnly
  PROVE  ListInv'
<1>1. /\ jobs \in Seq(JobSet) /\ IsInjective(Ids(jobs))
      /\ grouped \in BOOLEAN /\ runningOnly \in BOOLEAN
      /\ Len(rows) \in Nat /\ DOMAIN rows = 1..Len(rows)
  BY DEF ListInv, ListTypeOK
<1>2. CASE ToggleGrouping \/ ToggleRunningOnly
  BY <1>1, <1>2, RebuildsInv DEF ToggleGrouping, ToggleRunningOnly
<1>3. ASSUME NEW row \in 0..Len(rows), SelectRow(row) PROVE ListInv'
  BY <1>3 DEF SelectRow, ListInv, ListTypeOK, Ids
<1>4. Selectable(rows) \in SUBSET (1..Len(rows))
  BY <1>1 DEF Selectable
<1>5. ASSUME NEW b \in BOOLEAN, Step(b) PROVE ListInv'
  <2> DEFINE beyond == {k \in Selectable(rows) : IF b THEN k > selected ELSE k < selected}
             row == IF beyond = {} THEN 0 ELSE IF b THEN Min(beyond) ELSE Max(beyond)
  <2>1. SelectRow(row)
    BY <1>5 DEF Step
  <2>2. beyond \in SUBSET (1..Len(rows))
    BY <1>4
  <2>3. row \in 0..Len(rows)
    <3> HIDE DEF beyond
    <3>1. beyond # {} => Min(beyond) \in 1..Len(rows) /\ Max(beyond) \in 1..Len(rows)
      BY <1>1, <2>2, FirstFacts
    <3>. QED  BY <1>1, <3>1
  <2> HIDE DEF row
  <2>. QED  BY <1>3, <2>1, <2>3
<1>6. ASSUME NEW b \in BOOLEAN, Jump(b) PROVE ListInv'
  <2> DEFINE all == Selectable(rows)
             row == IF b \/ all = {} THEN First(all) ELSE Max(all)
  <2>1. SelectRow(row)
    BY <1>6 DEF Jump
  <2>2. row \in 0..Len(rows)
    <3>1. First(all) \in 0..Len(rows) /\ (all # {} => Max(all) \in 1..Len(rows))
      BY <1>1, <1>4, FirstFacts
    <3>. QED  BY <1>1, <3>1
  <2> HIDE DEF row
  <2>. QED  BY <1>3, <2>1, <2>2
<1>. QED  BY <1>2, <1>5, <1>6

LEMMA ListStutters ==
  ASSUME ListInv, UNCHANGED listVars
  PROVE  ListInv'
  BY DEF ListInv, ListTypeOK, listVars, Ids

(* What the cursor is on is a job, or none. *)
LEMMA SelectedIsKnown ==
  ASSUME ListInv
  PROVE  SelectedJob \in Jobs \cup {NoJob}
<1>1. \A i \in DOMAIN jobs : jobs[i].id \in Jobs
  BY JobFacts DEF ListInv, ListTypeOK
<1>. QED  BY <1>1 DEF SelectedJob, JobAt

----------------------------------------------------------------------------
(* The program. *)

AppTypes ==
  /\ loaded \in Jobs \cup {NoJob}
  /\ feed \in [of : Jobs \cup {NoJob}, next : 0..MaxLines + 1]
  /\ sent \in Seq(LineSet) /\ Len(sent) <= MaxSent
  /\ panel \in Panels \cup {"none"} /\ over \in BOOLEAN
  /\ mode \in [typing : BOOLEAN, panel : Panels \cup {"none"}]

AppInv == ListInv /\ PaneInv /\ AppTypes

LEMMA NoneSeq ==
  ASSUME NEW S, NEW s, s = <<>>
  PROVE  s \in Seq(S) /\ Len(s) = 0 /\ DOMAIN s = {}
OBVIOUS

LEMMA AppInitInv == Init => AppInv
<1> SUFFICES ASSUME Init PROVE AppInv
  OBVIOUS
<1>1. ListInv
  <2>1. /\ jobs = <<>> /\ rows = <<>> /\ selected = 0
        /\ grouped = FALSE /\ runningOnly = FALSE
    BY DEF Init, ListInit
  <2>2. /\ jobs \in Seq(JobSet) /\ Len(jobs) = 0 /\ DOMAIN jobs = {}
        /\ Len(rows) = 0 /\ DOMAIN rows = {}
    BY <2>1, NoneSeq
  <2>3. IsInjective(Ids(jobs))
    BY <2>2 DEF Ids, IsInjective
  <2>4. Len(rows) \in Nat /\ DOMAIN rows = 1..Len(rows) /\ selected \in 0..Len(rows)
    BY <2>1, <2>2
  <2>5. \A k \in DOMAIN rows : rows[k].job \in 0..Len(jobs)
    BY <2>2
  <2>. QED  BY <2>1, <2>2, <2>3, <2>4, <2>5 DEF ListInv, ListTypeOK
<1>2. PaneInv
  <2>1. PaneInit
    BY DEF Init
  <2>2. InOrder(<<>>)
    BY DEF InOrder
  <2>3. lines \in Seq(LineSet) /\ Len(lines) = 0 /\ DOMAIN lines = {}
    BY <2>1, NoneSeq DEF PaneInit
  <2>4. PaneTypeOK
    <3>1. Nowhere \in Nowhere..MaxLines
      BY PaneAssumption DEF Nowhere
    <3>2. NoQuery \in QuerySet
      BY DEF QuerySet
    <3>3. Len(lines) <= MaxScrollback
      BY <2>3, PaneAssumption
    <3>. QED  BY <2>1, <2>3, <3>1, <3>2, <3>3 DEF PaneInit, PaneTypeOK
  <2>. QED  BY <2>1, <2>2, <2>3, <2>4 DEF PaneInit, PaneInv, PinOK
<1>3. AppTypes
  <2>1. sent \in Seq(LineSet) /\ Len(sent) = 0
    BY NoneSeq DEF Init
  <2>2. NoFeed \in [of : Jobs \cup {NoJob}, next : 0..MaxLines + 1]
    BY PaneAssumption DEF NoFeed
  <2>3. Len(sent) <= MaxSent
    BY <2>1, SentAssumption
  <2>. QED  BY <2>1, <2>2, <2>3 DEF Init, AppTypes
<1>. QED  BY <1>1, <1>2, <1>3 DEF AppInv

LEMMA FrameStep ==
  ASSUME AppInv, Frame
  PROVE  AppInv'
<1>1. /\ UNCHANGED <<listVars, paneVars, sent, panel, over>>
      /\ mode' = [typing |-> typing, panel |-> panel]
      /\ \/ loaded' = SelectedJob /\ feed' = NewFeed(SelectedJob)
         \/ UNCHANGED <<loaded, feed>>
  BY DEF Frame, FrameWith
<1>2. ListInv' /\ PaneInv'
  BY <1>1, ListStutters, PaneStutters DEF AppInv
<1>3. typing \in BOOLEAN
  BY PaneTypes DEF AppInv
<1>4. SelectedJob \in Jobs \cup {NoJob}
  BY SelectedIsKnown DEF AppInv
<1>5. NewFeed(SelectedJob) \in [of : Jobs \cup {NoJob}, next : 0..MaxLines + 1]
  BY <1>4, PaneAssumption DEF NewFeed, NoFeed
<1>6. AppTypes'
  BY <1>1, <1>3, <1>4, <1>5 DEF AppInv, AppTypes
<1>. QED  BY <1>2, <1>6 DEF AppInv

(* An action on the list resets the pane or leaves it alone. *)
LEMMA ListStep ==
  ASSUME AppInv, ListInv', NEW ACTION A, ListAction(A)
  PROVE  AppInv'
<1>1. /\ ResetLog \/ UNCHANGED paneVars
      /\ loaded' = NoJob \/ UNCHANGED loaded
      /\ UNCHANGED <<feed, sent, panel, mode, over>>
  BY DEF ListAction
<1>2. PaneInv'
  BY <1>1, PaneReset, PaneStutters DEF AppInv
<1>3. AppTypes'
  BY <1>1 DEF AppInv, AppTypes
<1>. QED  BY <1>2, <1>3 DEF AppInv

LEMMA ServerStep ==
  ASSUME AppInv, ServerSays
  PROVE  AppInv'
<1>0. ListInv
  BY DEF AppInv
<1>1. CASE ListAction(RefreshJobs)
  <2>1. ListInv'
    BY <1>0, <1>1, ServerInv DEF ListAction
  <2>. QED  BY <1>1, <2>1, ListStep
<1>2. ASSUME NEW j \in Jobs, ListAction(JobCreated(j)) PROVE AppInv'
  <2>1. ListInv'
    BY <1>0, <1>2, ServerInv DEF ListAction
  <2>. QED  BY <1>2, <2>1, ListStep
<1>3. ASSUME NEW j \in Jobs, ListAction(JobEvicted(j)) PROVE AppInv'
  <2>1. ListInv'
    BY <1>0, <1>3, ServerInv DEF ListAction
  <2>. QED  BY <1>3, <2>1, ListStep
<1>4. ASSUME NEW j \in Jobs, NEW t \in 0..MaxElapsed, ListAction(JobProgress(j, t)) PROVE AppInv'
  <2>1. ListInv'
    BY <1>0, <1>4, ServerInv DEF ListAction
  <2>. QED  BY <1>4, <2>1, ListStep
<1>5. ASSUME NEW j \in Jobs, NEW t \in 0..MaxElapsed, ListAction(JobFinished(j, t)) PROVE AppInv'
  <2>1. ListInv'
    BY <1>0, <1>5, ServerInv DEF ListAction
  <2>. QED  BY <1>5, <2>1, ListStep
<1>. QED  BY <1>1, <1>2, <1>3, <1>4, <1>5 DEF ServerSays

LEMMA ListKeyStep ==
  ASSUME AppInv, ListKey
  PROVE  AppInv'
<1>0. ListInv
  BY DEF AppInv
<1>1. ASSUME NEW b \in BOOLEAN, ListAction(Step(b)) PROVE AppInv'
  <2>1. ListInv'
    BY <1>0, <1>1, UserInv DEF ListAction
  <2>. QED  BY <1>1, <2>1, ListStep
<1>2. ASSUME NEW b \in BOOLEAN, ListAction(Jump(b)) PROVE AppInv'
  <2>1. ListInv'
    BY <1>0, <1>2, UserInv DEF ListAction
  <2>. QED  BY <1>2, <2>1, ListStep
<1>3. CASE ListAction(ToggleGrouping)
  <2>1. ListInv'
    BY <1>0, <1>3, UserInv DEF ListAction
  <2>. QED  BY <1>3, <2>1, ListStep
<1>4. CASE ListAction(ToggleRunningOnly)
  <2>1. ListInv'
    BY <1>0, <1>4, UserInv DEF ListAction
  <2>. QED  BY <1>4, <2>1, ListStep
<1>. QED  BY <1>1, <1>2, <1>3, <1>4 DEF ListKey

LEMMA LogTaskStep ==
  ASSUME AppInv, LogTask
  PROVE  AppInv'
<1>1. ASSUME NEW line \in LineSet, Send(line) PROVE AppInv'
  <2>1. /\ sent' = Append(sent, line) /\ Len(sent) < MaxSent
        /\ feed' = [feed EXCEPT !.next = @ + 1] /\ feed.next <= MaxLines
        /\ UNCHANGED <<listVars, paneVars, loaded, panel, mode, over>>
    BY <1>1 DEF Send
  <2>2. ListInv' /\ PaneInv'
    BY <2>1, ListStutters, PaneStutters DEF AppInv
  <2>3. sent' \in Seq(LineSet) /\ Len(sent') = Len(sent) + 1 /\ Len(sent) \in Nat
    <3>1. sent \in Seq(LineSet)
      BY DEF AppInv, AppTypes
    <3>2. Append(sent, line) \in Seq(LineSet) /\ Len(Append(sent, line)) = Len(sent) + 1
      BY <3>1, AppendedSeq
    <3>3. Len(sent) \in Nat
      BY <3>1, SeqIsFunction
    <3>. QED  BY <2>1, <3>2, <3>3
  <2>4. feed' \in [of : Jobs \cup {NoJob}, next : 0..MaxLines + 1]
    BY <2>1, PaneAssumption DEF AppInv, AppTypes
  <2>5. AppTypes'
    BY <2>1, <2>3, <2>4, SentAssumption DEF AppInv, AppTypes
  <2>. QED  BY <2>2, <2>5 DEF AppInv
<1>2. /\ Send(Line(feed.next)) => Line(feed.next) \in LineSet
      /\ Send(GapMark) => GapMark \in LineSet
  BY PaneAssumption DEF AppInv, AppTypes, Send, Line, GapMark, LineSet
<1>. QED  BY <1>1, <1>2 DEF LogTask

LEMMA RecvLineStep ==
  ASSUME AppInv, RecvLine
  PROVE  AppInv'
<1>1. /\ sent # <<>> /\ AppendLogLine(Head(sent)) /\ sent' = Tail(sent)
      /\ UNCHANGED <<listVars, loaded, feed, panel, mode, over>>
  BY DEF RecvLine
<1>2. /\ sent \in Seq(LineSet) /\ Head(sent) \in LineSet
      /\ sent' \in Seq(LineSet) /\ Len(sent') <= MaxSent
  <2>1. sent \in Seq(LineSet) /\ Len(sent) <= MaxSent
    BY DEF AppInv, AppTypes
  <2>2. Head(sent) \in LineSet /\ Tail(sent) \in Seq(LineSet) /\ Len(Tail(sent)) = Len(sent) - 1
    BY <1>1, <2>1, HeadTailProperties
  <2>. QED  BY <1>1, <2>1, <2>2, SentAssumption, SeqIsFunction
<1>3. ListInv' /\ PaneInv'
  BY <1>1, <1>2, ListStutters, PaneAppend DEF AppInv
<1>4. AppTypes'
  BY <1>1, <1>2 DEF AppInv, AppTypes
<1>. QED  BY <1>3, <1>4 DEF AppInv

LEMMA PaneStep ==
  ASSUME AppInv, PaneInv', UNCHANGED <<listVars, appVars>>
  PROVE  AppInv'
<1>1. ListInv'
  BY ListStutters DEF AppInv
<1>2. AppTypes'
  BY DEF AppInv, AppTypes, appVars
<1>. QED  BY <1>1, <1>2 DEF AppInv

LEMMA KeyStep ==
  ASSUME AppInv, Key
  PROVE  AppInv'
<1>0. PaneInv
  BY DEF AppInv
<1>1. ASSUME NEW delta \in Int, PaneAction(Scroll(delta)) PROVE AppInv'
  BY <1>0, <1>1, PaneScroll, PaneStep DEF PaneAction
<1>2. ASSUME NEW b \in BOOLEAN, PaneAction(JumpMatch(b)) PROVE AppInv'
  BY <1>0, <1>2, PaneJump, PaneStep DEF PaneAction
<1>3. CASE PaneAction(Follow) \/ PaneAction(ToggleFollow)
  BY <1>0, <1>3, PaneFollow, PaneStep DEF PaneAction
<1>4. CASE PaneAction(ToggleFilterMatches)
  BY <1>0, <1>4, PaneToggleFilter, PaneStep DEF PaneAction
<1>5. CASE PaneAction(SearchCancel) \/ PaneAction(SearchAccept) \/ PaneAction(SearchBackspace)
           \/ PaneAction(SearchInput)
  BY <1>0, <1>5, PaneSearch, PaneStep DEF PaneAction
<1>6. ASSUME NEW p \in Panels, Toggle(p) PROVE AppInv'
  <2>1. UNCHANGED <<listVars, paneVars, loaded, feed, sent, mode, over>> /\ panel' \in {p, "none"}
    BY <1>6 DEF Toggle
  <2>2. ListInv' /\ PaneInv'
    BY <2>1, ListStutters, PaneStutters DEF AppInv
  <2>. QED  BY <2>1, <2>2 DEF AppInv, AppTypes
<1>7. CASE Quit
  <2>1. UNCHANGED <<listVars, paneVars, loaded, sent, panel, mode>> /\ over' = TRUE /\ feed' = NoFeed
    BY <1>7 DEF Quit
  <2>2. ListInv' /\ PaneInv'
    BY <2>1, ListStutters, PaneStutters DEF AppInv
  <2>. QED  BY <2>1, <2>2, PaneAssumption DEF AppInv, AppTypes, NoFeed
<1>8. CASE StartSearch
  <2>1. /\ SearchStart /\ panel' \in {panel, "none"}
        /\ UNCHANGED <<listVars, loaded, feed, sent, mode, over>>
    BY <1>8 DEF StartSearch
  <2>2. ListInv' /\ PaneInv'
    BY <1>0, <2>1, ListStutters, PaneSearch DEF AppInv
  <2>. QED  BY <2>1, <2>2 DEF AppInv, AppTypes
<1>9. Wheel \in Int /\ -Wheel \in Int /\ Page \in Int /\ -Page \in Int /\ 1 \in Int /\ -1 \in Int
  BY PaneAssumption
<1>10. CASE BrowseKey
  BY <1>1, <1>2, <1>9, <1>10 DEF BrowseKey
<1>11. CASE WheelTurns
  BY <1>1, <1>9, <1>11 DEF WheelTurns
<1>12. CASE OverlayKey
  <2>1. mode.panel \in Panels
    BY <1>12 DEF OverlayKey, AppInv, AppTypes
  <2>. QED  BY <1>6, <1>7, <1>12, <2>1 DEF OverlayKey
<1>13. CASE TypingKey
  BY <1>1, <1>5, <1>9, <1>10, <1>13 DEF TypingKey
<1>14. CASE CommandKey
  BY <1>3, <1>4, <1>5, <1>6, <1>7, <1>8, <1>10, <1>14 DEF CommandKey
<1>. QED  BY <1>11, <1>12, <1>13, <1>14 DEF Key

LEMMA AppNextInv == AppInv /\ [Next]_vars => AppInv'
<1> SUFFICES ASSUME AppInv, [Next]_vars PROVE AppInv'
  OBVIOUS
<1>1. CASE UNCHANGED vars
  <2>1. UNCHANGED <<listVars, appVars>> /\ UNCHANGED paneVars
    BY <1>1 DEF vars
  <2>2. PaneInv'
    BY <2>1, PaneStutters DEF AppInv
  <2>. QED  BY <2>1, <2>2, PaneStep
<1>2. CASE Next
  BY <1>2, FrameStep, ServerStep, LogTaskStep, RecvLineStep, KeyStep, ListKeyStep DEF Next
<1>. QED  BY <1>1, <1>2

(* The types hold, the pane is pinned a screen away from the front of lines that came in
   order, and the rows name jobs of the list: of every state. *)
THEOREM AppInvariantHolds == Spec => []AppInv
  BY AppInitInv, AppNextInv, PTL DEF Spec

(* No variable of the monitor leaves its type. *)
THEOREM TypesHold == Spec => []TypeOK
<1>1. AppInv => TypeOK
  BY DEF AppInv, ListInv, PaneInv, AppTypes, TypeOK
<1>. QED  BY <1>1, AppInvariantHolds, PTL

(* A pane that does not filter has no blank rows while there are lines for them, whatever
   the user does in it and whatever is lost at its front, as long as lines come in order. *)
THEOREM PaneIsFilled == Spec => []NoBlankRows
<1>1. AppInv => NoBlankRows
  <2> SUFFICES ASSUME AppInv, tidy, filter => query.empty
               PROVE  Len(Drawn) = Least(LogRows, Len(Shown))
    BY DEF NoBlankRows
  <2>1. Shown = Indices(lines)
    BY DEF Shown, Visible
  <2>2. lines \in Seq(LineSet) /\ pinned \in Pin_Set /\ InOrder(lines) /\ PinOK(lines, pinned)
    BY PaneTypes DEF AppInv
  <2>. QED  BY <2>1, <2>2, FullPane DEF Drawn
<1>. QED  BY <1>1, AppInvariantHolds, PTL

(* Only RecvLine takes a line off the queue. *)
LEMMA OthersKeepSent ==
  ASSUME AppInv, Next, ~RecvLine, sent # <<>>
  PROVE  sent' # Tail(sent)
<1>1. sent \in Seq(LineSet) /\ Len(sent) \in Nat
  BY SeqIsFunction DEF AppInv, AppTypes
<1>2. ASSUME Len(sent') = Len(sent) \/ Len(sent') = Len(sent) + 1 PROVE sent' # Tail(sent)
  <2>1. Len(Tail(sent)) = Len(sent) - 1
    BY <1>1, HeadTailProperties
  <2>2. Len(sent') # Len(Tail(sent))
    <3> DEFINE n == Len(sent)
    <3>1. n \in Nat /\ Len(Tail(sent)) = n - 1 /\ (Len(sent') = n \/ Len(sent') = n + 1)
      BY <1>1, <1>2, <2>1
    <3>2. n - 1 # n /\ n - 1 # n + 1
      <4>1. n \in Nat
        BY <3>1
      <4> HIDE DEF n
      <4>. QED  BY <4>1
    <3>. QED  BY <3>1, <3>2
  <2>. QED  BY <2>2
<1>3. CASE LogTask
  <2>1. \E line : sent' = Append(sent, line)
    BY <1>3 DEF LogTask, Send
  <2>2. PICK line : sent' = Append(sent, line)
    BY <2>1
  <2>3. Len(sent') = Len(sent) + 1
    BY <1>1, <2>2
  <2>. QED  BY <1>2, <2>3
<1>4. ASSUME sent' = sent PROVE sent' # Tail(sent)
  BY <1>2, <1>4
<1>5. CASE Frame
  BY <1>4, <1>5 DEF Frame, FrameWith
<1>6. CASE ServerSays
  BY <1>4, <1>6 DEF ServerSays, ListAction
<1>7. CASE ListKey
  BY <1>4, <1>7 DEF ListKey, ListAction
<1>8. CASE Key
  <2>1. ASSUME UNCHANGED <<listVars, appVars>> PROVE sent' = sent
    BY <2>1 DEF appVars
  <2>2. Quit \/ StartSearch \/ (\E p : Toggle(p)) => sent' = sent
    BY DEF Quit, StartSearch, Toggle
  <2>3. ASSUME WheelTurns \/ BrowseKey PROVE sent' = sent
    BY <2>1, <2>3 DEF WheelTurns, BrowseKey, PaneAction
  <2>4. CASE WheelTurns
    BY <1>4, <2>3, <2>4
  <2>5. CASE OverlayKey
    BY <1>4, <2>2, <2>5 DEF OverlayKey
  <2>6. CASE TypingKey
    BY <1>4, <2>1, <2>3, <2>6 DEF TypingKey, PaneAction
  <2>7. CASE CommandKey
    BY <1>4, <2>1, <2>2, <2>3, <2>7 DEF CommandKey, PaneAction
  <2>. QED  BY <1>8, <2>4, <2>5, <2>6, <2>7 DEF Key
<1>. QED  BY <1>3, <1>5, <1>6, <1>7, <1>8 DEF Next

(* A line that arrives moves a full and paused pane only by dropping the first line it
   shows, for any height, buffer and query. *)
THEOREM PausedPaneStays == Spec => PausedViewHolds
<1> DEFINE Holds == /\ sent # <<>> /\ sent' = Tail(sent) /\ tidy'
                    /\ pinned # Nowhere /\ Len(Drawn) = LogRows /\ pinned <= Last(Shown)
                    => Drawn' = Drawn \/ ~Contains(Indices(lines'), Head(Drawn))
<1>1. AppInv /\ [Next]_vars => [Holds]_vars
  <2> SUFFICES ASSUME AppInv, Next, sent # <<>>, sent' = Tail(sent), tidy',
                      pinned # Nowhere, Len(Drawn) = LogRows, pinned <= Last(Shown)
               PROVE  Drawn' = Drawn \/ ~Contains(Indices(lines'), Head(Drawn))
    OBVIOUS
  <2>1. RecvLine
    BY OthersKeepSent
  <2> DEFINE line == Head(sent)
  <2>2. line \in LineSet
    <3>1. sent \in Seq(LineSet)
      BY DEF AppInv, AppTypes
    <3>. QED  BY <3>1, HeadTailProperties
  <2>3. /\ lines' = Held(Append(lines, line)) /\ tidy' = (tidy /\ InOrder(Append(lines, line)))
        /\ pinned' = Clamped(Visible(lines', query, filter), pinned)
        /\ query' = query /\ filter' = filter
    BY <2>1 DEF RecvLine, AppendLogLine, searchVars
  <2> HIDE DEF line
  <2>4. /\ lines \in Seq(LineSet) /\ Len(lines) <= MaxScrollback /\ filter \in BOOLEAN
        /\ InOrder(lines) /\ InOrder(Append(lines, line)) /\ pinned \in 0..MaxLines
    <3>1. /\ lines \in Seq(LineSet) /\ Len(lines) <= MaxScrollback /\ filter \in BOOLEAN
          /\ tidy => InOrder(lines)
      BY PaneTypes DEF AppInv
    <3>2. pinned \in Nowhere..MaxLines
      BY PaneTypes DEF AppInv, Pin_Set
    <3>3. pinned \in 0..MaxLines
      BY <3>2, PaneAssumption DEF Nowhere
    <3>. QED  BY <2>3, <3>1, <3>3
  <2>5. Len(Window(Visible(lines, query, filter), pinned)) = LogRows
        /\ pinned <= Last(Visible(lines, query, filter))
    BY DEF Drawn, Shown
  <2> DEFINE V == Visible(lines, query, filter)
             h == Held(Append(lines, line))
             W == Visible(h, query, filter)
  <2>6. \/ Window(W, Clamped(W, pinned)) = Window(V, pinned)
        \/ ~Contains(Indices(h), Head(Window(V, pinned)))
    BY <2>2, <2>4, <2>5, PausedPaneHolds
  <2>7. Drawn = Window(V, pinned) /\ Drawn' = Window(W, Clamped(W, pinned)) /\ lines' = h
    BY <2>3 DEF Drawn, Shown
  <2>. QED  BY <2>6, <2>7
<1>2. Spec => [][Holds]_vars
  BY <1>1, AppInvariantHolds, PTL DEF Spec
<1>. QED  BY <1>2 DEF PausedViewHolds

(* A rebuild around the job under the cursor leaves the cursor on it, when it is in view. *)
LEMMA RebuildKeepsJob ==
  ASSUME ListInv, NEW js \in Seq(JobSet), NEW g \in BOOLEAN, NEW only \in BOOLEAN, Rebuild(js, g, only),
         \E k \in Selectable(rows') : jobs'[rows'[k].job].id = SelectedJob
  PROVE  SelectedJob' = SelectedJob
<1>1. /\ jobs' = js /\ rows' = RowsOf(js, g, only) /\ selected' = Anchored(js, rows', SelectedJob)
  BY DEF Rebuild, RebuildAround
<1>2. /\ Len(rows') \in Nat /\ DOMAIN rows' = 1..Len(rows')
      /\ \A k \in DOMAIN rows' : rows'[k].job \in 0..Len(js)
  BY <1>1, RowsFacts
<1>3. selected' \in Selectable(rows') /\ js[rows'[selected'].job].id = SelectedJob
  BY <1>1, <1>2, AnchoredFacts
<1>4. selected' \in DOMAIN rows' /\ rows'[selected'].job \in DOMAIN js
  BY <1>2, <1>3, JobFacts DEF Selectable
<1>. QED  BY <1>1, <1>3, <1>4 DEF SelectedJob, JobAt

(* The cursor stays on its job while that is in view, for any list, groups and filter: a
   rebuild looks for the job that was under it before the list changed. *)
THEOREM CursorStays == Spec => CursorKeepsItsJob
<1> DEFINE Keeps == /\ jobs' # jobs \/ grouped' # grouped \/ runningOnly' # runningOnly
                    /\ ~ \E j \in Jobs : JobEvicted(j)
                    /\ SelectedJob # NoJob
                    /\ \E k \in Selectable(rows') : jobs'[rows'[k].job].id = SelectedJob
                    => SelectedJob' = SelectedJob
<1>1. AppInv /\ [Next]_vars => [Keeps]_vars
  <2> SUFFICES ASSUME AppInv, Next, jobs' # jobs \/ grouped' # grouped \/ runningOnly' # runningOnly,
                      ~ \E j \in Jobs : JobEvicted(j),
                      \E k \in Selectable(rows') : jobs'[rows'[k].job].id = SelectedJob
               PROVE  SelectedJob' = SelectedJob
    OBVIOUS
  <2>1. /\ ListInv /\ jobs \in Seq(JobSet) /\ grouped \in BOOLEAN /\ runningOnly \in BOOLEAN
    BY DEF AppInv, ListInv, ListTypeOK
  <2>2. ASSUME NEW js \in Seq(JobSet), NEW g \in BOOLEAN, NEW only \in BOOLEAN, Rebuild(js, g, only)
        PROVE  SelectedJob' = SelectedJob
    BY <2>1, <2>2, RebuildKeepsJob
  <2>3. CASE ServerSays
    <3>1. CASE RefreshJobs
      <4>1. PICK js \in Lists : Rebuild(js, grouped, runningOnly)
        BY <3>1 DEF RefreshJobs, Resort
      <4>2. js \in Seq(JobSet)
        BY ListsAssumption
      <4>. QED  BY <2>1, <2>2, <4>1, <4>2
    <3>2. ASSUME NEW j \in Jobs, JobCreated(j) PROVE SelectedJob' = SelectedJob
      <4> DEFINE js == Append(jobs, Job(j, TRUE, 0))
      <4>1. ~Known(j) /\ Rebuild(js, grouped, runningOnly)
        BY <3>2 DEF JobCreated, Resort
      <4>2. js \in Seq(JobSet)
        BY <2>1, <4>1, AppendedJob
      <4> HIDE DEF js
      <4>. QED  BY <2>1, <2>2, <4>1, <4>2
    <3>3. ASSUME NEW j \in Jobs, NEW t \in 0..MaxElapsed, JobProgress(j, t)
          PROVE  SelectedJob' = SelectedJob
      <4> DEFINE js == With(j, Job(j, TRUE, t))
      <4>1. jobs' = js /\ rows' = rows /\ selected' = selected
        BY <3>3 DEF JobProgress
      <4>2. DOMAIN js = DOMAIN jobs /\ \A i \in DOMAIN jobs : js[i].id = jobs[i].id
        BY <2>1, ChangedJob
      <4> HIDE DEF js
      <4>. QED  BY <4>1, <4>2 DEF SelectedJob, JobAt
    <3>4. ASSUME NEW j \in Jobs, NEW t \in 0..MaxElapsed, JobFinished(j, t)
          PROVE  SelectedJob' = SelectedJob
      <4> DEFINE js == With(j, Job(j, FALSE, t))
      <4>1. Rebuild(js, grouped, runningOnly)
        BY <3>4 DEF JobFinished, Resort
      <4>2. js \in Seq(JobSet)
        BY <2>1, ChangedJob
      <4> HIDE DEF js
      <4>. QED  BY <2>1, <2>2, <4>1, <4>2
    <3>5. \/ RefreshJobs
          \/ \E j \in Jobs : \/ JobCreated(j)
                             \/ \E t \in 0..MaxElapsed : JobProgress(j, t) \/ JobFinished(j, t)
      BY <2>3 DEF ServerSays, ListAction
    <3>. QED  BY <3>1, <3>2, <3>3, <3>4, <3>5
  <2>4. CASE ListKey
    <3>1. CASE ToggleGrouping \/ ToggleRunningOnly
      BY <2>1, <2>2, <3>1 DEF ToggleGrouping, ToggleRunningOnly
    <3>2. ~ \E b \in BOOLEAN : Step(b) \/ Jump(b)
      BY DEF Step, Jump, SelectRow
    <3>. QED  BY <2>4, <3>1, <3>2 DEF ListKey, ListAction
  <2>5. ASSUME UNCHANGED listVars PROVE FALSE
    BY <2>5 DEF listVars
  <2>6. Frame \/ LogTask \/ RecvLine \/ Quit \/ StartSearch \/ (\E p : Toggle(p)) => UNCHANGED listVars
    BY DEF Frame, FrameWith, LogTask, Send, RecvLine, Quit, StartSearch, Toggle
  <2>7. CASE Key
    BY <2>5, <2>6, <2>7 DEF Key, WheelTurns, OverlayKey, TypingKey, CommandKey, BrowseKey, PaneAction
  <2>. QED  BY <2>3, <2>4, <2>5, <2>6, <2>7 DEF Next
<1>2. Spec => [][Keeps]_vars
  BY <1>1, AppInvariantHolds, PTL DEF Spec
<1>. QED  BY <1>2 DEF CursorKeepsItsJob
=============================================================================
