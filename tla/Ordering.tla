------------------------------- MODULE Ordering -------------------------------
(***************************************************************************)
(* Sorting a finite set and picking the elements of a sequence, by ranks:  *)
(* an element's place is the number of those that do not come after it.    *)
(***************************************************************************)
EXTENDS Naturals, Sequences, FiniteSets

(* upTo[x] are the elements of S that do not come after x. *)
Ranked(S, upTo) == [n \in 1..Cardinality(S) |-> CHOOSE x \in S : Cardinality(upTo[x]) = n]

(* Numbers, from the least to the greatest. *)
UpTo(S, x) == {i \in S : i <= x}
Sorted(S) == Ranked(S, [x \in S |-> UpTo(S, x)])

(* The elements of s at some places, in the order they have in s. *)
Picked(s, places) ==
  LET at == Sorted(places)
  IN  [n \in DOMAIN at |-> s[at[n]]]
=============================================================================
