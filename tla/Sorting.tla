------------------------------ MODULE Sorting ------------------------------
(***************************************************************************)
(* A set in the order of numbers its elements have: the rows of a query    *)
(* with ORDER BY, the messages of a slice.  (SortSeq of the module TLC     *)
(* gives the same sequence, but has no definition to reason from.)         *)
(***************************************************************************)
EXTENDS Integers, FiniteSets

\* How many of S have keys up to x's.
Rank(S, key, x) == Cardinality({y \in S : key[y] <= key[x]})

\* The elements of S, whose keys differ, by their keys.
SortedBy(S, key) ==
  [i \in 1 .. Cardinality(S) |-> CHOOSE x \in S : Rank(S, key, x) = i]

=============================================================================
