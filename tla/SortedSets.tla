------------------------------ MODULE SortedSets ------------------------------
(***************************************************************************)
(* A finite set as the sequence of its elements in a total order, which is  *)
(* given as a set of pairs.  SetToSortSeq would do, but it rests on SortSeq, *)
(* which is built into TLC and has no definition that a proof could use.    *)
(***************************************************************************)
EXTENDS Integers, FiniteSets

\* How many elements come before x.
Position(x, S, before) == Cardinality({y \in S : <<y, x>> \in before})

Sorted(S, before) ==
  [n \in 1..Cardinality(S) |-> CHOOSE x \in S : Position(x, S, before) = n - 1]
=============================================================================
