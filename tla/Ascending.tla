------------------------------ MODULE Ascending -------------------------------
(***************************************************************************)
(* A joined list has the order of the signals it was joined from, and      *)
(* keeps it through a filter; signals are numbered in that order (hosts by *)
(* their last address byte, ports by themselves).  What is left of the     *)
(* list is then a set of numbers in ascending order.                       *)
(***************************************************************************)
EXTENDS Naturals, Sequences, FiniteSets

UpTo(set, n) == {m \in set : m <= n}

\* The i-th element of the list is the one with i elements up to it.
InOrder(set) ==
  [i \in 1 .. Cardinality(set) |-> CHOOSE n \in set : Cardinality(UpTo(set, n)) = i]
=============================================================================
