------------------------------- MODULE Totals -------------------------------
(***************************************************************************)
(* What the elements of a finite set take together, each a natural number  *)
(* of units (huge pages, bytes): the number of pairs of an element and one *)
(* of its units.                                                           *)
(***************************************************************************)
EXTENDS Integers, FiniteSets

Units(S, w) == UNION {{x} \X (1..w[x]) : x \in S}

Total(S, w) == Cardinality(Units(S, w))
=============================================================================
