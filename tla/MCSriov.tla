------------------------------ MODULE MCSriov ------------------------------
(* Model of Sriov for TLC: a gigabyte of 4 megabytes and an int of 3 bits. *)
EXTENDS Sriov

(* 1, 2 and 2 pages, one size that is no multiple of a page, and the sizes *)
(* SetupHugePages refuses: zero, an unknown unit and two overflows.        *)
AllSizes ==
  {[num |-> 2, unit |-> "M"], [num |-> 1, unit |-> "G"],
   [num |-> 5, unit |-> "digit"], [num |-> 0, unit |-> "M"],
   [num |-> 1, unit |-> "other"], [num |-> 2, unit |-> "G"],
   [num |-> 8, unit |-> "M"]}

SomeInts == {-1, 0, 1, 3}
=============================================================================
