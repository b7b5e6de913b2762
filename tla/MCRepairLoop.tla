---------------------------- MODULE MCRepairLoop ----------------------------
(* Instances of RepairLoop: two files, two safe fixes that share a file,   *)
(* one of them over both files, one review fix and refused findings; f3    *)
(* is in a file of its own.                                                *)
EXTENDS RepairLoop

CONSTANTS f1, f2, f3, review, manual, schema, adapter, ignored, advice, a, b, c

MCTouches == [f \in Findings |->
  CASE f = f2 -> {a, b}
    [] f = f3 -> {c}
    [] f = review -> {b}
    [] OTHER -> {a}]

MCClass == [f \in Findings |->
  CASE f = review -> "review"
    [] f = manual -> "manual"
    [] f = advice -> "advisory"
    [] OTHER -> "safe"]

(* File b has Windows line ends.                                           *)
MCInitial == [p \in Files |-> IF p = b THEN {Crlf} ELSE {}]
=============================================================================
