------------------------------- MODULE MCMemory -------------------------------
(* Instances of Memory: a line that stands twice in a file, and another.   *)
EXTENDS Memory, TLC

CONSTANTS r1, r2, A, B, ra, rb

MCFp == [s \in Sites |-> IF s < 3 THEN A ELSE B]
MCRule == [s \in Sites |-> IF s < 3 THEN ra ELSE rb]

(* A waiver of one finding that lapses, and one of a rule that does not.   *)
MCEntries == {[fp |-> A, rule |-> ra, expires |-> 1], [fp |-> None, rule |-> rb, expires |-> None]}

(* What the repository begins with, and what an edit may bring back.        *)
MCStarts ==
  {[tree |-> {1, 2, 3}, waived |-> {}, supps |-> MCEntries, past |-> {A, B}],
   [tree |-> {2}, waived |-> {1, 2}, supps |-> {}, past |-> None]}

RunSymmetry == Permutations(Runs)
=============================================================================
