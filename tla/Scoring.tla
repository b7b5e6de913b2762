-------------------------------- MODULE Scoring --------------------------------
(***************************************************************************)
(* Scores of a set of findings, in exact arithmetic: a finding takes       *)
(* weight * factor thousandths of what is left of its category's score.    *)
(***************************************************************************)
EXTENDS Integers, FiniteSets

SEVERITY_WEIGHTS == [CRITICAL |-> 40, HIGH |-> 25, MEDIUM |-> 10, LOW |-> 4, INFO |-> 1]
CONFIDENCE_FACTORS == [HIGH |-> 10, MEDIUM |-> 7, LOW |-> 4]
DOUBLE_WEIGHTED == {"SECURITY", "SECRETS"}

Remains(f) == 1000 - SEVERITY_WEIGHTS[f.severity] * CONFIDENCE_FACTORS[f.confidence]

(* Python's round: to the nearest, a tie to the even neighbour.            *)
Round(a, b) ==
  LET q == a \div b  r == 2 * (a % b)
  IN IF r > b \/ (r = b /\ q % 2 = 1) THEN q + 1 ELSE q

(* Product and sum of the values of a function; the order is immaterial.   *)
ProductOf(value) ==
  LET over[S \in SUBSET DOMAIN value] ==
        IF S = {} THEN 1
        ELSE LET x == CHOOSE x \in S : TRUE IN value[x] * over[S \ {x}]
  IN over[DOMAIN value]
SumOf(value) ==
  LET over[S \in SUBSET DOMAIN value] ==
        IF S = {} THEN 0
        ELSE LET x == CHOOSE x \in S : TRUE IN value[x] + over[S \ {x}]
  IN over[DOMAIN value]

(* At most three findings a category: 1000^3 is within TLC's integers.     *)
ScoreFor(open) ==
  LET one == CHOOSE f \in open : TRUE
  IN IF open = {} THEN 100
     ELSE Round(ProductOf([f \in open |-> Remains(f)]),
                10 * ProductOf([f \in open \ {one} |-> 1000]))

CategoryScores(findings, suppressed, applicable) ==
  [c \in applicable |-> ScoreFor({f \in findings \ suppressed : f.category = c})]

(* The other categories count 100 and nothing.                             *)
OverallScore(scores) ==
  LET weight == [c \in DOMAIN scores |-> IF c \in DOUBLE_WEIGHTED THEN 2 ELSE 1]
  IN IF DOMAIN scores = {} THEN 100
     ELSE Round(SumOf([c \in DOMAIN scores |-> scores[c] * weight[c]]), SumOf(weight))
===============================================================================
