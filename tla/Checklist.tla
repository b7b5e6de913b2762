------------------------------- MODULE Checklist -------------------------------
(***************************************************************************)
(* The master checklist: one status for every topic, from the detectors    *)
(* that declare it and the findings attributed to them.  A detector is     *)
(*   [key, topics, applicable, external];                                  *)
(* the key of an adapter is its name, that of a rule the id of its         *)
(* findings.                                                               *)
(***************************************************************************)
EXTENDS FiniteSets

(* _attribute: a finding belongs to the rule that made it, else to the     *)
(* adapter whose name its id begins with.                                  *)
Owners(f, detectors) ==
  LET rules == {d \in detectors : ~d.external /\ d.key = f.rule}
  IN IF rules # {} THEN rules ELSE {d \in detectors : d.external /\ d.key = f.rule[1]}

Attributed(t, findings, detectors) ==
  {f \in findings : \E d \in Owners(f, detectors) : t \in d.topics}

IsFixed(f, fixed) == f \in fixed
IsOpen(f, suppressed, fixed) == f \notin suppressed /\ ~IsFixed(f, fixed)

(* Mutant of Status: one gated detector is enough for NOT_APPLICABLE.      *)
StatusOneGated(t, findings, suppressed, fixed, detectors) ==
  LET mapped == {d \in detectors : t \in d.topics}
      attributed == Attributed(t, findings, detectors)
      open == {f \in attributed : IsOpen(f, suppressed, {})}
  IN IF mapped = {} THEN "REVIEW_REQUIRED"
     ELSE IF \E d \in mapped : ~d.applicable THEN "NOT_APPLICABLE"
     ELSE IF open # {} THEN "FAIL"
     ELSE "PASS"

(* derive_checklist, one topic.                                            *)
Status(t, findings, suppressed, fixed, detectors) ==
  LET mapped == {d \in detectors : t \in d.topics}
      attributed == Attributed(t, findings, detectors)
      open == {f \in attributed : IsOpen(f, suppressed, fixed)}
  IN IF mapped = {} THEN "REVIEW_REQUIRED"
     ELSE IF attributed = {} /\ ~\E d \in mapped : d.applicable THEN "NOT_APPLICABLE"
     ELSE IF open # {} THEN IF \A f \in open : f.advisory THEN "REVIEW_REQUIRED" ELSE "FAIL"
     ELSE IF attributed \cap fixed # {} THEN "FIXED"
     ELSE "PASS"
===============================================================================
