-------------------------------- MODULE MCScan --------------------------------
(* Instances of Scan: two packs, of which a plugin; three scanners.        *)
EXTENDS Scan

Report(rule, n, text, category, severity, confidence, advisory) ==
  [rule |-> <<"VG", rule>>, place |-> "app.py", text |-> text, n |-> n,
   quotes |-> {<<"app.py", text>>}, category |-> category, severity |-> severity,
   confidence |-> confidence, advisory |-> advisory]

Class(id, technologies, topics, category, reports) ==
  [id |-> id, rule |-> TRUE, builds |-> TRUE, gateRaises |-> FALSE, minScale |-> 0,
   technologies |-> technologies, requiresAI |-> FALSE, topics |-> topics,
   category |-> category, reports |-> reports]

(* S1 finds the line "eval" twice, or nothing; S2 needs Docker and advises. *)
S1 == Class("S1", {}, {"A"}, "SECURITY",
            {{}, {Report("S1", 1, "eval", "SECURITY", "HIGH", "HIGH", FALSE),
                  Report("S1", 2, "eval", "SECURITY", "HIGH", "HIGH", FALSE)}})
S2 == [Class("S2", {"docker"}, {"A", "B"}, "RELIABILITY",
             {{Report("S2", 1, "run", "RELIABILITY", "LOW", "MEDIUM", TRUE)}})
       EXCEPT !.minScale = 1]
(* A plugin brings an S1 of its own, a rule that asks a model, a class     *)
(* that is no rule, one that cannot be built, one whose gate raises.       *)
Mine == Class("S1", {}, {}, "COST", {{}})
Asks == [Class("P1", {}, {"C"}, "SECURITY",
               {{Report("P1", 1, "plan", "SECURITY", "MEDIUM", "LOW", FALSE)}})
         EXCEPT !.requiresAI = TRUE]
NoRule == [Class("P2", {}, {"C"}, "COST", {{}}) EXCEPT !.rule = FALSE]
Unbuilt == [Class("P3", {}, {"D"}, "COST", {{}}) EXCEPT !.builds = FALSE]
BadGate == [Class("P4", {}, {"C"}, "COST", {{}}) EXCEPT !.gateRaises = TRUE]

MCPacks == <<[builtin |-> TRUE, rules |-> <<S1, S2>>],
             [builtin |-> FALSE, rules |-> <<Mine, Asks, NoRule, Unbuilt, BadGate>>]>>
MCRuleOrder == <<"P1", "P2", "P3", "P4", "S1", "S2">>

MCContexts ==
  {[files |-> {"requirements.txt", "package.json", "package-lock.json"}, languages |-> {"python"}, tech |-> {"pip"}, scale |-> 0],
   [files |-> {"Dockerfile"}, languages |-> {"python"}, tech |-> {"docker"}, scale |-> 1]}

Item(native, file, text, kind, n, level) ==
  [native |-> native, file |-> file, text |-> text, kind |-> kind, n |-> n,
   level |-> level, sure |-> "HIGH", fixable |-> n = 1]

Printed(shape, items) == [shape |-> shape, banner |-> FALSE, items |-> items]

(* bandit agrees with S1 on one line; hadolint reports a defect twice, or  *)
(* once after a banner; pip-audit one advisory for two packages.  trivy    *)
(* brings one item of each of its lists, npm-audit both of its formats.    *)
MCAnswers == [a \in AdapterNames |->
  CASE a = "bandit" ->
         {Printed("dict", {Item("B1", "app.py", "eval", "", 1, "HIGH"),
                           Item("B1", "app.py", "exec", "", 2, "UNDEFINED")}),
          Printed("list", {Item("B1", "app.py", "eval", "", 1, "HIGH")})}
    [] a = "hadolint" ->
         {Printed("list", {Item("DL1", "Dockerfile", "FROM a", "", 1, "info"),
                           Item("DL1", "Dockerfile", "FROM b", "", 2, "style")}),
          [Printed("list", {Item("DL1", "Dockerfile", "FROM a", "", 1, "info")})
             EXCEPT !.banner = TRUE]}
    [] a = "pip-audit" ->
         {Printed("dict", {Item("V1", "", "", "", 1, ""), Item("V1", "", "", "", 2, "")})}
    [] a = "trivy" ->
         {Printed("dict", {Item("V2", "poetry.lock", "", "vulnerability", 1, "CRITICAL"),
                           Item("key", "app.py", "eval", "secret", 2, ""),
                           Item("M1", "Dockerfile", "", "misconfiguration", 3, "UNKNOWN")})}
    [] a = "npm-audit" ->
         {Printed("dict", {Item("N1", "", "", "vulnerabilities", 1, "critical"),
                           Item("N2", "", "", "advisories", 2, "moderate")})}
    [] a = "checkov" ->
         {Printed("list", {Item("C1", "Dockerfile", "", "", 1, "none")})}
    [] a = "semgrep" ->
         {Printed("dict", {Item("G1", "app.py", "exec", "sql", 1, "ERROR")})}
    [] a = "detect-secrets" ->
         {Printed("dict", {Item("Private Key", "app.py", "hash", "", 1, "")})}]

MCTopicsOf == [a \in AdapterNames |->
  CASE a = "bandit" -> {"A"} [] a = "hadolint" -> {"D"} [] a = "pip-audit" -> {"B"}
    [] a \in {"trivy", "checkov", "semgrep"} -> {"D"} [] OTHER -> {}]

MCWaivers == {{}, {<<"VG", "S1">>, <<"hadolint", "DL1">>}}
MCKnown == {{<<"VG", "S1">>, <<"VG", "S2">>}}
MCSubscribers == <<"bad", "job">>
===============================================================================
