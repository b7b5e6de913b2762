----------------------------- MODULE ReproTests -----------------------------
(***************************************************************************)
(* The tests generated for findings of seven rules.  Such a test reads the *)
(* file again, by itself and without the rules, and fails while it finds   *)
(* the defect; to ignore the other defects of the file it compares what it *)
(* finds with the text that was reported.                                  *)
(***************************************************************************)
EXTENDS SourceRules, DockerRules

TEMPLATES == [rule \in {"API-001", "SEC-001", "SEC-011"} |-> {"py"}]
  @@ [rule \in {"SEC-018"} |-> {"py", "js", "docker"}]
  @@ [rule \in {"SEC-002"} |-> {"js"}]
  @@ [rule \in {"CTR-001", "CTR-002"} |-> {"docker"}]

supported(x) == x.rule \in DOMAIN TEMPLATES /\ x.file \in Files /\ KindOf[x.file] \in TEMPLATES[x.rule]

\* One text is part of another when its marks are among the other's.
Bare(marks) == marks \ {"indented", "=", "block"}

\* Mutant: any defect of the kind is taken for the reported one.
TheReportedKind(marks, x) == marks # {}

is_the_reported_one(marks, x) ==
  LET seen == Bare(marks)
      SNIPPET == Bare(x.reads[3])
  IN  seen # {} /\ (seen \subseteq SNIPPET \/ SNIPPET \subseteq seen)

\* The requests, httpx and urlopen calls: a client's are not looked for.
HttpCallsLeft(x, text) ==
  \E i \in With(text, "http") \ With(text, "timeout") : is_the_reported_one(text[i].has, x)

TlsLeft(x, text) ==
  \E i \in With(text, "verify off") \cup With(text, "unverified") :
    is_the_reported_one(text[i].has, x)

\* The call alone is compared, not the statement that makes it sensitive.
RandomLeft(x, text) ==
  \E i \in With(text, "random") \cup With(text, "bare random") :
    is_the_reported_one(text[i].has \ {"sensitive"}, x)

\* The argument alone is compared.
SqlLeftPython(x, text) ==
  \E i \in With(text, "interpolated") :
    Query(text[i]) /\ is_the_reported_one(text[i].has \ {"execute", "raw", "args"}, x)

SqlLeftJavaScript(x, text) ==
  \E i \in With(text, "interpolated") \cap With(text, "sql") :
    Query(text[i]) /\ is_the_reported_one(text[i].has, x)

\* Wherever in the file the instructions stand.
RootLeft(text) == \A i \in DOMAIN text : text[i].op = "USER" => "root" \in text[i].has
HealthcheckLeft(text) == \A i \in DOMAIN text : text[i].op = "HEALTHCHECK" => "none" \in text[i].has

\* The test generated for x fails on the text.
Reproduces(x, text) ==
  /\ supported(x)
  /\ CASE x.rule = "API-001" -> HttpCallsLeft(x, text)
       [] x.rule = "SEC-018" -> TlsLeft(x, text)
       [] x.rule = "SEC-011" -> RandomLeft(x, text)
       [] x.rule = "SEC-001" -> SqlLeftPython(x, text)
       [] x.rule = "SEC-002" -> SqlLeftJavaScript(x, text)
       [] x.rule = "CTR-001" -> RootLeft(text)
       [] x.rule = "CTR-002" -> HealthcheckLeft(text)
=============================================================================
