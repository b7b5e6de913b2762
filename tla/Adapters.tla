------------------------------- MODULE Adapters -------------------------------
(***************************************************************************)
(* The external scanners: which of them a scan runs, and the findings made *)
(* of what they print.  What a tool prints is an answer [shape, banner,    *)
(* items]: a JSON dictionary or list, whether words of its own precede it, *)
(* and a set of items                                                      *)
(*   [native, file, text, kind, n, level, sure, fixable]                   *)
(* - its name for the defect, where, the line it quotes, the list the item *)
(* is in, its position, its severity and confidence in the tool's words,   *)
(* and whether a fixed version is known.                                   *)
(***************************************************************************)
EXTENDS Naturals, Sequences, FiniteSets

NoAnswer == [shape |-> "none", banner |-> FALSE, items |-> {}]

ADAPTERS == <<"bandit", "detect-secrets", "pip-audit", "npm-audit",
              "hadolint", "trivy", "checkov", "semgrep">>
AdapterNames == {ADAPTERS[i] : i \in DOMAIN ADAPTERS}

RequirementFiles == {"requirements.txt", "requirements/base.txt", "requirements-prod.txt"}
PythonProjects == RequirementFiles \cup {"pyproject.toml", "poetry.lock", "uv.lock"}
Dockerfiles(files) == files \cap {"Dockerfile", "Dockerfile.prod", "api.dockerfile"}
Infrastructure ==
  {"terraform", "cloudformation", "helm", "k8s", "docker", "compose", "ansible", "pulumi"}

(* ctx: the files, languages and technologies of the repository.           *)
Applicable(a, ctx) ==
  \/ a \in {"detect-secrets", "trivy", "semgrep"}
  \/ a = "bandit" /\ "python" \in ctx.languages
  \/ a = "pip-audit" /\ "python" \in ctx.languages /\ ctx.files \cap PythonProjects # {}
  \/ a = "npm-audit" /\ {"package.json", "package-lock.json"} \subseteq ctx.files
  \/ a = "hadolint" /\ Dockerfiles(ctx.files) # {}
  \/ a = "checkov" /\ ctx.tech \cap Infrastructure # {}

RequiresNetwork == {"pip-audit", "npm-audit", "trivy", "semgrep"}

Skipped(a, localOnly) == localOnly /\ a \in RequiresNetwork

-----------------------------------------------------------------------------
(* parse_json: after a banner the outermost braces are tried before the    *)
(* brackets, so that a list of one dictionary is read as that dictionary.  *)
Parsed(answer) ==
  IF answer.banner /\ answer.shape = "list" /\ Cardinality(answer.items) = 1
  THEN "item" ELSE answer.shape

(* make_finding: the rule id is VG-EXT-<tool>-<native id>.                 *)
MakeFinding(tool, item, file, text, category, severity, confidence) ==
  LET place == IF file = "" THEN "." ELSE file
  IN [rule |-> <<tool, item.native>>, place |-> place, text |-> text, n |-> item.n,
      quotes |-> IF text = "" THEN {} ELSE {<<place, text>>},
      category |-> category, severity |-> severity, confidence |-> confidence,
      advisory |-> FALSE]

Lookup(table, key, default) == IF key \in DOMAIN table THEN table[key] ELSE default

BANDIT_SEVERITY == [HIGH |-> "HIGH", MEDIUM |-> "MEDIUM", LOW |-> "LOW", UNDEFINED |-> "INFO"]
BANDIT_CONFIDENCE == [HIGH |-> "HIGH", MEDIUM |-> "MEDIUM", LOW |-> "LOW", UNDEFINED |-> "LOW"]
Bandit(item) ==
  MakeFinding("bandit", item, item.file, item.text, "SECURITY",
              Lookup(BANDIT_SEVERITY, item.level, "MEDIUM"),
              Lookup(BANDIT_CONFIDENCE, item.sure, "MEDIUM"))

(* The kind of secret is the native id; the text a hash of the secret.     *)
HIGH_SIGNAL == {"AWS Access Key", "Private Key", "GitHub Token"}
DetectSecrets(item) ==
  LET high == item.native \in HIGH_SIGNAL
  IN MakeFinding("detect-secrets", item, item.file, item.text, "SECRETS",
                 IF high THEN "CRITICAL" ELSE "HIGH", IF high THEN "HIGH" ELSE "MEDIUM")

(* The audits of dependencies name no file and quote no line.              *)
PipAudit(item) ==
  MakeFinding("pip-audit", item, "", "", "DEPENDENCIES",
              IF item.fixable THEN "HIGH" ELSE "MEDIUM", "HIGH")

NPM_SEVERITY == [critical |-> "CRITICAL", high |-> "HIGH", moderate |-> "MEDIUM",
                 low |-> "LOW", info |-> "INFO"]
NpmFinding(item) ==
  MakeFinding("npm-audit", item, "", "", "DEPENDENCIES",
              Lookup(NPM_SEVERITY, item.level, "MEDIUM"), "HIGH")
(* npm 7 lists vulnerabilities, npm 6 advisories: the second list is read  *)
(* only when the first gives nothing.                                      *)
NpmItems(items) ==
  LET new == {i \in items : i.kind = "vulnerabilities"}
  IN IF new # {} THEN new ELSE items

HADOLINT_SEVERITY == [error |-> "HIGH", warning |-> "MEDIUM", info |-> "LOW", style |-> "INFO"]
Hadolint(item) ==
  MakeFinding("hadolint", item, item.file, "", "CONTAINERS",
              Lookup(HADOLINT_SEVERITY, item.level, "LOW"), "HIGH")

TRIVY_SEVERITY == [CRITICAL |-> "CRITICAL", HIGH |-> "HIGH", MEDIUM |-> "MEDIUM",
                   LOW |-> "LOW", UNKNOWN |-> "INFO"]
TrivyVuln(item) ==
  MakeFinding("trivy", item, item.file, "", "DEPENDENCIES",
              Lookup(TRIVY_SEVERITY, item.level, "MEDIUM"), "HIGH")
TrivySecret(item) ==
  MakeFinding("trivy", item, item.file, item.text, "SECRETS",
              Lookup(TRIVY_SEVERITY, item.level, "HIGH"), "HIGH")
TrivyMisconfig(item) ==
  MakeFinding("trivy", item, item.file, "", "DEPLOYMENT",
              Lookup(TRIVY_SEVERITY, item.level, "MEDIUM"), "HIGH")

CHECKOV_SEVERITY == [CRITICAL |-> "CRITICAL", HIGH |-> "HIGH", MEDIUM |-> "MEDIUM", LOW |-> "LOW"]
Checkov(item) ==
  MakeFinding("checkov", item, item.file, "", "DEPLOYMENT",
              Lookup(CHECKOV_SEVERITY, item.level, "MEDIUM"), "HIGH")

SEMGREP_SEVERITY == [ERROR |-> "HIGH", WARNING |-> "MEDIUM", INFO |-> "LOW"]
(* The kind is the first hint that occurs in the id of the check.          *)
CATEGORY_HINTS == [secret |-> "SECRETS", sql |-> "SECURITY", performance |-> "PERFORMANCE",
                   correctness |-> "RELIABILITY"]
Semgrep(item) ==
  MakeFinding("semgrep", item, item.file, item.text,
              Lookup(CATEGORY_HINTS, item.kind, "SECURITY"),
              Lookup(SEMGREP_SEVERITY, item.level, "MEDIUM"), "MEDIUM")

(* run: an answer of the wrong shape, or none, is an empty list.           *)
Accepted(a) ==
  CASE a = "hadolint" -> {"list"}
    [] a = "checkov" -> {"dict", "list"}
    [] a = "pip-audit" -> {"dict", "list"}
    [] OTHER -> {"dict"}

ToFinding(a, item) ==
  CASE a = "bandit" -> Bandit(item)
    [] a = "detect-secrets" -> DetectSecrets(item)
    [] a = "pip-audit" -> PipAudit(item)
    [] a = "npm-audit" -> NpmFinding(item)
    [] a = "hadolint" -> Hadolint(item)
    [] a = "checkov" -> Checkov(item)
    [] a = "semgrep" -> Semgrep(item)
    [] a = "trivy" /\ item.kind = "vulnerability" -> TrivyVuln(item)
    [] a = "trivy" /\ item.kind = "secret" -> TrivySecret(item)
    [] a = "trivy" /\ item.kind = "misconfiguration" -> TrivyMisconfig(item)

Findings(a, answer) ==
  IF Parsed(answer) \in Accepted(a)
  THEN {ToFinding(a, i) : i \in IF a = "npm-audit" THEN NpmItems(answer.items) ELSE answer.items}
  ELSE {}
===============================================================================
