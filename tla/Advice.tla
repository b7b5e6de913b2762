--------------------------------- MODULE Advice ---------------------------------
(***************************************************************************)
(* A developer who does what the rules of ProjectRules recommend, one      *)
(* piece of advice at a time, and scans again whenever they like.  Each    *)
(* rule ends in a recommended_followup; it and the patterns that look for  *)
(* an answer are written apart, and one follow-up may be the occasion of   *)
(* another rule.                                                           *)
(***************************************************************************)
EXTENDS ProjectRules

CONSTANTS
  Projects,      \* what may be on disk at first: functions from paths to texts or Gone
  MaxFollowed    \* bound: pieces of advice followed

VARIABLES
  project,       \* path -> text or Gone
  seen,          \* the project of the last scan
  verdict,       \* what each rule said then
  followed       \* <<rule, piece of its advice>> taken since the start

vars == <<project, seen, verdict, followed>>

-----------------------------------------------------------------------------
(* What following writes: at each path, words, dependencies, routes and    *)
(* look-ups that come to those of the text there.                          *)
Started(text) == IF text = Gone THEN Empty ELSE text
Extended(text, adds) ==
  [k \in DOMAIN text |->
     IF k \notin DOMAIN adds THEN text[k]
     ELSE CASE k \in {"words", "deps", "routes", "loose"} -> text[k] \cup adds[k]
            [] k = "lookups" -> text[k] + adds[k]
            [] OTHER -> adds[k]]
Written(p, edits) ==
  [f \in DOMAIN p |-> IF f \in DOMAIN edits THEN Extended(Started(p[f]), edits[f]) ELSE p[f]]

Python(p) == p[<<"server.js">>] = Gone
App(p) == IF Python(p) THEN <<"app.py">> ELSE <<"server.js">>
Manifest(p) == IF Python(p) THEN <<"requirements.txt">> ELSE <<"package.json">>
TestFile(p) == IF Python(p) THEN <<"tests", "test_app.py">> ELSE <<"tests", "test_app.js">>

Speaking(p, extensions) == {f \in Context(p).primary : Ext(f) \in extensions}

Notes(path, words) == path :> [words |-> words]
Code(p, words) == Notes(App(p), words)
Setting(p, words) == App(p) :> [words |-> words, lookups |-> 1]
Uses(p, token) == App(p) :> [deps |-> {token}, words |-> {}]
Installs(p, token) ==
  {Manifest(p) :> [deps |-> {token}, loose |-> loose] : loose \in {{}} \cup {{token} : x \in {y \in {p} : Python(y)}}}
Library(p, token) == {install @@ Uses(p, token) : install \in Installs(p, token)}
Infra(words) == <<"main.tf">> :> [words |-> words]
Does(rule, how, edits) == {[rule |-> rule, how |-> how, edits |-> e] : e \in edits}
InEither(p, py, js) == IF Python(p) THEN py ELSE js

(* The follow-ups, one piece for each alternative or step they name.       *)
ApiAdvice(p) ==
  UNION {
    Does("API003", "limiter", Library(p, InEither(p, "flask-limiter", "express-rate-limit"))),
    Does("API005", "prefix", {InEither(p, Code(p, {"url_prefix='/api/v1'"}),
                                         App(p) :> [words |-> {}, routes |-> {<<"use", "v1", "api">>}])}),
    Does("API005", "document", {Notes(<<"openapi.yaml">>, {"version: 1"})}),
    Does("API008", "headers", {Code(p, {"Cache-Control", "etag"})}),
    Does("API008", "redis", Library(p, "redis")),
    Does("API009", "nginx", {Notes(<<"nginx.conf">>, {"nginx"})}),
    Does("API009", "balancer", {Infra({"aws_lb"})}),
    Does("NET001", "cdn", {Infra({"cloudfront"})}),
    Does("NET001", "headers", {Code(p, {"Cache-Control"})}),
    Does("NET003", "contract", {Notes(<<"docs", "network.md">>, {"grpc"})}),
    Does("NET003", "timeouts", {Notes(<<"nginx.conf">>, {"proxy_connect_timeout"})})}

DeploymentAdvice(p) ==
  UNION {
    Does("DEP001", "pipeline", {Notes(<<".github", "workflows", "ci.yml">>, {InEither(p, "pytest", "npm test")})}),
    Does("DEP004", "switch", {Setting(p, {InEither(p, "APP_ENV", "NODE_ENV")})}),
    Does("DEP006", "document", {Notes(<<"DEPLOY.md">>, {"rollback", "# Deploy"})}),
    Does("CTR012", "chart", {<<"chart.yaml">> :> [words |-> {}]}),
    Does("CTR012", "scaler", {<<"hpa.yaml">> :> [words |-> {"HorizontalPodAutoscaler"}, k8s |-> TRUE]}),
    Does("DEPS001", "lock", InEither(p, {<<"uv.lock">> :> [kind |-> "text"]},
                                        {<<"package-lock.json">> :> [kind |-> k] : k \in {"text", "huge"}})),
    Does("DEPS004", "pin", {[f \in {<<".python-version">> : x \in Speaking(p, PY)} \cup {<<".nvmrc">> : x \in Speaking(p, JS)}
                               |-> [words |-> {}]]})}

RecoveryAdvice(p) ==
  UNION {
    Does("DR001", "managed", {Infra({"backup_retention_period"})}),
    Does("DR001", "job", {Notes(<<"scripts", "backup.sh">>, {"pg_dump"})}),
    Does("DR002", "restore", {Notes(<<"scripts", "restore.sh">>, {"pg_restore"})}),
    Does("DR004", "runbook", {Notes(<<"RUNBOOK.md">>, {"runbook", "rollback"})}),
    Does("DR005", "experiment", {Notes(TestFile(p), {"toxiproxy"})}),
    Does("DR005", "job", {Notes(<<".github", "workflows", "chaos.yml">>, {"toxiproxy"})}),
    Does("DR006", "zones", {Infra({"availability_zones"})})}

TestAdvice(p) ==
  UNION {
    Does("MAINT001", "smoke", {Notes(TestFile(p), {}) @@ i : i \in Installs(p, InEither(p, "pytest", "jest"))}),
    Does("TEST001", "client", {Notes(TestFile(p), {InEither(p, "test_client", "supertest")})}),
    Does("TEST002", "step", {Notes(<<".github", "workflows", "ci.yml">>, {InEither(p, "pytest", "npm test")})}),
    Does("TEST003", "database", {Notes(TestFile(p), {"sqlite"})}),
    Does("TEST004", "journey", {Notes(<<"e2e", "journey.ts">>, {"playwright"})}),
    Does("TEST005", "script", {Notes(<<"load", "peak.js">>, {"k6"})}),
    Does("TEST005", "writers", {Notes(TestFile(p), {"threading"})})}

OperationAdvice(p) ==
  UNION {
    Does("OBS002", "configure", {Setting(p, {InEither(p, "import logging", "pino")})}),
    Does("OBS003", "sdk", {e @@ Setting(p, {"sentry"}) : e \in Installs(p, "sentry")}),
    Does("OBS004", "probes", {App(p) :> [words |-> {"/healthz", "/readyz"},
                                         routes |-> {<<"get", "", "healthz">>, <<"get", "", "readyz">>}]}),
    Does("OBS005", "middleware", {Code(p, {"x-request-id"})}),
    Does("OBS007", "endpoint", {App(p) :> [words |-> {"/metrics"}, routes |-> {<<"get", "", "metrics">>}]}),
    Does("OBS007", "objective", {Notes(<<"docs", "slo.md">>, {"slo"})}),
    Does("REL008", "handler", {Code(p, {InEither(p, "SIGTERM", "server.close(")})}),
    Does("REL008", "worker", {Code(p, {"warm_shutdown"})}),
    Does("REL009", "metrics", {Code(p, {"queue_depth"})}),
    Does("REL009", "dashboard", Installs(p, InEither(p, "flower", "bull-board"))),
    Does("REL011", "workflow", {Notes(<<"docs", "network.md">>, {"saga", "leader election"})}),
    Does("SCR009", "template", {Notes(<<".env.example">>, {}) @@ Notes(<<".gitignore">>, {".env"})}),
    Does("SCR009", "store", Library(p, "hvac")),
    Does("SEC006", "middleware", {Code(p, {InEither(p, "CSRFProtect", "csrf-csrf")})}),
    Does("DB006", "migrations", {InEither(p, Notes(<<"migrations", "env.py">>, {}), Notes(<<"migrations", "init.js">>, {}))}),
    Does("DB009", "locks", {Code(p, {"for update"})}),
    Does("DB009", "note", {Notes(<<"docs", "data.md">>, {"for update"})}),
    Does("DB010", "replica", {Setting(p, {"READ_DATABASE_URL"})}),
    Does("DB010", "note", {Notes(<<"docs", "data.md">>, {"READ_DATABASE_URL"})})}

Advice(p) ==
  ApiAdvice(p) \cup DeploymentAdvice(p) \cup RecoveryAdvice(p) \cup TestAdvice(p) \cup OperationAdvice(p)

-----------------------------------------------------------------------------
Due(r) == verdict[r].due
Answered(r) == verdict[r].answered
Report == {r \in DOMAIN verdict : Due(r) /\ ~Answered(r)}

Init ==
  /\ project \in Projects /\ seen = project
  /\ verdict = Rules(Context(project)) /\ followed = {}

Follow ==
  \E advice \in {a \in Advice(project) : a.rule \in Report} :
    /\ Cardinality(followed) < MaxFollowed /\ <<advice.rule, advice.how>> \notin followed
    /\ project' = Written(project, advice.edits)
    /\ followed' = followed \cup {<<advice.rule, advice.how>>}
    /\ UNCHANGED <<seen, verdict>>

Scan ==
  /\ project # seen
  /\ seen' = project /\ verdict' = Rules(Context(project))
  /\ UNCHANGED <<project, followed>>

Next == Follow \/ Scan
Spec == Init /\ [][Next]_vars

-----------------------------------------------------------------------------
(* Advice its rule does not hear: in Python it looks for the prefix "/v1"  *)
(* and not "/api/v1" (versioning.py:31), and anywhere it does not look for *)
(* warm_shutdown (jobs.py:203), for a dashboard not in requirements.txt    *)
(* (jobs.py:318), for a k6 script but among the tests (nonfunctional.py:   *)
(* 173), for an experiment among the tests (_signals.py:51), for locks and *)
(* replicas in a .md (scaleout.py:29).                                     *)
Unheard ==
  {<<"REL008", "worker">>, <<"REL009", "dashboard">>, <<"TEST005", "script">>,
   <<"DR005", "experiment">>, <<"DB009", "note">>, <<"DB010", "note">>}
    \cup {<<"API005", "prefix">> : x \in {p \in {project} : Python(p)}}
(* No lock file above 2 MB is in the walk (files.py:58).                   *)
Oversized == \E f \in DOMAIN project : project[f] # Gone /\ project[f].kind = "huge"

(* Without the limits on its searches, the rule would be answered.         *)
BeyondLimit(r) == Rules(Unlimited(Context(project)))[r].answered

(* Whoever does what a rule recommends does not read the same              *)
(* recommendation again: the patterns of every rule recognise its own      *)
(* recommended_followup, wherever one would write it and whatever else was *)
(* followed since, unless what was written lies beyond a limit.            *)
AdviceIsHeard ==
  seen = project =>
    \A f \in followed :
      f[1] \in Report =>
        \/ f \in Unheard
        \/ f[1] = "DEPS001" /\ Oversized
        \/ BeyondLimit(f[1])

(* What a scan found answered stays answered when advice is followed: no   *)
(* rule's advice takes away what another rule went by.  There are three    *)
(* ways it does.  A .env put into .gitignore leaves the walk with what it  *)
(* alone said; where only fixtures were there to be profiled, the first    *)
(* file of one's own takes the profile from them; and new files may push   *)
(* the answer beyond the limit of a listing.                               *)
SaidInDotenv(r) == ~Rules(Context([seen EXCEPT ![<<".env">>] = Gone]))[r].answered
OnlyFixtures == \A f \in Context(seen).files : IsFixturePath(f)
NothingUnanswered ==
  [][\A r \in DOMAIN verdict :
       Due(r) /\ Answered(r) /\ verdict'[r].due =>
         \/ verdict'[r].answered
         \/ HidesDotenv(project) # {} /\ SaidInDotenv(r)
         \/ OnlyFixtures
         \/ BeyondLimit(r)]_vars
===============================================================================
