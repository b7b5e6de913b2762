-------------------------------- MODULE MCAdvice --------------------------------
(* Instances of Advice: five projects, of every scale, in Python and in    *)
(* Node.                                                                   *)
EXTENDS Advice

By(ext, names) == [name \in names |-> ext]
MCExtOf ==
  By("", {"Dockerfile", "Procfile", ".env", ".gitignore", ".python-version", ".nvmrc"})
  @@ By(".py", {"app.py", "jobs.py", "env.py", "test_app.py"}) @@ By(".js", {"server.js", "init.js", "test_app.js", "peak.js", "site.js"})
  @@ By(".ts", {"journey.ts"}) @@ By(".tf", {"main.tf"}) @@ By(".sh", {"backup.sh", "restore.sh"})
  @@ By(".yml", {"ci.yml", "chaos.yml"}) @@ By(".yaml", {"compose.yaml", "hpa.yaml", "k8s.yaml", "chart.yaml", "openapi.yaml"})
  @@ By(".txt", {"requirements.txt"}) @@ By(".json", {"package.json", "package-lock.json"})
  @@ By(".md", {"DEPLOY.md", "RUNBOOK.md", "data.md", "network.md", "slo.md"})
  @@ By(".conf", {"nginx.conf"}) @@ By(".lock", {"uv.lock"}) @@ By(".example", {".env.example"})

MCFiles ==
  << <<".env">>, <<".env.example">>, <<".github", "workflows", "chaos.yml">>, <<".github", "workflows", "ci.yml">>,
     <<".gitignore">>, <<".nvmrc">>, <<".python-version">>, <<"DEPLOY.md">>, <<"Dockerfile">>, <<"RUNBOOK.md">>,
     <<"app.py">>, <<"chart.yaml">>, <<"compose.yaml">>, <<"docs", "data.md">>,
     <<"docs", "network.md">>, <<"docs", "slo.md">>, <<"e2e", "journey.ts">>, <<"examples", "app.py">>, <<"hpa.yaml">>, <<"jobs.py">>,
     <<"k8s.yaml">>, <<"load", "peak.js">>, <<"main.tf">>, <<"migrations", "env.py">>, <<"migrations", "init.js">>, <<"nginx.conf">>,
     <<"openapi.yaml">>, <<"package-lock.json">>, <<"package.json">>, <<"public", "site.js">>, <<"requirements.txt">>,
     <<"scripts", "backup.sh">>, <<"scripts", "restore.sh">>, <<"server.js">>, <<"tests", "test_app.js">>,
     <<"tests", "test_app.py">>, <<"uv.lock">>,
     <<"web", "Dockerfile">>, <<"web", "k8s.yaml">>, <<"web", "package.json">> >>

Named(name) ==
  CASE name = "nginx.conf" -> {"nginx"}
    [] name = "Procfile" -> {"procfile"}
    [] name \in {".env", ".env.example", ".gitignore", ".python-version", ".nvmrc"} -> {"dotfile"}
    [] name = "Dockerfile" -> {"docker"}
    [] name \in {"test_app.py", "test_app.js"} -> {"test_"}
    [] name = "openapi.yaml" -> {"openapi"}
    [] name = "backup.sh" -> {"backup"}
    [] name = "restore.sh" -> {"restore"}
    [] name = "RUNBOOK.md" -> {"runbook"}
    [] name = "slo.md" -> {"slo"}
    [] name = "requirements.txt" -> {"requirements"}
    [] name = "e2e" -> {"e2e/"}
    [] name = "chaos.yml" -> {"chaos"}
    [] OTHER -> {}
MCNameWords == [name \in UNION {ToSet(f) : f \in ToSet(MCFiles)} |-> Named(name)]

Source(deps) == [Empty EXCEPT !.deps = deps, !.loc = 100, !.routes = {<<"get", "", "list">>}]
Declared(deps) == [Empty EXCEPT !.deps = deps]
Tree(texts) == [f \in ToSet(MCFiles) |-> IF f \in DOMAIN texts THEN texts[f] ELSE Gone]

Toy == Tree(<<"app.py">> :> Source({"flask"}) @@ <<"requirements.txt">> :> Declared({"flask"}))
Small ==
  Tree(<<"server.js">> :> [Source({"express", "pg", "express-session"}) EXCEPT !.words = {"app.post(", "CREATE TABLE"}]
       @@ <<"package.json">> :> Declared({"express", "pg", "express-session"})
       @@ <<"Dockerfile">> :> Empty @@ <<"web", "Dockerfile">> :> [Empty EXCEPT !.words = {"FROM node:20.1"}]
       @@ <<"main.tf">> :> [Empty EXCEPT !.length = 300] @@ <<"tests", "test_app.js">> :> Empty
       @@ <<".github", "workflows", "ci.yml">> :> [Empty EXCEPT !.words = {"deploy"}])
Medium ==
  Tree(<<"app.py">> :> [Source({"fastapi", "celery", "pika", "sqlalchemy"}) EXCEPT
                           !.words = {"uvicorn.run(", "Column(", "StaticFiles("}]
       @@ <<"requirements.txt">> :> [Declared({"fastapi", "celery", "slowapi"}) EXCEPT !.loose = {"celery"}]
       @@ <<"public", "site.js">> :> Empty @@ <<"jobs.py">> :> [Empty EXCEPT !.words = {"correlation_id"}, !.length = 500]
       @@ <<".env">> :> [Empty EXCEPT !.words = {"sentry"}]
       @@ <<"compose.yaml">> :> [Empty EXCEPT !.services = 3, !.strings = {<<"databases", "postgres">>}])
Large ==
  Tree(<<"server.js">> :> [Source({"express", "mongoose", "react", "ioredis"}) EXCEPT
                              !.words = {"app.listen(", "secretsmanager"}, !.lookups = 3]
       @@ <<"docs", "data.md">> :> Empty @@ <<"docs", "network.md">> :> Empty
       @@ <<"web", "package.json">> :> [Empty EXCEPT !.words = {"engines"}]
       @@ <<"web", "k8s.yaml">> :> [Empty EXCEPT !.k8s = TRUE, !.workloads = 1, !.words = {"blue-green"}]
       @@ <<"package.json">> :> Declared({"express", "mongoose", "react", "jest"}) @@ <<"public", "site.js">> :> Empty
       @@ <<"k8s.yaml">> :> [Empty EXCEPT !.k8s = TRUE, !.workloads = 5, !.words = {"kind: Deployment"}])
Samples == Tree(<<"examples", "app.py">> :> Source({"flask", "pytest"}))

(* Limits about as large as the projects are at first, so that the advice  *)
(* followed goes beyond them.                                              *)
MCLimit ==
  [posture |-> 7, texts |-> 4, probes |-> 4, sources |-> 6, observed |-> 6, secrets |-> 4, environments |-> 2,
   sessions |-> 2, tests |-> 1, manifests |-> 1, containers |-> 1, pipelines |-> 1, tested_pipelines |-> 1,
   handlers |-> 3, documents |-> 6, strategies |-> 6, marked |-> 200, read |-> 400]
MCProjects == {Toy, Small, Medium, Large, Samples}
===============================================================================
