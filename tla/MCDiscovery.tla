----------------------------- MODULE MCDiscovery -----------------------------
(* Instances of Discovery: a service of one module with a manifest, a      *)
(* compose file and a workflow, its tests, and what the walk passes over.  *)
EXTENDS Discovery, TLC

MCExtOf ==
  [name \in {"Dockerfile"} |-> ""]
  @@ [name \in {"a.py", "b.py", "t.py"} |-> ".py"]
  @@ [name \in {"compose.yaml", "k8s.yaml"} |-> ".yaml"] @@ [name \in {"ci.yml"} |-> ".yml"]
  @@ [name \in {"requirements.txt"} |-> ".txt"] @@ [name \in {"pyproject.toml"} |-> ".toml"]
  @@ [name \in {"lib.js"} |-> ".js"]

MCFiles ==
  << <<".github", "workflows", "ci.yml">>, <<"Dockerfile">>, <<"a.py">>, <<"b.py">>,
     <<"compose.yaml">>, <<"gen", "b.py">>, <<"k8s.yaml">>, <<"node_modules", "lib.js">>,
     <<"pyproject.toml">>, <<"requirements.txt">>, <<"tests", "t.py">> >>

Imports(tokens) == [Empty EXCEPT !.deps = tokens, !.loc = 10]
App == [Imports({"flask", "boto3"}) EXCEPT !.hosts = <<"api.acme.io", "localhost">>, !.loc = 1000]
Pay == [Imports({"pyjwt"}) EXCEPT !.keyword = TRUE, !.hosts = <<"pay.acme.io">>, !.loc = 9000]
Compose == [Empty EXCEPT !.services = 3, !.strings = {<<"databases", "postgres">>},
                         !.hosts = <<"db", "api.acme.io">>]
K8s == [Empty EXCEPT !.k8s = TRUE, !.workloads = 2]
BadYaml == [Compose EXCEPT !.yaml = FALSE]
Poetry == [Empty EXCEPT !.tools = {"poetry"}, !.deps = {"celery"}]
Requirements == [Empty EXCEPT !.deps = {"redis", "sqlalchemy", "boto3"}]
Test == [Imports({"pika", "pytest"}) EXCEPT !.hosts = <<"test.acme.io">>, !.loc = 50000]
Blob == [Empty EXCEPT !.kind = "binary"]

Tree(texts) == [f \in ToSet(MCFiles) |-> IF f \in DOMAIN texts THEN texts[f] ELSE Gone]
MCTrees ==
  {Tree(<<"a.py">> :> App @@ <<"b.py">> :> Pay @@ <<"compose.yaml">> :> Compose
        @@ <<"requirements.txt">> :> Requirements @@ <<"tests", "t.py">> :> Test),
   Tree(<<"Dockerfile">> :> Empty @@ <<"a.py">> :> Pay @@ <<"gen", "b.py">> :> App
        @@ <<"k8s.yaml">> :> K8s @@ <<"node_modules", "lib.js">> :> App
        @@ <<"pyproject.toml">> :> Poetry @@ <<"tests", "t.py">> :> Test),
   Tree(<<".github", "workflows", "ci.yml">> :> Empty @@ <<"a.py">> :> Blob
        @@ <<"b.py">> :> App @@ <<"compose.yaml">> :> BadYaml
        @@ <<"pyproject.toml">> :> Requirements),
   Tree(<<"tests", "t.py">> :> Test)}

MCRewrites == {App, Compose, Blob}
MCExcludes == {[names |-> <<"gen">>, rooted |-> FALSE, tree |-> TRUE]}
===============================================================================
