-------------------------------- MODULE Profile --------------------------------
(***************************************************************************)
(* What discovery derives from a tree: the files of the walk, the primary  *)
(* ones, the technology profile, the scale and the architecture graph, as  *)
(* functions of paths and of the texts read.                               *)
(*                                                                         *)
(* A path is a sequence of names.  A text is a record of what is looked    *)
(* for in it:                                                              *)
(*   kind      "text", "binary", "huge" or "link"                          *)
(*   deps      dependency tokens, of a manifest or of its imports          *)
(*   tools     of {"poetry", "uv"}: the tables of a pyproject.toml         *)
(*   strings   <<field, value>> of the service strings in it               *)
(*   hints     <<field, value>> of realtime and environment look-ups       *)
(*   hosts     hosts of its URLs, in order                                 *)
(*   loc       non-empty lines                                             *)
(*   services  of a compose file                                           *)
(*   k8s, workloads   a Kubernetes manifest, and what it deploys           *)
(*   yaml      it parses                                                   *)
(*   keyword   it has a sensitive word                                     *)
(* and, for the rules about a whole project,                               *)
(*   words     the expressions of the rules' patterns it has               *)
(*   routes    <<method, path>> of the HTTP handlers it declares           *)
(*   lookups   environment look-ups                                        *)
(*   loose     dependencies a requirements file leaves unpinned            *)
(*   length    thousands of characters before the expressions it has       *)
(***************************************************************************)
EXTENDS Naturals, FiniteSets, FiniteSetsExt, SequencesExt

CONSTANTS
  Files,            \* every path there may be, sorted
  ExtOf,            \* name -> extension
  MaxInspected,     \* source files whose imports are read (400)
  MaxSensitive,     \* source files searched for sensitive words (400)
  MaxExternal       \* hosts in the graph (20)

ASSUME ProfileAssumption == Files \in Seq(ToSet(Files)) /\ MaxInspected \in Nat

Gone == [kind |-> "gone"]
Empty == [kind |-> "text", deps |-> {}, tools |-> {}, strings |-> {}, hints |-> {}, hosts |-> <<>>,
          loc |-> 0, services |-> 0, k8s |-> FALSE, workloads |-> 0, yaml |-> TRUE, keyword |-> FALSE,
          words |-> {}, routes |-> {}, lookups |-> 0, loose |-> {}, length |-> 0]

Name(f) == Last(f)
Ext(f) == ExtOf[Name(f)]
Tops(f) == {f[i] : i \in 1..(Len(f) - 1)}

(* The members of S in fs, in their order.                                 *)
Where(fs, S) ==
  LET kept[i \in 0..Len(fs)] ==
        IF i = 0 THEN <<>>
        ELSE IF fs[i] \in S THEN Append(kept[i - 1], fs[i]) ELSE kept[i - 1]
  IN kept[Len(fs)]

-----------------------------------------------------------------------------
(* The walk.                                                               *)
SOURCE_EXTENSIONS ==
  {".py", ".js", ".jsx", ".mjs", ".cjs", ".ts", ".tsx", ".go", ".rs", ".java", ".rb", ".sh", ".sql"}
IMPORTING == {".py", ".js", ".jsx", ".ts", ".tsx", ".mjs", ".cjs"}
YAML == {".yml", ".yaml"}
ALWAYS_SKIP_DIRS == {".git", "node_modules", "__pycache__", ".venv", "venv", ".tox"}

(* A glob is [names, rooted, tree]: the names between its slashes, without *)
(* a leading "**"; whether a slash leads it; whether "**" ends it.  Since  *)
(* "*" spans slashes, a glob of several names fits any tail of the path,   *)
(* and only a bare name fits a directory above the file.                   *)
Matches(f, glob) ==
  LET fits(tail) == IF glob.tree
                    THEN Len(tail) > Len(glob.names) /\ IsPrefix(glob.names, tail)
                    ELSE tail = glob.names
  IN \/ \E tail \in Suffixes(f) : fits(tail)
     \/ /\ Len(glob.names) = 1 /\ ~glob.tree /\ ~glob.rooted
        /\ glob.names[1] \in ToSet(f)

Candidate(text) == text.kind = "text"
CollectFiles(disk, excludes) ==
  Where(Files, {f \in ToSet(Files) :
    /\ Candidate(disk[f])
    /\ Tops(f) \cap ALWAYS_SKIP_DIRS = {}
    /\ ~\E glob \in excludes : Matches(f, glob)})

FIXTURE_PATHS ==
  {"test", "tests", "spec", "specs", "e2e", "__tests__", "__mocks__", "mocks", "testdata",
   "fixture", "fixtures", "__fixtures__", "example", "examples", "sample", "samples", "demo",
   "demos", "vendor", "vendored", "third_party", "thirdparty", "node_modules",
   "site-packages", ".venv", "venv", "bower_components", "dist", "build", "__pycache__"}
TestNames == {"conftest.py", "test_a.py", "a.test.js", "a.spec.ts"}
IsFixturePath(f) == Tops(f) \cap FIXTURE_PATHS # {} \/ Name(f) \in TestNames

(* Mutant of SplitPrimary: every file speaks for the project.              *)
SplitNothing(fs) == fs
(* A tree of nothing but fixtures is profiled as it is.                    *)
Own(fs) == Where(fs, {f \in ToSet(fs) : ~IsFixturePath(f)})
SplitPrimary(fs) == IF Own(fs) = <<>> THEN fs ELSE Own(fs)

-----------------------------------------------------------------------------
(* What each phase reads, in its order.                                    *)
MANIFEST_FILES ==
  {"requirements.txt", "requirements-dev.txt", "pyproject.toml", "setup.py", "setup.cfg",
   "Pipfile", "poetry.lock", "uv.lock", "package.json", "package-lock.json", "yarn.lock",
   "pnpm-lock.yaml", "go.mod", "go.sum", "Cargo.toml", "Cargo.lock", "pom.xml",
   "build.gradle", "Gemfile", "composer.json"}
COMPOSE_NAMES == {"docker-compose.yml", "docker-compose.yaml", "compose.yml", "compose.yaml"}
CONFIG_NAMES == {"settings.py", "config.py", "config.json", "config.yaml", "config.yml"} \cup COMPOSE_NAMES
ENV_NAMES == {".env", ".env.example", ".env.local", ".env.sample"}

OfGithub(f) == f[1] = ".github"
Workflow(f) == Len(f) > 2 /\ f[1] = ".github" /\ f[2] = "workflows" /\ Ext(f) \in YAML
WithName(fs, names) == Where(fs, {f \in ToSet(fs) : Name(f) \in names})
WithExt(fs, exts) == Where(fs, {f \in ToSet(fs) : Ext(f) \in exts})
Manifests(fs) == WithName(fs, MANIFEST_FILES)
YamlFiles(fs) == Where(fs, {f \in ToSet(fs) : Ext(f) \in YAML /\ ~OfGithub(f)})
ConfigFiles(fs) == WithName(fs, CONFIG_NAMES \cup ENV_NAMES)
Sources(fs) == WithExt(fs, SOURCE_EXTENSIONS)
UpTo(s, n) == SubSeq(s, 1, IF Len(s) < n THEN Len(s) ELSE n)

(* Mutant of Inspected: every file counts against the limit.               *)
InspectedOfAll(fs) == WithExt(UpTo(fs, MaxInspected), IMPORTING)
Inspected(fs) == UpTo(WithExt(fs, IMPORTING), MaxInspected)

TechReads(fs) == Manifests(fs) \o YamlFiles(fs) \o ConfigFiles(fs) \o Inspected(fs)
ScaleReads(fs) == Sources(fs) \o WithName(fs, COMPOSE_NAMES) \o YamlFiles(fs)
GraphReads(fs) == ConfigFiles(fs)

-----------------------------------------------------------------------------
(* Of the texts, a phase looks at those it has read.                       *)
Seen(read, fs) == Restrict(read, ToSet(fs))

(* detect_tech.  A profile is a set of <<field, value>>, but for the       *)
(* external services, which keep their order.                              *)
DEPENDENCY_SIGNALS(token) ==
  CASE token \in {"flask", "django", "fastapi", "express"} -> {<<"backend", token>>}
    [] token = "react" -> {<<"frontend", token>>}
    [] token \in {"psycopg2", "asyncpg", "pg"} -> {<<"databases", "postgres">>}
    [] token = "mongoose" -> {<<"orms", "mongoose">>, <<"databases", "mongo">>}
    [] token \in {"redis", "ioredis"} -> {<<"caches", "redis">>}
    [] token = "sqlalchemy" -> {<<"orms", token>>}
    [] token = "celery" -> {<<"workers", token>>}
    [] token \in {"pika", "kombu"} -> {<<"brokers", "rabbitmq">>}
    [] token \in {"pytest", "jest", "playwright"} -> {<<"test_frameworks", token>>}
    [] token = "hvac" -> {<<"secret_mechanisms", "vault">>}
    [] token = "boto3" -> {<<"external_services", "aws">>}
    [] token \in {"pyjwt", "jwt"} -> {<<"auth", "jwt">>}
    [] token = "mangum" -> {<<"serverless", "aws-lambda">>}
    [] OTHER -> {}
Signals(tokens) == UNION {DEPENDENCY_SIGNALS(token) : token \in tokens}

Manages(name) ==
  CASE name \in {"requirements.txt", "requirements-dev.txt", "setup.py", "setup.cfg", "Pipfile"} -> {"pip"}
    [] name \in {"poetry.lock"} -> {"poetry"}
    [] name = "uv.lock" -> {"uv"}
    [] name = "package.json" -> {"npm"}
    [] name = "yarn.lock" -> {"yarn"}
    [] name = "pnpm-lock.yaml" -> {"pnpm"}
    [] name \in {"go.mod", "go.sum"} -> {"gomod"}
    [] name \in {"Cargo.toml", "Cargo.lock"} -> {"cargo"}
    [] name = "pom.xml" -> {"maven"}
    [] name = "build.gradle" -> {"gradle"}
    [] name = "Gemfile" -> {"bundler"}
    [] OTHER -> {}

Declares == {"requirements.txt", "requirements-dev.txt", "pyproject.toml", "setup.py", "setup.cfg",
             "Pipfile", "package.json"}

(* pyproject.toml means pip unless poetry or uv has been seen by then.     *)
ApplyManifest(lists, f, text, fs) ==
  LET tools == text.tools \cup {x \in {"uv"} : <<"uv.lock">> \in ToSet(fs)}
      seen == {m \in {"poetry", "uv"} : <<"package_managers", m>> \in lists} \cup tools
      managers == IF Name(f) # "pyproject.toml" THEN Manages(Name(f))
                  ELSE IF seen = {} THEN {"pip"} ELSE tools
  IN lists \cup {<<"package_managers", m>> : m \in managers}
           \cup (IF Name(f) \in Declares THEN Signals(text.deps) ELSE {})

ByName(f) ==
  LET name == Name(f)
  IN CASE name = "Dockerfile" -> {<<"containers", "docker">>}
       [] name \in COMPOSE_NAMES -> {<<"containers", "docker">>, <<"containers", "compose">>}
       [] Workflow(f) -> {<<"ci_cd", "github-actions">>}
       [] name = ".gitlab-ci.yml" -> {<<"ci_cd", "gitlab-ci">>}
       [] name \in {"chart.yaml", "values.yaml"} -> {<<"iac", "helm">>}
       [] Ext(f) = ".tf" -> {<<"iac", "terraform">>}
       [] name \in {"playbook.yml", "ansible.cfg"} \/ f[1] = "roles" -> {<<"iac", "ansible">>}
       [] name = "template.yaml" -> {<<"iac", "cloudformation">>}
       [] name = "serverless.yml" -> {<<"serverless", "serverless-framework">>}
       [] name \in {"pytest.ini", "tox.ini", "conftest.py"} -> {<<"test_frameworks", "pytest">>}
       [] name \in ENV_NAMES -> {<<"secret_mechanisms", "dotenv">>}
       [] name = "manage.py" -> {<<"backend", "django">>}
       [] OTHER -> {}

LOCAL_HOSTS == {"localhost", "127.0.0.1", "0.0.0.0", "host.docker.internal", "printer.local"}
Plain == {"db", "cache"}     \* hosts without a dot
Documentation == {"example.com", "www.w3.org", "schema.org"}
IsExternalHost(h) == h \notin LOCAL_HOSTS \cup Plain \cup Documentation

Flat(seqs) == FoldLeft(LAMBDA s, t : s \o t, <<>>, seqs)
Distinct(s) == FoldLeft(LAMBDA t, x : IF x \in ToSet(t) THEN t ELSE Append(t, x), <<>>, s)
HostsOf(fs, read) == Flat([i \in DOMAIN fs |-> read[fs[i]].hosts])

FromManifests(fs, read) ==
  FoldLeft(LAMBDA lists, f : ApplyManifest(lists, f, read[f], fs), {}, Manifests(fs))
FromImports(fs, read) ==
  UNION {Signals(read[f].deps) \cup read[f].hints : f \in ToSet(Inspected(fs))}
(* The services, by dependency or by host, as they are met.                *)
Hosted(tokens) == IF "boto3" \in tokens THEN <<"aws">> ELSE <<>>
ExternalServices(fs, read) ==
  LET declaring == WithName(Manifests(fs), Declares)
      inspected == Inspected(fs)
      met(f) == Hosted(read[f].deps) \o SelectSeq(read[f].hosts, IsExternalHost)
  IN Distinct(Flat([i \in DOMAIN declaring |-> Hosted(read[declaring[i]].deps)])
              \o Flat([i \in DOMAIN inspected |-> met(inspected[i])]))

TechOf(fs, read) ==
  LET yamls == ToSet(YamlFiles(fs))
      configs == ToSet(ConfigFiles(fs))
  IN [lists |-> FromManifests(fs, read) \cup FromImports(fs, read)
        \cup UNION {ByName(f) : f \in ToSet(fs)}
        \cup {<<"containers", "k8s">> : f \in {g \in yamls : read[g].k8s}}
        \cup UNION {read[f].strings : f \in yamls \cup configs},
      languages |-> {Ext(f) : f \in ToSet(Sources(fs))},
      external |-> ExternalServices(fs, read)]
DetectTech(fs, read) == TechOf(fs, Seen(read, TechReads(fs)))

Has(t, field) == \E x \in t.lists : x[1] = field

-----------------------------------------------------------------------------
(* detect_scale.                                                           *)
CountLoc(fs, read) == MapThenSumSet(LAMBDA f : read[f].loc, ToSet(Sources(fs)))

(* A manifest that does not parse counts nothing.                          *)
CountServices(fs, read) ==
  LET composes == {f \in ToSet(fs) : Name(f) \in COMPOSE_NAMES /\ read[f].yaml}
      yamls == {f \in ToSet(YamlFiles(fs)) : read[f].yaml}
  IN Max({1, MapThenSumSet(LAMBDA f : read[f].services, composes),
             MapThenSumSet(LAMBDA f : read[f].workloads, yamls)})

HasSensitiveData(fs, read, t) ==
  \/ Has(t, "auth")
  \/ \E f \in ToSet(UpTo(Sources(fs), MaxSensitive)) : read[f].keyword

ScaleOf(fs, read, t) ==
  LET loc == CountLoc(fs, read)
      services == CountServices(fs, read)
  IN [class |-> CASE loc >= 50000 \/ services >= 5 -> "large"
                  [] loc >= 10000 \/ services >= 3 \/ <<"containers", "k8s">> \in t.lists -> "medium"
                  [] loc >= 1000 \/ services >= 2 \/ Has(t, "databases") \/ Has(t, "ci_cd") -> "small"
                  [] OTHER -> "toy",
      loc |-> loc, services |-> services, sensitive |-> HasSensitiveData(fs, read, t)]
DetectScale(fs, read, t) == ScaleOf(fs, Seen(read, ScaleReads(fs)), t)

(* build_graph: the nodes but for the application itself.                  *)
GraphOf(fs, read, t) ==
  LET hosts == Distinct(SelectSeq(HostsOf(ConfigFiles(fs), read), LAMBDA h : h \notin LOCAL_HOSTS))
  IN {x \in t.lists : x[1] \in {"databases", "caches", "brokers", "workers"}}
       \cup {<<"external", h>> : h \in ToSet(UpTo(t.external \o hosts, MaxExternal))}
BuildGraph(fs, read, t) == GraphOf(fs, Seen(read, GraphReads(fs)), t)
=================================================================================
