----------------------------- MODULE ProjectRules -----------------------------
(***************************************************************************)
(* The rules that ask for what a project does not have: no rate limiter,   *)
(* no backup, no runbook.  Each looks at the profile for an occasion to    *)
(* ask, and in files of its own choice for an answer.                      *)
(*                                                                         *)
(* A context is what ScanContext gives a rule: the disk, the files of the  *)
(* walk, the technologies and the scale of its primary files.  Words stand *)
(* for the alternatives of the rules' regular expressions; a dependency is *)
(* a word of the file that names it.                                       *)
(***************************************************************************)
EXTENDS Profile

CONSTANTS
  NameWords,        \* name of a file or directory -> the hints it contains
  Limit             \* where each search stops, a record:
(*   posture (600), texts (900), probes (1200), sources (2000),            *)
(*   observed (300), secrets (200), environments (300), sessions (400),    *)
(*   tests (200), manifests (20), containers (60)   files of a listing;    *)
(*   pipelines (40), tested_pipelines (25)          CI configurations;     *)
(*   handlers (400), documents (200), strategies (60)   what is in files;  *)
(*   marked (200), read (400)     thousands of characters of a text.       *)

Ignore(name) == [names |-> <<name>>, rooted |-> FALSE, tree |-> FALSE]
HidesDotenv(project) ==
  LET gitignore == project[<<".gitignore">>]
  IN {Ignore(".env") : x \in {y \in {gitignore} : y # Gone /\ ".env" \in y.words}}

Context(project) ==
  LET files == CollectFiles(project, HidesDotenv(project))
      primary == SplitPrimary(files)
      tech == DetectTech(primary, project)
  IN [disk |-> project, files |-> ToSet(files), primary |-> ToSet(primary),
      manifests |-> ToSet(Manifests(primary)), limit |-> Limit,
      tech |-> tech, scale |-> DetectScale(primary, project, tech)]

Order(class) == CASE class = "toy" -> 0 [] class = "small" -> 1 [] class = "medium" -> 2 [] OTHER -> 3
AllTechnologies(c) == {x[2] : x \in c.tech.lists}
IsFixture(c, f) == f \notin c.primary
Exists(c, path) == \E f \in DOMAIN c.disk : c.disk[f] # Gone /\ IsPrefix(path, f)

(* What a rule says: whether the project gives it an occasion, and whether *)
(* it finds the answer.  It reports the one without the other.             *)
Gap(c, min_scale, occasion, answered) ==
  [due |-> Order(c.scale.class) >= Order(min_scale) /\ occasion, answered |-> answered]

-----------------------------------------------------------------------------
(* Where the rules search.  Each pack has its own idea of it.              *)
PY == {".py"}
JS == {".js", ".jsx", ".ts", ".tsx", ".mjs", ".cjs"}
CODE == PY \cup JS
OBSERVED == CODE \cup {".yml", ".yaml", ".toml", ".ini", ".cfg", ".conf", ".json", ".txt", ".md", ".tf", ".go", ".rb", ".java"}
POSTURE == CODE \cup {".yml", ".yaml", ".json", ".toml", ".ini", ".cfg", ".conf", ".tf", ".env", ".txt", ".md", ".sh", ".xml"}
RECOVERY == {".yml", ".yaml", ".tf", ".tfvars", ".hcl", ".sh", ".py", ".js", ".ts", ".mjs", ".cjs", ".json", ".toml",
             ".ini", ".cfg", ".md", ".rst", ".txt", ".sql"}
DATA == {".py", ".js", ".ts", ".sql", ".yml", ".yaml", ".toml", ".ini", ".prisma"}

TEST_DIR_PARTS ==
  {"test", "tests", "__tests__", "spec", "specs", "e2e", "fixtures", "fixture", "testdata",
   "__mocks__", "mocks", "examples", "example", "samples"}
GENERATED_DIR_PARTS ==
  {"node_modules", "vendor", "vendored", "third_party", "site-packages", "dist", "build",
   "public", ".next", ".venv", "venv", "migrations", "__pycache__", "generated", "static"}
Hints(f) == NameWords[Name(f)]
IsTestPath(f) == Tops(f) \cap TEST_DIR_PARTS # {} \/ Hints(f) \cap {"test_", "conftest.py"} # {}
IsGeneratedPath(f) == Tops(f) \cap GENERATED_DIR_PARTS # {} \/ ".min." \in Hints(f)

Words(c, f) == c.disk[f].words \cup c.disk[f].deps
PathWords(f) == UNION {NameWords[f[i]] : i \in DOMAIN f}
Some(c, files, pattern) == \E f \in files : Words(c, f) \cap pattern # {}

(* Every listing stops at a limit of its own, in the order of the paths.   *)
Place == [f \in ToSet(Files) |-> CHOOSE i \in DOMAIN Files : Files[i] = f]
Before(f, files) == {g \in files : Place[g] < Place[f]}
FirstOf(files, n) ==
  IF Cardinality(files) <= n THEN files ELSE {f \in files : Cardinality(Before(f, files)) < n}
(* Further names come after the listing, and the whole is cut once more.   *)
FirstOfThen(files, further, n) ==
  LET all == files \cup ToSet(further)
  IN IF Cardinality(all) <= n THEN all
     ELSE ToSet(UpTo(Where(Files, files) \o SelectSeq(further, LAMBDA f : f \notin files), n))

Sourced(c, suffixes) == {f \in c.files : Ext(f) \in suffixes /\ ~IsGeneratedPath(f)}
Untested(c, suffixes) == {f \in c.files : Ext(f) \in suffixes /\ ~IsTestPath(f)}
ProbeFiles(c, suffixes) == FirstOf(Untested(c, suffixes), c.limit.probes)
DatabaseFiles(c, suffixes) == FirstOf(Untested(c, suffixes) \cap Sourced(c, suffixes), c.limit.probes)
SourceFiles(c, suffixes, n) == FirstOf(Untested(c, suffixes) \cap Sourced(c, suffixes), n)
CodeFiles(c) == SourceFiles(c, CODE, c.limit.sources)

(* Of a long text the part beyond the limit is not searched.               *)
NoLonger(c, files, n) == {f \in files : c.disk[f].length < n}

Haystack(c) ==
  LET further == Where(Files, c.manifests) \o Where(<< <<".env">>, <<"Makefile">>, <<"Procfile">> >>, c.files)
  IN NoLonger(c, FirstOfThen(SourceFiles(c, OBSERVED, c.limit.observed), further, c.limit.observed), c.limit.read)
CountSources(c) == Cardinality(SourceFiles(c, CODE, c.limit.observed))

OfPosture(f) == Ext(f) \in POSTURE \/ Hints(f) \cap {"dotfile", "docker", "nginx", "caddyfile", "procfile"} # {}
PostureFiles(c) == FirstOf({f \in c.files : OfPosture(f)}, c.limit.posture)
RepoMatches(c, pattern) ==
  \E f \in PostureFiles(c) : (PathWords(f) \cup Words(c, f)) \cap pattern # {}

TextFiles(c) ==
  FirstOf({f \in c.files : (Ext(f) \in RECOVERY \/ Hints(f) \cap {"docker", "procfile", "makefile"} # {})
                             /\ ~IsTestPath(f) /\ ~IsGeneratedPath(f)}, c.limit.texts)
FindMarkers(c, pattern) == Some(c, NoLonger(c, TextFiles(c), c.limit.marked), pattern)
NameHits(c, hints) ==
  \E f \in c.files : ~IsGeneratedPath(f) /\ ~IsTestPath(f) /\ Hints(f) \cap hints # {}

-----------------------------------------------------------------------------
(* The HTTP surface (api, network).                                        *)
Routes(c) ==
  LET sources == Where(Files, CodeFiles(c))
  IN ToSet(UpTo(Flat([i \in DOMAIN sources |-> SetToSeq(c.disk[sources[i]].routes)]), c.limit.handlers))
HasRoutes(c) ==
  \/ \E f \in CodeFiles(c) : c.disk[f].routes # {}
  \/ \E f \in SourceFiles(c, PY, c.limit.sources) : Name(f) = "urls.py" /\ "urlpatterns" \in c.disk[f].words
ServesHttp(c) == Has(c.tech, "backend") /\ HasRoutes(c)

LIMITER ==
  {"flask-limiter", "slowapi", "django-ratelimit", "express-rate-limit", "limit_req",
   "throttle_classes", "usagePlan", "rate_limit"}
NoRateLimiting(c) == Gap(c, "toy", ServesHttp(c), RepoMatches(c, LIMITER))

(* A route is <<method, version, name>>; a router.use of Express is one,   *)
(* of any method.  The prefix may have no slash before the version, so     *)
(* that url_prefix='/api/v1' is not a versioned prefix.                    *)
VERSION_HEADER == {"accept-version", "api-version", "application/vnd.acme+json"}
ROUTER_PREFIX == {"prefix='/v1'", "url_prefix='/v1'", "basePath: '/v1'"}
VersionedSpec(c) ==
  \E f \in c.files : Hints(f) \cap {"openapi", "swagger"} # {} /\ "version: 1" \in c.disk[f].words
NoApiVersioning(c) ==
  Gap(c, "toy", ServesHttp(c) /\ Routes(c) # {},
      \/ \E r \in Routes(c) : r[2] # ""
      \/ RepoMatches(c, VERSION_HEADER \cup ROUTER_PREFIX)
      \/ VersionedSpec(c))

CACHE ==
  {"redis", "memcache", "flask-caching", "cachetools", "Cache-Control", "etag", "lru_cache",
   "cloudfront", "cloudflare", "fastly", "akamai", "CDN_URL"}
NoCachingStrategy(c) ==
  Gap(c, "small", ServesHttp(c) /\ Cardinality({r \in Routes(c) : r[1] \in {"get", "use"}}) >= 2,
      Has(c.tech, "caches") \/ RepoMatches(c, CACHE))

BINDS_PORT == {"app.run(", "uvicorn.run(", "app.listen(", "runserver"}
PROXY ==
  {"nginx", "traefik", "caddy", "caddyfile", "envoy", "haproxy", "kind: Ingress", "aws_lb",
   "apigateway", "cloudfront", "kong"}
NoReverseProxy(c) ==
  Gap(c, "medium", ServesHttp(c) /\ RepoMatches(c, BINDS_PORT), RepoMatches(c, PROXY))

STATIC_DIRS == {"static", "public", "assets", "dist", "build", "www", "wwwroot", "media"}
ASSETS == {".css", ".js", ".mjs", ".svg"}
SELF_SERVED == {"StaticFiles(", "static_folder", "send_file(", "express.static(", "whitenoise"}
CDN == {"cloudfront", "cloudflare", "fastly", "akamai", "cdn", "CDN_URL", "vercel.json", "_headers", "Cache-Control"}
NoCdnForStaticAssets(c) ==
  LET assets == {f \in c.files : Ext(f) \in ASSETS /\ Tops(f) \cap STATIC_DIRS # {}}
      frontend == Has(c.tech, "frontend")
  IN Gap(c, "medium",
         /\ assets # {} /\ (Cardinality(assets) >= 3 \/ frontend)
         /\ RepoMatches(c, SELF_SERVED) \/ frontend,
         RepoMatches(c, CDN))

PROTOCOL == {"http2", "grpc", ".proto", "http3", "ALPN"}
DISCOVERY == {"consul", "coredns", "service_discovery", "eureka", "route53", "kind: Service"}
CONN_TIMEOUT == {"connect_timeout", "proxy_connect_timeout", "idle_timeout", "timeoutSeconds", "keepalive_timeout"}
NoProtocolPosture(c) ==
  Gap(c, "large", c.scale.services >= 2,
      \E pattern \in {PROTOCOL, DISCOVERY, CONN_TIMEOUT} : RepoMatches(c, pattern))

-----------------------------------------------------------------------------
(* Continuous integration and deployment (deployment).                     *)
CI_FILE_NAMES == {".gitlab-ci.yml", "Jenkinsfile", "azure-pipelines.yml", ".drone.yml", "bitbucket-pipelines.yml"}
CiFiles(c) ==
  FirstOf({f \in c.files :
             \/ Workflow(f)
             \/ ".circleci" \in Tops(f) /\ Name(f) = "config.yml"
             \/ Name(f) \in CI_FILE_NAMES}, c.limit.pipelines)
NoCiConfiguration(c) == Gap(c, "toy", TRUE, CiFiles(c) # {})

ENV_SWITCH == {"APP_ENV", "NODE_ENV", "FLASK_ENV", "DJANGO_SETTINGS_MODULE"}
FEATURE_FLAGS == {"launchdarkly", "unleash", "feature_flags"}
ENV_FILES == {".env.production", ".env.local", "staging.yaml", "prod.env", "values-staging.yaml", "settings_prod.py"}
ENV_DIRS == {"environments", "envs", "overlays", "deploy"}
NoEnvironmentSeparation(c) ==
  Gap(c, "toy", TRUE,
      \/ \E f \in c.files : Name(f) \in ENV_FILES \/ Tops(f) \cap ENV_DIRS # {}
      \/ Some(c, SourceFiles(c, CODE \cup YAML, c.limit.environments), ENV_SWITCH \cup FEATURE_FLAGS)
      \/ Some(c, CiFiles(c), {"environment:"}))

(* The limit on documents is looked at after each file.                    *)
DockerFiles(c) == FirstOf({f \in c.files : Name(f) = "Dockerfile"}, c.limit.containers)
ComposeFiles(c) == FirstOf({f \in c.files : Name(f) \in COMPOSE_NAMES}, c.limit.containers)
DocumentsIn(c, files) == MapThenSumSet(LAMBDA f : Max({1, c.disk[f].workloads}), files)
K8sFiles(c) ==
  LET manifests == {f \in c.files : /\ Ext(f) \in YAML /\ Tops(f) \cap {".github", ".gitlab", ".circleci"} = {}
                                     /\ c.disk[f].k8s /\ c.disk[f].yaml}
  IN {f \in manifests : DocumentsIn(c, Before(f, manifests)) < c.limit.documents}
StrategyFiles(c) ==
  LET k8s == K8sFiles(c)
      pipelines == FirstOf(CiFiles(c), c.limit.strategies)
  IN pipelines \cup {f \in k8s : Cardinality(pipelines) + DocumentsIn(c, Before(f, k8s)) < c.limit.strategies}
DEPLOYS == {"deploy", "kubectl apply", "docker push"}
NoRollbackProcedure(c) ==
  Gap(c, "small",
      \/ DockerFiles(c) # {} \/ \E f \in c.files : Name(f) = "Procfile"
      \/ K8sFiles(c) # {} \/ Has(c.tech, "iac") \/ Some(c, CiFiles(c), DEPLOYS),
      \/ Some(c, {f \in c.files : Ext(f) \in {".md", ".rst", ".txt"}}, {"rollback", "runbook", "# Deploy"})
      \/ Some(c, StrategyFiles(c), {"rollingUpdate", "canary", "blue-green", "github.sha"}))

-----------------------------------------------------------------------------
(* Backups, incidents, failure (disaster_recovery).                        *)
DeploymentEvidence(c) ==
  \/ Has(c.tech, "containers") \/ Has(c.tech, "iac") \/ Has(c.tech, "serverless")
  \/ /\ Has(c.tech, "ci_cd")
     /\ \E f \in NoLonger(c, c.files, c.limit.marked) :
          /\ IsPrefix(<<".github", "workflows">>, f) \/ Name(f) \in {".gitlab-ci.yml", "Jenkinsfile", "bitbucket-pipelines.yml"}
          /\ Words(c, f) \cap (DEPLOYS \cup {"terraform apply"}) # {}
BACKUP == {"pg_dump", "mysqldump", "mongodump", "backup_retention_period", "point_in_time_recovery", "velero", "backup schedule"}
RESTORE == {"pg_restore", "mongorestore", "restore_test", "rpo", "rto"}
BackupHits(c) == FindMarkers(c, BACKUP) \/ NameHits(c, {"backup", "snapshot", "pg_dump", "mysqldump", "mongodump"})
RestoreHits(c) == FindMarkers(c, RESTORE) \/ NameHits(c, {"restore", "recovery", "failback"})
Datastore(c) == Has(c.tech, "databases") /\ DeploymentEvidence(c)
NoBackupConfiguration(c) == Gap(c, "toy", Datastore(c), BackupHits(c))
UnverifiedBackupRestore(c) == Gap(c, "toy", Datastore(c) /\ BackupHits(c), RestoreHits(c))

READINESS == {"pagerduty", "opsgenie", "alertmanager", "on-call", "runbook"}
IncidentReadiness(c) ==
  Gap(c, "small", TRUE,
      \/ NameHits(c, {"runbook", "playbook", "oncall", "incident", "postmortem", "escalation"})
      \/ \E dir \in {<<"docs", "runbooks">>, <<"runbooks">>, <<"postmortems">>} : Exists(c, dir)
      \/ FindMarkers(c, READINESS))

CHAOS == {"toxiproxy", "litmus", "gremlin", "chaos-mesh", "fault-injection"}
FailureInjection(c) == Gap(c, "large", TRUE, FindMarkers(c, CHAOS) \/ NameHits(c, {"chaos", "toxiproxy"}))
FAILOVER == {"multi-az", "availability_zones", "failover", "standby", "read replica", "replicaCount"}
FailoverStrategy(c) == Gap(c, "large", TRUE, FindMarkers(c, FAILOVER))

-----------------------------------------------------------------------------
(* Tests (testing, core).                                                  *)
SUITE_DIRS == {"tests", "test", "__tests__", "spec", "e2e"}
NoTestSuite(c) ==
  Gap(c, "toy", TRUE,
      \/ Has(c.tech, "test_frameworks")
      \/ \E dir \in SUITE_DIRS : Exists(c, <<dir>>)
      \/ \E f \in c.files : Tops(f) \cap SUITE_DIRS # {} \/ "test_" \in Hints(f))

TEST_DIR_NAMES == SUITE_DIRS \cup {"specs", "integration", "cypress", "playwright"}
LooksLikeTest(f) ==
  Ext(f) \in CODE \cup {".go", ".rb", ".java"} /\ (Tops(f) \cap TEST_DIR_NAMES # {} \/ "test_" \in Hints(f))
(* Mutant of TestFiles: the listing stops at the first file it finds.      *)
TestFilesOne(c) == FirstOf({f \in c.files : LooksLikeTest(f)}, 1)
TestFiles(c) == FirstOf({f \in c.files : LooksLikeTest(f)}, c.limit.tests)
TestText(c) == NoLonger(c, TestFiles(c), c.limit.marked)
HasTestSuite(c) ==
  \/ Has(c.tech, "test_frameworks")
  \/ \E dir \in TEST_DIR_NAMES : Exists(c, <<dir>>)
  \/ TestFiles(c) # {}
Tested(c, tokens) == Some(c, TestText(c), tokens) \/ \E f \in TestFiles(c) : PathWords(f) \cap tokens # {}

NoIntegrationTests(c) ==
  Gap(c, "toy", Has(c.tech, "backend") /\ HasTestSuite(c),
      Some(c, TestText(c), {"testclient", "test_client", "httpx", "supertest", "client.get("}))
UsesDatabase(c) == Has(c.tech, "databases") \/ Has(c.tech, "orms")
NoDatabaseTests(c) ==
  Gap(c, "small", UsesDatabase(c) /\ HasTestSuite(c),
      Some(c, TestText(c), {"sqlite", "testcontainers", "session", "sqlalchemy", "transaction"}))
NoEndToEndTests(c) ==
  Gap(c, "medium", HasTestSuite(c),
      \/ {<<"test_frameworks", x>> : x \in {"playwright", "cypress"}} \cap c.tech.lists # {}
      \/ Tested(c, {"playwright", "cypress", "selenium", "smoke", "e2e/"}))
NONFUNCTIONAL ==
  {{"locust", "k6", "jmeter", "load_test"}, {"threading", "asyncio.gather", "pytest-xdist"},
   {"bandit", "csrf", "xss", "test_security", "pip-audit"}}
NoNonFunctionalTests(c) ==
  Gap(c, "medium", HasTestSuite(c),
      \E tokens \in NONFUNCTIONAL : Tested(c, tokens) \/ Some(c, c.manifests, tokens))
TEST_COMMAND == {"pytest", "npm test", "tox", "jest", "make test"}
CiDoesNotRunTests(c) ==
  LET pipelines == FirstOf({f \in c.files : Workflow(f) \/ Name(f) \in {".gitlab-ci.yml", "Jenkinsfile"}},
                           c.limit.tested_pipelines)
  IN Gap(c, "toy", HasTestSuite(c) /\ pipelines # {}, Some(c, pipelines, TEST_COMMAND))

-----------------------------------------------------------------------------
(* Logs, metrics, health (observability) and secrets (secrets).            *)
HasServer(c) == Has(c.tech, "backend") \/ Has(c.tech, "serverless")
LOG_IMPORT == {"import logging", "structlog", "loguru"}
LOG_JS == {"winston", "pino", "bunyan"}
LOG_CONFIG_NAMES == {"logging.conf", "logging.yaml", "logback.xml"}
NoLoggingFramework(c) ==
  Gap(c, "small", HasServer(c) /\ CountSources(c) >= 2,
      \/ Some(c, CodeFiles(c), LOG_IMPORT \cup LOG_JS)
      \/ \E f \in c.files : Name(f) \in LOG_CONFIG_NAMES
      \/ Some(c, Haystack(c), LOG_JS))

ERROR_TRACKING == {"sentry", "rollbar", "bugsnag", "datadog", "newrelic", "opentelemetry"}
NoErrorTracking(c) == Gap(c, "medium", TRUE, Some(c, Haystack(c), ERROR_TRACKING))

METRICS == {"prometheus", "prom-client", "statsd", "/metrics", "opentelemetry", "datadog", "grafana"}
NoMetrics(c) ==
  Gap(c, "medium", TRUE,
      \/ Some(c, Haystack(c), METRICS \cup {"slo", "error budget"})
      \/ \E f \in c.files : Ext(f) \in YAML \cup {".md"} /\ Hints(f) \cap {"slo", "sli", "objectives"} # {})

HEALTH_ROUTE == {"/healthz", "/readyz", "/ping", "/status", "livenessprobe", "healthcheck:"}
NoHealthCheck(c) == Gap(c, "medium", HasServer(c), Some(c, Haystack(c), HEALTH_ROUTE))
CORRELATION == {"x-request-id", "correlation_id", "traceparent", "opentelemetry"}
NoCorrelationId(c) == Gap(c, "medium", HasServer(c), Some(c, Haystack(c), CORRELATION))

MANAGED_STORE == {"secretsmanager", "hvac", "keyvault", "doppler", "sops", "external-secrets"}
DotenvNames == {".env", ".env.local", ".env.production"}
TemplateNames == {".env.example", ".env.sample"}
HasManagedStore(c) ==
  \/ {"vault", "aws-secrets-manager", "sops"} \cap {x[2] : x \in {y \in c.tech.lists : y[1] = "secret_mechanisms"}} # {}
  \/ LET sources == FirstOf(Sourced(c, POSTURE \ {".txt", ".md", ".env", ".xml"}), c.limit.sources)
     IN Some(c, FirstOfThen(sources, Where(Files, c.manifests), c.limit.secrets), MANAGED_STORE)
HasDocumentedDotenvWorkflow(c) ==
  LET gitignore == c.disk[<<".gitignore">>]
  IN (\E f \in c.files : Name(f) \in TemplateNames) /\ gitignore # Gone /\ ".env" \in gitignore.words
NoSecretManagement(c) ==
  Gap(c, "small",
      \/ MapThenSumSet(LAMBDA f : c.disk[f].lookups, FirstOf(CodeFiles(c), c.limit.secrets)) >= 3
      \/ \E f \in c.files : Name(f) \in DotenvNames,
      HasManagedStore(c) \/ HasDocumentedDotenvWorkflow(c))

-----------------------------------------------------------------------------
(* Processes, queues, services (reliability) and data (database).          *)
Queue(c) == Has(c.tech, "workers") \/ Has(c.tech, "brokers")
SHUTDOWN ==
  {"SIGTERM", "signal.signal", "server.close(", "lifespan", "on_event('shutdown')", "preStop",
   "terminationGracePeriodSeconds", "worker_shutdown"}
NoGracefulShutdown(c) ==
  Gap(c, "medium", Has(c.tech, "backend") \/ Queue(c) \/ Has(c.tech, "realtime"),
      Some(c, ProbeFiles(c, CODE \cup {".yml", ".yaml", ".toml", ".cfg", ".ini", ".sh", ".json"}), SHUTDOWN))

WORKER_TECHNOLOGIES == {"celery", "rq", "dramatiq", "bullmq"}
BROKER_TECHNOLOGIES == {"kafka", "rabbitmq", "redis", "sqs", "pubsub"}
QUEUE_OBSERVABILITY == {"flower", "bull-board", "rq-dashboard", "queue_depth", "on_failure", "sentry", "prometheus"}
QueueObservability(c) ==
  Gap(c, "small",
      Queue(c) /\ AllTechnologies(c) \cap (WORKER_TECHNOLOGIES \cup BROKER_TECHNOLOGIES) # {},
      Some(c, ProbeFiles(c, CODE \cup {".yml", ".yaml", ".toml", ".json"}), QUEUE_OBSERVABILITY))

DISTRIBUTED_PRACTICE == {"service_discovery", "consul", "etcd", "istio", "redlock", "leader election", "saga", "outbox"}
DistributedFailureModes(c) ==
  Gap(c, "large", c.scale.services >= 3 \/ (Has(c.tech, "brokers") /\ c.scale.services >= 2),
      Some(c, ProbeFiles(c, CODE \cup {".yml", ".yaml", ".tf", ".toml", ".md", ".json"}), DISTRIBUTED_PRACTICE))

SCHEMA_DEFINITION == {"CREATE TABLE", "Column(", "db.Model", "mongoose.Schema"}
MIGRATION_TOOL_FILES == {<<"alembic.ini">>, <<"knexfile.js">>, <<"migrations">>, <<"alembic">>, <<"prisma", "schema.prisma">>}
MIGRATION_TOOLS == {"alembic", "django", "prisma", "knex", "flyway"}
HasMigrationTooling(c) ==
  \/ \E path \in MIGRATION_TOOL_FILES : Exists(c, path)
  \/ \E f \in c.files : Tops(f) \cap {"migrations", "migrate", "versions"} # {}
  \/ Some(c, {f \in c.files : Name(f) \in {"requirements.txt", "pyproject.toml", "package.json", "go.mod"}}, MIGRATION_TOOLS)
NoMigrationTooling(c) ==
  Gap(c, "toy", UsesDatabase(c) /\ Some(c, DatabaseFiles(c, {".py", ".js", ".ts", ".sql", ".prisma"}), SCHEMA_DEFINITION),
      HasMigrationTooling(c))

CONCURRENT_WRITERS == {"gunicorn", "uvicorn", "threading", "celery", "pm2"}
LOCKING == {"for update", "isolation_level", "serializable", "version = Column"}
IsolationAndLocking(c) ==
  Gap(c, "medium",
      /\ UsesDatabase(c)
      /\ Queue(c) \/ c.scale.services > 1 \/ Some(c, DatabaseFiles(c, DATA), CONCURRENT_WRITERS),
      Some(c, DatabaseFiles(c, DATA), LOCKING))
SCALE_OUT == {"read_replica", "replication", "standby", "partition by", "READ_DATABASE_URL", "shard"}
ScaleOutReadiness(c) == Gap(c, "large", UsesDatabase(c), Some(c, DatabaseFiles(c, DATA), SCALE_OUT))

-----------------------------------------------------------------------------
(* Rollout (containers), dependencies, and CSRF (security).                *)
SCALING_KINDS == {"HorizontalPodAutoscaler", "rollingUpdate", "Canary", "VirtualService"}
NoProgressiveRollout(c) ==
  Gap(c, "medium",
      \/ \E f \in K8sFiles(c) : ~IsFixture(c, f) /\ "kind: Deployment" \in c.disk[f].words
      \/ \E f \in ComposeFiles(c) : ~IsFixture(c, f) /\ c.disk[f].yaml /\ c.disk[f].services > 1,
      \/ Some(c, K8sFiles(c), SCALING_KINDS)
      \/ \E f \in c.files : Name(f) \in {"chart.yaml", "kustomization.yaml"})

(* Mutant of PY_LOCKS: the newest of the tools is not known.               *)
UV_UNKNOWN == {"poetry.lock", "pdm.lock", "Pipfile.lock", "requirements.lock"}
PY_LOCKS == {"uv.lock", "poetry.lock", "pdm.lock", "Pipfile.lock", "requirements.lock"}
NODE_LOCKS == {"package-lock.json", "yarn.lock", "pnpm-lock.yaml", "npm-shrinkwrap.json"}
PythonManifests(c) ==
  FirstOf({f \in c.files : ~IsFixture(c, f) /\ (Name(f) = "pyproject.toml" \/ "requirements" \in Hints(f))},
          c.limit.manifests)
Requirements(c) == {f \in PythonManifests(c) : Name(f) # "pyproject.toml"}
NodeManifests(c) == FirstOf({f \in c.files : ~IsFixture(c, f) /\ Name(f) = "package.json"}, c.limit.manifests)
Locked(c, locks) == \E f \in c.files : Name(f) \in locks
NoLockfile(c) ==
  LET python == \E f \in Requirements(c) : c.disk[f].loose # {}
      node == \E f \in NodeManifests(c) : c.disk[f].deps # {}
  IN Gap(c, "toy", python \/ node, (python => Locked(c, PY_LOCKS)) /\ (node => Locked(c, NODE_LOCKS)))

FromPin(c, word) == Some(c, DockerFiles(c), {word})
PythonPinned(c) ==
  \/ FromPin(c, "FROM python:3.12")
  \/ \E f \in c.files : Name(f) \in {".python-version", "runtime.txt"}
  \/ \E f \in PythonManifests(c) : Name(f) = "pyproject.toml" /\ "requires-python" \in c.disk[f].words
NodePinned(c) ==
  \/ FromPin(c, "FROM node:20.1")
  \/ \E f \in c.files : Name(f) \in {".nvmrc", ".node-version"}
  \/ \E f \in NodeManifests(c) : "engines" \in c.disk[f].words
UnpinnedRuntimeVersion(c) ==
  LET python == PY \cap c.tech.languages # {} \/ PythonManifests(c) # {}
      node == JS \cap c.tech.languages # {} \/ NodeManifests(c) # {}
  IN Gap(c, "toy", python \/ node, (python => PythonPinned(c)) /\ (node => NodePinned(c)))

SessionFiles(c) ==
  SourceFiles(c, CODE \cup {".html", ".txt", ".json", ".cfg", ".toml"}, c.limit.sessions)
MissingCsrfProtection(c) ==
  Gap(c, "toy",
      /\ Some(c, SessionFiles(c), {"flask-login", "session[", "express-session", "set_cookie('session'"})
      /\ Some(c, SessionFiles(c), {"methods=['POST']", "app.post(", "<form method=post"}),
      Some(c, SessionFiles(c), {"CSRFProtect", "CsrfViewMiddleware", "csrf-csrf", "csrf_token", "SameSite=Strict"}))

-----------------------------------------------------------------------------
Rules(c) ==
  [API003 |-> NoRateLimiting(c), API005 |-> NoApiVersioning(c), API008 |-> NoCachingStrategy(c),
   API009 |-> NoReverseProxy(c), NET001 |-> NoCdnForStaticAssets(c), NET003 |-> NoProtocolPosture(c),
   DEP001 |-> NoCiConfiguration(c), DEP004 |-> NoEnvironmentSeparation(c), DEP006 |-> NoRollbackProcedure(c),
   DR001 |-> NoBackupConfiguration(c), DR002 |-> UnverifiedBackupRestore(c), DR004 |-> IncidentReadiness(c),
   DR005 |-> FailureInjection(c), DR006 |-> FailoverStrategy(c),
   MAINT001 |-> NoTestSuite(c), TEST001 |-> NoIntegrationTests(c), TEST002 |-> CiDoesNotRunTests(c),
   TEST003 |-> NoDatabaseTests(c), TEST004 |-> NoEndToEndTests(c), TEST005 |-> NoNonFunctionalTests(c),
   OBS002 |-> NoLoggingFramework(c), OBS003 |-> NoErrorTracking(c), OBS004 |-> NoHealthCheck(c),
   OBS005 |-> NoCorrelationId(c), OBS007 |-> NoMetrics(c), SCR009 |-> NoSecretManagement(c),
   REL008 |-> NoGracefulShutdown(c), REL009 |-> QueueObservability(c), REL011 |-> DistributedFailureModes(c),
   DB006 |-> NoMigrationTooling(c), DB009 |-> IsolationAndLocking(c), DB010 |-> ScaleOutReadiness(c),
   CTR012 |-> NoProgressiveRollout(c), DEPS001 |-> NoLockfile(c), DEPS004 |-> UnpinnedRuntimeVersion(c),
   SEC006 |-> MissingCsrfProtection(c)]

Findings(c) == LET rules == Rules(c) IN {r \in DOMAIN rules : rules[r].due /\ ~rules[r].answered}

(* The context of a scan whose searches stop nowhere.                      *)
Unlimited(c) == [c EXCEPT !.limit = [l \in DOMAIN c.limit |-> 100000]]
===============================================================================
