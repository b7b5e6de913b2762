SPECIFICATION LiveSpec
CONSTANTS
  Topics = {"A", "B", "C", "D", "E"}
  Providers = {"null", "local", "remote"}
  Installs = {{"bandit", "hadolint"}, {"pip-audit", "checkov"}, {"trivy", "semgrep"}, {"npm-audit", "detect-secrets"}}
  Raising = {"bad"}
  Packs <- MCPacks
  RuleOrder <- MCRuleOrder
  Contexts <- MCContexts
  Answers <- MCAnswers
  TopicsOf <- MCTopicsOf
  Waivers <- MCWaivers
  Known <- MCKnown
  Subscribers <- MCSubscribers
INVARIANTS
  Accounted
  EveryoneHeard
  EveryToolSaid
  OpenIsNeverGreen
  ScoresHonest
  GatewayHonest
PROPERTIES
  ScanEnds
