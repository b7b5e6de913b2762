------------------------------ MODULE Scan_proofs ------------------------------
(***************************************************************************)
(* Theorems about one scan, for any packs, scanners, answers, subscribers, *)
(* waivers and baselines, and whatever rule, tool or provider fails.       *)
(***************************************************************************)
EXTENDS Scan, FiniteSetTheorems, TLAPS

(* The places of the scan after the merge.                                 *)
Merged == {"memory", "repair", "report", "refused", "done"}

-----------------------------------------------------------------------------
(* A non-empty set of naturals has a least element: the initial segments   *)
(* below its elements are finite, and strict inclusion is well-founded on  *)
(* finite sets.                                                            *)
LEMMA LeastNat ==
  ASSUME NEW T \in SUBSET Nat, T # {}
  PROVE  \E m \in T : \A k \in T : m <= k
<1> DEFINE R == StrictSubsetOrdering(Nat)
           Below(m) == 0 .. (m - 1)
           Segments == {Below(m) : m \in T}
<1>1. IsWellFoundedOn(R, FiniteSubsetsOf(Nat))
  BY FS_StrictSubsetOrderingWellFounded
<1>2. Segments \subseteq FiniteSubsetsOf(Nat) /\ Segments # {}
  <2>1. ASSUME NEW m \in T PROVE Below(m) \in FiniteSubsetsOf(Nat)
    <3>1. IsFiniteSet(Below(m))
      BY FS_Interval
    <3> QED BY <3>1 DEF FiniteSubsetsOf
  <2> QED BY <2>1
<1>3. PICK x \in Segments : \A y \in Segments : ~(<<y, x>> \in R)
  <2> HIDE DEF R, Segments
  <2> QED BY <1>1, <1>2, WFMin
<1>4. PICK m \in T : x = Below(m)
  OBVIOUS
<1>5. ASSUME NEW k \in T, k < m PROVE FALSE
  <2>1. Below(k) \subseteq Below(m) /\ Below(k) # Below(m) /\ Below(m) \subseteq Nat
    <3>1. k \in Below(m) /\ k \notin Below(k)
      BY <1>5
    <3> QED BY <1>5, <3>1
  <2>2. <<Below(k), Below(m)>> \in R
    <3> HIDE DEF Below
    <3> QED BY <2>1 DEF StrictSubsetOrdering
  <2> QED BY <1>3, <1>4, <2>2
<1> QED BY <1>5

(* No rule id begins like that of a scanner.                               *)
LEMMA Names ==
  /\ AdapterNames = {"bandit", "detect-secrets", "pip-audit", "npm-audit",
                     "hadolint", "trivy", "checkov", "semgrep"}
  /\ "VG" \notin AdapterNames
BY DEF AdapterNames, ADAPTERS

(* At most one adapter is next.                                            *)
LEMMA OneNext ==
  ASSUME NEW a \in NextIn(ADAPTERS), NEW b \in NextIn(ADAPTERS)
  PROVE  a = b
<1> SUFFICES ASSUME a # b PROVE FALSE
  OBVIOUS
<1>1. \A i, j \in DOMAIN ADAPTERS : ADAPTERS[i] = ADAPTERS[j] => i = j
  BY DEF ADAPTERS
<1>2. DOMAIN ADAPTERS \subseteq Nat
  BY DEF ADAPTERS
<1>3. PICK i, j \in DOMAIN ADAPTERS : i < j /\ ADAPTERS[i] = a /\ ADAPTERS[j] = b
  BY DEF NextIn
<1>4. PICK k, l \in DOMAIN ADAPTERS : k < l /\ ADAPTERS[k] = b /\ ADAPTERS[l] = a
  BY DEF NextIn
<1> QED BY <1>1, <1>2, <1>3, <1>4


-----------------------------------------------------------------------------
(* A prompt announced and not sent yet is the one being sent, and nothing  *)
(* that uses the network was started under local_only.                     *)
GatewayInv ==
  /\ sent \in Nat /\ announced \in Nat /\ answered \in Nat /\ aiUsed \in BOOLEAN
  /\ sent <= announced
  /\ pc = "send" /\ Provider = "remote" => sent < announced
  /\ Provider # "remote" => sent = 0
  /\ aiUsed <=> answered > 0
  /\ \A a \in ran : ~Skipped(a, request.localOnly)
  /\ pc = "tool" => \A a \in NextIn(ADAPTERS) : ~Skipped(a, request.localOnly)

LEMMA NextGatewayInv == GatewayInv /\ [Next]_vars => GatewayInv'
<1> SUFFICES ASSUME GatewayInv, [Next]_vars PROVE GatewayInv'
  OBVIOUS
<1>1. request' = request /\ Provider' = Provider
  BY DEF Next, Load, LoadPack, PackMissing, Select, RunRule, Detect, DetectRaises, Unavailable,
         Announce, Answer, RequestFails, RunAdapter, StartAdapters, PassOver, Skip, PreflightFails,
         StartTool, ToolAnswers, ToolFails, RunRaises, Conclude, Merge, ApplyMemory, Repair,
         RepairRefused, Finish, Stopped, vars, env, Provider
<1>2. ASSUME gateway' = gateway, ran' = ran, pc' \notin {"send", "tool"} PROVE GatewayInv'
  BY <1>1, <1>2 DEF GatewayInv, gateway
<1>3. CASE Load \/ StartAdapters \/ Conclude
  <2>1. pc' \notin {"send", "tool"} /\ gateway' = gateway /\ ran' = ran
    BY <1>3 DEF Load, LoadPack, PackMissing, Select, StartAdapters, Conclude, Merge, ApplyMemory,
                Repair, RepairRefused, Finish, tools
  <2> QED BY <1>2, <2>1
<1>4. ASSUME NEW id, Detect(id) \/ DetectRaises(id) \/ Unavailable(id) PROVE GatewayInv'
  BY <1>2, <1>4 DEF Detect, DetectRaises, Unavailable, tools
<1>5. ASSUME NEW id, Announce(id) PROVE GatewayInv'
  BY <1>1, <1>5 DEF Announce, GatewayInv, tools
<1>6. ASSUME NEW id, Answer(id) \/ RequestFails(id) PROVE GatewayInv'
  <2>1. pc = "send" /\ pc' = "detect" /\ ran' = ran /\ announced' = announced
        /\ sent' = IF Provider = "remote" THEN sent + 1 ELSE sent
    BY <1>6 DEF Answer, RequestFails, Send, tools
  <2>2. \/ answered' = answered + 1 /\ aiUsed' = TRUE
        \/ answered' = answered /\ aiUsed' = aiUsed
    BY <1>6 DEF Answer, RequestFails
  <2>3. answered' \in Nat /\ aiUsed' \in BOOLEAN /\ (aiUsed' <=> answered' > 0)
    <3>1. answered + 1 \in Nat /\ answered + 1 > 0
      BY DEF GatewayInv
    <3>2. CASE answered' = answered + 1 /\ aiUsed' = TRUE
      BY <3>1, <3>2, Zenon
    <3>3. CASE answered' = answered /\ aiUsed' = aiUsed
      BY <3>3, Zenon DEF GatewayInv
    <3> QED BY <2>2, <3>2, <3>3
  <2>4. sent' \in Nat /\ announced' \in Nat /\ sent' <= announced'
        /\ (Provider # "remote" => sent' = 0)
    BY <2>1 DEF GatewayInv
  <2>5. \A a \in ran' : ~Skipped(a, request'.localOnly)
    BY <1>1, <2>1 DEF GatewayInv
  <2> QED BY <1>1, <2>1, <2>3, <2>4, <2>5 DEF GatewayInv
<1>7. ASSUME NEW a, PassOver(a) \/ Skip(a) \/ PreflightFails(a) \/ RunRaises(a) PROVE GatewayInv'
  <2>1. pc' = "adapters" /\ gateway' = gateway /\ ran' = ran
    BY <1>7 DEF PassOver, Skip, PreflightFails, RunRaises, tools
  <2> QED BY <1>2, <2>1
<1>8. ASSUME NEW a \in NextIn(ADAPTERS), StartTool(a) PROVE GatewayInv'
  <2>1. ~Skipped(a, request.localOnly) /\ NextIn(ADAPTERS)' = NextIn(ADAPTERS)
        /\ pc' = "tool" /\ gateway' = gateway /\ ran' = ran
    BY <1>8 DEF StartTool, NextIn
  <2> QED BY <1>1, <2>1, OneNext DEF GatewayInv, gateway
<1>9. ASSUME NEW a \in NextIn(ADAPTERS), ToolAnswers(a) \/ ToolFails(a) PROVE GatewayInv'
  <2>1. pc = "tool" /\ pc' = "adapters" /\ gateway' = gateway /\ ran' = ran \cup {a}
    BY <1>9 DEF ToolAnswers, ToolFails, Took
  <2> QED BY <1>1, <2>1 DEF GatewayInv, gateway
<1>10. CASE UNCHANGED vars
  BY <1>1, <1>10 DEF vars, GatewayInv, gateway, tools, NextIn
<1> QED BY <1>3, <1>4, <1>5, <1>6, <1>7, <1>8, <1>9, <1>10
        DEF Next, RunRule, RunAdapter, Stopped

(* Whatever packs are installed and providers answer or time out: no       *)
(* prompt leaves the machine unannounced; under local_only none leaves it  *)
(* and no scanner that uses the network runs; the report says that AI was  *)
(* used exactly if a completion came back (ai/gateway.py, _run_adapters).  *)
THEOREM GatewayCorrect == Spec => []GatewayHonest
<1>1. ASSUME Init PROVE GatewayInv
  <2>1. sent = 0 /\ announced = 0 /\ answered = 0 /\ aiUsed = FALSE /\ pc = "load" /\ ran = {}
    BY <1>1 DEF Init
  <2>2. 0 \in Nat /\ 0 <= 0 /\ ~(0 > 0)
    OBVIOUS
  <2>3. aiUsed \in BOOLEAN /\ (aiUsed <=> answered > 0)
    BY <2>1, <2>2, Zenon
  <2> QED BY <2>1, <2>3 DEF GatewayInv
<1>2. GatewayInv => GatewayHonest
  <2>1. request.localOnly => Provider # "remote"
    BY DEF Provider
  <2>2. request.localOnly /\ (\A a \in ran : ~Skipped(a, request.localOnly))
          => ran \cap RequiresNetwork = {}
    BY DEF Skipped
  <2> QED BY <2>1, <2>2 DEF GatewayInv, GatewayHonest
<1> QED BY <1>1, <1>2, NextGatewayInv, PTL DEF Spec

-----------------------------------------------------------------------------
(* What is kept was announced first; the merge invents nothing.            *)
HeardInv ==
  /\ \A s \in ToSet(Subscribers) : builtin \cup external \subseteq heard[s]
  /\ findings \subseteq builtin \cup external

LEMMA NextHeardInv == HeardInv /\ [Next]_vars => HeardInv'
<1> SUFFICES ASSUME HeardInv, [Next]_vars PROVE HeardInv'
  OBVIOUS
<1>1. ASSUME detection' = detection, ghosts' = ghosts PROVE HeardInv'
  BY <1>1 DEF HeardInv, detection, ghosts
<1>2. ASSUME NEW found, heard' = Heard(found), findings' = findings,
             builtin' \cup external' = builtin \cup external \cup found
      PROVE  HeardInv'
  <2>1. \A s \in ToSet(Subscribers) : heard'[s] = heard[s] \cup found
    BY <1>2 DEF Heard
  <2> QED BY <1>2, <2>1 DEF HeardInv
<1>3. CASE Load \/ StartAdapters \/ ApplyMemory \/ Repair \/ RepairRefused \/ Finish \/ UNCHANGED vars
  BY <1>1, <1>3 DEF Load, LoadPack, PackMissing, Select, StartAdapters, ApplyMemory, Repair,
                    RepairRefused, Finish, vars
<1>4. ASSUME NEW id, DetectRaises(id) \/ Unavailable(id) \/ Announce(id) \/ RequestFails(id)
      PROVE  HeardInv'
  BY <1>1, <1>4 DEF DetectRaises, Unavailable, Announce, RequestFails
<1>5. ASSUME NEW id, Detect(id) \/ Answer(id) PROVE HeardInv'
  <2>1. PICK found \in registry[id].reports : Keep(found)
    BY <1>5 DEF Detect, Answer
  <2>2. UNCHANGED <<external, findings>>
    BY <1>5 DEF Detect, Answer
  <2> QED BY <1>2, <2>1, <2>2 DEF Keep
<1>6. ASSUME NEW a, PassOver(a) \/ Skip(a) \/ PreflightFails(a) \/ StartTool(a) \/ RunRaises(a)
      PROVE  HeardInv'
  BY <1>1, <1>6 DEF PassOver, Skip, PreflightFails, StartTool, RunRaises
<1>7. ASSUME NEW a, ToolAnswers(a) \/ ToolFails(a) PROVE HeardInv'
  <2>1. PICK answer : Took(a, answer)
    BY <1>7 DEF ToolAnswers, ToolFails
  <2>2. UNCHANGED <<builtin, findings>>
    BY <1>7 DEF ToolAnswers, ToolFails
  <2> QED BY <1>2, <2>1, <2>2 DEF Took
<1>8. CASE Merge
  <2>1. findings' \subseteq builtin \cup external
    BY <1>8 DEF Merge, Dedup
  <2>2. UNCHANGED <<builtin, external, heard>>
    BY <1>8 DEF Merge, ghosts
  <2> QED BY <2>1, <2>2 DEF HeardInv
<1> QED BY <1>3, <1>4, <1>5, <1>6, <1>7, <1>8
        DEF Next, RunRule, RunAdapter, Conclude, Stopped

(* Every subscriber, those registered behind one that raises on each event *)
(* included, was told of every finding of the report (core/events.py       *)
(* EventBus.emit, orchestrator _detect and _run_adapters).                 *)
THEOREM HeardCorrect == Spec => []EveryoneHeard
<1>1. Init => HeardInv
  BY DEF Init, HeardInv
<1>2. HeardInv => EveryoneHeard
  BY DEF HeardInv, EveryoneHeard
<1> QED BY <1>1, <1>2, NextHeardInv, PTL DEF Spec

-----------------------------------------------------------------------------
(* What a rule, and what a scanner, reports.                               *)
OfRule(f, ids) == f.rule = <<"VG", f.rule[2]>> /\ f.rule[2] \in ids /\ f.n \in Nat
OfTool(f) ==
  /\ f.rule = <<f.rule[1], f.rule[2]>> /\ f.rule[1] \in AdapterNames /\ f.n \in Nat
  /\ f.quotes = IF f.text = "" THEN {} ELSE {<<f.place, f.text>>}

LEMMA MadeByTool ==
  ASSUME NEW a \in AdapterNames, NEW item, item.n \in Nat, NEW file, NEW text, NEW category,
         NEW severity, NEW confidence
  PROVE  /\ OfTool(MakeFinding(a, item, file, text, category, severity, confidence))
         /\ MakeFinding(a, item, file, text, category, severity, confidence).rule[1] = a
BY DEF OfTool, MakeFinding

LEMMA ToolFindings ==
  ASSUME NEW a \in AdapterNames, NEW answer \in Answers[a] \cup {NoAnswer}, NEW f \in Findings(a, answer)
  PROVE  OfTool(f) /\ f.rule[1] = a
<1>1. PICK item \in answer.items : f = ToFinding(a, item)
  BY DEF Findings, NpmItems
<1>2. /\ answer \in Answers[a] /\ item.n \in Nat
      /\ a = "trivy" => item.kind \in {"vulnerability", "secret", "misconfiguration"}
  <2>1. NoAnswer.items = {}
    BY DEF NoAnswer
  <2> QED BY <1>1, <2>1, DetectorsAssumption
<1>3. \E file, text, category, severity, confidence :
        f = MakeFinding(a, item, file, text, category, severity, confidence)
  <2>1. CASE a = "bandit"
    BY <1>1, <2>1 DEF ToFinding, Bandit
  <2>2. CASE a = "detect-secrets"
    BY <1>1, <2>2 DEF ToFinding, DetectSecrets
  <2>3. CASE a = "pip-audit"
    BY <1>1, <2>3 DEF ToFinding, PipAudit
  <2>4. CASE a = "npm-audit"
    BY <1>1, <2>4 DEF ToFinding, NpmFinding
  <2>5. CASE a = "hadolint"
    BY <1>1, <2>5 DEF ToFinding, Hadolint
  <2>6. CASE a = "checkov"
    BY <1>1, <2>6 DEF ToFinding, Checkov
  <2>7. CASE a = "semgrep"
    BY <1>1, <2>7 DEF ToFinding, Semgrep
  <2>8. CASE a = "trivy" /\ item.kind = "vulnerability"
    BY <1>1, <2>8 DEF ToFinding, TrivyVuln
  <2>9. CASE a = "trivy" /\ item.kind = "secret"
    BY <1>1, <2>9 DEF ToFinding, TrivySecret
  <2>10. CASE a = "trivy" /\ item.kind = "misconfiguration"
    BY <1>1, <2>10 DEF ToFinding, TrivyMisconfig
  <2> QED BY <1>2, <2>1, <2>2, <2>3, <2>4, <2>5, <2>6, <2>7, <2>8, <2>9, <2>10, Names
<1> QED BY <1>2, <1>3, MadeByTool

-----------------------------------------------------------------------------
(* Under every id of the registry is a class of a pack with that id.       *)
Shipped == UNION {ToSet(Packs[i].rules) : i \in DOMAIN Packs}
ByOwnId(reg) == \A id \in DOMAIN reg : reg[id] \in Shipped /\ reg[id].id = id

LEMMA RegisteredByOwnId ==
  ASSUME NEW reg, ByOwnId(reg), NEW classes \in Seq(Shipped)
  PROVE  ByOwnId(Registered(reg, classes))
<1> SUFFICES ASSUME NEW id \in DOMAIN Registered(reg, classes), id \notin DOMAIN reg
             PROVE  /\ Registered(reg, classes)[id] \in Shipped
                    /\ Registered(reg, classes)[id].id = id
  BY DEF ByOwnId, Registered
<1> DEFINE T == {i \in DOMAIN classes : classes[i].rule /\ classes[i].id = id}
           Leads(i) == /\ classes[i].rule /\ classes[i].id = id
                       /\ \A j \in 1..(i - 1) : ~(classes[j].rule /\ classes[j].id = id)
<1>1. T \in SUBSET Nat /\ T # {}
  <2>1. PICK c \in ToSet(classes) : c.rule /\ c.id = id
    BY DEF Registered
  <2>2. PICK i \in DOMAIN classes : classes[i] = c
    BY <2>1 DEF ToSet
  <2> QED BY <2>1, <2>2
<1>2. PICK m \in T : \A k \in T : m <= k
  <2> HIDE DEF T
  <2> QED BY <1>1, LeastNat
<1>3. m \in DOMAIN classes /\ Leads(m)
  BY <1>2
<1>4. LET i == CHOOSE i \in DOMAIN classes : Leads(i)
      IN  Registered(reg, classes)[id] = classes[i] /\ i \in DOMAIN classes /\ classes[i].id = id
  <2>1. Registered(reg, classes)[id] = classes[CHOOSE i \in DOMAIN classes : Leads(i)]
    BY DEF Registered
  <2>2. LET i == CHOOSE i \in DOMAIN classes : Leads(i) IN i \in DOMAIN classes /\ Leads(i)
    <3> HIDE DEF Leads
    <3> QED BY <1>3
  <2> QED BY <2>1, <2>2
<1> QED BY <1>4

-----------------------------------------------------------------------------
(* A finding bears the name of a selected rule or of an adapter; until the *)
(* merge the two kinds together are all that was ever returned.            *)
FoundInv ==
  /\ packs \in Seq(ToSet(Packs)) /\ ByOwnId(registry)
  /\ pc = "load" => builtin = {}
  /\ pc # "load" => rules \subseteq Instantiated
  /\ pc \in {"detect", "send"} => todo \subseteq rules
  /\ pc \in {"adapters", "tool"} => todo \subseteq AdapterNames
  /\ \A f \in builtin : OfRule(f, rules)
  /\ \A f \in external : OfTool(f)
  /\ produced = builtin \cup external

LEMMA PackOfShipped ==
  ASSUME packs \in Seq(ToSet(Packs)), packs # <<>>
  PROVE  Head(packs).rules \in Seq(Shipped) /\ Tail(packs) \in Seq(ToSet(Packs))
<1>1. PICK i \in DOMAIN Packs : Head(packs) = Packs[i]
  BY DEF ToSet
<1>2. ToSet(Packs[i].rules) \subseteq Shipped
  BY DEF Shipped
<1> QED BY <1>1, <1>2, DetectorsAssumption

LEMMA NextFoundInv == FoundInv /\ [Next]_vars => FoundInv'
<1> SUFFICES ASSUME FoundInv, [Next]_vars PROVE FoundInv'
  OBVIOUS
<1>1. ASSUME UNCHANGED <<env, rules, builtin, external, ghosts>>, pc # "load", pc' # "load",
             pc' \in {"detect", "send"} => pc \in {"detect", "send"} /\ todo' \subseteq todo,
             pc' \in {"adapters", "tool"} => todo' \subseteq AdapterNames
      PROVE  FoundInv'
  BY <1>1 DEF FoundInv, env, ghosts, Instantiated
<1>2. CASE LoadPack
  BY <1>2, PackOfShipped, RegisteredByOwnId DEF LoadPack, FoundInv, detection, ghosts
<1>3. CASE PackMissing
  BY <1>3, PackOfShipped DEF PackMissing, FoundInv, detection, ghosts
<1>4. CASE Select
  <2>1. pc = "load" /\ pc' = "detect" /\ UNCHANGED <<packs, registry, builtin, external, produced>>
    BY <1>4 DEF Select, env, detection, ghosts
  <2>2. rules' \subseteq Instantiated /\ todo' = rules'
    BY <1>4 DEF Select
  <2> QED BY <2>1, <2>2 DEF FoundInv, Instantiated
<1>5. ASSUME NEW id, DetectRaises(id) \/ Unavailable(id) \/ Announce(id) \/ RequestFails(id)
      PROVE  FoundInv'
  BY <1>1, <1>5 DEF DetectRaises, Unavailable, Announce, RequestFails, detection
<1>6. ASSUME NEW id \in NextIn(RuleOrder), Detect(id) \/ Answer(id) PROVE FoundInv'
  <2>1. PICK found \in registry[id].reports : Keep(found)
    BY <1>6 DEF Detect, Answer
  <2>2. /\ pc \in {"detect", "send"} /\ pc' = "detect" /\ todo' = todo \ {id}
        /\ UNCHANGED <<packs, registry, rules, external>>
    BY <1>6 DEF Detect, Answer, env
  <2>3. id \in rules /\ id \in DOMAIN registry
    BY <2>2 DEF FoundInv, NextIn, Instantiated
  <2>4. PICK i \in DOMAIN Packs : registry[id] \in ToSet(Packs[i].rules) /\ registry[id].id = id
    BY <2>3 DEF FoundInv, ByOwnId, Shipped
  <2>5. \A f \in found : OfRule(f, rules)
    BY <2>1, <2>3, <2>4, DetectorsAssumption DEF OfRule
  <2>6. builtin' = builtin \cup found /\ produced' = produced \cup found
    BY <2>1 DEF Keep
  <2> QED BY <2>2, <2>5, <2>6 DEF FoundInv, Instantiated
<1>7. CASE StartAdapters
  BY <1>1, <1>7 DEF StartAdapters, detection
<1>8. ASSUME NEW a, PassOver(a) \/ Skip(a) \/ PreflightFails(a) \/ StartTool(a) \/ RunRaises(a)
      PROVE  FoundInv'
  <2>1. /\ UNCHANGED <<env, rules, builtin, external, ghosts>>
        /\ pc \in {"adapters", "tool"} /\ pc' \in {"adapters", "tool"} /\ todo' \subseteq todo
    BY <1>8 DEF PassOver, Skip, PreflightFails, StartTool, RunRaises, detection
  <2> QED BY <1>1, <2>1 DEF FoundInv
<1>9. ASSUME NEW a \in NextIn(ADAPTERS), ToolAnswers(a) \/ ToolFails(a) PROVE FoundInv'
  <2>1. PICK answer \in Answers[a] \cup {NoAnswer} : Took(a, answer)
    BY <1>9 DEF ToolAnswers, ToolFails
  <2>2. /\ pc = "tool" /\ pc' = "adapters" /\ todo' = todo \ {a}
        /\ UNCHANGED <<packs, registry, rules, builtin>>
    BY <1>9 DEF ToolAnswers, ToolFails, env
  <2>3. a \in AdapterNames
    BY <2>2 DEF FoundInv, NextIn
  <2>4. \A f \in Findings(a, answer) : OfTool(f)
    BY <2>1, <2>3, ToolFindings
  <2>5. external' = external \cup Findings(a, answer) /\ produced' = produced \cup Findings(a, answer)
    BY <2>1 DEF Took
  <2> QED BY <2>2, <2>4, <2>5 DEF FoundInv, Instantiated
<1>10. CASE Conclude
  BY <1>1, <1>10 DEF Conclude, Merge, ApplyMemory, Repair, RepairRefused, Finish, detection
<1>11. CASE UNCHANGED vars
  BY <1>11 DEF vars, env, detection, ghosts, FoundInv, Instantiated
<1> QED BY <1>2, <1>3, <1>4, <1>5, <1>6, <1>7, <1>8, <1>9, <1>10, <1>11
        DEF Next, Load, RunRule, RunAdapter, Stopped

LEMMA FoundAlways == Spec => []FoundInv
<1>1. Init => FoundInv
  BY DetectorsAssumption DEF Init, FoundInv, ByOwnId, Instantiated
<1> QED BY <1>1, NextFoundInv, PTL DEF Spec

-----------------------------------------------------------------------------
(* What a scanner returned; what its line says of it once it is over.       *)
OfAdapter(a) == {f \in produced : f.rule[1] = a}
SaidOf(a) ==
  /\ a \in DOMAIN used
  /\ \/ a \notin silent /\ Counts(a, used[a])
     \/ Excuses(a, used[a])
     \/ SilentAsClean(a, used[a])

SaidInv ==
  /\ pc \in {"adapters", "tool"} => todo \subseteq AdapterNames
  /\ pc = "tool" => \A a \in NextIn(ADAPTERS) :
                      a \in request.installed /\ ~Skipped(a, request.localOnly)
  /\ pc \notin {"adapters", "tool"} \cup Merged => silent = {} /\ external = {}
  /\ pc \in {"adapters", "tool"} => \A a \in todo : a \notin silent /\ OfAdapter(a) = {}
  /\ pc \in {"adapters", "tool"} => \A a \in AdapterNames \ todo : Applicable(a, ctx) => SaidOf(a)
  /\ pc \in Merged => \A a \in AdapterNames : Applicable(a, ctx) => SaidOf(a)
  /\ pc = "done" => report.used = used

(* What was said of an adapter stays true while others run.                *)
LEMMA SaidStays ==
  ASSUME NEW a \in AdapterNames, SaidOf(a), request' = request, a \in DOMAIN used',
         used'[a] = used[a], OfAdapter(a)' = OfAdapter(a), a \in silent' <=> a \in silent
  PROVE  SaidOf(a)'
<1>1. \A said : Counts(a, said) => Counts(a, said)'
  BY DEF Counts, OfAdapter
<1>2. \A said : Excuses(a, said) => Excuses(a, said)'
  BY DEF Excuses, OfAdapter
<1> QED BY <1>1, <1>2 DEF SaidOf, SilentAsClean

(* An adapter that is over leaves the others as they were.                 *)
LEMMA OneIsOver ==
  ASSUME SaidInv, pc \in {"adapters", "tool"}, pc' = "adapters",
         UNCHANGED <<ctx, request>>, NEW a \in AdapterNames, todo' = todo \ {a},
         Applicable(a, ctx) => SaidOf(a)',
         \A b \in AdapterNames \ {a} :
           /\ b \in silent' <=> b \in silent
           /\ OfAdapter(b)' = OfAdapter(b)
           /\ b \in DOMAIN used => b \in DOMAIN used' /\ used'[b] = used[b]
  PROVE  SaidInv'
<1>1. \A b \in AdapterNames \ todo' : Applicable(b, ctx) => SaidOf(b)'
  <2> SUFFICES ASSUME NEW b \in AdapterNames \ todo', Applicable(b, ctx), b # a
               PROVE  SaidOf(b)'
    OBVIOUS
  <2>1. SaidOf(b) /\ b \in DOMAIN used
    BY DEF SaidInv, SaidOf
  <2> QED BY <2>1, SaidStays
<1>2. todo' \subseteq AdapterNames /\ \A b \in todo' : b \notin silent' /\ OfAdapter(b)' = {}
  BY DEF SaidInv
<1> QED BY <1>1, <1>2 DEF SaidInv, Merged

LEMMA NextSaidInv == FoundInv /\ SaidInv /\ [Next]_vars => SaidInv'
<1> SUFFICES ASSUME FoundInv, SaidInv, [Next]_vars PROVE SaidInv'
  OBVIOUS
<1>1. ASSUME pc' \notin {"adapters", "tool"} \cup Merged, pc \notin {"adapters", "tool"} \cup Merged,
             UNCHANGED <<silent, external>>
      PROVE  SaidInv'
  BY <1>1 DEF SaidInv, Merged
<1>2. CASE Load
  BY <1>1, <1>2 DEF Load, LoadPack, PackMissing, Select, Merged, detection, ghosts
<1>3. ASSUME NEW id, Detect(id) \/ DetectRaises(id) \/ Unavailable(id) \/ Announce(id)
                     \/ Answer(id) \/ RequestFails(id)
      PROVE  SaidInv'
  BY <1>1, <1>3 DEF Detect, DetectRaises, Unavailable, Announce, Answer, RequestFails, Keep,
                    Merged, detection, ghosts
<1>4. CASE StartAdapters
  <2>1. /\ pc = "detect" /\ pc' = "adapters" /\ todo' = AdapterNames
        /\ UNCHANGED <<silent, external, produced>>
    BY <1>4 DEF StartAdapters, detection, ghosts
  <2>2. silent = {} /\ external = {} /\ produced = builtin
    BY <2>1 DEF SaidInv, Merged, FoundInv
  <2>3. ASSUME NEW f \in builtin, NEW a \in AdapterNames PROVE f.rule[1] # a
    <3> DEFINE x == f.rule[2]
    <3>1. f.rule = <<"VG", x>>
      BY DEF FoundInv, OfRule
    <3>2. f.rule[1] = "VG"
      <4> HIDE DEF x
      <4> QED BY <3>1
    <3> QED BY <3>2, Names
  <2>4. \A a \in AdapterNames : OfAdapter(a)' = {}
    BY <2>1, <2>2, <2>3 DEF OfAdapter
  <2> QED BY <2>1, <2>2, <2>4 DEF SaidInv, Merged
<1>5. ASSUME NEW a \in NextIn(ADAPTERS), PassOver(a) PROVE SaidInv'
  <2>1. /\ pc = "adapters" /\ pc' = "adapters" /\ todo' = todo \ {a} /\ ~Applicable(a, ctx)
        /\ UNCHANGED <<ctx, request, silent, produced, used>>
    BY <1>5 DEF PassOver, env, tools, ghosts
  <2>2. a \in AdapterNames
    BY <2>1 DEF SaidInv, NextIn
  <2> QED BY <2>1, <2>2, OneIsOver DEF OfAdapter
<1>6. ASSUME NEW a \in NextIn(ADAPTERS), Skip(a) \/ PreflightFails(a) \/ RunRaises(a)
      PROVE  SaidInv'
  <2>1. /\ pc \in {"adapters", "tool"} /\ pc' = "adapters" /\ todo' = todo \ {a}
        /\ UNCHANGED <<ctx, request, silent, produced>>
    BY <1>6 DEF Skip, PreflightFails, RunRaises, env, ghosts
  <2>2. a \in AdapterNames /\ OfAdapter(a) = {}
    BY <2>1 DEF SaidInv, NextIn
  <2>3. PICK outcome :
          /\ Say(a, outcome, 0)
          /\ \/ outcome = "local_only" /\ Skipped(a, request.localOnly)
             \/ outcome = "not installed" /\ a \notin request.installed
             \/ outcome = "preflight error"
             \/ outcome = "run error" /\ a \in request.installed
    <3>1. RunRaises(a) => pc = "tool" /\ Say(a, "run error", 0)
      BY DEF RunRaises
    <3>2. RunRaises(a) => a \in request.installed
      BY <3>1 DEF SaidInv
    <3> QED BY <1>6, <3>1, <3>2 DEF Skip, PreflightFails
  <2>4. /\ a \in DOMAIN used' /\ used'[a].outcome = outcome
        /\ \A b : b # a /\ b \in DOMAIN used => b \in DOMAIN used' /\ used'[b] = used[b]
    BY <2>3 DEF Say
  <2>5. OfAdapter(a)' = {} /\ \A b : OfAdapter(b)' = OfAdapter(b)
    BY <2>1, <2>2 DEF OfAdapter
  <2>6. SaidOf(a)'
    <3>1. Excuses(a, used[a])'
      BY <2>1, <2>3, <2>4, <2>5 DEF Excuses, OfAdapter
    <3> QED BY <2>4, <3>1 DEF SaidOf
  <2> QED BY <2>1, <2>2, <2>4, <2>5, <2>6, OneIsOver
<1>7. ASSUME NEW a \in NextIn(ADAPTERS), ToolAnswers(a) \/ ToolFails(a) PROVE SaidInv'
  <2>1. PICK answer \in Answers[a] \cup {NoAnswer} : Took(a, answer)
    BY <1>7 DEF ToolAnswers, ToolFails
  <2>2. /\ pc = "tool" /\ pc' = "adapters" /\ todo' = todo \ {a} /\ UNCHANGED <<ctx, request>>
    BY <1>7 DEF ToolAnswers, ToolFails, env
  <2>3. /\ a \in AdapterNames /\ OfAdapter(a) = {} /\ a \notin silent
        /\ a \in request.installed /\ ~Skipped(a, request.localOnly)
    BY <2>2 DEF SaidInv, NextIn
  <2> DEFINE new == Findings(a, answer)
             good == Parsed(answer) \in Accepted(a)
  <2>4. \A f \in new : f.rule[1] = a
    BY <2>1, <2>3, ToolFindings
  <2>5. /\ produced' = produced \cup new
        /\ silent' = IF good THEN silent ELSE silent \cup {a}
        /\ Say(a, "ran", Cardinality(new))
    BY <2>1 DEF Took
  <2>6. ~good => new = {}
    BY DEF Findings
  <2> HIDE DEF new, good
  <2>7. OfAdapter(a)' = new
    BY <2>3, <2>4, <2>5 DEF OfAdapter
  <2>8. \A b \in AdapterNames \ {a} : OfAdapter(b)' = OfAdapter(b) /\ (b \in silent' <=> b \in silent)
    BY <2>4, <2>5 DEF OfAdapter
  <2>9. /\ a \in DOMAIN used' /\ used'[a] = [outcome |-> "ran", count |-> Cardinality(new)]
        /\ \A b : b # a /\ b \in DOMAIN used => b \in DOMAIN used' /\ used'[b] = used[b]
    BY <2>5 DEF Say
  <2>10. SaidOf(a)'
    <3>1. CASE good
      <4>1. {f \in produced : f.rule[1] = a}' = new
        BY <2>7 DEF OfAdapter
      <4>2. used'[a].outcome = "ran" /\ used'[a].count = Cardinality(new)
        BY <2>9
      <4>3. Counts(a, used[a])'
        BY <2>2, <2>3, <4>1, <4>2 DEF Counts
      <4> QED BY <2>3, <2>5, <2>9, <3>1, <4>3 DEF SaidOf
    <3>2. CASE ~good
      <4>1. used'[a] = [outcome |-> "ran", count |-> 0] /\ a \in silent'
        BY <2>5, <2>6, <2>9, <3>2, FS_EmptySet
      <4> QED BY <2>9, <4>1 DEF SaidOf, SilentAsClean
    <3> QED BY <3>1, <3>2
  <2> QED BY <2>2, <2>3, <2>8, <2>9, <2>10, OneIsOver
<1>8. ASSUME NEW a \in NextIn(ADAPTERS), StartTool(a) PROVE SaidInv'
  <2>1. /\ pc = "adapters" /\ pc' = "tool" /\ a \in request.installed /\ ~Skipped(a, request.localOnly)
        /\ UNCHANGED <<ctx, request, todo, used, silent, produced>>
    BY <1>8 DEF StartTool, env, ghosts
  <2>2. NextIn(ADAPTERS)' = NextIn(ADAPTERS)
    BY <2>1 DEF NextIn
  <2>3. \A b \in NextIn(ADAPTERS) : b = a
    BY <1>8, OneNext
  <2>4. \A b \in AdapterNames : SaidOf(b)' <=> SaidOf(b)
    BY <2>1 DEF SaidOf, Counts, Excuses, SilentAsClean
  <2>5. \A b : OfAdapter(b)' = OfAdapter(b)
    BY <2>1 DEF OfAdapter
  <2> QED BY <2>1, <2>2, <2>3, <2>4, <2>5 DEF SaidInv, Merged
<1>9. CASE Conclude
  <2>1. /\ UNCHANGED <<ctx, request, todo, used, silent, produced>>
        /\ (pc = "adapters" /\ todo = {}) \/ pc \in Merged \ {"done"}
        /\ pc' \in Merged /\ (pc' = "done" => report'.used = used)
    BY <1>9 DEF Conclude, Merge, ApplyMemory, Repair, RepairRefused, Finish, Merged, env, tools, ghosts
  <2>2. \A b \in AdapterNames : SaidOf(b)' <=> SaidOf(b)
    BY <2>1 DEF SaidOf, Counts, Excuses, SilentAsClean
  <2>3. \A b \in AdapterNames : Applicable(b, ctx) => SaidOf(b)
    BY <2>1 DEF SaidInv
  <2> QED BY <2>1, <2>2, <2>3 DEF SaidInv, Merged
<1>10. CASE UNCHANGED vars
  BY <1>10 DEF vars, env, tools, detection, ghosts, SaidInv, SaidOf, OfAdapter, Counts, Excuses,
              SilentAsClean, NextIn
<1> QED BY <1>2, <1>3, <1>4, <1>5, <1>6, <1>7, <1>8, <1>9, <1>10
        DEF Next, RunRule, RunAdapter, Stopped

(* Of each adapter this repository is for, adapters_used gives the number  *)
(* of its findings or the true reason why there are none, whichever adapter *)
(* raises, is missing or hangs; only one without an answer it understands  *)
(* is listed as if it had found nothing (orchestrator _run_adapters).      *)
THEOREM SaidCorrect == Spec => []EveryToolSaid
<1>1. Init => SaidInv
  BY DEF Init, SaidInv, Merged
<1>2. SaidInv => EveryToolSaid
  BY DEF SaidInv, SaidOf, EveryToolSaid, Merged
<1> QED BY <1>1, <1>2, NextSaidInv, FoundAlways, PTL DEF Spec

-----------------------------------------------------------------------------
(* The findings and notes of the report are those of the merge.            *)
Alone == {f \in Dedup(external) : Hosts(f) = {}}
Noted == {<<First(Hosts(f)), f.rule>> : f \in {g \in Dedup(external) : Hosts(g) # {}}}

MergedInv ==
  /\ pc \in Merged => findings = Dedup(Dedup(builtin) \cup Alone) /\ notes = Noted
  /\ pc = "done" =>
       report.checklist = [t \in Topics |-> Status(t, findings, suppressed, fixed, Detectors)]

LEMMA NextMergedInv == MergedInv /\ [Next]_vars => MergedInv'
<1> SUFFICES ASSUME MergedInv, [Next]_vars PROVE MergedInv'
  OBVIOUS
<1>1. ASSUME pc' \notin Merged PROVE MergedInv'
  BY <1>1 DEF MergedInv, Merged
<1>2. ASSUME detection' = detection PROVE Alone' = Alone /\ Noted' = Noted
  BY <1>2 DEF detection, Alone, Noted, Hosts
<1>3. CASE Load \/ StartAdapters
  BY <1>1, <1>3 DEF Load, LoadPack, PackMissing, Select, StartAdapters, Merged
<1>4. ASSUME NEW id, Detect(id) \/ DetectRaises(id) \/ Unavailable(id) \/ Announce(id)
                     \/ Answer(id) \/ RequestFails(id)
      PROVE  MergedInv'
  BY <1>1, <1>4 DEF Detect, DetectRaises, Unavailable, Announce, Answer, RequestFails, Merged
<1>5. ASSUME NEW a, PassOver(a) \/ Skip(a) \/ PreflightFails(a) \/ StartTool(a)
                    \/ ToolAnswers(a) \/ ToolFails(a) \/ RunRaises(a)
      PROVE  MergedInv'
  BY <1>1, <1>5 DEF PassOver, Skip, PreflightFails, StartTool, ToolAnswers, ToolFails, RunRaises, Merged
<1>6. CASE Merge
  <2>1. pc' = "memory" /\ UNCHANGED <<builtin, external>>
    BY <1>6 DEF Merge
  <2>2. findings' = Dedup(Dedup(builtin) \cup Alone) /\ notes' = Noted
    BY <1>6 DEF Merge, Alone, Noted
  <2>3. Alone' = Alone /\ Noted' = Noted
    BY <2>1 DEF Alone, Noted, Hosts
  <2> QED BY <2>1, <2>2, <2>3 DEF MergedInv
<1>7. CASE ApplyMemory \/ Repair \/ RepairRefused
  <2>1. detection' = detection /\ pc \in Merged /\ pc' # "done"
    BY <1>7 DEF ApplyMemory, Repair, RepairRefused, Merged
  <2> QED BY <1>2, <2>1 DEF MergedInv, detection
<1>8. CASE Finish
  <2>1. /\ pc = "report" /\ UNCHANGED <<detection, suppressed, fixed>>
        /\ report'.checklist = [t \in Topics |-> Status(t, findings, suppressed, fixed, Detectors)]
    BY <1>8 DEF Finish, BuildChecklist, memory
  <2>2. Detectors' = Detectors
    BY <1>8 DEF Finish, env, tools, Detectors, Instantiated
  <2> QED BY <1>2, <2>1, <2>2 DEF MergedInv, Merged, detection
<1>9. CASE UNCHANGED vars
  <2>1. Detectors' = Detectors /\ UNCHANGED <<pc, detection, suppressed, fixed, report>>
    BY <1>9 DEF vars, env, tools, memory, Detectors, Instantiated
  <2> QED BY <1>2, <2>1 DEF MergedInv, detection
<1> QED BY <1>3, <1>4, <1>5, <1>6, <1>7, <1>8, <1>9
        DEF Next, RunRule, RunAdapter, Conclude, Stopped

LEMMA MergedAlways == Spec => []MergedInv
<1>1. Init => MergedInv
  BY DEF Init, MergedInv, Merged
<1> QED BY <1>1, NextMergedInv, PTL DEF Spec

-----------------------------------------------------------------------------
(* Of every fingerprint one finding is kept.                               *)
LEMMA DedupKeeps ==
  ASSUME NEW S, \A f \in S : f.n \in Nat, NEW f \in S
  PROVE  \E g \in Dedup(S) : Fingerprint(g) = Fingerprint(f)
<1> DEFINE Same == {g \in S : Fingerprint(g) = Fingerprint(f)}
           T == {g.n : g \in Same}
<1>1. T \in SUBSET Nat /\ T # {}
  OBVIOUS
<1>2. PICK m \in T : \A k \in T : m <= k
  <2> HIDE DEF T
  <2> QED BY <1>1, LeastNat
<1>3. PICK g \in Same : g.n = m
  OBVIOUS
<1>4. \A h \in S : Fingerprint(h) = Fingerprint(g) => g.n <= h.n
  BY <1>2, <1>3
<1> QED BY <1>3, <1>4 DEF Dedup

(* What is not kept came after what was kept in its stead.                 *)
LEMMA KeptOrSooner ==
  ASSUME NEW S, \A f \in S : f.n \in Nat, NEW f \in S,
         NEW g \in Dedup(S), Fingerprint(g) = Fingerprint(f)
  PROVE  f \in Dedup(S) \/ g.n < f.n
<1>1. g \in S /\ \A h \in S : Fingerprint(h) = Fingerprint(g) => g.n <= h.n
  BY DEF Dedup
<1>2. ASSUME g.n = f.n PROVE f \in Dedup(S)
  <2>1. \A h \in S : Fingerprint(h) = Fingerprint(f) => f.n <= h.n
    BY <1>1, <1>2
  <2> QED BY <2>1 DEF Dedup
<1> QED BY <1>1, <1>2

LEMMA SamePrint ==
  ASSUME NEW f, NEW g, Fingerprint(f) = Fingerprint(g)
  PROVE  f.rule = g.rule /\ f.place = g.place /\ f.text = g.text
BY DEF Fingerprint

(* The ids of the selected rules have places, and different ones.          *)
LEMMA Placed ==
  ASSUME FoundInv, pc # "load", NEW id \in rules
  PROVE  Place(id) \in Nat /\ RuleOrder[Place(id)] = id
<1>1. id \in ToSet(RuleOrder)
  BY ScanAssumption DEF FoundInv, Instantiated, ByOwnId, Shipped
<1>2. \E i \in DOMAIN RuleOrder : RuleOrder[i] = id
  BY <1>1 DEF ToSet
<1>3. Place(id) \in DOMAIN RuleOrder /\ RuleOrder[Place(id)] = id
  BY <1>2 DEF Place
<1> QED BY <1>3, DetectorsAssumption

(* A note goes to one of the findings that show the line.                  *)
LEMMA FirstOf ==
  ASSUME FoundInv, pc # "load", NEW S \in SUBSET builtin, S # {}
  PROVE  First(S) \in S
<1> DEFINE P(f) == Place(f.rule[2])
           T == {P(f) : f \in S}
<1>1. \A f \in S : OfRule(f, rules) /\ P(f) \in Nat /\ RuleOrder[P(f)] = f.rule[2]
  BY Placed DEF FoundInv, OfRule
<1>2. T \in SUBSET Nat /\ T # {}
  BY <1>1
<1>3. PICK p \in T : \A k \in T : p <= k
  <2> HIDE DEF T
  <2> QED BY <1>2, LeastNat
<1> DEFINE U == {f.n : f \in {g \in S : P(g) = p}}
<1>4. U \in SUBSET Nat /\ U # {}
  BY <1>1 DEF OfRule
<1>5. PICK n \in U : \A k \in U : n <= k
  <2> HIDE DEF U
  <2> QED BY <1>4, LeastNat
<1>6. PICK f \in S : P(f) = p /\ f.n = n
  OBVIOUS
<1>7. ASSUME NEW g \in S PROVE P(f) < P(g) \/ (f.rule = g.rule /\ f.n <= g.n)
  <2>1. P(f) <= P(g) /\ P(f) \in Nat /\ P(g) \in Nat
    BY <1>1, <1>3, <1>6
  <2>2. ASSUME P(f) = P(g) PROVE f.rule = g.rule /\ f.n <= g.n
    BY <1>1, <1>5, <1>6, <2>2 DEF OfRule
  <2> QED BY <2>1, <2>2
<1> QED BY <1>6, <1>7 DEF First

-----------------------------------------------------------------------------
(* The second deduplication removes nothing: the fingerprint of a rule's   *)
(* finding is never that of a scanner's.                                   *)
LEMMA MergeKeeps ==
  ASSUME FoundInv
  PROVE  Dedup(builtin) \cup Alone \subseteq Dedup(Dedup(builtin) \cup Alone)
<1> SUFFICES ASSUME NEW f \in Dedup(builtin) \cup Alone, NEW g \in Dedup(builtin) \cup Alone,
                    Fingerprint(g) = Fingerprint(f)
             PROVE  f.n <= g.n
  BY DEF Dedup
<1>1. CASE f \in Dedup(builtin) /\ g \in Dedup(builtin)
  BY <1>1 DEF Dedup
<1>2. CASE f \in Alone /\ g \in Alone
  BY <1>2 DEF Alone, Dedup
<1>3. ASSUME NEW b \in builtin, NEW e \in external PROVE Fingerprint(b) # Fingerprint(e)
  <2>1. b.rule[1] = "VG" /\ e.rule[1] # "VG"
    <3>1. b.rule = <<"VG", b.rule[2]>>
      BY DEF FoundInv, OfRule
    <3>2. e.rule[1] \in AdapterNames
      BY DEF FoundInv, OfTool
    <3>3. \A x : <<"VG", x>>[1] = "VG"
      OBVIOUS
    <3>4. b.rule[1] = "VG"
      <4> DEFINE x == b.rule[2]
      <4>1. b.rule = <<"VG", x>>
        BY <3>1
      <4> HIDE DEF x
      <4> QED BY <4>1, <3>3
    <3> QED BY <3>2, <3>4, Names
  <2> QED BY <2>1, SamePrint
<1>4. Dedup(builtin) \subseteq builtin /\ Alone \subseteq external
  BY DEF Dedup, Alone
<1> QED BY <1>1, <1>2, <1>3, <1>4

(* Whatever a detector returned is in the report, or as a note on a built-in *)
(* finding of the report whose evidence shows the same line, or an earlier  *)
(* report of the same rule, file and text is, for any answers of the       *)
(* scanners and any failures (_dedup, _merge_adapter_findings).            *)
THEOREM AccountedCorrect == Spec => []Accounted
<1>1. FoundInv /\ MergedInv => Accounted
  <2> SUFFICES ASSUME FoundInv, MergedInv, pc \in {"memory", "repair", "report", "done"},
                      NEW f \in produced
               PROVE  f \in findings \/ OnItsLine(f) \/ Sooner(f)
    BY DEF Accounted, SameText, LostUnquoted
  <2>1. Dedup(builtin) \cup Alone \subseteq findings /\ notes = Noted /\ pc # "load"
    BY MergeKeeps DEF MergedInv, Merged
  <2>2. CASE f \in builtin
    <3>1. PICK g \in Dedup(builtin) : Fingerprint(g) = Fingerprint(f)
      BY <2>2, DedupKeeps DEF FoundInv, OfRule
    <3>2. f \in Dedup(builtin) \/ g.n < f.n
      BY <2>2, <3>1, KeptOrSooner DEF FoundInv, OfRule
    <3> QED BY <2>1, <3>1, <3>2 DEF Sooner
  <2>3. CASE f \in external
    <3>1. PICK g \in Dedup(external) : Fingerprint(g) = Fingerprint(f)
      BY <2>3, DedupKeeps DEF FoundInv, OfTool
    <3>2. CASE Hosts(g) = {}
      <4>1. f.quotes = g.quotes
        <5>1. OfTool(f) /\ OfTool(g)
          BY <2>3 DEF FoundInv, Dedup
        <5> QED BY <3>1, <5>1, SamePrint DEF OfTool
      <4>2. Hosts(f) = {}
        BY <3>2, <4>1 DEF Hosts
      <4>3. f \in Dedup(external) \/ g.n < f.n
        BY <2>3, <3>1, KeptOrSooner DEF FoundInv, OfTool
      <4> QED BY <2>1, <3>1, <3>2, <4>2, <4>3 DEF Alone, Sooner
    <3>3. CASE Hosts(g) # {}
      <4> DEFINE b == First(Hosts(g))
      <4>1. b \in Hosts(g)
        <5>1. Hosts(g) \in SUBSET builtin
          BY DEF Hosts, Dedup
        <5> QED BY <2>1, <3>3, <5>1, FirstOf
      <4>2. b \in findings /\ g.quotes \cap b.quotes # {}
        BY <2>1, <4>1 DEF Hosts
      <4>3. f.rule = g.rule /\ f.quotes = g.quotes
        <5>1. OfTool(f) /\ OfTool(g)
          BY <2>3 DEF FoundInv, Dedup
        <5> QED BY <3>1, <5>1, SamePrint DEF OfTool
      <4>4. <<b, g.rule>> \in notes
        BY <2>1, <3>3 DEF Noted
      <4> QED BY <4>2, <4>3, <4>4 DEF OnItsLine
    <3> QED BY <3>2, <3>3
  <2> QED BY <2>2, <2>3 DEF FoundInv
<1> QED BY <1>1, FoundAlways, MergedAlways, PTL

(* An open finding, whatever else its topic is about and however many of   *)
(* the topic's detectors are gated, makes each topic its detector declares *)
(* FAIL, or REVIEW_REQUIRED (engine/checklist.py derive_checklist).        *)
THEOREM OpenCorrect == Spec => []OpenIsNeverGreen
<1>1. FoundInv /\ MergedInv => OpenIsNeverGreen
  <2> DEFINE Declared(f) == IF f.rule[1] = "VG" THEN registry[f.rule[2]].topics
                                               ELSE TopicsOf[f.rule[1]]
  <2> SUFFICES ASSUME FoundInv, MergedInv, pc = "done",
                      NEW f \in (findings \ suppressed) \ fixed,
                      NEW t \in Declared(f) \cap Topics
               PROVE  report.checklist[t] \in {"FAIL", "REVIEW_REQUIRED"}
    BY DEF OpenIsNeverGreen
  <2>1. f \in builtin \cup external
    BY DEF MergedInv, Merged, Dedup, Alone
  <2>2. PICK d \in Owners(f, Detectors) : d \in Detectors /\ t \in d.topics
    <3>1. CASE f \in builtin
      <4>1. f.rule = <<"VG", f.rule[2]>> /\ f.rule[2] \in Instantiated
        BY <3>1 DEF FoundInv, OfRule
      <4> DEFINE d == [key |-> <<"VG", f.rule[2]>>, topics |-> registry[f.rule[2]].topics,
                       applicable |-> f.rule[2] \in rules, external |-> FALSE]
      <4>2. d \in Detectors
        BY <4>1 DEF Detectors
      <4>3. d \in Owners(f, Detectors)
        BY <4>1, <4>2 DEF Owners
      <4> QED BY <4>1, <4>2, <4>3
    <3>2. CASE f \in external
      <4>1. f.rule[1] \in AdapterNames /\ f.rule[1] # "VG"
        BY <3>2, Names DEF FoundInv, OfTool
      <4> DEFINE d == [key |-> f.rule[1], topics |-> TopicsOf[f.rule[1]],
                       applicable |-> f.rule[1] \in ran, external |-> TRUE]
      <4>2. d \in Detectors
        BY <4>1 DEF Detectors
      <4>3. ASSUME NEW e \in Detectors, ~e.external PROVE e.key # f.rule
        <5>1. e.key[1] = "VG"
          BY <4>3 DEF Detectors
        <5> QED BY <4>1, <5>1
      <4>4. d \in Owners(f, Detectors)
        BY <4>2, <4>3 DEF Owners
      <4> QED BY <4>1, <4>2, <4>4
    <3> QED BY <2>1, <3>1, <3>2
  <2>3. f \in Attributed(t, findings, Detectors) /\ IsOpen(f, suppressed, fixed)
    BY <2>2 DEF Attributed, IsOpen, IsFixed
  <2>4. Status(t, findings, suppressed, fixed, Detectors) \in {"FAIL", "REVIEW_REQUIRED"}
    BY <2>2, <2>3 DEF Status
  <2> QED BY <2>4 DEF MergedInv
<1> QED BY <1>1, FoundAlways, MergedAlways, PTL

-----------------------------------------------------------------------------
(* Termination.  A scan goes through its phases in order; within a phase   *)
(* packs are loaded, and rules and scanners are dealt with, one after the  *)
(* other, a prompt or a process being one step more.                       *)
Phase ==
  CASE pc = "load" -> 0
    [] pc \in {"detect", "send"} -> 1
    [] pc \in {"adapters", "tool"} -> 2
    [] pc = "memory" -> 3
    [] pc = "repair" -> 4
    [] pc = "report" -> 5
    [] pc \in {"done", "refused"} -> 6
Left ==
  CASE pc = "load" -> Len(packs)
    [] pc \in {"detect", "adapters"} -> 2 * Cardinality(todo) + 1
    [] pc \in {"send", "tool"} -> 2 * Cardinality(todo)
    [] OTHER -> 0
Advances == Phase < Phase' \/ (Phase = Phase' /\ Left' < Left)

Places == {"load", "detect", "send", "adapters", "tool"} \cup Merged
PlaceInv == pc \in Places
ListInv ==
  /\ PlaceInv
  /\ packs \in Seq(ToSet(Packs))
  /\ pc \in {"detect", "send", "adapters", "tool"} => IsFiniteSet(todo)

LEMMA FiniteRange ==
  ASSUME NEW S, NEW s \in Seq(S)
  PROVE  IsFiniteSet(ToSet(s))
<1>1. IsFiniteSet(DOMAIN s)
  BY FS_Interval
<1>2. s \in Surjection(DOMAIN s, ToSet(s))
  BY DEF Surjection, ToSet
<1> QED BY <1>1, <1>2, FS_Surjection

(* There are finitely many rules and scanners to run.                      *)
LEMMA FiniteList ==
  ASSUME FoundInv, pc \in {"detect", "send", "adapters", "tool"}
  PROVE  IsFiniteSet(todo)
<1>1. IsFiniteSet(AdapterNames)
  <2>1. PICK n \in Nat : DOMAIN ADAPTERS = 1..n
    BY DEF ADAPTERS
  <2> DEFINE s == [i \in 1..n |-> ADAPTERS[i]]
  <2>2. s \in Surjection(1..n, AdapterNames)
    BY <2>1 DEF Surjection, AdapterNames
  <2>3. IsFiniteSet(1..n)
    BY FS_Interval
  <2> QED BY <2>2, <2>3, FS_Surjection
<1>2. IsFiniteSet(ToSet(RuleOrder))
  BY FiniteRange, DetectorsAssumption
<1>3. todo \subseteq ToSet(RuleOrder) \/ todo \subseteq AdapterNames
  <2>1. DOMAIN registry \subseteq ToSet(RuleOrder)
    BY ScanAssumption DEF FoundInv, ByOwnId, Shipped
  <2> QED BY <2>1 DEF FoundInv, Instantiated
<1> QED BY <1>1, <1>2, <1>3, FS_Subset

LEMMA PlaceKept == PlaceInv /\ [Next]_vars => PlaceInv'
<1> USE DEF PlaceInv
<1> SUFFICES ASSUME PlaceInv, [Next]_vars PROVE PlaceInv'
  OBVIOUS
<1>1. CASE Load \/ RunRule
  BY <1>1 DEF Places, Load, LoadPack, PackMissing, Select, RunRule, Detect, DetectRaises, Unavailable,
              Announce, Answer, RequestFails
<1>2. CASE RunAdapter
  BY <1>2 DEF Places, RunAdapter, StartAdapters, PassOver, Skip, PreflightFails, StartTool,
              ToolAnswers, ToolFails, RunRaises
<1>3. CASE Conclude
  BY <1>3 DEF Places, Merged, Conclude, Merge, ApplyMemory, Repair, RepairRefused, Finish
<1>4. CASE UNCHANGED vars
  BY <1>4 DEF vars
<1> QED BY <1>1, <1>2, <1>3, <1>4 DEF Next, Stopped

LEMMA OneLess ==
  ASSUME IsFiniteSet(todo), NEW x \in todo, todo' = todo \ {x}
  PROVE  /\ Cardinality(todo) \in Nat /\ Cardinality(todo') \in Nat
         /\ Cardinality(todo') = Cardinality(todo) - 1
BY FS_RemoveElement, FS_CardinalityType

LEMMA NextAdvances == ListInv /\ Next /\ vars' # vars => Advances
<1> SUFFICES ASSUME ListInv, Next, vars' # vars PROVE Advances
  OBVIOUS
<1>1. CASE Load
  <2>1. CASE LoadPack \/ PackMissing
    <3>1. pc = "load" /\ pc' = "load" /\ packs # <<>> /\ packs' = Tail(packs)
      BY <2>1 DEF LoadPack, PackMissing
    <3>2. Len(packs') < Len(packs)
      BY <3>1 DEF ListInv
    <3> QED BY <3>1, <3>2 DEF Advances, Phase, Left
  <2>2. CASE Select
    BY <2>2 DEF Select, Advances, Phase
  <2> QED BY <1>1, <2>1, <2>2 DEF Load
<1>2. ASSUME NEW id \in NextIn(RuleOrder),
             \/ Detect(id) \/ DetectRaises(id) \/ Unavailable(id)
             \/ Answer(id) \/ RequestFails(id)
      PROVE  Advances
  <2>1. pc \in {"detect", "send"} /\ pc' = "detect" /\ todo' = todo \ {id} /\ id \in todo
    BY <1>2 DEF Detect, DetectRaises, Unavailable, Answer, RequestFails, NextIn
  <2>2. /\ Cardinality(todo) \in Nat /\ Cardinality(todo') \in Nat
        /\ Cardinality(todo') = Cardinality(todo) - 1
    BY <2>1, OneLess DEF ListInv
  <2> QED BY <2>1, <2>2 DEF Advances, Phase, Left
<1>3. ASSUME NEW id, Announce(id) PROVE Advances
  <2>1. pc = "detect" /\ pc' = "send" /\ todo' = todo
    BY <1>3 DEF Announce
  <2>2. Cardinality(todo) \in Nat
    BY <2>1, FS_CardinalityType DEF ListInv
  <2> QED BY <2>1, <2>2 DEF Advances, Phase, Left
<1>4. CASE StartAdapters
  BY <1>4 DEF StartAdapters, Advances, Phase
<1>5. ASSUME NEW a \in NextIn(ADAPTERS),
             \/ PassOver(a) \/ Skip(a) \/ PreflightFails(a)
             \/ ToolAnswers(a) \/ ToolFails(a) \/ RunRaises(a)
      PROVE  Advances
  <2>1. pc \in {"adapters", "tool"} /\ pc' = "adapters" /\ todo' = todo \ {a} /\ a \in todo
    BY <1>5 DEF PassOver, Skip, PreflightFails, ToolAnswers, ToolFails, RunRaises, NextIn
  <2>2. /\ Cardinality(todo) \in Nat /\ Cardinality(todo') \in Nat
        /\ Cardinality(todo') = Cardinality(todo) - 1
    BY <2>1, OneLess DEF ListInv
  <2> QED BY <2>1, <2>2 DEF Advances, Phase, Left
<1>6. ASSUME NEW a, StartTool(a) PROVE Advances
  <2>1. pc = "adapters" /\ pc' = "tool" /\ todo' = todo
    BY <1>6 DEF StartTool
  <2>2. Cardinality(todo) \in Nat
    BY <2>1, FS_CardinalityType DEF ListInv
  <2> QED BY <2>1, <2>2 DEF Advances, Phase, Left
<1>7. CASE Conclude
  BY <1>7 DEF Conclude, Merge, ApplyMemory, Repair, RepairRefused, Finish, Advances, Phase
<1> QED BY <1>1, <1>2, <1>3, <1>4, <1>5, <1>6, <1>7 DEF Next, RunRule, RunAdapter, Stopped

(* Whatever rules raise, prompts go unanswered and tools hang or fail,     *)
(* every step of a scan ends a phase or brings the next one nearer, and    *)
(* none of the distances is infinite: with fairness, ScanEnds.             *)
THEOREM ScanAdvances ==
  Spec => [](Phase \in Nat /\ Left \in Nat) /\ [][Advances]_vars
<1>1. Init => PlaceInv
  BY DEF Init, PlaceInv, Places
<1>2. FoundInv /\ PlaceInv => ListInv
  BY FiniteList DEF ListInv, PlaceInv, FoundInv
<1>3. ListInv => Phase \in Nat /\ Left \in Nat
  <2> SUFFICES ASSUME ListInv PROVE Phase \in Nat /\ Left \in Nat
    OBVIOUS
  <2>1. Len(packs) \in Nat
    BY DEF ListInv
  <2>2. pc \in {"detect", "send", "adapters", "tool"} => Cardinality(todo) \in Nat
    BY FS_CardinalityType DEF ListInv
  <2> QED BY <2>1, <2>2 DEF ListInv, PlaceInv, Phase, Left, Places, Merged
<1>4. ListInv /\ [Next]_vars => [Advances]_vars
  BY NextAdvances
<1> QED BY <1>1, <1>2, <1>3, <1>4, FoundAlways, PlaceKept, PTL DEF Spec

-----------------------------------------------------------------------------
(* Scores.  The product and the sum over a finite set are one recursion    *)
(* over its subsets, with two operations.                                  *)
Combine(add, a, b) == IF add THEN a + b ELSE a * b
Over(k, add, value, S) ==
  IF S = {} THEN (IF add THEN 0 ELSE 1)
  ELSE LET x == CHOOSE x \in S : TRUE IN Combine(add, value[x], k[S \ {x}])
Solves(k, add, value, Sets) == k = [S \in Sets |-> Over(k, add, value, S)]
UpTo(D, n) == {S \in SUBSET D : Cardinality(S) <= n}
Total(add, value) == IF add THEN SumOf(value) ELSE ProductOf(value)

LEMMA Smaller ==
  ASSUME NEW S, IsFiniteSet(S), NEW x \in S
  PROVE  /\ IsFiniteSet(S \ {x}) /\ S \ {x} # S
         /\ Cardinality(S) \in Nat /\ Cardinality(S) # 0
         /\ Cardinality(S \ {x}) = Cardinality(S) - 1
BY FS_RemoveElement, FS_CardinalityType, FS_EmptySet

LEMMA Chosen ==
  ASSUME NEW S, S # {}
  PROVE  (CHOOSE x \in S : TRUE) \in S
OBVIOUS

LEMMA SolutionExists ==
  ASSUME NEW D, IsFiniteSet(D), NEW add, NEW value, NEW n \in Nat
  PROVE  \E k : Solves(k, add, value, UpTo(D, n))
<1> USE DEF UpTo
<1> DEFINE T == {m \in Nat : ~\E k : Solves(k, add, value, UpTo(D, m))}
<1> SUFFICES ASSUME T # {} PROVE FALSE
  OBVIOUS
<1>1. PICK m \in T : \A l \in T : m <= l
  <2>1. T \in SUBSET Nat
    OBVIOUS
  <2> HIDE DEF T
  <2> QED BY <2>1, LeastNat
<1>2. \A S \in SUBSET D : IsFiniteSet(S) /\ Cardinality(S) \in Nat /\ (Cardinality(S) = 0 <=> S = {})
  BY FS_Subset, FS_CardinalityType, FS_EmptySet
<1>3. CASE m = 0
  <2> DEFINE k == [S \in UpTo(D, 0) |-> IF add THEN 0 ELSE 1]
  <2>1. \A S \in UpTo(D, 0) : S = {}
    BY <1>2
  <2>2. \A S \in UpTo(D, 0) : Over(k, add, value, S) = IF add THEN 0 ELSE 1
    BY <2>1 DEF Over
  <2>3. Solves(k, add, value, UpTo(D, 0))
    BY <2>2 DEF Solves
  <2> QED BY <1>1, <1>3, <2>3
<1>4. CASE m # 0
  <2>1. m - 1 \in Nat /\ m - 1 \notin T /\ m \in Nat
    <3>1. m \in Nat
      OBVIOUS
    <3> HIDE DEF T
    <3> QED BY <1>1, <1>4, <3>1
  <2>2. PICK g : Solves(g, add, value, UpTo(D, m - 1))
    BY <2>1
  <2> DEFINE k == [S \in UpTo(D, m) |-> Over(g, add, value, S)]
  <2>3. ASSUME NEW S \in UpTo(D, m) PROVE Over(g, add, value, S) = Over(k, add, value, S)
    <3>1. CASE S = {}
      BY <3>1 DEF Over
    <3>2. CASE S # {}
      <4> DEFINE x == CHOOSE x \in S : TRUE
      <4>1. x \in S
        BY <3>2, Chosen
      <4>2. S \ {x} \in UpTo(D, m - 1) /\ S \ {x} \in UpTo(D, m)
        <5>1. S \in SUBSET D /\ Cardinality(S) <= m /\ IsFiniteSet(S)
          BY <1>2
        <5>2. Cardinality(S) \in Nat /\ Cardinality(S \ {x}) = Cardinality(S) - 1
          BY <4>1, <5>1, Smaller
        <5> HIDE DEF x
        <5> QED BY <2>1, <5>1, <5>2
      <4>3. g[S \ {x}] = k[S \ {x}]
        <5>1. g[S \ {x}] = Over(g, add, value, S \ {x})
          BY <2>2, <4>2 DEF Solves
        <5> QED BY <4>2, <5>1
      <4> QED BY <3>2, <4>3 DEF Over
    <3> QED BY <3>1, <3>2
  <2>4. Solves(k, add, value, UpTo(D, m))
    BY <2>3 DEF Solves
  <2> QED BY <1>1, <2>4
<1> QED BY <1>3, <1>4

LEMMA TotalSolves ==
  ASSUME NEW value, IsFiniteSet(DOMAIN value), NEW add \in BOOLEAN
  PROVE  \E k : /\ Solves(k, add, value, SUBSET DOMAIN value)
                /\ Total(add, value) = k[DOMAIN value]
<1> DEFINE D == DOMAIN value
           n == Cardinality(D)
<1>1. n \in Nat /\ UpTo(D, n) = SUBSET D
  BY FS_Subset, FS_CardinalityType DEF UpTo
<1>2. \E k : Solves(k, add, value, SUBSET D)
  <2>1. IsFiniteSet(D)
    OBVIOUS
  <2> HIDE DEF D, n
  <2>2. \E k : Solves(k, add, value, UpTo(D, n))
    BY <1>1, <2>1, SolutionExists
  <2> QED BY <1>1, <2>2
<1>3. CASE add
  <2> DEFINE Is(k) == k = [S \in SUBSET D |->
                        IF S = {} THEN 0
                        ELSE LET x == CHOOSE x \in S : TRUE IN value[x] + k[S \ {x}]]
             w == CHOOSE k : Is(k)
  <2>1. Total(add, value) = w[D]
    BY <1>3 DEF Total, SumOf
  <2>2. \A k : Solves(k, add, value, SUBSET D) <=> Is(k)
    BY <1>3 DEF Solves, Over, Combine
  <2>3. Solves(w, add, value, SUBSET D)
    <3> HIDE DEF Is
    <3>1. Is(w)
      BY <1>2, <2>2
    <3> QED BY <2>2, <3>1
  <2> QED BY <2>1, <2>3
<1>4. CASE ~add
  <2> DEFINE Is(k) == k = [S \in SUBSET D |->
                        IF S = {} THEN 1
                        ELSE LET x == CHOOSE x \in S : TRUE IN value[x] * k[S \ {x}]]
             w == CHOOSE k : Is(k)
  <2>1. Total(add, value) = w[D]
    BY <1>4 DEF Total, ProductOf
  <2>2. \A k : Solves(k, add, value, SUBSET D) <=> Is(k)
    BY <1>4 DEF Solves, Over, Combine
  <2>3. Solves(w, add, value, SUBSET D)
    <3> HIDE DEF Is
    <3>1. Is(w)
      BY <1>2, <2>2
    <3> QED BY <2>2, <3>1
  <2> QED BY <2>1, <2>3
<1> QED BY <1>3, <1>4

(* The order is immaterial: any element may be split off first.            *)
TotalOn(k, add, value, D) ==
  /\ k[{}] = (IF add THEN 0 ELSE 1)
  /\ \A U \in SUBSET D : k[U] \in Nat
  /\ \A U \in SUBSET D : \A x \in U : k[U] = Combine(add, value[x], k[U \ {x}])

LEMMA AnyOrder ==
  ASSUME NEW D, IsFiniteSet(D), NEW value \in [D -> Nat], NEW add \in BOOLEAN,
         NEW k, Solves(k, add, value, SUBSET D)
  PROVE  TotalOn(k, add, value, D)
<1> DEFINE P(U) == /\ k[U] \in Nat
                   /\ \A x \in U : k[U] = Combine(add, value[x], k[U \ {x}])
           T == {n \in Nat : \E U \in SUBSET D : Cardinality(U) = n /\ ~P(U)}
<1>1. \A U \in SUBSET D : IsFiniteSet(U) /\ Cardinality(U) \in Nat
  BY FS_Subset, FS_CardinalityType
<1>2. T = {}
  <2> SUFFICES ASSUME T # {} PROVE FALSE
    OBVIOUS
  <2>1. PICK m \in T : \A l \in T : m <= l
    <3>1. T \in SUBSET Nat
      OBVIOUS
    <3> HIDE DEF T
    <3> QED BY <3>1, LeastNat
  <2>2. PICK U \in SUBSET D : Cardinality(U) = m /\ ~P(U)
    BY <2>1
  <2>3. ASSUME NEW x \in U PROVE P(U \ {x})
    <3>1. Cardinality(U \ {x}) = m - 1 /\ m - 1 \in Nat /\ U \ {x} \in SUBSET D /\ m \in Nat
      BY <1>1, <2>2, Smaller
    <3>2. m - 1 \notin T
      <4> HIDE DEF T
      <4> QED BY <2>1, <3>1
    <3> HIDE DEF P
    <3> QED BY <3>1, <3>2
  <2>4. CASE U = {}
    BY <2>2, <2>4 DEF Solves, Over
  <2>5. CASE U # {}
    <3> DEFINE c == CHOOSE x \in U : TRUE
    <3>1. c \in U
      BY <2>5, Chosen
    <3>2. k[U] = Combine(add, value[c], k[U \ {c}])
      BY <2>5 DEF Solves, Over
    <3>3. \A x \in U : value[x] \in Nat
      OBVIOUS
    <3> HIDE DEF c
    <3>4. k[U \ {c}] \in Nat
      BY <2>3, <3>1
    <3>5. k[U] \in Nat
      BY <3>1, <3>2, <3>3, <3>4 DEF Combine
    <3>6. ASSUME NEW x \in U, x # c PROVE k[U] = Combine(add, value[x], k[U \ {x}])
      <4> DEFINE r == k[(U \ {c}) \ {x}]
      <4>1. k[U \ {c}] = Combine(add, value[x], r)
        BY <2>3, <3>1, <3>6
      <4>2. (U \ {x}) \ {c} = (U \ {c}) \ {x}
        OBVIOUS
      <4>3. k[U \ {x}] = Combine(add, value[c], r)
        <5>1. c \in U \ {x}
          BY <3>1, <3>6
        <5>2. P(U \ {x})
          BY <2>3
        <5> QED BY <4>2, <5>1, <5>2
      <4>4. r \in Nat
        <5>1. x \in U \ {c} /\ (U \ {c}) \ {x} \in SUBSET D
          BY <3>6
        <5>2. Cardinality((U \ {c}) \ {x}) \in Nat /\ Cardinality((U \ {c}) \ {x}) < m
          <6> DEFINE V == U \ {c}
          <6>1. IsFiniteSet(V) /\ Cardinality(V) = m - 1 /\ m \in Nat /\ x \in V
            BY <1>1, <2>2, <3>1, <5>1, Smaller
          <6> HIDE DEF V
          <6>2. Cardinality(V) \in Nat /\ Cardinality(V) # 0 /\ Cardinality(V \ {x}) = Cardinality(V) - 1
            BY <6>1, Smaller
          <6>3. Cardinality(V \ {x}) \in Nat /\ Cardinality(V \ {x}) < m
            BY <6>1, <6>2
          <6> QED BY <6>3 DEF V
        <5>3. P((U \ {c}) \ {x})
          <6> DEFINE l == Cardinality((U \ {c}) \ {x})
          <6>1. l \notin T
            <7>1. l \in Nat /\ l < m /\ m \in Nat
              BY <5>2
            <7> HIDE DEF T, l
            <7> QED BY <2>1, <7>1
          <6> HIDE DEF P
          <6> QED BY <5>1, <5>2, <6>1
        <5> QED BY <5>3
      <4>5. value[x] \in Nat /\ value[c] \in Nat
        BY <3>1, <3>3
      <4> HIDE DEF r
      <4> QED
        <5>1. \A p, q, z \in Nat : p + (q + z) = q + (p + z) /\ p * (q * z) = q * (p * z)
          OBVIOUS
        <5> QED BY <3>2, <4>1, <4>3, <4>4, <4>5, <5>1 DEF Combine
    <3>7. P(U)
      BY <3>2, <3>5, <3>6
    <3> QED BY <2>2, <3>7
  <2> QED BY <2>4, <2>5
<1>3. ASSUME NEW S \in SUBSET D PROVE P(S)
  <2>1. Cardinality(S) \notin T
    BY <1>2
  <2> HIDE DEF P
  <2> QED BY <1>1, <2>1
<1>4. \A U \in SUBSET D : k[U] \in Nat
  BY <1>3
<1>5. \A U \in SUBSET D : \A x \in U : k[U] = Combine(add, value[x], k[U \ {x}])
  BY <1>3
<1>6. k[{}] = (IF add THEN 0 ELSE 1)
  <2>1. {} \in SUBSET D
    OBVIOUS
  <2>2. k[{}] = Over(k, add, value, {})
    BY <2>1 DEF Solves
  <2> QED BY <2>2 DEF Over
<1> QED BY <1>4, <1>5, <1>6 DEF TotalOn

(* Two functions that agree on a set have one total over it.               *)
LEMMA SameTotal ==
  ASSUME NEW D, IsFiniteSet(D), NEW add, NEW value, NEW k, Solves(k, add, value, SUBSET D),
         NEW E, NEW other, NEW l, Solves(l, add, other, SUBSET E),
         NEW S \in SUBSET D, S \subseteq E, \A x \in S : value[x] = other[x]
  PROVE  k[S] = l[S]
<1> DEFINE T == {n \in Nat : \E U \in SUBSET S : Cardinality(U) = n /\ k[U] # l[U]}
<1>1. \A U \in SUBSET S : IsFiniteSet(U) /\ Cardinality(U) \in Nat
  BY FS_Subset, FS_CardinalityType
<1>2. T = {}
  <2> SUFFICES ASSUME T # {} PROVE FALSE
    OBVIOUS
  <2>1. PICK m \in T : \A n \in T : m <= n
    <3>1. T \in SUBSET Nat
      OBVIOUS
    <3> HIDE DEF T
    <3> QED BY <3>1, LeastNat
  <2>2. PICK U \in SUBSET S : Cardinality(U) = m /\ k[U] # l[U]
    BY <2>1
  <2>3. U \in SUBSET D /\ U \in SUBSET E
    OBVIOUS
  <2>4. k[U] = Over(k, add, value, U) /\ l[U] = Over(l, add, other, U)
    BY <2>3 DEF Solves
  <2>5. CASE U = {}
    BY <2>2, <2>4, <2>5 DEF Over
  <2>6. CASE U # {}
    <3> DEFINE c == CHOOSE x \in U : TRUE
    <3>1. c \in U /\ value[c] = other[c]
      BY <2>6, Chosen
    <3>2. Cardinality(U \ {c}) = m - 1 /\ m - 1 \in Nat /\ m \in Nat /\ U \ {c} \in SUBSET S
      <4> HIDE DEF c
      <4> QED BY <1>1, <2>2, <3>1, Smaller
    <3>3. m - 1 \notin T
      <4> HIDE DEF T
      <4> QED BY <2>1, <3>2
    <3>4. k[U \ {c}] = l[U \ {c}]
      BY <3>2, <3>3
    <3> QED BY <2>2, <2>4, <2>6, <3>1, <3>4 DEF Over
  <2> QED BY <2>5, <2>6
<1>3. Cardinality(S) \notin T
  BY <1>2
<1> QED BY <1>1, <1>3

(* One value at a time.                                                    *)
LEMMA TotalSplit ==
  ASSUME NEW D, IsFiniteSet(D), NEW value \in [D -> Nat], NEW add \in BOOLEAN
  PROVE  /\ Total(add, value) \in Nat
         /\ D = {} => Total(add, value) = IF add THEN 0 ELSE 1
         /\ \A x \in D : Total(add, value)
                          = Combine(add, value[x], Total(add, [y \in D \ {x} |-> value[y]]))
<1>1. PICK k : Solves(k, add, value, SUBSET D) /\ Total(add, value) = k[D]
  <2>1. DOMAIN value = D
    OBVIOUS
  <2> QED BY <2>1, TotalSolves
<1>2. D \in SUBSET D
  OBVIOUS
<1>3. k[D] \in Nat /\ \A x \in D : k[D] = Combine(add, value[x], k[D \ {x}])
  BY <1>1, <1>2, AnyOrder DEF TotalOn
<1>4. D = {} => k[D] = IF add THEN 0 ELSE 1
  BY <1>1, <1>2 DEF Solves, Over
<1>5. ASSUME NEW x \in D
      PROVE  k[D \ {x}] = Total(add, [y \in D \ {x} |-> value[y]])
  <2> DEFINE E == D \ {x}
             rest == [y \in E |-> value[y]]
  <2>1. IsFiniteSet(E) /\ DOMAIN rest = E
    BY Smaller
  <2>2. PICK l : Solves(l, add, rest, SUBSET E) /\ Total(add, rest) = l[E]
    <3> HIDE DEF rest, E
    <3> QED BY <2>1, TotalSolves
  <2>3. E \in SUBSET D /\ E \subseteq E /\ \A y \in E : value[y] = rest[y]
    OBVIOUS
  <2> HIDE DEF E, rest
  <2>4. k[E] = l[E]
    BY <1>1, <2>2, <2>3, SameTotal
  <2> QED BY <2>2, <2>4 DEF E, rest
<1> QED BY <1>1, <1>3, <1>4, <1>5

(* What a solution gives for a product, and for a sum.                     *)
ProductOn(k, value, D) ==
  /\ k[{}] = 1
  /\ \A U \in SUBSET D : k[U] \in Nat
  /\ \A U \in SUBSET D : \A x \in U : k[U] = value[x] * k[U \ {x}]
SumOn(k, value, D) ==
  /\ k[{}] = 0
  /\ \A U \in SUBSET D : k[U] \in Nat
  /\ \A U \in SUBSET D : \A x \in U : k[U] = value[x] + k[U \ {x}]

LEMMA TotalSteps ==
  ASSUME NEW D, IsFiniteSet(D), NEW value \in [D -> Nat], NEW add \in BOOLEAN
  PROVE  \E k : Total(add, value) = k[D] /\ TotalOn(k, add, value, D)
<1>1. PICK k : Solves(k, add, value, SUBSET D) /\ Total(add, value) = k[D]
  <2>1. DOMAIN value = D
    OBVIOUS
  <2> QED BY <2>1, TotalSolves
<1>2. TotalOn(k, add, value, D)
  BY <1>1, AnyOrder
<1> QED BY <1>1, <1>2

LEMMA ProductSteps ==
  ASSUME NEW D, IsFiniteSet(D), NEW value \in [D -> Nat]
  PROVE  \E k : ProductOf(value) = k[D] /\ ProductOn(k, value, D)
<1>1. ASSUME NEW add \in BOOLEAN, ~add
      PROVE  \E k : ProductOf(value) = k[D] /\ ProductOn(k, value, D)
  <2>1. PICK k : Total(add, value) = k[D] /\ TotalOn(k, add, value, D)
    BY TotalSteps
  <2>2. ProductOf(value) = k[D] /\ k[{}] = 1
    BY <1>1, <2>1 DEF Total, TotalOn
  <2>3. \A a, b : Combine(add, a, b) = a * b
    BY <1>1 DEF Combine
  <2>4. ProductOn(k, value, D)
    BY <2>1, <2>2, <2>3 DEF ProductOn, TotalOn
  <2> QED BY <2>2, <2>4
<1>2. \E add \in BOOLEAN : ~add
  OBVIOUS
<1> QED BY <1>1, <1>2

LEMMA SumSteps ==
  ASSUME NEW D, IsFiniteSet(D), NEW value \in [D -> Nat]
  PROVE  \E k : SumOf(value) = k[D] /\ SumOn(k, value, D)
<1>1. ASSUME NEW add \in BOOLEAN, add
      PROVE  \E k : SumOf(value) = k[D] /\ SumOn(k, value, D)
  <2>1. PICK k : Total(add, value) = k[D] /\ TotalOn(k, add, value, D)
    BY TotalSteps
  <2>2. SumOf(value) = k[D] /\ k[{}] = 0
    BY <1>1, <2>1 DEF Total, TotalOn
  <2>3. \A a, b : Combine(add, a, b) = a + b
    BY <1>1 DEF Combine
  <2>4. SumOn(k, value, D)
    BY <2>1, <2>2, <2>3 DEF SumOn, TotalOn
  <2> QED BY <2>2, <2>4
<1>2. \E add \in BOOLEAN : add
  OBVIOUS
<1> QED BY <1>1, <1>2

LEMMA ProductPositive ==
  ASSUME NEW D, IsFiniteSet(D), NEW value \in [D -> Nat], \A x \in D : value[x] # 0
  PROVE  ProductOf(value) \in Nat \ {0}
<1>1. PICK k : ProductOf(value) = k[D] /\ ProductOn(k, value, D)
  BY ProductSteps
<1> DEFINE T == {n \in Nat : \E U \in SUBSET D : Cardinality(U) = n /\ k[U] = 0}
<1>2. \A U \in SUBSET D : IsFiniteSet(U) /\ Cardinality(U) \in Nat
  BY FS_Subset, FS_CardinalityType
<1>3. T = {}
  <2> SUFFICES ASSUME T # {} PROVE FALSE
    OBVIOUS
  <2>1. PICK m \in T : \A n \in T : m <= n
    <3>1. T \in SUBSET Nat
      OBVIOUS
    <3> HIDE DEF T
    <3> QED BY <3>1, LeastNat
  <2>2. PICK U \in SUBSET D : Cardinality(U) = m /\ k[U] = 0
    BY <2>1
  <2>3. ASSUME U = {} PROVE FALSE
    <3>1. k[U] = 1
      BY <1>1, <2>3 DEF ProductOn
    <3> QED BY <2>2, <3>1
  <2>4. PICK x \in U : TRUE
    BY <2>3
  <2>5. Cardinality(U \ {x}) = m - 1 /\ m - 1 \in Nat /\ m \in Nat /\ U \ {x} \in SUBSET D
    BY <1>2, <2>2, Smaller
  <2>6. m - 1 \notin T
    <3> HIDE DEF T
    <3> QED BY <2>1, <2>5
  <2>7. k[U \ {x}] # 0
    BY <2>5, <2>6
  <2>8. k[U \ {x}] \in Nat /\ k[U] = value[x] * k[U \ {x}]
    BY <1>1, <2>5 DEF ProductOn
  <2>9. value[x] \in Nat /\ value[x] # 0
    OBVIOUS
  <2>10. \A p, q \in Nat : p # 0 /\ q # 0 => p * q # 0
    OBVIOUS
  <2> QED BY <2>2, <2>7, <2>8, <2>9, <2>10
<1>4. D \in SUBSET D /\ Cardinality(D) \notin T
  BY <1>3
<1>5. k[D] # 0
  BY <1>2, <1>4
<1> QED BY <1>1, <1>4, <1>5 DEF ProductOn

LEMMA SumGrows ==
  ASSUME NEW D, IsFiniteSet(D), NEW less \in [D -> Nat], NEW more \in [D -> Nat],
         \A x \in D : less[x] <= more[x]
  PROVE  SumOf(less) <= SumOf(more)
<1>2. PICK k : SumOf(less) = k[D] /\ SumOn(k, less, D)
  BY SumSteps
<1>3. PICK l : SumOf(more) = l[D] /\ SumOn(l, more, D)
  BY SumSteps
<1> DEFINE T == {n \in Nat : \E U \in SUBSET D : Cardinality(U) = n /\ ~(k[U] <= l[U])}
<1>4. \A U \in SUBSET D : IsFiniteSet(U) /\ Cardinality(U) \in Nat
  BY FS_Subset, FS_CardinalityType
<1>5. T = {}
  <2> SUFFICES ASSUME T # {} PROVE FALSE
    OBVIOUS
  <2>1. PICK m \in T : \A n \in T : m <= n
    <3>1. T \in SUBSET Nat
      OBVIOUS
    <3> HIDE DEF T
    <3> QED BY <3>1, LeastNat
  <2>2. PICK U \in SUBSET D : Cardinality(U) = m /\ ~(k[U] <= l[U])
    BY <2>1
  <2>3. ASSUME U = {} PROVE FALSE
    <3>1. k[U] = 0 /\ l[U] = 0
      BY <1>2, <1>3, <2>3 DEF SumOn
    <3> QED BY <2>2, <3>1
  <2>4. PICK x \in U : TRUE
    BY <2>3
  <2>5. Cardinality(U \ {x}) = m - 1 /\ m - 1 \in Nat /\ m \in Nat /\ U \ {x} \in SUBSET D
    BY <1>4, <2>2, Smaller
  <2>6. m - 1 \notin T
    <3> HIDE DEF T
    <3> QED BY <2>1, <2>5
  <2>7. k[U \ {x}] <= l[U \ {x}]
    BY <2>5, <2>6
  <2>8. k[U \ {x}] \in Nat /\ k[U] = less[x] + k[U \ {x}]
    BY <1>2, <2>5 DEF SumOn
  <2>9. l[U \ {x}] \in Nat /\ l[U] = more[x] + l[U \ {x}]
    BY <1>3, <2>5 DEF SumOn
  <2>10. less[x] \in Nat /\ more[x] \in Nat /\ less[x] <= more[x]
    OBVIOUS
  <2> QED BY <2>2, <2>7, <2>8, <2>9, <2>10
<1>6. D \in SUBSET D /\ Cardinality(D) \notin T
  BY <1>5
<1> QED BY <1>2, <1>3, <1>4, <1>6

-----------------------------------------------------------------------------
(* Python's round is half a unit off at most, and even when it is half a   *)
(* unit off; so it is monotonic.                                           *)
LEMMA RoundBounds ==
  ASSUME NEW a \in Nat, NEW b \in Nat \ {0}
  PROVE  /\ Round(a, b) \in Nat
         /\ 2 * a <= b * (2 * Round(a, b) + 1) /\ b * (2 * Round(a, b) - 1) <= 2 * a
         /\ 2 * a = b * (2 * Round(a, b) + 1) => Round(a, b) % 2 = 0
         /\ 2 * a = b * (2 * Round(a, b) - 1) => Round(a, b) % 2 = 0
<1> DEFINE q == a \div b
           m == a % b
<1>1. q \in Nat /\ m \in Nat /\ m < b /\ a = b * q + m
  OBVIOUS
<1>2. Round(a, b) = IF 2 * m > b \/ (2 * m = b /\ q % 2 = 1) THEN q + 1 ELSE q
  BY DEF Round
<1> HIDE DEF q, m
<1>3. CASE Round(a, b) = q + 1 /\ (2 * m > b \/ (2 * m = b /\ q % 2 = 1))
  <2>1. b * (2 * (q + 1) + 1) = 2 * (b * q) + 3 * b /\ b * (2 * (q + 1) - 1) = 2 * (b * q) + b
    BY <1>1
  <2>2. q % 2 = 1 => (q + 1) % 2 = 0
    BY <1>1
  <2> QED BY <1>1, <1>3, <2>1, <2>2
<1>4. CASE Round(a, b) = q /\ (2 * m < b \/ (2 * m = b /\ q % 2 # 1))
  <2>1. b * (2 * q + 1) = 2 * (b * q) + b /\ b * (2 * q - 1) = 2 * (b * q) - b
    BY <1>1
  <2>2. q % 2 # 1 => q % 2 = 0
    BY <1>1
  <2> QED BY <1>1, <1>4, <2>1, <2>2
<1> QED BY <1>1, <1>2, <1>3, <1>4

LEMMA RoundGrows ==
  ASSUME NEW a \in Nat, NEW b \in Nat \ {0}, NEW c \in Nat, NEW d \in Nat \ {0}, a * d <= c * b
  PROVE  Round(a, b) <= Round(c, d)
<1> DEFINE m == Round(a, b)
           n == Round(c, d)
<1>1. m \in Nat /\ b * (2 * m - 1) <= 2 * a /\ (2 * a = b * (2 * m - 1) => m % 2 = 0)
  BY RoundBounds
<1>2. n \in Nat /\ 2 * c <= d * (2 * n + 1) /\ (2 * c = d * (2 * n + 1) => n % 2 = 0)
  BY RoundBounds
<1> HIDE DEF m, n
<1> SUFFICES ASSUME n + 1 <= m PROVE FALSE
  BY <1>1, <1>2 DEF m, n
<1> DEFINE e == b * d
<1>3. e \in Nat /\ e # 0
  OBVIOUS
<1>4. e * (2 * m - 1) <= 2 * (a * d)
  <2>1. \A x, y, z \in Int : z > 0 /\ x <= y => z * x <= z * y
    OBVIOUS
  <2>2. d * (b * (2 * m - 1)) <= d * (2 * a)
    BY <1>1, <2>1
  <2>3. d * (b * (2 * m - 1)) = e * (2 * m - 1) /\ d * (2 * a) = 2 * (a * d)
    BY <1>1
  <2> QED BY <2>2, <2>3
<1>5. 2 * (c * b) <= e * (2 * n + 1)
  <2>1. \A x, y, z \in Int : z > 0 /\ x <= y => z * x <= z * y
    OBVIOUS
  <2>2. b * (2 * c) <= b * (d * (2 * n + 1))
    BY <1>2, <2>1
  <2>3. b * (d * (2 * n + 1)) = e * (2 * n + 1) /\ b * (2 * c) = 2 * (c * b)
    BY <1>2
  <2> QED BY <2>2, <2>3
<1>6. e * (2 * m - 1) <= e * (2 * n + 1)
  <2>1. a * d \in Nat /\ c * b \in Nat /\ e * (2 * m - 1) \in Int /\ e * (2 * n + 1) \in Int
    BY <1>1, <1>2
  <2> HIDE DEF e
  <2> QED BY <1>4, <1>5, <2>1
<1>7. m = n + 1
  <2>1. 2 * m - 1 <= 2 * n + 1
    <3>1. \A x, y, z \in Int : z > 0 /\ z * x <= z * y => x <= y
      OBVIOUS
    <3>2. e \in Int /\ e > 0
      BY <1>3
    <3> HIDE DEF e
    <3> QED BY <1>1, <1>2, <1>6, <3>1, <3>2
  <2> QED BY <1>1, <1>2, <2>1
<1>8. 2 * a = b * (2 * m - 1) /\ 2 * c = d * (2 * n + 1)
  <2>1. 2 * m - 1 = 2 * n + 1
    BY <1>1, <1>2, <1>7
  <2>2. 2 * (a * d) = e * (2 * m - 1) /\ 2 * (c * b) = e * (2 * n + 1)
    <3>1. a * d \in Nat /\ c * b \in Nat /\ e * (2 * m - 1) \in Int
      BY <1>1
    <3> HIDE DEF e
    <3> QED BY <1>4, <1>5, <2>1, <3>1
  <2>3. \A x, y, z \in Int : z > 0 /\ z * x = z * y => x = y
    OBVIOUS
  <2>4. d * (2 * a) = d * (b * (2 * m - 1)) /\ b * (2 * c) = b * (d * (2 * n + 1))
    BY <1>1, <1>2, <2>2
  <2> HIDE DEF e
  <2> QED BY <1>1, <1>2, <2>3, <2>4
<1>9. m % 2 = 0 /\ n % 2 = 0
  BY <1>1, <1>2, <1>8
<1> QED BY <1>1, <1>2, <1>7, <1>9

-----------------------------------------------------------------------------
(* What a score is, and what repairing findings does to it.                *)
Graded(f) == f.severity \in DOMAIN SEVERITY_WEIGHTS /\ f.confidence \in DOMAIN CONFIDENCE_FACTORS
Left1000(S) == [f \in S |-> Remains(f)]
Whole1000(S) == [f \in S |-> 1000]

LEMMA RemainsSome ==
  ASSUME NEW f, Graded(f)
  PROVE  Remains(f) \in Nat /\ Remains(f) # 0 /\ Remains(f) <= 1000
<1>1. SEVERITY_WEIGHTS[f.severity] \in {40, 25, 10, 4, 1}
  BY DEF Graded, SEVERITY_WEIGHTS
<1>2. CONFIDENCE_FACTORS[f.confidence] \in {10, 7, 4}
  BY DEF Graded, CONFIDENCE_FACTORS
<1>3. \A a \in {40, 25, 10, 4, 1}, b \in {10, 7, 4} :
        1000 - a * b \in Nat /\ 1000 - a * b # 0 /\ 1000 - a * b <= 1000
  OBVIOUS
<1> QED BY <1>1, <1>2, <1>3 DEF Remains

(* The products a score is made of, one finding at a time.                 *)
LEMMA ProductSplit ==
  ASSUME NEW D, IsFiniteSet(D), NEW value \in [D -> Nat]
  PROVE  /\ ProductOf(value) \in Nat
         /\ D = {} => ProductOf(value) = 1
         /\ \A x \in D : ProductOf(value) = value[x] * ProductOf([y \in D \ {x} |-> value[y]])
<1>1. ASSUME NEW add \in BOOLEAN, ~add
      PROVE  /\ ProductOf(value) \in Nat
             /\ D = {} => ProductOf(value) = 1
             /\ \A x \in D : ProductOf(value) = value[x] * ProductOf([y \in D \ {x} |-> value[y]])
  <2>1. \A v : Total(add, v) = ProductOf(v)
    BY <1>1 DEF Total
  <2>2. \A a, b : Combine(add, a, b) = a * b
    BY <1>1 DEF Combine
  <2>3. /\ Total(add, value) \in Nat
        /\ D = {} => Total(add, value) = IF add THEN 0 ELSE 1
        /\ \A x \in D : Total(add, value)
                          = Combine(add, value[x], Total(add, [y \in D \ {x} |-> value[y]]))
    BY TotalSplit
  <2> QED BY <1>1, <2>1, <2>2, <2>3
<1>2. \E add \in BOOLEAN : ~add
  OBVIOUS
<1> QED BY <1>1, <1>2

LEMMA SumPositive ==
  ASSUME NEW D, IsFiniteSet(D), NEW value \in [D -> Nat]
  PROVE  /\ SumOf(value) \in Nat
         /\ \A x \in D : value[x] <= SumOf(value)
<1>1. PICK k : SumOf(value) = k[D] /\ SumOn(k, value, D)
  BY SumSteps
<1>2. ASSUME NEW x \in D PROVE value[x] <= SumOf(value)
  <2>1. D \in SUBSET D /\ D \ {x} \in SUBSET D
    OBVIOUS
  <2>2. k[D] = value[x] + k[D \ {x}] /\ k[D \ {x}] \in Nat /\ value[x] \in Nat
    BY <1>1, <2>1 DEF SumOn
  <2> QED BY <1>1, <2>2
<1> QED BY <1>1, <1>2 DEF SumOn

LEMMA LeftSplit ==
  ASSUME NEW S, IsFiniteSet(S), \A f \in S : Graded(f)
  PROVE  /\ ProductOf(Left1000(S)) \in Nat /\ ProductOf(Left1000(S)) # 0
         /\ \A x \in S : ProductOf(Left1000(S)) = Remains(x) * ProductOf(Left1000(S \ {x}))
         /\ ProductOf(Whole1000(S)) \in Nat /\ ProductOf(Whole1000(S)) # 0
         /\ \A x \in S : ProductOf(Whole1000(S)) = 1000 * ProductOf(Whole1000(S \ {x}))
         /\ S = {} => ProductOf(Left1000(S)) = 1 /\ ProductOf(Whole1000(S)) = 1
<1>1. Left1000(S) \in [S -> Nat] /\ \A f \in S : Left1000(S)[f] = Remains(f) /\ Left1000(S)[f] # 0
  BY RemainsSome DEF Left1000
<1>2. Whole1000(S) \in [S -> Nat] /\ \A f \in S : Whole1000(S)[f] = 1000
  BY DEF Whole1000
<1>3. \A x \in S : [y \in S \ {x} |-> Left1000(S)[y]] = Left1000(S \ {x})
  BY DEF Left1000
<1>4. \A x \in S : [y \in S \ {x} |-> Whole1000(S)[y]] = Whole1000(S \ {x})
  BY DEF Whole1000
<1>5. ProductOf(Left1000(S)) \in Nat \ {0}
  BY <1>1, ProductPositive
<1>6. ProductOf(Whole1000(S)) \in Nat \ {0}
  <2>1. \A x \in S : Whole1000(S)[x] # 0
    BY <1>2
  <2> QED BY <1>2, <2>1, ProductPositive
<1>7. /\ S = {} => ProductOf(Left1000(S)) = 1
      /\ \A x \in S : ProductOf(Left1000(S))
                        = Left1000(S)[x] * ProductOf([y \in S \ {x} |-> Left1000(S)[y]])
  BY <1>1, ProductSplit
<1>8. /\ S = {} => ProductOf(Whole1000(S)) = 1
      /\ \A x \in S : ProductOf(Whole1000(S))
                        = Whole1000(S)[x] * ProductOf([y \in S \ {x} |-> Whole1000(S)[y]])
  BY <1>2, ProductSplit
<1>9. \A x \in S : ProductOf(Left1000(S)) = Remains(x) * ProductOf(Left1000(S \ {x}))
  BY <1>1, <1>3, <1>7
<1>10. \A x \in S : ProductOf(Whole1000(S)) = 1000 * ProductOf(Whole1000(S \ {x}))
  <2> TAKE x \in S
  <2>1. Whole1000(S)[x] = 1000
    BY <1>2
  <2>2. ProductOf(Whole1000(S)) = Whole1000(S)[x] * ProductOf(Whole1000(S \ {x}))
    BY <1>4, <1>8
  <2> QED BY <2>1, <2>2
<1> QED BY <1>5, <1>6, <1>7, <1>8, <1>9, <1>10

(* A score as one rounding: of what is left, over ten times one factor     *)
(* less than the findings.                                                 *)
LEMMA ScoreIs ==
  ASSUME NEW S, IsFiniteSet(S), S # {}, \A f \in S : Graded(f)
  PROVE  \E b \in Nat \ {0} : /\ ProductOf(Whole1000(S)) = 1000 * b
                              /\ ScoreFor(S) = Round(ProductOf(Left1000(S)), 10 * b)
<1> DEFINE one == CHOOSE f \in S : TRUE
           b == ProductOf(Whole1000(S \ {one}))
<1>1. one \in S
  BY Chosen
<1>2. ScoreFor(S) = Round(ProductOf(Left1000(S)), 10 * b)
  BY DEF ScoreFor, Left1000, Whole1000
<1> HIDE DEF one
<1>3. ProductOf(Whole1000(S)) = 1000 * b
  BY <1>1, LeftSplit
<1>4. b \in Nat /\ b # 0
  <2>1. IsFiniteSet(S \ {one}) /\ \A f \in S \ {one} : Graded(f)
    BY <1>1, Smaller
  <2> QED BY <2>1, LeftSplit
<1> HIDE DEF b
<1> QED BY <1>2, <1>3, <1>4

LEMMA ScoreNatural ==
  ASSUME NEW S, IsFiniteSet(S), \A f \in S : Graded(f)
  PROVE  ScoreFor(S) \in Nat
<1>1. CASE S = {}
  BY <1>1 DEF ScoreFor
<1>2. CASE S # {}
  <2>1. PICK b \in Nat \ {0} : ScoreFor(S) = Round(ProductOf(Left1000(S)), 10 * b)
    BY <1>2, ScoreIs
  <2>2. ProductOf(Left1000(S)) \in Nat /\ 10 * b \in Nat \ {0}
    BY LeftSplit
  <2> QED BY <2>1, <2>2, RoundBounds
<1> QED BY <1>1, <1>2

LEMMA ScoreStep ==
  ASSUME NEW S, IsFiniteSet(S), \A f \in S : Graded(f), NEW x \in S
  PROVE  ScoreFor(S) <= ScoreFor(S \ {x})
<1> DEFINE T == S \ {x}
           R == Remains(x)
           A == ProductOf(Left1000(S))
           B == ProductOf(Left1000(T))
<1>1. IsFiniteSet(T) /\ \A f \in T : Graded(f)
  BY Smaller
<1>2. R \in Nat /\ R # 0 /\ R <= 1000
  BY RemainsSome
<1>3. A \in Nat /\ B \in Nat /\ A = R * B
  BY <1>1, LeftSplit
<1>4. ProductOf(Whole1000(S)) = 1000 * ProductOf(Whole1000(T))
  BY LeftSplit
<1>5. PICK b \in Nat \ {0} : /\ ProductOf(Whole1000(S)) = 1000 * b
                             /\ ScoreFor(S) = Round(A, 10 * b)
  BY ScoreIs
<1>6. ProductOf(Whole1000(T)) = b
  <2>1. ProductOf(Whole1000(T)) \in Nat
    BY <1>1, LeftSplit
  <2> HIDE DEF T
  <2> QED BY <1>4, <1>5, <2>1
<1>7. CASE T = {}
  <2>1. B = 1 /\ b = 1
    BY <1>1, <1>6, <1>7, LeftSplit
  <2>2. ScoreFor(S) = Round(R, 10)
    <3> HIDE DEF A, B, R, T
    <3> QED BY <1>2, <1>3, <1>5, <2>1
  <2>3. Round(R, 10) <= Round(100, 1)
    <3> HIDE DEF R
    <3>1. R * 1 <= 100 * 10 /\ 100 \in Nat /\ 1 \in Nat \ {0} /\ 10 \in Nat \ {0}
      BY <1>2
    <3> QED BY <1>2, <3>1, RoundGrows
  <2>4. Round(100, 1) = 100
    BY DEF Round
  <2>5. ScoreFor(T) = 100
    BY <1>7 DEF ScoreFor
  <2> QED BY <2>2, <2>3, <2>4, <2>5
<1>8. CASE T # {}
  <2>1. PICK c \in Nat \ {0} : /\ ProductOf(Whole1000(T)) = 1000 * c
                               /\ ScoreFor(T) = Round(B, 10 * c)
    <3> HIDE DEF T
    <3> QED BY <1>1, <1>8, ScoreIs DEF B
  <2>2. b = 1000 * c
    BY <1>6, <2>1
  <2>3. A * (10 * c) <= B * (10 * b)
    <3> HIDE DEF A, B, R, T
    <3>1. A * (10 * c) = R * (10 * (B * c))
      BY <1>2, <1>3
    <3>2. B * (10 * b) = 1000 * (10 * (B * c))
      BY <1>3, <2>2
    <3>3. \A p, q, n \in Nat : p <= q => p * n <= q * n
      OBVIOUS
    <3>4. 10 * (B * c) \in Nat
      BY <1>3
    <3> QED BY <1>2, <3>1, <3>2, <3>3, <3>4
  <2>4. 10 * b \in Nat \ {0} /\ 10 * c \in Nat \ {0}
    OBVIOUS
  <2> HIDE DEF A, B, R, T
  <2>5. Round(A, 10 * b) <= Round(B, 10 * c)
    BY <1>3, <2>3, <2>4, RoundGrows
  <2> QED BY <1>5, <2>1, <2>5 DEF T
<1> QED BY <1>7, <1>8

(* Repairing findings lowers no category's score.                          *)
LEMMA ScoreGrows ==
  ASSUME NEW S, IsFiniteSet(S), \A f \in S : Graded(f), NEW T \in SUBSET S
  PROVE  ScoreFor(S) <= ScoreFor(T)
<1> DEFINE Worse(U) == ~(ScoreFor(U) <= ScoreFor(T))
           N == {n \in Nat : \E U \in SUBSET S : T \subseteq U /\ Cardinality(U) = n /\ Worse(U)}
<1>1. \A U \in SUBSET S : /\ IsFiniteSet(U) /\ Cardinality(U) \in Nat
                          /\ ScoreFor(U) \in Nat /\ \A f \in U : Graded(f)
  <2> TAKE U \in SUBSET S
  <2>1. IsFiniteSet(U) /\ \A f \in U : Graded(f)
    BY FS_Subset
  <2> QED BY <2>1, FS_CardinalityType, ScoreNatural
<1>2. N = {}
  <2> SUFFICES ASSUME N # {} PROVE FALSE
    OBVIOUS
  <2>1. PICK m \in N : \A n \in N : m <= n
    <3>1. N \in SUBSET Nat
      OBVIOUS
    <3> HIDE DEF N
    <3> QED BY <3>1, LeastNat
  <2>2. PICK U \in SUBSET S : T \subseteq U /\ Cardinality(U) = m /\ Worse(U)
    BY <2>1
  <2>3. U # T
    BY <1>1, <2>2
  <2>4. PICK x \in U : x \notin T
    BY <2>2, <2>3
  <2> DEFINE V == U \ {x}
  <2>5. Cardinality(V) = m - 1 /\ m - 1 \in Nat /\ m \in Nat /\ V \in SUBSET S /\ T \subseteq V
    BY <1>1, <2>2, <2>4, Smaller
  <2>6. m - 1 \notin N
    <3> HIDE DEF N, V
    <3> QED BY <2>1, <2>5
  <2>7. ScoreFor(V) <= ScoreFor(T)
    <3> HIDE DEF V
    <3> QED BY <2>5, <2>6
  <2>8. ScoreFor(U) <= ScoreFor(V)
    BY <1>1, ScoreStep
  <2>9. ScoreFor(U) \in Nat /\ ScoreFor(V) \in Nat /\ ScoreFor(T) \in Nat
    BY <1>1, <2>5
  <2> HIDE DEF V
  <2> QED BY <2>2, <2>7, <2>8, <2>9
<1>3. S \in SUBSET S /\ Cardinality(S) \notin N
  BY <1>2
<1> QED BY <1>1, <1>3

(* Nor does it lower the overall score.                                    *)
LEMMA OverallGrows ==
  ASSUME NEW C, IsFiniteSet(C), NEW less \in [C -> Nat], NEW more \in [C -> Nat],
         \A c \in C : less[c] <= more[c]
  PROVE  OverallScore(less) <= OverallScore(more)
<1> DEFINE weight == [c \in C |-> IF c \in DOUBLE_WEIGHTED THEN 2 ELSE 1]
           a == [c \in C |-> less[c] * weight[c]]
           b == [c \in C |-> more[c] * weight[c]]
<1>1. CASE C = {}
  <2>1. DOMAIN less = {} /\ DOMAIN more = {}
    BY <1>1
  <2> QED BY <2>1 DEF OverallScore
<1>2. CASE C # {}
  <2>1. /\ OverallScore(less) = Round(SumOf(a), SumOf(weight))
        /\ OverallScore(more) = Round(SumOf(b), SumOf(weight))
    <3>1. DOMAIN less = C /\ DOMAIN more = C
      OBVIOUS
    <3> QED BY <1>2, <3>1 DEF OverallScore
  <2>2. weight \in [C -> Nat] /\ \A c \in C : weight[c] \in Nat /\ 1 <= weight[c]
    OBVIOUS
  <2>3. SumOf(weight) \in Nat \ {0}
    <3>1. PICK c \in C : TRUE
      BY <1>2
    <3> HIDE DEF weight
    <3>2. SumOf(weight) \in Nat /\ weight[c] <= SumOf(weight)
      BY <2>2, SumPositive
    <3> QED BY <2>2, <3>2
  <2>4. \A c \in C : less[c] \in Nat /\ more[c] \in Nat /\ less[c] <= more[c]
    OBVIOUS
  <2>5. a \in [C -> Nat] /\ b \in [C -> Nat] /\ \A c \in C : a[c] <= b[c]
    <3>1. \A p, q, n \in Nat : p * n \in Nat /\ (p <= q => p * n <= q * n)
      OBVIOUS
    <3> HIDE DEF weight
    <3> QED BY <2>2, <2>4, <3>1
  <2> HIDE DEF a, b, weight
  <2>6. SumOf(a) \in Nat /\ SumOf(b) \in Nat /\ SumOf(a) <= SumOf(b)
    BY <2>5, SumPositive, SumGrows
  <2>7. SumOf(a) * SumOf(weight) <= SumOf(b) * SumOf(weight)
    <3>1. \A p, q, n \in Nat : p <= q => p * n <= q * n
      OBVIOUS
    <3> QED BY <2>3, <2>6, <3>1
  <2> QED BY <2>1, <2>3, <2>6, <2>7, RoundGrows
<1> QED BY <1>1, <1>2

-----------------------------------------------------------------------------
(* The findings of a scan are finitely many and graded on the two scales,  *)
(* those of a rule are in its category, and the report has the scores of   *)
(* the findings before and after the repair.                               *)
GradedInv ==
  /\ IsFiniteSet(builtin) /\ IsFiniteSet(external)
  /\ \A f \in builtin \cup external : Graded(f)
  /\ \A f \in builtin : f.category = registry[f.rule[2]].category
  /\ pc = "done" => report.before = Scored(findings) /\ report.after = Scored(Remaining)

LEMMA FiniteImage ==
  ASSUME NEW f, IsFiniteSet(DOMAIN f), f = [x \in DOMAIN f |-> f[x]]
  PROVE  IsFiniteSet({f[x] : x \in DOMAIN f})
<1> DEFINE D == DOMAIN f
           R == {f[x] : x \in D}
<1>1. f \in Surjection(D, R)
  BY DEF Surjection
<1> QED BY <1>1, FS_Surjection

LEMMA GradeInTable ==
  ASSUME NEW table, NEW grades, NEW key, NEW default \in grades, \A k \in DOMAIN table : table[k] \in grades
  PROVE  Lookup(table, key, default) \in grades
BY DEF Lookup

(* Each adapter translates the grades of its tool.                         *)
LEMMA ToolGrades ==
  ASSUME NEW a \in AdapterNames, NEW answer \in Answers[a] \cup {NoAnswer}, NEW f \in Findings(a, answer)
  PROVE  Graded(f)
<1> DEFINE Severities == {"CRITICAL", "HIGH", "MEDIUM", "LOW", "INFO"}
           Confidences == {"HIGH", "MEDIUM", "LOW"}
<1>1. PICK item \in answer.items : f = ToFinding(a, item)
  BY DEF Findings, NpmItems
<1>2. a = "trivy" => item.kind \in {"vulnerability", "secret", "misconfiguration"}
  <2>1. NoAnswer.items = {}
    BY DEF NoAnswer
  <2> QED BY <1>1, <2>1, DetectorsAssumption
<1>3. Severities = DOMAIN SEVERITY_WEIGHTS /\ Confidences = DOMAIN CONFIDENCE_FACTORS
  BY DEF SEVERITY_WEIGHTS, CONFIDENCE_FACTORS
<1>4. \A k, d : d \in Severities =>
        /\ Lookup(BANDIT_SEVERITY, k, d) \in Severities
        /\ Lookup(NPM_SEVERITY, k, d) \in Severities
        /\ Lookup(HADOLINT_SEVERITY, k, d) \in Severities
        /\ Lookup(TRIVY_SEVERITY, k, d) \in Severities
        /\ Lookup(CHECKOV_SEVERITY, k, d) \in Severities
        /\ Lookup(SEMGREP_SEVERITY, k, d) \in Severities
  <2> TAKE k, d
  <2> HAVE d \in Severities
  <2>1. Lookup(BANDIT_SEVERITY, k, d) \in Severities
    BY DEF Lookup, BANDIT_SEVERITY
  <2>2. Lookup(NPM_SEVERITY, k, d) \in Severities
    BY DEF Lookup, NPM_SEVERITY
  <2>3. Lookup(HADOLINT_SEVERITY, k, d) \in Severities
    BY DEF Lookup, HADOLINT_SEVERITY
  <2>4. Lookup(TRIVY_SEVERITY, k, d) \in Severities
    BY DEF Lookup, TRIVY_SEVERITY
  <2>5. Lookup(CHECKOV_SEVERITY, k, d) \in Severities
    BY DEF Lookup, CHECKOV_SEVERITY
  <2>6. Lookup(SEMGREP_SEVERITY, k, d) \in Severities
    BY DEF Lookup, SEMGREP_SEVERITY
  <2> QED BY <2>1, <2>2, <2>3, <2>4, <2>5, <2>6
<1>5. \A k : Lookup(BANDIT_CONFIDENCE, k, "MEDIUM") \in Confidences
  BY DEF Lookup, BANDIT_CONFIDENCE
<1>6. f.severity \in Severities /\ f.confidence \in Confidences
  <2> HIDE DEF Severities, Confidences
  <2>0. /\ "CRITICAL" \in Severities /\ "HIGH" \in Severities /\ "MEDIUM" \in Severities
        /\ "LOW" \in Severities /\ "HIGH" \in Confidences /\ "MEDIUM" \in Confidences
    BY DEF Severities, Confidences
  <2>1. CASE a = "bandit"
    BY <1>1, <1>4, <1>5, <2>0, <2>1 DEF ToFinding, Bandit, MakeFinding
  <2>2. CASE a = "detect-secrets"
    BY <1>1, <2>0, <2>2 DEF ToFinding, DetectSecrets, MakeFinding
  <2>3. CASE a = "pip-audit"
    BY <1>1, <2>0, <2>3 DEF ToFinding, PipAudit, MakeFinding
  <2>4. CASE a = "npm-audit"
    BY <1>1, <1>4, <2>0, <2>4 DEF ToFinding, NpmFinding, MakeFinding
  <2>5. CASE a = "hadolint"
    BY <1>1, <1>4, <2>0, <2>5 DEF ToFinding, Hadolint, MakeFinding
  <2>6. CASE a = "checkov"
    BY <1>1, <1>4, <2>0, <2>6 DEF ToFinding, Checkov, MakeFinding
  <2>7. CASE a = "semgrep"
    BY <1>1, <1>4, <2>0, <2>7 DEF ToFinding, Semgrep, MakeFinding
  <2>8. CASE a = "trivy" /\ item.kind = "vulnerability"
    BY <1>1, <1>4, <2>0, <2>8 DEF ToFinding, TrivyVuln, MakeFinding
  <2>9. CASE a = "trivy" /\ item.kind = "secret"
    BY <1>1, <1>4, <2>0, <2>9 DEF ToFinding, TrivySecret, MakeFinding
  <2>10. CASE a = "trivy" /\ item.kind = "misconfiguration"
    BY <1>1, <1>4, <2>0, <2>10 DEF ToFinding, TrivyMisconfig, MakeFinding
  <2> QED BY <1>2, <2>1, <2>2, <2>3, <2>4, <2>5, <2>6, <2>7, <2>8, <2>9, <2>10, Names
<1> QED BY <1>3, <1>6 DEF Graded

LEMMA ToolFinite ==
  ASSUME NEW a \in AdapterNames, NEW answer \in Answers[a] \cup {NoAnswer}
  PROVE  IsFiniteSet(Findings(a, answer))
<1> DEFINE items == IF a = "npm-audit" THEN NpmItems(answer.items) ELSE answer.items
           made == [i \in items |-> ToFinding(a, i)]
<1>1. IsFiniteSet(answer.items)
  <2>1. NoAnswer.items = {} /\ IsFiniteSet({})
    BY FS_EmptySet DEF NoAnswer
  <2> QED BY <2>1, DetectorsAssumption
<1>2. items \subseteq answer.items
  BY DEF NpmItems
<1>3. IsFiniteSet(items)
  BY <1>1, <1>2, FS_Subset
<1>4. IsFiniteSet({made[i] : i \in items})
  <2>1. DOMAIN made = items /\ made = [i \in items |-> made[i]]
    OBVIOUS
  <2> HIDE DEF made, items
  <2> QED BY <1>3, <2>1, FiniteImage
<1>5. Findings(a, answer) = {made[i] : i \in items} \/ Findings(a, answer) = {}
  BY DEF Findings
<1> QED BY <1>4, <1>5, FS_EmptySet

LEMMA NextGradedInv == FoundInv /\ GradedInv /\ [Next]_vars => GradedInv'
<1> SUFFICES ASSUME FoundInv, GradedInv, [Next]_vars PROVE GradedInv'
  OBVIOUS
<1>1. ASSUME UNCHANGED <<registry, builtin, external>>, pc' # "done" PROVE GradedInv'
  BY <1>1 DEF GradedInv
<1>2. CASE Load
  <2>1. UNCHANGED <<builtin, external>> /\ pc = "load" /\ pc' # "done"
    BY <1>2 DEF Load, LoadPack, PackMissing, Select, detection
  <2> QED BY <2>1 DEF GradedInv, FoundInv
<1>3. ASSUME NEW id, DetectRaises(id) \/ Unavailable(id) \/ Announce(id) \/ RequestFails(id)
      PROVE  GradedInv'
  BY <1>1, <1>3 DEF DetectRaises, Unavailable, Announce, RequestFails, env, detection
<1>4. ASSUME NEW id \in NextIn(RuleOrder), Detect(id) \/ Answer(id) PROVE GradedInv'
  <2>1. PICK found \in registry[id].reports : Keep(found)
    BY <1>4 DEF Detect, Answer
  <2>2. pc \in {"detect", "send"} /\ pc' = "detect" /\ UNCHANGED <<registry, external>>
    BY <1>4 DEF Detect, Answer, env
  <2>3. id \in DOMAIN registry
    BY <2>2 DEF FoundInv, NextIn, Instantiated
  <2>4. PICK i \in DOMAIN Packs : registry[id] \in ToSet(Packs[i].rules) /\ registry[id].id = id
    BY <2>3 DEF FoundInv, ByOwnId, Shipped
  <2>5. IsFiniteSet(found)
    BY <2>1, <2>4, DetectorsAssumption
  <2>6. \A f \in found : Graded(f) /\ f.rule[2] = id /\ f.category = registry[id].category
    <3> TAKE f \in found
    <3>1. f.rule = <<"VG", id>>
      BY <2>1, <2>4, DetectorsAssumption
    <3>2. f.severity \in DOMAIN SEVERITY_WEIGHTS /\ f.confidence \in DOMAIN CONFIDENCE_FACTORS
      BY <2>1, <2>4, DetectorsAssumption
    <3>3. f.category = registry[id].category
      BY <2>1, <2>4, DetectorsAssumption
    <3> QED BY <3>1, <3>2, <3>3 DEF Graded
  <2>7. builtin' = builtin \cup found
    BY <2>1 DEF Keep
  <2>8. IsFiniteSet(builtin')
    BY <2>5, <2>7, FS_Union DEF GradedInv
  <2>9. \A f \in builtin' : f.category = registry'[f.rule[2]].category
    BY <2>2, <2>6, <2>7 DEF GradedInv
  <2> QED BY <2>2, <2>6, <2>7, <2>8, <2>9 DEF GradedInv
<1>5. CASE StartAdapters
  BY <1>1, <1>5 DEF StartAdapters, env, detection
<1>6. ASSUME NEW a, PassOver(a) \/ Skip(a) \/ PreflightFails(a) \/ StartTool(a) \/ RunRaises(a)
      PROVE  GradedInv'
  BY <1>1, <1>6 DEF PassOver, Skip, PreflightFails, StartTool, RunRaises, env, detection
<1>7. ASSUME NEW a \in NextIn(ADAPTERS), ToolAnswers(a) \/ ToolFails(a) PROVE GradedInv'
  <2>1. PICK answer \in Answers[a] \cup {NoAnswer} : Took(a, answer)
    BY <1>7 DEF ToolAnswers, ToolFails
  <2>2. pc = "tool" /\ pc' = "adapters" /\ UNCHANGED <<registry, builtin>>
    BY <1>7 DEF ToolAnswers, ToolFails, env
  <2>3. a \in AdapterNames
    BY <2>2 DEF FoundInv, NextIn
  <2>4. external' = external \cup Findings(a, answer)
    BY <2>1 DEF Took
  <2>5. IsFiniteSet(external')
    BY <2>3, <2>4, ToolFinite, FS_Union DEF GradedInv
  <2>6. \A f \in Findings(a, answer) : Graded(f)
    BY <2>3, ToolGrades
  <2> QED BY <2>2, <2>4, <2>5, <2>6 DEF GradedInv
<1>8. CASE Merge \/ ApplyMemory \/ Repair \/ RepairRefused
  BY <1>1, <1>8 DEF Merge, ApplyMemory, Repair, RepairRefused, env, detection
<1>9. CASE Finish
  <2>1. /\ UNCHANGED <<registry, builtin, external, findings, suppressed, fixed, rules, request>>
        /\ report'.before = Scored(findings) /\ report'.after = Scored(Remaining)
    BY <1>9 DEF Finish, env, detection, memory
  <2>2. Categories' = Categories /\ Remaining' = Remaining
    BY <2>1 DEF Categories, Remaining
  <2>3. Scored(findings)' = Scored(findings) /\ Scored(Remaining)' = Scored(Remaining)
    BY <2>1, <2>2 DEF Scored
  <2> QED BY <2>1, <2>3 DEF GradedInv
<1>10. CASE UNCHANGED vars
  <2>1. UNCHANGED <<pc, registry, builtin, external, findings, suppressed, fixed, rules, request, report>>
    BY <1>10 DEF vars, env, detection, memory
  <2>2. Categories' = Categories /\ Remaining' = Remaining
    BY <2>1 DEF Categories, Remaining
  <2>3. Scored(findings)' = Scored(findings) /\ Scored(Remaining)' = Scored(Remaining)
    BY <2>1, <2>2 DEF Scored
  <2> QED BY <2>1, <2>3 DEF GradedInv
<1> QED BY <1>2, <1>3, <1>4, <1>5, <1>6, <1>7, <1>8, <1>9, <1>10
        DEF Next, RunRule, RunAdapter, Conclude, Stopped

LEMMA GradedAlways == Spec => []GradedInv
<1>1. Init => GradedInv
  BY FS_EmptySet DEF Init, GradedInv
<1> QED BY <1>1, FoundAlways, NextGradedInv, PTL DEF Spec

LEMMA FiniteCategories ==
  ASSUME FoundInv, GradedInv, pc # "load"
  PROVE  IsFiniteSet(Categories)
<1> DEFINE ofRule == [id \in rules |-> registry[id].category]
           ofTool == [f \in external |-> f.category]
<1>1. IsFiniteSet(rules)
  <2>1. rules \subseteq ToSet(RuleOrder)
    BY ScanAssumption DEF FoundInv, ByOwnId, Shipped, Instantiated
  <2> QED BY <2>1, FiniteRange, FS_Subset, DetectorsAssumption
<1>2. IsFiniteSet({ofRule[id] : id \in rules})
  <2>1. DOMAIN ofRule = rules /\ ofRule = [id \in rules |-> ofRule[id]]
    OBVIOUS
  <2> HIDE DEF ofRule
  <2> QED BY <1>1, <2>1, FiniteImage
<1>3. IsFiniteSet({ofTool[f] : f \in external})
  <2>1. DOMAIN ofTool = external /\ ofTool = [f \in external |-> ofTool[f]]
    OBVIOUS
  <2> HIDE DEF ofTool
  <2> QED BY <2>1, FiniteImage DEF GradedInv
<1>4. Categories = {ofRule[id] : id \in rules} \cup {ofTool[f] : f \in external}
  BY DEF Categories
<1> QED BY <1>2, <1>3, <1>4, FS_Union

(* Fewer findings, no lower score.                                         *)
LEMMA ScoredGrows ==
  ASSUME IsFiniteSet(Categories),
         NEW S, IsFiniteSet(S), \A f \in S : Graded(f), NEW T \in SUBSET S
  PROVE  /\ DOMAIN Scored(S).category = Categories
         /\ \A c \in Categories : Scored(S).category[c] <= Scored(T).category[c]
         /\ Scored(S).overall <= Scored(T).overall
<1> DEFINE Open(U, c) == {f \in U \ suppressed : f.category = c}
           less == [c \in Categories |-> ScoreFor(Open(S, c))]
           more == [c \in Categories |-> ScoreFor(Open(T, c))]
<1>1. /\ Scored(S).category = less /\ Scored(S).overall = OverallScore(less)
      /\ Scored(T).category = more /\ Scored(T).overall = OverallScore(more)
  BY DEF Scored, CategoryScores
<1>2. ASSUME NEW c \in Categories
      PROVE  /\ ScoreFor(Open(S, c)) \in Nat /\ ScoreFor(Open(T, c)) \in Nat
             /\ ScoreFor(Open(S, c)) <= ScoreFor(Open(T, c))
  <2>1. /\ IsFiniteSet(Open(S, c)) /\ IsFiniteSet(Open(T, c))
        /\ \A f \in Open(S, c) \cup Open(T, c) : Graded(f)
        /\ Open(T, c) \in SUBSET Open(S, c)
    <3>1. Open(S, c) \subseteq S /\ Open(T, c) \subseteq S /\ Open(T, c) \subseteq Open(S, c)
      OBVIOUS
    <3> HIDE DEF Open
    <3> QED BY <3>1, FS_Subset
  <2> HIDE DEF Open
  <2> QED BY <2>1, ScoreNatural, ScoreGrows
<1>3. /\ less \in [Categories -> Nat] /\ more \in [Categories -> Nat]
      /\ \A c \in Categories : less[c] <= more[c]
  <2> HIDE DEF Open
  <2> QED BY <1>2
<1> HIDE DEF less, more
<1>4. OverallScore(less) <= OverallScore(more)
  BY <1>3, OverallGrows
<1> QED BY <1>1, <1>3, <1>4

(* Every open finding, a scanner's too, is in a scored category, and the   *)
(* repair lowers no score, neither of a category nor overall, however many *)
(* findings of whatever grades there are and in spite of both roundings    *)
(* (engine/scoring.py score_findings, orchestrator audit and fix).         *)
THEOREM ScoresCorrect == Spec => []ScoresHonest
<1>1. FoundInv /\ MergedInv /\ GradedInv => ScoresHonest
  <2> SUFFICES ASSUME FoundInv, MergedInv, GradedInv, pc = "done" PROVE ScoresHonest
    BY DEF ScoresHonest
  <2>1. findings \subseteq builtin \cup external
    BY DEF MergedInv, Merged, Dedup, Alone
  <2>2. IsFiniteSet(findings) /\ \A f \in findings : Graded(f)
    BY <2>1, FS_Union, FS_Subset DEF GradedInv
  <2>3. Remaining \in SUBSET findings
    BY DEF Remaining
  <2>4. IsFiniteSet(Categories)
    BY FiniteCategories
  <2>5. report.before = Scored(findings) /\ report.after = Scored(Remaining)
    BY DEF GradedInv
  <2>6. \A f \in findings : f.category \in Categories
    BY <2>1 DEF GradedInv, FoundInv, OfRule, Categories
  <2>7. DOMAIN Scored(findings).category = Categories
    BY <2>2, <2>4, ScoredGrows
  <2>8. \A c \in Categories : report.before.category[c] <= report.after.category[c]
    BY <2>2, <2>3, <2>4, <2>5, ScoredGrows
  <2>9. report.before.overall <= report.after.overall
    BY <2>2, <2>3, <2>4, <2>5, ScoredGrows
  <2> QED BY <2>5, <2>6, <2>7, <2>8, <2>9 DEF ScoresHonest
<1> QED BY <1>1, FoundAlways, MergedAlways, GradedAlways, PTL
================================================================================
