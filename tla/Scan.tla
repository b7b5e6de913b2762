---------------------------------- MODULE Scan ----------------------------------
(***************************************************************************)
(* One scan, from the rule packs to the report: registration, selection,   *)
(* detection rule by rule, the external scanners one by one, the merge of  *)
(* their findings with the built-in ones, suppressions and baseline, the   *)
(* repair, the checklist and the scores.  Events go to subscribers, prompts *)
(* to an AI provider.                                                      *)
(*                                                                         *)
(* A finding is [rule, place, text, n, quotes, category, severity,         *)
(* confidence, advisory]: n is its position in what its detector reports,  *)
(* quotes the <<file, text>> pairs of its evidence.  The rule id is a pair *)
(* <<"VG", id>>, or <<tool, native id>> for a finding of a scanner.         *)
(***************************************************************************)
EXTENDS Adapters, Scoring, Checklist, SequencesExt

CONSTANTS
  Packs,         \* sequence of [builtin, rules]; rules in the order a pack lists them
  RuleOrder,     \* the rule ids, sorted
  Contexts,      \* what discovery may find: [files, languages, tech, scale]
  Answers,       \* Answers[a]: what adapter a may print
  Topics,        \* of rules/topics.yaml
  TopicsOf,      \* TopicsOf[a]: the topics adapter a declares
  Providers,     \* subset of {"null", "local", "remote"}
  Installs,      \* sets of adapters whose tool may be on PATH
  Waivers,       \* what people may have suppressed: sets of rule ids
  Known,         \* what the baseline may hold: sets of rule ids
  Subscribers, Raising   \* sequence of subscribers; those that raise on every event

ASSUME ScanAssumption ==
  /\ Raising \subseteq ToSet(Subscribers)
  /\ DOMAIN Answers = AdapterNames /\ DOMAIN TopicsOf = AdapterNames
  /\ \A i \in DOMAIN Packs : \A r \in ToSet(Packs[i].rules) : r.id \in ToSet(RuleOrder)

\* Rule.make_finding gives a finding the id and the category of its rule;
\* severity and confidence are enumerations (core/models.py 47-65); trivy
\* prints three lists.
ASSUME DetectorsAssumption ==
  /\ Packs \in Seq(ToSet(Packs)) /\ RuleOrder \in Seq(ToSet(RuleOrder))
  /\ \A i \in DOMAIN Packs :
       /\ Packs[i].rules \in Seq(ToSet(Packs[i].rules))
       /\ \A r \in ToSet(Packs[i].rules) : \A found \in r.reports :
            /\ IsFiniteSet(found)
            /\ \A f \in found :
                 /\ f.rule = <<"VG", r.id>> /\ f.n \in Nat /\ f.category = r.category
                 /\ f.severity \in DOMAIN SEVERITY_WEIGHTS
                 /\ f.confidence \in DOMAIN CONFIDENCE_FACTORS
  /\ \A a \in AdapterNames : \A answer \in Answers[a] :
       /\ IsFiniteSet(answer.items)
       /\ \A item \in answer.items :
            /\ item.n \in Nat
            /\ a = "trivy" => item.kind \in {"vulnerability", "secret", "misconfiguration"}

VARIABLES
  pc,
  request,       \* [mode, localOnly, provider, installed, waived, known]
  ctx,           \* of ScanContext
  packs,         \* packs not loaded yet
  registry,      \* rule id -> class
  rules, degraded,   \* ids selected; ids skipped for want of a provider
  todo,          \* ids, then adapters, still to run: a set, taken in a fixed order
  builtin,       \* findings of the rules
  external,      \* findings of the adapters
  ran, used,     \* adapters that ran; adapter -> what the report says of it
  hung,          \* the tool that is running never returns
  findings,      \* after the merge
  notes,         \* <<f, rule>>: f is corroborated by rule
  suppressed, baselined, fixed,
  sent, announced, answered, aiUsed,  \* prompts sent, announced, answered
  report

\* History, read by no action.
VARIABLES
  produced,      \* every finding a detector returned
  heard,         \* subscriber -> findings it was called with
  silent         \* adapters that ran without an answer they understand

env == <<request, ctx, packs, registry>>
detection == <<builtin, external, findings, notes>>
memory == <<suppressed, baselined, fixed>>
gateway == <<sent, announced, answered, aiUsed>>
tools == <<ran, used, hung>>
ghosts == <<produced, heard, silent>>
vars == <<pc, env, rules, degraded, todo, tools, detection, memory, gateway, report, ghosts>>

None == "none"

-----------------------------------------------------------------------------
Init ==
  /\ pc = "load"
  /\ request \in [mode : {"audit", "fix"}, localOnly : BOOLEAN, provider : Providers,
                   installed : Installs, waived : Waivers, known : Known]
  /\ ctx \in Contexts /\ packs = Packs /\ registry = [id \in {} |-> None]
  /\ rules = {} /\ degraded = {} /\ todo = {}
  /\ ran = {} /\ used = [a \in {} |-> None] /\ hung = FALSE
  /\ builtin = {} /\ external = {} /\ findings = {} /\ notes = {}
  /\ suppressed = {} /\ baselined = {} /\ fixed = {}
  /\ sent = 0 /\ announced = 0 /\ answered = 0 /\ aiUsed = FALSE
  /\ report = None
  /\ produced = {} /\ heard = [s \in ToSet(Subscribers) |-> {}] /\ silent = {}

(* EventBus.emit: a subscriber that raises is logged, and the next called. *)
(* Mutant: the first that raises ends the round.                           *)
HeardUntilRaise(new) ==
  [s \in ToSet(Subscribers) |->
     IF \E i, j \in DOMAIN Subscribers : i < j /\ Subscribers[i] \in Raising /\ Subscribers[j] = s
     THEN heard[s] ELSE heard[s] \cup new]
Heard(new) == [s \in ToSet(Subscribers) |-> heard[s] \cup new]

-----------------------------------------------------------------------------
(* RuleRegistry.  A class without an id, or that is no Rule, is ignored;   *)
(* of two with one id the first registered stays.                          *)
Registered(reg, classes) ==
  LET new == {c \in ToSet(classes) : c.rule}
  IN [id \in DOMAIN reg \cup {c.id : c \in new} |->
        IF id \in DOMAIN reg THEN reg[id]
        ELSE classes[CHOOSE i \in DOMAIN classes :
                       /\ classes[i].rule /\ classes[i].id = id
                       /\ \A j \in 1..(i - 1) : ~(classes[j].rule /\ classes[j].id = id)]]

LoadPack ==
  /\ pc = "load" /\ packs # <<>> /\ packs' = Tail(packs)
  /\ registry' = Registered(registry, Head(packs).rules)
  /\ UNCHANGED <<pc, request, ctx, rules, degraded, todo, tools, detection, memory, gateway,
                 report, ghosts>>

(* A built-in pack that is not installed, a plugin that does not load.     *)
PackMissing ==
  /\ pc = "load" /\ packs # <<>> /\ packs' = Tail(packs)
  /\ UNCHANGED <<pc, request, ctx, registry, rules, degraded, todo, tools, detection, memory,
                 gateway, report, ghosts>>

(* instantiate skips a class whose constructor raises.                     *)
Instantiated == {id \in DOMAIN registry : registry[id].builds}

(* Rules run in the order of their ids, adapters in that of ADAPTERS.      *)
NextIn(order) ==
  {x \in todo : \A y \in todo \ {x} :
                  \E i, j \in DOMAIN order : i < j /\ order[i] = x /\ order[j] = y}

(* Rule.applicable                                                         *)
Gated(r) == ctx.scale < r.minScale \/ (r.technologies # {} /\ r.technologies \cap ctx.tech = {})

(* The gateway: under local_only a remote provider is replaced by null.    *)
Provider == IF request.localOnly /\ request.provider = "remote" THEN "null" ELSE request.provider
MayBeUp == IF Provider = "null" THEN {FALSE} ELSE BOOLEAN

(* select_rules                                                            *)
Select ==
  /\ pc = "load" /\ packs = <<>> /\ pc' = "detect"
  /\ \E up \in MayBeUp :
       LET applicable == {id \in Instantiated : ~registry[id].gateRaises /\ ~Gated(registry[id])}
           skipped == {id \in applicable : registry[id].requiresAI /\ ~up}
       IN /\ rules' = applicable \ skipped /\ degraded' = skipped
          /\ todo' = applicable \ skipped
  /\ UNCHANGED <<env, tools, detection, memory, gateway, report, ghosts>>

-----------------------------------------------------------------------------
(* _detect.  Each finding is kept and announced as it comes.               *)
Keep(found) ==
  /\ builtin' = builtin \cup found /\ produced' = produced \cup found
  /\ heard' = Heard(found) /\ UNCHANGED silent

Detect(id) ==
  /\ pc = "detect" /\ ~registry[id].requiresAI
  /\ \E found \in registry[id].reports : Keep(found)
  /\ todo' = todo \ {id}
  /\ UNCHANGED <<pc, env, rules, degraded, tools, external, findings, notes, memory, gateway, report>>

(* detect raises: the rule is passed over, whatever it had found.          *)
DetectRaises(id) ==
  /\ pc = "detect" /\ ~registry[id].requiresAI
  /\ todo' = todo \ {id}
  /\ UNCHANGED <<pc, env, rules, degraded, tools, detection, memory, gateway, report, ghosts>>

(* AIGateway.complete, called by a rule that needs a model.  The provider  *)
(* may have gone since the rule was selected.                              *)
Unavailable(id) ==
  /\ pc = "detect" /\ registry[id].requiresAI
  /\ FALSE \in MayBeUp /\ todo' = todo \ {id}
  /\ UNCHANGED <<pc, env, rules, degraded, tools, detection, memory, gateway, report, ghosts>>

(* Mutant of Announce: nothing is announced.                               *)
AnnounceNothing(id) ==
  /\ pc = "detect" /\ registry[id].requiresAI
  /\ TRUE \in MayBeUp /\ pc' = "send"
  /\ UNCHANGED <<env, rules, degraded, todo, tools, detection, memory, gateway, report, ghosts>>

(* A prompt that leaves the machine is announced first.                    *)
Announce(id) ==
  /\ pc = "detect" /\ registry[id].requiresAI
  /\ TRUE \in MayBeUp /\ pc' = "send"
  /\ announced' = IF Provider = "remote" THEN announced + 1 ELSE announced
  /\ UNCHANGED <<env, rules, degraded, todo, tools, detection, memory, sent, answered, aiUsed,
                 report, ghosts>>

Send == sent' = IF Provider = "remote" THEN sent + 1 ELSE sent

Answer(id) ==
  /\ pc = "send" /\ pc' = "detect" /\ todo' = todo \ {id}
  /\ Send /\ answered' = answered + 1 /\ aiUsed' = TRUE
  /\ \E found \in registry[id].reports : Keep(found)
  /\ UNCHANGED <<env, rules, degraded, tools, external, findings, notes, memory, announced, report>>

(* The request times out or the body has no text: AIUnavailable, which     *)
(* ends the rule.                                                          *)
RequestFails(id) ==
  /\ pc = "send" /\ pc' = "detect" /\ todo' = todo \ {id} /\ Send
  /\ UNCHANGED <<env, rules, degraded, tools, detection, memory, announced, answered, aiUsed,
                 report, ghosts>>

-----------------------------------------------------------------------------
(* _run_adapters                                                           *)
StartAdapters ==
  /\ pc = "detect" /\ todo = {} /\ pc' = "adapters" /\ todo' = AdapterNames
  /\ UNCHANGED <<env, rules, degraded, tools, detection, memory, gateway, report, ghosts>>

(* adapters_used: the findings of a tool that ran, or why it did not.       *)
Say(a, outcome, count) ==
  used' = [b \in DOMAIN used \cup {a} |->
             IF b = a THEN [outcome |-> outcome, count |-> count] ELSE used[b]]

PassOver(a) ==
  /\ pc = "adapters" /\ ~Applicable(a, ctx)
  /\ todo' = todo \ {a}
  /\ UNCHANGED <<pc, env, rules, degraded, tools, detection, memory, gateway, report, ghosts>>

Skip(a) ==
  /\ pc = "adapters" /\ Applicable(a, ctx)
  /\ \/ Skipped(a, request.localOnly) /\ Say(a, "local_only", 0)
     \/ /\ ~Skipped(a, request.localOnly) /\ a \notin request.installed
        /\ Say(a, "not installed", 0)
  /\ todo' = todo \ {a}
  /\ UNCHANGED <<pc, env, rules, degraded, ran, hung, detection, memory, gateway, report, ghosts>>

(* An exception in applicable, skip_reason or available (bound: of a tool   *)
(* that is installed).                                                     *)
PreflightFails(a) ==
  /\ pc = "adapters" /\ a \in request.installed
  /\ Say(a, "preflight error", 0) /\ todo' = todo \ {a}
  /\ UNCHANGED <<pc, env, rules, degraded, ran, hung, detection, memory, gateway, report, ghosts>>

StartTool(a) ==
  /\ pc = "adapters" /\ Applicable(a, ctx)
  /\ ~Skipped(a, request.localOnly) /\ a \in request.installed
  /\ pc' = "tool" /\ hung' \in BOOLEAN
  /\ UNCHANGED <<env, rules, degraded, todo, ran, used, detection, memory, gateway, report, ghosts>>

(* Mutant of Took: the count is that of the findings of all tools so far.   *)
TookTogether(a, answer) ==
  /\ ran' = ran \cup {a}
  /\ Say(a, "ran", Cardinality(external \cup Findings(a, answer)))
  /\ external' = external \cup Findings(a, answer)
  /\ produced' = produced \cup Findings(a, answer) /\ heard' = Heard(Findings(a, answer))
  /\ silent' = IF Parsed(answer) \in Accepted(a) THEN silent ELSE silent \cup {a}

(* No answer, or one of the wrong shape, counts as one without findings.    *)
Took(a, answer) ==
  /\ ran' = ran \cup {a} /\ Say(a, "ran", Cardinality(Findings(a, answer)))
  /\ external' = external \cup Findings(a, answer)
  /\ produced' = produced \cup Findings(a, answer) /\ heard' = Heard(Findings(a, answer))
  /\ silent' = IF Parsed(answer) \in Accepted(a) THEN silent ELSE silent \cup {a}

ToolAnswers(a) ==
  /\ pc = "tool" /\ ~hung /\ pc' = "adapters" /\ todo' = todo \ {a}
  /\ \E answer \in Answers[a] : Took(a, answer)
  /\ UNCHANGED <<env, rules, degraded, hung, builtin, findings, notes, memory, gateway, report>>

(* Mutant of ToolFails: no timeout, so a tool that hangs is waited for.    *)
ToolCrashes(a) ==
  \/ pc = "tool" /\ hung /\ UNCHANGED vars
  \/ /\ pc = "tool" /\ ~hung /\ pc' = "adapters" /\ todo' = todo \ {a} /\ hung' = FALSE
     /\ Took(a, NoAnswer)
     /\ UNCHANGED <<env, rules, degraded, builtin, findings, notes, memory, gateway, report>>

(* exec: the timeout, or a tool that cannot be run, is no answer.          *)
ToolFails(a) ==
  /\ pc = "tool" /\ pc' = "adapters" /\ todo' = todo \ {a} /\ hung' = FALSE
  /\ Took(a, NoAnswer)
  /\ UNCHANGED <<env, rules, degraded, builtin, findings, notes, memory, gateway, report>>

(* run raises on an item it does not expect: all its findings are lost.    *)
RunRaises(a) ==
  /\ pc = "tool" /\ ~hung /\ pc' = "adapters" /\ todo' = todo \ {a}
  /\ Say(a, "run error", 0)
  /\ UNCHANGED <<env, rules, degraded, ran, hung, detection, memory, gateway, report, ghosts>>
-----------------------------------------------------------------------------
Fingerprint(f) == <<f.rule, f.place, f.text>>

(* _dedup keeps the first of each fingerprint.                             *)
(* Mutant of Dedup: one finding per rule and file.                         *)
DedupByPlace(S) ==
  {f \in S : \A g \in S : g.rule = f.rule /\ g.place = f.place => f.n <= g.n}
Dedup(S) == {f \in S : \A g \in S : Fingerprint(g) = Fingerprint(f) => f.n <= g.n}

Place(id) == CHOOSE i \in DOMAIN RuleOrder : RuleOrder[i] = id
First(S) ==
  CHOOSE f \in S : \A g \in S :
    \/ Place(f.rule[2]) < Place(g.rule[2])
    \/ f.rule = g.rule /\ f.n <= g.n

(* The built-in findings whose evidence shows the line a scanner quotes.   *)
Hosts(f) == {b \in Dedup(builtin) : f.quotes \cap b.quotes # {}}

(* _merge_adapter_findings: a scanner's finding that a built-in one        *)
(* already reports becomes a note on it.                                   *)
Merge ==
  /\ pc = "adapters" /\ todo = {} /\ pc' = "memory"
  /\ LET found == Dedup(external)
     IN /\ findings' = Dedup(Dedup(builtin) \cup {f \in found : Hosts(f) = {}})
        /\ notes' = {<<First(Hosts(f)), f.rule>> : f \in {g \in found : Hosts(g) # {}}}
  /\ UNCHANGED <<env, rules, degraded, todo, tools, builtin, external, memory, gateway, report, ghosts>>

(* _apply_memory: suppressions first, the baseline on what they leave.     *)
ApplyMemory ==
  /\ pc = "memory" /\ pc' = IF request.mode = "fix" THEN "repair" ELSE "report"
  /\ suppressed' = {f \in findings : f.rule \in request.waived}
  /\ baselined' = {f \in findings \ suppressed' : f.rule \in request.known}
  /\ UNCHANGED <<env, rules, degraded, todo, tools, detection, fixed, gateway, report, ghosts>>

(* fix: only a selected rule can repair, and only what nobody waived.      *)
Repair ==
  /\ pc = "repair" /\ pc' = "report"
  /\ \E S \in SUBSET {f \in findings \ suppressed : f.rule[1] = "VG"} : fixed' = S
  /\ UNCHANGED <<env, rules, degraded, todo, tools, detection, suppressed, baselined, gateway,
                 report, ghosts>>

(* The preflight refuses, or the branch cannot be made.                    *)
RepairRefused ==
  /\ pc = "repair" /\ pc' = "refused"
  /\ UNCHANGED <<env, rules, degraded, todo, tools, detection, memory, gateway, report, ghosts>>

-----------------------------------------------------------------------------
Detectors ==
  {[key |-> <<"VG", id>>, topics |-> registry[id].topics, applicable |-> id \in rules,
    external |-> FALSE] : id \in Instantiated}
  \cup {[key |-> a, topics |-> TopicsOf[a], applicable |-> a \in ran, external |-> TRUE] :
         a \in AdapterNames}

Categories == {registry[id].category : id \in rules} \cup {f.category : f \in external}

(* Mutant of Scored: a category counts while it has findings.              *)
ScoredIfAny(S) ==
  LET scores == CategoryScores(S, suppressed, Categories \cap {f.category : f \in S})
  IN [category |-> scores, overall |-> OverallScore(scores)]
Scored(S) ==
  LET scores == CategoryScores(S, suppressed, Categories)
  IN [category |-> scores, overall |-> OverallScore(scores)]

BuildChecklist == [t \in Topics |-> Status(t, findings, suppressed, fixed, Detectors)]

(* fix scores a second time, without what it repaired.                     *)
Remaining == IF request.mode = "fix" THEN findings \ fixed ELSE findings

(* Checklist, scores before and after, _build_report.                      *)
Finish ==
  /\ pc = "report" /\ pc' = "done"
  /\ report' = [checklist |-> BuildChecklist,
                before |-> Scored(findings), after |-> Scored(Remaining),
                aiUsed |-> aiUsed, warned |-> degraded, used |-> used]
  /\ UNCHANGED <<env, rules, degraded, todo, tools, detection, memory, gateway, ghosts>>

Stopped == pc \in {"done", "refused"} /\ UNCHANGED vars

Load == LoadPack \/ PackMissing \/ Select
RunRule ==
  \E id \in NextIn(RuleOrder) :
    \/ Detect(id) \/ DetectRaises(id) \/ Unavailable(id)
    \/ Announce(id) \/ Answer(id) \/ RequestFails(id)
RunAdapter ==
  \/ StartAdapters
  \/ \E a \in NextIn(ADAPTERS) :
       \/ PassOver(a) \/ Skip(a) \/ PreflightFails(a)
       \/ StartTool(a) \/ ToolAnswers(a) \/ ToolFails(a) \/ RunRaises(a)
Conclude == Merge \/ ApplyMemory \/ Repair \/ RepairRefused \/ Finish

Next == Load \/ RunRule \/ RunAdapter \/ Conclude \/ Stopped

Spec == Init /\ [][Next]_vars
LiveSpec == Spec /\ WF_vars(Load \/ RunRule \/ RunAdapter \/ Conclude)

-----------------------------------------------------------------------------
OnItsLine(f) == \E b \in findings : <<b, f.rule>> \in notes /\ f.quotes \cap b.quotes # {}
Sooner(f) == \E g \in findings : Fingerprint(g) = Fingerprint(f) /\ g.n < f.n

(* One finding stands for every line of a file that has the same text.      *)
SameText(f) == f.text # "" /\ Sooner(f)

(* A report that quotes no line is dropped behind another of its rule and   *)
(* file, wherever the two stand and whatever package they are about.       *)
LostUnquoted(f) == f.text = "" /\ Sooner(f)

(* "Nothing is dropped silently" (docs/DECISIONS.md:102): each report of a  *)
(* detector is in the report of the scan itself, or as a note on a built-in *)
(* finding of its line, or by one of the same text in its file, although   *)
(* rules and tools fail around it.  The one exception is LostUnquoted      *)
(* (orchestrator.py 294-349).                                              *)
Accounted ==
  pc \in {"memory", "repair", "report", "done"} =>
    \A f \in produced : f \in findings \/ OnItsLine(f) \/ SameText(f) \/ LostUnquoted(f)

(* EventBus.emit: what the report has, every subscriber was told of, those *)
(* behind one that raises included.                                        *)
EveryoneHeard == \A s \in ToSet(Subscribers) : findings \subseteq heard[s]

(* What adapters_used says of a tool is so: the number of the findings it   *)
(* returned, or the reason it did not run, which is the true one.          *)
Counts(a, said) ==
  /\ said.outcome = "ran" /\ a \in request.installed /\ ~Skipped(a, request.localOnly)
  /\ said.count = Cardinality({f \in produced : f.rule[1] = a})
Excuses(a, said) ==
  /\ \/ said.outcome = "local_only" /\ Skipped(a, request.localOnly)
     \/ said.outcome = "not installed" /\ a \notin request.installed
     \/ said.outcome = "preflight error"
     \/ said.outcome = "run error" /\ a \in request.installed
  /\ \A f \in produced : f.rule[1] # a

(* A tool that hung, could not be started or printed nonsense is listed as  *)
(* one that ran and found nothing.                                         *)
SilentAsClean(a, said) == a \in silent /\ said = [outcome |-> "ran", count |-> 0]

(* adapters_used "records every adapter that did not run together with the *)
(* reason" (docs/DECISIONS.md 110-112): of each adapter this repository is  *)
(* for it gives the findings of its answer or why there is none, whichever *)
(* others hang, raise or are missing.  The one exception is SilentAsClean  *)
(* (orchestrator.py 245-290).                                              *)
EveryToolSaid ==
  pc = "done" =>
    \A a \in AdapterNames : Applicable(a, ctx) =>
      /\ a \in DOMAIN report.used
      /\ LET said == report.used[a]
         IN \/ a \notin silent /\ Counts(a, said)
            \/ Excuses(a, said)
            \/ SilentAsClean(a, said)

(* derive_checklist: an open finding turns every topic of its detector to  *)
(* FAIL, or REVIEW_REQUIRED; the gates of the other detectors do not hide  *)
(* it.                                                                     *)
OpenIsNeverGreen ==
  pc = "done" =>
    \A f \in (findings \ suppressed) \ fixed :
      LET topics == IF f.rule[1] = "VG" THEN registry[f.rule[2]].topics ELSE TopicsOf[f.rule[1]]
      IN \A t \in topics \cap Topics : report.checklist[t] \in {"FAIL", "REVIEW_REQUIRED"}

(* score_findings in audit and fix: every open finding belongs to a scored *)
(* category, a scanner's too, and repairing findings lowers no score,      *)
(* neither of a category nor overall, in spite of the rounding.            *)
ScoresHonest ==
  pc = "done" =>
    /\ \A f \in findings : f.category \in DOMAIN report.before.category
    /\ \A c \in DOMAIN report.before.category \cap DOMAIN report.after.category :
         report.before.category[c] <= report.after.category[c]
    /\ report.before.overall <= report.after.overall

(* AIGateway: a prompt is announced before it leaves the machine, none     *)
(* does under local_only, nor does a scanner that uses the network run;    *)
(* the report says AI was used only when a completion came back.           *)
GatewayHonest ==
  /\ sent <= announced
  /\ request.localOnly => sent = 0 /\ ran \cap RequiresNetwork = {}
  /\ aiUsed <=> answered > 0

(* Every scan ends, whatever tools hang and providers do not answer.       *)
ScanEnds == <>(pc \in {"done", "refused"})
=================================================================================
