------------------------------ MODULE Validation ------------------------------
(***************************************************************************)
(* How a patch is judged: the ladder of validators run once over the       *)
(* untouched repository and again after every patch, the rungs excluded    *)
(* because they failed before, and the generated repro test run before and *)
(* after the patch.                                                        *)
(*                                                                         *)
(* What a tool would complain about is the set of defects in the tree, one *)
(* per tool and file; a rung is what its tools say of the files it hands   *)
(* them.  Applying and rolling back a patch are one step each: RepairLoop  *)
(* models how they fail.                                                   *)
(***************************************************************************)
EXTENDS Naturals, Sequences, SequencesExt

CONSTANTS
  Files,
  Lang,        \* Lang[f]: the language of f by its suffix
  Listed,      \* files within the _MAX_FILES first of ctx.files
  Tested,      \* files that a pytest test is named after
  Projects,    \* records: the tools the project declares, those installed
  Patches,
  Changes,     \* Changes[p]: files of patch p
  Templated,   \* patches of rules that have a repro template
  Starts,      \* sets of defects an untouched repository may have
  Harms,       \* sets of defects a patch may introduce
  MaxFaults,   \* bound: tools that time out, crash or raise
  None

Tools == {"py_compile", "node", "mypy", "tsc", "ruff", "eslint", "pytest", "jest",
          "npm test", "npm build", "wheel", "docker", "npm", "npx"}
Defects == Tools \X Files
Langs == {"py", "js", "ts", "other"}
Rungs == <<"syntax", "typecheck", "lint", "tests:targeted", "tests:full", "build",
           "container_build", "startup">>
RungNames == ToSet(Rungs)

ASSUME ProjectAssumption ==
  /\ Lang \in [Files -> Langs] /\ Listed \subseteq Files /\ Tested \subseteq Files
  /\ Projects \subseteq [declared : SUBSET Tools, installed : SUBSET Tools]
ASSUME PatchAssumption ==
  /\ Changes \in [Patches -> (SUBSET Files) \ {{}}] /\ Templated \subseteq Patches
  /\ Starts \subseteq SUBSET Defects /\ Harms \subseteq SUBSET Defects
  /\ MaxFaults \in Nat /\ None \notin Patches

VARIABLES
  project,     \* what the project declares and the machine has
  wrong,       \* the defects in the tree
  present,     \* findings still in the tree
  excluded,    \* ValidationEngine.baseline_failures
  baseline,    \* ValidationEngine.baseline_steps, by rung
  pc, cur, todo,
  steps,       \* results of this ladder so far, in the order of Rungs
  reproTests,  \* generated tests on disk, in .vibeguard/repro
  repro,       \* what confirm said of the current patch
  rec,         \* rec[p]: status of the record
  faults

\* History, read by no action: the tree before the current patch, what was
\* wrong before any patch, and whether the current patch did what it should
\* and no harm.
VARIABLES before, start, harmless

vars == <<project, wrong, present, excluded, baseline, pc, cur, todo, steps,
          reproTests, repro, rec, faults, before, start, harmless>>

-----------------------------------------------------------------------------
Declared(t) == t \in project.declared
Installed(t) == t \in project.installed
Usable(t) == Declared(t) /\ Installed(t)

Fails(t, scope) == \E f \in scope : <<t, f>> \in wrong

(* One subprocess; in the rungs that use Bad, a timeout is a failure.      *)
Bad(t, scope, stuck) == scope # {} /\ (t \in stuck \/ Fails(t, scope))
Judge(t, scope, stuck) == IF Bad(t, scope, stuck) THEN "failed" ELSE "passed"

(* The changed files of interest, or, at baseline, those of the project.   *)
Targets(changed, langs) ==
  {f \in IF changed = {} THEN Listed ELSE changed : Lang[f] \in langs}

(* `npx --no-install u`: an error of npx itself is a skip, but a package   *)
(* that is not installed is an exit code like any other.                   *)
Npx(u, view, stuck) ==
  CASE u \in stuck -> "skipped"
    [] u \notin stuck /\ (~Installed(u) \/ Fails(u, view)) -> "failed"
    [] OTHER -> "passed"

(* t when it applies and is installed, else u when it applies.             *)
EitherTool(t, scope, u, applies, view, stuck) ==
  LET first == scope # {} /\ Usable(t)
      second == applies /\ Declared(u) /\ Installed("npx")
  IN CASE first -> Judge(t, scope, stuck)
       [] ~first /\ second -> Npx(u, view, stuck)
       [] OTHER -> "skipped"

Syntax(changed, stuck) ==
  LET py == Targets(changed, {"py"})
      js == IF Installed("node") THEN Targets(changed, {"js"}) ELSE {}
  IN CASE Bad("py_compile", py, stuck) \/ Bad("node", js, stuck) -> "failed"
       [] py \cup js = {} -> "skipped"
       [] OTHER -> "passed"

(* tsc checks the whole project; "not found" in its output is one more way *)
(* for it to be stuck.                                                     *)
Typecheck(changed, stuck) ==
  EitherTool("mypy", Targets(changed, {"py"}),
             "tsc", Targets(changed, {"js", "ts"}) # {}, Files, stuck)

Lint(changed, stuck) ==
  LET js == Targets(changed, {"js", "ts"})
  IN EitherTool("ruff", Targets(changed, {"py"}), "eslint", js # {}, js, stuck)

(* python -m pytest exits 1 for a failing test, and also when VibeGuard's  *)
(* interpreter has no pytest; 5 when no test was collected.                *)
Pytest(scope, stuck) ==
  IF ~Installed("pytest") \/ "pytest" \in stuck \/ Fails("pytest", scope) THEN "failed"
  ELSE IF scope \cap Tested = {} THEN "skipped" ELSE "passed"

(* Only the changed files, so nothing at baseline; jest is tried in every  *)
(* project that has a test script.                                         *)
TargetedTests(changed, stuck) ==
  LET py == {f \in changed : Lang[f] = "py"}
      js == {f \in changed : Lang[f] \in {"js", "ts"}}
      jest == Declared("jest") \/ Declared("npm test")
  IN CASE py # {} /\ Declared("pytest") -> Pytest(py, stuck)
       [] ~(py # {} /\ Declared("pytest")) /\ js # {} /\ jest /\ Installed("npx") ->
            Npx("jest", js, stuck)
       [] OTHER -> "skipped"

(* Mutant of FullTests: the tests of .vibeguard/repro are collected.        *)
FullTestsAndRepro(stuck) ==
  CASE Declared("pytest") ->
         IF reproTests \cap present # {} THEN "failed" ELSE Pytest(Files, stuck)
    [] ~Declared("pytest") /\ Declared("npm test") /\ Installed("npm") -> Judge("npm test", Files, stuck)
    [] OTHER -> "skipped"

FullTests(stuck) ==
  CASE Declared("pytest") -> Pytest(Files, stuck)
    [] ~Declared("pytest") /\ Declared("npm test") /\ Installed("npm") -> Judge("npm test", Files, stuck)
    [] OTHER -> "skipped"

(* A declared npm script comes first even when npm is missing.             *)
Build(stuck) ==
  CASE Declared("npm build") /\ Installed("npm") -> Judge("npm build", Files, stuck)
    [] ~Declared("npm build") /\ Usable("wheel") -> Judge("wheel", Files, stuck)
    [] OTHER -> "skipped"

(* Only with --deep-validate and a Dockerfile, which declare docker here.  *)
ContainerBuild(stuck) ==
  IF Usable("docker") THEN Judge("docker", Files, stuck) ELSE "skipped"

RunValidator(rung, changed, stuck) ==
  CASE rung = "syntax" -> Syntax(changed, stuck)
    [] rung = "typecheck" -> Typecheck(changed, stuck)
    [] rung = "lint" -> Lint(changed, stuck)
    [] rung = "tests:targeted" -> TargetedTests(changed, stuck)
    [] rung = "tests:full" -> FullTests(stuck)
    [] rung = "build" -> Build(stuck)
    [] rung = "container_build" -> ContainerBuild(stuck)
    [] rung = "startup" -> "skipped"

(* What _run_one may return: what the tools say, or what they say when one *)
(* of them gets stuck, or a skip when the validator raised.                *)
Outcomes(rung, changed) ==
  {RunValidator(rung, changed, {t}) : t \in Tools} \cup {"skipped"}

-----------------------------------------------------------------------------
Init ==
  /\ project \in Projects /\ wrong \in Starts /\ present = Patches
  /\ excluded = {} /\ baseline = <<>>
  /\ pc = "baseline" /\ cur = None /\ todo = Patches
  /\ steps = <<>> /\ reproTests = {} /\ repro = "none"
  /\ rec = [p \in Patches |-> None] /\ faults = 0
  /\ before = [wrong |-> {}, present |-> {}] /\ start = wrong /\ harmless = FALSE

Changed == IF cur = None THEN {} ELSE Changes[cur]

(* Mutant of Counted: an excluded rung counts as passed.                    *)
CountedGreen(rung, result) ==
  IF rung \in excluded /\ result # "skipped" THEN "passed" ELSE result

(* A rung that failed at baseline is reported as skipped.                  *)
Counted(rung, result) ==
  IF rung \in excluded /\ result # "skipped" THEN "skipped" ELSE result

(* Mutant of StopsAt: any result that is not a skip ends the ladder.        *)
StopsAtFirst(result) == pc = "ladder" /\ result # "skipped"

StopsAt(result) == pc = "ladder" /\ result = "failed"

(* One validator; the ladder of a patch stops at the first failure.        *)
RunRung ==
  /\ pc \in {"baseline", "ladder"}
  /\ LET rung == Rungs[Len(steps) + 1]
         heard == RunValidator(rung, Changed, {})
     IN \E said \in {heard} \cup Outcomes(rung, Changed) :
          /\ faults' = IF said = heard THEN faults ELSE faults + 1
          /\ faults' <= MaxFaults
          /\ LET result == IF pc = "ladder" THEN Counted(rung, said) ELSE said
                 over == Len(steps) + 1 = Len(Rungs) \/ StopsAt(result)
             IN /\ steps' = Append(steps, result)
                /\ pc' = CASE ~over -> pc
                           [] over /\ pc = "baseline" -> "baselined"
                           [] over /\ pc = "ladder" -> "verdict"
  /\ UNCHANGED <<project, wrong, present, excluded, baseline, cur, todo, reproTests,
                 repro, rec, before, start, harmless>>

KeepBaseline ==
  /\ pc = "baselined" /\ pc' = "next"
  /\ excluded' = {Rungs[i] : i \in {k \in 1..Len(steps) : steps[k] = "failed"}}
  /\ baseline' = steps /\ steps' = <<>>
  /\ UNCHANGED <<project, wrong, present, cur, todo, reproTests, repro, rec, faults,
                 before, start, harmless>>

(* What a run of the generated test tells: exit 1 is a failing test, a     *)
(* timeout and the other exit codes tell nothing.                          *)
ReproRun(p) ==
  IF p \in present \/ ~Installed("pytest") THEN "failed" ELSE "passed"

(* prepare: the test is kept only when it fails on the unrepaired file.    *)
PrepareRepro(p) ==
  /\ pc = "next" /\ p \in todo
  /\ cur' = p /\ pc' = "apply"
  /\ \E said \in IF p \in Templated THEN {ReproRun(p), "inconclusive"} ELSE {"none"} :
       /\ faults' = IF said = "inconclusive" THEN faults + 1 ELSE faults
       /\ faults' <= MaxFaults
       /\ reproTests' = IF said = "failed"
                        THEN reproTests \cup {p} ELSE reproTests \ {p}
  /\ UNCHANGED <<project, wrong, present, excluded, baseline, todo, steps, repro, rec,
                 before, start, harmless>>

(* The patch is written; it may repair the finding, mend or break things.  *)
ApplyPatch ==
  /\ pc = "apply" /\ pc' = "confirm"
  /\ before' = [wrong |-> wrong, present |-> present]
  /\ \E harm \in Harms, fixes, mends \in BOOLEAN :
       /\ wrong' = (IF mends THEN wrong \ (Tools \X Changed) ELSE wrong) \cup harm
       /\ present' = IF fixes THEN present \ {cur} ELSE present
       /\ harmless' = (fixes /\ wrong' \subseteq wrong)
  /\ UNCHANGED <<project, excluded, baseline, cur, todo, steps, reproTests, repro, rec,
                 faults, start>>

(* confirm; a test that still fails leaves nothing for the ladder to say.  *)
ConfirmRepro ==
  /\ pc = "confirm"
  /\ \E said \in IF cur \in reproTests THEN {ReproRun(cur), "inconclusive"} ELSE {"none"} :
       /\ repro' = said
       /\ faults' = IF said = "inconclusive" THEN faults + 1 ELSE faults
       /\ faults' <= MaxFaults
       /\ pc' = IF said = "failed" THEN "verdict" ELSE "ladder"
  /\ UNCHANGED <<project, wrong, present, excluded, baseline, cur, todo, steps,
                 reproTests, rec, before, start, harmless>>

(* ValidationEngine.verdict over the steps and the repro step.             *)
Verdict ==
  LET said == ToSet(steps) \cup {repro}
  IN CASE "failed" \in said -> "failed"
       [] "failed" \notin said /\ "passed" \in said -> "fixed"
       [] OTHER -> "unverified"

(* The patch is kept or rolled back.                                       *)
Settle ==
  /\ pc = "verdict" /\ pc' = "next"
  /\ rec' = [rec EXCEPT ![cur] = Verdict]
  /\ todo' = todo \ {cur}
  /\ wrong' = IF Verdict = "failed" THEN before.wrong ELSE wrong
  /\ present' = IF Verdict = "failed" THEN before.present ELSE present
  /\ cur' = None /\ steps' = <<>> /\ repro' = "none"
  /\ UNCHANGED <<project, excluded, baseline, reproTests, faults, before, start, harmless>>

Done == pc = "next" /\ todo = {} /\ UNCHANGED vars

Next ==
  \/ RunRung \/ KeepBaseline
  \/ \E p \in Patches : PrepareRepro(p)
  \/ ApplyPatch \/ ConfirmRepro \/ Settle \/ Done

Spec == Init /\ [][Next]_vars

-----------------------------------------------------------------------------
(* The rungs that look at the whole project whatever has changed.          *)
WholeProject == {"tests:full", "build", "container_build"}

(* A suite or a build that passed before the first patch passes after      *)
(* every patch that is kept, however many were tried: the early stop, the  *)
(* exclusions and the skips never let a patch break what was green         *)
(* (validation/engine.py 83-149).                                          *)
HealthyStaysHealthy ==
  pc = "next" /\ faults = 0 =>
    \A i \in 1..Len(Rungs) :
      Rungs[i] \in WholeProject /\ baseline[i] = "passed" =>
        RunValidator(Rungs[i], {}, {}) = "passed"

(* FIXED is true of the tree: no rung that counts fails on it, and one of  *)
(* them, or the repro test that failed before, vouches for it.  A rung     *)
(* that was red at baseline never does (validation/engine.py 16-20).       *)
FixedIsTrue ==
  pc = "verdict" /\ faults = 0 /\ Verdict = "fixed" =>
    LET counts == RungNames \ excluded
        says(rung) == RunValidator(rung, Changed, {})
    IN /\ \A rung \in counts : says(rung) # "failed"
       /\ (\E rung \in counts : says(rung) = "passed")
            \/ (cur \in reproTests /\ cur \notin present)

(* Every tool the ladder runs for this project is there.                   *)
Equipped ==
  /\ project.declared \cup {"pytest"} \subseteq project.installed
  /\ Declared("npm test") => Installed("jest")

(* In a tree where nothing is wrong, a patch that repairs its finding and  *)
(* breaks nothing is not FAILED, although the repro tests of earlier       *)
(* FAILED patches are still on disk and still fail (validators.py 124-128).*)
HarmlessKept ==
  /\ pc = "verdict" /\ faults = 0 /\ harmless /\ before.wrong = {} /\ Equipped
  => Verdict # "failed"

(* DECISIONS.md 174: a suite that was already red cannot mark a fix        *)
(* FAILED.                                                                 *)
RedSuiteNotBlamed ==
  /\ pc = "verdict" /\ faults = 0 /\ harmless /\ Equipped
  /\ before.wrong = start /\ start \subseteq {"pytest"} \X Files
  => Verdict # "failed"
=============================================================================
