--------------------------- MODULE Validation_proofs ---------------------------
(***************************************************************************)
(* Theorems about the validation ladder for any project, tools, patches    *)
(* and defects, and any number of patches tried one after the other.       *)
(***************************************************************************)
EXTENDS Validation, TLAPS

Results == {"passed", "failed", "skipped"}

-----------------------------------------------------------------------------
LEMMA RungsAre ==
  /\ Rungs \in [1..8 -> RungNames] /\ Len(Rungs) = 8
  /\ RungNames = {"syntax", "typecheck", "lint", "tests:targeted", "tests:full", "build",
                  "container_build", "startup"}
  /\ \A r \in RungNames : \E i \in 1..8 : Rungs[i] = r
  /\ \A i, j \in 1..8 : Rungs[i] = Rungs[j] => i = j
<1>1. RungNames = {Rungs[i] : i \in DOMAIN Rungs}
  BY DEF RungNames, ToSet
<1>2. DOMAIN Rungs = 1..8 /\ Len(Rungs) = 8
  BY DEF Rungs
<1>3. Rungs \in [1..8 -> RungNames] /\ \A r \in RungNames : \E i \in 1..8 : Rungs[i] = r
  BY <1>1, <1>2 DEF Rungs
<1>4. RungNames = {"syntax", "typecheck", "lint", "tests:targeted", "tests:full", "build",
                   "container_build", "startup"}
  BY <1>1, <1>2 DEF Rungs
<1>5. \A i, j \in 1..8 : Rungs[i] = Rungs[j] => i = j
  BY DEF Rungs
<1> QED BY <1>2, <1>3, <1>4, <1>5

LEMMA ValidatorResult ==
  ASSUME NEW rung \in RungNames, NEW changed, NEW stuck
  PROVE  RunValidator(rung, changed, stuck) \in Results
<1>1. /\ \A t, scope : Judge(t, scope, stuck) \in Results
      /\ \A u, view : Npx(u, view, stuck) \in Results
      /\ \A scope : Pytest(scope, stuck) \in Results
  BY DEF Judge, Npx, Pytest, Results
<1>2. \A t, scope, u, applies, view : EitherTool(t, scope, u, applies, view, stuck) \in Results
  BY <1>1 DEF EitherTool, Results
<1>3. /\ Syntax(changed, stuck) \in Results
      /\ Typecheck(changed, stuck) \in Results /\ Lint(changed, stuck) \in Results
  BY <1>2 DEF Syntax, Typecheck, Lint, Results
<1>4. TargetedTests(changed, stuck) \in Results /\ FullTests(stuck) \in Results
  BY <1>1 DEF TargetedTests, FullTests, Results
<1>5. Build(stuck) \in Results /\ ContainerBuild(stuck) \in Results
  BY <1>1 DEF Build, ContainerBuild, Results
<1> QED BY <1>3, <1>4, <1>5, RungsAre DEF RunValidator, Results

-----------------------------------------------------------------------------
(* Where the ladder stands.                                                *)
Places ==
  {"baseline", "baselined", "next", "apply", "confirm", "ladder", "verdict"}

StepsInv ==
  /\ faults \in Nat /\ pc \in Places
  /\ steps \in Seq(Results) /\ Len(steps) <= 8
  /\ pc \in {"baseline", "ladder"} => Len(steps) < 8
  /\ pc = "baselined" => Len(steps) = 8
  /\ pc \in {"next", "apply", "confirm"} => steps = <<>>
  /\ pc \in {"baseline", "baselined", "next"} => cur = None
  /\ pc \in {"apply", "confirm", "ladder", "verdict"} => cur \in todo
  /\ todo \subseteq Patches
  /\ pc \in {"baseline", "baselined", "next", "apply", "confirm"} => repro = "none"

(* What a clean run of the next validator adds.                            *)
Heard(i) == RunValidator(Rungs[i], Changed, {})
Judged(i, said) == IF pc = "ladder" THEN Counted(Rungs[i], said) ELSE said

LEMMA RungStep ==
  ASSUME StepsInv, RunRung
  PROVE  LET i == Len(steps) + 1
         IN /\ i \in 1..8 /\ pc \in {"baseline", "ladder"} /\ faults' \in Nat
            /\ \E said \in Results :
                 /\ steps' = Append(steps, Judged(i, said)) /\ Judged(i, said) \in Results
                 /\ faults' = 0 => faults = 0 /\ said = Heard(i)
                 /\ pc' = IF i = 8 \/ (pc = "ladder" /\ Judged(i, said) = "failed")
                          THEN IF pc = "baseline" THEN "baselined" ELSE "verdict"
                          ELSE pc
<1> DEFINE i == Len(steps) + 1
<1>1. i \in 1..8 /\ pc \in {"baseline", "ladder"}
  BY DEF RunRung, StepsInv
<1>2. PICK said \in {Heard(i)} \cup Outcomes(Rungs[i], Changed) :
        /\ faults' = IF said = Heard(i) THEN faults ELSE faults + 1
        /\ steps' = Append(steps, Judged(i, said))
        /\ LET over == i = Len(Rungs) \/ StopsAt(Judged(i, said))
           IN pc' = CASE ~over -> pc
                      [] over /\ pc = "baseline" -> "baselined"
                      [] over /\ pc = "ladder" -> "verdict"
  BY DEF RunRung, Heard, Judged
<1>3. Rungs[i] \in RungNames
  BY <1>1, RungsAre
<1>4. said \in Results /\ Judged(i, said) \in Results
  BY <1>2, <1>3, ValidatorResult DEF Outcomes, Heard, Judged, Counted, Results
<1>5. faults' \in Nat /\ (faults' = 0 => faults = 0 /\ said = Heard(i))
  BY <1>2 DEF StepsInv
<1>6. pc' = IF i = 8 \/ (pc = "ladder" /\ Judged(i, said) = "failed")
            THEN IF pc = "baseline" THEN "baselined" ELSE "verdict"
            ELSE pc
  BY <1>1, <1>2, RungsAre DEF StopsAt
<1> QED BY <1>1, <1>2, <1>4, <1>5, <1>6

LEMMA NextStepsInv == StepsInv /\ [Next]_vars => StepsInv'
<1> SUFFICES ASSUME StepsInv, [Next]_vars PROVE StepsInv'
  OBVIOUS
<1>1. ASSUME RunRung PROVE StepsInv'
  <2> DEFINE i == Len(steps) + 1
  <2>1. PICK said \in Results :
          /\ i \in 1..8 /\ pc \in {"baseline", "ladder"} /\ faults' \in Nat
          /\ steps' = Append(steps, Judged(i, said)) /\ Judged(i, said) \in Results
          /\ pc' = IF i = 8 \/ (pc = "ladder" /\ Judged(i, said) = "failed")
                   THEN IF pc = "baseline" THEN "baselined" ELSE "verdict"
                   ELSE pc
    BY <1>1, RungStep
  <2>2. steps' \in Seq(Results) /\ Len(steps') = i
    BY <2>1 DEF StepsInv
  <2>3. UNCHANGED <<cur, todo, repro>>
    BY <1>1 DEF RunRung
  <2> QED BY <2>1, <2>2, <2>3 DEF StepsInv, Places
<1>2. ASSUME KeepBaseline PROVE StepsInv'
  BY <1>2 DEF KeepBaseline, StepsInv, Places
<1>3. ASSUME NEW p \in Patches, PrepareRepro(p) PROVE StepsInv'
  BY <1>3 DEF PrepareRepro, StepsInv, Places
<1>4. ASSUME ApplyPatch PROVE StepsInv'
  BY <1>4 DEF ApplyPatch, StepsInv, Places
<1>5. ASSUME ConfirmRepro PROVE StepsInv'
  <2>1. pc = "confirm" /\ pc' \in {"ladder", "verdict"} /\ UNCHANGED <<cur, todo, steps>>
    BY <1>5 DEF ConfirmRepro
  <2>2. faults' \in Nat
    BY <1>5 DEF ConfirmRepro, StepsInv
  <2> QED BY <2>1, <2>2 DEF StepsInv, Places
<1>6. ASSUME Settle PROVE StepsInv'
  BY <1>6 DEF Settle, StepsInv, Places
<1>7. CASE UNCHANGED vars
  BY <1>7 DEF vars, StepsInv
<1> QED BY <1>1, <1>2, <1>3, <1>4, <1>5, <1>6, <1>7 DEF Next, Done

-----------------------------------------------------------------------------
(* What the tools say depends on the tree and the project alone.           *)
LEMMA SameSays ==
  ASSUME UNCHANGED <<wrong, project>>, NEW rung, NEW changed
  PROVE  RunValidator(rung, changed, {})' = RunValidator(rung, changed, {})
<1>1. \A t, scope : Judge(t, scope, {})' = Judge(t, scope, {})
  BY DEF Judge, Bad, Fails
<1>2. \A u, view : Npx(u, view, {})' = Npx(u, view, {})
  BY DEF Npx, Installed, Fails
<1>3. \A t, scope, u, applies, view :
        EitherTool(t, scope, u, applies, view, {})' = EitherTool(t, scope, u, applies, view, {})
  BY <1>1, <1>2 DEF EitherTool, Usable, Declared, Installed
<1>4. \A scope : Pytest(scope, {})' = Pytest(scope, {})
  BY DEF Pytest, Installed, Fails
<1>5. Syntax(changed, {})' = Syntax(changed, {})
  BY DEF Syntax, Bad, Fails, Installed
<1>6. Typecheck(changed, {})' = Typecheck(changed, {}) /\ Lint(changed, {})' = Lint(changed, {})
  BY <1>3 DEF Typecheck, Lint
<1>7. TargetedTests(changed, {})' = TargetedTests(changed, {}) /\ FullTests({})' = FullTests({})
  BY <1>1, <1>2, <1>4 DEF TargetedTests, FullTests, Declared, Installed
<1>8. Build({})' = Build({}) /\ ContainerBuild({})' = ContainerBuild({})
  BY <1>1 DEF Build, ContainerBuild, Usable, Declared, Installed
<1> QED BY <1>5, <1>6, <1>7, <1>8 DEF RunValidator

LEMMA SameHeard ==
  ASSUME UNCHANGED <<wrong, project, cur>>, NEW i
  PROVE  Heard(i)' = Heard(i)
BY SameSays DEF Heard, Changed

-----------------------------------------------------------------------------
(* The ladder of a patch stops at a failure and nowhere else; as long as   *)
(* no tool got stuck, each step is what its validator says of the tree.    *)
LadderInv ==
  /\ pc = "ladder" => repro # "failed" /\ \A i \in 1..Len(steps) : steps[i] # "failed"
  /\ pc = "verdict" => \/ repro = "failed" \/ Len(steps) = 8
                       \/ \E i \in 1..Len(steps) : steps[i] = "failed"
  /\ faults = 0 /\ pc \in {"baseline", "baselined"} =>
       \A i \in 1..Len(steps) : steps[i] = Heard(i)
  /\ faults = 0 /\ pc \in {"ladder", "verdict"} =>
       /\ \A i \in 1..Len(steps) : steps[i] = Counted(Rungs[i], Heard(i))
       /\ repro = "none" \/ (cur \in reproTests /\ repro = ReproRun(cur))

LEMMA NextLadderInv == StepsInv /\ LadderInv /\ [Next]_vars => LadderInv'
<1> SUFFICES ASSUME StepsInv, LadderInv, [Next]_vars PROVE LadderInv'
  OBVIOUS
<1>1. ASSUME pc' \notin {"ladder", "verdict", "baseline", "baselined"} PROVE LadderInv'
  BY <1>1 DEF LadderInv
<1>2. ASSUME RunRung PROVE LadderInv'
  <2> DEFINE i == Len(steps) + 1
  <2>1. PICK said \in Results :
          /\ i \in 1..8 /\ pc \in {"baseline", "ladder"}
          /\ steps' = Append(steps, Judged(i, said)) /\ Judged(i, said) \in Results
          /\ faults' = 0 => faults = 0 /\ said = Heard(i)
          /\ pc' = IF i = 8 \/ (pc = "ladder" /\ Judged(i, said) = "failed")
                   THEN IF pc = "baseline" THEN "baselined" ELSE "verdict"
                   ELSE pc
    BY <1>2, RungStep
  <2>2. UNCHANGED <<cur, repro, reproTests, excluded, wrong, project, present>>
    BY <1>2 DEF RunRung
  <2>3. /\ Len(steps') = i /\ steps'[i] = Judged(i, said)
        /\ \A j \in 1..Len(steps) : steps'[j] = steps[j]
        /\ 1..Len(steps') = 1..Len(steps) \cup {i}
    BY <2>1 DEF StepsInv
  <2>4. \A j : Heard(j)' = Heard(j) /\ ReproRun(cur)' = ReproRun(cur)
    BY <2>2, SameHeard DEF ReproRun, Installed
  <2>5. \A r, x : Counted(r, x)' = Counted(r, x)
    BY <2>2 DEF Counted
  <2>6. CASE pc = "baseline"
    BY <2>1, <2>3, <2>4, <2>6 DEF LadderInv, Judged
  <2>7. CASE pc = "ladder"
    <3>1. pc' \in {"ladder", "verdict"}
          /\ (pc' = "ladder" => Judged(i, said) # "failed")
          /\ (pc' = "verdict" => i = 8 \/ Judged(i, said) = "failed")
      BY <2>1, <2>7
    <3>2. faults' = 0 => \A j \in 1..Len(steps') : steps'[j] = Counted(Rungs[j], Heard(j))'
      BY <2>1, <2>3, <2>4, <2>5, <2>7 DEF LadderInv, Judged
    <3>3. faults' = 0 => repro' = "none" \/ (cur' \in reproTests' /\ repro' = ReproRun(cur)')
      BY <2>1, <2>2, <2>4, <2>7 DEF LadderInv
    <3> QED BY <2>2, <2>3, <2>7, <3>1, <3>2, <3>3 DEF LadderInv
  <2> QED BY <2>1, <2>6, <2>7
<1>3. CASE KeepBaseline
  BY <1>1, <1>3 DEF KeepBaseline
<1>4. ASSUME NEW p \in Patches, PrepareRepro(p) PROVE LadderInv'
  BY <1>1, <1>4 DEF PrepareRepro
<1>5. CASE ApplyPatch \/ Settle
  BY <1>1, <1>5 DEF ApplyPatch, Settle
<1>6. ASSUME ConfirmRepro PROVE LadderInv'
  <2>1. PICK said \in IF cur \in reproTests THEN {ReproRun(cur), "inconclusive"} ELSE {"none"} :
          /\ repro' = said /\ faults' = IF said = "inconclusive" THEN faults + 1 ELSE faults
          /\ pc' = IF said = "failed" THEN "verdict" ELSE "ladder"
    BY <1>6 DEF ConfirmRepro
  <2>2. steps' = <<>> /\ UNCHANGED <<cur, reproTests, present, project>>
    BY <1>6 DEF ConfirmRepro, StepsInv
  <2>3. ReproRun(cur)' = ReproRun(cur)
    BY <2>2 DEF ReproRun, Installed
  <2>4. faults' = 0 => said # "inconclusive"
    BY <2>1 DEF StepsInv
  <2> QED BY <2>1, <2>2, <2>3, <2>4 DEF LadderInv
<1>7. ASSUME UNCHANGED vars PROVE LadderInv'
  <2>1. \A j : Heard(j)' = Heard(j) /\ ReproRun(cur)' = ReproRun(cur)
    BY <1>7, SameHeard DEF vars, ReproRun, Installed
  <2>2. \A r, x : Counted(r, x)' = Counted(r, x)
    BY <1>7 DEF vars, Counted
  <2> QED BY <1>7, <2>1, <2>2 DEF vars, LadderInv
<1> QED BY <1>2, <1>3, <1>4, <1>5, <1>6, <1>7 DEF Next, Done

LEMMA LadderAlways == Spec => [](StepsInv /\ LadderInv)
<1>1. Init => StepsInv /\ LadderInv
  BY DEF Init, StepsInv, LadderInv, Places
<1>2. StepsInv /\ LadderInv /\ [Next]_vars => StepsInv' /\ LadderInv'
  BY NextStepsInv, NextLadderInv
<1> QED BY <1>1, <1>2, PTL DEF Spec

(* A verdict that is no failure comes from a ladder run to its end.        *)
LEMMA FullLadder ==
  ASSUME StepsInv, LadderInv, pc = "verdict", Verdict # "failed"
  PROVE  /\ Len(steps) = 8 /\ repro # "failed"
         /\ \A i \in 1..8 : steps[i] \in Results \ {"failed"}
<1>1. "failed" \notin ToSet(steps) \cup {repro}
  BY DEF Verdict
<1>2. \A i \in 1..Len(steps) : steps[i] \in ToSet(steps)
  BY DEF ToSet, StepsInv
<1>3. Len(steps) = 8 /\ repro # "failed"
  BY <1>1, <1>2 DEF LadderInv
<1>4. \A i \in 1..8 : steps[i] \in Results
  <2>1. steps \in Seq(Results)
    BY DEF StepsInv
  <2>2. \A i \in 1..Len(steps) : steps[i] \in Results
    BY <2>1
  <2> QED BY <1>3, <2>2
<1>5. \A i \in 1..8 : steps[i] # "failed"
  BY <1>1, <1>2, <1>3
<1> QED BY <1>3, <1>4, <1>5

(* FIXED is true of the tree, for any project, tools, excluded rungs and   *)
(* repro test: no rung that counts fails on it, and one of them, or the    *)
(* repro test that failed before, vouches for it (validation/engine.py     *)
(* 83-149).                                                                *)
THEOREM FixedCorrect == Spec => []FixedIsTrue
<1>1. StepsInv /\ LadderInv => FixedIsTrue
  <2> DEFINE Says(rung) == RunValidator(rung, Changed, {})
  <2> SUFFICES ASSUME StepsInv, LadderInv, pc = "verdict", faults = 0, Verdict = "fixed"
               PROVE  /\ \A rung \in RungNames \ excluded : Says(rung) # "failed"
                      /\ (\E rung \in RungNames \ excluded : Says(rung) = "passed")
                           \/ (cur \in reproTests /\ cur \notin present)
    BY DEF FixedIsTrue
  <2>1. Len(steps) = 8 /\ repro # "failed" /\ \A i \in 1..8 : steps[i] # "failed"
    BY FullLadder
  <2>2. \A i \in 1..8 : steps[i] = Counted(Rungs[i], Says(Rungs[i]))
    BY <2>1 DEF LadderInv, Heard
  <2>3. ASSUME NEW rung \in RungNames \ excluded PROVE Says(rung) # "failed"
    <3>1. PICK i \in 1..8 : Rungs[i] = rung
      BY RungsAre
    <3> QED BY <2>1, <2>2, <3>1 DEF Counted
  <2>4. "passed" \in ToSet(steps) \cup {repro}
    BY DEF Verdict
  <2>5. repro = "passed" => cur \in reproTests /\ cur \notin present
    BY DEF LadderInv, ReproRun
  <2>6. ASSUME NEW i \in 1..8, steps[i] = "passed"
        PROVE  \E rung \in RungNames \ excluded : Says(rung) = "passed"
    <3>1. Rungs[i] \in RungNames
      BY RungsAre
    <3>2. Rungs[i] \notin excluded /\ Says(Rungs[i]) = "passed"
      BY <2>2, <2>6 DEF Counted
    <3> QED BY <3>1, <3>2
  <2>7. repro # "passed" => \E i \in 1..8 : steps[i] = "passed"
    BY <2>1, <2>4 DEF ToSet, StepsInv
  <2> QED BY <2>3, <2>5, <2>6, <2>7
<1> QED BY <1>1, LadderAlways, PTL

-----------------------------------------------------------------------------
(* Why a rung over the whole project passes on a tree with the defects w.  *)
Clean(t, w) == \A f \in Files : <<t, f>> \notin w
PassesOn(rung, w) ==
  \/ /\ rung = "tests:full" /\ Declared("pytest") /\ Installed("pytest")
     /\ Clean("pytest", w) /\ Files \cap Tested # {}
  \/ /\ rung = "tests:full" /\ ~Declared("pytest") /\ Declared("npm test") /\ Installed("npm")
     /\ Clean("npm test", w)
  \/ rung = "build" /\ Declared("npm build") /\ Installed("npm") /\ Clean("npm build", w)
  \/ rung = "build" /\ ~Declared("npm build") /\ Usable("wheel") /\ Clean("wheel", w)
  \/ rung = "container_build" /\ Usable("docker") /\ Clean("docker", w)

(* Whether such a rung applies is a matter of the project, and whether it  *)
(* then passes one of the tree.                                            *)
LEMMA WholeRung ==
  ASSUME NEW rung \in WholeProject, NEW changed, NEW w
  PROVE  /\ RunValidator(rung, changed, {}) = "passed" <=> PassesOn(rung, wrong)
         /\ PassesOn(rung, w) /\ RunValidator(rung, changed, {}) # "failed" => PassesOn(rung, wrong)
<1>1. \A t : Judge(t, Files, {}) = IF Clean(t, wrong) THEN "passed" ELSE "failed"
  BY DEF Judge, Bad, Fails, Clean
<1>2. Pytest(Files, {}) = IF ~Installed("pytest") \/ ~Clean("pytest", wrong) THEN "failed"
                          ELSE IF Files \cap Tested = {} THEN "skipped" ELSE "passed"
  BY DEF Pytest, Fails, Clean, Installed
<1>3. CASE rung = "tests:full"
  <2>1. RunValidator(rung, changed, {}) = FullTests({})
    BY <1>3 DEF RunValidator
  <2> QED BY <1>1, <1>2, <1>3, <2>1 DEF FullTests, PassesOn
<1>4. CASE rung = "build"
  <2>1. RunValidator(rung, changed, {}) = Build({})
    BY <1>4 DEF RunValidator
  <2> QED BY <1>1, <1>4, <2>1 DEF Build, PassesOn
<1>5. CASE rung = "container_build"
  <2>1. RunValidator(rung, changed, {}) = ContainerBuild({})
    BY <1>5 DEF RunValidator
  <2> QED BY <1>1, <1>5, <2>1 DEF ContainerBuild, PassesOn
<1> QED BY <1>3, <1>4, <1>5 DEF WholeProject

(* The tree a FAILED patch goes back to, or the tree as it is, is no worse *)
(* for the rungs that were green.                                          *)
Kept == IF pc \in {"confirm", "ladder", "verdict"} THEN before.wrong ELSE wrong

HealthInv ==
  faults = 0 /\ pc \notin {"baseline", "baselined"} =>
    /\ excluded = {Rungs[i] : i \in {k \in 1..8 : baseline[k] = "failed"}}
    /\ \A i \in 1..8 :
         Rungs[i] \in WholeProject /\ baseline[i] = "passed" => PassesOn(Rungs[i], Kept)

LEMMA NextHealthInv == StepsInv /\ LadderInv /\ HealthInv /\ [Next]_vars => HealthInv'
<1> SUFFICES ASSUME StepsInv, LadderInv, HealthInv, [Next]_vars PROVE HealthInv'
  OBVIOUS
<1>1. faults' = 0 => faults = 0
  BY DEF StepsInv, Next, RunRung, KeepBaseline, PrepareRepro, ApplyPatch, ConfirmRepro, Settle, Done, vars
<1>2. project' = project
  BY DEF Next, RunRung, KeepBaseline, PrepareRepro, ApplyPatch, ConfirmRepro, Settle, Done, vars
<1>3. \A r, w : PassesOn(r, w)' = PassesOn(r, w)
  BY <1>2 DEF PassesOn, Usable, Declared, Installed
<1>4. ASSUME UNCHANGED <<excluded, baseline>>, Kept' = Kept,
             pc \in {"baseline", "baselined"} => pc' \in {"baseline", "baselined"}
      PROVE  HealthInv'
  <2>1. \A r : PassesOn(r, Kept)' = PassesOn(r, Kept)
    BY <1>2, <1>4 DEF PassesOn, Usable, Declared, Installed, Clean
  <2> QED BY <1>1, <1>4, <2>1 DEF HealthInv
<1>5. CASE RunRung
  <2>1. pc \in {"baseline", "ladder"} /\ UNCHANGED <<excluded, baseline, before, wrong>>
        /\ pc' \in (IF pc = "baseline" THEN {"baseline", "baselined"} ELSE {"ladder", "verdict"})
    BY <1>5, RungStep DEF RunRung
  <2> QED BY <1>4, <2>1 DEF Kept
<1>6. ASSUME KeepBaseline PROVE HealthInv'
  <2>1. /\ Len(steps) = 8 /\ baseline' = steps /\ pc = "baselined" /\ pc' = "next" /\ wrong' = wrong
        /\ excluded' = {Rungs[i] : i \in {k \in 1..8 : steps[k] = "failed"}}
    BY <1>6 DEF KeepBaseline, StepsInv
  <2>2. ASSUME faults = 0, NEW i \in 1..8, Rungs[i] \in WholeProject, steps[i] = "passed"
        PROVE  PassesOn(Rungs[i], wrong)
    BY <2>1, <2>2, WholeRung DEF LadderInv, Heard
  <2>3. Kept' = wrong
    BY <2>1 DEF Kept
  <2>4. \A r : PassesOn(r, Kept)' = PassesOn(r, wrong)
    BY <1>2, <2>3 DEF PassesOn, Usable, Declared, Installed, Clean
  <2> QED BY <1>1, <2>1, <2>2, <2>4 DEF HealthInv
<1>7. ASSUME NEW p \in Patches, PrepareRepro(p) PROVE HealthInv'
  BY <1>4, <1>7 DEF PrepareRepro, Kept
<1>8. CASE ApplyPatch
  BY <1>4, <1>8 DEF ApplyPatch, Kept
<1>9. CASE ConfirmRepro
  BY <1>4, <1>9 DEF ConfirmRepro, Kept
<1>10. ASSUME Settle PROVE HealthInv'
  <2>1. pc = "verdict" /\ pc' = "next" /\ UNCHANGED <<excluded, baseline>>
        /\ wrong' = IF Verdict = "failed" THEN before.wrong ELSE wrong
    BY <1>10 DEF Settle
  <2>2. CASE Verdict = "failed"
    BY <1>4, <2>1, <2>2 DEF Kept
  <2>3. CASE Verdict # "failed"
    <3>1. Kept = before.wrong /\ Kept' = wrong
      BY <2>1, <2>3 DEF Kept
    <3>2. ASSUME faults = 0, NEW i \in 1..8, Rungs[i] \in WholeProject, baseline[i] = "passed"
          PROVE  PassesOn(Rungs[i], wrong)
      <4>1. PassesOn(Rungs[i], before.wrong)
        BY <2>1, <3>1, <3>2 DEF HealthInv
      <4>2. Rungs[i] \notin excluded
        <5>1. ASSUME Rungs[i] \in excluded PROVE FALSE
          <6>1. PICK k \in 1..8 : Rungs[k] = Rungs[i] /\ baseline[k] = "failed"
            BY <2>1, <3>2, <5>1 DEF HealthInv
          <6> QED BY <3>2, <6>1, RungsAre
        <5> QED BY <5>1
      <4>3. steps[i] = Counted(Rungs[i], Heard(i)) /\ steps[i] # "failed"
        BY <2>1, <2>3, <3>2, FullLadder DEF LadderInv
      <4>4. RunValidator(Rungs[i], Changed, {}) # "failed"
        BY <4>2, <4>3 DEF Counted, Heard
      <4> QED BY <3>2, <4>1, <4>4, WholeRung
    <3>3. \A r : PassesOn(r, Kept)' = PassesOn(r, wrong)
      BY <1>2, <3>1 DEF PassesOn, Usable, Declared, Installed, Clean
    <3> QED BY <1>1, <2>1, <3>2, <3>3 DEF HealthInv
  <2> QED BY <2>2, <2>3
<1>11. CASE UNCHANGED vars
  BY <1>4, <1>11 DEF vars, Kept
<1> QED BY <1>5, <1>6, <1>7, <1>8, <1>9, <1>10, <1>11 DEF Next, Done

(* What passed before the first patch passes after every patch that is     *)
(* kept, however many were tried, mended or rolled back: neither the early *)
(* stop, nor the excluded rungs, nor the skips let a patch break a suite   *)
(* or a build that was green (validation/engine.py 83-149).                *)
THEOREM HealthCorrect == Spec => []HealthyStaysHealthy
<1>1. Init => HealthInv
  BY DEF Init, HealthInv
<1>2. Spec => [](StepsInv /\ LadderInv /\ HealthInv)
  <2>1. StepsInv /\ LadderInv /\ HealthInv /\ [Next]_vars
          => StepsInv' /\ LadderInv' /\ HealthInv'
    BY NextStepsInv, NextLadderInv, NextHealthInv
  <2>2. Init => StepsInv /\ LadderInv
    BY DEF Init, StepsInv, LadderInv, Places
  <2> QED BY <1>1, <2>1, <2>2, PTL DEF Spec
<1>3. StepsInv /\ LadderInv /\ HealthInv => HealthyStaysHealthy
  BY WholeRung, RungsAre DEF HealthInv, HealthyStaysHealthy, Kept
<1> QED BY <1>2, <1>3, PTL

-----------------------------------------------------------------------------
(* Where nothing is wrong and every tool of the project is there, no rung  *)
(* fails.                                                                  *)
LEMMA NothingFails ==
  ASSUME wrong = {}, Equipped, NEW rung \in RungNames, NEW changed
  PROVE  RunValidator(rung, changed, {}) # "failed"
<1>1. \A t : (Declared(t) => Installed(t)) /\ Installed("pytest")
  BY DEF Equipped, Declared, Installed
<1>2. /\ \A t, scope : Judge(t, scope, {}) = "passed" /\ ~Bad(t, scope, {})
      /\ \A u, view : Installed(u) => Npx(u, view, {}) = "passed"
      /\ \A scope : Pytest(scope, {}) # "failed"
  BY <1>1 DEF Judge, Bad, Npx, Pytest, Fails, Installed
<1>3. \A t, scope, u, applies, view : EitherTool(t, scope, u, applies, view, {}) # "failed"
  BY <1>1, <1>2 DEF EitherTool
<1>4. Syntax(changed, {}) # "failed"
  BY <1>2 DEF Syntax
<1>5. Typecheck(changed, {}) # "failed" /\ Lint(changed, {}) # "failed"
  BY <1>3 DEF Typecheck, Lint
<1>6. TargetedTests(changed, {}) # "failed"
  <2>1. Declared("jest") \/ Declared("npm test") => Installed("jest")
    BY <1>1 DEF Equipped
  <2> QED BY <1>2, <2>1 DEF TargetedTests
<1>7. FullTests({}) # "failed" /\ Build({}) # "failed" /\ ContainerBuild({}) # "failed"
  BY <1>2 DEF FullTests, Build, ContainerBuild
<1> QED BY <1>4, <1>5, <1>6, <1>7, RungsAre DEF RunValidator

HarmInv ==
  pc \in {"confirm", "ladder", "verdict"} /\ harmless =>
    wrong \subseteq before.wrong /\ cur \notin present

LEMMA NextHarmInv == StepsInv /\ HarmInv /\ [Next]_vars => HarmInv'
<1> SUFFICES ASSUME StepsInv, HarmInv, [Next]_vars PROVE HarmInv'
  OBVIOUS
<1>1. ASSUME pc' \notin {"confirm", "ladder", "verdict"} PROVE HarmInv'
  BY <1>1 DEF HarmInv
<1>2. ASSUME pc \in {"confirm", "ladder", "verdict"}, UNCHANGED <<harmless, wrong, before, cur, present>>
      PROVE  HarmInv'
  BY <1>2 DEF HarmInv
<1>3. CASE RunRung
  <2>1. pc = "baseline" => pc' \in {"baseline", "baselined"}
    BY <1>3, RungStep
  <2> QED BY <1>1, <1>2, <1>3, <2>1 DEF RunRung
<1>4. CASE ConfirmRepro
  BY <1>2, <1>4 DEF ConfirmRepro
<1>5. ASSUME ApplyPatch PROVE HarmInv'
  <2>1. PICK harm \in Harms, fixes \in BOOLEAN, mends \in BOOLEAN :
          /\ present' = IF fixes THEN present \ {cur} ELSE present
          /\ harmless' = (fixes /\ wrong' \subseteq wrong)
    BY <1>5 DEF ApplyPatch
  <2>2. before'.wrong = wrong /\ cur' = cur
    BY <1>5 DEF ApplyPatch
  <2>3. harmless' => fixes /\ wrong' \subseteq wrong
    BY <2>1, Zenon
  <2> QED BY <2>1, <2>2, <2>3 DEF HarmInv
<1>6. ASSUME NEW p \in Patches, KeepBaseline \/ PrepareRepro(p) \/ Settle PROVE HarmInv'
  BY <1>1, <1>6 DEF KeepBaseline, PrepareRepro, Settle
<1>7. CASE UNCHANGED vars
  BY <1>7 DEF vars, HarmInv
<1>8. CASE KeepBaseline \/ Settle
  BY <1>1, <1>8 DEF KeepBaseline, Settle
<1> QED BY <1>3, <1>4, <1>5, <1>6, <1>7, <1>8 DEF Next, Done

(* In a tree where nothing is wrong, a patch that repairs its finding and  *)
(* breaks nothing is not FAILED, for any project whose tools are there and *)
(* whatever repro tests of earlier patches are on disk (validators.py      *)
(* 124-128).                                                               *)
THEOREM HarmlessCorrect == Spec => []HarmlessKept
<1>1. Init => HarmInv
  BY DEF Init, HarmInv
<1>2. Spec => [](StepsInv /\ LadderInv /\ HarmInv)
  <2>1. StepsInv /\ LadderInv /\ HarmInv /\ [Next]_vars => StepsInv' /\ LadderInv' /\ HarmInv'
    BY NextStepsInv, NextLadderInv, NextHarmInv
  <2>2. Init => StepsInv /\ LadderInv
    BY DEF Init, StepsInv, LadderInv, Places
  <2> QED BY <1>1, <2>1, <2>2, PTL DEF Spec
<1>3. StepsInv /\ LadderInv /\ HarmInv => HarmlessKept
  <2> SUFFICES ASSUME StepsInv, LadderInv, HarmInv, pc = "verdict", faults = 0, harmless,
                      before.wrong = {}, Equipped
               PROVE  "failed" \notin ToSet(steps) \cup {repro}
    BY DEF HarmlessKept, Verdict
  <2>1. wrong = {} /\ cur \notin present
    BY DEF HarmInv
  <2>2. Installed("pytest")
    BY DEF Equipped, Installed
  <2>3. repro # "failed"
    BY <2>1, <2>2 DEF LadderInv, ReproRun
  <2>4. ASSUME NEW i \in 1..Len(steps) PROVE steps[i] # "failed"
    <3>1. steps[i] = Counted(Rungs[i], Heard(i)) /\ i \in 1..8
      BY DEF LadderInv, StepsInv
    <3>2. Rungs[i] \in RungNames
      BY <3>1, RungsAre
    <3>3. Heard(i) # "failed"
      BY <2>1, <3>2, NothingFails DEF Heard
    <3> QED BY <3>1, <3>3 DEF Counted
  <2>5. ToSet(steps) = {steps[i] : i \in 1..Len(steps)}
    BY DEF ToSet, StepsInv
  <2> QED BY <2>3, <2>4, <2>5
<1> QED BY <1>2, <1>3, PTL
================================================================================
