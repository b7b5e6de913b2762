---------------------------- MODULE Memory_proofs ----------------------------
(***************************************************************************)
(* Theorems about the memory of VibeGuard for any number of runs, sites,   *)
(* entries, edits, faults and moments.                                     *)
(***************************************************************************)
EXTENDS Memory, FiniteSetTheorems, TLAPS

-----------------------------------------------------------------------------
(* The gate.  A fingerprint gets into the baseline file, and from there     *)
(* into what a run passes over, only after a `baseline create` found it     *)
(* open; a run that was not `fix` has fixed nothing; and until it compares  *)
(* a run has no exit code.                                                  *)
Comparing == {"scan", "memory", "repair", "list", "compare"}

ExemptedBy(r) ==
  command[r] = "ci" /\ exit[r] = 0 =>
    \A s \in found[r] \ suppressed[r] :
      Rule[s] \in Gating => useBaseline[r] /\ Fp[s] \in decided

RunInv(r) ==
  /\ pc[r] \in {"off", "scan", "memory"} => fixed[r] = {}
  /\ pc[r] = "repair" => command[r] \in Fixing
  /\ command[r] \notin Fixing => fixed[r] = {}
  /\ pc[r] \in Comparing \cup {"off"} => exit[r] = None
  /\ pc[r] \in {"save", "fillSave"} => Accepted(r) \subseteq decided
  /\ \A s \in baselined[r] : Fp[s] \in decided
  /\ ExemptedBy(r)

RunVariables(r) ==
  <<pc[r], command[r], useBaseline[r], found[r], suppressed[r], baselined[r], fixed[r], exit[r]>>

Typing ==
  /\ pc \in [Runs -> Places] /\ command \in [Runs -> Commands]
  /\ DOMAIN useBaseline = Runs /\ DOMAIN found = Runs /\ DOMAIN suppressed = Runs
  /\ DOMAIN baselined = Runs /\ DOMAIN fixed = Runs /\ DOMAIN exit = Runs

ExemptInv ==
  /\ Typing
  /\ baseline = None \/ baseline = Torn \/ baseline \subseteq decided
  /\ \A r \in Runs : RunInv(r)

LEMMA InitExemptInv == Init => ExemptInv
BY HistoryAssumption
   DEF Init, ExemptInv, Typing, Places, Commands, Fixing, InUi, RunInv, ExemptedBy, Comparing

(* Decisions accumulate, so that a run that does not move keeps its part.  *)
LEMMA UnmovedKeeps ==
  ASSUME NEW q \in Runs, RunInv(q), decided \subseteq decided',
         RunVariables(q)' = RunVariables(q)
  PROVE  RunInv(q)'
<1>1. Accepted(q)' = Accepted(q)
  BY DEF Accepted, RunVariables
<1> QED BY <1>1 DEF RunInv, ExemptedBy, RunVariables

(* A step of one run leaves the others' parts alone.                       *)
LEMMA OneMoves ==
  ASSUME ExemptInv, Typing', NEW r \in Runs, decided \subseteq decided', RunInv(r)',
         baseline' = None \/ baseline' = Torn \/ baseline' \subseteq decided',
         \A q \in Runs \ {r} : RunVariables(q)' = RunVariables(q)
  PROVE  ExemptInv'
<1>1. ASSUME NEW q \in Runs PROVE RunInv(q)'
  BY <1>1, UnmovedKeeps DEF ExemptInv
<1> QED BY <1>1 DEF ExemptInv

(* Detection ends without an exit code and without a decision.             *)
LEMMA DetectKeepsExempt ==
  ASSUME ExemptInv, NEW r \in Runs, Detect(r)
  PROVE  ExemptInv'
<1> USE DEF files, world, ghosts, Go, Exit, RunVariables
<1>1. CASE Start(r)
  <2>1. Typing' /\ \A q \in Runs \ {r} : RunVariables(q)' = RunVariables(q)
    BY <1>1 DEF Start, ExemptInv, Typing, Places, Commands, Fixing, InUi
  <2>2. RunInv(r)'
    BY <1>1, HistoryAssumption
       DEF Start, ExemptInv, Typing, RunInv, ExemptedBy, Comparing
  <2> QED BY <1>1, <2>1, <2>2, OneMoves DEF Start, ExemptInv
<1>2. CASE Scan(r)
  <2>1. Typing' /\ \A q \in Runs \ {r} : RunVariables(q)' = RunVariables(q)
    BY <1>2 DEF Scan, ExemptInv, Typing, Places
  <2>2. RunInv(r)'
    BY <1>2, HistoryAssumption
       DEF Scan, ExemptInv, Typing, RunInv, ExemptedBy, Comparing
  <2> QED BY <1>2, <2>1, <2>2, OneMoves DEF Scan, ExemptInv
<1>3. CASE ApplyMemory(r)
  <2>1. Typing' /\ \A q \in Runs \ {r} : RunVariables(q)' = RunVariables(q)
    BY <1>3 DEF ApplyMemory, ExemptInv, Typing, Places
  <2>2. \A s \in baselined'[r] : Fp[s] \in decided
    BY <1>3 DEF ApplyMemory, Baselined, LoadBaseline, ExemptInv, Typing
  <2>3. RunInv(r)'
    BY <1>3, <2>2, HistoryAssumption
       DEF ApplyMemory, ExemptInv, Typing, RunInv, ExemptedBy, Comparing
  <2> QED BY <1>3, <2>1, <2>3, OneMoves DEF ApplyMemory, ExemptInv
<1>4. CASE Repair(r)
  <2>1. Typing' /\ \A q \in Runs \ {r} : RunVariables(q)' = RunVariables(q)
    BY <1>4 DEF Repair, ExemptInv, Typing, Places
  <2>2. RunInv(r)'
    BY <1>4, HistoryAssumption
       DEF Repair, ExemptInv, Typing, RunInv, ExemptedBy, Comparing
  <2> QED BY <1>4, <2>1, <2>2, OneMoves DEF Repair, ExemptInv
<1>5. CASE RefuseRepair(r)
  <2>1. Typing' /\ \A q \in Runs \ {r} : RunVariables(q)' = RunVariables(q)
    BY <1>5 DEF RefuseRepair, ExemptInv, Typing, Places
  <2>2. RunInv(r)'
    BY <1>5 DEF RefuseRepair, ExemptInv, Typing, RunInv, ExemptedBy, Comparing
  <2> QED BY <1>5, <2>1, <2>2, OneMoves DEF RefuseRepair, ExemptInv
<1> QED BY <1>1, <1>2, <1>3, <1>4, <1>5 DEF Detect

(* The comparison decides: exit 0 of `ci` when nothing gates, and what     *)
(* `baseline create` is about to accept.                                   *)
LEMMA CompareKeepsExempt ==
  ASSUME ExemptInv, NEW r \in Runs, Compare(r)
  PROVE  ExemptInv'
<1> USE DEF files, world, ghosts, Go, Exit, RunVariables
<1>1. Typing' /\ \A q \in Runs \ {r} : RunVariables(q)' = RunVariables(q)
  BY DEF Compare, ExemptInv, Typing, Places
<1>2. /\ RunInv(r) /\ decided \subseteq decided'
      /\ command'[r] = command[r] /\ useBaseline'[r] = useBaseline[r]
      /\ found'[r] = found[r] /\ suppressed'[r] = suppressed[r]
      /\ baselined'[r] = baselined[r] /\ fixed'[r] = fixed[r]
  BY DEF Compare, ExemptInv
<1>3. ExemptedBy(r)'
  <2> SUFFICES ASSUME command[r] = "ci", exit'[r] = 0,
                      NEW s \in found[r] \ suppressed[r], Rule[s] \in Gating
               PROVE  useBaseline[r] /\ Fp[s] \in decided'
    BY <1>2 DEF ExemptedBy
  <2>1. Gates(r) = {}
    BY DEF Compare, ExitCode, ExemptInv, Typing
  <2>2. fixed[r] = {}
    BY <1>2 DEF RunInv, Fixing
  <2>3. useBaseline[r] /\ s \in baselined[r]
    BY <2>1, <2>2 DEF Gates
  <2> QED BY <1>2, <2>3 DEF RunInv
<1>4. pc'[r] \in {"save", "fillSave"} => Accepted(r)' \subseteq decided'
  <2> SUFFICES ASSUME pc'[r] \in {"save", "fillSave"} PROVE Accepted(r)' \subseteq decided'
    OBVIOUS
  <2>1. command[r] = "baseline"
    BY DEF Compare, ExemptInv, Typing
  <2>2. decided' = decided \cup Open(r)
    BY <2>1 DEF Compare
  <2> QED BY <1>2, <2>2 DEF Accepted, Open
<1>5. pc'[r] \in {"save", "emit"}
  BY DEF Compare, ExemptInv, Typing
<1>6. RunInv(r)'
  BY <1>2, <1>3, <1>4, <1>5 DEF RunInv, Comparing
<1> QED BY <1>1, <1>2, <1>6, OneMoves DEF Compare, ExemptInv

(* What is left of a run reports, records, or stops.                       *)
LEMMA ReportKeepsExempt ==
  ASSUME ExemptInv, NEW r \in Runs,
         Report(r) \/ Record(r) \/ SaveFails(r) \/ Crash(r), ~Compare(r)
  PROVE  ExemptInv'
<1>1. /\ UNCHANGED <<command, useBaseline, found, suppressed, baselined, fixed,
                     baseline, decided>>
      /\ \E place \in {"compare", "emit", "name", "create", "fill", "prune", "unlink", "done"} :
           /\ pc' = [pc EXCEPT ![r] = place]
           /\ place = "compare" => exit' = exit /\ pc[r] = "list"
      /\ \/ exit' = exit /\ pc[r] \in {"list", "emit", "name", "create", "fill", "prune", "unlink"}
         \/ \E code \in {2, None} : exit' = [exit EXCEPT ![r] = code]
  BY DEF Report, Record, SaveFails, Crash, ListHistory, WriteNothing, Emit, EmitFails,
         ChooseName, CreateEntry, FillEntry, Prune, UnlinkStale, HistoryFails,
         files, world, ghosts, Go, Exit
<1>2. Typing' /\ \A q \in Runs \ {r} : RunVariables(q)' = RunVariables(q)
  BY <1>1 DEF ExemptInv, Typing, Places, RunVariables
<1>3. RunInv(r)'
  BY <1>1, HistoryAssumption DEF ExemptInv, Typing, RunInv, ExemptedBy, Comparing
<1> QED BY <1>1, <1>2, <1>3, OneMoves DEF ExemptInv

LEMMA SaveKeepsExempt ==
  ASSUME ExemptInv, NEW r \in Runs, SaveBaseline(r) \/ FillBaseline(r)
  PROVE  ExemptInv'
<1> USE DEF files, world, ghosts, Go, RunVariables
<1>1. Typing' /\ \A q \in Runs \ {r} : RunVariables(q)' = RunVariables(q)
  BY DEF SaveBaseline, FillBaseline, ExemptInv, Typing, Places
<1>2. baseline' = Torn \/ baseline' \subseteq decided
  BY DEF SaveBaseline, FillBaseline, Written, ExemptInv, RunInv
<1>3. /\ RunInv(r) /\ Accepted(r)' = Accepted(r) /\ pc[r] \in {"save", "fillSave"}
      /\ UNCHANGED <<command, useBaseline, found, suppressed, baselined, fixed, exit, decided>>
  BY DEF SaveBaseline, FillBaseline, Accepted, ExemptInv
<1>4. RunInv(r)'
  <2>1. pc'[r] \in {"fillSave", "done"}
    BY DEF SaveBaseline, FillBaseline, ExemptInv, Typing
  <2> QED BY <1>3, <2>1 DEF RunInv, ExemptedBy, Comparing
<1> QED BY <1>1, <1>2, <1>3, <1>4, OneMoves

LEMMA NextExemptInv == ExemptInv /\ [Next]_vars => ExemptInv'
<1> SUFFICES ASSUME ExemptInv, [Next]_vars PROVE ExemptInv'
  OBVIOUS
<1>1. CASE UNCHANGED <<runs, baseline, decided>>
  <2>1. \A q \in Runs : RunVariables(q)' = RunVariables(q)
    BY <1>1 DEF runs, RunVariables
  <2>2. \A q \in Runs : RunInv(q)'
    BY <1>1, <2>1, UnmovedKeeps DEF ExemptInv
  <2> QED BY <1>1, <2>2 DEF runs, ExemptInv, Typing
<1>2. UNCHANGED vars \/ Edit \/ Over => UNCHANGED <<runs, baseline, decided>>
  BY DEF Edit, Over, vars, files, ghosts
<1>3. ASSUME NEW r \in Runs, Detect(r) PROVE ExemptInv'
  BY <1>3, DetectKeepsExempt
<1>4. ASSUME NEW r \in Runs, Report(r) \/ Record(r) \/ Save(r) \/ Crash(r) PROVE ExemptInv'
  BY <1>4, CompareKeepsExempt, ReportKeepsExempt, SaveKeepsExempt DEF Save
<1> QED BY <1>1, <1>2, <1>3, <1>4 DEF Next

(* Whatever the runs, edits, failures, kills and moments: what `ci` passes *)
(* over is waived, or was accepted by a `baseline create` that found it    *)
(* open (baseline/store.py 91-103, engine/orchestrator.py 660-680).        *)
THEOREM ExemptCorrect == Spec => []ExemptByDecision
<1>1. Spec => []ExemptInv
  BY InitExemptInv, NextExemptInv, PTL DEF Spec
<1>2. ExemptInv => ExemptByDecision
  BY DEF ExemptInv, RunInv, ExemptedBy, ExemptByDecision
<1> QED BY <1>1, <1>2, PTL

-----------------------------------------------------------------------------
(* The history.  A set of naturals, or of names, that has an element has a *)
(* last one in the order that matters: what lies beyond an element is      *)
(* finite, and strict inclusion is well-founded on finite sets.            *)
LEMMA LeastBeyond ==
  ASSUME NEW S, NEW beyond, S # {},
         \A x \in S : IsFiniteSet(beyond[x]),
         \A x \in S : \A y \in S \cap beyond[x] :
           y \notin beyond[y] /\ beyond[y] \subseteq beyond[x]
  PROVE  \E x \in S : S \cap beyond[x] = {}
<1> DEFINE All == UNION {beyond[x] : x \in S}
           R == StrictSubsetOrdering(All)
           Sets == {beyond[x] : x \in S}
<1>1. IsWellFoundedOn(R, FiniteSubsetsOf(All))
  BY FS_StrictSubsetOrderingWellFounded
<1>2. Sets \subseteq FiniteSubsetsOf(All) /\ Sets # {}
  BY DEF FiniteSubsetsOf
<1>3. PICK X \in Sets : \A Y \in Sets : ~(<<Y, X>> \in R)
  <2> HIDE DEF R, Sets
  <2> QED BY <1>1, <1>2, WFMin
<1>4. PICK x \in S : X = beyond[x]
  OBVIOUS
<1>5. ASSUME NEW y \in S \cap beyond[x] PROVE FALSE
  <2>1. beyond[y] \subseteq beyond[x] /\ beyond[y] # beyond[x]
    BY <1>5
  <2>2. beyond[y] \in SUBSET All /\ beyond[x] \in SUBSET All
    OBVIOUS
  <2>3. <<beyond[y], beyond[x]>> \in R
    BY <2>1, <2>2 DEF StrictSubsetOrdering
  <2> QED BY <1>3, <1>4, <2>3
<1> QED BY <1>5

(* Names are ordered like their strings.                                   *)
LEMMA BeforeOrders ==
  /\ \A n \in Names : ~Before(n, n)
  /\ \A m, n \in Names : m = n \/ Before(m, n) \/ Before(n, m)
  /\ \A l, m, n \in Names : Before(l, m) /\ Before(m, n) => Before(l, n)
BY DEF Names, MaxSuffix, Before

(* The newest of a finite set of names is one of them.                     *)
LEMMA NewestIsOne ==
  ASSUME NEW S \in SUBSET Names, S # {}, IsFiniteSet(S)
  PROVE  Newest(S) \in S
<1> DEFINE later == [n \in S |-> {m \in S : Before(n, m)}]
<1>1. \A n \in S : IsFiniteSet(later[n])
  <2>1. \A n \in S : later[n] \subseteq S
    OBVIOUS
  <2> QED BY <2>1, FS_Subset
<1>2. \A n \in S : \A m \in S \cap later[n] :
        m \notin later[m] /\ later[m] \subseteq later[n]
  <2> SUFFICES ASSUME NEW n \in S, NEW m \in S, Before(n, m)
               PROVE  ~Before(m, m) /\ \A l \in S : Before(m, l) => Before(n, l)
    OBVIOUS
  <2> QED BY BeforeOrders
<1>3. PICK n \in S : S \cap later[n] = {}
  <2> HIDE DEF later
  <2> QED BY <1>1, <1>2, LeastBeyond
<1>4. \A m \in S \ {n} : Before(m, n)
  <2> SUFFICES ASSUME NEW m \in S \ {n} PROVE Before(m, n)
    OBVIOUS
  <2>1. ~Before(n, m)
    BY <1>3
  <2> QED BY <2>1, BeforeOrders
<1> QED BY <1>4 DEF Newest

(* Where a name is free at this moment, the one chosen is of this moment.   *)
LEMMA FreeNameIsName ==
  ASSUME NEW t \in Nat, NEW free \in 0..MaxSuffix, Free(t, free)
  PROVE  FreeName(t) \in Names
<1> DEFINE S == {i \in 0..MaxSuffix : Free(t, i)}
           below == [i \in S |-> 0..(i - 1)]
<1>1. \A i \in S : IsFiniteSet(below[i])
  BY FS_Interval DEF MaxSuffix
<1>2. \A i \in S : \A j \in S \cap below[i] :
        j \notin below[j] /\ below[j] \subseteq below[i]
  BY DEF MaxSuffix
<1>3. PICK i \in S : S \cap below[i] = {}
  <2>1. S # {}
    OBVIOUS
  <2> HIDE DEF S, below
  <2> QED BY <1>1, <1>2, <2>1, LeastBeyond
<1>4. i \in 0..MaxSuffix /\ Free(t, i) /\ \A j \in 0..(i - 1) : ~Free(t, j)
  BY <1>3 DEF Free, MaxSuffix
<1> DEFINE First(k) == Free(t, k) /\ \A j \in 0..(k - 1) : ~Free(t, j)
           chosen == CHOOSE k \in 0..MaxSuffix : First(k)
<1>5. chosen \in 0..MaxSuffix
  <2>1. First(i) /\ i \in 0..MaxSuffix
    BY <1>4
  <2> HIDE DEF First
  <2> QED BY <2>1
<1>6. FreeName(t) = <<t, chosen>>
  BY DEF FreeName
<1> HIDE DEF chosen
<1> QED BY <1>5, <1>6 DEF Names

(* Every stored report that can be read leaves open what all of them do; a *)
(* run that has compared, and may still write its entry, is one of them.   *)
Compared == {"emit", "name", "create", "fill"}
Stored == \A n \in DOMAIN entries : entries[n] # Torn => always \subseteq entries[n]
SteadyTyping ==
  /\ clock \in Nat /\ pc \in [Runs -> Places] /\ name \in [Runs -> Names]
  /\ IsFiniteSet(DOMAIN entries) /\ DOMAIN entries \subseteq Names
  /\ DOMAIN diff = Runs /\ DOMAIN found = Runs /\ DOMAIN suppressed = Runs /\ DOMAIN fixed = Runs
SteadyRun(r) ==
  /\ pc[r] \in Compared => always \subseteq Open(r)
  /\ diff[r] # None => always \subseteq diff[r].unchanged
SteadyInv == SteadyTyping /\ Stored /\ \A r \in Runs : SteadyRun(r)

LEMMA InitSteadyInv == Init => SteadyInv
<1> SUFFICES ASSUME Init PROVE SteadyInv
  OBVIOUS
<1>1. PICK s \in Starts :
        /\ entries = IF s.past = None THEN <<>> ELSE [n \in {<<0, 0>>} |-> s.past]
        /\ always = IF s.past = None THEN Fingerprints ELSE s.past
  BY DEF Init
<1>2. IsFiniteSet(DOMAIN entries) /\ DOMAIN entries \subseteq Names /\ Stored
  <2>1. CASE s.past = None
    <3>1. DOMAIN entries = {}
      BY <1>1, <2>1
    <3> QED BY <3>1, FS_EmptySet DEF Stored
  <2>2. CASE s.past # None
    <3>1. DOMAIN entries = {<<0, 0>>} /\ \A n \in DOMAIN entries : entries[n] = always
      BY <1>1, <2>2
    <3>2. IsFiniteSet({<<0, 0>>})
      BY FS_Singleton
    <3>3. <<0, 0>> \in Names
      BY DEF Names, MaxSuffix
    <3> HIDE DEF Names
    <3> QED BY <3>1, <3>2, <3>3 DEF Stored
  <2> QED BY <2>1, <2>2
<1>3. clock \in Nat /\ pc \in [Runs -> Places] /\ name \in [Runs -> Names]
  BY DEF Init, Places, Names, MaxSuffix
<1> QED BY <1>2, <1>3 DEF Init, SteadyInv, SteadyTyping, SteadyRun, Compared

(* always only shrinks: a run that does not move keeps its part.           *)
LEMMA SteadyOneMoves ==
  ASSUME SteadyInv, SteadyTyping', Stored', NEW r \in Runs, SteadyRun(r)', always' \subseteq always,
         \A q \in Runs \ {r} :
           /\ pc'[q] = pc[q] /\ diff'[q] = diff[q]
           /\ found'[q] = found[q] /\ suppressed'[q] = suppressed[q] /\ fixed'[q] = fixed[q]
  PROVE  SteadyInv'
<1>1. ASSUME NEW q \in Runs \ {r} PROVE SteadyRun(q)'
  <2>1. Open(q)' = Open(q)
    BY DEF Open
  <2> QED BY <2>1 DEF SteadyInv, SteadyRun
<1> QED BY <1>1 DEF SteadyInv

(* A step before the comparison, or after the entry is written, that       *)
(* leaves the history alone.                                               *)
LEMMA SteadyElsewhere ==
  ASSUME SteadyInv, NEW r \in Runs, UNCHANGED <<clock, name, diff, entries, always>>,
         NEW place \in Places, pc' = [pc EXCEPT ![r] = place],
         \/ place \notin Compared
         \/ pc[r] \in Compared /\ UNCHANGED <<found, suppressed, fixed>>,
         DOMAIN found' = Runs, DOMAIN suppressed' = Runs, DOMAIN fixed' = Runs,
         \A q \in Runs \ {r} :
           found'[q] = found[q] /\ suppressed'[q] = suppressed[q] /\ fixed'[q] = fixed[q]
  PROVE  SteadyInv'
<1>1. SteadyTyping' /\ Stored'
  BY DEF SteadyInv, SteadyTyping, Stored
<1>2. pc'[r] = place /\ \A q \in Runs \ {r} : pc'[q] = pc[q]
  BY DEF SteadyInv, SteadyTyping
<1>3. SteadyRun(r)'
  <2>1. CASE place \notin Compared
    BY <1>2, <2>1 DEF SteadyInv, SteadyRun
  <2>2. CASE pc[r] \in Compared /\ UNCHANGED <<found, suppressed, fixed>>
    <3>1. Open(r)' = Open(r)
      BY <2>2 DEF Open
    <3> QED BY <2>2, <3>1 DEF SteadyInv, SteadyRun
  <2> QED BY <2>1, <2>2
<1> QED BY <1>1, <1>2, <1>3, SteadyOneMoves

(* The comparison: what was open in every report so far is in the newest   *)
(* readable one, and what was open in all of them and now stays so.        *)
LEMMA CompareKeepsSteady ==
  ASSUME SteadyInv, NEW r \in Runs, Compare(r)
  PROVE  SteadyInv'
<1>1. /\ pc' = [pc EXCEPT ![r] = IF command[r] = "baseline" THEN "save" ELSE "emit"]
      /\ diff' = [diff EXCEPT ![r] = Diff(Open(r), listing[r])]
      /\ clock' \in {clock, clock + 1} /\ name' = [name EXCEPT ![r] = <<clock', 0>>]
      /\ always' = always \cap Open(r)
      /\ UNCHANGED <<entries, found, suppressed, fixed>>
  BY DEF Compare, Go, files
<1>2. SteadyTyping'
  BY <1>1 DEF SteadyInv, SteadyTyping, Places, Names, MaxSuffix
<1>3. Stored'
  BY <1>1 DEF SteadyInv, Stored
<1>4. diff'[r] # None => always' \subseteq diff'[r].unchanged
  <2> SUFFICES ASSUME diff'[r] # None PROVE always' \subseteq diff'[r].unchanged
    OBVIOUS
  <2> DEFINE valid == Readable(listing[r])
  <2>1. diff'[r] = Diff(Open(r), listing[r])
    BY <1>1 DEF SteadyInv, SteadyTyping
  <2>2. valid # {} /\ diff'[r].unchanged = Open(r) \cap entries[Newest(valid)]
    BY <2>1 DEF Diff
  <2>3. valid \subseteq DOMAIN entries /\ \A n \in valid : entries[n] # Torn
    BY DEF Readable
  <2>4. valid \in SUBSET Names /\ IsFiniteSet(valid)
    BY <2>3, FS_Subset DEF SteadyInv, SteadyTyping
  <2>5. Newest(valid) \in valid
    <3> HIDE DEF valid
    <3> QED BY <2>2, <2>4, NewestIsOne
  <2>6. always \subseteq entries[Newest(valid)]
    BY <2>3, <2>5 DEF SteadyInv, Stored
  <2> HIDE DEF valid
  <2> QED BY <1>1, <2>2, <2>6
<1>5. SteadyRun(r)'
  <2>1. Open(r)' = Open(r)
    BY <1>1 DEF Open
  <2> QED BY <1>1, <1>4, <2>1 DEF SteadyRun
<1> QED BY <1>1, <1>2, <1>3, <1>5, SteadyOneMoves DEF SteadyInv, SteadyTyping

(* The entry is named, created, filled, and others are unlinked: what it   *)
(* says was open when its run compared.                                    *)
LEMMA RecordKeepsSteady ==
  ASSUME SteadyInv, NEW r \in Runs,
         ChooseName(r) \/ CreateEntry(r) \/ FillEntry(r) \/ UnlinkStale(r)
  PROVE  SteadyInv'
<1>1. /\ UNCHANGED <<clock, diff, found, suppressed, fixed, always>>
      /\ \E place \in {"create", "fill", "prune", "done"} :
           pc' = [pc EXCEPT ![r] = place] /\ (place \in {"create", "fill"} => pc[r] \in Compared)
  BY DEF ChooseName, CreateEntry, FillEntry, UnlinkStale, Go, files, world, ghosts, Compared
<1>2. Open(r)' = Open(r)
  BY <1>1 DEF Open
<1>3. SteadyRun(r)'
  BY <1>1, <1>2 DEF SteadyInv, SteadyTyping, SteadyRun, Compared
<1>4. name' \in [Runs -> Names]
  <2>1. CASE ChooseName(r)
    <3>1. PICK i \in 0..MaxSuffix : Free(name[r][1], i)
      BY <2>1 DEF ChooseName
    <3>2. name[r][1] \in Nat
      BY DEF SteadyInv, SteadyTyping, Names
    <3>3. FreeName(name[r][1]) \in Names
      BY <3>1, <3>2, FreeNameIsName
    <3> HIDE DEF Names
    <3> QED BY <2>1, <3>3 DEF ChooseName, SteadyInv, SteadyTyping
  <2>2. CASE CreateEntry(r) \/ FillEntry(r) \/ UnlinkStale(r)
    BY <2>2 DEF CreateEntry, FillEntry, UnlinkStale, SteadyInv, SteadyTyping
  <2> QED BY <2>1, <2>2
<1>5. /\ DOMAIN entries' \subseteq DOMAIN entries \cup {name[r]}
      /\ \A n \in DOMAIN entries' :
           \/ n \in DOMAIN entries /\ entries'[n] = entries[n]
           \/ entries'[n] = Torn \/ always \subseteq entries'[n]
  <2>1. CASE ChooseName(r)
    BY <2>1 DEF ChooseName, files
  <2>2. CASE CreateEntry(r)
    BY <2>2 DEF CreateEntry
  <2>3. CASE FillEntry(r)
    <3>1. always \subseteq Open(r)
      BY <2>3 DEF FillEntry, SteadyInv, SteadyRun, Compared
    <3> QED BY <2>3, <3>1 DEF FillEntry, Written
  <2>4. CASE UnlinkStale(r)
    BY <2>4 DEF UnlinkStale
  <2> QED BY <2>1, <2>2, <2>3, <2>4
<1>6. IsFiniteSet(DOMAIN entries') /\ DOMAIN entries' \subseteq Names
  <2>1. IsFiniteSet(DOMAIN entries \cup {name[r]}) /\ name[r] \in Names
    BY FS_AddElement DEF SteadyInv, SteadyTyping
  <2> QED BY <1>5, <2>1, FS_Subset DEF SteadyInv, SteadyTyping
<1>7. SteadyTyping'
  BY <1>1, <1>4, <1>6 DEF SteadyInv, SteadyTyping, Places
<1>8. Stored'
  BY <1>1, <1>5 DEF SteadyInv, Stored
<1> QED BY <1>1, <1>3, <1>7, <1>8, SteadyOneMoves DEF SteadyInv, SteadyTyping

LEMMA NextSteadyInv == SteadyInv /\ [Next]_vars => SteadyInv'
<1> SUFFICES ASSUME SteadyInv, [Next]_vars PROVE SteadyInv'
  OBVIOUS
<1>1. CASE UNCHANGED vars \/ Edit \/ Over
  <2>1. UNCHANGED <<clock, pc, name, diff, entries, found, suppressed, fixed, always>>
    BY <1>1 DEF Edit, Over, vars, files, world, runs, ghosts
  <2> QED BY <2>1 DEF SteadyInv, SteadyTyping, Stored, SteadyRun, Open
<1>2. ASSUME NEW r \in Runs, Detect(r) PROVE SteadyInv'
  <2>1. /\ UNCHANGED <<clock, name, diff, entries, always>>
        /\ \E place \in {"scan", "memory", "repair", "list", "done"} :
             pc' = [pc EXCEPT ![r] = place]
    BY <1>2 DEF Detect, Start, Scan, ApplyMemory, Repair, RefuseRepair,
                files, world, ghosts, Go, Exit
  <2>2. /\ DOMAIN found' = Runs /\ DOMAIN suppressed' = Runs /\ DOMAIN fixed' = Runs
        /\ \A q \in Runs \ {r} :
             found'[q] = found[q] /\ suppressed'[q] = suppressed[q] /\ fixed'[q] = fixed[q]
    BY <1>2 DEF Detect, Start, Scan, ApplyMemory, Repair, RefuseRepair, SteadyInv, SteadyTyping
  <2> QED BY <2>1, <2>2, SteadyElsewhere DEF Compared, Places
<1>3. ASSUME NEW r \in Runs, Report(r) \/ Save(r) \/ Crash(r) \/ Prune(r) \/ HistoryFails(r), ~Compare(r)
      PROVE  SteadyInv'
  <2>1. /\ UNCHANGED <<clock, name, diff, entries, always, found, suppressed, fixed>>
        /\ \E place \in {"compare", "name", "unlink", "fillSave", "done"} :
             pc' = [pc EXCEPT ![r] = place] /\ (place = "name" => pc[r] = "emit")
    BY <1>3 DEF Report, Save, Crash, Prune, HistoryFails, ListHistory, WriteNothing, Emit,
                EmitFails, SaveBaseline, FillBaseline, SaveFails, files, world, ghosts, Go, Exit
  <2> QED BY <2>1, SteadyElsewhere DEF SteadyInv, SteadyTyping, Compared, Places
<1>4. ASSUME NEW r \in Runs, Record(r) PROVE SteadyInv'
  BY <1>3, <1>4, RecordKeepsSteady DEF Record, Compare, Prune, HistoryFails
<1> QED BY <1>1, <1>2, <1>3, <1>4, CompareKeepsSteady DEF Next

(* However many runs read, write and prune one directory, fail or are      *)
(* killed in mid-entry: a finding open in every report so far is never     *)
(* reported as new, regressed or resolved (baseline/history.py 118-161).   *)
THEOREM SteadyCorrect == Spec => []SteadyIsUnchanged
<1>1. SteadyInv => SteadyIsUnchanged
  BY DEF SteadyInv, SteadyRun, SteadyIsUnchanged
<1> QED BY <1>1, InitSteadyInv, NextSteadyInv, PTL DEF Spec

-----------------------------------------------------------------------------
(* Pruning.  Entries only become older: what is outdated once stays so.    *)
EverWritten == {created[i] : i \in DOMAIN created}
Later(n) == {m \in EverWritten : Before(n, m)}
Outdated(n) == Keep <= Cardinality(Later(n))

PruneInv ==
  /\ created \in Seq(Names) /\ IsFiniteSet(EverWritten)
  /\ DOMAIN entries \subseteq EverWritten
  /\ stale \in [Runs -> SUBSET EverWritten]
  /\ \A r \in Runs : \A n \in stale[r] : Outdated(n)
  /\ \A n \in EverWritten \ DOMAIN entries : Outdated(n)

LEMMA OutdatedStays ==
  ASSUME IsFiniteSet(EverWritten'), EverWritten \subseteq EverWritten', NEW n, Outdated(n)
  PROVE  Outdated(n)'
<1>1. IsFiniteSet(Later(n)') /\ Later(n) \subseteq Later(n)'
  <2>1. Later(n)' \subseteq EverWritten' /\ Later(n) \subseteq Later(n)'
    BY DEF Later, Before
  <2> QED BY <2>1, FS_Subset
<1>2. Cardinality(Later(n)) <= Cardinality(Later(n)') /\ IsFiniteSet(Later(n))
  BY <1>1, FS_Subset
<1>3. Cardinality(Later(n)) \in Nat /\ Cardinality(Later(n)') \in Nat
  BY <1>1, <1>2, FS_CardinalityType
<1> QED BY <1>2, <1>3, HistoryAssumption DEF Outdated

(* What history_files(root)[:-keep] lists is outdated in what was created. *)
LEMMA StaleIsOutdated ==
  ASSUME PruneInv, NEW n \in StaleNames
  PROVE  n \in EverWritten /\ Outdated(n)
<1> DEFINE left == {m \in DOMAIN entries : Before(n, m)}
<1>1. left \subseteq Later(n) /\ n \in EverWritten /\ Keep <= Cardinality(left)
  BY DEF StaleNames, PruneInv, Later
<1>2. IsFiniteSet(Later(n)) /\ IsFiniteSet(left)
  <2>1. Later(n) \subseteq EverWritten /\ left \subseteq EverWritten
    BY <1>1 DEF Later
  <2> QED BY <2>1, FS_Subset DEF PruneInv
<1>3. Cardinality(left) <= Cardinality(Later(n))
  BY <1>1, <1>2, FS_Subset
<1>4. Cardinality(left) \in Nat /\ Cardinality(Later(n)) \in Nat
  BY <1>2, FS_CardinalityType
<1> QED BY <1>1, <1>3, <1>4, HistoryAssumption DEF Outdated

LEMMA InitPruneInv == Init => PruneInv
<1> SUFFICES ASSUME Init PROVE PruneInv
  OBVIOUS
<1>1. PICK s \in Starts :
        entries = IF s.past = None THEN <<>> ELSE [n \in {<<0, 0>>} |-> s.past]
  BY DEF Init
<1>2. stale = [r \in Runs |-> {}]
  BY DEF Init
<1>3. CASE s.past = None
  <2>1. entries = <<>> /\ DOMAIN entries = {} /\ created = <<>>
    BY <1>1, <1>3 DEF Init
  <2>2. EverWritten = {} /\ created \in Seq(Names)
    BY <2>1 DEF EverWritten
  <2> QED BY <1>2, <2>1, <2>2, FS_EmptySet DEF PruneInv
<1>4. CASE s.past # None
  <2>1. DOMAIN entries = {<<0, 0>>} /\ entries # <<>>
    <3>1. DOMAIN entries = {<<0, 0>>}
      BY <1>1, <1>4
    <3>2. DOMAIN <<>> = {}
      OBVIOUS
    <3> QED BY <3>1, <3>2
  <2>2. created = << <<0, 0>> >>
    BY <2>1 DEF Init
  <2>3. <<0, 0>> \in Names
    BY DEF Names, MaxSuffix
  <2>4. created \in Seq(Names) /\ EverWritten = {<<0, 0>>}
    <3> HIDE DEF Names
    <3> QED BY <2>2, <2>3 DEF EverWritten
  <2>5. IsFiniteSet(EverWritten)
    BY <2>4, FS_Singleton, Zenon
  <2> QED BY <1>2, <2>1, <2>4, <2>5 DEF PruneInv
<1> QED BY <1>3, <1>4

(* The steps that neither create, list nor unlink an entry.                *)
LEMMA OtherStepsKeepEntries ==
  ASSUME PruneInv, UNCHANGED <<created, stale>>, DOMAIN entries' = DOMAIN entries
  PROVE  PruneInv'
<1>1. EverWritten' = EverWritten /\ \A n : Outdated(n) <=> Outdated(n)'
  BY DEF Outdated, Later, EverWritten, Before
<1> QED BY <1>1 DEF PruneInv

LEMMA NextPruneInv == PruneInv /\ SteadyInv /\ [Next]_vars => PruneInv'
<1> SUFFICES ASSUME PruneInv, SteadyInv, [Next]_vars PROVE PruneInv'
  OBVIOUS
<1> USE DEF files, world, runs, ghosts
<1>1. CASE UNCHANGED vars
  BY <1>1, OtherStepsKeepEntries DEF vars
<1>2. CASE Edit
  BY <1>2, OtherStepsKeepEntries DEF Edit
<1>3. CASE Over
  BY <1>3, OtherStepsKeepEntries DEF Over, vars
<1>4. ASSUME NEW r \in Runs, Detect(r) PROVE PruneInv'
  BY <1>4, OtherStepsKeepEntries
     DEF Detect, Start, Scan, ApplyMemory, Repair, RefuseRepair
<1>5. ASSUME NEW r \in Runs, Report(r) PROVE PruneInv'
  BY <1>5, OtherStepsKeepEntries
     DEF Report, ListHistory, Compare, WriteNothing, Emit, EmitFails
<1>6. ASSUME NEW r \in Runs, Save(r) PROVE PruneInv'
  BY <1>6, OtherStepsKeepEntries DEF Save, SaveBaseline, FillBaseline, SaveFails
<1>7. ASSUME NEW r \in Runs, Crash(r) PROVE PruneInv'
  BY <1>7, OtherStepsKeepEntries DEF Crash
<1>8. ASSUME NEW r \in Runs, Record(r) PROVE PruneInv'
  <2>1. CASE ChooseName(r)
    BY <2>1, OtherStepsKeepEntries DEF ChooseName
  <2>2. CASE CreateEntry(r)
    <3>1. /\ created' = Append(created, name[r]) /\ stale' = stale
          /\ DOMAIN entries' = DOMAIN entries \cup {name[r]}
      BY <2>2 DEF CreateEntry
    <3>2. name[r] \in Names /\ created \in Seq(Names)
      BY DEF SteadyInv, SteadyTyping, PruneInv
    <3>3. created' \in Seq(Names) /\ EverWritten' = EverWritten \cup {name[r]}
      <4> HIDE DEF Names
      <4> QED BY <3>1, <3>2 DEF EverWritten
    <3>4. IsFiniteSet(EverWritten')
      BY <3>3, FS_AddElement DEF PruneInv
    <3>5. \A n : Outdated(n) => Outdated(n)'
      BY <3>3, <3>4, OutdatedStays
    <3> QED BY <3>1, <3>3, <3>4, <3>5 DEF PruneInv
  <2>3. CASE FillEntry(r)
    BY <2>3, OtherStepsKeepEntries DEF FillEntry
  <2>4. CASE Prune(r)
    <3>1. /\ created' = created /\ entries' = entries
          /\ stale' = [stale EXCEPT ![r] = StaleNames]
      BY <2>4 DEF Prune
    <3>2. StaleNames \in SUBSET EverWritten /\ \A n \in StaleNames : Outdated(n)
      BY StaleIsOutdated
    <3>3. EverWritten' = EverWritten /\ \A n : Outdated(n) <=> Outdated(n)'
      BY <3>1 DEF Outdated, Later, EverWritten, Before
    <3> QED BY <3>1, <3>2, <3>3 DEF PruneInv
  <2>5. CASE UnlinkStale(r)
    <3>1. /\ created' = created /\ stale' = [stale EXCEPT ![r] = {}]
          /\ DOMAIN entries' \subseteq DOMAIN entries
          /\ DOMAIN entries \ stale[r] \subseteq DOMAIN entries'
      BY <2>5 DEF UnlinkStale
    <3>2. EverWritten' = EverWritten /\ \A n : Outdated(n) <=> Outdated(n)'
      BY <3>1 DEF Outdated, Later, EverWritten, Before
    <3> QED BY <3>1, <3>2 DEF PruneInv
  <2>6. CASE HistoryFails(r)
    BY <2>6, OtherStepsKeepEntries DEF HistoryFails
  <2> QED BY <1>8, <2>1, <2>2, <2>3, <2>4, <2>5, <2>6 DEF Record
<1> QED BY <1>1, <1>2, <1>3, <1>4, <1>5, <1>6, <1>7, <1>8 DEF Next

(* Of the names that sort after an outdated one, Keep are still there: if   *)
(* any is gone, those after the last that is gone.                         *)
LEMMA KeptBeyond ==
  ASSUME PruneInv, NEW n \in EverWritten, Outdated(n)
  PROVE  Keep <= Cardinality(Later(n) \cap DOMAIN entries)
<1> DEFINE gone == Later(n) \ DOMAIN entries
           beyond == [x \in gone |-> Later(x)]
<1>1. EverWritten \subseteq Names
  BY DEF PruneInv, EverWritten
<1>2. \A x : IsFiniteSet(Later(x)) /\ IsFiniteSet(Later(x) \cap DOMAIN entries)
  <2>1. \A x : Later(x) \subseteq EverWritten /\ Later(x) \cap DOMAIN entries \subseteq EverWritten
    BY DEF Later
  <2> QED BY <2>1, FS_Subset DEF PruneInv
<1>3. CASE gone = {}
  <2>1. Later(n) \cap DOMAIN entries = Later(n)
    BY <1>3
  <2> QED BY <2>1 DEF Outdated
<1>4. CASE gone # {}
  <2>1. \A x \in gone : \A y \in gone \cap Later(x) :
          y \notin Later(y) /\ Later(y) \subseteq Later(x)
    <3> SUFFICES ASSUME NEW x \in gone, NEW y \in gone \cap Later(x)
                 PROVE  y \notin Later(y) /\ Later(y) \subseteq Later(x)
      OBVIOUS
    <3>1. x \in Names /\ y \in Names /\ Before(x, y)
      BY <1>1 DEF Later
    <3> QED BY <1>1, <3>1, BeforeOrders DEF Later
  <2>2. PICK x \in gone : gone \cap beyond[x] = {}
    <3>1. /\ \A z \in gone : IsFiniteSet(beyond[z])
          /\ \A z \in gone : \A y \in gone \cap beyond[z] :
               y \notin beyond[y] /\ beyond[y] \subseteq beyond[z]
      BY <1>2, <2>1
    <3> HIDE DEF gone, beyond
    <3> QED BY <1>4, <3>1, LeastBeyond
  <2>3. x \in EverWritten \ DOMAIN entries /\ Before(n, x) /\ x \in Names /\ n \in Names
    BY <1>1 DEF Later
  <2>4. Later(x) \subseteq Later(n) \cap DOMAIN entries
    <3>1. Later(x) \subseteq Later(n)
      BY <1>1, <2>3, BeforeOrders DEF Later
    <3> QED BY <2>2, <3>1
  <2>5. Keep <= Cardinality(Later(x))
    BY <2>3 DEF PruneInv, Outdated
  <2>6. Cardinality(Later(x)) <= Cardinality(Later(n) \cap DOMAIN entries)
    BY <1>2, <2>4, FS_Subset
  <2>7. /\ Cardinality(Later(x)) \in Nat
        /\ Cardinality(Later(n) \cap DOMAIN entries) \in Nat
    BY <1>2, FS_CardinalityType
  <2> QED BY <2>5, <2>6, <2>7, HistoryAssumption
<1> QED BY <1>3, <1>4

(* If fewer than Keep entries are newer than the i-th, one of those Keep    *)
(* was never written after it: a sibling of the same microsecond.          *)
LEMMA KeptOrOutranked ==
  ASSUME PruneInv, NEW i \in DOMAIN created, created[i] \notin DOMAIN entries,
         Cardinality({j \in DOMAIN created : Newer(j, i)}) < Keep
  PROVE  Outranked(i)
<1> DEFINE newer == {j \in DOMAIN created : Newer(j, i)}
           names == {created[j] : j \in newer}
           kept == Later(created[i]) \cap DOMAIN entries
<1>1. created[i] \in EverWritten /\ created[i] \in Names /\ i \in Nat \ {0}
  BY DEF EverWritten, PruneInv
<1>2. Keep <= Cardinality(kept)
  BY <1>1, KeptBeyond DEF PruneInv
<1>3. IsFiniteSet(newer) /\ IsFiniteSet(kept)
  <2>1. DOMAIN created = 1..Len(created) /\ Len(created) \in Nat
    BY DEF PruneInv
  <2>2. IsFiniteSet(1..Len(created))
    BY <2>1, FS_Interval
  <2>3. newer \subseteq 1..Len(created) /\ kept \subseteq EverWritten
    BY <2>1 DEF Later
  <2> QED BY <2>2, <2>3, FS_Subset DEF PruneInv
<1>4. IsFiniteSet(names) /\ Cardinality(names) <= Cardinality(newer)
  <2> DEFINE f == [j \in newer |-> created[j]]
  <2>1. f \in Surjection(newer, names)
    BY DEF Surjection
  <2> HIDE DEF f, newer, names
  <2> QED BY <1>3, <2>1, FS_Surjection
<1>5. PICK m \in kept : m \notin names
  <2>1. SUFFICES ASSUME kept \subseteq names PROVE FALSE
    OBVIOUS
  <2>2. Cardinality(kept) <= Cardinality(names)
    BY <1>4, <2>1, FS_Subset
  <2>3. Cardinality(kept) \in Nat /\ Cardinality(names) \in Nat /\ Cardinality(newer) \in Nat
    BY <1>3, <1>4, FS_CardinalityType
  <2> QED BY <1>2, <1>4, <2>2, <2>3, HistoryAssumption
<1>6. PICK j \in DOMAIN created : created[j] = m
  BY <1>5 DEF Later, EverWritten
<1>7. Before(created[i], created[j]) /\ created[j] \in DOMAIN entries /\ ~Newer(j, i)
  BY <1>5, <1>6 DEF Later
<1>8. created[i] \in Nat \X (0..MaxSuffix) /\ created[j] \in Nat \X (0..MaxSuffix)
  BY DEF PruneInv, Names
<1>9. created[j][1] = created[i][1] /\ j \in Nat /\ j < i /\ j >= 1
  <2>1. i \in 1..Len(created) /\ j \in 1..Len(created) /\ Len(created) \in Nat
    BY DEF PruneInv
  <2>2. created[j][1] = created[i][1] /\ ~(j > i)
    BY <1>7, <1>8 DEF Before, Newer
  <2>3. j # i
    BY <1>7, <1>8 DEF Before, MaxSuffix
  <2> QED BY <2>1, <2>2, <2>3
<1>10. j \in 1..(i - 1)
  BY <1>1, <1>9
<1> HIDE DEF newer, names, kept
<1> QED BY <1>7, <1>9, <1>10 DEF Outranked

(* Whatever the runs, failures and kills: pruning leaves each of the Keep   *)
(* newest entries ever written, or an older one of the same microsecond in *)
(* its stead, and no other (baseline/history.py 91-98).                    *)
THEOREM PruneCorrect == Spec => []NewestKept
<1>1. Spec => []SteadyInv
  BY InitSteadyInv, NextSteadyInv, PTL DEF Spec
<1>2. Spec => []PruneInv
  BY <1>1, InitPruneInv, NextPruneInv, PTL DEF Spec
<1>3. PruneInv => NewestKept
  BY KeptOrOutranked DEF NewestKept
<1> QED BY <1>2, <1>3, PTL
=============================================================================
