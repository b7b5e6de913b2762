--------------------------- MODULE Discovery_proofs ---------------------------
(***************************************************************************)
(* Discovery, for every tree, table of extensions, exclusion and limit and *)
(* for any number of saves and deletions: the profile a rule is given is   *)
(* that of the texts it is given, and fixtures have no part in it.         *)
(*                                                                         *)
(* What the phases compute stays folded: the argument is that each looks   *)
(* only at texts already in the cache, and that a text in the cache never  *)
(* changes.  What the limit of inspected files costs needs one thing more: *)
(* what Where keeps of a listing, and in which order.                      *)
(***************************************************************************)
EXTENDS Discovery, FiniteSetTheorems, TLAPS

(* What each phase left behind is what it would compute again now.         *)
Profiled == {"scale", "graph", "detect"}
TechHolds ==
  pc \in Profiled =>
    ToSet(TechReads(primary)) \subseteq DOMAIN cache /\ tech = DetectTech(primary, cache)
ScaleHolds ==
  pc \in Profiled \ {"scale"} =>
    ToSet(ScaleReads(primary)) \subseteq DOMAIN cache /\ scale = DetectScale(primary, cache, tech)
GraphHolds ==
  pc = "detect" =>
    ToSet(GraphReads(primary)) \subseteq DOMAIN cache /\ graph = BuildGraph(primary, cache, tech)
ContextInv ==
  /\ pc \in {"walk", "tech"} \cup Profiled
  /\ pc # "walk" => primary = SplitPrimary(files)
  /\ TechHolds /\ ScaleHolds /\ GraphHolds

-----------------------------------------------------------------------------
(* ScanContext.read: a text in the cache stays the text of its file.       *)
LEMMA CachedKeeps ==
  ASSUME NEW f, NEW g \in DOMAIN cache
  PROVE  g \in DOMAIN Cached(f) /\ Cached(f)[g] = cache[g]
BY DEF Cached

(* What a phase looks at is the same in two caches that agree on it.       *)
LEMMA SeenAgree ==
  ASSUME NEW one, NEW two, NEW fs, \A f \in ToSet(fs) : one[f] = two[f]
  PROVE  Seen(one, fs) = Seen(two, fs)
BY DEF Seen, Restrict

(* A step that adds a text to the cache, and changes neither the phase nor *)
(* what the phases left behind, keeps the invariant.                       *)
LEMMA AddingKeeps ==
  ASSUME ContextInv, NEW f, cache' = Cached(f),
         UNCHANGED <<pc, files, primary, tech, scale, graph>>
  PROVE  ContextInv'
<1>1. \A g \in DOMAIN cache : g \in DOMAIN cache' /\ cache'[g] = cache[g]
  BY CachedKeeps
<1>2. ASSUME NEW fs, ToSet(fs) \subseteq DOMAIN cache
      PROVE  ToSet(fs) \subseteq DOMAIN cache' /\ Seen(cache', fs) = Seen(cache, fs)
  <2>1. \A g \in ToSet(fs) : cache'[g] = cache[g]
    BY <1>1, <1>2
  <2> QED BY <1>1, <1>2, <2>1, SeenAgree
<1>3. TechHolds'
  <2>1. CASE pc \in Profiled
    <3>1. ToSet(TechReads(primary)) \subseteq DOMAIN cache /\ tech = DetectTech(primary, cache)
      BY <2>1 DEF ContextInv, TechHolds
    <3> QED BY <1>2, <3>1 DEF TechHolds, DetectTech
  <2> QED BY <2>1 DEF TechHolds
<1>4. ScaleHolds'
  <2>1. CASE pc \in Profiled \ {"scale"}
    <3>1. ToSet(ScaleReads(primary)) \subseteq DOMAIN cache /\ scale = DetectScale(primary, cache, tech)
      BY <2>1 DEF ContextInv, ScaleHolds
    <3> QED BY <1>2, <3>1 DEF ScaleHolds, DetectScale
  <2> QED BY <2>1 DEF ScaleHolds
<1>5. GraphHolds'
  <2>1. CASE pc = "detect"
    <3>1. ToSet(GraphReads(primary)) \subseteq DOMAIN cache /\ graph = BuildGraph(primary, cache, tech)
      BY <2>1 DEF ContextInv, GraphHolds
    <3> QED BY <1>2, <3>1 DEF GraphHolds, BuildGraph
  <2> QED BY <2>1 DEF GraphHolds
<1> QED BY <1>3, <1>4, <1>5 DEF ContextInv

LEMMA NextContextInv == ContextInv /\ [Next]_vars => ContextInv'
<1> SUFFICES ASSUME ContextInv, [Next]_vars PROVE ContextInv'
  OBVIOUS
<1>1. CASE Walk
  BY <1>1 DEF Walk, ContextInv, TechHolds, ScaleHolds, GraphHolds, Profiled
<1>2. CASE Read
  <2>1. PICK i : cache' = Cached(Reads[i])
    BY <1>2 DEF Read
  <2> QED BY <1>2, <2>1, AddingKeeps DEF Read
<1>3. CASE ProfileTech
  <2>1. pc = "tech" /\ pc' = "scale" /\ tech' = DetectTech(primary, cache)
        /\ UNCHANGED <<files, primary, cache, scale, graph>>
    BY <1>3 DEF ProfileTech
  <2>2. ToSet(TechReads(primary)) \subseteq DOMAIN cache
    BY <1>3, <2>1 DEF ProfileTech, AllRead, Reads
  <2> QED BY <2>1, <2>2 DEF ContextInv, TechHolds, ScaleHolds, GraphHolds, Profiled
<1>4. CASE ProfileScale
  <2>1. pc = "scale" /\ pc' = "graph" /\ scale' = DetectScale(primary, cache, tech)
        /\ UNCHANGED <<files, primary, cache, tech, graph>>
    BY <1>4 DEF ProfileScale
  <2>2. ToSet(ScaleReads(primary)) \subseteq DOMAIN cache
    BY <1>4, <2>1 DEF ProfileScale, AllRead, Reads
  <2> QED BY <2>1, <2>2 DEF ContextInv, TechHolds, ScaleHolds, GraphHolds, Profiled
<1>5. CASE HandOver
  <2>1. pc = "graph" /\ pc' = "detect" /\ graph' = BuildGraph(primary, cache, tech)
        /\ UNCHANGED <<files, primary, cache, tech, scale>>
    BY <1>5 DEF HandOver
  <2>2. ToSet(GraphReads(primary)) \subseteq DOMAIN cache
    BY <1>5, <2>1 DEF HandOver, AllRead, Reads
  <2> QED BY <2>1, <2>2 DEF ContextInv, TechHolds, ScaleHolds, GraphHolds, Profiled
<1>6. CASE RuleReads
  BY <1>6, AddingKeeps DEF RuleReads
<1>7. CASE Edit \/ Detected \/ UNCHANGED vars
  <2>1. UNCHANGED <<pc, files, primary, cache, tech, scale, graph>>
    BY <1>7 DEF Edit, Detected, vars
  <2> QED BY <2>1 DEF ContextInv, TechHolds, ScaleHolds, GraphHolds
<1> QED BY <1>1, <1>2, <1>3, <1>4, <1>5, <1>6, <1>7 DEF Next

LEMMA AlwaysContextInv == Spec => []ContextInv
<1>1. Init => ContextInv
  BY DEF Init, ContextInv, TechHolds, ScaleHolds, GraphHolds, Profiled
<1> QED BY <1>1, NextContextInv, PTL DEF Spec

-----------------------------------------------------------------------------
(* The context a rule is given is of one piece: technologies, scale and    *)
(* graph are those of the texts the rule is given, whatever was saved or   *)
(* deleted between the phases and since (Engine.build_context).            *)
THEOREM ContextCorrect == Spec => []ProfileOfTextsSeen
<1>1. ContextInv => ProfileOfTextsSeen
  BY DEF ContextInv, TechHolds, ScaleHolds, GraphHolds, Profiled, ProfileOfTextsSeen
<1> QED BY <1>1, AlwaysContextInv, PTL

(* Tests, examples and vendored trees have no part in the profile of a     *)
(* project that has any other file: it is the one its own files give       *)
(* (split_primary, DECISIONS.md D64).                                      *)
THEOREM FixturesCorrect == Spec => []FixturesDefineNothing
<1>1. ContextInv => FixturesDefineNothing
  <2> SUFFICES ASSUME ContextInv,
                      NEW own, own = Where(files, {f \in ToSet(files) : ~IsFixturePath(f)}),
                      pc = "detect", own # <<>>
               PROVE  /\ tech = DetectTech(own, cache)
                      /\ scale = DetectScale(own, cache, tech)
                      /\ graph = BuildGraph(own, cache, tech)
    BY DEF FixturesDefineNothing
  <2>1. primary = own
    BY DEF ContextInv, SplitPrimary, Own
  <2> QED BY <2>1 DEF ContextInv, TechHolds, ScaleHolds, GraphHolds, Profiled
<1> QED BY <1>1, AlwaysContextInv, PTL

-----------------------------------------------------------------------------
(* What Where keeps, and at which place.  It is defined by recursion over  *)
(* a sequence; that the recursion has a solution, and what the solution    *)
(* holds, is shown from the least length for which it would not.           *)

(* A non-empty set of naturals has a least element: the initial segments   *)
(* below its elements are finite, and strict inclusion is well-founded on  *)
(* finite sets.                                                            *)
LEMMA LeastNat ==
  ASSUME NEW T \in SUBSET Nat, T # {}
  PROVE  \E m \in T : \A k \in T : m <= k
<1> DEFINE R == StrictSubsetOrdering(Nat)
           Below(m) == 0 .. (m - 1)
           Segments == {Below(m) : m \in T}
<1>1. IsWellFoundedOn(R, FiniteSubsetsOf(Nat))
  BY FS_StrictSubsetOrderingWellFounded
<1>2. Segments \subseteq FiniteSubsetsOf(Nat) /\ Segments # {}
  <2>1. ASSUME NEW m \in T PROVE Below(m) \in FiniteSubsetsOf(Nat)
    <3>1. IsFiniteSet(Below(m))
      BY FS_Interval
    <3> QED BY <3>1 DEF FiniteSubsetsOf
  <2> QED BY <2>1
<1>3. PICK x \in Segments : \A y \in Segments : ~(<<y, x>> \in R)
  <2> HIDE DEF R, Segments
  <2> QED BY <1>1, <1>2, WFMin
<1>4. PICK m \in T : x = Below(m)
  OBVIOUS
<1>5. ASSUME NEW k \in T, k < m PROVE FALSE
  <2>1. Below(k) \subseteq Below(m) /\ Below(k) # Below(m) /\ Below(m) \subseteq Nat
    <3>1. k \in Below(m) /\ k \notin Below(k)
      BY <1>5
    <3> QED BY <1>5, <3>1
  <2>2. <<Below(k), Below(m)>> \in R
    <3> HIDE DEF Below
    <3> QED BY <2>1 DEF StrictSubsetOrdering
  <2> QED BY <1>3, <1>4, <2>2
<1> QED BY <1>5

Step(k, fs, S, i) ==
  IF i = 0 THEN <<>> ELSE IF fs[i] \in S THEN Append(k[i - 1], fs[i]) ELSE k[i - 1]
Keeps(k, fs, S, n) == k = [i \in 0..n |-> Step(k, fs, S, i)]

LEMMA KeepsExists ==
  ASSUME NEW fs, NEW S, NEW n \in Nat
  PROVE  \E k : Keeps(k, fs, S, n)
<1> DEFINE T == {m \in Nat : ~\E k : Keeps(k, fs, S, m)}
<1> SUFFICES ASSUME T # {} PROVE FALSE
  OBVIOUS
<1>1. PICK m \in T : \A l \in T : m <= l
  <2>1. T \in SUBSET Nat
    OBVIOUS
  <2> HIDE DEF T
  <2> QED BY <2>1, LeastNat
<1>2. CASE m = 0
  <2> DEFINE k == [i \in 0..0 |-> <<>>]
  <2>1. Keeps(k, fs, S, 0)
    BY DEF Keeps, Step
  <2> QED BY <1>1, <1>2, <2>1
<1>3. CASE m # 0
  <2>1. m - 1 \in Nat /\ m - 1 \notin T /\ m \in Nat
    BY <1>1, <1>3
  <2>2. PICK g : Keeps(g, fs, S, m - 1)
    BY <2>1
  <2> DEFINE k == [i \in 0..m |-> IF i = m THEN Step(g, fs, S, m) ELSE g[i]]
  <2>3. ASSUME NEW i \in 0..m PROVE k[i] = Step(k, fs, S, i)
    <3>1. CASE i = 0
      <4>1. g[0] = Step(g, fs, S, 0)
        <5>1. 0 \in 0..(m - 1)
          BY <2>1
        <5> HIDE DEF k, T
        <5> QED BY <2>2, <5>1 DEF Keeps
      <4> QED BY <1>3, <2>1, <3>1, <4>1 DEF Step
    <3>2. CASE i # 0
      <4>1. i - 1 \in 0..(m - 1) /\ k[i - 1] = g[i - 1]
        BY <2>1, <3>2
      <4>2. Step(k, fs, S, i) = Step(g, fs, S, i)
        BY <3>2, <4>1 DEF Step
      <4>3. i # m => g[i] = Step(g, fs, S, i)
        <5>1. i # m => i \in 0..(m - 1)
          BY <2>1
        <5> QED BY <2>2, <5>1 DEF Keeps
      <4> QED BY <4>2, <4>3
    <3> QED BY <3>1, <3>2
  <2>4. Keeps(k, fs, S, m)
    BY <2>3 DEF Keeps
  <2> QED BY <1>1, <2>4
<1> QED BY <1>2, <1>3

LEMMA WhereKeeps ==
  ASSUME NEW X, NEW fs \in Seq(X), NEW S
  PROVE  \E k : Keeps(k, fs, S, Len(fs)) /\ Where(fs, S) = k[Len(fs)]
<1>1. \E k : Keeps(k, fs, S, Len(fs))
  BY KeepsExists
<1> DEFINE w == CHOOSE k : k = [i \in 0..Len(fs) |->
                   IF i = 0 THEN <<>>
                   ELSE IF fs[i] \in S THEN Append(k[i - 1], fs[i]) ELSE k[i - 1]]
<1>2. Where(fs, S) = w[Len(fs)]
  BY DEF Where
<1>3. Keeps(w, fs, S, Len(fs))
  BY <1>1 DEF Keeps, Step
<1> QED BY <1>2, <1>3

(* How many members of S come before place i of fs.                        *)
Before(fs, S, i) == {j \in 1..(i - 1) : fs[j] \in S}

LEMMA BeforeGrows ==
  ASSUME NEW fs, NEW S, NEW n \in Nat
  PROVE  /\ IsFiniteSet(Before(fs, S, n + 1)) /\ Cardinality(Before(fs, S, n + 1)) \in Nat
         /\ Cardinality(Before(fs, S, n + 2))
              = Cardinality(Before(fs, S, n + 1)) + (IF fs[n + 1] \in S THEN 1 ELSE 0)
<1>1. IsFiniteSet(Before(fs, S, n + 1)) /\ Cardinality(Before(fs, S, n + 1)) \in Nat
  <2>1. IsFiniteSet(1..n)
    BY FS_Interval
  <2>2. Before(fs, S, n + 1) \subseteq 1..n
    BY DEF Before
  <2>3. IsFiniteSet(Before(fs, S, n + 1))
    BY <2>1, <2>2, FS_Subset
  <2> QED BY <2>3, FS_CardinalityType
<1>2. CASE fs[n + 1] \in S
  <2>1. Before(fs, S, n + 2) = Before(fs, S, n + 1) \cup {n + 1} /\ n + 1 \notin Before(fs, S, n + 1)
    BY <1>2 DEF Before
  <2> QED BY <1>1, <1>2, <2>1, FS_AddElement
<1>3. CASE fs[n + 1] \notin S
  <2>1. Before(fs, S, n + 2) = Before(fs, S, n + 1)
    BY <1>3 DEF Before
  <2> QED BY <1>1, <1>3, <2>1
<1> QED BY <1>1, <1>2, <1>3

(* After n steps the members of S up to place n have been kept, each at    *)
(* the place that those before it leave.                                   *)
KeptUpTo(k, fs, S, n) ==
  /\ k[n] \in Seq(ToSet(fs)) /\ Len(k[n]) = Cardinality(Before(fs, S, n + 1))
  /\ \A i \in 1..n : fs[i] \in S =>
       LET place == Cardinality(Before(fs, S, i)) + 1
       IN  place \in 1..Len(k[n]) /\ k[n][place] = fs[i]

LEMMA KeptNext ==
  ASSUME NEW X, NEW fs \in Seq(X), NEW S, NEW k, Keeps(k, fs, S, Len(fs)),
         NEW n \in Nat, n < Len(fs), KeptUpTo(k, fs, S, n)
  PROVE  KeptUpTo(k, fs, S, n + 1)
<1> DEFINE c == Cardinality(Before(fs, S, n + 1))
           old == k[n]
           new == k[n + 1]
<1>1. n + 1 \in 1..Len(fs) /\ fs[n + 1] \in ToSet(fs)
  BY DEF ToSet
<1>2. new = IF fs[n + 1] \in S THEN Append(old, fs[n + 1]) ELSE old
  <2>1. k[n + 1] = Step(k, fs, S, n + 1)
    BY <1>1 DEF Keeps
  <2>2. n + 1 # 0 /\ (n + 1) - 1 = n
    OBVIOUS
  <2> QED BY <2>1, <2>2 DEF Step
<1>3. old \in Seq(ToSet(fs)) /\ Len(old) = c /\ c \in Nat
  BY BeforeGrows DEF KeptUpTo
<1>4. Cardinality(Before(fs, S, n + 2)) = c + (IF fs[n + 1] \in S THEN 1 ELSE 0)
  BY BeforeGrows
<1>5. new \in Seq(ToSet(fs)) /\ Len(new) = Cardinality(Before(fs, S, n + 2))
  <2> HIDE DEF c, old, new
  <2> QED BY <1>1, <1>2, <1>3, <1>4
<1>6. ASSUME NEW i \in 1..(n + 1), fs[i] \in S
      PROVE  LET place == Cardinality(Before(fs, S, i)) + 1
             IN  place \in 1..Len(new) /\ new[place] = fs[i]
  <2> DEFINE place == Cardinality(Before(fs, S, i)) + 1
  <2>1. CASE i = n + 1
    <3>1. place = c + 1
      BY <2>1
    <3>2. new = Append(old, fs[i])
      BY <1>2, <1>6, <2>1
    <3> HIDE DEF c, old, new, place
    <3>3. place \in 1..Len(new) /\ new[place] = fs[i]
      BY <1>1, <1>3, <2>1, <3>1, <3>2
    <3> QED BY <3>3 DEF place
  <2>2. CASE i # n + 1
    <3>1. i \in 1..n
      BY <2>2
    <3>2. place \in 1..Len(old) /\ old[place] = fs[i]
      BY <1>6, <3>1 DEF KeptUpTo
    <3> HIDE DEF c, old, new, place
    <3>3. place \in 1..Len(new) /\ new[place] = fs[i]
      BY <1>2, <1>3, <3>2
    <3> QED BY <3>3 DEF place
  <2> QED BY <2>1, <2>2
<1>7. (n + 1) + 1 = n + 2
  OBVIOUS
<1> QED BY <1>5, <1>6, <1>7 DEF KeptUpTo

LEMMA WhereAt ==
  ASSUME NEW X, NEW fs \in Seq(X), NEW S
  PROVE  /\ Where(fs, S) \in Seq(ToSet(fs))
         /\ \A i \in 1..Len(fs) : fs[i] \in S =>
              LET place == Cardinality(Before(fs, S, i)) + 1
              IN  place \in 1..Len(Where(fs, S)) /\ Where(fs, S)[place] = fs[i]
<1>1. PICK k : Keeps(k, fs, S, Len(fs)) /\ Where(fs, S) = k[Len(fs)]
  BY WhereKeeps
<1> DEFINE T == {n \in 0..Len(fs) : ~KeptUpTo(k, fs, S, n)}
<1>2. T = {}
  <2> SUFFICES ASSUME T # {} PROVE FALSE
    OBVIOUS
  <2>1. PICK m \in T : \A l \in T : m <= l
    <3>1. T \in SUBSET Nat
      OBVIOUS
    <3> HIDE DEF T
    <3> QED BY <3>1, LeastNat
  <2>2. CASE m = 0
    <3>1. k[0] = <<>>
      BY <1>1 DEF Keeps, Step
    <3>2. Before(fs, S, 0 + 1) = {}
      BY DEF Before
    <3>3. Cardinality(Before(fs, S, 0 + 1)) = 0
      BY <3>2, FS_EmptySet
    <3>4. KeptUpTo(k, fs, S, 0)
      <4> HIDE DEF T
      <4>1. k[0] \in Seq(ToSet(fs)) /\ Len(k[0]) = 0
        BY <3>1
      <4> QED BY <3>3, <4>1 DEF KeptUpTo
    <3> QED BY <2>1, <2>2, <3>4
  <2>3. CASE m # 0
    <3>1. m - 1 \in Nat /\ m - 1 < Len(fs) /\ m - 1 \notin T /\ (m - 1) + 1 = m
      BY <2>1, <2>3
    <3>2. KeptUpTo(k, fs, S, m - 1)
      BY <3>1
    <3>3. KeptUpTo(k, fs, S, m)
      BY <1>1, <3>1, <3>2, KeptNext
    <3> QED BY <2>1, <3>3
  <2> QED BY <2>2, <2>3
<1>3. KeptUpTo(k, fs, S, Len(fs))
  BY <1>2
<1> QED BY <1>1, <1>3 DEF KeptUpTo

-----------------------------------------------------------------------------
(* The walk and the split give sequences of paths.                         *)
ListsInv ==
  /\ files \in Seq(ToSet(files)) /\ primary \in Seq(ToSet(primary))

LEMMA ListOfRange ==
  ASSUME NEW X, NEW s \in Seq(X)
  PROVE  s \in Seq(ToSet(s))
<1>1. \A i \in 1..Len(s) : s[i] \in ToSet(s)
  BY DEF ToSet
<1> QED BY <1>1

LEMMA AlwaysListsInv == Spec => []ListsInv
<1>1. Init => ListsInv
  BY DEF Init, ListsInv
<1>2. ListsInv /\ [Next]_vars => ListsInv'
  <2> SUFFICES ASSUME ListsInv, [Next]_vars PROVE ListsInv'
    OBVIOUS
  <2>1. CASE Walk
    <3>1. files' \in Seq(ToSet(Files))
      BY <2>1, ProfileAssumption, WhereAt DEF Walk, CollectFiles
    <3>2. Own(files') \in Seq(ToSet(files'))
      BY <3>1, WhereAt DEF Own
    <3>3. primary' \in {files', Own(files')}
      BY <2>1 DEF Walk, SplitPrimary
    <3> QED BY <3>1, <3>2, <3>3, ListOfRange DEF ListsInv
  <2>2. CASE ~Walk
    <3>1. UNCHANGED <<files, primary>>
      BY <2>2 DEF Next, Read, ProfileTech, ProfileScale, HandOver, RuleReads, Edit, Detected, vars
    <3> QED BY <3>1 DEF ListsInv
  <2> QED BY <2>1, <2>2
<1> QED BY <1>1, <1>2, PTL DEF Spec

(* Every phase reads a sequence, and what any part of it holds it reads.   *)
LEMMA RangeOfTail ==
  ASSUME NEW X, NEW s \in Seq(X), NEW t \in Seq(X)
  PROVE  s \o t \in Seq(X) /\ ToSet(t) \subseteq ToSet(s \o t)
<1>1. s \o t \in Seq(X)
  OBVIOUS
<1>2. ASSUME NEW i \in 1..Len(t)
      PROVE  \E j \in DOMAIN (s \o t) : (s \o t)[j] = t[i]
  <2>1. Len(s) + i \in 1..Len(s \o t) /\ (s \o t)[Len(s) + i] = t[i]
    OBVIOUS
  <2>2. DOMAIN (s \o t) = 1..Len(s \o t)
    BY <1>1
  <2> QED BY <2>1, <2>2
<1>3. ToSet(t) = {t[i] : i \in 1..Len(t)}
  BY DEF ToSet
<1> QED BY <1>1, <1>2, <1>3 DEF ToSet

(* A file that fewer than MaxInspected importing ones precede is inspected. *)
LEMMA InspectedWithin ==
  ASSUME NEW X, NEW fs \in Seq(X), NEW i \in 1..Len(fs), Ext(fs[i]) \in IMPORTING,
         Cardinality({j \in 1..(i - 1) : Ext(fs[j]) \in IMPORTING}) < MaxInspected
  PROVE  fs[i] \in ToSet(Inspected(fs)) /\ Inspected(fs) \in Seq(ToSet(fs))
<1> DEFINE S == {f \in ToSet(fs) : Ext(f) \in IMPORTING}
           kept == Where(fs, S)
           place == Cardinality(Before(fs, S, i)) + 1
<1>1. \A j \in 1..Len(fs) : fs[j] \in ToSet(fs)
  BY DEF ToSet
<1>2. Before(fs, S, i) = {j \in 1..(i - 1) : Ext(fs[j]) \in IMPORTING}
  BY <1>1 DEF Before
<1>3. kept \in Seq(ToSet(fs)) /\ place \in 1..Len(kept) /\ kept[place] = fs[i]
  <2>1. fs[i] \in S
    BY <1>1
  <2> HIDE DEF S
  <2> QED BY <2>1, WhereAt
<1>4. Cardinality(Before(fs, S, i)) \in Nat
  <2>1. i - 1 \in Nat /\ (i - 1) + 1 = i
    OBVIOUS
  <2> HIDE DEF S
  <2> QED BY <2>1, BeforeGrows
<1>5. Inspected(fs) = UpTo(kept, MaxInspected)
  BY DEF Inspected, WithExt
<1>6. place <= MaxInspected
  <2> DEFINE c == Cardinality(Before(fs, S, i))
  <2>1. c \in Nat /\ c < MaxInspected /\ place = c + 1
    BY <1>2, <1>4
  <2> HIDE DEF c
  <2> QED BY <2>1, ProfileAssumption
<1> HIDE DEF S, kept, place
<1>7. Inspected(fs) \in Seq(ToSet(fs)) /\ place \in DOMAIN Inspected(fs)
      /\ Inspected(fs)[place] = kept[place]
  BY <1>3, <1>5, <1>6, ProfileAssumption DEF UpTo
<1> QED BY <1>3, <1>7 DEF ToSet

LEMMA InspectedIsRead ==
  ASSUME NEW X, NEW fs \in Seq(X), Inspected(fs) \in Seq(ToSet(fs))
  PROVE  ToSet(Inspected(fs)) \subseteq ToSet(TechReads(fs))
<1>1. /\ Manifests(fs) \in Seq(ToSet(fs)) /\ YamlFiles(fs) \in Seq(ToSet(fs))
      /\ ConfigFiles(fs) \in Seq(ToSet(fs))
  BY WhereAt DEF Manifests, YamlFiles, ConfigFiles, WithName
<1>2. Manifests(fs) \o YamlFiles(fs) \in Seq(ToSet(fs))
  BY <1>1, RangeOfTail
<1>3. (Manifests(fs) \o YamlFiles(fs)) \o ConfigFiles(fs) \in Seq(ToSet(fs))
  BY <1>1, <1>2, RangeOfTail
<1> QED BY <1>3, RangeOfTail DEF TechReads

(* tech.py 355: whatever a primary file imports is in the profile, unless  *)
(* MaxInspected importing files come before it; no save or deletion during *)
(* the phases takes it out.                                                *)
THEOREM MissedCorrect == Spec => []MissedOnlyBeyondLimit
<1>1. ContextInv /\ ListsInv => MissedOnlyBeyondLimit
  <2> SUFFICES ASSUME ContextInv, ListsInv, pc = "detect", NEW i \in DOMAIN primary,
                      Ext(primary[i]) \in IMPORTING,
                      Cardinality({j \in 1..(i - 1) : Ext(primary[j]) \in IMPORTING}) < MaxInspected
               PROVE  /\ primary[i] \in DOMAIN cache
                      /\ Signals(cache[primary[i]].deps) \subseteq tech.lists
    BY DEF MissedOnlyBeyondLimit
  <2> DEFINE f == primary[i]
             read == Seen(cache, TechReads(primary))
  <2>1. primary \in Seq(ToSet(primary)) /\ i \in 1..Len(primary)
    BY DEF ListsInv
  <2>2. f \in ToSet(Inspected(primary)) /\ Inspected(primary) \in Seq(ToSet(primary))
    BY <2>1, InspectedWithin
  <2>3. f \in ToSet(TechReads(primary))
    BY <2>1, <2>2, InspectedIsRead
  <2>4. ToSet(TechReads(primary)) \subseteq DOMAIN cache /\ tech = DetectTech(primary, cache)
    BY DEF ContextInv, TechHolds, Profiled
  <2>5. read[f] = cache[f]
    BY <2>3 DEF Seen, Restrict
  <2>6. tech = TechOf(primary, read)
    BY <2>4 DEF DetectTech
  <2>7. FromImports(primary, read) \subseteq tech.lists
    <3> HIDE DEF read
    <3> QED BY <2>6 DEF TechOf
  <2>8. Signals(read[f].deps) \subseteq FromImports(primary, read)
    <3> HIDE DEF read, f
    <3> QED BY <2>2 DEF FromImports
  <2> QED BY <2>3, <2>4, <2>5, <2>7, <2>8
<1> QED BY <1>1, AlwaysContextInv, AlwaysListsInv, PTL
=============================================================================
