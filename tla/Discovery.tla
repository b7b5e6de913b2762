------------------------------- MODULE Discovery -------------------------------
(***************************************************************************)
(* Discovery and what detection reads afterwards: the walk of the tree,    *)
(* then the phases of Profile, each from texts read once through a shared  *)
(* cache, while the developer may edit the tree.                           *)
(***************************************************************************)
EXTENDS Profile

CONSTANTS
  Trees,            \* what may be on disk: functions from paths to texts or Gone
  Rewrites,         \* texts the developer may save
  Excludes,         \* glob patterns of the configuration and of .gitignore
  MaxEdits          \* bound: saves by the developer

VARIABLES
  pc,
  disk,
  files, primary,   \* paths collected; those that speak for the project
  cache,            \* path -> text
  tech, scale, graph,
  edits             \* saves so far

vars == <<pc, disk, files, primary, cache, tech, scale, graph, edits>>

None == [kind |-> "none"]

-----------------------------------------------------------------------------
Init ==
  /\ pc = "walk" /\ disk \in Trees
  /\ files = <<>> /\ primary = <<>> /\ cache = [f \in {} |-> Gone]
  /\ tech = None /\ scale = None /\ graph = None /\ edits = 0

Walk ==
  /\ pc = "walk" /\ pc' = "tech"
  /\ files' = CollectFiles(disk, Excludes) /\ primary' = SplitPrimary(files')
  /\ UNCHANGED <<disk, cache, tech, scale, graph, edits>>

(* An unreadable file is an empty text, for good.                          *)
Text(f) == IF disk[f] = Gone THEN Empty ELSE disk[f]
Cached(f) == IF f \in DOMAIN cache THEN cache
             ELSE [g \in DOMAIN cache \cup {f} |-> IF g = f THEN Text(f) ELSE cache[g]]

(* A phase reads its files in order, those it finds in the cache again.    *)
Reads ==
  CASE pc = "tech" -> TechReads(primary)
    [] pc = "scale" -> ScaleReads(primary)
    [] pc = "graph" -> GraphReads(primary)
    [] OTHER -> <<>>
AllRead == ToSet(Reads) \subseteq DOMAIN cache

Read ==
  /\ \E i \in DOMAIN Reads :
       /\ Reads[i] \notin DOMAIN cache /\ \A j \in 1..(i - 1) : Reads[j] \in DOMAIN cache
       /\ cache' = Cached(Reads[i])
  /\ UNCHANGED <<pc, disk, files, primary, tech, scale, graph, edits>>

ProfileTech ==
  /\ pc = "tech" /\ AllRead /\ pc' = "scale"
  /\ tech' = DetectTech(primary, cache)
  /\ UNCHANGED <<disk, files, primary, cache, scale, graph, edits>>

ProfileScale ==
  /\ pc = "scale" /\ AllRead /\ pc' = "graph"
  /\ scale' = DetectScale(primary, cache, tech)
  /\ UNCHANGED <<disk, files, primary, cache, tech, graph, edits>>

(* Mutant of HandOver: the context starts with a cache of its own.         *)
ForgetTexts ==
  /\ pc = "graph" /\ AllRead /\ pc' = "detect" /\ cache' = [f \in {} |-> Gone]
  /\ graph' = BuildGraph(primary, cache, tech)
  /\ UNCHANGED <<disk, files, primary, tech, scale, edits>>

(* The texts read so far become the read cache of the ScanContext.         *)
HandOver ==
  /\ pc = "graph" /\ AllRead /\ pc' = "detect"
  /\ graph' = BuildGraph(primary, cache, tech)
  /\ UNCHANGED <<disk, files, primary, cache, tech, scale, edits>>

(* ScanContext.read, by a rule.                                            *)
RuleReads ==
  /\ pc = "detect"
  /\ \E f \in ToSet(files) : f \notin DOMAIN cache /\ cache' = Cached(f)
  /\ UNCHANGED <<pc, disk, files, primary, tech, scale, graph, edits>>

Edit ==
  /\ edits < MaxEdits /\ edits' = edits + 1
  /\ \E f \in ToSet(Files), text \in Rewrites \cup {Gone} :
       /\ disk[f] # Gone /\ disk[f] # text
       /\ disk' = [disk EXCEPT ![f] = text]
  /\ UNCHANGED <<pc, files, primary, cache, tech, scale, graph>>

Detected == pc = "detect" /\ ToSet(files) \subseteq DOMAIN cache /\ UNCHANGED vars

Next ==
  \/ Walk \/ Read \/ ProfileTech \/ ProfileScale \/ HandOver \/ RuleReads \/ Edit \/ Detected

Spec == Init /\ [][Next]_vars

-----------------------------------------------------------------------------
(* The context a rule is given is of one piece (build_context, context.py  *)
(* 97): the technologies, the scale and the graph are those of the very    *)
(* texts the rule is given, although files were saved or deleted between   *)
(* the phases and after them.                                              *)
ProfileOfTextsSeen ==
  pc = "detect" /\ ToSet(files) \subseteq DOMAIN cache =>
    /\ tech = DetectTech(primary, cache)
    /\ scale = DetectScale(primary, cache, tech)
    /\ graph = BuildGraph(primary, cache, tech)

(* DECISIONS.md D64: tests, examples and vendored trees do not say what    *)
(* the project is.  Whatever a profile has, a file outside of them has.    *)
FixturesDefineNothing ==
  LET own == Where(files, {f \in ToSet(files) : ~IsFixturePath(f)})
  IN pc = "detect" /\ own # <<>> /\ ToSet(files) \subseteq DOMAIN cache =>
       /\ tech = DetectTech(own, cache)
       /\ scale = DetectScale(own, cache, tech)
       /\ graph = BuildGraph(own, cache, tech)

(* tech.py 355: a dependency that a primary file imports is in the         *)
(* profile, unless MaxInspected importing files come before that file.     *)
MissedOnlyBeyondLimit ==
  pc = "detect" =>
    \A i \in DOMAIN primary :
      LET f == primary[i]
          before == {j \in 1..(i - 1) : Ext(primary[j]) \in IMPORTING}
      IN Ext(f) \in IMPORTING /\ Cardinality(before) < MaxInspected =>
           f \in DOMAIN cache /\ Signals(cache[f].deps) \subseteq tech.lists
=================================================================================
