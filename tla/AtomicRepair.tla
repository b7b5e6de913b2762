----------------------------- MODULE AtomicRepair -----------------------------
(***************************************************************************)
(* What the repair loop promises its caller, run after run: every finding  *)
(* of a run is decided at most once, its patch is then in all of its files *)
(* or in none, and the fix branch moves by accepted patches only, each as  *)
(* a whole.  Three things break a patch in two, and only within the files  *)
(* of that one patch: a kill, a file that cannot be written back, which is *)
(* from then on in lost, and a run that breaks off while it takes the patch*)
(* back.                                                                   *)
(***************************************************************************)
CONSTANTS Findings, Files, Touches, None, Absent

VARIABLES
  running,  \* between the start of a run and its end
  tree,     \* tree[p]: the findings whose patch is in file p
  tip,      \* tip[p]: the same at the tip of the branch; Absent if p is not in it
  rec,      \* rec[f]: the status of the record of f, or None
  lost      \* files the program could not write back, or never saw changed

vars == <<running, tree, tip, rec, lost>>

NoRecords == [f \in Findings |-> None]

Init ==
  /\ running = FALSE
  /\ tree = [p \in Files |-> {}]
  /\ tip \in [Files -> {Absent, {}}]
  /\ rec = NoRecords /\ lost = {}

Begin ==
  /\ ~running /\ running' = TRUE
  /\ rec' = NoRecords /\ UNCHANGED <<tree, tip, lost>>

(* A run begins without knowing which files differ from the branch.        *)
BeginBlind ==
  /\ ~running /\ running' = TRUE
  /\ rec' = NoRecords /\ UNCHANGED <<tree, tip>>
  /\ \E hidden \in SUBSET Files : lost' = lost \cup hidden

(* A run may end before every finding is decided, but not within a patch.  *)
End == running /\ running' = FALSE /\ UNCHANGED <<tree, tip, rec, lost>>

Undecided(f) == running /\ rec[f] = None

(* The patch is in all of its files, and so is the commit, if there is one.*)
Accept(f) ==
  /\ Undecided(f)
  /\ \E status \in {"fixed", "unverified"} : rec' = [rec EXCEPT ![f] = status]
  /\ tree' = [p \in Files |-> IF p \in Touches[f] THEN tree[p] \cup {f} ELSE tree[p]]
  /\ \/ tip' = tip
     \/ tip' = [p \in Files |-> IF p \in Touches[f] THEN tree'[p] ELSE tip[p]]
  /\ UNCHANGED <<running, lost>>

Reject(f) ==
  /\ Undecided(f)
  /\ \E status \in {"failed", "requires_review", "not_attempted"} :
       rec' = [rec EXCEPT ![f] = status]
  /\ UNCHANGED <<running, tree, tip, lost>>

(* What is left of a patch in paths.  A file that was not lost before holds*)
(* nothing it did not hold, but for the patch itself.                      *)
Remains(f, paths) ==
  /\ tree' \in [Files -> SUBSET Findings]
  /\ \A p \in Files \ paths : tree'[p] = tree[p]
  /\ \A p \in paths \ lost : tree'[p] \subseteq tree[p] \cup {f}

(* A rejected patch stays in the files that cannot be written back.        *)
RejectInPart(f) ==
  /\ Undecided(f)
  /\ rec' = [rec EXCEPT ![f] = "failed"]
  /\ \E stuck \in SUBSET Touches[f] : Remains(f, stuck) /\ lost' = lost \cup stuck
  /\ UNCHANGED <<running, tip>>

(* The run ends while it takes a rejected patch back, and f has no record. *)
BreakOff(f) ==
  /\ Undecided(f) /\ running' = FALSE
  /\ \E stuck \in SUBSET Touches[f] : Remains(f, stuck) /\ lost' = lost \cup stuck
  /\ UNCHANGED <<rec, tip>>

(* The process is killed while it patches f.                               *)
Interrupt(f) ==
  /\ running /\ running' = FALSE
  /\ rec' = NoRecords /\ Remains(f, Touches[f]) /\ UNCHANGED <<tip, lost>>

(* It is killed between two patches.                                       *)
Forget == running' = FALSE /\ rec' = NoRecords /\ UNCHANGED <<tree, tip, lost>>

(* The developer goes back to the tip of the branch.                       *)
Discard ==
  /\ ~running
  /\ tree' = [p \in Files |-> IF tip[p] = Absent THEN tree[p] ELSE tip[p]]
  /\ UNCHANGED <<running, tip, rec, lost>>

Next ==
  \/ Begin \/ BeginBlind \/ End
  \/ \E f \in Findings :
       Accept(f) \/ Reject(f) \/ RejectInPart(f) \/ BreakOff(f) \/ Interrupt(f)
  \/ Forget \/ Discard

Spec == Init /\ [][Next]_vars
=============================================================================
