--------------------------- MODULE RepairLoop_proofs ---------------------------
(***************************************************************************)
(* Theorems about the repair loop for every set of findings and files and  *)
(* for any number of failing calls, edits, crashes and runs.               *)
(***************************************************************************)
EXTENDS RepairLoop, FiniteSetTheorems, TLAPS

(* Where a finding is under repair.                                        *)
Busy == {"ask", "repro", "check"} \cup InFlight

(* A run in a repository starts on a clean tree, but for the files whose   *)
(* changes a failing `git status` has hidden.                              *)
LEMMA StartsClean ==
  ASSUME StartRun, ~BackupMode
  PROVE  DirtyPaths(FALSE) \subseteq blind' /\ blind \subseteq blind'
BY DEF StartRun, DirtyPaths

(* What the locals of _repair_one and _apply hold at each of these places. *)
Held ==
  /\ \A f \in todo : rec[f] = None
  /\ pc \in Busy => cur \in todo
  /\ pc \in {"ask", "repro", "check", "prepare", "write"} =>
       \A p \in Paths : cache[p] \in Content
  /\ pc \in InFlight => \A p \in Paths : originals[p] \in Content
  /\ pc \in {"prepare", "write"} => toWrite \subseteq Paths
  /\ pc \in {"add", "commit"} => verdict \in Applied

TypeInv == TypeOK /\ Held

-----------------------------------------------------------------------------
(* The text of a file is a content, and no content is the missing copy.    *)
LEMMA TextIsContent ==
  /\ \A c \in Content : Text(c) \in Content /\ c # Absent
  /\ \A c \in Content : \A f \in Findings : c \cup {f} \in Content
  /\ {Torn} \in Content /\ {Crlf} \in Content /\ {} \in Content
BY FindingsAssumption DEF Content, Text, Marks

(* The paths of a patch are files.                                         *)
LEMMA TouchesFiles == \A f \in Findings : Touches[f] \subseteq Files
BY FindingsAssumption

LEMMA InitTypeInv == Init => TypeInv
<1> SUFFICES ASSUME Init PROVE TypeInv
  OBVIOUS
<1>1. Initial \in [Files -> Content]
  BY FilesAssumption, TextIsContent DEF Content, Marks
<1>2. head \in [Files -> Copy] /\ index \in [Files -> Copy] /\ work \in [Files -> Content]
  BY <1>1 DEF Init, Copy
<1>3. TypeOK
  BY <1>1, <1>2, BoundsAssumption DEF Init, TypeOK, Places, NoCopies, Copy
<1>4. Held
  BY DEF Init, Held, Busy, InFlight
<1> QED BY <1>3, <1>4 DEF TypeInv

(* What every early return and every record leaves behind.                 *)
LEMMA FinishType ==
  ASSUME TypeInv, NEW f \in todo, NEW status \in Statuses, Finish(f, status)
  PROVE  /\ rec' \in [Findings -> Statuses \cup {None}] /\ todo' \subseteq Findings
         /\ cur' = None /\ originals' \in [Files -> Copy]
         /\ toWrite' = {} /\ repro' = FALSE /\ verdict' = "none" /\ pc' = "next"
         /\ Held'
<1>1. rec' = [rec EXCEPT ![f] = status] /\ todo' = todo \ {f} /\ pc' = "next"
  BY DEF Finish, GoTo
<1>2. rec' \in [Findings -> Statuses \cup {None}]
  BY <1>1 DEF TypeInv, TypeOK
<1>3. \A g \in todo' : rec'[g] = None
  BY <1>1 DEF TypeInv, TypeOK, Held
<1>4. Held'
  BY <1>1, <1>3 DEF Held, Busy, InFlight
<1> QED BY <1>1, <1>2, <1>4 DEF TypeInv, TypeOK, Finish, Unbound, NoCopies, Copy

LEMMA NextTypeInv == TypeInv /\ [Next]_vars => TypeInv'
<1> SUFFICES ASSUME TypeInv, [Next]_vars PROVE TypeInv'
  OBVIOUS
<1> USE BoundsAssumption
<1>1. ASSUME StartRun PROVE TypeInv'
  <2>1. work \in [Files -> Content] /\ cache' \in [Files -> Content]
    BY <1>1, TextIsContent DEF TypeInv, TypeOK, StartRun
  <2>2. runs' \in Nat /\ faults' \in Nat /\ blind' \subseteq Files
    BY <1>1 DEF TypeInv, TypeOK, StartRun, Fault, NoFault, Uncommitted
  <2>3. TypeOK'
    BY <1>1, <2>1, <2>2
       DEF TypeInv, TypeOK, Places, Copy, StartRun, Unbound, NoCopies, GoTo, disk
  <2>4. Held'
    BY <1>1 DEF Held, Busy, InFlight, StartRun, GoTo
  <2> QED BY <2>3, <2>4 DEF TypeInv
<1>2. ASSUME RefuseDirty PROVE TypeInv'
  BY <1>2, TextIsContent, TouchesFiles, FindingsAssumption
     DEF TypeInv, TypeOK, Held, Places, Busy, InFlight, Copy, RefuseDirty, mem, history, bounds, Paths
<1>3. ASSUME NEW f \in Findings, PassOver(f) PROVE TypeInv'
  BY <1>3, TextIsContent, TouchesFiles, FindingsAssumption
     DEF TypeInv, TypeOK, Held, Places, Busy, InFlight, Copy, PassOver, disk, history, bounds
<1>4. ASSUME NEW f \in Findings, Refuse(f) PROVE TypeInv'
  <2>1. f \in todo /\ Refusal(f) \in Statuses /\ Finish(f, Refusal(f))
    BY <1>4 DEF Refuse, Eligible, Refusal, Statuses
  <2> QED BY <1>4, <2>1, FinishType
          DEF TypeInv, TypeOK, Places, Refuse, disk, history, bounds
<1>5. ASSUME NEW f \in Findings, ComputePatch(f) PROVE TypeInv'
  BY <1>5, TextIsContent, TouchesFiles, FindingsAssumption
     DEF TypeInv, TypeOK, Held, Places, Busy, InFlight, Copy, ComputePatch, CallFix, Eligible, Seen, Paths, GoTo, disk, history, bounds
<1>6. ASSUME NEW f \in Findings, NoPatch(f) PROVE TypeInv'
  <2>1. f \in todo /\ "not_attempted" \in Statuses /\ Finish(f, "not_attempted")
    BY <1>6 DEF NoPatch, CallFix, Eligible, Statuses
  <2>2. cache' \in [Files -> Copy]
    BY <1>6, TextIsContent DEF TypeInv, TypeOK, Copy, NoPatch, CallFix, Seen
  <2> QED BY <1>6, <2>1, <2>2, FinishType
          DEF TypeInv, TypeOK, Places, NoPatch, CallFix, disk, history, bounds
<1>7. ASSUME Approve PROVE TypeInv'
  BY <1>7, TextIsContent, TouchesFiles, FindingsAssumption
     DEF TypeInv, TypeOK, Held, Places, Busy, InFlight, Copy, Approve, Paths, GoTo, mem, disk, history, bounds
<1>8. ASSUME Decline PROVE TypeInv'
  <2>1. cur \in todo /\ "requires_review" \in Statuses /\ Finish(cur, "requires_review")
    BY <1>8 DEF TypeInv, Held, Busy, Decline, Statuses
  <2> QED BY <1>8, <2>1, FinishType
          DEF TypeInv, TypeOK, Places, Decline, disk, history, bounds
<1>9. ASSUME PrepareRepro PROVE TypeInv'
  BY <1>9, TextIsContent, TouchesFiles, FindingsAssumption
     DEF TypeInv, TypeOK, Held, Places, Busy, InFlight, Copy, PrepareRepro, Paths, GoTo, disk, history, bounds
<1>10. ASSUME CheckFiles PROVE TypeInv'
  <2>1. cur \in Findings /\ Paths \subseteq Files /\ Paths' = Paths
    BY <1>10, TouchesFiles DEF TypeInv, TypeOK, Held, Busy, Paths, CheckFiles
  <2>2. originals' \in [Files -> Copy] /\ \A p \in Paths : originals'[p] \in Content
    BY <1>10, <2>1, TextIsContent DEF TypeInv, TypeOK, Copy, CheckFiles
  <2>3. TypeOK'
    BY <1>10, <2>1, <2>2
       DEF TypeInv, TypeOK, Places, InFlight, CheckFiles, GoTo, disk, history, bounds
  <2>4. Held'
    BY <1>10, <2>1, <2>2 DEF TypeInv, Held, Busy, InFlight, CheckFiles, GoTo
  <2> QED BY <2>3, <2>4 DEF TypeInv
<1>11. ASSUME AbandonChanged PROVE TypeInv'
  <2>1. cur \in todo /\ "not_attempted" \in Statuses
    BY <1>11 DEF TypeInv, Held, Busy, AbandonChanged, Statuses
  <2>2. faults' \in Nat
    BY <1>11 DEF TypeInv, TypeOK, AbandonChanged, Fault, NoFault
  <2>3. Finish(cur, "not_attempted")
    BY <1>11 DEF AbandonChanged
  <2> QED BY <1>11, <2>1, <2>2, <2>3, FinishType
          DEF TypeInv, TypeOK, Places, AbandonChanged, disk, history
<1>12. ASSUME DecodeRaises PROVE TypeInv'
  BY <1>12, TextIsContent, TouchesFiles, FindingsAssumption
     DEF TypeInv, TypeOK, Held, Places, Busy, InFlight, Copy, DecodeRaises, GoTo, mem, disk, history, bounds
<1>13. ASSUME Prepare PROVE TypeInv'
  BY <1>13, TextIsContent, TouchesFiles, FindingsAssumption
     DEF TypeInv, TypeOK, Held, Places, Busy, InFlight, Copy, Prepare, ToBackUp, Paths, NoFault, Fault, GoTo, history
<1>14. ASSUME NEW p \in Files, WriteFile(p) PROVE TypeInv'
  <2>1. cur \in Findings /\ Paths \subseteq Files /\ Paths' = Paths
    BY <1>14, TouchesFiles DEF TypeInv, TypeOK, Held, Busy, InFlight, Paths, WriteFile
  <2>2. cache[p] \in Content
    BY <1>14 DEF TypeInv, Held, WriteFile
  <2>3. work' \in [Files -> Content]
    BY <1>14, <2>1, <2>2, TextIsContent DEF TypeInv, TypeOK, WriteFile
  <2>4. cache' \in [Files -> Copy] /\ pc' \in {"write", "confirm"}
    BY <1>14 DEF TypeInv, TypeOK, Copy, WriteFile, Invalidate, GoTo
  <2>5. TypeOK'
    BY <1>14, <2>3, <2>4
       DEF TypeInv, TypeOK, Places, InFlight, WriteFile, history, bounds
  <2>6. pc' = "write" => cache' = cache
    BY <1>14 DEF WriteFile, GoTo
  <2>7. Held'
    BY <1>14, <2>1, <2>4, <2>6 DEF TypeInv, Held, Busy, InFlight, WriteFile
  <2> QED BY <2>5, <2>7 DEF TypeInv
<1>15. ASSUME NEW p \in Files, WriteFails(p) PROVE TypeInv'
  BY <1>15, TextIsContent, TouchesFiles, FindingsAssumption
     DEF TypeInv, TypeOK, Held, Places, Busy, InFlight, Copy, WriteFails, Fault, Paths, GoTo, mem, history
<1>16. ASSUME RestoreAfterFailedWrite PROVE TypeInv'
  <2>1. cur \in Findings /\ Paths \subseteq Files
    BY <1>16, TouchesFiles DEF TypeInv, TypeOK, Held, Busy, InFlight, Paths, RestoreAfterFailedWrite
  <2>2. PICK stuck \in SUBSET Paths : \E torn \in SUBSET stuck :
          /\ FailsOn(stuck, "restore")
          /\ work' = Restored(Paths, stuck, torn)
          /\ unrestored' = unrestored \cup stuck
    BY <1>16 DEF RestoreAfterFailedWrite
  <2>3. work' \in [Files -> Content] /\ unrestored' \subseteq Files /\ faults' \in Nat
    BY <1>16, <2>1, <2>2, TextIsContent
       DEF TypeInv, TypeOK, Held, InFlight, Restored, FailsOn, Fault, NoFault, RestoreAfterFailedWrite
  <2>4. cache' \in [Files -> Copy]
    BY <1>16 DEF TypeInv, TypeOK, RestoreAfterFailedWrite
  <2>5. cur \in todo /\ "failed" \in Statuses /\ Finish(cur, "failed")
    BY <1>16 DEF TypeInv, Held, Busy, InFlight, RestoreAfterFailedWrite, Statuses
  <2> QED BY <1>16, <2>3, <2>4, <2>5, FinishType
          DEF TypeInv, TypeOK, Places, RestoreAfterFailedWrite
<1>17. ASSUME Confirm PROVE TypeInv'
  BY <1>17, TextIsContent, TouchesFiles, FindingsAssumption
     DEF TypeInv, TypeOK, Held, Places, Busy, InFlight, Copy, Confirm, Verdict, Applied, Paths, GoTo, disk, bounds
<1>18. ASSUME RollBack PROVE TypeInv'
  <2> DEFINE copy == IF BackupMode THEN orig ELSE index
             able == {p \in Paths : copy[p] # Absent}
  <2>1. cur \in Findings /\ Paths \subseteq Files /\ Paths' = Paths
    BY <1>18, TouchesFiles DEF TypeInv, TypeOK, Held, Busy, InFlight, Paths, RollBack
  <2>2. \A p \in able : copy[p] \in Content
    BY <2>1 DEF TypeInv, TypeOK, Copy
  <2>3. work' \in [Files -> Content] /\ orig' \in [Files -> Copy]
        /\ backedUp' \subseteq Files /\ faults' \in Nat
    <3>1. PICK stuck \in SUBSET able :
            \E copied \in SUBSET (IF BackupMode THEN stuck ELSE {}) :
            /\ FailsOn(stuck, "rollback")
            /\ work' = [p \in Files |-> IF p \in (able \ stuck) \cup copied
                                        THEN copy[p] ELSE work[p]]
            /\ orig' = [p \in Files |-> IF BackupMode /\ p \in able \ stuck
                                        THEN Absent ELSE orig[p]]
            /\ backedUp' = IF BackupMode THEN backedUp \ able ELSE backedUp
      BY <1>18 DEF RollBack
    <3>2. PICK copied \in SUBSET (IF BackupMode THEN stuck ELSE {}) :
            work' = [p \in Files |-> IF p \in (able \ stuck) \cup copied
                                      THEN copy[p] ELSE work[p]]
      BY <3>1
    <3>3. copied \subseteq able
      BY <3>1, <3>2
    <3>4. work' \in [Files -> Content]
      <4> HIDE DEF able, copy
      <4> QED BY <2>2, <3>2, <3>3 DEF TypeInv, TypeOK
    <3>5. faults' \in Nat
      BY <3>1 DEF TypeInv, TypeOK, FailsOn, Fault, NoFault
    <3> QED BY <3>1, <3>4, <3>5 DEF TypeInv, TypeOK, Copy
  <2>4. TypeOK'
    BY <1>18, <2>3 DEF TypeInv, TypeOK, Places, InFlight, RollBack, GoTo, history
  <2>5. Held'
    BY <1>18, <2>1 DEF TypeInv, Held, Busy, InFlight, RollBack, GoTo
  <2> QED BY <2>4, <2>5 DEF TypeInv
<1>27. ASSUME RollBackRaises PROVE TypeInv'
  <2>1. PICK done \in SUBSET {p \in Paths : index[p] # Absent} :
          work' = [p \in Files |-> IF p \in done THEN index[p] ELSE work[p]]
    BY <1>27 DEF RollBackRaises
  <2>2. work' \in [Files -> Content]
    BY <2>1 DEF TypeInv, TypeOK, Copy
  <2>3. Paths \subseteq Files
    BY <1>27, TouchesFiles DEF TypeInv, TypeOK, Held, Busy, InFlight, Paths, RollBackRaises
  <2>4. unrestored' \subseteq Files /\ faults' \in Nat
    BY <1>27, <2>3 DEF TypeInv, TypeOK, RollBackRaises, Fault
  <2>5. TypeOK'
    BY <1>27, <2>2, <2>4 DEF TypeInv, TypeOK, Places, RollBackRaises, GoTo, mem
  <2>6. Held'
    BY <1>27 DEF TypeInv, Held, Busy, InFlight, RollBackRaises, GoTo, mem
  <2> QED BY <2>5, <2>6 DEF TypeInv
<1>19. ASSUME RestoreIfNeeded PROVE TypeInv'
  <2> DEFINE needed == {p \in Paths : Text(work[p]) # originals[p]}
  <2>1. cur \in Findings /\ Paths \subseteq Files
    BY <1>19, TouchesFiles DEF TypeInv, TypeOK, Held, Busy, InFlight, Paths, RestoreIfNeeded
  <2>2. PICK stuck \in SUBSET needed : \E torn \in SUBSET stuck :
          /\ FailsOn(stuck, "restore")
          /\ work' = Restored(needed, stuck, torn)
          /\ unrestored' = unrestored \cup stuck
    BY <1>19 DEF RestoreIfNeeded
  <2>3. work' \in [Files -> Content] /\ unrestored' \subseteq Files /\ faults' \in Nat
    BY <1>19, <2>1, <2>2, TextIsContent
       DEF TypeInv, TypeOK, Held, InFlight, Restored, FailsOn, Fault, NoFault, RestoreIfNeeded
  <2>4. cache' \in [Files -> Copy]
    BY <1>19 DEF TypeInv, TypeOK, Copy, Invalidate, RestoreIfNeeded
  <2>5. cur \in todo /\ "failed" \in Statuses /\ Finish(cur, "failed")
    BY <1>19 DEF TypeInv, Held, Busy, InFlight, RestoreIfNeeded, Statuses
  <2> QED BY <1>19, <2>3, <2>4, <2>5, FinishType
          DEF TypeInv, TypeOK, Places, RestoreIfNeeded
<1>20. ASSUME Stage PROVE TypeInv'
  BY <1>20, TextIsContent, TouchesFiles, FindingsAssumption
     DEF TypeInv, TypeOK, Held, Places, Busy, InFlight, Copy, Stage, Paths, GoTo, mem, history, bounds
<1>21. ASSUME Commit PROVE TypeInv'
  <2>1. cur \in todo /\ verdict \in Statuses /\ Finish(cur, verdict)
    BY <1>21 DEF TypeInv, Held, Busy, InFlight, Commit, Statuses
  <2>2. cur \in Findings /\ Paths \subseteq Files
    BY <2>1, TouchesFiles DEF TypeInv, TypeOK, Paths
  <2>3. head' \in [Files -> Copy] /\ index' \in [Files -> Copy]
    BY <1>21 DEF TypeInv, TypeOK, Copy, Commit
  <2>4. shas' \subseteq Findings /\ faults' \in Nat
    BY <1>21, <2>2 DEF TypeInv, TypeOK, Commit, Fault, NoFault
  <2> QED BY <1>21, <2>1, <2>2, <2>3, <2>4, FinishType
          DEF TypeInv, TypeOK, Places, Commit, history
<1>22. ASSUME KeepUncommitted PROVE TypeInv'
  <2>1. cur \in todo /\ verdict \in Statuses
    BY <1>22 DEF TypeInv, Held, Busy, InFlight, KeepUncommitted, Statuses
  <2>2. faults' \in Nat
    BY <1>22 DEF TypeInv, TypeOK, KeepUncommitted, Fault, NoFault
  <2>3. Finish(cur, verdict)
    BY <1>22 DEF KeepUncommitted
  <2> QED BY <1>22, <2>1, <2>2, <2>3, FinishType
          DEF TypeInv, TypeOK, Places, KeepUncommitted, disk, history
<1>23. ASSUME EndRun PROVE TypeInv'
  BY <1>23, TextIsContent, TouchesFiles, FindingsAssumption
     DEF TypeInv, TypeOK, Held, Places, Busy, InFlight, Copy, EndRun, Unbound, NoCopies, GoTo, disk, history, bounds
<1>24. ASSUME Crash PROVE TypeInv'
  <2>1. faults' \in Nat
    BY <1>24 DEF TypeInv, TypeOK, Crash, Fault
  <2>2. TypeOK'
    BY <1>24, <2>1 DEF TypeInv, TypeOK, Places, Copy, Crash, Unbound, NoCopies, GoTo,
                      disk, history
  <2>3. Held'
    BY <1>24 DEF Held, Busy, InFlight, Crash, GoTo
  <2> QED BY <2>2, <2>3 DEF TypeInv
<1>25. ASSUME NEW p \in Files, UserEdits(p) PROVE TypeInv'
  BY <1>25, TextIsContent, TouchesFiles, FindingsAssumption
     DEF TypeInv, TypeOK, Held, Places, Busy, InFlight, Copy, UserEdits, Paths, mem, Content, Marks
<1>26. ASSUME UNCHANGED vars PROVE TypeInv'
  BY <1>26, TextIsContent, TouchesFiles, FindingsAssumption
     DEF TypeInv, TypeOK, Held, Places, Busy, InFlight, Copy, vars, mem, disk, history, bounds, Paths
<1> QED
  BY <1>1, <1>2, <1>3, <1>4, <1>5, <1>6, <1>7, <1>8, <1>9, <1>10, <1>11, <1>12, <1>13, <1>14, <1>15, <1>16, <1>17, <1>18, <1>19, <1>20, <1>21, <1>22, <1>23, <1>24, <1>25, <1>26, <1>27
     DEF Next, Repair, Decide, Apply, Settle, Environment, Stopped

(* Every variable keeps its type, and the locals of a repair under way are *)
(* those its place in the loop needs (engine.py 107-307).                  *)
THEOREM TypeCorrect == Spec => []TypeOK
<1>1. Spec => []TypeInv
  BY InitTypeInv, NextTypeInv, PTL DEF Spec
<1>2. TypeInv => TypeOK
  BY DEF TypeInv
<1> QED BY <1>1, <1>2, PTL

-----------------------------------------------------------------------------
(* A file the run is answerable for, and the text its records call for.    *)
Answerable == Files \ (disturbed \cup unrestored)
Recorded(p) == Text(base[p]) \cup AppliedTo(p)

(* Where every file of the patch has been written and none taken back.     *)
Written == {"confirm", "add", "commit"}

(* TreeMatchesRecords, with what the loop holds for a patch in flight: its *)
(* originals, and the files it has written so far.                         *)
TreeInv ==
  /\ pc = "prepare" => toWrite = Paths
  /\ pc # "idle" => \A p \in Answerable :
       /\ pc \notin InFlight \/ p \notin Paths => Text(work[p]) = Recorded(p)
       /\ pc \in InFlight /\ p \in Paths => originals[p] = Recorded(p)
       /\ pc \in {"prepare", "write"} /\ p \in Paths => cache[p] = Recorded(p)
       /\ \/ pc = "write" /\ p \in Paths \ toWrite
          \/ pc \in Written /\ p \in Paths
          => Text(work[p]) = Recorded(p) \cup {cur}

(* A recorded text has no Windows line ends left to drop.                  *)
LEMMA RecordedText ==
  ASSUME TypeInv, NEW p \in Files, NEW f \in Findings
  PROVE  /\ Text(Recorded(p)) = Recorded(p)
         /\ Text(Recorded(p) \cup {f}) = Recorded(p) \cup {f}
<1>1. Crlf \notin Recorded(p) \cup {f}
  BY FindingsAssumption DEF Recorded, AppliedTo, Text
<1> QED BY <1>1 DEF Text

(* A finding that is not applied leaves every recorded text as it was.     *)
LEMMA NotApplied ==
  ASSUME TypeInv, NEW f \in todo, NEW status \in Statuses \ Applied,
         Finish(f, status), base' = base
  PROVE  \A p \in Files : Recorded(p)' = Recorded(p)
<1>1. rec' = [rec EXCEPT ![f] = status] /\ rec[f] = None /\ f \in Findings
  BY DEF TypeInv, TypeOK, Held, Finish
<1>2. None \notin Applied
  BY FindingsAssumption DEF Statuses
<1>3. \A g \in Findings : rec'[g] \in Applied <=> rec[g] \in Applied
  BY <1>1, <1>2 DEF TypeInv, TypeOK
<1> QED BY <1>3 DEF Recorded, AppliedTo

(* The invariant of a step that ends outside a patch, given the tree.      *)
LEMMA AtRestTree ==
  ASSUME pc' \notin InFlight,
         \A p \in Answerable' : Text(work'[p]) = Recorded(p)'
  PROVE  TreeInv'
BY DEF TreeInv, InFlight, Written

(* ... and when nothing the invariant reads has changed but its place.     *)
LEMMA SameTree ==
  ASSUME TreeInv, pc # "idle", UNCHANGED <<cur, rec, base, work, originals, disturbed, unrestored>>
  PROVE  /\ Answerable' = Answerable /\ Paths' = Paths
         /\ \A p \in Files : Recorded(p)' = Recorded(p)
         /\ \A p \in Answerable :
              /\ p \in Files
              /\ pc \notin InFlight \/ p \notin Paths => Text(work'[p]) = Recorded(p)'
              /\ pc \in InFlight /\ p \in Paths => originals'[p] = Recorded(p)'
<1>1. Answerable' = Answerable /\ Paths' = Paths
  BY DEF Answerable, Paths
<1>2. \A p \in Files : Recorded(p)' = Recorded(p)
  BY DEF Recorded, AppliedTo
<1> QED BY <1>1, <1>2 DEF TreeInv, Answerable

LEMMA NextTreeInv == TypeInv /\ TreeInv /\ [Next]_vars => TreeInv'
<1> SUFFICES ASSUME TypeInv, TreeInv, [Next]_vars PROVE TreeInv'
  OBVIOUS
<1>0. TypeInv'
  BY NextTypeInv
<1>1. ASSUME StartRun PROVE TreeInv'
  <2>1. \A p \in Files : AppliedTo(p)' = {}
    BY <1>1, FindingsAssumption DEF StartRun, AppliedTo, Statuses
  <2>2. \A p \in Files : work'[p] = base'[p]
    BY <1>1 DEF StartRun, disk
  <2> QED BY <1>1, <2>1, <2>2, AtRestTree DEF StartRun, GoTo, InFlight, Recorded, Answerable
<1>2. CASE RefuseDirty \/ EndRun \/ Crash
  BY <1>2 DEF RefuseDirty, EndRun, Crash, GoTo, TreeInv
<1>3. ASSUME NEW f \in Findings, PassOver(f) PROVE TreeInv'
  BY <1>3, SameTree, AtRestTree DEF PassOver, InFlight, disk, history
<1>4. ASSUME NEW f \in todo, NEW status \in Statuses \ Applied, Finish(f, status),
             pc \notin InFlight, pc # "idle",
             UNCHANGED <<work, base, disturbed, unrestored>>
      PROVE  TreeInv'
  <2>1. \A p \in Files : Recorded(p)' = Recorded(p)
    BY <1>4, NotApplied
  <2>2. \A p \in Answerable' : Text(work'[p]) = Recorded(p)
    BY <1>4 DEF TreeInv, Answerable
  <2>3. pc' \notin InFlight
    BY <1>4 DEF Finish, GoTo, InFlight
  <2> QED BY <2>1, <2>2, <2>3, AtRestTree DEF Answerable
<1>5. ASSUME NEW f \in Findings, Refuse(f) PROVE TreeInv'
  <2>1. f \in todo /\ Refusal(f) \in Statuses \ Applied /\ Finish(f, Refusal(f))
    BY <1>5, FindingsAssumption DEF Refuse, Eligible, Refusal, Statuses, Applied
  <2> QED BY <1>4, <1>5, <2>1 DEF Refuse, Eligible, InFlight, disk, history
<1>6. ASSUME NEW f \in Findings, NoPatch(f) PROVE TreeInv'
  BY <1>4, <1>6 DEF NoPatch, CallFix, Eligible, Statuses, Applied, InFlight, disk, history
<1>7. ASSUME NEW f \in Findings, ComputePatch(f) PROVE TreeInv'
  <2>1. pc = "next" /\ pc' \notin InFlight
    BY <1>7 DEF ComputePatch, CallFix, Eligible, GoTo, InFlight
  <2>2. UNCHANGED <<work, rec, base, disturbed, unrestored>>
    BY <1>7 DEF ComputePatch, CallFix, disk, history
  <2>3. \A p \in Answerable' : Text(work'[p]) = Recorded(p)'
    BY <2>1, <2>2 DEF TreeInv, InFlight, Answerable, Recorded, AppliedTo
  <2> QED BY <2>1, <2>3, AtRestTree
<1>8. CASE Approve \/ PrepareRepro \/ DecodeRaises
  BY <1>8, SameTree, AtRestTree
     DEF Approve, PrepareRepro, DecodeRaises, InFlight, GoTo, mem, disk, history
<1>9. ASSUME Decline PROVE TreeInv'
  BY <1>4, <1>9 DEF Decline, TypeInv, Held, Busy, Statuses, Applied, InFlight, disk, history
<1>10. ASSUME AbandonChanged PROVE TreeInv'
  BY <1>4, <1>10
     DEF AbandonChanged, TypeInv, Held, Busy, Statuses, Applied, InFlight, disk, history
<1>11. ASSUME CheckFiles PROVE TreeInv'
  <2>1. pc = "check" /\ pc' = "prepare" /\ Paths' = Paths
        /\ UNCHANGED <<cur, cache, rec, base, work, disturbed, unrestored>>
    BY <1>11 DEF CheckFiles, GoTo, Paths, disk, history
  <2>2. \A p \in Answerable : p \in Files /\ Text(work[p]) = Recorded(p)
    BY <2>1 DEF TreeInv, InFlight, Answerable
  <2>3. \A p \in Paths : cache[p] = Text(work[p])
    BY <1>11 DEF CheckFiles, ChangedOnDisk
  <2>4. \A p \in Files : p \in Paths => originals'[p] = Text(work[p])
    BY <1>11 DEF CheckFiles
  <2>5. \A p \in Files : Recorded(p)' = Recorded(p)
    BY <2>1 DEF Recorded, AppliedTo
  <2>6. toWrite' = Paths'
    BY <1>11, <2>1 DEF CheckFiles
  <2> QED BY <2>1, <2>2, <2>3, <2>4, <2>5, <2>6 DEF TreeInv, Answerable, Written
<1>12. ASSUME Prepare PROVE TreeInv'
  <2>1. pc = "prepare" /\ pc' \in {"write", "unwrite"} /\ Paths' = Paths
        /\ UNCHANGED <<cur, cache, originals, toWrite, rec, base, work, disturbed, unrestored>>
    BY <1>12 DEF Prepare, GoTo, Paths, history
  <2>2. Answerable' = Answerable /\ \A p \in Files : Recorded(p)' = Recorded(p)
    BY <2>1 DEF Answerable, Recorded, AppliedTo
  <2> QED BY <2>1, <2>2 DEF TreeInv, Written, InFlight, Answerable
<1>13. ASSUME NEW q \in Files, WriteFile(q) PROVE TreeInv'
  <2>1. pc = "write" /\ pc' \in {"write", "confirm"} /\ Paths' = Paths /\ cur \in Findings
        /\ UNCHANGED <<cur, originals, rec, base, disturbed, unrestored>>
    BY <1>13 DEF WriteFile, GoTo, Paths, history, TypeInv, TypeOK, Held, Busy, InFlight
  <2>2. Answerable' = Answerable /\ \A p \in Files : Recorded(p)' = Recorded(p)
    BY <2>1 DEF Answerable, Recorded, AppliedTo
  <2>3. q \in Paths /\ toWrite \subseteq Paths
    BY <1>13 DEF WriteFile, TypeInv, Held
  <2>4. /\ toWrite' = toWrite \ {q} /\ \A p \in Files \ {q} : work'[p] = work[p]
        /\ work'[q] = cache[q] \cup {cur}
        /\ pc' = "write" => cache' = cache
        /\ pc' = "confirm" => toWrite = {q}
    BY <1>13 DEF WriteFile, GoTo, TypeInv, TypeOK
  <2>5. q \in Answerable => Text(work'[q]) = Recorded(q) \cup {cur}
    BY <2>1, <2>3, <2>4, RecordedText DEF TreeInv
  <2> QED BY <2>1, <2>2, <2>3, <2>4, <2>5 DEF TreeInv, Answerable, InFlight, Written
<1>14. ASSUME NEW q \in Files, WriteFails(q) PROVE TreeInv'
  <2>1. pc = "write" /\ pc' = "unwrite" /\ Paths' = Paths /\ q \in Paths
        /\ UNCHANGED <<cur, originals, rec, base, disturbed, unrestored>>
        /\ \A p \in Files \ {q} : work'[p] = work[p]
    BY <1>14 DEF WriteFails, GoTo, Paths, mem, history, TypeInv, TypeOK, Held
  <2>2. Answerable' = Answerable /\ \A p \in Files : Recorded(p)' = Recorded(p)
    BY <2>1 DEF Answerable, Recorded, AppliedTo
  <2> QED BY <2>1, <2>2 DEF TreeInv, Answerable, InFlight, Written
<1>15. ASSUME pc \in InFlight, Finish(cur, "failed"), UNCHANGED <<base, disturbed>>,
              NEW paths \in SUBSET Paths, NEW stuck \in SUBSET paths, NEW torn \in SUBSET stuck,
              \A p \in Paths \ paths : Text(work[p]) = originals[p],
              work' = Restored(paths, stuck, torn), unrestored' = unrestored \cup stuck
       PROVE  TreeInv'
  <2>1. cur \in todo /\ "failed" \in Statuses \ Applied
    BY <1>15 DEF TypeInv, Held, Busy, Statuses, Applied
  <2>2. \A p \in Files : Recorded(p)' = Recorded(p)
    BY <1>15, <2>1, NotApplied
  <2>3. cur \in Findings /\ Answerable' \subseteq Answerable \ stuck /\ pc' \notin InFlight
    BY <1>15, <2>1 DEF TypeInv, TypeOK, Answerable, Finish, GoTo, InFlight
  <2>4. ASSUME NEW p \in Answerable' PROVE Text(work'[p]) = Recorded(p)
    <3>1. p \in Files /\ p \in Answerable /\ p \notin stuck /\ p \notin torn
      BY <2>3 DEF Answerable
    <3>2. work'[p] = IF p \in paths THEN originals[p] ELSE work[p]
      BY <1>15, <3>1 DEF Restored
    <3>3. /\ p \in Paths => originals[p] = Recorded(p)
          /\ p \notin Paths => Text(work[p]) = Recorded(p)
      BY <1>15, <3>1 DEF TreeInv, InFlight
    <3> QED BY <1>15, <2>3, <3>1, <3>2, <3>3, RecordedText
  <2>5. \A p \in Answerable' : Text(work'[p]) = Recorded(p)'
    BY <2>2, <2>4 DEF Answerable
  <2> QED BY <2>3, <2>5, AtRestTree
<1>16. ASSUME RestoreAfterFailedWrite PROVE TreeInv'
  <2>1. PICK stuck \in SUBSET Paths, torn \in SUBSET Paths :
          torn \subseteq stuck /\ work' = Restored(Paths, stuck, torn) /\ unrestored' = unrestored \cup stuck
    BY <1>16 DEF RestoreAfterFailedWrite
  <2>2. pc \in InFlight /\ Finish(cur, "failed") /\ UNCHANGED <<base, disturbed>>
    BY <1>16 DEF RestoreAfterFailedWrite, InFlight
  <2> QED BY <1>15, <2>1, <2>2
<1>17. ASSUME RestoreIfNeeded PROVE TreeInv'
  <2> DEFINE needed == {p \in Paths : Text(work[p]) # originals[p]}
  <2>1. PICK stuck \in SUBSET needed, torn \in SUBSET needed :
          torn \subseteq stuck /\ work' = Restored(needed, stuck, torn) /\ unrestored' = unrestored \cup stuck
    BY <1>17 DEF RestoreIfNeeded
  <2>2. pc \in InFlight /\ Finish(cur, "failed") /\ UNCHANGED <<base, disturbed>>
    BY <1>17 DEF RestoreIfNeeded, InFlight
  <2>3. \A p \in Paths \ needed : Text(work[p]) = originals[p]
    OBVIOUS
  <2> HIDE DEF needed
  <2>4. needed \in SUBSET Paths
    BY DEF needed
  <2> QED BY <1>15, <2>1, <2>2, <2>3, <2>4
<1>18. ASSUME Confirm PROVE TreeInv'
  <2>1. pc = "confirm" /\ pc' \in {"rollback", "add"} /\ Paths' = Paths
        /\ UNCHANGED <<cur, originals, rec, base, work, disturbed, unrestored>>
    BY <1>18 DEF Confirm, GoTo, Paths, disk
  <2>2. Answerable' = Answerable /\ \A p \in Files : Recorded(p)' = Recorded(p)
    BY <2>1 DEF Answerable, Recorded, AppliedTo
  <2> QED BY <2>1, <2>2 DEF TreeInv, Answerable, InFlight, Written
<1>19. ASSUME RollBack PROVE TreeInv'
  <2>1. pc = "rollback" /\ pc' = "restore" /\ Paths' = Paths
        /\ UNCHANGED <<cur, originals, rec, base, disturbed, unrestored>>
    BY <1>19 DEF RollBack, GoTo, Paths, history
  <2>2. \A p \in Files \ Paths : work'[p] = work[p]
    BY <1>19 DEF RollBack
  <2>3. Answerable' = Answerable /\ \A p \in Files : Recorded(p)' = Recorded(p)
    BY <2>1 DEF Answerable, Recorded, AppliedTo
  <2> QED BY <2>1, <2>2, <2>3 DEF TreeInv, Answerable, InFlight, Written
<1>24. ASSUME RollBackRaises PROVE TreeInv'
  <2>1. pc = "rollback" /\ pc' \notin InFlight /\ UNCHANGED <<rec, base, disturbed>>
        /\ unrestored' = unrestored \cup {p \in Paths : Text(work'[p]) # originals[p]}
    BY <1>24 DEF RollBackRaises, GoTo, InFlight, mem
  <2>2. \A p \in Files \ Paths : work'[p] = work[p]
    BY <1>24 DEF RollBackRaises
  <2>3. \A p \in Files : Recorded(p)' = Recorded(p)
    BY <2>1 DEF Recorded, AppliedTo
  <2>4. ASSUME NEW p \in Answerable' PROVE Text(work'[p]) = Recorded(p)
    <3>1. p \in Files /\ p \in Answerable /\ (p \in Paths => Text(work'[p]) = originals[p])
      BY <2>1 DEF Answerable
    <3> QED BY <2>1, <2>2, <3>1 DEF TreeInv, InFlight
  <2> QED BY <2>1, <2>3, <2>4, AtRestTree DEF Answerable
<1>20. ASSUME Stage PROVE TreeInv'
  <2>1. pc = "add" /\ pc' = "commit" /\ Paths' = Paths
        /\ UNCHANGED <<cur, originals, rec, base, work, disturbed, unrestored>>
    BY <1>20 DEF Stage, GoTo, Paths, mem, history
  <2>2. Answerable' = Answerable /\ \A p \in Files : Recorded(p)' = Recorded(p)
    BY <2>1 DEF Answerable, Recorded, AppliedTo
  <2> QED BY <2>1, <2>2 DEF TreeInv, Answerable, InFlight, Written
<1>21. ASSUME Commit \/ KeepUncommitted PROVE TreeInv'
  <2>1. pc \in {"add", "commit"} /\ Finish(cur, verdict)
        /\ UNCHANGED <<base, work, disturbed, unrestored>>
    BY <1>21 DEF Commit, KeepUncommitted, disk, history
  <2>2. cur \in Findings /\ verdict \in Applied
    BY <2>1 DEF TypeInv, TypeOK, Held, Busy, InFlight
  <2>3. \A p \in Files : Recorded(p)' = Recorded(p) \cup (IF p \in Paths THEN {cur} ELSE {})
    BY <2>1, <2>2 DEF Finish, Recorded, AppliedTo, Paths, TypeInv, TypeOK
  <2>4. Answerable' = Answerable /\ pc' \notin InFlight
    BY <2>1 DEF Answerable, Finish, GoTo, InFlight
  <2>5. \A p \in Answerable' : Text(work'[p]) = Recorded(p)'
    BY <2>1, <2>3, <2>4 DEF TreeInv, Answerable, InFlight, Written
  <2> QED BY <2>4, <2>5, AtRestTree
<1>22. ASSUME NEW q \in Files, UserEdits(q) PROVE TreeInv'
  <2>1. pc' = pc /\ Paths' = Paths /\ disturbed' = disturbed \cup {q}
        /\ UNCHANGED <<cur, toWrite, cache, originals, rec, base, unrestored>>
        /\ \A p \in Files \ {q} : work'[p] = work[p]
    BY <1>22 DEF UserEdits, Paths, mem, TypeInv, TypeOK
  <2>2. Answerable' = Answerable \ {q} /\ \A p \in Files : Recorded(p)' = Recorded(p)
    BY <2>1 DEF Answerable, Recorded, AppliedTo
  <2> QED BY <2>1, <2>2 DEF TreeInv, Answerable
<1>23. CASE UNCHANGED vars
  <2>1. Answerable' = Answerable /\ Paths' = Paths /\ \A p \in Files : Recorded(p)' = Recorded(p)
    BY <1>23 DEF vars, mem, history, Answerable, Paths, Recorded, AppliedTo
  <2> QED BY <1>23, <2>1 DEF vars, mem, disk, history, TreeInv, Answerable
<1> QED
  BY <1>1, <1>2, <1>3, <1>5, <1>6, <1>7, <1>8, <1>9, <1>10, <1>11, <1>12, <1>13, <1>14,
     <1>16, <1>17, <1>18, <1>19, <1>20, <1>21, <1>22, <1>23, <1>24
     DEF Next, Repair, Decide, Apply, Settle, Environment, Stopped

(* For any findings, files, faults, crashes and saves, the working tree    *)
(* between two repairs is the tree of the start plus the applied patches,  *)
(* but for files somebody else saved and those of a patch the program could*)
(* not take back, by a restore that fails or a rollback that raises.       *)
THEOREM TreeCorrect == Spec => []TreeMatchesRecords
<1>1. Init => TreeInv
  BY DEF Init, TreeInv
<1>2. Spec => [](TypeInv /\ TreeInv)
  BY <1>1, InitTypeInv, NextTypeInv, NextTreeInv, PTL DEF Spec
<1>3. TypeInv /\ TreeInv => TreeMatchesRecords
  BY DEF TreeInv, TreeMatchesRecords, AtRest, InFlight, Answerable, Recorded
<1> QED BY <1>2, <1>3, PTL

-----------------------------------------------------------------------------
(* Termination.  How far a finding is from its record: each place lies     *)
(* below the ones that lead to it, and at `write` every file still to be   *)
(* written counts.                                                         *)
Below ==
  [p \in Places |->
     CASE p = "idle" -> 0
       [] p \in {"raised", "commit", "restore", "unwrite"} -> 1
       [] p \in {"add", "rollback"} -> 2
       [] p \in {"confirm", "write"} -> 3
       [] p = "prepare" -> 4
       [] p = "check" -> 5
       [] p = "repro" -> 6
       [] p = "ask" -> 7
       [] p = "next" -> 8]
Unwritten ==
  IF pc \in {"next", "ask", "repro", "check"} THEN Cardinality(Files)
  ELSE IF pc \in {"prepare", "write"} THEN Cardinality(toWrite) ELSE 0
Ahead == Below[pc] + Unwritten

(* A finding is decided, or its repair comes nearer to its record.         *)
Advances ==
  \/ todo' \subseteq todo /\ todo' # todo
  \/ todo' = todo /\ Ahead' < Ahead

LEMMA UnwrittenBound ==
  ASSUME IsFiniteSet(Files), NEW S \in SUBSET Files
  PROVE  /\ IsFiniteSet(S) /\ Cardinality(S) \in Nat /\ Cardinality(Files) \in Nat
         /\ Cardinality(S) <= Cardinality(Files)
BY FS_Subset, FS_CardinalityType

LEMMA AheadIsNat == IsFiniteSet(Files) /\ TypeInv => Ahead \in Nat
<1> SUFFICES ASSUME IsFiniteSet(Files), TypeInv PROVE Ahead \in Nat
  OBVIOUS
<1>1. Unwritten \in Nat
  BY UnwrittenBound DEF Unwritten, TypeInv, TypeOK
<1>2. Below[pc] \in Nat
  BY DEF Below, TypeInv, TypeOK, Places, InFlight
<1> QED BY <1>1, <1>2 DEF Ahead

(* Deciding a finding takes it off the list.                               *)
LEMMA FinishAdvances ==
  ASSUME NEW f \in todo, NEW status, Finish(f, status)
  PROVE  Advances
BY DEF Finish, Advances

LEMMA RepairAdvances ==
  ASSUME IsFiniteSet(Files), TypeInv, Repair
  PROVE  Advances
<1> DEFINE n == Cardinality(Files)
<1>0. n \in Nat /\ pc \in Places
  BY UnwrittenBound DEF TypeInv, TypeOK
<1>1. ASSUME NEW f \in Findings, PassOver(f) PROVE Advances
  BY <1>1 DEF PassOver, Advances
<1>2. ASSUME NEW f \in Findings, Refuse(f) \/ NoPatch(f) PROVE Advances
  BY <1>2, FinishAdvances DEF Refuse, NoPatch, CallFix, Eligible
<1>3. ASSUME NEW f \in Findings, ComputePatch(f) PROVE Advances
  <2>1. pc = "next" /\ pc' \in {"ask", "repro"} /\ todo' = todo
    BY <1>3 DEF ComputePatch, CallFix, Eligible, GoTo
  <2>2. Ahead = 8 + n /\ Ahead' < 8 + n
    BY <1>0, <2>1 DEF Ahead, Below, Unwritten, Places
  <2> QED BY <2>1, <2>2 DEF Advances
<1>4. CASE Approve \/ PrepareRepro
  <2>1. todo' = todo /\ \/ pc = "ask" /\ pc' = "repro"
                        \/ pc = "repro" /\ pc' = "check"
    BY <1>4 DEF Approve, PrepareRepro, GoTo, mem
  <2>2. Ahead' < Ahead
    BY <1>0, <2>1 DEF Ahead, Below, Unwritten, Places
  <2> QED BY <2>1, <2>2 DEF Advances
<1>5. CASE Decline \/ AbandonChanged \/ RestoreAfterFailedWrite \/ RestoreIfNeeded
           \/ Commit \/ KeepUncommitted
  <2>1. \E status : Finish(cur, status)
    BY <1>5 DEF Decline, AbandonChanged, RestoreAfterFailedWrite, RestoreIfNeeded, Commit, KeepUncommitted
  <2>2. pc \in Busy
    BY <1>5 DEF Decline, AbandonChanged, RestoreAfterFailedWrite, RestoreIfNeeded, Commit,
                KeepUncommitted, Busy, InFlight
  <2> QED BY <2>1, <2>2, FinishAdvances DEF TypeInv, Held
<1>6. CASE CheckFiles
  <2>1. pc = "check" /\ pc' = "prepare" /\ todo' = todo /\ toWrite' = Paths
    BY <1>6 DEF CheckFiles, GoTo
  <2>2. Paths \subseteq Files
    BY <2>1, TouchesFiles DEF Paths, TypeInv, TypeOK, Held, Busy
  <2>3. Cardinality(Paths) \in Nat /\ Cardinality(Paths) <= n
    BY <2>2, UnwrittenBound
  <2>4. Ahead = 5 + n /\ Ahead' = 4 + Cardinality(Paths)
    BY <2>1 DEF Ahead, Below, Unwritten, Places, InFlight
  <2> QED BY <1>0, <2>1, <2>3, <2>4 DEF Advances
<1>13. CASE RollBackRaises
  <2>1. pc = "rollback" /\ pc' = "raised" /\ todo' = todo
    BY <1>13 DEF RollBackRaises, GoTo, mem
  <2>2. Ahead = 2 /\ Ahead' = 1
    BY <2>1 DEF Ahead, Below, Unwritten, Places, InFlight
  <2> QED BY <2>1, <2>2 DEF Advances
<1>7. CASE DecodeRaises
  <2>1. pc = "check" /\ pc' = "raised" /\ todo' = todo
    BY <1>7 DEF DecodeRaises, GoTo, mem
  <2>2. Ahead = 5 + n /\ Ahead' = 1
    BY <2>1 DEF Ahead, Below, Unwritten, Places, InFlight
  <2> QED BY <1>0, <2>1, <2>2 DEF Advances
<1>8. CASE Prepare
  <2>1. pc = "prepare" /\ pc' \in {"write", "unwrite"} /\ UNCHANGED <<todo, toWrite>>
    BY <1>8 DEF Prepare, GoTo
  <2>2. Cardinality(toWrite) \in Nat
    BY UnwrittenBound DEF TypeInv, TypeOK
  <2>3. Ahead = 4 + Cardinality(toWrite) /\ Ahead' < Ahead
    BY <2>1, <2>2 DEF Ahead, Below, Unwritten, Places, InFlight
  <2> QED BY <2>1, <2>3 DEF Advances
<1>9. ASSUME NEW q \in Files, WriteFile(q) PROVE Advances
  <2>1. pc = "write" /\ pc' \in {"write", "confirm"} /\ q \in toWrite /\ toWrite' = toWrite \ {q}
        /\ todo' = todo
    BY <1>9 DEF WriteFile, GoTo
  <2>2. IsFiniteSet(toWrite) /\ Cardinality(toWrite) \in Nat
    BY UnwrittenBound DEF TypeInv, TypeOK
  <2>3. Cardinality(toWrite') = Cardinality(toWrite) - 1 /\ Cardinality(toWrite) # 0
    BY <2>1, <2>2, FS_RemoveElement, FS_EmptySet
  <2>4. Ahead = 3 + Cardinality(toWrite) /\ Ahead' \in {3, 3 + Cardinality(toWrite')}
    BY <2>1 DEF Ahead, Below, Unwritten, Places, InFlight
  <2> QED BY <2>1, <2>2, <2>3, <2>4 DEF Advances
<1>10. ASSUME NEW q \in Files, WriteFails(q) PROVE Advances
  <2>1. pc = "write" /\ pc' = "unwrite" /\ todo' = todo
    BY <1>10 DEF WriteFails, GoTo, mem
  <2>2. Cardinality(toWrite) \in Nat
    BY UnwrittenBound DEF TypeInv, TypeOK
  <2>3. Ahead = 3 + Cardinality(toWrite) /\ Ahead' = 1
    BY <2>1 DEF Ahead, Below, Unwritten, Places, InFlight
  <2> QED BY <2>1, <2>2, <2>3 DEF Advances
<1>11. CASE Confirm \/ RollBack \/ Stage
  <2>1. todo' = todo /\ \/ pc = "confirm" /\ pc' \in {"rollback", "add"}
                        \/ pc = "rollback" /\ pc' = "restore"
                        \/ pc = "add" /\ pc' = "commit"
    BY <1>11 DEF Confirm, RollBack, Stage, GoTo, mem
  <2>2. Ahead' < Ahead
    BY <2>1 DEF Ahead, Below, Unwritten, Places, InFlight
  <2> QED BY <2>1, <2>2 DEF Advances
<1>12. CASE EndRun
  <2>1. pc \in {"raised", "next"} /\ pc' = "idle" /\ todo' = todo
    BY <1>12 DEF EndRun, GoTo
  <2>2. Ahead' < Ahead
    BY <1>0, <2>1 DEF Ahead, Below, Unwritten, Places
  <2> QED BY <2>1, <2>2 DEF Advances
<1> QED
  BY <1>1, <1>2, <1>3, <1>4, <1>5, <1>6, <1>7, <1>8, <1>9, <1>10, <1>11, <1>12, <1>13
     DEF Repair, Decide, Apply, Settle

(* No run of repair() goes round in circles, whatever fails in it and      *)
(* whatever is saved meanwhile: each step decides a finding for good or    *)
(* brings the one at hand nearer to its record, by a natural number that   *)
(* nobody's save puts back (engine.py 107-307).                            *)
THEOREM RunAdvances ==
  ASSUME IsFiniteSet(Files)
  PROVE  Spec => /\ [](Ahead \in Nat)
                 /\ [][/\ Repair => Advances
                       /\ (\E p \in Files : UserEdits(p)) => UNCHANGED <<todo, Ahead>>]_vars
<1>1. Spec => []TypeInv
  BY InitTypeInv, NextTypeInv, PTL DEF Spec
<1>2. TypeInv => Ahead \in Nat
  BY AheadIsNat
<1>3. (\E p \in Files : UserEdits(p)) => UNCHANGED <<todo, Ahead>>
  BY DEF UserEdits, mem, Ahead, Unwritten
<1>4. TypeInv /\ [Next]_vars
        => [/\ Repair => Advances
            /\ (\E p \in Files : UserEdits(p)) => UNCHANGED <<todo, Ahead>>]_vars
  BY <1>3, RepairAdvances
<1> QED BY <1>1, <1>2, <1>4, PTL DEF Spec
===============================================================================
