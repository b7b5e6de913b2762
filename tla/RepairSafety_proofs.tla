-------------------------- MODULE RepairSafety_proofs --------------------------
(***************************************************************************)
(* The other safety invariants of the repair loop, for every set of        *)
(* findings and files and any number of failing calls, saves, crashes and  *)
(* runs.  Each rests on an inductive invariant of its own, and where that  *)
(* needs it on TypeInv or TreeInv of RepairLoop_proofs.                    *)
(***************************************************************************)
EXTENDS RepairLoop_proofs

(* Reading in text mode drops line ends and nothing else.                  *)
LEMMA TextDropsLineEnds ==
  ASSUME NEW c
  PROVE  Text(c) \subseteq c /\ Text(Text(c)) = Text(c) /\ c \ Text(c) \subseteq {Crlf}
BY DEF Text

(* What every early return and every record leaves in the locals.          *)
LEMMA FinishLeaves ==
  ASSUME NEW f, NEW status, Finish(f, status)
  PROVE  /\ pc' = "next" /\ pc' \notin InFlight /\ pc' \notin Busy /\ pc' # "idle"
         /\ todo' = todo \ {f} /\ cur' = None /\ originals' = NoCopies
         /\ rec' = [rec EXCEPT ![f] = status]
BY DEF Finish, GoTo, Unbound, InFlight, Busy

-----------------------------------------------------------------------------
(* Every copy of a file that can reach the tree again holds permitted      *)
(* patches only, and so does the finding under repair.                     *)
Permitted(copy) ==
  \A p \in Files : copy[p] # Absent => \A f \in Findings \cap copy[p] : MayRepair(f)

RefusedInv ==
  /\ Permitted(work) /\ Permitted(index) /\ Permitted(head) /\ Permitted(orig)
  /\ Permitted(cache) /\ Permitted(originals)
  /\ pc \in Busy => MayRepair(cur)

LEMMA InitRefusedInv == Init => RefusedInv
<1> SUFFICES ASSUME Init PROVE RefusedInv
  OBVIOUS
<1>1. \A p \in Files : Findings \cap Initial[p] = {}
  BY FilesAssumption, FindingsAssumption
<1>2. Permitted(work) /\ Permitted(head) /\ Permitted(index)
  BY <1>1 DEF Init, Permitted
<1>3. Permitted(orig) /\ Permitted(cache) /\ Permitted(originals)
  BY DEF Init, Permitted, NoCopies
<1> QED BY <1>2, <1>3 DEF Init, RefusedInv, Busy, InFlight

(* The refusals before rule.fix leave only what may be repaired.           *)
LEMMA RefusalsDecide ==
  ASSUME NEW f \in Findings, Eligible(f), Refusal(f) = None
  PROVE  MayRepair(f)
<1>1. f \notin Suppressed /\ Class[f] \in {"safe", "review", "manual"}
  BY FindingsAssumption DEF Eligible, Classes
<1>2. None \notin {"requires_review", "not_attempted"}
  BY FindingsAssumption DEF Statuses
<1> QED BY <1>1, <1>2, ModeAssumption DEF Refusal, MayRepair

(* A step that leaves the tree, the index, the tip and the backups alone.  *)
LEMMA RefusedSameDisk ==
  ASSUME RefusedInv, UNCHANGED disk, Permitted(cache'), Permitted(originals'),
         pc' \in Busy => MayRepair(cur')
  PROVE  RefusedInv'
BY DEF RefusedInv, disk, Permitted

LEMMA NextRefusedInv == TypeInv /\ RefusedInv /\ [Next]_vars => RefusedInv'
<1> SUFFICES ASSUME TypeInv, RefusedInv, [Next]_vars PROVE RefusedInv'
  OBVIOUS
<1>0. Permitted(NoCopies)
  BY DEF Permitted, NoCopies
<1>1. ASSUME StartRun PROVE RefusedInv'
  <2>1. Permitted(cache')
    BY <1>1, TextDropsLineEnds, TextIsContent
       DEF StartRun, RefusedInv, Permitted, TypeInv, TypeOK, Copy
  <2> QED BY <1>0, <1>1, <2>1, RefusedSameDisk DEF StartRun, Unbound, GoTo, Busy, InFlight
<1>2. ASSUME RefuseDirty PROVE RefusedInv'
  <2>1. Permitted(work')
    BY <1>2 DEF RefuseDirty, RefusedInv, Permitted, TypeInv, TypeOK
  <2> QED BY <1>2, <2>1 DEF RefuseDirty, RefusedInv, mem, Permitted, Busy, InFlight
<1>3. ASSUME NEW f \in Findings, PassOver(f) PROVE RefusedInv'
  BY <1>3, RefusedSameDisk DEF PassOver, RefusedInv, Permitted
<1>4. ASSUME NEW f, NEW status, Finish(f, status), UNCHANGED disk, Permitted(cache')
      PROVE  RefusedInv'
  BY <1>0, <1>4, FinishLeaves, RefusedSameDisk
<1>5. ASSUME NEW f \in Findings, Refuse(f) PROVE RefusedInv'
  BY <1>4, <1>5 DEF Refuse, RefusedInv, Permitted
<1>6. ASSUME NEW f \in Findings, CallFix(f) PROVE Permitted(cache') /\ MayRepair(f)
  <2>1. MayRepair(f)
    BY <1>6, RefusalsDecide DEF CallFix
  <2>2. \A p \in Files : work[p] # Absent /\ Text(work[p]) \subseteq work[p]
    BY TextIsContent DEF TypeInv, TypeOK, Text
  <2>3. ASSUME NEW p \in Files, cache'[p] # Absent, NEW g \in Findings \cap cache'[p]
        PROVE  MayRepair(g)
    <3>1. cache'[p] = cache[p] \/ cache'[p] = Text(work[p])
      BY <1>6 DEF CallFix, Seen
    <3> QED BY <2>2, <2>3, <3>1 DEF RefusedInv, Permitted
  <2> QED BY <2>1, <2>3 DEF Permitted
<1>7. ASSUME NEW f \in Findings, ComputePatch(f) PROVE RefusedInv'
  BY <1>6, <1>7, RefusedSameDisk DEF ComputePatch, CallFix, RefusedInv, Permitted
<1>8. ASSUME NEW f \in Findings, NoPatch(f) PROVE RefusedInv'
  BY <1>4, <1>6, <1>8 DEF NoPatch, CallFix
<1>9. CASE Approve \/ PrepareRepro \/ DecodeRaises
  BY <1>9, RefusedSameDisk
     DEF Approve, PrepareRepro, DecodeRaises, mem, GoTo, Busy, InFlight, RefusedInv, Permitted
<1>10. CASE Decline \/ AbandonChanged \/ KeepUncommitted
  BY <1>4, <1>10 DEF Decline, AbandonChanged, KeepUncommitted, RefusedInv, Permitted
<1>11. ASSUME CheckFiles PROVE RefusedInv'
  <2>1. Permitted(originals')
    BY <1>11, TextIsContent DEF CheckFiles, Text, RefusedInv, Permitted, TypeInv, TypeOK
  <2> QED BY <1>11, <2>1, RefusedSameDisk
          DEF CheckFiles, GoTo, Busy, InFlight, RefusedInv, Permitted
<1>12. ASSUME Prepare PROVE RefusedInv'
  <2>1. Permitted(orig')
    BY <1>12 DEF Prepare, RefusedInv, Permitted, TypeInv, TypeOK
  <2> QED BY <1>12, <2>1 DEF Prepare, GoTo, Busy, InFlight, RefusedInv, Permitted
<1>13. ASSUME NEW p \in Files, WriteFile(p) PROVE RefusedInv'
  <2>1. pc = "write" /\ MayRepair(cur) /\ cur \in Findings
    BY <1>13 DEF WriteFile, RefusedInv, Busy, InFlight, TypeInv, TypeOK, Held
  <2>2. cache[p] # Absent
    BY <1>13, <2>1, TextIsContent DEF WriteFile, TypeInv, Held
  <2>3. Permitted(work')
    BY <1>13, <2>1, <2>2 DEF WriteFile, RefusedInv, Permitted, TypeInv, TypeOK
  <2>4. Permitted(cache') /\ cur' = cur
    BY <1>13 DEF WriteFile, Invalidate, RefusedInv, Permitted
  <2> QED BY <1>13, <2>1, <2>3, <2>4 DEF WriteFile, RefusedInv, Permitted
<1>14. ASSUME NEW p \in Files, WriteFails(p) PROVE RefusedInv'
  <2>1. Permitted(work')
    BY <1>14, FindingsAssumption DEF WriteFails, RefusedInv, Permitted, TypeInv, TypeOK
  <2> QED BY <1>14, <2>1 DEF WriteFails, mem, GoTo, Busy, InFlight, RefusedInv, Permitted
<1>15. ASSUME NEW f, NEW paths \in SUBSET Paths, NEW stuck, NEW torn,
              work' = Restored(paths, stuck, torn), Finish(f, "failed"),
              Permitted(cache'), UNCHANGED <<index, head, orig>>, pc \in InFlight
       PROVE  RefusedInv'
  <2>1. \A p \in paths : originals[p] # Absent
    BY <1>15, TextIsContent DEF TypeInv, Held
  <2>2. Permitted(work')
    BY <1>15, <2>1, FindingsAssumption DEF Restored, RefusedInv, Permitted, TypeInv, TypeOK
  <2> QED BY <1>0, <1>15, <2>2, FinishLeaves DEF RefusedInv, Permitted
<1>16. ASSUME RestoreAfterFailedWrite PROVE RefusedInv'
  BY <1>15, <1>16 DEF RestoreAfterFailedWrite, InFlight, RefusedInv, Permitted
<1>17. ASSUME RestoreIfNeeded PROVE RefusedInv'
  <2> DEFINE needed == {p \in Paths : Text(work[p]) # originals[p]}
  <2>1. PICK stuck \in SUBSET needed, torn \in SUBSET needed : work' = Restored(needed, stuck, torn)
    BY <1>17 DEF RestoreIfNeeded
  <2>2. needed \in SUBSET Paths
    OBVIOUS
  <2>3. Permitted(cache')
    BY <1>17 DEF RestoreIfNeeded, Invalidate, RefusedInv, Permitted
  <2>4. Finish(cur, "failed") /\ pc \in InFlight /\ UNCHANGED <<index, head, orig>>
    BY <1>17 DEF RestoreIfNeeded, InFlight
  <2> HIDE DEF needed
  <2> QED BY <1>15, <2>1, <2>2, <2>3, <2>4
<1>18. ASSUME Confirm PROVE RefusedInv'
  <2>1. pc \in Busy /\ UNCHANGED <<cur, disk, cache, originals>>
    BY <1>18 DEF Confirm, Busy, InFlight
  <2> QED BY <2>1, RefusedSameDisk DEF RefusedInv, Permitted
<1>25. ASSUME RollBackRaises PROVE RefusedInv'
  <2>1. Permitted(work')
    BY <1>25 DEF RollBackRaises, RefusedInv, Permitted, TypeInv, TypeOK
  <2> QED BY <1>25, <2>1 DEF RollBackRaises, mem, GoTo, Busy, InFlight, RefusedInv, Permitted
<1>19. ASSUME RollBack PROVE RefusedInv'
  <2>1. Permitted(IF BackupMode THEN orig ELSE index)
    BY DEF RefusedInv
  <2>2. Permitted(work') /\ Permitted(orig')
    BY <1>19, <2>1 DEF RollBack, RefusedInv, Permitted, TypeInv, TypeOK
  <2> QED BY <1>19, <2>2 DEF RollBack, GoTo, Busy, InFlight, RefusedInv, Permitted
<1>20. ASSUME Stage PROVE RefusedInv'
  <2>1. Permitted(index')
    BY <1>20 DEF Stage, RefusedInv, Permitted, TypeInv, TypeOK
  <2> QED BY <1>20, <2>1 DEF Stage, mem, GoTo, Busy, InFlight, RefusedInv, Permitted
<1>21. ASSUME Commit PROVE RefusedInv'
  <2>1. Permitted(index') /\ Permitted(head')
    BY <1>21 DEF Commit, RefusedInv, Permitted
  <2> QED BY <1>0, <1>21, <2>1, FinishLeaves DEF Commit, RefusedInv, Permitted
<1>22. CASE EndRun \/ Crash
  BY <1>0, <1>22, RefusedSameDisk DEF EndRun, Crash, Unbound, GoTo, Busy, InFlight
<1>23. ASSUME NEW p \in Files, UserEdits(p) PROVE RefusedInv'
  <2>1. Permitted(work')
    BY <1>23, FindingsAssumption, TextIsContent DEF UserEdits, RefusedInv, Permitted, TypeInv, TypeOK
  <2> QED BY <1>23, <2>1 DEF UserEdits, mem, RefusedInv, Permitted
<1>24. CASE UNCHANGED vars
  BY <1>24 DEF vars, mem, disk, RefusedInv, Permitted
<1> QED
  BY <1>1, <1>2, <1>3, <1>5, <1>7, <1>8, <1>9, <1>10, <1>11, <1>12, <1>13, <1>14, <1>16,
     <1>17, <1>18, <1>19, <1>20, <1>21, <1>22, <1>23, <1>24, <1>25
     DEF Next, Repair, Decide, Apply, Settle, Environment, Stopped

(* The patch of a finding that must not be repaired in this mode is in no  *)
(* copy of any file, the tree, the index, the branch and the backups, after*)
(* any failures, crashes and runs (engine.py 115-155).                     *)
THEOREM RefusedCorrect == Spec => []RefusedUntouched
<1>1. Spec => [](TypeInv /\ RefusedInv)
  BY InitTypeInv, NextTypeInv, InitRefusedInv, NextRefusedInv, PTL DEF Spec
<1>2. TypeInv /\ RefusedInv => RefusedUntouched
  BY DEF RefusedInv, Permitted, RefusedUntouched
<1> QED BY <1>1, <1>2, PTL

-----------------------------------------------------------------------------
(* In a repository every tracked file is at the tip and in the index.      *)
TrackedInv ==
  ~BackupMode => \A p \in Files \ Untracked : head[p] # Absent /\ index[p] # Absent

LEMMA InitTrackedInv == Init => TrackedInv
<1> SUFFICES ASSUME Init, ~BackupMode, NEW p \in Files \ Untracked
             PROVE  head[p] # Absent /\ index[p] # Absent
  BY DEF TrackedInv
<1>1. Initial[p] \in Content
  BY FilesAssumption, TextIsContent DEF Content, Marks
<1> QED BY <1>1, TextIsContent DEF Init

LEMMA NextTrackedInv == TypeInv /\ TrackedInv /\ [Next]_vars => TrackedInv'
<1> SUFFICES ASSUME TypeInv, TrackedInv, [Next]_vars PROVE TrackedInv'
  OBVIOUS
<1>1. CASE RefuseDirty
  BY <1>1 DEF RefuseDirty, TrackedInv
<1>2. CASE Stage \/ Commit
  BY <1>2, TextIsContent DEF Stage, Commit, TrackedInv, TypeInv, TypeOK
<1>3. ASSUME UNCHANGED <<index, head>> PROVE TrackedInv'
  BY <1>3 DEF TrackedInv
<1>4. \/ RefuseDirty \/ Stage \/ Commit
      \/ UNCHANGED <<index, head>>
  BY DEF Next, Repair, Decide, Apply, Settle, Environment, Stopped, vars, disk,
         StartRun, PassOver, Refuse, ComputePatch, NoPatch, CallFix, Approve, Decline,
         PrepareRepro, CheckFiles, AbandonChanged, DecodeRaises, Prepare, WriteFile,
         WriteFails, RestoreAfterFailedWrite, Confirm, RollBack, RollBackRaises,
         RestoreIfNeeded, KeepUncommitted, EndRun, Crash, UserEdits
<1> QED BY <1>1, <1>2, <1>3, <1>4

-----------------------------------------------------------------------------
(* A finding still to be decided is in no copy from which a patch to it    *)
(* could be taken back, unless it was there when the run began.  Of a file *)
(* with changes that the run did not see the index may say less.           *)
InBase(copy, p, f) == copy[p] # Absent /\ f \in copy[p] => f \in base[p]

(* Where the patch of the current finding may be in the tree.              *)
OnTrial == InFlight \ {"prepare"}

Hidden == IF BackupMode THEN {} ELSE blind

RecoverInv ==
  /\ pc \in {"write", "confirm", "rollback"} /\ BackupMode => Paths \subseteq backedUp
  /\ \A p \in backedUp : orig[p] # Absent
  /\ pc \notin {"idle", "raised"} => \A f \in todo : \A p \in Files \ Hidden :
       /\ InBase(cache, p, f)
       /\ InBase(originals, p, f)
       /\ p \in backedUp => InBase(orig, p, f)
       /\ f # cur \/ pc \notin OnTrial => InBase(work, p, f)
       /\ ~BackupMode /\ (f # cur \/ pc # "commit") => InBase(index, p, f)

(* A step outside a patch that leaves the files and their copies alone.    *)
LEMMA RecoverSameFiles ==
  ASSUME RecoverInv, UNCHANGED <<base, blind, work, index, orig, backedUp>>, pc \notin {"idle", "raised"},
         todo' \subseteq todo, pc \notin OnTrial \/ cur \notin todo', pc' \notin OnTrial,
         \A f \in todo' : \A p \in Files \ Hidden : InBase(cache, p, f)' /\ InBase(originals, p, f)'
  PROVE  RecoverInv'
<1>1. pc' \notin {"write", "confirm", "rollback", "commit"}
  BY DEF OnTrial, InFlight
<1>2. \A f \in todo' : pc # "commit" \/ f # cur
  BY DEF OnTrial, InFlight
<1> QED BY <1>1, <1>2 DEF RecoverInv, Hidden, InBase

LEMMA NextRecoverInv == TypeInv /\ RecoverInv /\ [Next]_vars => RecoverInv'
<1> SUFFICES ASSUME TypeInv, RecoverInv, [Next]_vars PROVE RecoverInv'
  OBVIOUS
<1>0. /\ \A p \in Files : work[p] # Absent /\ Text(work[p]) \subseteq work[p]
      /\ todo \subseteq Findings /\ cur \in Findings \cup {None}
      /\ \A p \in Files : ~(UserEdit \in Findings) /\ ~(Torn \in Findings)
  BY TextIsContent, FindingsAssumption DEF TypeInv, TypeOK, Text
<1>1. ASSUME StartRun PROVE RecoverInv'
  <2>1. pc' = "next" /\ backedUp' = {} /\ base' = work /\ work' = work /\ index' = index
        /\ (BackupMode \/ DirtyPaths(FALSE) \subseteq blind')
    BY <1>1, StartsClean DEF StartRun, GoTo, disk
  <2>2. \A p \in Files : cache'[p] \subseteq base'[p] /\ originals'[p] = Absent
    BY <1>0, <1>1 DEF StartRun, Unbound, NoCopies
  <2>3. ~BackupMode => \A p \in Files \ blind' : index[p] = Absent \/ index[p] = work[p]
    BY <2>1 DEF DirtyPaths, Uncommitted
  <2> QED BY <2>1, <2>2, <2>3 DEF RecoverInv, Hidden, InBase, OnTrial
<1>2. CASE RefuseDirty \/ EndRun \/ Crash
  BY <1>2 DEF RefuseDirty, EndRun, Crash, GoTo, mem, RecoverInv
<1>24. CASE DecodeRaises \/ RollBackRaises
  BY <1>24 DEF DecodeRaises, RollBackRaises, GoTo, mem, disk, RecoverInv
<1>3. ASSUME NEW f \in Findings, PassOver(f) PROVE RecoverInv'
  BY <1>3, RecoverSameFiles DEF PassOver, disk, history, OnTrial, InFlight, RecoverInv, Hidden, InBase
<1>4. ASSUME NEW f, NEW status, Finish(f, status), UNCHANGED <<base, blind, work, index, orig, backedUp>>,
             pc \notin {"idle", "raised"}, pc \notin OnTrial \/ f = cur,
             \A g \in todo' : \A p \in Files \ Hidden : InBase(cache, p, g)'
      PROVE  RecoverInv'
  <2>1. todo' \subseteq todo /\ (pc \notin OnTrial \/ cur \notin todo') /\ pc' \notin OnTrial
    BY <1>4, FinishLeaves DEF OnTrial
  <2>2. \A g \in todo' : \A p \in Files \ Hidden : InBase(originals, p, g)'
    BY <1>4, FinishLeaves DEF InBase, NoCopies
  <2> QED BY <1>4, <2>1, <2>2, RecoverSameFiles
<1>5. ASSUME NEW f \in Findings, Refuse(f) PROVE RecoverInv'
  BY <1>4, <1>5, FinishLeaves DEF Refuse, Eligible, disk, history, OnTrial, InFlight, RecoverInv, Hidden, InBase
<1>6. ASSUME NEW f \in Findings, CallFix(f), todo' \subseteq todo
      PROVE  /\ \A g \in todo' : \A p \in Files \ Hidden : InBase(cache, p, g)'
             /\ pc = "next" /\ pc \notin OnTrial
             /\ UNCHANGED <<base, blind, work, index, orig, backedUp>>
  <2>1. pc = "next" /\ pc \notin OnTrial /\ UNCHANGED <<base, blind, work, index, orig, backedUp>>
    BY <1>6 DEF CallFix, Eligible, OnTrial, InFlight, disk, history
  <2>2. ASSUME NEW g \in todo', NEW p \in Files \ Hidden PROVE InBase(cache, p, g)'
    <3>1. cache'[p] = cache[p] \/ cache'[p] = Text(work[p])
      BY <1>6 DEF CallFix, Seen
    <3>2. InBase(cache, p, g) /\ InBase(work, p, g)
      BY <1>6, <2>1 DEF RecoverInv, Hidden
    <3> QED BY <1>0, <2>1, <3>1, <3>2 DEF InBase
  <2> QED BY <2>1, <2>2
<1>7. ASSUME NEW f \in Findings, ComputePatch(f) PROVE RecoverInv'
  <2>1. CallFix(f) /\ todo' = todo /\ originals' = originals /\ pc' \in {"ask", "repro"}
    BY <1>7 DEF ComputePatch, GoTo
  <2>2. \A g \in todo' : \A p \in Files \ Hidden : InBase(originals, p, g)'
    BY <1>6, <2>1 DEF RecoverInv, Hidden, InBase
  <2>3. pc' \notin OnTrial
    BY <2>1 DEF OnTrial, InFlight
  <2> QED BY <1>6, <2>1, <2>2, <2>3, RecoverSameFiles
<1>8. ASSUME NEW f \in Findings, NoPatch(f) PROVE RecoverInv'
  <2>1. CallFix(f) /\ Finish(f, "not_attempted") /\ todo' \subseteq todo
    BY <1>8, FinishLeaves DEF NoPatch
  <2> QED BY <1>4, <1>6, <2>1
<1>9. CASE Approve \/ PrepareRepro
  BY <1>9, RecoverSameFiles
     DEF Approve, PrepareRepro, mem, disk, history, GoTo, OnTrial, InFlight,
         RecoverInv, Hidden, InBase
<1>10. CASE Decline \/ AbandonChanged \/ KeepUncommitted
  <2>1. PICK status : Finish(cur, status)
    BY <1>10 DEF Decline, AbandonChanged, KeepUncommitted
  <2>2. UNCHANGED <<base, blind, work, index, orig, backedUp, cache>> /\ pc \notin {"idle", "raised"}
    BY <1>10 DEF Decline, AbandonChanged, KeepUncommitted, disk, history
  <2>3. \A g \in todo' : \A p \in Files \ Hidden : InBase(cache, p, g)'
    BY <2>1, <2>2, FinishLeaves DEF RecoverInv, Hidden, InBase
  <2> QED BY <1>4, <2>1, <2>2, <2>3
<1>11. ASSUME CheckFiles PROVE RecoverInv'
  <2>1. pc = "check" /\ pc' = "prepare" /\ UNCHANGED <<base, blind, work, index, orig, backedUp, cache, todo>>
    BY <1>11 DEF CheckFiles, GoTo, disk, history
  <2>2. \A f \in todo' : \A p \in Files \ Hidden : InBase(cache, p, f)' /\ InBase(work, p, f)
    BY <2>1 DEF RecoverInv, Hidden, InBase, OnTrial, InFlight
  <2>3. \A f \in todo' : \A p \in Files \ Hidden : InBase(originals, p, f)'
    BY <1>0, <1>11, <2>1, <2>2 DEF CheckFiles, InBase
  <2> QED BY <2>1, <2>2, <2>3, RecoverSameFiles DEF OnTrial, InFlight
<1>12. ASSUME Prepare PROVE RecoverInv'
  <2>1. pc = "prepare" /\ pc' \in {"write", "unwrite"} /\ Paths' = Paths
        /\ UNCHANGED <<cur, todo, base, blind, work, index, cache, originals>>
    BY <1>12 DEF Prepare, GoTo, Paths, history
  <2>2. PICK done \in SUBSET ToBackUp :
          /\ orig' = [p \in Files |-> IF p \in done THEN work[p] ELSE orig[p]]
          /\ backedUp' = backedUp \cup done
          /\ pc' = "write" => done = ToBackUp
    BY <1>12 DEF Prepare, GoTo
  <2>3. Paths \subseteq Files /\ backedUp \subseteq Files /\ done \subseteq Paths
    BY <2>1, TouchesFiles DEF ToBackUp, Paths, TypeInv, TypeOK, Held, Busy, InFlight
  <2>4. pc' = "write" /\ BackupMode => Paths \subseteq backedUp'
    BY <2>2 DEF ToBackUp
  <2>5. \A p \in backedUp' : orig'[p] # Absent
    BY <1>0, <2>2, <2>3 DEF RecoverInv, Hidden
  <2>6. \A f \in todo' : \A p \in Files \ Hidden :
          /\ InBase(cache, p, f)' /\ InBase(originals, p, f)' /\ InBase(work, p, f)'
          /\ ~BackupMode => InBase(index, p, f)'
    BY <2>1 DEF RecoverInv, Hidden, InBase, OnTrial
  <2>7. \A f \in todo' : \A p \in Files \ Hidden : p \in backedUp' => InBase(orig, p, f)'
    BY <2>1, <2>2, <2>6 DEF RecoverInv, Hidden, InBase
  <2> QED BY <2>1, <2>4, <2>5, <2>6, <2>7 DEF RecoverInv, Hidden
<1>13. ASSUME NEW q \in Files, WriteFile(q) PROVE RecoverInv'
  <2>1. pc = "write" /\ pc' \in {"write", "confirm"} /\ Paths' = Paths
        /\ UNCHANGED <<cur, todo, base, blind, index, orig, backedUp, originals>>
    BY <1>13 DEF WriteFile, GoTo, Paths, history
  <2>2. \A p \in Files : cache'[p] = cache[p] \/ cache'[p] = Absent
    BY <1>13 DEF WriteFile, Invalidate
  <2>3. cache[q] # Absent
    BY <1>13, TextIsContent DEF WriteFile, TypeInv, Held
  <2>4. \A p \in Files \ {q} : work'[p] = work[p]
    BY <1>13 DEF WriteFile, TypeInv, TypeOK
  <2>5. work'[q] = cache[q] \cup {cur}
    BY <1>13 DEF WriteFile, TypeInv, TypeOK
  <2>6. \A f \in todo' : \A p \in Files \ Hidden : f # cur => InBase(work, p, f)'
    BY <2>1, <2>3, <2>4, <2>5 DEF RecoverInv, Hidden, InBase
  <2>7. pc' \in OnTrial /\ pc' # "commit"
    BY <2>1 DEF OnTrial, InFlight
  <2>8. \A f \in todo' : \A p \in Files \ Hidden : InBase(cache, p, f)' /\ InBase(originals, p, f)'
    BY <2>1, <2>2 DEF RecoverInv, Hidden, InBase
  <2> QED BY <2>1, <2>6, <2>7, <2>8 DEF RecoverInv, Hidden, InBase
<1>14. ASSUME NEW q \in Files, WriteFails(q) PROVE RecoverInv'
  <2>1. pc = "write" /\ pc' = "unwrite"
        /\ UNCHANGED <<cur, todo, base, blind, index, orig, backedUp, originals, cache>>
    BY <1>14 DEF WriteFails, GoTo, mem, history
  <2>2. \A p \in Files : work'[p] = work[p] \/ work'[p] = {Torn}
    BY <1>14 DEF WriteFails, TypeInv, TypeOK
  <2>3. \A f \in todo' : \A p \in Files \ Hidden : f # cur => InBase(work, p, f)'
    BY <1>0, <2>1, <2>2 DEF RecoverInv, Hidden, InBase
  <2>4. pc' \in OnTrial
    BY <2>1 DEF OnTrial, InFlight
  <2> QED BY <2>1, <2>3, <2>4 DEF RecoverInv, Hidden, InBase
<1>15. ASSUME NEW paths \in SUBSET Paths, NEW stuck, NEW torn,
              work' = Restored(paths, stuck, torn), Finish(cur, "failed"), pc \in OnTrial,
              pc # "commit", \A p \in Files : cache'[p] = cache[p] \/ cache'[p] = Absent,
              UNCHANGED <<base, blind, index, orig, backedUp>>
       PROVE  RecoverInv'
  <2>1. pc' = "next" /\ todo' = todo \ {cur} /\ originals' = NoCopies
    BY <1>15, FinishLeaves
  <2>2. pc \notin {"idle", "raised"} /\ \A p \in paths : originals[p] # Absent
    BY <1>15, TextIsContent DEF OnTrial, InFlight, TypeInv, Held
  <2>3. \A p \in Files : \/ work'[p] = work[p]
                         \/ work'[p] = {Torn}
                         \/ p \in paths /\ work'[p] = originals[p]
    BY <1>15 DEF Restored
  <2>4. \A f \in todo' : \A p \in Files \ Hidden : InBase(work, p, f)'
    BY <1>0, <1>15, <2>1, <2>2, <2>3 DEF RecoverInv, Hidden, InBase
  <2>5. \A f \in todo' : \A p \in Files \ Hidden : InBase(cache, p, f)' /\ InBase(originals, p, f)'
    BY <1>15, <2>1, <2>2 DEF RecoverInv, Hidden, InBase, NoCopies
  <2> QED BY <1>15, <2>1, <2>2, <2>4, <2>5 DEF RecoverInv, Hidden, InBase
<1>16. ASSUME RestoreAfterFailedWrite PROVE RecoverInv'
  BY <1>15, <1>16 DEF RestoreAfterFailedWrite, OnTrial, InFlight
<1>17. ASSUME RestoreIfNeeded PROVE RecoverInv'
  <2> DEFINE needed == {p \in Paths : Text(work[p]) # originals[p]}
  <2>1. PICK stuck \in SUBSET needed, torn \in SUBSET needed : work' = Restored(needed, stuck, torn)
    BY <1>17 DEF RestoreIfNeeded
  <2>2. needed \in SUBSET Paths
    OBVIOUS
  <2>3. Finish(cur, "failed") /\ pc = "restore" /\ UNCHANGED <<base, blind, index, orig, backedUp>>
    BY <1>17 DEF RestoreIfNeeded
  <2>4. \A p \in Files : cache'[p] = cache[p] \/ cache'[p] = Absent
    BY <1>17 DEF RestoreIfNeeded, Invalidate
  <2>5. pc \in OnTrial /\ pc # "commit"
    BY <2>3 DEF OnTrial, InFlight
  <2> HIDE DEF needed
  <2> QED BY <1>15, <2>1, <2>2, <2>3, <2>4, <2>5
<1>18. ASSUME Confirm PROVE RecoverInv'
  <2>1. pc = "confirm" /\ pc' \in {"rollback", "add"} /\ Paths' = Paths
        /\ UNCHANGED <<cur, todo, base, blind, work, index, orig, backedUp, originals, cache>>
    BY <1>18 DEF Confirm, GoTo, Paths, disk
  <2>2. pc' \in OnTrial
    BY <2>1 DEF OnTrial, InFlight
  <2> QED BY <2>1, <2>2 DEF RecoverInv, Hidden, InBase
<1>19. ASSUME RollBack PROVE RecoverInv'
  <2> DEFINE copy == IF BackupMode THEN orig ELSE index
             able == {p \in Paths : copy[p] # Absent}
  <2>1. pc = "rollback" /\ pc' = "restore"
        /\ UNCHANGED <<cur, todo, base, blind, index, originals, cache>>
    BY <1>19 DEF RollBack, GoTo, history
  <2>2. PICK stuck \in SUBSET able :
          \E copied \in SUBSET (IF BackupMode THEN stuck ELSE {}) :
            /\ work' = [p \in Files |-> IF p \in (able \ stuck) \cup copied
                                        THEN copy[p] ELSE work[p]]
            /\ orig' = [p \in Files |-> IF BackupMode /\ p \in able \ stuck
                                        THEN Absent ELSE orig[p]]
            /\ backedUp' = IF BackupMode THEN backedUp \ able ELSE backedUp
    BY <1>19 DEF RollBack
  <2>3. \A p \in Files : work'[p] = work[p] \/ (p \in Paths /\ work'[p] = copy[p] /\ copy[p] # Absent)
    BY <2>2
  <2>4. backedUp' \subseteq backedUp /\ \A p \in backedUp' : orig'[p] = orig[p]
    BY <2>2 DEF TypeInv, TypeOK
  <2>5. \A f \in todo : \A p \in Files \ Hidden : p \in Paths => InBase(copy, p, f)
    BY <2>1 DEF RecoverInv, Hidden, InBase
  <2>6. \A f \in todo' : \A p \in Files \ Hidden : f # cur => InBase(work, p, f)'
    <3> HIDE DEF copy
    <3> QED BY <2>1, <2>3, <2>5 DEF RecoverInv, Hidden, InBase
  <2>7. pc' \in OnTrial
    BY <2>1 DEF OnTrial, InFlight
  <2> HIDE DEF copy, able
  <2> QED BY <2>1, <2>4, <2>6, <2>7 DEF RecoverInv, Hidden, InBase
<1>20. ASSUME Stage PROVE RecoverInv'
  <2>1. pc = "add" /\ pc' = "commit"
        /\ UNCHANGED <<cur, todo, base, blind, work, orig, backedUp, originals, cache>>
    BY <1>20 DEF Stage, GoTo, mem, history
  <2>2. \A p \in Files : index'[p] = index[p] \/ index'[p] = work[p]
    BY <1>20 DEF Stage
  <2>3. \A f \in todo' : \A p \in Files \ Hidden : f # cur => InBase(work, p, f)' /\ (~BackupMode => InBase(index, p, f)')
    BY <2>1, <2>2 DEF RecoverInv, Hidden, InBase
  <2>4. pc' \in OnTrial
    BY <2>1 DEF OnTrial, InFlight
  <2> QED BY <2>1, <2>3, <2>4 DEF RecoverInv, Hidden, InBase
<1>21. ASSUME Commit PROVE RecoverInv'
  <2>1. pc = "commit" /\ pc' = "next" /\ todo' = todo \ {cur} /\ originals' = NoCopies
        /\ UNCHANGED <<base, blind, work, orig, backedUp, cache>>
    BY <1>21, FinishLeaves DEF Commit, history
  <2>2. \A p \in Files : index'[p] = index[p] \/ index'[p] = work[p]
    BY <1>21 DEF Commit
  <2>3. \A f \in todo' : \A p \in Files \ Hidden : InBase(work, p, f)' /\ (~BackupMode => InBase(index, p, f)')
    BY <2>1, <2>2 DEF RecoverInv, Hidden, InBase
  <2>4. \A f \in todo' : \A p \in Files \ Hidden : InBase(cache, p, f)' /\ InBase(originals, p, f)'
    BY <2>1 DEF RecoverInv, Hidden, InBase, NoCopies
  <2> QED BY <2>1, <2>3, <2>4 DEF RecoverInv, Hidden, InBase
<1>22. ASSUME NEW q \in Files, UserEdits(q) PROVE RecoverInv'
  <2>1. Paths' = Paths
        /\ UNCHANGED <<pc, cur, todo, base, blind, index, orig, backedUp, originals, cache>>
    BY <1>22 DEF UserEdits, mem, Paths
  <2>2. \A p \in Files : work'[p] \cap Findings = work[p] \cap Findings
    BY <1>0, <1>22 DEF UserEdits, TypeInv, TypeOK
  <2>3. pc \notin {"idle", "raised"} => \A f \in todo' : \A p \in Files \ Hidden :
          f # cur \/ pc \notin OnTrial => InBase(work, p, f)'
    BY <1>0, <2>1, <2>2 DEF RecoverInv, Hidden, InBase
  <2> QED BY <2>1, <2>3 DEF RecoverInv, Hidden, InBase
<1>23. CASE UNCHANGED vars
  BY <1>23 DEF vars, mem, disk, history, RecoverInv, Hidden, InBase, Paths
<1> QED
  BY <1>1, <1>2, <1>3, <1>5, <1>7, <1>8, <1>9, <1>10, <1>11, <1>12, <1>13, <1>14, <1>16,
     <1>17, <1>18, <1>19, <1>20, <1>21, <1>22, <1>23, <1>24
     DEF Next, Repair, Decide, Apply, Settle, Environment, Stopped

(* A patch that is not validated yet can be taken back from outside the    *)
(* process: the index or the .orig file holds each file without it, unless *)
(* the run began on changes it did not see (git_safety.py 227-240, 265-285)*)
THEOREM RecoverCorrect == Spec => []InFlightRecoverable
<1>1. Init => RecoverInv
  BY DEF Init, RecoverInv
<1>2. Spec => [](TypeInv /\ TrackedInv /\ RecoverInv)
  BY <1>1, InitTypeInv, NextTypeInv, InitTrackedInv, NextTrackedInv, NextRecoverInv, PTL DEF Spec
<1>3. ASSUME TypeInv, TrackedInv, RecoverInv, pc \in {"write", "confirm", "rollback"},
             NEW p \in Paths \ (IF BackupMode THEN {} ELSE Untracked \cup blind)
      PROVE  LET copy == IF BackupMode THEN orig[p] ELSE index[p]
             IN copy # Absent /\ (cur \in copy => cur \in base[p])
  <2>1. cur \in todo /\ p \in Files \ Hidden /\ pc \notin {"idle", "raised", "commit"}
    BY <1>3, TouchesFiles DEF TypeInv, TypeOK, Held, Busy, InFlight, Paths, Hidden
  <2>2. CASE BackupMode
    BY <1>3, <2>1, <2>2 DEF RecoverInv, InBase
  <2>3. CASE ~BackupMode
    BY <1>3, <2>1, <2>3 DEF RecoverInv, InBase, TrackedInv
  <2> QED BY <2>2, <2>3
<1>4. TypeInv /\ TrackedInv /\ RecoverInv => InFlightRecoverable
  BY <1>3 DEF InFlightRecoverable
<1> QED BY <1>2, <1>4, PTL

-----------------------------------------------------------------------------
(* An edit from outside that was there when the patch was computed is in   *)
(* the tree, and while the tree is being put back, in the originals.       *)
EditInv ==
  pc # "idle" => \A p \in disturbed \ (late \cup unrestored) :
    /\ pc \notin {"unwrite", "restore"} \/ p \notin Paths => UserEdit \in work[p]
    /\ pc \in InFlight /\ p \in Paths => UserEdit \in originals[p]
    /\ pc \in {"prepare", "write"} /\ p \in Paths => UserEdit \in cache[p]

(* A step that ends outside a patch and writes no file.                    *)
LEMMA EditSameTree ==
  ASSUME EditInv, pc \notin {"idle", "unwrite", "restore"}, pc' \notin InFlight,
         UNCHANGED <<work, disturbed, late, unrestored>>
  PROVE  EditInv'
BY DEF EditInv, InFlight

LEMMA NextEditInv == TypeInv /\ EditInv /\ [Next]_vars => EditInv'
<1> SUFFICES ASSUME TypeInv, EditInv, [Next]_vars PROVE EditInv'
  OBVIOUS
<1>0. /\ \A c : UserEdit \in Text(c) <=> UserEdit \in c
      /\ disturbed \subseteq Files
  BY FindingsAssumption DEF Text, TypeInv, TypeOK
<1>1. CASE StartRun \/ RefuseDirty \/ EndRun \/ Crash
  BY <1>1 DEF StartRun, RefuseDirty, EndRun, Crash, GoTo, EditInv
<1>2. ASSUME NEW f \in Findings, PassOver(f) \/ Refuse(f) \/ ComputePatch(f) \/ NoPatch(f)
      PROVE  EditInv'
  <2>1. pc = "next" /\ pc' \in {"next", "ask", "repro"}
        /\ UNCHANGED <<work, disturbed, late, unrestored>>
    BY <1>2, FinishLeaves
       DEF PassOver, Refuse, ComputePatch, NoPatch, CallFix, Eligible, GoTo, disk, history
  <2> QED BY <2>1, EditSameTree DEF InFlight
<1>3. ASSUME Approve \/ Decline \/ PrepareRepro \/ AbandonChanged \/ DecodeRaises
             \/ Commit \/ KeepUncommitted
      PROVE  EditInv'
  <2>1. pc \in {"ask", "repro", "check", "add", "commit"}
        /\ pc' \in {"next", "repro", "check", "raised"}
        /\ UNCHANGED <<work, disturbed, late, unrestored>>
    BY <1>3, FinishLeaves
       DEF Approve, Decline, PrepareRepro, AbandonChanged, DecodeRaises, Commit, KeepUncommitted,
           GoTo, disk, history
  <2> QED BY <2>1, EditSameTree DEF InFlight
<1>4. ASSUME CheckFiles PROVE EditInv'
  <2>1. pc = "check" /\ pc' = "prepare" /\ Paths' = Paths
        /\ UNCHANGED <<cache, work, disturbed, late, unrestored>>
    BY <1>4 DEF CheckFiles, GoTo, Paths, disk, history
  <2>2. \A p \in Paths : cache[p] = Text(work[p])
    BY <1>4 DEF CheckFiles, ChangedOnDisk
  <2>3. \A p \in Files : p \in Paths => originals'[p] = Text(work[p])
    BY <1>4 DEF CheckFiles
  <2> QED BY <1>0, <2>1, <2>2, <2>3 DEF EditInv
<1>5. ASSUME Prepare \/ Confirm \/ Stage PROVE EditInv'
  <2>1. /\ \/ pc = "prepare" /\ pc' \in {"write", "unwrite"}
           \/ pc = "confirm" /\ pc' \in {"rollback", "add"}
           \/ pc = "add" /\ pc' = "commit"
        /\ Paths' = Paths /\ UNCHANGED <<cache, originals, work, disturbed, late, unrestored>>
    BY <1>5 DEF Prepare, Confirm, Stage, GoTo, Paths, mem, disk, history
  <2> QED BY <2>1 DEF EditInv, InFlight
<1>6. ASSUME NEW q \in Files, WriteFile(q) PROVE EditInv'
  <2>1. pc = "write" /\ pc' \in {"write", "confirm"} /\ Paths' = Paths /\ q \in Paths
        /\ UNCHANGED <<originals, disturbed, late, unrestored>>
    BY <1>6 DEF WriteFile, GoTo, Paths, history, TypeInv, Held
  <2>2. /\ \A p \in Files \ {q} : work'[p] = work[p]
        /\ work'[q] = cache[q] \cup {cur}
        /\ pc' = "write" => cache' = cache
    BY <1>6 DEF WriteFile, GoTo, TypeInv, TypeOK
  <2> QED BY <1>0, <2>1, <2>2 DEF EditInv, InFlight
<1>7. ASSUME NEW q \in Files, WriteFails(q) PROVE EditInv'
  <2>1. pc = "write" /\ pc' = "unwrite" /\ Paths' = Paths /\ q \in Paths
        /\ UNCHANGED <<originals, disturbed, late, unrestored>>
        /\ \A p \in Files \ {q} : work'[p] = work[p]
    BY <1>7 DEF WriteFails, GoTo, Paths, mem, history, TypeInv, TypeOK, Held
  <2> QED BY <1>0, <2>1 DEF EditInv, InFlight
<1>8. ASSUME NEW paths \in SUBSET Paths, NEW stuck, NEW torn \in SUBSET stuck,
             \A p \in Paths \ paths : Text(work[p]) = originals[p], pc \in InFlight,
             work' = Restored(paths, stuck, torn), unrestored' = unrestored \cup stuck,
             Finish(cur, "failed"), UNCHANGED <<disturbed, late>>
      PROVE  EditInv'
  <2>1. pc' = "next" /\ pc # "idle" /\ pc' \notin InFlight
    BY <1>8, FinishLeaves DEF InFlight
  <2>2. ASSUME NEW p \in disturbed' \ (late' \cup unrestored') PROVE UserEdit \in work'[p]
    <3>1. p \in Files /\ p \in disturbed \ (late \cup unrestored) /\ p \notin stuck /\ p \notin torn
      BY <1>0, <1>8, <2>2
    <3>2. work'[p] = IF p \in paths THEN originals[p] ELSE work[p]
      BY <1>8, <3>1 DEF Restored
    <3>3. p \in Paths => UserEdit \in originals[p]
      BY <1>8, <2>1, <3>1 DEF EditInv
    <3>4. p \notin Paths => UserEdit \in work[p]
      BY <1>8, <2>1, <3>1 DEF EditInv
    <3> QED BY <1>0, <1>8, <3>2, <3>3, <3>4
  <2> QED BY <2>1, <2>2 DEF EditInv
<1>9. ASSUME RestoreAfterFailedWrite PROVE EditInv'
  <2>1. PICK stuck \in SUBSET Paths, torn \in SUBSET Paths :
          torn \subseteq stuck /\ work' = Restored(Paths, stuck, torn) /\ unrestored' = unrestored \cup stuck
    BY <1>9 DEF RestoreAfterFailedWrite
  <2>2. pc \in InFlight /\ Finish(cur, "failed") /\ UNCHANGED <<disturbed, late>>
    BY <1>9 DEF RestoreAfterFailedWrite, InFlight
  <2> QED BY <1>8, <2>1, <2>2
<1>10. ASSUME RestoreIfNeeded PROVE EditInv'
  <2> DEFINE needed == {p \in Paths : Text(work[p]) # originals[p]}
  <2>1. PICK stuck \in SUBSET needed, torn \in SUBSET needed :
          torn \subseteq stuck /\ work' = Restored(needed, stuck, torn) /\ unrestored' = unrestored \cup stuck
    BY <1>10 DEF RestoreIfNeeded
  <2>2. pc \in InFlight /\ Finish(cur, "failed") /\ UNCHANGED <<disturbed, late>>
    BY <1>10 DEF RestoreIfNeeded, InFlight
  <2>3. needed \in SUBSET Paths /\ \A p \in Paths \ needed : Text(work[p]) = originals[p]
    OBVIOUS
  <2> HIDE DEF needed
  <2> QED BY <1>8, <2>1, <2>2, <2>3
<1>11. ASSUME RollBack PROVE EditInv'
  <2>1. pc = "rollback" /\ pc' = "restore" /\ Paths' = Paths
        /\ UNCHANGED <<originals, disturbed, late, unrestored>>
    BY <1>11 DEF RollBack, GoTo, Paths, history
  <2>2. \A p \in Files \ Paths : work'[p] = work[p]
    BY <1>11 DEF RollBack
  <2> QED BY <1>0, <2>1, <2>2 DEF EditInv, InFlight
<1>14. ASSUME RollBackRaises PROVE EditInv'
  <2>1. pc = "rollback" /\ pc' = "raised" /\ UNCHANGED <<disturbed, late>>
        /\ unrestored' = unrestored \cup {p \in Paths : Text(work'[p]) # originals[p]}
    BY <1>14 DEF RollBackRaises, GoTo
  <2>2. \A p \in Files \ Paths : work'[p] = work[p]
    BY <1>14 DEF RollBackRaises
  <2>3. pc' \notin InFlight \cup {"prepare", "write", "unwrite", "restore"}
    BY <2>1 DEF InFlight
  <2>4. ASSUME NEW p \in disturbed' \ (late' \cup unrestored') PROVE UserEdit \in work'[p]
    BY <1>0, <2>1, <2>2, <2>4 DEF EditInv, InFlight
  <2> QED BY <2>3, <2>4 DEF EditInv
<1>12. ASSUME NEW q \in Files, UserEdits(q) PROVE EditInv'
  <2>1. pc # "idle" /\ Paths' = Paths /\ disturbed' = disturbed \cup {q}
        /\ UNCHANGED <<pc, cache, originals, unrestored>>
    BY <1>12 DEF UserEdits, Paths, mem
  <2>2. late' = (IF pc \in InFlight /\ q \in Paths THEN late \cup {q} ELSE late)
        /\ UserEdit \in work'[q] /\ \A p \in Files \ {q} : work'[p] = work[p]
    BY <1>12 DEF UserEdits, TypeInv, TypeOK
  <2>3. {"prepare", "write"} \subseteq InFlight
    BY DEF InFlight
  <2> QED BY <1>0, <2>1, <2>2, <2>3 DEF EditInv
<1>13. CASE UNCHANGED vars
  BY <1>13 DEF vars, mem, disk, history, EditInv, Paths
<1> QED
  BY <1>1, <1>2, <1>3, <1>4, <1>5, <1>6, <1>7, <1>9, <1>10, <1>11, <1>12, <1>13, <1>14
     DEF Next, Repair, Decide, Apply, Settle, Environment, Stopped

(* A change somebody else makes is lost only when it was saved while a     *)
(* patch to that very file was in flight, or the file could not be written *)
(* back (engine.py 191-213).                                               *)
THEOREM EditsCorrect == Spec => []OnlyLateEditsLost
<1>1. Init => EditInv
  BY DEF Init, EditInv
<1>2. Spec => [](TypeInv /\ EditInv)
  BY <1>1, InitTypeInv, NextTypeInv, NextEditInv, PTL DEF Spec
<1>3. TypeInv /\ EditInv => OnlyLateEditsLost
  BY DEF EditInv, OnlyLateEditsLost, AtRest
<1> QED BY <1>2, <1>3, PTL

-----------------------------------------------------------------------------
(* What a rule was given of a file that nobody else touched is what the    *)
(* file says, and once the patch is written the next rule reads afresh.    *)
Dropped == {"confirm", "rollback", "restore", "add", "commit"}

CacheInv ==
  pc # "idle" => \A p \in Answerable :
    /\ pc \notin InFlight \/ p \notin Paths => cache[p] \in {Absent, Text(work[p])}
    /\ pc \in {"prepare", "write", "unwrite"} /\ p \in Paths => cache[p] = originals[p]
    /\ pc \in Dropped /\ p \in Paths => cache[p] = Absent

(* A step that neither starts in a patch nor ends in one, nor writes.      *)
LEMMA CacheSameTree ==
  ASSUME CacheInv, pc # "idle", pc \notin InFlight, pc' \notin InFlight,
         UNCHANGED <<work, disturbed, unrestored>>,
         \A p \in Files : cache'[p] \in {cache[p], Text(work[p])}
  PROVE  CacheInv'
<1>1. Answerable' = Answerable /\ Answerable \subseteq Files
  BY DEF Answerable
<1>2. pc' \notin {"prepare", "write", "unwrite"} /\ pc' \notin Dropped
  BY DEF InFlight, Dropped
<1> QED BY <1>1, <1>2 DEF CacheInv

LEMMA NextCacheInv == TypeInv /\ TreeInv /\ CacheInv /\ [Next]_vars => CacheInv'
<1> SUFFICES ASSUME TypeInv, TreeInv, CacheInv, [Next]_vars PROVE CacheInv'
  OBVIOUS
<1>0. Answerable \subseteq Files /\ Dropped \subseteq InFlight
  BY DEF Answerable, Dropped, InFlight
<1>1. ASSUME StartRun PROVE CacheInv'
  <2>1. pc' = "next" /\ work' = work /\ \A p \in Files : cache'[p] = Text(work[p])
    BY <1>1 DEF StartRun, GoTo, disk
  <2> QED BY <2>1 DEF CacheInv, Answerable, InFlight, Dropped
<1>2. CASE RefuseDirty \/ EndRun \/ Crash
  BY <1>2 DEF RefuseDirty, EndRun, Crash, GoTo, CacheInv
<1>3. ASSUME NEW f \in Findings, PassOver(f) \/ Refuse(f) \/ ComputePatch(f) \/ NoPatch(f)
      PROVE  CacheInv'
  <2>1. pc = "next" /\ pc' \in {"next", "ask", "repro"}
        /\ UNCHANGED <<work, disturbed, unrestored>>
    BY <1>3, FinishLeaves
       DEF PassOver, Refuse, ComputePatch, NoPatch, CallFix, Eligible, GoTo, disk, history
  <2>2. \A p \in Files : cache'[p] \in {cache[p], Text(work[p])}
    BY <1>3 DEF PassOver, Refuse, ComputePatch, NoPatch, CallFix, Seen
  <2> QED BY <2>1, <2>2, CacheSameTree DEF InFlight
<1>4. ASSUME Approve \/ Decline \/ PrepareRepro \/ AbandonChanged \/ DecodeRaises
      PROVE  CacheInv'
  <2>1. pc \in {"ask", "repro", "check"} /\ pc' \in {"next", "repro", "check", "raised"}
        /\ UNCHANGED <<cache, work, disturbed, unrestored>>
    BY <1>4, FinishLeaves
       DEF Approve, Decline, PrepareRepro, AbandonChanged, DecodeRaises, GoTo, mem, disk, history
  <2> QED BY <2>1, CacheSameTree DEF InFlight
<1>5. ASSUME CheckFiles PROVE CacheInv'
  <2>1. pc = "check" /\ pc' = "prepare" /\ Paths' = Paths /\ Answerable' = Answerable
        /\ UNCHANGED <<cache, work>>
    BY <1>5 DEF CheckFiles, GoTo, Paths, Answerable, disk, history
  <2>2. \A p \in Paths : cache[p] = Text(work[p])
    BY <1>5 DEF CheckFiles, ChangedOnDisk
  <2>3. \A p \in Files : p \in Paths => originals'[p] = Text(work[p])
    BY <1>5 DEF CheckFiles
  <2> QED BY <1>0, <2>1, <2>2, <2>3 DEF CacheInv, InFlight, Dropped
<1>6. ASSUME Prepare \/ Confirm \/ Stage PROVE CacheInv'
  <2>1. /\ \/ pc = "prepare" /\ pc' \in {"write", "unwrite"}
           \/ pc = "confirm" /\ pc' \in {"rollback", "add"}
           \/ pc = "add" /\ pc' = "commit"
        /\ Paths' = Paths /\ Answerable' = Answerable /\ UNCHANGED <<cache, originals, work>>
    BY <1>6 DEF Prepare, Confirm, Stage, GoTo, Paths, Answerable, mem, disk, history
  <2> QED BY <2>1 DEF CacheInv, InFlight, Dropped
<1>7. ASSUME NEW q \in Files, WriteFile(q) PROVE CacheInv'
  <2>1. pc = "write" /\ pc' \in {"write", "confirm"} /\ Paths' = Paths /\ q \in Paths
        /\ Answerable' = Answerable /\ originals' = originals
    BY <1>7 DEF WriteFile, GoTo, Paths, Answerable, history, TypeInv, Held
  <2>2. /\ \A p \in Files \ {q} : work'[p] = work[p]
        /\ pc' = "write" => cache' = cache
        /\ pc' = "confirm" => \A p \in Files : cache'[p] = IF p \in Paths THEN Absent ELSE cache[p]
    BY <1>7 DEF WriteFile, Invalidate, GoTo, TypeInv, TypeOK
  <2> QED BY <1>0, <2>1, <2>2 DEF CacheInv, InFlight, Dropped
<1>8. ASSUME NEW q \in Files, WriteFails(q) PROVE CacheInv'
  <2>1. pc = "write" /\ pc' = "unwrite" /\ Paths' = Paths /\ q \in Paths
        /\ Answerable' = Answerable /\ UNCHANGED <<cache, originals>>
        /\ \A p \in Files \ {q} : work'[p] = work[p]
    BY <1>8 DEF WriteFails, GoTo, Paths, Answerable, mem, history, TypeInv, TypeOK, Held
  <2> QED BY <1>0, <2>1 DEF CacheInv, InFlight, Dropped
<1>9. ASSUME RestoreAfterFailedWrite PROVE CacheInv'
  <2>1. PICK stuck \in SUBSET Paths, torn \in SUBSET Paths :
          torn \subseteq stuck /\ work' = Restored(Paths, stuck, torn) /\ unrestored' = unrestored \cup stuck
    BY <1>9 DEF RestoreAfterFailedWrite
  <2>2. pc = "unwrite" /\ pc' = "next" /\ cache' = cache /\ disturbed' = disturbed
    BY <1>9, FinishLeaves DEF RestoreAfterFailedWrite
  <2>3. ASSUME NEW p \in Answerable' PROVE cache'[p] \in {Absent, Text(work'[p])}
    <3>1. p \in Files /\ p \in Answerable /\ p \notin stuck /\ p \notin torn
      BY <2>1, <2>2, <2>3 DEF Answerable
    <3>2. work'[p] = IF p \in Paths THEN originals[p] ELSE work[p]
      BY <2>1, <3>1 DEF Restored
    <3>3. p \in Paths => cache[p] = originals[p] /\ originals[p] \in Content
      BY <2>2, <3>1 DEF CacheInv, InFlight, TypeInv, Held
    <3>4. p \notin Paths => cache[p] \in {Absent, Text(work[p])}
      BY <2>2, <3>1 DEF CacheInv
    <3>5. p \in Paths => Text(originals[p]) = originals[p]
      BY <2>2, <3>1, RecordedText DEF TreeInv, InFlight, TypeInv, TypeOK, Held, Busy
    <3> QED BY <2>2, <3>2, <3>3, <3>4, <3>5
  <2> QED BY <2>2, <2>3 DEF CacheInv, InFlight, Dropped
<1>10. ASSUME RestoreIfNeeded PROVE CacheInv'
  <2>1. pc = "restore" /\ pc' = "next" /\ Answerable' \subseteq Answerable
    BY <1>10, FinishLeaves DEF RestoreIfNeeded, Answerable
  <2>2. \A p \in Files : cache'[p] = IF p \in Paths THEN Absent ELSE cache[p]
    BY <1>10 DEF RestoreIfNeeded, Invalidate
  <2>3. PICK stuck \in SUBSET Paths, torn \in SUBSET Paths :
          work' = Restored({p \in Paths : Text(work[p]) # originals[p]}, stuck, torn)
    BY <1>10 DEF RestoreIfNeeded
  <2>4. \A p \in Files \ Paths : work'[p] = work[p]
    BY <2>3 DEF Restored
  <2> QED BY <1>0, <2>1, <2>2, <2>4 DEF CacheInv, InFlight, Dropped
<1>11. ASSUME RollBack PROVE CacheInv'
  <2>1. pc = "rollback" /\ pc' = "restore" /\ Paths' = Paths /\ Answerable' = Answerable
        /\ UNCHANGED <<cache, originals>>
    BY <1>11 DEF RollBack, GoTo, Paths, Answerable, history
  <2>2. \A p \in Files \ Paths : work'[p] = work[p]
    BY <1>11 DEF RollBack
  <2> QED BY <1>0, <2>1, <2>2 DEF CacheInv, InFlight, Dropped
<1>15. ASSUME RollBackRaises PROVE CacheInv'
  <2>1. pc = "rollback" /\ pc' = "raised" /\ cache' = cache /\ Answerable' \subseteq Answerable
    BY <1>15 DEF RollBackRaises, GoTo, mem, Answerable
  <2>2. \A p \in Files \ Paths : work'[p] = work[p]
    BY <1>15 DEF RollBackRaises
  <2> QED BY <1>0, <2>1, <2>2 DEF CacheInv, InFlight, Dropped
<1>12. ASSUME Commit \/ KeepUncommitted PROVE CacheInv'
  <2>1. pc \in {"add", "commit"} /\ pc' = "next" /\ Answerable' = Answerable
        /\ UNCHANGED <<cache, work>>
    BY <1>12, FinishLeaves DEF Commit, KeepUncommitted, Answerable, disk, history
  <2> QED BY <2>1 DEF CacheInv, InFlight, Dropped
<1>13. ASSUME NEW q \in Files, UserEdits(q) PROVE CacheInv'
  <2>1. Paths' = Paths /\ Answerable' = Answerable \ {q} /\ UNCHANGED <<pc, cache, originals>>
        /\ \A p \in Files \ {q} : work'[p] = work[p]
    BY <1>13 DEF UserEdits, Paths, Answerable, mem, TypeInv, TypeOK
  <2> QED BY <1>0, <2>1 DEF CacheInv
<1>14. CASE UNCHANGED vars
  BY <1>14 DEF vars, mem, disk, history, CacheInv, Answerable, Paths
<1> QED
  BY <1>1, <1>2, <1>3, <1>4, <1>5, <1>6, <1>7, <1>8, <1>9, <1>10, <1>11, <1>12, <1>13, <1>14, <1>15
     DEF Next, Repair, Decide, Apply, Settle, Environment, Stopped

(* "Changed on disk" is never VibeGuard's own doing (engine.py 202-212,    *)
(* 413-417).                                                               *)
THEOREM CacheCorrect == Spec => []ChangedFromOutside
<1>1. Init => TreeInv /\ CacheInv
  BY DEF Init, TreeInv, CacheInv
<1>2. Spec => [](TypeInv /\ TreeInv /\ CacheInv)
  BY <1>1, InitTypeInv, NextTypeInv, NextTreeInv, NextCacheInv, PTL DEF Spec
<1>3. TypeInv /\ CacheInv => ChangedFromOutside
  <2> SUFFICES ASSUME TypeInv, CacheInv, pc = "check", NEW p \in Paths, Text(work[p]) # cache[p]
               PROVE  Paths \cap (disturbed \cup unrestored) # {}
    BY DEF ChangedFromOutside, ChangedOnDisk
  <2>1. cache[p] # Absent /\ p \in Files
    BY TextIsContent, TouchesFiles DEF TypeInv, TypeOK, Held, Busy, Paths
  <2> QED BY <2>1 DEF CacheInv, InFlight, Answerable
<1> QED BY <1>2, <1>3, PTL

-----------------------------------------------------------------------------
(* Of the copies of a tracked file that the engine has not failed to write *)
(* back, nor missed at the start of a run, each holds accepted patches     *)
(* only, but for the working file while the current patch is on trial.     *)
Vouched(copy, p) == copy[p] # Absent => copy[p] \cap Findings \subseteq vouched

Trial == {"write", "unwrite", "confirm", "rollback", "restore"}

VouchInv ==
  /\ BackupMode => \A p \in Files : head[p] = Absent
  /\ pc \in {"add", "commit"} => cur \in vouched
  /\ pc = "commit" => ~BackupMode
  /\ ~BackupMode => \A p \in Files \ (Untracked \cup unrestored \cup blind) :
       /\ Vouched(head, p) /\ Vouched(index, p)
       /\ pc # "idle" =>
            /\ Vouched(cache, p) /\ Vouched(originals, p)
            /\ work[p] \cap Findings \subseteq
                 vouched \cup (IF pc \in Trial /\ p \in Paths THEN {cur} ELSE {})

LEMMA InitVouchInv == Init => VouchInv
<1> SUFFICES ASSUME Init PROVE VouchInv
  OBVIOUS
<1>1. \A p \in Files : Initial[p] \cap Findings = {}
  BY FilesAssumption, FindingsAssumption
<1> QED BY <1>1 DEF Init, VouchInv, Vouched

(* A step outside a patch that leaves every copy of the files alone.       *)
LEMMA VouchSameDisk ==
  ASSUME VouchInv, pc # "idle", pc \notin Trial, pc' \notin Trial \cup {"add", "commit"},
         UNCHANGED <<disk, vouched, unrestored, blind>>,
         \A p \in Files : cache'[p] \in {cache[p], Text(work[p])},
         originals' \in {originals, NoCopies}
  PROVE  VouchInv'
<1>1. \A p \in Files : Text(work[p]) \subseteq work[p]
  BY DEF Text
<1>2. BackupMode => \A p \in Files : head'[p] = Absent
  BY DEF VouchInv, disk
<1>3. ASSUME ~BackupMode, NEW p \in Files \ (Untracked \cup unrestored' \cup blind')
      PROVE  /\ Vouched(head, p)' /\ Vouched(index, p)' /\ Vouched(cache, p)'
             /\ Vouched(originals, p)' /\ work'[p] \cap Findings \subseteq vouched'
  <2>1. /\ Vouched(head, p) /\ Vouched(index, p) /\ Vouched(cache, p)
        /\ Vouched(originals, p) /\ work[p] \cap Findings \subseteq vouched
    BY <1>3 DEF VouchInv
  <2>2. Vouched(head, p)' /\ Vouched(index, p)' /\ work'[p] \cap Findings \subseteq vouched'
    BY <2>1 DEF Vouched, disk
  <2>3. Vouched(cache, p)'
    BY <1>1, <1>3, <2>1 DEF Vouched
  <2>4. Vouched(originals, p)'
    BY <1>3, <2>1 DEF Vouched, NoCopies
  <2> QED BY <2>2, <2>3, <2>4
<1> QED BY <1>2, <1>3 DEF VouchInv

(* A step of a patch on trial that leaves the tip and the index alone and  *)
(* puts nothing but vouched text and the current patch in the tree.        *)
LEMMA VouchOnTrial ==
  ASSUME VouchInv, pc # "idle", pc' \in Trial, UNCHANGED <<cur, index, head, originals, vouched, unrestored, blind>>,
         \A p \in Files : cache'[p] \in {cache[p], Absent},
         ~BackupMode => \A p \in Files \ (Untracked \cup unrestored \cup blind) :
           work'[p] \cap Findings \subseteq vouched \cup (IF p \in Paths THEN {cur} ELSE {})
  PROVE  VouchInv'
<1>1. Paths' = Paths /\ pc' \notin {"add", "commit"}
  BY DEF Paths, Trial
<1> QED BY <1>1 DEF VouchInv, Vouched

LEMMA NextVouchInv == TypeInv /\ TrackedInv /\ VouchInv /\ [Next]_vars => VouchInv'
<1> SUFFICES ASSUME TypeInv, TrackedInv, VouchInv, [Next]_vars PROVE VouchInv'
  OBVIOUS
<1>0. /\ UserEdit \notin Findings /\ Torn \notin Findings /\ Crlf \notin Findings
      /\ \A p \in Files : Text(work[p]) \subseteq work[p]
  BY FindingsAssumption DEF Text
<1>1. ASSUME StartRun PROVE VouchInv'
  <2>1. pc' = "next" /\ UNCHANGED <<work, index, head, vouched, unrestored>>
        /\ (~BackupMode => DirtyPaths(FALSE) \subseteq blind' /\ blind \subseteq blind')
    BY <1>1, StartsClean DEF StartRun, GoTo, disk
  <2>2. \A p \in Files : cache'[p] \subseteq work[p] /\ originals'[p] = Absent
    BY <1>0, <1>1 DEF StartRun, Unbound, NoCopies
  <2>3. ~BackupMode => \A p \in Files \ (Untracked \cup blind') :
          index[p] = work[p] /\ index[p] # Absent
    BY <2>1 DEF DirtyPaths, Uncommitted, TrackedInv
  <2> QED BY <2>1, <2>2, <2>3 DEF VouchInv, Vouched, Trial
<1>2. ASSUME RefuseDirty \/ EndRun \/ Crash PROVE VouchInv'
  <2>1. pc' = "idle" /\ UNCHANGED <<head, vouched, unrestored, blind>> /\ index' \in {index, head}
    BY <1>2 DEF RefuseDirty, EndRun, Crash, GoTo, disk, history
  <2> QED BY <2>1 DEF VouchInv, Vouched
<1>3. ASSUME NEW f \in Findings, PassOver(f) \/ Refuse(f) \/ ComputePatch(f) \/ NoPatch(f)
      PROVE  VouchInv'
  <2>1. pc = "next" /\ pc' \in {"next", "ask", "repro"} /\ UNCHANGED <<disk, vouched, unrestored, blind>>
        /\ originals' \in {originals, NoCopies}
    BY <1>3, FinishLeaves
       DEF PassOver, Refuse, ComputePatch, NoPatch, CallFix, Eligible, GoTo, history
  <2>2. \A p \in Files : cache'[p] \in {cache[p], Text(work[p])}
    BY <1>3 DEF PassOver, Refuse, ComputePatch, NoPatch, CallFix, Seen
  <2> QED BY <2>1, <2>2, VouchSameDisk DEF Trial
<1>4. ASSUME Approve \/ Decline \/ PrepareRepro \/ AbandonChanged \/ DecodeRaises
             \/ KeepUncommitted
      PROVE  VouchInv'
  <2>1. pc \in {"ask", "repro", "check", "add", "commit"}
        /\ pc' \in {"next", "repro", "check", "raised"}
        /\ UNCHANGED <<cache, disk, vouched, unrestored, blind>> /\ originals' \in {originals, NoCopies}
    BY <1>4, FinishLeaves
       DEF Approve, Decline, PrepareRepro, AbandonChanged, DecodeRaises, KeepUncommitted, GoTo,
           mem, history
  <2> QED BY <2>1, VouchSameDisk DEF Trial
<1>5. ASSUME CheckFiles PROVE VouchInv'
  <2>1. pc = "check" /\ pc' = "prepare" /\ UNCHANGED <<cache, work, index, head, vouched, unrestored, blind>>
    BY <1>5 DEF CheckFiles, GoTo, disk, history
  <2>2. \A p \in Files : originals'[p] = Absent \/ originals'[p] \subseteq work[p]
    BY <1>0, <1>5 DEF CheckFiles
  <2> QED BY <2>1, <2>2 DEF VouchInv, Vouched, Trial
<1>6. ASSUME Prepare PROVE VouchInv'
  <2>1. pc = "prepare" /\ pc' \in Trial
        /\ UNCHANGED <<cur, cache, originals, work, index, head, vouched, unrestored, blind>>
    BY <1>6 DEF Prepare, GoTo, Trial, history
  <2>2. ~BackupMode => \A p \in Files \ (Untracked \cup unrestored \cup blind) :
          work'[p] \cap Findings \subseteq vouched \cup (IF p \in Paths THEN {cur} ELSE {})
    BY <2>1 DEF VouchInv, Trial
  <2> QED BY <2>1, <2>2, VouchOnTrial
<1>7. ASSUME NEW q \in Files, WriteFile(q) PROVE VouchInv'
  <2>1. pc = "write" /\ pc' \in Trial /\ q \in Paths
        /\ UNCHANGED <<cur, originals, index, head, vouched, unrestored, blind>>
    BY <1>7 DEF WriteFile, GoTo, Trial, history, TypeInv, Held
  <2>2. \A p \in Files : cache'[p] \in {cache[p], Absent}
    BY <1>7 DEF WriteFile, Invalidate
  <2>3. cache[q] # Absent /\ work'[q] = cache[q] \cup {cur}
        /\ \A p \in Files \ {q} : work'[p] = work[p]
    BY <1>7, TextIsContent DEF WriteFile, TypeInv, TypeOK, Held
  <2>4. ~BackupMode => \A p \in Files \ (Untracked \cup unrestored \cup blind) :
          work'[p] \cap Findings \subseteq vouched \cup (IF p \in Paths THEN {cur} ELSE {})
    BY <2>1, <2>3 DEF VouchInv, Vouched, Trial
  <2> QED BY <2>1, <2>2, <2>4, VouchOnTrial
<1>8. ASSUME NEW q \in Files, WriteFails(q) PROVE VouchInv'
  <2>1. pc = "write" /\ pc' \in Trial
        /\ UNCHANGED <<cur, cache, originals, index, head, vouched, unrestored, blind>>
    BY <1>8 DEF WriteFails, GoTo, Trial, mem, history
  <2>2. \A p \in Files : work'[p] \in {work[p], {Torn}}
    BY <1>8 DEF WriteFails, TypeInv, TypeOK
  <2>3. ~BackupMode => \A p \in Files \ (Untracked \cup unrestored \cup blind) :
          work'[p] \cap Findings \subseteq vouched \cup (IF p \in Paths THEN {cur} ELSE {})
    BY <1>0, <2>1, <2>2 DEF VouchInv, Trial
  <2> QED BY <2>1, <2>3, VouchOnTrial
<1>9. ASSUME NEW paths \in SUBSET Paths, NEW stuck, NEW torn \in SUBSET stuck,
             \A p \in Paths \ paths : Text(work[p]) = originals[p], pc \in Trial,
             work' = Restored(paths, stuck, torn), unrestored' = unrestored \cup stuck,
             \A p \in Files : cache'[p] \in {cache[p], Absent},
             Finish(cur, "failed"), UNCHANGED <<index, head, vouched, blind>>
      PROVE  VouchInv'
  <2>1. pc' = "next" /\ originals' = NoCopies /\ pc # "idle" /\ pc \in InFlight
    BY <1>9, FinishLeaves DEF Trial, InFlight
  <2>2. \A p \in Paths : originals[p] # Absent
    BY <2>1, TextIsContent DEF TypeInv, Held
  <2>3. ASSUME ~BackupMode, NEW p \in Files \ (Untracked \cup unrestored' \cup blind')
        PROVE  work'[p] \cap Findings \subseteq vouched
    <3>1. p \notin unrestored /\ p \notin stuck /\ p \notin torn /\ p \notin blind
      BY <1>9, <2>3
    <3>2. work'[p] = IF p \in paths THEN originals[p] ELSE work[p]
      BY <1>9, <3>1 DEF Restored
    <3>3. p \in Paths => originals[p] \cap Findings \subseteq vouched
      BY <2>1, <2>2, <2>3, <3>1 DEF VouchInv, Vouched
    <3>4. p \notin Paths => work[p] \cap Findings \subseteq vouched
      BY <2>1, <2>3, <3>1 DEF VouchInv
    <3>5. work[p] \cap Findings = Text(work[p]) \cap Findings
      BY <1>0 DEF Text
    <3> QED BY <1>9, <3>2, <3>3, <3>4, <3>5
  <2>4. ~BackupMode => \A p \in Files \ (Untracked \cup unrestored' \cup blind') :
          Vouched(head, p)' /\ Vouched(index, p)' /\ Vouched(cache, p)' /\ Vouched(originals, p)'
    BY <1>9, <2>1 DEF VouchInv, Vouched, NoCopies
  <2> QED BY <1>9, <2>1, <2>3, <2>4 DEF VouchInv, Trial
<1>10. ASSUME RestoreAfterFailedWrite PROVE VouchInv'
  <2>1. PICK stuck \in SUBSET Paths, torn \in SUBSET Paths :
          torn \subseteq stuck /\ work' = Restored(Paths, stuck, torn) /\ unrestored' = unrestored \cup stuck
    BY <1>10 DEF RestoreAfterFailedWrite
  <2>2. pc \in Trial /\ Finish(cur, "failed") /\ UNCHANGED <<cache, index, head, vouched, blind>>
    BY <1>10 DEF RestoreAfterFailedWrite, Trial
  <2> QED BY <1>9, <2>1, <2>2
<1>11. ASSUME RestoreIfNeeded PROVE VouchInv'
  <2> DEFINE needed == {p \in Paths : Text(work[p]) # originals[p]}
  <2>1. PICK stuck \in SUBSET needed, torn \in SUBSET needed :
          torn \subseteq stuck /\ work' = Restored(needed, stuck, torn) /\ unrestored' = unrestored \cup stuck
    BY <1>11 DEF RestoreIfNeeded
  <2>2. pc \in Trial /\ Finish(cur, "failed") /\ UNCHANGED <<index, head, vouched, blind>>
    BY <1>11 DEF RestoreIfNeeded, Trial
  <2>3. \A p \in Files : cache'[p] \in {cache[p], Absent}
    BY <1>11 DEF RestoreIfNeeded, Invalidate
  <2>4. needed \in SUBSET Paths /\ \A p \in Paths \ needed : Text(work[p]) = originals[p]
    OBVIOUS
  <2> HIDE DEF needed
  <2> QED BY <1>9, <2>1, <2>2, <2>3, <2>4
<1>12. ASSUME Confirm PROVE VouchInv'
  <2>1. pc = "confirm" /\ pc' \in {"rollback", "add"} /\ Paths' = Paths
        /\ UNCHANGED <<cur, cache, originals, work, index, head, unrestored, blind>>
    BY <1>12 DEF Confirm, GoTo, Paths, disk
  <2>2. vouched \subseteq vouched' /\ (pc' = "add" => cur \in vouched')
    BY <1>12 DEF Confirm, GoTo
  <2> QED BY <2>1, <2>2 DEF VouchInv, Vouched, Trial
<1>13. ASSUME RollBack PROVE VouchInv'
  <2>1. pc = "rollback" /\ pc' \in Trial
        /\ UNCHANGED <<cur, cache, originals, index, head, vouched, unrestored, blind>>
    BY <1>13 DEF RollBack, GoTo, Trial, history
  <2>2. ~BackupMode => \A p \in Files : work'[p] = work[p] \/ (work'[p] = index[p] /\ index[p] # Absent)
    BY <1>13 DEF RollBack
  <2>3. ~BackupMode => \A p \in Files \ (Untracked \cup unrestored \cup blind) :
          work'[p] \cap Findings \subseteq vouched \cup (IF p \in Paths THEN {cur} ELSE {})
    BY <2>1, <2>2 DEF VouchInv, Vouched, Trial
  <2> QED BY <2>1, <2>3, VouchOnTrial
<1>18. ASSUME RollBackRaises PROVE VouchInv'
  <2>1. pc = "rollback" /\ pc' = "raised" /\ UNCHANGED <<cache, originals, index, head, vouched, blind>>
        /\ unrestored' = unrestored \cup {p \in Paths : Text(work'[p]) # originals[p]}
    BY <1>18 DEF RollBackRaises, GoTo, mem
  <2>2. ~BackupMode => \A p \in Files : p \notin Paths => work'[p] = work[p]
    BY <1>18 DEF RollBackRaises
  <2>3. ASSUME ~BackupMode, NEW p \in Files \ (Untracked \cup unrestored' \cup blind')
        PROVE  work'[p] \cap Findings \subseteq vouched
    <3>1. p \in Paths => Text(work'[p]) = originals[p] /\ originals[p] # Absent
      BY <2>1, <2>3, TextIsContent DEF TypeInv, Held, InFlight
    <3>2. work'[p] \cap Findings = Text(work'[p]) \cap Findings
      BY <1>0 DEF Text
    <3>3. Vouched(originals, p) /\ (p \notin Paths => work[p] \cap Findings \subseteq vouched)
      BY <2>1, <2>3 DEF VouchInv
    <3> QED BY <2>2, <2>3, <3>1, <3>2, <3>3 DEF Vouched
  <2>4. pc' \notin Trial \cup {"add", "commit", "idle"}
    BY <2>1 DEF Trial
  <2> QED BY <2>1, <2>3, <2>4 DEF VouchInv, Vouched
<1>14. ASSUME Stage PROVE VouchInv'
  <2>1. pc = "add" /\ pc' = "commit" /\ ~BackupMode
        /\ UNCHANGED <<cur, cache, originals, work, head, vouched, unrestored, blind>>
    BY <1>14 DEF Stage, GoTo, mem, history
  <2>2. \A p \in Files : index'[p] \in {index[p], work[p]}
    BY <1>14 DEF Stage
  <2> QED BY <2>1, <2>2 DEF VouchInv, Vouched, Trial
<1>15. ASSUME Commit PROVE VouchInv'
  <2>1. pc = "commit" /\ pc' = "next" /\ originals' = NoCopies
        /\ UNCHANGED <<cache, work, vouched, unrestored, blind>>
    BY <1>15, FinishLeaves DEF Commit, history
  <2>2. \A p \in Files : index'[p] \in {index[p], work[p]} /\ head'[p] \in {head[p], work[p]}
    BY <1>15 DEF Commit
  <2>3. ~BackupMode
    BY <2>1 DEF VouchInv
  <2> QED BY <2>1, <2>2, <2>3 DEF VouchInv, Vouched, NoCopies, Trial
<1>16. ASSUME NEW q \in Files, UserEdits(q) PROVE VouchInv'
  <2>1. Paths' = Paths
        /\ UNCHANGED <<pc, cur, cache, originals, index, head, vouched, unrestored, blind>>
    BY <1>16 DEF UserEdits, Paths, mem
  <2>2. \A p \in Files : work'[p] \cap Findings = work[p] \cap Findings
    BY <1>0, <1>16 DEF UserEdits, TypeInv, TypeOK
  <2> QED BY <2>1, <2>2 DEF VouchInv, Vouched
<1>17. CASE UNCHANGED vars
  BY <1>17 DEF vars, mem, disk, history, VouchInv, Vouched, Paths
<1> QED
  BY <1>1, <1>2, <1>3, <1>4, <1>5, <1>6, <1>7, <1>8, <1>10, <1>11, <1>12, <1>13, <1>14,
     <1>15, <1>16, <1>17, <1>18
     DEF Next, Repair, Decide, Apply, Settle, Environment, Stopped

(* No patch reaches the fix branch in a tracked file unless a verdict      *)
(* accepted it in some run, whatever was killed, failed or left            *)
(* uncommitted before (git_safety.py 146-196, engine.py 256-289): but for  *)
(* what a failing restore has left, and what a failing `git status` hid.   *)
THEOREM HeadCorrect == Spec => []HeadVouched
<1>1. Spec => [](TypeInv /\ TrackedInv /\ VouchInv)
  BY InitTypeInv, NextTypeInv, InitTrackedInv, NextTrackedInv, InitVouchInv, NextVouchInv, PTL
     DEF Spec
<1>2. VouchInv => HeadVouched
  BY DEF VouchInv, Vouched, HeadVouched
<1> QED BY <1>1, <1>2, PTL

-----------------------------------------------------------------------------
(* As long as no call has failed, a file without an applied patch is byte  *)
(* for byte what the run found, and where a patch to it is on its way, so  *)
(* is the copy from which the rollback takes it back.                      *)
Intact(p) == AppliedTo(p) = {} /\ (BackupMode \/ p \notin Untracked)

Patched == {"write", "unwrite", "confirm", "rollback", "add", "commit"}

BytesInv ==
  /\ pc = "unwrite" => faults # 0
  /\ faults = 0 => unrestored = {}
  /\ faults = 0 /\ pc # "idle" =>
       \A p \in Files \ disturbed : Intact(p) =>
         /\ pc \notin Patched \/ p \notin Paths => work[p] = base[p]
         /\ BackupMode /\ p \in backedUp => orig[p] = base[p]
         /\ ~BackupMode /\ (pc # "commit" \/ p \notin Paths) => index[p] = base[p]

LEMMA InitBytesInv == Init => BytesInv
BY DEF Init, BytesInv

(* Counting a failing call: the count only grows.                          *)
LEMMA FaultsCount ==
  ASSUME TypeInv, NEW kind
  PROVE  /\ Fault(kind) => faults' # 0
         /\ NoFault => faults' = faults
         /\ \A stuck : FailsOn(stuck, kind) /\ faults' = 0 => faults = 0 /\ stuck = {}
BY DEF TypeInv, TypeOK, Fault, NoFault, FailsOn

(* A record takes no applied patch back.                                   *)
LEMMA AppliedGrows ==
  ASSUME TypeInv, NEW f \in todo, NEW status \in Statuses, Finish(f, status)
  PROVE  /\ \A p : Intact(p)' => Intact(p)
         /\ status \in Applied => \A p \in Touches[f] : ~Intact(p)'
<1>1. rec' = [rec EXCEPT ![f] = status] /\ rec[f] = None /\ f \in Findings
  BY DEF TypeInv, TypeOK, Held, Finish
<1>2. None \notin Applied
  BY FindingsAssumption DEF Statuses
<1>3. \A p : AppliedTo(p) \subseteq AppliedTo(p)'
  BY <1>1, <1>2 DEF AppliedTo, TypeInv, TypeOK
<1>4. status \in Applied => \A p \in Touches[f] : f \in AppliedTo(p)'
  BY <1>1 DEF AppliedTo, TypeInv, TypeOK
<1> QED BY <1>3, <1>4 DEF Intact

(* A step outside a patch that leaves the files and their copies alone.    *)
LEMMA BytesSameFiles ==
  ASSUME BytesInv, pc \notin Patched \cup {"idle"}, pc' \notin Patched,
         UNCHANGED <<work, index, orig, backedUp, base, disturbed, unrestored>>,
         faults' = 0 => faults = 0, \A p \in Files : Intact(p)' => Intact(p)
  PROVE  BytesInv'
BY DEF BytesInv, Patched

LEMMA NextBytesInv ==
  TypeInv /\ TrackedInv /\ TreeInv /\ RecoverInv /\ BytesInv /\ [Next]_vars => BytesInv'
<1> SUFFICES ASSUME TypeInv, TrackedInv, TreeInv, RecoverInv, BytesInv, [Next]_vars
             PROVE  BytesInv'
  OBVIOUS
<1>0. rec' = rec => \A p : Intact(p)' = Intact(p)
  BY DEF Intact, AppliedTo
<1>1. ASSUME StartRun PROVE BytesInv'
  <2>1. pc' = "next" /\ base' = work /\ backedUp' = {} /\ UNCHANGED <<work, index, unrestored>>
    BY <1>1 DEF StartRun, GoTo, disk
  <2>2. faults' = 0 => faults = 0 /\ (BackupMode \/ Uncommitted = {})
    BY <1>1, FaultsCount DEF StartRun, DirtyPaths
  <2>3. faults' = 0 /\ ~BackupMode => \A p \in Files \ Untracked : index[p] = work[p]
    BY <2>2 DEF Uncommitted, TrackedInv
  <2> QED BY <2>1, <2>2, <2>3 DEF BytesInv, Intact, Patched
<1>2. ASSUME RefuseDirty \/ EndRun \/ Crash PROVE BytesInv'
  <2>1. pc' = "idle" /\ unrestored' = unrestored /\ (faults' = 0 => faults = 0)
    BY <1>2, FaultsCount DEF RefuseDirty, EndRun, Crash, GoTo, history, bounds
  <2> QED BY <2>1 DEF BytesInv
<1>3. ASSUME NEW f \in Findings, PassOver(f) \/ ComputePatch(f) PROVE BytesInv'
  <2>1. pc = "next" /\ pc' \in {"next", "ask", "repro"} /\ rec' = rec
        /\ UNCHANGED <<work, index, orig, backedUp, base, disturbed, unrestored, faults>>
    BY <1>3 DEF PassOver, ComputePatch, CallFix, Eligible, GoTo, disk, history, bounds
  <2> QED BY <1>0, <2>1, BytesSameFiles DEF Patched
<1>4. ASSUME NEW f \in todo, NEW status \in Statuses, Finish(f, status),
             pc \notin Patched \cup {"idle"}, faults' = 0 => faults = 0,
             UNCHANGED <<work, index, orig, backedUp, base, disturbed, unrestored>>
      PROVE  BytesInv'
  <2>1. pc' \notin Patched
    BY <1>4, FinishLeaves DEF Patched
  <2> QED BY <1>4, <2>1, AppliedGrows, BytesSameFiles
<1>5. ASSUME NEW f \in Findings, Refuse(f) PROVE BytesInv'
  <2>1. f \in todo /\ Refusal(f) \in Statuses /\ Finish(f, Refusal(f)) /\ pc = "next"
    BY <1>5 DEF Refuse, Eligible, Refusal, Statuses
  <2> QED BY <1>4, <1>5, <2>1 DEF Refuse, Patched, disk, history, bounds
<1>6. ASSUME NEW f \in Findings, NoPatch(f) PROVE BytesInv'
  <2>1. f \in todo /\ "not_attempted" \in Statuses /\ Finish(f, "not_attempted") /\ pc = "next"
    BY <1>6 DEF NoPatch, CallFix, Eligible, Statuses
  <2> QED BY <1>4, <1>6, <2>1 DEF NoPatch, CallFix, Patched, disk, history, bounds
<1>7. ASSUME Approve \/ PrepareRepro \/ DecodeRaises \/ CheckFiles PROVE BytesInv'
  <2>1. pc \in {"ask", "repro", "check"} /\ pc' \in {"repro", "check", "raised", "prepare"}
        /\ rec' = rec
        /\ UNCHANGED <<work, index, orig, backedUp, base, disturbed, unrestored, faults>>
    BY <1>7 DEF Approve, PrepareRepro, DecodeRaises, CheckFiles, GoTo, mem, disk, history, bounds
  <2> QED BY <1>0, <2>1, BytesSameFiles DEF Patched
<1>8. ASSUME Decline \/ AbandonChanged PROVE BytesInv'
  <2>1. pc \in {"ask", "check"} /\ cur \in todo /\ (faults' = 0 => faults = 0)
        /\ UNCHANGED <<work, index, orig, backedUp, base, disturbed, unrestored>>
    BY <1>8, FaultsCount
       DEF Decline, AbandonChanged, disk, history, bounds, TypeInv, Held, Busy
  <2>2. PICK status \in Statuses : Finish(cur, status)
    BY <1>8 DEF Decline, AbandonChanged, Statuses
  <2>3. pc \notin Patched \cup {"idle"}
    BY <2>1 DEF Patched
  <2> QED BY <1>4, <2>1, <2>2, <2>3
<1>9. ASSUME Prepare PROVE BytesInv'
  <2>1. pc = "prepare" /\ Paths' = Paths /\ rec' = rec
        /\ UNCHANGED <<work, index, base, disturbed, unrestored>>
    BY <1>9 DEF Prepare, Paths, history
  <2>2. PICK done \in SUBSET ToBackUp :
          /\ orig' = [p \in Files |-> IF p \in done THEN work[p] ELSE orig[p]]
          /\ backedUp' = backedUp \cup done
          /\ \/ pc' = "write" /\ NoFault
             \/ pc' = "unwrite" /\ Fault("prepare")
    BY <1>9 DEF Prepare, GoTo
  <2>3. (faults' = 0 => faults = 0 /\ pc' = "write") /\ (pc' = "unwrite" => faults' # 0)
    BY <2>2, FaultsCount
  <2>4. ASSUME faults = 0, NEW p \in Files \ disturbed, Intact(p)
        PROVE  /\ work[p] = base[p]
               /\ BackupMode /\ p \in backedUp' => orig'[p] = base[p]
               /\ ~BackupMode => index[p] = base[p]
    BY <2>1, <2>2, <2>4 DEF BytesInv, Patched
  <2> QED BY <1>0, <2>1, <2>2, <2>3, <2>4 DEF BytesInv
<1>10. ASSUME NEW q \in Files, WriteFile(q) PROVE BytesInv'
  <2>1. pc = "write" /\ pc' \in {"write", "confirm"} /\ Paths' = Paths /\ q \in Paths /\ rec' = rec
        /\ UNCHANGED <<index, orig, backedUp, base, disturbed, unrestored, faults>>
        /\ \A p \in Files \ {q} : work'[p] = work[p]
    BY <1>10 DEF WriteFile, GoTo, Paths, history, bounds, TypeInv, TypeOK, Held
  <2> QED BY <1>0, <2>1 DEF BytesInv, Patched
<1>11. ASSUME NEW q \in Files, WriteFails(q) PROVE BytesInv'
  <2>1. faults' # 0
    BY <1>11, FaultsCount DEF WriteFails
  <2> QED BY <2>1 DEF BytesInv
<1>12. ASSUME RestoreAfterFailedWrite PROVE BytesInv'
  <2>1. faults # 0 /\ pc' = "next"
    BY <1>12, FinishLeaves DEF RestoreAfterFailedWrite, BytesInv
  <2>2. faults' # 0
    BY <1>12, <2>1, FaultsCount DEF RestoreAfterFailedWrite
  <2> QED BY <2>1, <2>2 DEF BytesInv
<1>13. ASSUME Confirm PROVE BytesInv'
  <2>1. pc = "confirm" /\ pc' \in {"rollback", "add"} /\ Paths' = Paths /\ rec' = rec
        /\ UNCHANGED <<work, index, orig, backedUp, base, disturbed, unrestored, faults>>
    BY <1>13 DEF Confirm, GoTo, Paths, disk, bounds
  <2> QED BY <1>0, <2>1 DEF BytesInv, Patched
<1>14. ASSUME RollBack PROVE BytesInv'
  <2> DEFINE copy == IF BackupMode THEN orig ELSE index
             able == {p \in Paths : copy[p] # Absent}
  <2>1. pc = "rollback" /\ pc' = "restore" /\ rec' = rec
        /\ UNCHANGED <<index, base, disturbed, unrestored>>
    BY <1>14 DEF RollBack, GoTo, history
  <2>2. PICK stuck \in SUBSET able :
          \E copied \in SUBSET (IF BackupMode THEN stuck ELSE {}) :
            /\ FailsOn(stuck, "rollback")
            /\ work' = [p \in Files |-> IF p \in (able \ stuck) \cup copied
                                        THEN copy[p] ELSE work[p]]
            /\ orig' = [p \in Files |-> IF BackupMode /\ p \in able \ stuck
                                        THEN Absent ELSE orig[p]]
            /\ backedUp' = IF BackupMode THEN backedUp \ able ELSE backedUp
    BY <1>14 DEF RollBack
  <2>3. faults' = 0 => faults = 0 /\ stuck = {}
    BY <2>2, FaultsCount
  <2>4. faults' = 0 => \A p \in Files : work'[p] = IF p \in able THEN copy[p] ELSE work[p]
    <3> HIDE DEF able, copy
    <3> QED BY <2>2, <2>3
  <2>5. BackupMode => \A p \in backedUp' : p \in Files => orig'[p] = orig[p] /\ p \in backedUp
    <3> HIDE DEF able, copy
    <3> QED BY <2>2
  <2>6. BackupMode => Paths \subseteq backedUp
    BY <2>1 DEF RecoverInv
  <2>7. ASSUME faults' = 0, NEW p \in Files \ disturbed, Intact(p)
        PROVE  work'[p] = base[p]
    <3>1. CASE p \notin Paths
      BY <2>1, <2>3, <2>4, <2>7, <3>1 DEF BytesInv
    <3>2. CASE p \in Paths
      <4>1. copy[p] = base[p]
        BY <2>1, <2>3, <2>6, <2>7, <3>2 DEF BytesInv
      <4>2. copy[p] # Absent
        BY <2>6, <2>7, <3>2 DEF RecoverInv, TrackedInv, Intact
      <4> QED BY <2>4, <2>7, <3>2, <4>1, <4>2
    <3> QED BY <3>1, <3>2
  <2>8. ASSUME faults' = 0, NEW p \in Files \ disturbed, Intact(p)
        PROVE  /\ BackupMode /\ p \in backedUp' => orig'[p] = base[p]
               /\ ~BackupMode => index[p] = base[p]
    BY <2>1, <2>3, <2>5, <2>8 DEF BytesInv
  <2> HIDE DEF able, copy
  <2> QED BY <1>0, <2>1, <2>3, <2>7, <2>8 DEF BytesInv
<1>20. ASSUME RollBackRaises PROVE BytesInv'
  <2>1. pc' = "raised" /\ faults' # 0
    BY <1>20, FaultsCount DEF RollBackRaises, GoTo
  <2> QED BY <2>1 DEF BytesInv
<1>15. ASSUME RestoreIfNeeded PROVE BytesInv'
  <2> DEFINE needed == {p \in Paths : Text(work[p]) # originals[p]}
  <2>1. PICK stuck \in SUBSET needed, torn \in SUBSET needed :
          /\ torn \subseteq stuck /\ FailsOn(stuck, "restore")
          /\ work' = Restored(needed, stuck, torn)
          /\ unrestored' = unrestored \cup stuck
    BY <1>15 DEF RestoreIfNeeded
  <2>2. pc = "restore" /\ pc' = "next" /\ cur \in todo /\ Finish(cur, "failed")
        /\ UNCHANGED <<index, orig, backedUp, base, disturbed>>
    BY <1>15, FinishLeaves DEF RestoreIfNeeded, TypeInv, Held, Busy, InFlight
  <2>3. faults' = 0 => faults = 0 /\ stuck = {} /\ torn = {} /\ unrestored' = {}
    BY <2>1, FaultsCount DEF BytesInv
  <2>4. \A p : Intact(p)' => Intact(p)
    BY <2>2, AppliedGrows DEF Statuses
  <2>5. ASSUME faults' = 0, NEW p \in Files \ disturbed, Intact(p)
        PROVE  work'[p] = base[p]
    <3>1. work[p] = base[p]
      BY <2>2, <2>3, <2>5 DEF BytesInv, Patched
    <3>2. p \in Paths => originals[p] = Text(base[p])
      BY <2>2, <2>3, <2>5 DEF TreeInv, BytesInv, Answerable, InFlight, Recorded, Intact
    <3>3. p \notin needed
      BY <3>1, <3>2
    <3> HIDE DEF needed
    <3> QED BY <2>1, <2>3, <2>5, <3>1, <3>3 DEF Restored
  <2>6. ASSUME faults' = 0, NEW p \in Files \ disturbed, Intact(p)
        PROVE  /\ BackupMode /\ p \in backedUp => orig[p] = base[p]
               /\ ~BackupMode => index[p] = base[p]
    BY <2>2, <2>3, <2>6 DEF BytesInv
  <2> HIDE DEF needed
  <2> QED BY <2>2, <2>3, <2>4, <2>5, <2>6 DEF BytesInv
<1>16. ASSUME Stage PROVE BytesInv'
  <2>1. pc = "add" /\ pc' = "commit" /\ Paths' = Paths /\ rec' = rec
        /\ UNCHANGED <<work, orig, backedUp, base, disturbed, unrestored, faults>>
        /\ \A p \in Files \ Paths : index'[p] = index[p]
    BY <1>16 DEF Stage, GoTo, Paths, mem, history, bounds
  <2> QED BY <1>0, <2>1 DEF BytesInv, Patched
<1>17. ASSUME Commit \/ KeepUncommitted PROVE BytesInv'
  <2>1. pc \in {"add", "commit"} /\ Finish(cur, verdict)
        /\ UNCHANGED <<work, orig, backedUp, base, disturbed, unrestored>>
    BY <1>17 DEF Commit, KeepUncommitted, disk, history
  <2>2. cur \in todo /\ verdict \in Applied /\ verdict \in Statuses /\ pc' = "next"
    BY <2>1, FinishLeaves DEF TypeInv, Held, Busy, InFlight, Statuses
  <2>3. \A p \in Files : Intact(p)' => Intact(p) /\ p \notin Paths
    BY <2>1, <2>2, AppliedGrows DEF Paths
  <2>4. faults' = 0 => faults = 0
    BY <1>17, FaultsCount DEF Commit, KeepUncommitted, bounds
  <2>5. \A p \in Files \ Paths : index'[p] = index[p]
    BY <1>17 DEF Commit, KeepUncommitted, disk
  <2> QED BY <2>1, <2>2, <2>3, <2>4, <2>5 DEF BytesInv, Patched
<1>18. ASSUME NEW q \in Files, UserEdits(q) PROVE BytesInv'
  <2>1. Paths' = Paths /\ rec' = rec /\ disturbed' = disturbed \cup {q}
        /\ UNCHANGED <<pc, index, orig, backedUp, base, unrestored, faults>>
        /\ \A p \in Files \ {q} : work'[p] = work[p]
    BY <1>18 DEF UserEdits, Paths, mem, TypeInv, TypeOK
  <2> QED BY <1>0, <2>1 DEF BytesInv
<1>19. CASE UNCHANGED vars
  BY <1>0, <1>19 DEF vars, mem, disk, history, bounds, BytesInv, Paths
<1> QED
  BY <1>1, <1>2, <1>3, <1>5, <1>6, <1>7, <1>8, <1>9, <1>10, <1>11, <1>12, <1>13, <1>14,
     <1>15, <1>16, <1>17, <1>18, <1>19, <1>20
     DEF Next, Repair, Decide, Apply, Settle, Environment, Stopped

(* If nothing failed but the validation, a rolled-back file is restored    *)
(* byte for byte, line ends included (git_safety.py 265-285).              *)
THEOREM BytesCorrect == Spec => []RollbackRestoresBytes
<1>1. Init => TreeInv /\ RecoverInv
  BY DEF Init, TreeInv, RecoverInv
<1>2. Spec => [](TypeInv /\ TrackedInv /\ TreeInv /\ RecoverInv /\ BytesInv)
  BY <1>1, InitTypeInv, NextTypeInv, InitTrackedInv, NextTrackedInv, NextTreeInv,
     NextRecoverInv, InitBytesInv, NextBytesInv, PTL DEF Spec
<1>3. BytesInv => RollbackRestoresBytes
  BY DEF BytesInv, RollbackRestoresBytes, Intact, AtRest, Patched
<1> QED BY <1>2, <1>3, PTL
================================================================================
