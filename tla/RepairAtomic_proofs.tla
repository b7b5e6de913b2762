-------------------------- MODULE RepairAtomic_proofs --------------------------
(***************************************************************************)
(* The repair loop implements AtomicRepair under the reading TreeSeen and  *)
(* TipSeen: over every run, whichever read, backup, write, git call,       *)
(* validation or restore fails, wherever the process is killed and         *)
(* whatever the developer saves meanwhile.                                 *)
(***************************************************************************)
EXTENDS RepairLoop_proofs

(* The files of which AtomicRepair promises nothing.                       *)
Lost == unrestored \cup blind

(* The patches in a file as a caller sees them.                            *)
SeenIn(p) == Findings \cap (IF pc \in InFlight /\ p \in Paths THEN originals[p] ELSE work[p])

(* What is written is what was read plus the current patch, whatever marks *)
(* of other people are lost or added on the way.                           *)
WholeInv ==
  /\ pc \in {"prepare", "write"} =>
       \A p \in Paths : cache[p] \cap Findings = originals[p] \cap Findings
  /\ pc \in {"write"} \cup Written =>
       \A p \in Paths :
         (pc = "write" /\ p \in toWrite)
         \/ work[p] \cap Findings = (originals[p] \cap Findings) \cup {cur}

(* While a patch is in flight its files hold what they held, and the patch.*)
NothingElse ==
  /\ pc = "prepare" => \A p \in Paths : work[p] \cap Findings = originals[p] \cap Findings
  /\ pc \in InFlight =>
       \A p \in Paths \ Lost : work[p] \cap Findings \subseteq originals[p] \cup {cur}

(* The backup of a file has no patch that a caller does not see in it, so  *)
(* that copying it back cannot resurrect one.                              *)
BackupOlder ==
  BackupMode /\ pc # "idle" =>
    /\ \A p \in backedUp \ Lost :
         orig[p] # Absent /\ orig[p] \cap Findings \subseteq SeenIn(p)
    /\ pc \in {"write", "confirm", "rollback"} => Paths \subseteq backedUp

(* Nor has the index, but for the patch that is about to be committed.     *)
Staged(p) == IF pc = "commit" /\ p \in Paths THEN {cur} ELSE {}
IndexOlder ==
  ~BackupMode /\ pc # "idle" =>
    \A p \in Files \ Lost :
      index[p] # Absent => index[p] \cap Findings \subseteq SeenIn(p) \cup Staged(p)

OlderInv == NothingElse /\ BackupOlder /\ IndexOlder

-----------------------------------------------------------------------------
LEMMA SameSeen ==
  ASSUME \A p \in Files : SeenIn(p)' = SeenIn(p)
  PROVE  TreeSeen' = TreeSeen
BY DEF TreeSeen, SeenIn

(* Outside a patch, what is seen of a file is what it holds.               *)
LEMMA SeenAtRest ==
  /\ pc \notin InFlight => \A p : SeenIn(p) = Findings \cap work[p]
  /\ pc' \notin InFlight => \A p : SeenIn(p)' = Findings \cap work'[p]
BY DEF SeenIn

(* Within a patch, its files are seen as they were.                        *)
LEMMA SeenInFlight ==
  ASSUME pc \in InFlight, pc' \in InFlight, UNCHANGED <<cur, originals>>,
         \A p \in Files \ Paths : work'[p] = work[p]
  PROVE  Paths' = Paths /\ TreeSeen' = TreeSeen /\ \A p \in Files : SeenIn(p)' = SeenIn(p)
<1>1. Paths' = Paths
  BY DEF Paths
<1> QED BY <1>1, SameSeen DEF SeenIn

(* The marks that are not findings are no findings.                        *)
LEMMA MarksApart ==
  /\ UserEdit \notin Findings /\ Torn \notin Findings /\ Crlf \notin Findings
  /\ \A c : Findings \cap Text(c) = Findings \cap c
BY FindingsAssumption DEF Text

-----------------------------------------------------------------------------
LEMMA NextWholeInv == TypeInv /\ TreeInv /\ WholeInv /\ [Next]_vars => WholeInv'
<1> SUFFICES ASSUME TypeInv, TreeInv, WholeInv, [Next]_vars PROVE WholeInv'
  OBVIOUS
<1> DEFINE Open == {"prepare", "write"} \cup Written
<1>0. UserEdit \notin Findings /\ Torn \notin Findings /\ Crlf \notin Findings
  BY FindingsAssumption
<1>1. ASSUME pc' \notin Open PROVE WholeInv'
  BY <1>1 DEF WholeInv
<1>2. CASE StartRun \/ Decline \/ PrepareRepro \/ Approve \/ AbandonChanged \/ DecodeRaises
           \/ RestoreAfterFailedWrite \/ RollBack \/ RollBackRaises \/ RestoreIfNeeded \/ Commit
           \/ KeepUncommitted \/ EndRun \/ Crash
  BY <1>1, <1>2
     DEF StartRun, Decline, PrepareRepro, Approve, AbandonChanged, DecodeRaises,
         RestoreAfterFailedWrite, RollBack, RollBackRaises, RestoreIfNeeded, Commit,
         KeepUncommitted, EndRun, Crash, Finish, GoTo, Written, Lost
<1>3. ASSUME NEW f \in Findings, PassOver(f) \/ Refuse(f) \/ ComputePatch(f) \/ NoPatch(f)
      PROVE  WholeInv'
  BY <1>1, <1>3 DEF PassOver, Refuse, ComputePatch, NoPatch, CallFix, Eligible, Finish, GoTo, Written
<1>4. CASE RefuseDirty
  BY <1>1, <1>4 DEF RefuseDirty, Written
<1>5. ASSUME CheckFiles PROVE WholeInv'
  <2>1. pc' = "prepare" /\ Paths' = Paths /\ Paths \subseteq Files
        /\ \A p \in Paths : cache'[p] = Text(work[p])
    BY <1>5, TouchesFiles
       DEF CheckFiles, ChangedOnDisk, GoTo, Paths, TypeInv, TypeOK, Held, Busy
  <2>2. \A p \in Paths : originals'[p] = Text(work[p])
    BY <1>5, <2>1 DEF CheckFiles
  <2> QED BY <2>1, <2>2 DEF WholeInv, Written
<1>6. ASSUME Prepare PROVE WholeInv'
  <2>1. pc = "prepare" /\ pc' \in {"write", "unwrite"} /\ Paths' = Paths
        /\ UNCHANGED <<cur, cache, originals, toWrite, work>>
    BY <1>6 DEF Prepare, GoTo, Paths
  <2>2. toWrite = Paths
    BY <2>1 DEF TreeInv
  <2> QED BY <2>1, <2>2 DEF WholeInv, Written
<1>7. ASSUME NEW q \in Files, WriteFile(q) PROVE WholeInv'
  <2>1. pc = "write" /\ pc' \in {"write", "confirm"} /\ Paths' = Paths /\ cur \in Findings
        /\ q \in Paths /\ UNCHANGED <<cur, originals>>
    BY <1>7 DEF WriteFile, GoTo, Paths, TypeInv, TypeOK, Held, Busy, InFlight
  <2>2. /\ toWrite' = toWrite \ {q} /\ \A p \in Files \ {q} : work'[p] = work[p]
        /\ work'[q] = cache[q] \cup {cur}
        /\ pc' = "write" => cache' = cache
        /\ pc' = "confirm" => toWrite = {q}
    BY <1>7 DEF WriteFile, GoTo, TypeInv, TypeOK
  <2>3. work'[q] \cap Findings = (originals[q] \cap Findings) \cup {cur}
    BY <2>1, <2>2 DEF WholeInv
  <2>4. Paths \subseteq Files
    BY <2>1, TouchesFiles DEF Paths
  <2> QED BY <2>1, <2>2, <2>3, <2>4 DEF WholeInv, Written
<1>8. ASSUME NEW q \in Files, WriteFails(q) PROVE WholeInv'
  BY <1>1, <1>8 DEF WriteFails, GoTo, Written
<1>9. ASSUME Confirm \/ Stage PROVE WholeInv'
  <2>1. pc \in {"confirm", "add"} /\ pc' \in {"rollback", "add", "commit"} /\ Paths' = Paths
        /\ UNCHANGED <<cur, originals, work>>
    BY <1>9 DEF Confirm, Stage, GoTo, Paths, mem, disk
  <2> QED BY <2>1 DEF WholeInv, Written
<1>10. ASSUME NEW q \in Files, UserEdits(q) PROVE WholeInv'
  <2>1. Paths' = Paths /\ UNCHANGED <<pc, cur, cache, originals, toWrite>>
    BY <1>10 DEF UserEdits, Paths, mem
  <2>2. \A p \in Files : work'[p] \cap Findings = work[p] \cap Findings
    BY <1>0, <1>10 DEF UserEdits, TypeInv, TypeOK
  <2>3. pc \in {"write"} \cup Written => Paths \subseteq Files
    BY TouchesFiles DEF Written, Paths, TypeInv, TypeOK, Held, Busy, InFlight
  <2> QED BY <2>1, <2>2, <2>3 DEF WholeInv
<1>11. CASE UNCHANGED vars
  BY <1>11 DEF vars, mem, disk, WholeInv, Paths
<1> QED
  BY <1>2, <1>3, <1>4, <1>5, <1>6, <1>7, <1>8, <1>9, <1>10, <1>11
     DEF Next, Repair, Decide, Apply, Settle, Environment, Stopped

-----------------------------------------------------------------------------
(* A step that leaves the disk and shows the same keeps OlderInv, given    *)
(* what it says of the step's own place.                                   *)
LEMMA OlderKept ==
  ASSUME OlderInv, pc # "idle", UNCHANGED <<index, orig>>,
         Lost \subseteq Lost', backedUp' \subseteq backedUp,
         \A p \in Files \ Lost' : SeenIn(p) \subseteq SeenIn(p)',
         backedUp \subseteq Files,
         pc' # "commit",
         \A p \in Files \ Lost' : Staged(p) \subseteq SeenIn(p)',
         NothingElse',
         BackupMode /\ pc' \in {"write", "confirm", "rollback"} => Paths' \subseteq backedUp'
  PROVE  OlderInv'
<1>1. BackupOlder'
  <2>1. ASSUME BackupMode, NEW p \in backedUp' \ Lost'
        PROVE  orig'[p] # Absent /\ orig'[p] \cap Findings \subseteq SeenIn(p)'
    BY <2>1 DEF OlderInv, BackupOlder
  <2> QED BY <2>1 DEF BackupOlder
<1>2. IndexOlder'
  <2>1. ASSUME ~BackupMode, NEW p \in Files \ Lost', index'[p] # Absent
        PROVE  index'[p] \cap Findings \subseteq SeenIn(p)'
    BY <2>1 DEF OlderInv, IndexOlder
  <2> QED BY <2>1 DEF IndexOlder
<1> QED BY <1>1, <1>2 DEF OlderInv

(* A finding is recorded, and its patch is seen in its files or not at all.*)
LEMMA OlderFinished ==
  ASSUME TypeInv, OlderInv, pc # "idle", NEW f, NEW status, Finish(f, status),
         UNCHANGED <<index, orig>>, backedUp' = backedUp, Lost \subseteq Lost',
         \A p \in Files \ Lost' : SeenIn(p) \cup Staged(p) \subseteq SeenIn(p)'
  PROVE  OlderInv'
<1>1. pc' = "next"
  BY DEF Finish, GoTo
<1>2. NothingElse'
  BY <1>1 DEF NothingElse, InFlight
<1> QED BY <1>1, <1>2, OlderKept DEF TypeInv, TypeOK
(* A developer's save changes no patch.                                    *)
LEMMA EditSeen ==
  ASSUME TypeInv, NEW q \in Files, UserEdits(q)
  PROVE  /\ UNCHANGED <<TreeSeen, TipSeen, rec>> /\ Paths' = Paths
         /\ \A p \in Files : SeenIn(p)' = SeenIn(p) /\ work'[p] \cap Findings = work[p] \cap Findings
<1>1. Paths' = Paths /\ UNCHANGED <<pc, originals, rec, head>>
  BY DEF UserEdits, Paths, mem
<1>2. \A p \in Files : work'[p] \cap Findings = work[p] \cap Findings
  BY FindingsAssumption DEF UserEdits, TypeInv, TypeOK
<1>3. \A p \in Files : SeenIn(p)' = SeenIn(p)
  BY <1>1, <1>2 DEF SeenIn
<1>4. TipSeen' = TipSeen
  BY <1>1 DEF TipSeen
<1> QED BY <1>1, <1>2, <1>3, <1>4, SameSeen

(* The patch is seen when its repair is recorded, and not before.          *)
LEMMA AcceptSeen ==
  ASSUME TypeInv, WholeInv, Commit \/ KeepUncommitted
  PROVE  /\ cur \in Findings /\ Finish(cur, verdict) /\ work' = work
         /\ \A p \in Files : SeenIn(p)' = Findings \cap work[p]
         /\ \A p \in Files :
              SeenIn(p)' = IF p \in Touches[cur] THEN SeenIn(p) \cup {cur} ELSE SeenIn(p)
<1>1. pc \in {"add", "commit"} /\ Finish(cur, verdict) /\ work' = work
  BY DEF Commit, KeepUncommitted, disk
<1>2. cur \in Findings /\ pc' = "next"
  BY <1>1 DEF TypeInv, TypeOK, Held, Busy, InFlight, Finish, GoTo
<1>3. ASSUME NEW p \in Files
      PROVE  /\ SeenIn(p)' = Findings \cap work[p]
             /\ SeenIn(p)' = IF p \in Touches[cur] THEN SeenIn(p) \cup {cur} ELSE SeenIn(p)
  <2>1. SeenIn(p)' = Findings \cap work[p]
    BY <1>1, <1>2, SeenAtRest DEF InFlight
  <2>2. SeenIn(p) = IF p \in Paths THEN Findings \cap originals[p] ELSE Findings \cap work[p]
    BY <1>1 DEF SeenIn, InFlight
  <2>3. p \in Paths => work[p] \cap Findings = (originals[p] \cap Findings) \cup {cur}
    BY <1>1 DEF WholeInv, Written
  <2> QED BY <2>1, <2>2, <2>3 DEF Paths
<1> QED BY <1>1, <1>2, <1>3

(* What a restore shows: the files it writes, or need not write, as before;*)
(* in one that is stuck, at most the patch itself besides.                 *)
LEMMA RestoreSeen ==
  ASSUME TypeInv, OlderInv, pc \in InFlight, pc' = "next",
         NEW paths \in SUBSET Paths, NEW stuck \in SUBSET paths, NEW torn \in SUBSET stuck,
         \A p \in Paths \ paths : Text(work[p]) = originals[p],
         work' = Restored(paths, stuck, torn)
  PROVE  /\ \A p \in Files \ stuck : SeenIn(p)' = SeenIn(p)
         /\ \A p \in (Files \cap stuck) \ Lost : SeenIn(p)' \subseteq SeenIn(p) \cup {cur}
<1>1. \A p : SeenIn(p)' = Findings \cap work'[p]
  BY SeenAtRest DEF InFlight
<1>2. ASSUME NEW p \in Files
      PROVE  work'[p] = IF p \in torn THEN {Torn} ELSE IF p \in paths \ stuck THEN originals[p] ELSE work[p]
  BY <1>2 DEF Restored
<1>3. ASSUME NEW p \in Files \ stuck PROVE SeenIn(p)' = SeenIn(p)
  <2>1. work'[p] = IF p \in paths THEN originals[p] ELSE work[p]
    BY <1>2, <1>3
  <2>2. p \in Paths \ paths => Findings \cap work[p] = Findings \cap originals[p]
    BY MarksApart
  <2> QED BY <1>1, <2>1, <2>2 DEF SeenIn
<1>4. ASSUME NEW p \in (Files \cap stuck) \ Lost PROVE SeenIn(p)' \subseteq SeenIn(p) \cup {cur}
  <2>1. p \in Paths \ Lost /\ SeenIn(p) = Findings \cap originals[p]
    BY <1>4 DEF SeenIn
  <2>2. work[p] \cap Findings \subseteq originals[p] \cup {cur}
    BY <2>1 DEF OlderInv, NothingElse
  <2>3. work'[p] = {Torn} \/ work'[p] = work[p]
    BY <1>2, <1>4
  <2> QED BY <1>1, <2>1, <2>2, <2>3, MarksApart
<1> QED BY <1>3, <1>4

(* Both calls of _restore, in the terms of RestoreSeen.                    *)
LEMMA RestoreSteps ==
  ASSUME TypeInv, RestoreAfterFailedWrite \/ RestoreIfNeeded
  PROVE  /\ pc \in {"unwrite", "restore"} /\ cur \in todo /\ Finish(cur, "failed")
         /\ UNCHANGED <<backedUp, index, head, orig>>
         /\ \E paths \in SUBSET Paths : \E stuck \in SUBSET paths : \E torn \in SUBSET stuck :
              /\ \A p \in Paths \ paths : Text(work[p]) = originals[p]
              /\ work' = Restored(paths, stuck, torn)
              /\ Lost' = Lost \cup stuck
              /\ stuck = {} \/ faults' > faults
<1>1. \A stuck : FailsOn(stuck, "restore") => stuck = {} \/ faults' > faults
  BY DEF FailsOn, Fault, TypeInv, TypeOK
<1>2. CASE RestoreAfterFailedWrite
  <2>1. \E stuck \in SUBSET Paths : \E torn \in SUBSET stuck :
          FailsOn(stuck, "restore") /\ work' = Restored(Paths, stuck, torn)
          /\ Lost' = Lost \cup stuck
    BY <1>2 DEF RestoreAfterFailedWrite, Lost
  <2>2. Paths \in SUBSET Paths /\ \A p \in Paths \ Paths : Text(work[p]) = originals[p]
    OBVIOUS
  <2> QED BY <1>1, <1>2, <2>1, <2>2 DEF RestoreAfterFailedWrite, TypeInv, Held, Busy, InFlight
<1>3. CASE RestoreIfNeeded
  <2> DEFINE needed == {p \in Paths : Text(work[p]) # originals[p]}
  <2>1. \E stuck \in SUBSET needed : \E torn \in SUBSET stuck :
          FailsOn(stuck, "restore") /\ work' = Restored(needed, stuck, torn)
          /\ Lost' = Lost \cup stuck
    BY <1>3 DEF RestoreIfNeeded, Lost
  <2>2. needed \in SUBSET Paths /\ \A p \in Paths \ needed : Text(work[p]) = originals[p]
    OBVIOUS
  <2> HIDE DEF needed
  <2> QED BY <1>1, <1>3, <2>1, <2>2 DEF RestoreIfNeeded, TypeInv, Held, Busy, InFlight
<1> QED BY <1>2, <1>3

(* A rollback that raises leaves the patch in some files, and puts in none *)
(* of them what was not seen in it before.                                 *)
LEMMA RaiseSeen ==
  ASSUME TypeInv, OlderInv, RollBackRaises
  PROVE  /\ pc = "rollback" /\ pc' = "raised" /\ ~BackupMode /\ faults' > faults
         /\ UNCHANGED <<mem, index, head, orig>> /\ cur \in todo /\ cur \in Findings
         /\ \E stuck \in SUBSET Paths :
              /\ Lost' = Lost \cup stuck
              /\ \A p \in Files \ stuck : SeenIn(p)' = SeenIn(p)
              /\ \A p \in stuck \ Lost : p \in Files /\ SeenIn(p)' \subseteq SeenIn(p) \cup {cur}
<1> DEFINE stuck == {p \in Paths : Text(work'[p]) # originals[p]}
<1>1. /\ pc = "rollback" /\ pc' = "raised" /\ ~BackupMode /\ faults' > faults
      /\ UNCHANGED <<mem, index, head, orig>> /\ Lost' = Lost \cup stuck
      /\ \A p \in Files : work'[p] = work[p] \/ (p \in Paths /\ index[p] # Absent /\ work'[p] = index[p])
  BY DEF RollBackRaises, Fault, GoTo, TypeInv, TypeOK, Lost
<1>2. cur \in todo /\ cur \in Findings /\ Paths \subseteq Files
  BY <1>1, TouchesFiles DEF TypeInv, TypeOK, Held, Busy, InFlight, Paths
<1>3. \A p : /\ SeenIn(p)' = Findings \cap work'[p]
             /\ SeenIn(p) = Findings \cap (IF p \in Paths THEN originals[p] ELSE work[p])
  BY <1>1 DEF SeenIn, InFlight
<1>4. ASSUME NEW p \in Files \ stuck PROVE SeenIn(p)' = SeenIn(p)
  <2>1. p \in Paths => Findings \cap work'[p] = Findings \cap originals[p]
    BY <1>4, MarksApart
  <2>2. p \notin Paths => work'[p] = work[p]
    BY <1>1
  <2> QED BY <1>3, <2>1, <2>2
<1>5. ASSUME NEW p \in stuck \ Lost PROVE p \in Files /\ SeenIn(p)' \subseteq SeenIn(p) \cup {cur}
  <2>1. p \in Paths /\ p \in Files
    BY <1>2
  <2>2. work[p] \cap Findings \subseteq originals[p] \cup {cur}
    BY <1>1, <1>5, <2>1 DEF OlderInv, NothingElse, InFlight
  <2>3. index[p] # Absent => index[p] \cap Findings \subseteq SeenIn(p)
    BY <1>1, <1>5, <2>1 DEF OlderInv, IndexOlder, Staged
  <2> HIDE DEF stuck
  <2> QED BY <1>1, <1>3, <2>1, <2>2, <2>3
<1>6. stuck \in SUBSET Paths
  OBVIOUS
<1> HIDE DEF stuck
<1> QED BY <1>1, <1>2, <1>4, <1>5, <1>6

-----------------------------------------------------------------------------
LEMMA NextOlderInv == TypeInv /\ WholeInv /\ OlderInv /\ [Next]_vars => OlderInv'
<1> SUFFICES ASSUME TypeInv, WholeInv, OlderInv, [Next]_vars PROVE OlderInv'
  OBVIOUS
<1>1. CASE StartRun
  <2>1. pc' = "next" /\ backedUp' = {} /\ UNCHANGED <<index, work>>
    BY <1>1 DEF StartRun, GoTo, disk
  <2>2. ASSUME ~BackupMode, NEW p \in Files \ Lost', index[p] # Absent PROVE index[p] = work[p]
    BY <1>1, <2>2, StartsClean DEF DirtyPaths, Uncommitted, Lost
  <2>3. \A p : SeenIn(p)' = Findings \cap work[p]
    BY <2>1, SeenAtRest DEF InFlight
  <2> QED BY <2>1, <2>2, <2>3 DEF OlderInv, NothingElse, BackupOlder, IndexOlder, InFlight
<1>2. ASSUME pc' = "idle" PROVE OlderInv'
  BY <1>2 DEF OlderInv, NothingElse, BackupOlder, IndexOlder, InFlight
<1>3. CASE RefuseDirty \/ EndRun \/ Crash
  BY <1>2, <1>3 DEF RefuseDirty, EndRun, Crash, GoTo, Lost
<1>4. ASSUME pc # "idle", pc \notin InFlight, pc' \notin InFlight,
             UNCHANGED <<work, index, orig, Lost, backedUp>>
      PROVE  OlderInv'
  <2>1. \A p : SeenIn(p)' = SeenIn(p) /\ Staged(p) = {}
    BY <1>4, SeenAtRest DEF Staged, InFlight
  <2>2. NothingElse'
    BY <1>4 DEF NothingElse, InFlight
  <2> QED BY <1>4, <2>1, <2>2, OlderKept DEF InFlight, TypeInv, TypeOK
<1>5. ASSUME NEW f \in Findings, PassOver(f) \/ Refuse(f) \/ ComputePatch(f) \/ NoPatch(f)
      PROVE  OlderInv'
  BY <1>4, <1>5
     DEF PassOver, Refuse, ComputePatch, NoPatch, CallFix, Eligible, Finish, GoTo, InFlight, disk, history, Lost
<1>6. CASE Approve \/ Decline \/ PrepareRepro \/ AbandonChanged \/ DecodeRaises
  BY <1>4, <1>6
     DEF Approve, Decline, PrepareRepro, AbandonChanged, DecodeRaises, Finish, GoTo, InFlight, mem, disk, history, Lost
<1>7. CASE CheckFiles
  <2>1. pc = "check" /\ pc' = "prepare" /\ Paths' = Paths
        /\ UNCHANGED <<cur, work, index, orig, Lost, backedUp>>
    BY <1>7 DEF CheckFiles, GoTo, Paths, disk, history, Lost
  <2>2. \A p \in Files : p \in Paths => originals'[p] = Text(work[p])
    BY <1>7 DEF CheckFiles
  <2>3. Paths \subseteq Files
    BY <2>1, TouchesFiles DEF Paths, TypeInv, TypeOK, Held, Busy
  <2>4. \A p \in Files : SeenIn(p)' = SeenIn(p) /\ Staged(p) = {}
    BY <2>1, <2>2, MarksApart DEF SeenIn, Staged, InFlight
  <2>5. NothingElse'
    BY <2>1, <2>2, <2>3, MarksApart DEF NothingElse
  <2> QED BY <2>1, <2>4, <2>5, OlderKept DEF TypeInv, TypeOK
<1>8. CASE Prepare
  <2>1. pc = "prepare" /\ pc' \in {"write", "unwrite"} /\ Paths' = Paths
        /\ UNCHANGED <<cur, originals, work, index, Lost>>
    BY <1>8 DEF Prepare, GoTo, Paths, history, Lost
  <2>2. /\ \A p \in Files : SeenIn(p)' = SeenIn(p) /\ Staged(p) = {}
        /\ Paths \subseteq Files
    BY <2>1, SeenInFlight, TouchesFiles DEF Staged, InFlight, Paths, TypeInv, TypeOK, Held, Busy
  <2>3. NothingElse'
    BY <2>1, <2>2 DEF OlderInv, NothingElse, InFlight
  <2>4. IndexOlder'
    BY <2>1, <2>2 DEF OlderInv, IndexOlder, Staged
  <2>5. PICK done \in SUBSET ToBackUp :
          /\ orig' = [p \in Files |-> IF p \in done THEN work[p] ELSE orig[p]]
          /\ backedUp' = backedUp \cup done
          /\ pc' = "write" => done = ToBackUp
    BY <1>8 DEF Prepare, GoTo
  <2>6. ASSUME BackupMode, NEW p \in backedUp' \ Lost'
        PROVE  orig'[p] # Absent /\ orig'[p] \cap Findings \subseteq SeenIn(p)'
    <3>1. CASE p \in done
      <4>1. p \in Paths /\ p \in Files /\ orig'[p] = work[p]
        BY <2>2, <2>5, <3>1 DEF ToBackUp
      <4>2. SeenIn(p)' = Findings \cap originals[p]
        BY <2>1, <2>2, <4>1 DEF SeenIn, InFlight
      <4>3. work[p] \cap Findings = originals[p] \cap Findings
        BY <2>1, <2>6, <4>1 DEF OlderInv, NothingElse
      <4> QED BY <4>1, <4>2, <4>3, TextIsContent DEF TypeInv, TypeOK
    <3>2. CASE p \notin done
      BY <2>1, <2>2, <2>5, <2>6, <3>2 DEF OlderInv, BackupOlder, TypeInv, TypeOK
    <3> QED BY <3>1, <3>2
  <2>7. BackupMode /\ pc' = "write" => Paths' \subseteq backedUp'
    BY <2>1, <2>5 DEF ToBackUp
  <2>8. BackupOlder'
    BY <2>1, <2>6, <2>7 DEF BackupOlder
  <2> QED BY <2>3, <2>4, <2>8 DEF OlderInv
<1>9. ASSUME NEW q \in Files, WriteFile(q) \/ WriteFails(q) PROVE OlderInv'
  <2>1. pc = "write" /\ pc' \in {"write", "confirm", "unwrite"} /\ q \in Paths /\ Paths \subseteq Files
        /\ UNCHANGED <<cur, originals, index, orig, Lost, backedUp>>
    BY <1>9, TouchesFiles
       DEF WriteFile, WriteFails, GoTo, Paths, mem, history, TypeInv, TypeOK, Held, Busy, InFlight, Lost
  <2>2. /\ \A p \in Files \ {q} : work'[p] = work[p]
        /\ work'[q] \in {cache[q] \cup {cur}, {Torn}, work[q]}
    BY <1>9 DEF WriteFile, WriteFails, TypeInv, TypeOK
  <2>3. /\ Paths' = Paths /\ \A p \in Files : SeenIn(p)' = SeenIn(p) /\ Staged(p) = {}
    BY <2>1, <2>2, SeenInFlight DEF Staged, InFlight
  <2>4. cache[q] \cap Findings = originals[q] \cap Findings
    BY <2>1 DEF WholeInv
  <2>5. NothingElse'
    BY <2>1, <2>2, <2>3, <2>4, MarksApart DEF OlderInv, NothingElse, InFlight
  <2>6. BackupMode => Paths \subseteq backedUp
    BY <2>1 DEF OlderInv, BackupOlder
  <2> QED BY <2>1, <2>3, <2>5, <2>6, OlderKept DEF TypeInv, TypeOK
<1>10. CASE RestoreAfterFailedWrite \/ RestoreIfNeeded
  <2>1. /\ pc \in InFlight /\ pc # "commit" /\ Finish(cur, "failed") /\ pc' = "next"
        /\ UNCHANGED <<backedUp, index, orig>>
    BY <1>10, RestoreSteps DEF InFlight, Finish, GoTo
  <2>2. PICK stuck \in SUBSET Paths :
          Lost' = Lost \cup stuck /\ \A p \in Files \ stuck : SeenIn(p)' = SeenIn(p)
    BY <1>10, <2>1, RestoreSteps, RestoreSeen
  <2> QED BY <2>1, <2>2, OlderFinished DEF Staged, InFlight
<1>11. CASE Confirm
  <2>1. pc = "confirm" /\ pc' \in {"rollback", "add"}
        /\ UNCHANGED <<cur, originals, work, index, orig, Lost, backedUp>>
    BY <1>11 DEF Confirm, GoTo, disk, Lost
  <2>2. Paths' = Paths /\ \A p \in Files : SeenIn(p)' = SeenIn(p) /\ Staged(p) = {}
    BY <2>1, SeenInFlight DEF Staged, InFlight
  <2>3. NothingElse' /\ (BackupMode => Paths \subseteq backedUp)
    BY <2>1, <2>2 DEF OlderInv, NothingElse, BackupOlder, InFlight
  <2> QED BY <2>1, <2>2, <2>3, OlderKept DEF TypeInv, TypeOK
<1>12. CASE RollBack
  <2> DEFINE copy == IF BackupMode THEN orig ELSE index
             able == {p \in Paths : copy[p] # Absent}
  <2>1. pc = "rollback" /\ pc' = "restore" /\ UNCHANGED <<cur, originals, index, Lost>>
        /\ Paths \subseteq Files
    BY <1>12, TouchesFiles DEF RollBack, GoTo, history, Paths, TypeInv, TypeOK, Held, Busy, InFlight, Lost
  <2>2. PICK stuck \in SUBSET able, copied \in SUBSET able :
          /\ work' = [p \in Files |-> IF p \in (able \ stuck) \cup copied THEN copy[p] ELSE work[p]]
          /\ orig' = [p \in Files |-> IF BackupMode /\ p \in able \ stuck THEN Absent ELSE orig[p]]
          /\ backedUp' = IF BackupMode THEN backedUp \ able ELSE backedUp
    <3>1. \A stuck \in SUBSET able : \A copied \in SUBSET (IF BackupMode THEN stuck ELSE {}) :
            copied \in SUBSET able
      OBVIOUS
    <3> QED BY <1>12, <3>1 DEF RollBack
  <2>3. Paths' = Paths /\ \A p \in Files : SeenIn(p)' = SeenIn(p) /\ Staged(p) = {} /\ Staged(p)' = {}
    <3>1. \A p \in Files \ Paths : work'[p] = work[p]
      BY <2>2
    <3> QED BY <2>1, <3>1, SeenInFlight DEF Staged, InFlight
  <2>4. ASSUME NEW p \in able \ Lost PROVE copy[p] \cap Findings \subseteq originals[p]
    <3>1. p \in Files /\ SeenIn(p) = Findings \cap originals[p]
      BY <2>1 DEF SeenIn, InFlight
    <3>2. CASE BackupMode
      BY <2>1, <3>1, <3>2, <2>4 DEF OlderInv, BackupOlder
    <3>3. CASE ~BackupMode
      BY <2>1, <3>1, <3>3, <2>3, <2>4 DEF OlderInv, IndexOlder
    <3> QED BY <3>2, <3>3
  <2>5. NothingElse'
    <3>1. ASSUME NEW p \in Paths \ Lost PROVE work'[p] \cap Findings \subseteq originals[p] \cup {cur}
      <4>1. work'[p] = work[p] \/ (p \in able /\ work'[p] = copy[p])
        BY <2>1, <2>2
      <4>2. work[p] \cap Findings \subseteq originals[p] \cup {cur}
        BY <2>1 DEF OlderInv, NothingElse, InFlight
      <4> HIDE DEF able, copy
      <4> QED BY <2>4, <4>1, <4>2
    <3> QED BY <2>1, <2>3, <3>1 DEF NothingElse
  <2>6. BackupOlder'
    <3>1. ASSUME BackupMode, NEW p \in backedUp' \ Lost'
          PROVE  orig'[p] # Absent /\ orig'[p] \cap Findings \subseteq SeenIn(p)'
      <4>1. p \in backedUp \ Lost /\ p \in Files /\ p \notin able
        BY <2>1, <2>2, <3>1 DEF TypeInv, TypeOK
      <4>2. orig'[p] = orig[p]
        BY <2>2, <4>1
      <4> QED BY <2>1, <2>3, <3>1, <4>1, <4>2 DEF OlderInv, BackupOlder
    <3> QED BY <2>1, <3>1 DEF BackupOlder
  <2>7. IndexOlder'
    BY <2>1, <2>3 DEF OlderInv, IndexOlder
  <2> QED BY <2>5, <2>6, <2>7 DEF OlderInv
<1>17. CASE RollBackRaises
  <2>1. pc = "rollback" /\ pc' = "raised" /\ ~BackupMode /\ UNCHANGED index
    BY <1>17, RaiseSeen
  <2>2. Lost \subseteq Lost' /\ \A p \in Files \ Lost' : SeenIn(p)' = SeenIn(p) /\ Staged(p) = {}
    BY <1>17, <2>1, RaiseSeen DEF Staged
  <2>3. NothingElse' /\ BackupOlder'
    BY <2>1 DEF NothingElse, BackupOlder, InFlight
  <2>4. IndexOlder'
    BY <2>1, <2>2 DEF OlderInv, IndexOlder
  <2> QED BY <2>3, <2>4 DEF OlderInv
<1>13. CASE Stage
  <2>1. pc = "add" /\ pc' = "commit" /\ Paths' = Paths /\ ~BackupMode
        /\ UNCHANGED <<cur, originals, work, Lost>>
        /\ index' = [p \in Files |-> IF p \in Paths THEN work[p] ELSE index[p]]
    BY <1>13 DEF Stage, GoTo, Paths, mem, history, Lost
  <2>2. \A p \in Files : SeenIn(p)' = SeenIn(p) /\ Staged(p) = {}
    BY <2>1, SeenInFlight DEF Staged, InFlight
  <2>3. NothingElse'
    BY <2>1 DEF OlderInv, NothingElse, InFlight
  <2>4. ASSUME NEW p \in Files \ Lost, index'[p] # Absent
        PROVE  index'[p] \cap Findings \subseteq SeenIn(p)' \cup Staged(p)'
    <3>1. CASE p \in Paths
      <4>1. work[p] \cap Findings = (originals[p] \cap Findings) \cup {cur}
        BY <2>1, <3>1 DEF WholeInv, Written
      <4>2. SeenIn(p)' = Findings \cap originals[p] /\ Staged(p)' = {cur}
        BY <2>1, <3>1 DEF SeenIn, Staged, InFlight
      <4> QED BY <2>1, <3>1, <4>1, <4>2
    <3>2. CASE p \notin Paths
      BY <2>1, <2>2, <2>4, <3>2 DEF OlderInv, IndexOlder
    <3> QED BY <3>1, <3>2
  <2>5. IndexOlder' /\ BackupOlder'
    BY <2>1, <2>4 DEF IndexOlder, BackupOlder
  <2> QED BY <2>3, <2>5 DEF OlderInv
<1>14. CASE Commit \/ KeepUncommitted
  <2>1. /\ Finish(cur, verdict) /\ work' = work /\ pc' = "next"
        /\ \A p \in Files : /\ SeenIn(p) \cup Staged(p) \subseteq SeenIn(p)'
                            /\ SeenIn(p)' = Findings \cap work[p]
    BY <1>14, AcceptSeen DEF Staged, Paths, Finish, GoTo
  <2>2. pc # "idle" /\ UNCHANGED <<orig, Lost, backedUp>>
    BY <1>14 DEF Commit, KeepUncommitted, disk, history, Lost
  <2>3. CASE KeepUncommitted
    <3>1. index' = index
      BY <2>3 DEF KeepUncommitted, disk
    <3> QED BY <2>1, <2>2, <3>1, OlderFinished
  <2>4. CASE Commit
    <3>1. index' = [p \in Files |-> IF p \in Paths THEN work[p] ELSE index[p]]
      BY <2>4 DEF Commit
    <3>2. IndexOlder'
      BY <2>1, <2>2, <3>1 DEF OlderInv, IndexOlder
    <3>3. NothingElse'
      BY <2>1 DEF NothingElse, InFlight
    <3>4. backedUp \subseteq Files
      BY DEF TypeInv, TypeOK
    <3>5. BackupOlder'
      BY <2>1, <2>2, <3>4 DEF OlderInv, BackupOlder
    <3> QED BY <3>2, <3>3, <3>5 DEF OlderInv
  <2> QED BY <1>14, <2>3, <2>4
<1>15. ASSUME NEW q \in Files, UserEdits(q) PROVE OlderInv'
  <2>1. UNCHANGED <<pc, cur, originals, index, orig, Lost, backedUp>>
    BY <1>15 DEF UserEdits, mem, Lost
  <2>2. /\ Paths' = Paths
        /\ \A p \in Files : SeenIn(p)' = SeenIn(p) /\ work'[p] \cap Findings = work[p] \cap Findings
    BY <1>15, EditSeen
  <2>3. pc \in InFlight => Paths \subseteq Files
    BY TouchesFiles DEF Paths, TypeInv, TypeOK, Held, Busy
  <2>4. NothingElse'
    BY <2>1, <2>2, <2>3 DEF OlderInv, NothingElse, InFlight
  <2>5. BackupOlder' /\ IndexOlder'
    BY <2>1, <2>2 DEF OlderInv, BackupOlder, IndexOlder, Staged, TypeInv, TypeOK
  <2> QED BY <2>4, <2>5 DEF OlderInv
<1>16. CASE UNCHANGED vars
  BY <1>16 DEF vars, mem, disk, history, OlderInv, NothingElse, BackupOlder, IndexOlder, Staged, SeenIn, Paths, Lost
<1> QED
  BY <1>1, <1>3, <1>5, <1>6, <1>7, <1>8, <1>9, <1>10, <1>11, <1>12, <1>13, <1>14, <1>15, <1>16,
     <1>17
     DEF Next, Repair, Decide, Apply, Settle, Environment, Stopped

-----------------------------------------------------------------------------
(* Recording a finding that is not applied rejects it as a whole.          *)
LEMMA RejectsWhole ==
  ASSUME TypeInv, NEW f \in todo, NEW status \in {"failed", "requires_review", "not_attempted"},
         Finish(f, status), TreeSeen' = TreeSeen, UNCHANGED <<head, Lost>>,
         Running
  PROVE  f \in Findings /\ Atomic!Reject(f)
<1>3. Running' = Running /\ Running = TRUE
  BY DEF Finish, GoTo, Running
<1>1. f \in Findings /\ rec[f] = None /\ rec' = [rec EXCEPT ![f] = status]
  BY DEF TypeInv, TypeOK, Held, Finish
<1>2. TipSeen' = TipSeen
  BY DEF TipSeen
<1> QED BY <1>1, <1>2, <1>3 DEF Atomic!Reject, Atomic!Undecided, Lost

(* A restore leaves the patch in the files that are stuck, if any.         *)
LEMMA RestoreRejects ==
  ASSUME TypeInv, OlderInv, RestoreAfterFailedWrite \/ RestoreIfNeeded
  PROVE  /\ pc \in {"unwrite", "restore"} /\ cur \in Findings
         /\ Atomic!Reject(cur) \/ (faults' > faults /\ Atomic!RejectInPart(cur))
<1>1. /\ pc \in {"unwrite", "restore"} /\ pc \in InFlight /\ Finish(cur, "failed") /\ pc' = "next"
      /\ cur \in todo /\ cur \in Findings /\ rec[cur] = None /\ head' = head
      /\ rec' = [rec EXCEPT ![cur] = "failed"]
      /\ Running' = Running /\ Running = TRUE
  BY RestoreSteps DEF InFlight, Finish, GoTo, TypeInv, TypeOK, Held, Running
<1>2. PICK stuck \in SUBSET Paths :
        /\ Lost' = Lost \cup stuck
        /\ \A p \in Files \ stuck : SeenIn(p)' = SeenIn(p)
        /\ \A p \in (Files \cap stuck) \ Lost : SeenIn(p)' \subseteq SeenIn(p) \cup {cur}
        /\ stuck = {} \/ faults' > faults
  BY <1>1, RestoreSteps, RestoreSeen
<1>3. CASE stuck = {}
  <2>1. TreeSeen' = TreeSeen /\ Lost' = Lost
    BY <1>2, <1>3, SameSeen
  <2> QED BY <1>1, <2>1, RejectsWhole
<1>4. CASE stuck # {}
  <2>1. TipSeen' = TipSeen
    BY <1>1 DEF TipSeen
  <2>2. TreeSeen' = [p \in Files |-> SeenIn(p)'] /\ \A p \in Files : TreeSeen[p] = SeenIn(p)
    BY DEF TreeSeen, SeenIn
  <2>3. TreeSeen' \in [Files -> SUBSET Findings]
    BY DEF TreeSeen
  <2>4. stuck \subseteq Files /\ \A p \in Files : TreeSeen'[p] = SeenIn(p)'
    BY <1>1, <2>2, TouchesFiles DEF Paths
  <2>5. Atomic!Remains(cur, stuck)
    <3>1. \A p \in Files \ stuck : TreeSeen'[p] = TreeSeen[p]
      BY <1>2, <2>2, <2>4
    <3>2. \A p \in stuck \ Lost : TreeSeen'[p] \subseteq TreeSeen[p] \cup {cur}
      BY <1>2, <2>2, <2>4
    <3> QED BY <2>3, <3>1, <3>2 DEF Atomic!Remains, Lost
  <2>6. Atomic!RejectInPart(cur)
    BY <1>1, <1>2, <2>1, <2>5 DEF Atomic!RejectInPart, Atomic!Undecided, Paths, Lost
  <2> QED BY <1>1, <1>2, <1>4, <2>6
<1> QED BY <1>3, <1>4

(* A verdict that accepts a patch accepts it in all of its files, and the  *)
(* commit, if it succeeds, moves all of them on the branch.                *)
LEMMA Accepts ==
  ASSUME TypeInv, WholeInv, Commit \/ KeepUncommitted
  PROVE  cur \in Findings /\ Atomic!Accept(cur)
<1>1. /\ pc \in InFlight /\ cur \in Findings /\ Finish(cur, verdict) /\ work' = work
      /\ \A p \in Files : /\ SeenIn(p)' = Findings \cap work[p]
                          /\ SeenIn(p)' = IF p \in Touches[cur] THEN SeenIn(p) \cup {cur} ELSE SeenIn(p)
  BY AcceptSeen DEF Commit, KeepUncommitted, InFlight
<1>2. /\ rec[cur] = None /\ verdict \in Applied /\ rec' = [rec EXCEPT ![cur] = verdict]
      /\ Lost' = Lost /\ Running' = Running /\ Running = TRUE
  <2>1. pc \in {"add", "commit"} /\ Lost' = Lost
    BY DEF Commit, KeepUncommitted, history, Lost
  <2> QED BY <1>1, <2>1 DEF TypeInv, TypeOK, Held, Busy, InFlight, Finish, GoTo, Running
<1>3. /\ TreeSeen' = [p \in Files |-> SeenIn(p)'] /\ \A p \in Files : TreeSeen[p] = SeenIn(p)
      /\ \A p \in Files : TreeSeen'[p] = SeenIn(p)'
  BY DEF TreeSeen, SeenIn
<1>4. TreeSeen' = [p \in Files |-> IF p \in Touches[cur] THEN TreeSeen[p] \cup {cur}
                                                         ELSE TreeSeen[p]]
  BY <1>1, <1>3
<1>5. \/ TipSeen' = TipSeen
      \/ TipSeen' = [p \in Files |-> IF p \in Touches[cur] THEN TreeSeen'[p] ELSE TipSeen[p]]
  <2>1. CASE KeepUncommitted
    BY <2>1 DEF KeepUncommitted, disk, TipSeen, Lost
  <2>2. CASE Commit
    <3>1. head' = [p \in Files |-> IF p \in Paths THEN work[p] ELSE head[p]]
      BY <2>2 DEF Commit
    <3>2. \A p \in Files : work[p] # Absent
      BY TextIsContent DEF TypeInv, TypeOK
    <3> QED BY <1>1, <1>3, <3>1, <3>2 DEF TipSeen, Paths
  <2> QED BY <2>1, <2>2
<1> QED BY <1>1, <1>2, <1>4, <1>5 DEF Atomic!Accept, Atomic!Undecided, Applied, Lost

(* A rollback that raises breaks the run off in the middle of the patch.   *)
LEMMA RaiseBreaksOff ==
  ASSUME TypeInv, OlderInv, RollBackRaises
  PROVE  /\ pc = "rollback" /\ pc' = "raised" /\ faults' > faults /\ cur \in Findings
         /\ Atomic!BreakOff(cur)
<1>1. PICK stuck \in SUBSET Paths :
        /\ Lost' = Lost \cup stuck
        /\ \A p \in Files \ stuck : SeenIn(p)' = SeenIn(p)
        /\ \A p \in stuck \ Lost : p \in Files /\ SeenIn(p)' \subseteq SeenIn(p) \cup {cur}
  BY RaiseSeen
<1>2. /\ pc = "rollback" /\ pc' = "raised" /\ faults' > faults /\ cur \in Findings
      /\ UNCHANGED <<rec, head>> /\ rec[cur] = None
  BY RaiseSeen DEF mem, TypeInv, Held
<1>3. Running = TRUE /\ Running' = FALSE /\ TipSeen' = TipSeen
  BY <1>2 DEF Running, TipSeen
<1>4. /\ TreeSeen' \in [Files -> SUBSET Findings]
      /\ \A p \in Files : TreeSeen[p] = SeenIn(p) /\ TreeSeen'[p] = SeenIn(p)'
  BY DEF TreeSeen, SeenIn
<1>5. Atomic!Remains(cur, stuck)
  BY <1>1, <1>4 DEF Atomic!Remains, Lost
<1>6. Atomic!BreakOff(cur)
  BY <1>1, <1>2, <1>3, <1>5 DEF Atomic!BreakOff, Atomic!Undecided, Paths, Lost
<1> QED BY <1>2, <1>6

(* Every step of repair(), in any run and after any crash.                 *)
Whole(f) == Atomic!Accept(f) \/ Atomic!Reject(f)
Stuck == pc \in {"unwrite", "restore"} /\ faults' > faults /\ Atomic!RejectInPart(cur)
Stranded == pc = "rollback" /\ faults' > faults /\ Atomic!BreakOff(cur)
Unseen == UNCHANGED <<TreeSeen, TipSeen, rec, Lost>> /\ (Running' => Running)

LEMMA RepairStep ==
  ASSUME TypeInv, WholeInv, OlderInv, Repair
  PROVE  (\E f \in Findings : Whole(f)) \/ (cur \in Findings /\ (Stuck \/ Stranded)) \/ Unseen
<1>1. ASSUME pc \notin InFlight, pc' \notin InFlight, UNCHANGED <<work, head, rec, Lost>>,
             Running' => Running
      PROVE  Unseen
  BY <1>1, SeenAtRest, SameSeen DEF Unseen, TipSeen
<1>2. ASSUME pc \in InFlight, pc' \in InFlight, UNCHANGED <<cur, originals, head, rec, Lost>>,
             \A p \in Files \ Paths : work'[p] = work[p]
      PROVE  Unseen
  BY <1>2, SeenInFlight DEF Unseen, TipSeen, Running, InFlight
<1>3. ASSUME NEW f \in Findings, PassOver(f) \/ ComputePatch(f) PROVE Unseen
  BY <1>1, <1>3 DEF PassOver, ComputePatch, CallFix, Eligible, GoTo, InFlight, disk, history, Lost, Running
<1>4. ASSUME NEW f \in todo, NEW status \in {"failed", "requires_review", "not_attempted"},
             Finish(f, status), Running, pc \notin InFlight, UNCHANGED <<work, head, Lost>>
      PROVE  \E g \in Findings : Whole(g)
  <2>1. pc' \notin InFlight
    BY <1>4 DEF Finish, GoTo, InFlight
  <2>2. TreeSeen' = TreeSeen
    BY <1>4, <2>1, SeenAtRest, SameSeen
  <2> QED BY <1>4, <2>2, RejectsWhole DEF Whole
<1>5. ASSUME NEW f \in Findings, Refuse(f) \/ NoPatch(f) PROVE \E g \in Findings : Whole(g)
  <2>1. PICK status \in {"requires_review", "not_attempted"} : Finish(f, status)
    BY <1>5 DEF Refuse, NoPatch, Refusal
  <2>2. f \in todo /\ pc = "next" /\ Running /\ UNCHANGED <<work, head, Lost>>
    BY <1>5 DEF Refuse, NoPatch, CallFix, Eligible, disk, history, Lost, Running
  <2> QED BY <1>4, <2>1, <2>2 DEF InFlight
<1>6. CASE Approve \/ PrepareRepro \/ DecodeRaises \/ EndRun
  BY <1>1, <1>6 DEF Approve, PrepareRepro, DecodeRaises, EndRun, GoTo, mem, disk, history, InFlight, Lost,
                   Running
<1>7. CASE Decline \/ AbandonChanged
  <2>1. PICK status \in {"requires_review", "not_attempted"} : Finish(cur, status)
    BY <1>7 DEF Decline, AbandonChanged
  <2>2. cur \in todo /\ Running /\ pc \notin InFlight /\ UNCHANGED <<work, head, Lost>>
    BY <1>7 DEF Decline, AbandonChanged, TypeInv, Held, Busy, InFlight, disk, history, Lost, Running
  <2> QED BY <1>4, <2>1, <2>2
<1>8. ASSUME CheckFiles PROVE Unseen
  <2>1. pc = "check" /\ pc' \in InFlight /\ Paths' = Paths /\ UNCHANGED <<work, head, rec, Lost>>
    BY <1>8 DEF CheckFiles, GoTo, Paths, InFlight, disk, history, Lost
  <2>2. \A p \in Files : p \in Paths => originals'[p] = Text(work[p])
    BY <1>8 DEF CheckFiles
  <2>3. \A p \in Files : SeenIn(p)' = SeenIn(p)
    BY MarksApart, <2>1, <2>2 DEF SeenIn, InFlight
  <2> QED BY <2>1, <2>3, SameSeen DEF Unseen, TipSeen, Running
<1>9. CASE Prepare \/ Confirm \/ Stage
  BY <1>2, <1>9 DEF Prepare, Confirm, Stage, GoTo, InFlight, mem, disk, history, Lost
<1>10. ASSUME NEW q \in Files, WriteFile(q) \/ WriteFails(q) PROVE Unseen
  <2>1. pc \in InFlight /\ pc' \in InFlight /\ UNCHANGED <<cur, originals, head, rec, Lost>>
        /\ q \in Paths
    BY <1>10 DEF WriteFile, WriteFails, GoTo, InFlight, mem, history, TypeInv, Held, Lost
  <2>2. \A p \in Files \ Paths : work'[p] = work[p]
    BY <1>10, <2>1 DEF WriteFile, WriteFails, TypeInv, TypeOK
  <2> QED BY <1>2, <2>1, <2>2
<1>11. ASSUME RollBack PROVE Unseen
  <2>1. pc \in InFlight /\ pc' \in InFlight /\ UNCHANGED <<cur, originals, head, rec, Lost>>
    BY <1>11 DEF RollBack, GoTo, InFlight, history, Lost
  <2>2. \A p \in Files \ Paths : work'[p] = work[p]
    BY <1>11 DEF RollBack
  <2> QED BY <1>2, <2>1, <2>2
<1>14. CASE RollBackRaises
  BY <1>14, RaiseBreaksOff DEF Stranded
<1>12. CASE RestoreAfterFailedWrite \/ RestoreIfNeeded
  BY <1>12, RestoreRejects DEF Whole, Stuck
<1>13. CASE Commit \/ KeepUncommitted
  BY <1>13, Accepts DEF Whole
<1> QED
  BY <1>3, <1>5, <1>6, <1>7, <1>8, <1>9, <1>10, <1>11, <1>12, <1>13, <1>14
     DEF Repair, Decide, Apply, Settle

-----------------------------------------------------------------------------
LEMMA InitAtomicInv == Init => TypeInv /\ TreeInv /\ WholeInv /\ OlderInv
<1> SUFFICES ASSUME Init PROVE TypeInv /\ TreeInv /\ WholeInv /\ OlderInv
  OBVIOUS
<1>1. TreeInv /\ WholeInv /\ OlderInv
  BY DEF Init, TreeInv, WholeInv, OlderInv, NothingElse, BackupOlder, IndexOlder, Written, InFlight
<1> QED BY <1>1, InitTypeInv

LEMMA AtomicInvs == Spec => [](TypeInv /\ WholeInv /\ OlderInv)
<1>1. TypeInv /\ TreeInv /\ WholeInv /\ OlderInv /\ [Next]_vars
        => TypeInv' /\ TreeInv' /\ WholeInv' /\ OlderInv'
  BY NextTypeInv, NextTreeInv, NextWholeInv, NextOlderInv
<1> QED BY <1>1, InitAtomicInv, PTL DEF Spec

(* A kill forgets the records, and shows what was written of a patch.      *)
LEMMA CrashStep == TypeInv /\ OlderInv /\ Crash =>
  Atomic!Forget \/ \E f \in Findings : Atomic!Interrupt(f)
<1> SUFFICES ASSUME TypeInv, OlderInv, Crash
             PROVE  Atomic!Forget \/ \E f \in Findings : Atomic!Interrupt(f)
  OBVIOUS
<1>1. /\ pc' = "idle" /\ rec' = Atomic!NoRecords /\ TipSeen' = TipSeen
      /\ UNCHANGED <<work, Lost>>
  BY DEF Crash, GoTo, disk, history, TipSeen, Atomic!NoRecords, Lost
<1>2. /\ TreeSeen' = [p \in Files |-> Findings \cap work[p]]
      /\ \A p \in Files : TreeSeen[p] = SeenIn(p)
  BY <1>1 DEF TreeSeen, SeenIn, InFlight
<1>3. CASE pc \notin InFlight
  <2>1. TreeSeen' = TreeSeen
    BY <1>1, <1>3 DEF TreeSeen, InFlight
  <2> QED BY <1>1, <2>1 DEF Atomic!Forget, Running, Lost
<1>4. CASE pc \in InFlight
  <2>1. cur \in Findings
    BY <1>4 DEF TypeInv, TypeOK, Held, Busy
  <2>2. \A p \in Files \ Touches[cur] : TreeSeen'[p] = TreeSeen[p]
    BY <1>2 DEF SeenIn, Paths
  <2>3. \A p \in Touches[cur] \ Lost : TreeSeen'[p] \subseteq TreeSeen[p] \cup {cur}
    BY <1>2, <1>4, <2>1, TouchesFiles DEF SeenIn, OlderInv, NothingElse, Paths
  <2>4. Atomic!Remains(cur, Touches[cur])
    BY <1>2, <2>2, <2>3 DEF Atomic!Remains, Lost
  <2> QED BY <1>1, <1>4, <2>1, <2>4 DEF Atomic!Interrupt, Running, InFlight, Lost
<1> QED BY <1>3, <1>4

-----------------------------------------------------------------------------
(* repair() in whatever run it is and whatever was killed before: a step   *)
(* of it puts one patch in all of its files and records it FIXED or        *)
(* UNVERIFIED, records one finding with no change to any file, or shows    *)
(* nothing at all.  A failing read, backup, write, `git add` or commit is  *)
(* no exception, nor is a rollback that fails with an exit code.  A patch  *)
(* is broken in two by a restore that fails, and by a rollback that raises:*)
(* that ends the run, and f has no record (engine.py 107-307, git_safety.py*)
(* 113-129, 281-285).                                                      *)
THEOREM StepIsAtomic ==
  Spec => [][Repair => (\E f \in Findings : Whole(f)) \/ Stuck \/ Stranded \/ Unseen]_vars
<1>1. TypeInv /\ WholeInv /\ OlderInv /\ [Next]_vars
        => [Repair => (\E f \in Findings : Whole(f)) \/ Stuck \/ Stranded \/ Unseen]_vars
  BY RepairStep
<1> QED BY <1>1, AtomicInvs, PTL DEF Spec

(* A run starts on a tree it has seen to be clean, or on one it has not.   *)
LEMMA StartStep == StartRun => Atomic!Begin \/ Atomic!BeginBlind
<1> SUFFICES ASSUME StartRun PROVE Atomic!Begin \/ Atomic!BeginBlind
  OBVIOUS
<1>1. /\ pc = "idle" /\ pc' = "next" /\ UNCHANGED <<work, head, unrestored>>
      /\ rec' = Atomic!NoRecords
      /\ blind' = blind \/ blind' = blind \cup Uncommitted
  BY DEF StartRun, GoTo, disk, Atomic!NoRecords
<1>2. TreeSeen' = TreeSeen /\ TipSeen' = TipSeen
  BY <1>1, SeenAtRest, SameSeen DEF TipSeen, InFlight
<1>3. Running = FALSE /\ Running' = TRUE
  BY <1>1 DEF Running
<1>4. CASE blind' = blind
  BY <1>1, <1>2, <1>3, <1>4 DEF Atomic!Begin
<1>5. CASE blind' = blind \cup Uncommitted
  <2>1. Uncommitted \in SUBSET Files
    BY DEF Uncommitted
  <2>2. (unrestored \cup blind)' = (unrestored \cup blind) \cup Uncommitted
    BY <1>1, <1>5
  <2> QED BY <1>1, <1>2, <1>3, <2>1, <2>2 DEF Atomic!BeginBlind
<1> QED BY <1>1, <1>4, <1>5

(* What shows nothing of the files ends the run, or is no step at all.     *)
LEMMA UnseenStep ==
  ASSUME Unseen
  PROVE  Atomic!End \/ UNCHANGED <<Running, TreeSeen, TipSeen, rec, unrestored \cup blind>>
BY DEF Unseen, Lost, Running, Atomic!End

(* The whole program, run after run, implements AtomicRepair: every start, *)
(* refusal of a dirty tree, step, failure, kill and save maps to a step of *)
(* AtomicRepair or to none (engine.py 107-307, git_safety.py 113-196,      *)
(* 242-285).                                                               *)
THEOREM RefinesAtomicRepair == Spec => ImplementsAtomicRepair
<1>1. Init => Atomic!Init
  <2> SUFFICES ASSUME Init PROVE Atomic!Init
    OBVIOUS
  <2>1. \A p \in Files : Findings \cap Initial[p] = {}
    BY FindingsAssumption, FilesAssumption
  <2>2. TreeSeen = [p \in Files |-> {}]
    BY <2>1 DEF TreeSeen, Init, InFlight
  <2>3. TipSeen \in [Files -> {Absent, {}}]
    BY <2>1 DEF TipSeen, Init
  <2> QED BY <2>2, <2>3 DEF Atomic!Init, Atomic!NoRecords, Init, Running
<1>2. TypeInv /\ WholeInv /\ OlderInv /\ [Next]_vars
        => [Atomic!Next]_<<Running, TreeSeen, TipSeen, rec, unrestored \cup blind>>
  <2> SUFFICES ASSUME TypeInv, WholeInv, OlderInv, [Next]_vars PROVE Atomic!Next \/ Unseen
    BY UnseenStep DEF Atomic!Next
  <2>1. CASE Repair
    <3>1. (\E f \in Findings : Whole(f)) \/ (cur \in Findings /\ (Stuck \/ Stranded)) \/ Unseen
      BY <2>1, RepairStep
    <3> QED BY <3>1 DEF Whole, Stuck, Stranded, Atomic!Next
  <2>2. CASE StartRun
    BY <2>2, StartStep DEF Atomic!Next
  <2>3. CASE RefuseDirty
    <3>1. pc = "idle" /\ pc' = pc /\ UNCHANGED <<head, rec, unrestored, blind>>
          /\ work' = [p \in Files |-> IF head[p] = Absent THEN work[p] ELSE head[p]]
      BY <2>3 DEF RefuseDirty, mem, history
    <3>2. \A p \in Files : TipSeen[p] = Absent <=> head[p] = Absent
      <4>1. \A p \in Files : Findings \cap head[p] # Absent
        BY TextIsContent, FindingsAssumption DEF Content, Marks
      <4> QED BY <4>1 DEF TipSeen
    <3>3. TreeSeen' = [p \in Files |-> IF TipSeen[p] = Absent THEN TreeSeen[p] ELSE TipSeen[p]]
      BY <3>1, <3>2 DEF TreeSeen, TipSeen, InFlight
    <3>4. TipSeen' = TipSeen /\ Running' = Running /\ Running = FALSE
      BY <3>1 DEF TipSeen, Running
    <3> QED BY <3>1, <3>3, <3>4 DEF Atomic!Discard, Atomic!Next
  <2>4. CASE Crash
    BY <2>4, CrashStep DEF Atomic!Next
  <2>5. ASSUME NEW q \in Files, UserEdits(q) PROVE Unseen
    BY <2>5, EditSeen DEF UserEdits, Unseen, Lost, Running
  <2>6. CASE UNCHANGED vars
    BY <2>6 DEF vars, mem, disk, history, TreeSeen, TipSeen, Paths, Unseen, Lost, Running
  <2> QED BY <2>1, <2>2, <2>3, <2>4, <2>5, <2>6 DEF Next, Environment, Stopped
<1> QED BY <1>1, <1>2, AtomicInvs, PTL DEF Spec, ImplementsAtomicRepair, Atomic!Spec, Atomic!vars
================================================================================
