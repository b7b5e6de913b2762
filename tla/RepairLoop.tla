------------------------------ MODULE RepairLoop ------------------------------
(***************************************************************************)
(* The repair loop: FixerEngine.repair with the GitSafety methods it calls *)
(* between two findings, over the working tree, the git index, the tip of  *)
(* the fix branch and the .orig backups.  One action is one call that can  *)
(* fail, or one stretch of code between two such calls; between actions    *)
(* the developer may save a file and the process may be killed.            *)
(*                                                                         *)
(* The content of a file is abstracted to the set of marks it carries: one *)
(* mark per finding whose patch is in the text, UserEdit for a change made *)
(* by somebody else, Torn for a write that failed half way, and Crlf for   *)
(* the Windows line ends that a text-mode read drops.                      *)
(***************************************************************************)
EXTENDS Naturals

CONSTANTS
  Findings,     \* findings the detectors can report
  Files,        \* files a patch can touch
  Touches,      \* Touches[f]: the paths in the patch of f's rule
  Class,        \* Class[f]: the AutofixSafety of f
  Destructive,  \* findings for which destructive_reason gives a reason
  Suppressed,   \* findings a suppression covers
  Ruleless,     \* findings of an adapter: no rule registered
  Interactive,  \* mode == "interactive"
  BackupMode,   \* no repository, --allow-no-git
  Initial,      \* Initial[p]: content of p before the first run
  Untracked,    \* files the repository does not track
  Undecodable,  \* files that are not UTF-8
  UserEdit, Torn, Crlf,  \* the marks that are not findings
  Absent,       \* no such copy of the file
  None,         \* Python's None: no record, no current finding
  FaultKinds,   \* which calls may fail
  MaxFaults,    \* bound: failing calls in a behaviour
  MaxEdits,     \* bound: saves by the developer
  MaxRuns       \* bound: runs of `vibeguard fix`

Classes == {"safe", "review", "manual", "advisory"}
Marks == Findings \cup {UserEdit, Torn, Crlf}
Content == SUBSET Marks
Copy == {Absent} \cup Content

Applied == {"fixed", "unverified"}
Statuses == Applied \cup {"failed", "requires_review", "not_attempted"}

ASSUME FindingsAssumption ==
  /\ UserEdit \notin Findings /\ Torn \notin Findings /\ Crlf \notin Findings
  /\ Torn # Crlf /\ UserEdit # Crlf /\ UserEdit # Torn
  /\ Absent \notin {c : c \in Content}
  /\ None \notin Statuses
  /\ Touches \in [Findings -> (SUBSET Files) \ {{}}]
  /\ Class \in [Findings -> Classes]
  /\ Destructive \subseteq Findings
  /\ Suppressed \subseteq Findings
  /\ Ruleless \subseteq Findings
ASSUME FilesAssumption ==
  /\ Initial \in [Files -> SUBSET {Crlf}]
  /\ Untracked \subseteq Files
  /\ Undecodable \subseteq Files
ASSUME ModeAssumption == Interactive \in BOOLEAN /\ BackupMode \in BOOLEAN
ASSUME BoundsAssumption ==
  MaxFaults \in Nat /\ MaxEdits \in Nat /\ MaxRuns \in Nat

VARIABLES
  pc,         \* where repair() is
  cur,        \* the finding under repair
  todo,       \* findings of this run not decided yet
  rec,        \* rec[f]: status of finding.fix
  shas,       \* findings whose record carries a commit_sha
  cache,      \* ScanContext._read_cache
  originals,  \* the originals dictionary of _apply
  toWrite,    \* edits of the patch not written yet
  repro,      \* whether a repro test that fails before the patch exists
  verdict,    \* ValidationEngine.verdict of the current patch
  work, index, head,  \* working tree, index and branch tip
  orig,       \* <file>.orig
  backedUp    \* GitSafety._backed_up

\* History, read by no action: the tree when the run started, the findings
\* whose patch was ever accepted by a verdict, the files somebody else
\* changed, those among them changed while their patch was in flight, those
\* the engine failed to restore, and those whose uncommitted changes a
\* failing `git status` has hidden from the dirty check.
VARIABLES base, vouched, disturbed, late, unrestored, blind

\* What the bounds count.
VARIABLES faults, edits, runs

mem == <<cur, todo, rec, shas, cache, originals, toWrite, repro, verdict, backedUp>>
disk == <<work, index, head, orig>>
history == <<base, vouched, disturbed, late, unrestored, blind>>
bounds == <<faults, edits, runs>>
vars == <<pc, mem, disk, history, bounds>>

-----------------------------------------------------------------------------
(* Reading a file in text mode translates its line ends.                   *)
Text(c) == c \ {Crlf}

(* What ScanContext.read returns: the cached text, else the file's.        *)
Seen(p) == IF cache[p] = Absent THEN Text(work[p]) ELSE cache[p]

Paths == Touches[cur]

(* Tracked files whose staged or working content differs from the tip.     *)
Uncommitted ==
  {p \in Files : \/ index[p] # head[p]
                 \/ index[p] # Absent /\ work[p] # index[p]}

(* Mutant of DirtyPaths: unstaged changes are missed.                      *)
StagedPathsOnly(failed) == IF failed THEN {} ELSE {p \in Files : index[p] # head[p]}

(* A `git status` that exits with an error is read as a clean worktree.    *)
DirtyPaths(failed) == IF failed THEN {} ELSE Uncommitted

(* Mutant of Verdict: the case that nothing ran falls through.             *)
VerdictOfRungsOnly(ladder, reproPassed) ==
  IF "failed" \in {ladder, reproPassed} THEN "failed"
  ELSE IF "passed" \in {ladder, reproPassed} THEN "fixed" ELSE "none"

(* FIXED only on a rung that ran and passed; a failure always wins.        *)
Verdict(ladder, reproPassed) ==
  IF "failed" \in {ladder, reproPassed} THEN "failed"
  ELSE IF "passed" \in {ladder, reproPassed} THEN "fixed" ELSE "unverified"

(* Mutant of Refusal: destructive_reason is not asked.                     *)
RefusalByClass(f) ==
  IF Class[f] = "manual" THEN "requires_review"
  ELSE IF (Class[f] = "review" /\ ~Interactive) \/ f \in Ruleless THEN "not_attempted" ELSE None

(* The refusals that come before rule.fix is called; None for none.    *)
Refusal(f) ==
  IF Class[f] = "manual" \/ f \in Destructive THEN "requires_review"
  ELSE IF (Class[f] = "review" /\ ~Interactive) \/ f \in Ruleless THEN "not_attempted" ELSE None

Fault(kind) == kind \in FaultKinds /\ faults < MaxFaults /\ faults' = faults + 1
NoFault == faults' = faults

(* A call that may fail on the files of stuck.                             *)
FailsOn(stuck, kind) == IF stuck = {} THEN NoFault ELSE Fault(kind)

GoTo(label) == pc' = label

NoCopies == [p \in Files |-> Absent]

(* The locals of _repair_one and _apply outside a call.                    *)
Unbound ==
  /\ cur' = None /\ originals' = NoCopies /\ toWrite' = {}
  /\ repro' = FALSE /\ verdict' = "none"

(* The record is attached and the loop moves to the next finding.          *)
Finish(f, status) ==
  /\ rec' = [rec EXCEPT ![f] = status]
  /\ todo' = todo \ {f}
  /\ Unbound
  /\ GoTo("next")

(* Mutant of Invalidate: the caches survive a repair.                      *)
InvalidateNothing(paths) == UNCHANGED cache

(* _invalidate: the next read of these files goes to the disk.             *)
Invalidate(paths) ==
  cache' = [p \in Files |-> IF p \in paths THEN Absent ELSE cache[p]]

-----------------------------------------------------------------------------
Init ==
  /\ pc = "idle" /\ cur = None /\ todo = {}
  /\ rec = [f \in Findings |-> None] /\ shas = {}
  /\ cache = NoCopies /\ originals = NoCopies
  /\ toWrite = {} /\ repro = FALSE /\ verdict = "none"
  /\ work = Initial
  /\ head = [p \in Files |-> IF BackupMode \/ p \in Untracked
                             THEN Absent ELSE Initial[p]]
  /\ index = head
  /\ orig = NoCopies /\ backedUp = {}
  /\ base = Initial /\ vouched = {}
  /\ disturbed = {} /\ late = {} /\ unrestored = {} /\ blind = {}
  /\ faults = 0 /\ edits = 0 /\ runs = 0

(* Engine.fix up to the loop: preflight refuses a worktree that it sees to *)
(* be dirty, detection reads the files through a fresh context.            *)
StartRun ==
  /\ pc = "idle" /\ runs < MaxRuns
  /\ \E failed \in BOOLEAN :
       /\ IF failed THEN ~BackupMode /\ Fault("status") ELSE NoFault
       /\ BackupMode \/ DirtyPaths(failed) = {}
       /\ blind' = IF failed THEN blind \cup Uncommitted ELSE blind
  /\ GoTo("next")
  /\ todo' = {f \in Findings : \E p \in Touches[f] : f \notin work[p]}
  /\ rec' = [f \in Findings |-> None] /\ shas' = {}
  /\ cache' = [p \in Files |-> Text(work[p])]
  /\ backedUp' = {}
  /\ base' = work /\ disturbed' = {} /\ late' = {}
  /\ runs' = runs + 1
  /\ Unbound
  /\ UNCHANGED <<disk, vouched, unrestored, edits>>

(* DirtyWorktreeError; the developer then discards what was left behind.   *)
RefuseDirty ==
  /\ pc = "idle" /\ runs < MaxRuns
  /\ ~BackupMode /\ DirtyPaths(FALSE) # {}
  /\ index' = head
  /\ work' = [p \in Files |-> IF head[p] = Absent THEN work[p] ELSE head[p]]
  /\ UNCHANGED <<pc, mem, orig, head, history, bounds>>

(* Suppressed and advisory findings are passed over without a record.      *)
PassOver(f) ==
  /\ pc = "next" /\ f \in todo
  /\ f \in Suppressed \/ Class[f] = "advisory"
  /\ todo' = todo \ {f}
  /\ UNCHANGED <<pc, cur, rec, shas, cache, originals, toWrite, repro, verdict,
                 backedUp, disk, history, bounds>>

Eligible(f) ==
  /\ pc = "next" /\ f \in todo
  /\ f \notin Suppressed /\ Class[f] # "advisory"

Refuse(f) ==
  /\ Eligible(f) /\ Refusal(f) # None
  /\ Finish(f, Refusal(f))
  /\ UNCHANGED <<shas, cache, backedUp, disk, history, bounds>>

(* rule.fix reads the files through the context and builds a whole-file    *)
(* patch: the text it saw plus its own change.                             *)
CallFix(f) ==
  /\ Eligible(f) /\ Refusal(f) = None
  /\ cache' = [p \in Files |-> IF p \in Touches[f] THEN Seen(p) ELSE cache[p]]
  /\ UNCHANGED <<shas, backedUp, disk, history, bounds>>

ComputePatch(f) ==
  /\ CallFix(f)
  /\ \E p \in Touches[f] : f \notin Seen(p)
  /\ cur' = f
  /\ GoTo(IF Class[f] = "review" THEN "ask" ELSE "repro")
  /\ UNCHANGED <<todo, rec, originals, toWrite, repro, verdict>>

(* It raised, or the preconditions of a safe edit are not met.             *)
NoPatch(f) == CallFix(f) /\ Finish(f, "not_attempted")

(* The interactive prompt.                                                 *)
Approve ==
  /\ pc = "ask" /\ GoTo("repro")
  /\ UNCHANGED <<mem, disk, history, bounds>>

Decline ==
  /\ pc = "ask" /\ Finish(cur, "requires_review")
  /\ UNCHANGED <<shas, cache, backedUp, disk, history, bounds>>

(* ReproRunner.prepare: only a test that fails before the patch is kept.   *)
PrepareRepro ==
  /\ pc = "repro" /\ GoTo("check")
  /\ repro' \in BOOLEAN
  /\ UNCHANGED <<cur, todo, rec, shas, cache, originals, toWrite, verdict,
                 backedUp, disk, history, bounds>>

-----------------------------------------------------------------------------
(* Mutant of ChangedOnDisk: the sha is not compared.                       *)
NotCompared == FALSE

(* _apply compares every file with the text the patch was computed from.   *)
ChangedOnDisk == \E p \in Paths : Text(work[p]) # cache[p]

CheckFiles ==
  /\ pc = "check" /\ ~ChangedOnDisk /\ Paths \cap Undecodable = {}
  /\ originals' = [p \in Files |-> IF p \in Paths THEN Text(work[p]) ELSE Absent]
  /\ toWrite' = Paths
  /\ GoTo("prepare")
  /\ UNCHANGED <<cur, todo, rec, shas, cache, repro, verdict, backedUp, disk,
                 history, bounds>>

(* Mutant of AbandonChanged: the patch is retried instead.                 *)
RetryChanged ==
  /\ pc = "check" /\ ChangedOnDisk /\ GoTo("repro")
  /\ UNCHANGED <<mem, disk, history, bounds>>

AbandonChanged ==
  /\ pc = "check"
  /\ (ChangedOnDisk /\ NoFault) \/ Fault("read")
  /\ Finish(cur, "not_attempted")
  /\ UNCHANGED <<shas, cache, backedUp, disk, history, edits, runs>>

(* A strict decode raises UnicodeDecodeError, which is no OSError: nothing *)
(* between here and Engine.fix catches it and the run ends.                *)
DecodeRaises ==
  /\ pc = "check" /\ Paths \cap Undecodable # {}
  /\ GoTo("raised")
  /\ UNCHANGED <<mem, disk, history, bounds>>

(* GitSafety.prepare: in backup mode, one copy per file and run; the copy  *)
(* may fail after some files.                                              *)
ToBackUp == IF BackupMode THEN Paths \ backedUp ELSE {}

Prepare ==
  /\ pc = "prepare"
  /\ \E done \in SUBSET ToBackUp :
       /\ orig' = [p \in Files |-> IF p \in done THEN work[p] ELSE orig[p]]
       /\ backedUp' = backedUp \cup done
       /\ \/ done = ToBackUp /\ NoFault /\ GoTo("write")
          \/ done # ToBackUp /\ Fault("prepare") /\ GoTo("unwrite")
  /\ UNCHANGED <<cur, todo, rec, shas, cache, originals, toWrite, repro, verdict,
                 work, index, head, history, edits, runs>>

WriteFile(p) ==
  /\ pc = "write" /\ p \in toWrite
  /\ work' = [work EXCEPT ![p] = cache[p] \cup {cur}]
  /\ toWrite' = toWrite \ {p}
  /\ IF toWrite = {p} THEN Invalidate(Paths) /\ GoTo("confirm")
                      ELSE UNCHANGED <<cache, pc>>
  /\ UNCHANGED <<cur, todo, rec, shas, originals, repro, verdict, backedUp,
                 index, head, orig, history, bounds>>

(* A write that fails has truncated the file or not.                       *)
WriteFails(p) ==
  /\ pc = "write" /\ p \in toWrite /\ Fault("write")
  /\ \E torn \in BOOLEAN :
       work' = IF torn THEN [work EXCEPT ![p] = {Torn}] ELSE work
  /\ GoTo("unwrite")
  /\ UNCHANGED <<mem, index, head, orig, history, edits, runs>>

(* Mutant of Restored: the saved text is not written back.                 *)
NotRestored(paths, stuck, torn) == work

(* _restore, each of whose writes may fail in the same way.                *)
Restored(paths, stuck, torn) ==
  [p \in Files |-> IF p \in torn THEN {Torn}
                   ELSE IF p \in paths \ stuck THEN originals[p] ELSE work[p]]

RestoreAfterFailedWrite ==
  /\ pc = "unwrite"
  /\ \E stuck \in SUBSET Paths : \E torn \in SUBSET stuck :
       /\ FailsOn(stuck, "restore")
       /\ work' = Restored(Paths, stuck, torn)
       /\ unrestored' = unrestored \cup stuck
  /\ Finish(cur, "failed")
  /\ UNCHANGED <<shas, cache, backedUp, index, head, orig, base, vouched,
                 disturbed, late, blind, edits, runs>>

-----------------------------------------------------------------------------
(* _confirm_repro: a repro test that still fails skips the ladder.         *)
Confirm ==
  /\ pc = "confirm"
  /\ \E reproPassed \in IF repro THEN {"passed", "failed", "inconclusive"}
                                  ELSE {"none"} :
       \/ /\ reproPassed = "failed"
          /\ verdict' = Verdict("none", reproPassed)
          /\ GoTo("rollback")
          /\ UNCHANGED vouched
       \/ /\ reproPassed # "failed"
          /\ \E ladder \in {"passed", "failed", "skipped"} :
               verdict' = Verdict(ladder, reproPassed)
          /\ GoTo(IF verdict' = "failed" THEN "rollback" ELSE "add")
          /\ vouched' = IF verdict' = "failed" THEN vouched ELSE vouched \cup {cur}
  /\ UNCHANGED <<cur, todo, rec, shas, cache, originals, toWrite, repro,
                 backedUp, disk, base, disturbed, late, unrestored, blind, bounds>>

(* Mutant of RollBack: left to _restore_if_needed.                         *)
RollBackNothing ==
  /\ pc = "rollback" /\ GoTo("restore")
  /\ UNCHANGED <<mem, disk, history, bounds>>

(* Mutant of RollBack: the file still counts as backed up.                 *)
RollBackKeepsBackedUp ==
  /\ pc = "rollback" /\ GoTo("restore")
  /\ work' = [p \in Files |-> IF p \in Paths /\ orig[p] # Absent THEN orig[p] ELSE work[p]]
  /\ orig' = [p \in Files |-> IF p \in Paths THEN Absent ELSE orig[p]]
  /\ UNCHANGED <<mem, index, head, history, bounds>>

(* rollback_working_tree: `git checkout --` takes the content of the index *)
(* and fails on an untracked file; the backup is copied back and removed,  *)
(* either of which may fail.  An exit code or an error of the copy is      *)
(* logged, and the loop goes on to the restore.                            *)
RollBack ==
  /\ pc = "rollback" /\ GoTo("restore")
  /\ LET copy == IF BackupMode THEN orig ELSE index
         able == {p \in Paths : copy[p] # Absent}
     IN \E stuck \in SUBSET able :
        \E copied \in SUBSET (IF BackupMode THEN stuck ELSE {}) :
          /\ FailsOn(stuck, "rollback")
          /\ work' = [p \in Files |-> IF p \in (able \ stuck) \cup copied
                                      THEN copy[p] ELSE work[p]]
          /\ orig' = [p \in Files |-> IF BackupMode /\ p \in able \ stuck
                                      THEN Absent ELSE orig[p]]
          /\ backedUp' = IF BackupMode THEN backedUp \ able ELSE backedUp
  /\ UNCHANGED <<cur, todo, rec, shas, cache, originals, toWrite, repro, verdict,
                 index, head, history, edits, runs>>

(* A checkout that times out or cannot be started raises GitSafetyError,   *)
(* which nobody in the loop catches: the files not checked out yet are not *)
(* restored from memory either, and the run ends without a record.         *)
RollBackRaises ==
  /\ pc = "rollback" /\ ~BackupMode /\ Fault("git") /\ GoTo("raised")
  /\ \E done \in SUBSET {p \in Paths : index[p] # Absent} :
       work' = [p \in Files |-> IF p \in done THEN index[p] ELSE work[p]]
  /\ unrestored' = unrestored \cup {p \in Paths : Text(work'[p]) # originals[p]}
  /\ UNCHANGED <<mem, index, head, orig, base, vouched, disturbed, late, blind, edits, runs>>

(* _restore_if_needed, then the FAILED record.                             *)
RestoreIfNeeded ==
  /\ pc = "restore"
  /\ LET needed == {p \in Paths : Text(work[p]) # originals[p]}
     IN \E stuck \in SUBSET needed : \E torn \in SUBSET stuck :
          /\ FailsOn(stuck, "restore")
          /\ work' = Restored(needed, stuck, torn)
          /\ unrestored' = unrestored \cup stuck
  /\ Invalidate(Paths)
  /\ Finish(cur, "failed")
  /\ UNCHANGED <<shas, backedUp, index, head, orig, base, vouched, disturbed,
                 late, blind, edits, runs>>

(* GitSafety.commit: nothing in backup mode; else `git add`, then `git     *)
(* commit -- <paths>`, which takes the working files.  Either may fail; the*)
(* edit stays in the tree and the record keeps its status without a sha,   *)
(* as it does when the commit is made but its sha cannot be asked.         *)
Stage ==
  /\ pc = "add" /\ ~BackupMode /\ GoTo("commit")
  /\ index' = [p \in Files |-> IF p \in Paths THEN work[p] ELSE index[p]]
  /\ UNCHANGED <<mem, work, head, orig, history, bounds>>

(* Mutant of Commit: everything that is staged is committed.               *)
CommitAllStaged ==
  /\ pc = "commit"
  /\ index' = [p \in Files |-> IF p \in Paths THEN work[p] ELSE index[p]]
  /\ head' = index'
  /\ shas' = shas \cup {cur}
  /\ Finish(cur, verdict)
  /\ UNCHANGED <<cache, backedUp, work, orig, history, bounds>>

Commit ==
  /\ pc = "commit"
  /\ index' = [p \in Files |-> IF p \in Paths THEN work[p] ELSE index[p]]
  /\ head' = [p \in Files |-> IF p \in Paths THEN work[p] ELSE head[p]]
  /\ \/ NoFault /\ shas' = shas \cup {cur}
     \/ Fault("commit") /\ UNCHANGED shas
  /\ Finish(cur, verdict)
  /\ UNCHANGED <<cache, backedUp, work, orig, history, edits, runs>>

KeepUncommitted ==
  /\ \/ pc = "add" /\ BackupMode /\ NoFault
     \/ pc = "add" /\ ~BackupMode /\ Fault("add")
     \/ pc = "commit" /\ Fault("commit")
  /\ Finish(cur, verdict)
  /\ UNCHANGED <<shas, cache, backedUp, disk, history, edits, runs>>

EndRun ==
  /\ pc = "raised" \/ (pc = "next" /\ todo = {})
  /\ GoTo("idle")
  /\ cache' = NoCopies /\ backedUp' = {} /\ Unbound
  /\ UNCHANGED <<todo, rec, shas, disk, history, bounds>>

(* Ctrl-C, or the process is killed: what was in memory is gone.           *)
Crash ==
  /\ pc # "idle" /\ Fault("crash")
  /\ GoTo("idle")
  /\ todo' = {} /\ rec' = [f \in Findings |-> None] /\ shas' = {}
  /\ cache' = NoCopies /\ backedUp' = {} /\ Unbound
  /\ UNCHANGED <<disk, history, edits, runs>>

InFlight == {"prepare", "write", "unwrite", "confirm", "rollback", "restore",
             "add", "commit"}

(* The developer saves a file while VibeGuard runs.                        *)
UserEdits(p) ==
  /\ edits < MaxEdits /\ edits' = edits + 1
  /\ pc # "idle" /\ UserEdit \notin work[p]
  /\ work' = [work EXCEPT ![p] = @ \cup {UserEdit}]
  /\ disturbed' = disturbed \cup {p}
  /\ late' = IF pc \in InFlight /\ p \in Paths THEN late \cup {p} ELSE late
  /\ UNCHANGED <<pc, mem, index, head, orig, base, vouched, unrestored, blind, faults, runs>>

Decide == \E f \in Findings :
  PassOver(f) \/ Refuse(f) \/ ComputePatch(f) \/ NoPatch(f)

Apply ==
  \/ CheckFiles \/ AbandonChanged \/ DecodeRaises \/ Prepare
  \/ \E p \in Files : WriteFile(p) \/ WriteFails(p)
  \/ RestoreAfterFailedWrite

Settle ==
  \/ Confirm \/ RollBack \/ RollBackRaises \/ RestoreIfNeeded
  \/ Stage \/ Commit \/ KeepUncommitted

(* One step of repair().                                                   *)
Repair == Decide \/ Approve \/ Decline \/ PrepareRepro \/ Apply \/ Settle \/ EndRun

Environment ==
  \/ RefuseDirty \/ Crash
  \/ \E p \in Files : UserEdits(p)

(* The last run is over.                                                   *)
Stopped == pc = "idle" /\ runs = MaxRuns /\ UNCHANGED vars

Next == StartRun \/ Repair \/ Environment \/ Stopped

Spec == Init /\ [][Next]_vars

(* Every call the loop makes returns: subprocesses run under a timeout.    *)
FairSpec == Spec /\ WF_vars(Repair)

-----------------------------------------------------------------------------
Places == {"idle", "next", "ask", "repro", "check", "raised"} \cup InFlight

TypeOK ==
  /\ pc \in Places /\ cur \in Findings \cup {None} /\ todo \subseteq Findings
  /\ rec \in [Findings -> Statuses \cup {None}] /\ shas \subseteq Findings
  /\ cache \in [Files -> Copy] /\ originals \in [Files -> Copy]
  /\ toWrite \subseteq Files /\ repro \in BOOLEAN
  /\ verdict \in {"none", "fixed", "unverified", "failed"}
  /\ work \in [Files -> Content] /\ index \in [Files -> Copy]
  /\ head \in [Files -> Copy] /\ orig \in [Files -> Copy]
  /\ backedUp \subseteq Files
  /\ base \in [Files -> Content] /\ vouched \subseteq Findings
  /\ disturbed \subseteq Files /\ late \subseteq Files
  /\ unrestored \subseteq Files /\ blind \subseteq Files
  /\ faults \in Nat /\ edits \in Nat /\ runs \in Nat

(* The findings whose records say that their patch is in file p.           *)
AppliedTo(p) == {f \in Findings : rec[f] \in Applied /\ p \in Touches[f]}

AtRest == {"next", "ask", "repro", "check", "raised"}

(* Between two repairs the tree is exactly what the records say: the files *)
(* as the run found them plus the patches recorded FIXED or UNVERIFIED.    *)
(* Every FAILED or abandoned repair has left nothing behind and no later   *)
(* repair has undone an earlier one (engine.py 191-307).  Excepted are     *)
(* files somebody else saved, and those of a patch that a restore could not*)
(* write back or that a raising rollback has left behind: of the latter    *)
(* the run has no record at all.                                           *)
TreeMatchesRecords ==
  pc \in AtRest =>
    \A p \in Files \ (disturbed \cup unrestored) :
      Text(work[p]) = Text(base[p]) \cup AppliedTo(p)

(* If nothing failed but the validation, a rolled-back file is restored    *)
(* byte for byte, line ends included, which the text-mode restore of       *)
(* _restore_if_needed alone would not do (git_safety.py 265-285).          *)
RollbackRestoresBytes ==
  pc \in AtRest /\ faults = 0 =>
    \A p \in Files \ disturbed :
      AppliedTo(p) = {} /\ (BackupMode \/ p \notin Untracked) => work[p] = base[p]

(* No patch reaches the fix branch in a tracked file unless a verdict      *)
(* accepted it in some run, whatever was killed, failed or left uncommitted*)
(* before: the dirty check and the rollback together (git_safety.py        *)
(* 146-196, engine.py 256-289).  The check fails open: what a kill left in *)
(* a file that a failing `git status` did not list may be committed.       *)
HeadVouched ==
  \A p \in Files \ (Untracked \cup unrestored \cup blind) :
    head[p] # Absent => head[p] \cap Findings \subseteq vouched

(* A patch that is not validated yet can still be taken back from outside  *)
(* the process: the index, or the .orig file, holds each of its files      *)
(* without it (git_safety.py 227-240, 265-285), unless the run began on    *)
(* changes that it did not see.                                            *)
InFlightRecoverable ==
  pc \in {"write", "confirm", "rollback"} =>
    \A p \in Paths \ (IF BackupMode THEN {} ELSE Untracked \cup blind) :
      LET copy == IF BackupMode THEN orig[p] ELSE index[p]
      IN copy # Absent /\ (cur \in copy => cur \in base[p])

(* The patch of a finding that must not be repaired in this mode is in no  *)
(* copy of any file, the tree, the index, the branch and the backups, after*)
(* every failure and crash (engine.py 115-155).                            *)
MayRepair(f) ==
  /\ f \notin Destructive \cup Suppressed \cup Ruleless
  /\ Class[f] \in IF Interactive THEN {"safe", "review"} ELSE {"safe"}

RefusedUntouched ==
  \A copy \in {work, index, head, orig} : \A p \in Files :
    copy[p] # Absent => \A f \in Findings \cap copy[p] : MayRepair(f)

(* "Changed on disk" is never VibeGuard's own doing: caches are dropped    *)
(* whenever a repair writes, so only a file touched from outside or left   *)
(* unrestored fails the comparison (engine.py 202-212, 413-417).           *)
ChangedFromOutside ==
  pc = "check" /\ ChangedOnDisk => Paths \cap (disturbed \cup unrestored) # {}

(* A change somebody else makes is lost only when it was saved while a     *)
(* patch to that very file was in flight: before that, the comparison of   *)
(* the file with the text the patch was computed from protects it          *)
(* (engine.py 191-213).                                                    *)
OnlyLateEditsLost ==
  pc \in AtRest =>
    \A p \in disturbed \ (late \cup unrestored) : UserEdit \in work[p]

(* Every run of the loop ends.                                             *)
RunEnds == (pc = "next") ~> (pc = "idle")

(* Seen from outside, a patch in flight is not there: its files count with *)
(* the text saved in originals.  Under this reading every run of the loop  *)
(* implements AtomicRepair: all of a patch or none of it, in the tree and  *)
(* on the branch, once per finding, whichever write, rollback or git call  *)
(* fails.  Only the files of the patch in flight show it when the program  *)
(* is killed, cannot write them back, or ends in the middle of the rollback*)
(* with the tree as it is (engine.py 107-307, git_safety.py 146-196,       *)
(* 242-285).                                                               *)
TreeSeen ==
  [p \in Files |-> Findings \cap
     (IF pc \in InFlight /\ p \in Paths THEN originals[p] ELSE work[p])]
TipSeen == [p \in Files |-> IF head[p] = Absent THEN Absent ELSE Findings \cap head[p]]

Running == pc \notin {"idle", "raised"}

Atomic == INSTANCE AtomicRepair
  WITH tree <- TreeSeen, tip <- TipSeen, lost <- unrestored \cup blind, running <- Running
ImplementsAtomicRepair == Atomic!Spec

(* DECISIONS.md 149: a fix without a commit is "applied, backed up as      *)
(* <file>.orig".                                                           *)
AppliedIsBackedUp ==
  BackupMode /\ pc \in AtRest =>
    \A f \in Findings : rec[f] \in Applied =>
      \A p \in Touches[f] : orig[p] # Absent
=============================================================================
