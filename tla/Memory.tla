-------------------------------- MODULE Memory --------------------------------
(***************************************************************************)
(* What VibeGuard remembers between runs, and the commands that use it:    *)
(* the suppressions and inline comments people write, the baseline that    *)
(* `baseline create` saves, the history that every run compares with and   *)
(* adds to, and the gate of `ci`.                                          *)
(*                                                                         *)
(* A site is a line a rule reports.  Two sites may have one fingerprint:   *)
(* the same text twice in a file.  Runs are processes of their own (a      *)
(* terminal, a CI job, the web UI) over one repository.                    *)
(***************************************************************************)
EXTENDS History

CONSTANTS
  Runs,
  Sites,       \* numbers, in the order the rules report them
  Fp, Rule,    \* Fp[s], Rule[s]
  Gating,      \* rules at or above fail_on
  Entries,     \* entries suppressions.yml may have: [fp, rule, expires]
  Starts,      \* what the repository may begin with: [tree, waived, supps, past]
  MaxClock,    \* bound: moments
  MaxEdits,    \* bound: edits by people
  MaxFaults    \* bound: failing writes and killed runs

ASSUME MemoryAssumption ==
  /\ Sites \subseteq Nat /\ Fp \in [Sites -> Fingerprints] /\ DOMAIN Rule = Sites
  /\ \A e \in Entries : e.expires = None \/ e.expires \in Nat
  /\ \A s \in Starts :
       /\ s.tree \subseteq Sites /\ s.waived \subseteq Sites /\ s.supps \subseteq Entries
       /\ s.past = None \/ s.past \subseteq Fingerprints
  /\ MaxClock \in Nat /\ MaxEdits \in Nat /\ MaxFaults \in Nat

Fixing == {"fix", "uiFix"}
InUi == {"uiScan", "uiFix"}
Commands == {"audit", "ci", "baseline"} \cup Fixing \cup InUi
Places == {"off", "scan", "memory", "repair", "list", "compare", "emit", "name",
           "create", "fill", "prune", "unlink", "save", "fillSave", "done"}

VARIABLES
  \* the repository and the files in .vibeguard
  tree,        \* the sites in the code
  waived,      \* sites with an inline comment
  supps,       \* entries of suppressions.yml
  baseline,    \* fingerprints of baseline.json, None without one, or Torn
  clock, edits, faults,
  \* of each run
  pc, command, useBaseline,
  found,       \* its findings, by the site that stands for them
  inlined,     \* sites with an inline comment when it read the code
  suppressed, baselined, fixed,
  listing,     \* names of the history files it compares with
  diff,        \* its RegressionDiff
  name,        \* of its own history file
  stale,       \* names it is about to unlink
  exit         \* its exit code

\* History, read by no action: the fingerprints some `baseline create` found
\* open, and those open in every report so far.
VARIABLES decided, always

files == <<tree, waived, supps, baseline, entries, created>>
world == <<clock, edits, faults>>
runs == <<pc, command, useBaseline, found, inlined, suppressed, baselined, fixed,
          listing, diff, name, stale, exit>>
ghosts == <<decided, always>>
vars == <<files, world, runs, ghosts>>

-----------------------------------------------------------------------------
(* Nobody has run anything yet, or one report is stored.                   *)
Init ==
  /\ \E s \in Starts :
       /\ tree = s.tree /\ waived = s.waived /\ supps = s.supps
       /\ entries = IF s.past = None THEN <<>> ELSE [n \in {<<0, 0>>} |-> s.past]
       /\ always = IF s.past = None THEN Fingerprints ELSE s.past
  /\ created = IF entries = <<>> THEN <<>> ELSE << <<0, 0>> >>
  /\ baseline = None
  /\ clock = 0 /\ edits = 0 /\ faults = 0
  /\ pc = [r \in Runs |-> "off"] /\ command = [r \in Runs |-> "audit"]
  /\ useBaseline = [r \in Runs |-> TRUE]
  /\ found = [r \in Runs |-> {}] /\ inlined = [r \in Runs |-> {}]
  /\ suppressed = [r \in Runs |-> {}] /\ baselined = [r \in Runs |-> {}]
  /\ fixed = [r \in Runs |-> {}] /\ listing = [r \in Runs |-> {}]
  /\ diff = [r \in Runs |-> None] /\ name = [r \in Runs |-> <<0, 0>>]
  /\ stale = [r \in Runs |-> {}] /\ exit = [r \in Runs |-> None]
  /\ decided = {}

Go(r, place) == pc' = [pc EXCEPT ![r] = place]
Exit(r, code) == Go(r, "done") /\ exit' = [exit EXCEPT ![r] = code]

-----------------------------------------------------------------------------
(* People edit the code, a comment, or suppressions.yml.                   *)
Edit ==
  /\ edits < MaxEdits /\ edits' = edits + 1
  /\ \E s \in Starts :
       \/ tree' = s.tree /\ UNCHANGED <<waived, supps>>
       \/ waived' = s.waived /\ UNCHANGED <<tree, supps>>
       \/ supps' = s.supps /\ UNCHANGED <<tree, waived>>
  /\ UNCHANGED <<baseline, entries, created, clock, faults, runs, ghosts>>

Start(r) ==
  /\ pc[r] = "off" /\ Go(r, "scan")
  /\ \E c \in Commands, b \in BOOLEAN :
       /\ c # "ci" => b
       /\ command' = [command EXCEPT ![r] = c]
       /\ useBaseline' = [useBaseline EXCEPT ![r] = b]
  /\ UNCHANGED <<files, world, ghosts, found, inlined, suppressed, baselined, fixed,
                 listing, diff, name, stale, exit>>

-----------------------------------------------------------------------------
(* Detection.  _dedup keeps the first finding of each fingerprint.         *)
Dedup(sites) == {s \in sites : \A t \in sites : Fp[t] = Fp[s] => s <= t}

Scan(r) ==
  /\ pc[r] = "scan" /\ Go(r, "memory")
  /\ found' = [found EXCEPT ![r] = Dedup(tree)]
  /\ inlined' = [inlined EXCEPT ![r] = tree \cap waived]
  /\ UNCHANGED <<files, world, ghosts, command, useBaseline, suppressed,
                 baselined, fixed, listing, diff, name, stale, exit>>

Matches(e, s) == IF e.fp # None THEN e.fp = Fp[s] ELSE e.rule = Rule[s]
Expired(e) == e.expires # None /\ e.expires <= clock

\* A file that cannot be read is no baseline.
LoadBaseline == IF baseline \in {None, Torn} THEN {} ELSE baseline
Baselined(sites) == {s \in sites : Fp[s] \in LoadBaseline}

(* Suppressions and comments first; the baseline marks what is left.       *)
ApplyMemory(r) ==
  /\ pc[r] = "memory"
  /\ Go(r, IF command[r] \in Fixing THEN "repair" ELSE "list")
  /\ LET live == {e \in supps : ~Expired(e)}
         waves == {s \in found[r] : s \in inlined[r] \/ \E e \in live : Matches(e, s)}
     IN /\ suppressed' = [suppressed EXCEPT ![r] = waves]
        /\ baselined' = [baselined EXCEPT ![r] = Baselined(found[r] \ waves)]
  /\ UNCHANGED <<files, world, ghosts, command, useBaseline, found, inlined, fixed,
                 listing, diff, name, stale, exit>>

(* FixerEngine.repair: any of the findings nobody waived may be FIXED.     *)
Repair(r) ==
  /\ pc[r] = "repair" /\ Go(r, "list")
  /\ \E sites \in SUBSET (found[r] \ suppressed[r]) :
       fixed' = [fixed EXCEPT ![r] = sites] /\ tree' = tree \ sites
  /\ UNCHANGED <<waived, supps, baseline, entries, created, world, ghosts, command,
                 useBaseline, found, inlined, suppressed, baselined, listing, diff,
                 name, stale, exit>>

(* A dirty worktree is exit 3, another refusal by git 2; the web UI tells   *)
(* the browser.  No report, no history.                                    *)
RefuseRepair(r) ==
  /\ pc[r] = "repair"
  /\ IF command[r] = "uiFix" THEN Exit(r, None) ELSE \E code \in {2, 3} : Exit(r, code)
  /\ UNCHANGED <<files, world, ghosts, command, useBaseline, found, inlined, suppressed,
                 baselined, fixed, listing, diff, name, stale>>

Open(r) == {Fp[s] : s \in (found[r] \ suppressed[r]) \ fixed[r]}

ListHistory(r) ==
  /\ pc[r] = "list" /\ Go(r, "compare")
  /\ listing' = [listing EXCEPT ![r] = DOMAIN entries]
  /\ UNCHANGED <<files, world, ghosts, command, useBaseline, found, inlined, suppressed,
                 baselined, fixed, diff, name, stale, exit>>

Gates(r) ==
  {s \in (found[r] \ suppressed[r]) \ fixed[r] :
     Rule[s] \in Gating /\ ~(useBaseline[r] /\ s \in baselined[r])}

\* Of the commands that report, only `ci` makes findings an exit code.
ExitCode(r) == IF command[r] = "ci" /\ Gates(r) # {} THEN 1 ELSE 0

(* The listed files are read, the report is built and the gate decided.    *)
Compare(r) ==
  /\ pc[r] = "compare" /\ Go(r, IF command[r] = "baseline" THEN "save" ELSE "emit")
  /\ diff' = [diff EXCEPT ![r] = Diff(Open(r), listing[r])]
  /\ clock' \in {clock, clock + 1} /\ clock' <= MaxClock
  /\ name' = [name EXCEPT ![r] = <<clock', 0>>]
  /\ exit' = [exit EXCEPT ![r] = ExitCode(r)]
  /\ decided' = IF command[r] = "baseline" THEN decided \cup Open(r) ELSE decided
  /\ always' = always \cap Open(r)
  /\ UNCHANGED <<files, edits, faults, command, useBaseline, found, inlined, suppressed,
                 baselined, fixed, listing, stale>>

-----------------------------------------------------------------------------
(* --no-write, which a repair does not have.                               *)
WriteNothing(r) ==
  /\ pc[r] = "emit" /\ command[r] \notin Fixing /\ Go(r, "done")
  /\ UNCHANGED <<files, world, ghosts, command, useBaseline, found, inlined, suppressed,
                 baselined, fixed, listing, diff, name, stale, exit>>

(* The report files; [history] enabled decides whether an entry follows.   *)
Emit(r) ==
  /\ pc[r] = "emit" /\ (Go(r, "name") \/ Go(r, "done"))
  /\ UNCHANGED <<files, world, ghosts, command, useBaseline, found, inlined, suppressed,
                 baselined, fixed, listing, diff, name, stale, exit>>

(* The CLI gives up before the history; the web UI goes on to it.          *)
EmitFails(r) ==
  /\ pc[r] = "emit" /\ faults < MaxFaults /\ faults' = faults + 1
  /\ IF command[r] \in InUi THEN Go(r, "name") /\ UNCHANGED exit ELSE Exit(r, 2)
  /\ UNCHANGED <<files, clock, edits, ghosts, command, useBaseline, found, inlined,
                 suppressed, baselined, fixed, listing, diff, name, stale>>

ChooseName(r) ==
  /\ pc[r] = "name" /\ Go(r, "create")
  /\ \E i \in 0..MaxSuffix : Free(name[r][1], i)
  /\ name' = [name EXCEPT ![r] = FreeName(name[r][1])]
  /\ UNCHANGED <<files, world, ghosts, command, useBaseline, found, inlined, suppressed,
                 baselined, fixed, listing, diff, stale, exit>>

(* Mutant of CreateEntry: half a report reads as one without findings.      *)
CreateReadable(r) ==
  /\ pc[r] = "create" /\ Go(r, "fill")
  /\ entries' = [n \in DOMAIN entries \cup {name[r]} |->
                   IF n = name[r] THEN {} ELSE entries[n]]
  /\ created' = Append(created, name[r])
  /\ UNCHANGED <<tree, waived, supps, baseline, world, ghosts, command, useBaseline, found,
                 inlined, suppressed, baselined, fixed, listing, diff, name, stale, exit>>

(* write_text truncates, then writes.                                      *)
CreateEntry(r) ==
  /\ pc[r] = "create" /\ Go(r, "fill")
  /\ entries' = [n \in DOMAIN entries \cup {name[r]} |->
                   IF n = name[r] THEN Torn ELSE entries[n]]
  /\ created' = Append(created, name[r])
  /\ UNCHANGED <<tree, waived, supps, baseline, world, ghosts, command, useBaseline, found,
                 inlined, suppressed, baselined, fixed, listing, diff, name, stale, exit>>

(* What a file may hold once text has gone to it: a second writer has      *)
(* written to it since it was truncated, or not.                           *)
Written(old, text) == IF old = Torn THEN {text} ELSE {text, Torn}

(* A file unlinked meanwhile stays unlinked.                               *)
FillEntry(r) ==
  /\ pc[r] = "fill" /\ Go(r, "prune")
  /\ IF name[r] \in DOMAIN entries
     THEN \E text \in Written(entries[name[r]], Open(r)) :
            entries' = [entries EXCEPT ![name[r]] = text]
     ELSE UNCHANGED entries
  /\ UNCHANGED <<tree, waived, supps, baseline, created, world, ghosts, command,
                 useBaseline, found, inlined, suppressed, baselined, fixed, listing, diff,
                 name, stale, exit>>

Prune(r) ==
  /\ pc[r] = "prune" /\ Go(r, "unlink")
  /\ stale' = [stale EXCEPT ![r] = StaleNames]
  /\ UNCHANGED <<files, world, ghosts, command, useBaseline, found, inlined, suppressed,
                 baselined, fixed, listing, diff, name, exit>>

(* A file that cannot be unlinked is passed over.                          *)
UnlinkStale(r) ==
  /\ pc[r] = "unlink" /\ Go(r, "done")
  /\ \E left \in SUBSET stale[r] :
       /\ entries' = [n \in (DOMAIN entries \ stale[r]) \cup (DOMAIN entries \cap left) |-> entries[n]]
       /\ IF left = {} THEN UNCHANGED faults ELSE faults < MaxFaults /\ faults' = faults + 1
  /\ stale' = [stale EXCEPT ![r] = {}]
  /\ UNCHANGED <<tree, waived, supps, baseline, created, clock, edits, ghosts, command,
                 useBaseline, found, inlined, suppressed, baselined, fixed, listing, diff,
                 name, exit>>

(* An OSError in write_history is a warning.                               *)
HistoryFails(r) ==
  /\ pc[r] \in {"name", "create", "fill"} /\ Go(r, "done")
  /\ faults < MaxFaults /\ faults' = faults + 1
  /\ UNCHANGED <<files, clock, edits, ghosts, command, useBaseline, found, inlined,
                 suppressed, baselined, fixed, listing, diff, name, stale, exit>>

-----------------------------------------------------------------------------
(* Mutant of Accepted: a suppressed finding is accepted as well.            *)
AcceptedAll(r) == {Fp[s] : s \in found[r]}

(* save_baseline: every finding that is neither suppressed nor FIXED.      *)
Accepted(r) == {Fp[s] : s \in (found[r] \ suppressed[r]) \ fixed[r]}

SaveBaseline(r) ==
  /\ pc[r] = "save" /\ Go(r, "fillSave")
  /\ baseline' = Torn
  /\ UNCHANGED <<tree, waived, supps, entries, created, world, ghosts, command,
                 useBaseline, found, inlined, suppressed, baselined, fixed, listing, diff,
                 name, stale, exit>>

FillBaseline(r) ==
  /\ pc[r] = "fillSave" /\ Go(r, "done")
  /\ baseline' \in Written(baseline, Accepted(r))
  /\ UNCHANGED <<tree, waived, supps, entries, created, world, ghosts, command,
                 useBaseline, found, inlined, suppressed, baselined, fixed, listing, diff,
                 name, stale, exit>>

SaveFails(r) ==
  /\ pc[r] \in {"save", "fillSave"} /\ Exit(r, 2)
  /\ faults < MaxFaults /\ faults' = faults + 1
  /\ UNCHANGED <<files, clock, edits, ghosts, command, useBaseline, found, inlined,
                 suppressed, baselined, fixed, listing, diff, name, stale>>

(* The process is killed; whatever it had open stays half written.         *)
Crash(r) ==
  /\ pc[r] \notin {"off", "done"} /\ Exit(r, None)
  /\ faults < MaxFaults /\ faults' = faults + 1
  /\ UNCHANGED <<files, clock, edits, ghosts, command, useBaseline, found, inlined,
                 suppressed, baselined, fixed, listing, diff, name, stale>>

Over == (\A r \in Runs : pc[r] = "done") /\ UNCHANGED vars

Detect(r) == Start(r) \/ Scan(r) \/ ApplyMemory(r) \/ Repair(r) \/ RefuseRepair(r)
Report(r) == ListHistory(r) \/ Compare(r) \/ WriteNothing(r) \/ Emit(r) \/ EmitFails(r)
Record(r) == ChooseName(r) \/ CreateEntry(r) \/ FillEntry(r) \/ Prune(r)
               \/ UnlinkStale(r) \/ HistoryFails(r)
Save(r) == SaveBaseline(r) \/ FillBaseline(r) \/ SaveFails(r)

Next == Edit \/ Over \/ \E r \in Runs : Detect(r) \/ Report(r) \/ Record(r) \/ Save(r) \/ Crash(r)

Spec == Init /\ [][Next]_vars

-----------------------------------------------------------------------------
(* `ci` passes over a finding only while somebody waives it, or because a  *)
(* `baseline create` once found it open and unwaived: a suppression that   *)
(* lapses brings its finding back, also when a baseline was saved while it *)
(* held, and whoever else writes in .vibeguard meanwhile                   *)
(* (baseline/store.py 91-103, orchestrator.py 660-680).                    *)
ExemptByDecision ==
  \A r \in Runs : command[r] = "ci" /\ exit[r] = 0 =>
    \A s \in found[r] \ suppressed[r] :
      Rule[s] \in Gating => useBaseline[r] /\ Fp[s] \in decided

(* The i-th entry written is newer than the j-th: of a later report, or a  *)
(* later one of the same microsecond.                                      *)
Newer(i, j) ==
  \/ created[i][1] > created[j][1]
  \/ created[i][1] = created[j][1] /\ i > j

(* A name that collides gets "-1" and sorts before its sibling, which was   *)
(* written earlier and is kept in its stead.                               *)
Outranked(i) ==
  \E j \in 1..(i - 1) :
    created[j][1] = created[i][1] /\ Before(created[i], created[j]) /\ created[j] \in DOMAIN entries

(* Pruning leaves each of the Keep newest entries ever written, however     *)
(* many runs write, list and unlink at once; only of two reports of one    *)
(* microsecond, which are to be kept "both, in order", it may leave the    *)
(* older (baseline/history.py 91-98).  Runs that chose one free name at    *)
(* once share that entry.                                                  *)
NewestKept ==
  Keep > 0 =>
    \A i \in DOMAIN created :
      Cardinality({j \in DOMAIN created : Newer(j, i)}) < Keep =>
        created[i] \in DOMAIN entries \/ Outranked(i)

(* A finding that is open in every report so far is never reported as new, *)
(* regressed or resolved: not after a crash in the middle of an entry, nor *)
(* when another run prunes between the listing and the reading             *)
(* (baseline/history.py 118-161).                                          *)
SteadyIsUnchanged ==
  \A r \in Runs : diff[r] # None => always \subseteq diff[r].unchanged
=============================================================================
