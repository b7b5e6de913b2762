-------------------------------- MODULE Fixes --------------------------------
(***************************************************************************)
(* Repairs of the built-in rules, one after the other, on the texts of a   *)
(* project.                                                                *)
(*                                                                         *)
(* A scan reports what every rule flags and remembers, per finding, the    *)
(* line and how it read.  The repair loop then takes the findings in that  *)
(* order.  Each repair is computed anew from the texts as they are by then *)
(* - earlier repairs have moved their lines - and is kept, or not: dry     *)
(* run, declined, refused by the engine, rolled back by the validation.    *)
(***************************************************************************)
EXTENDS ReproTests

CONSTANTS
  Projects,     \* what may be scanned: functions from Files to texts
  Order,        \* Files as the scan lists them
  Cap,          \* findings of a rule in a scan (5 to 10, according to the rule)
  FileCap,      \* findings of OBS-001 in a file (3)
  MaxScans      \* bound: scans of the project

ASSUME CapAssumption == {Cap, FileCap, MaxScans} \subseteq Nat \ {0}

VARIABLES
  texts,        \* the project on disk
  findings,     \* of the last scan, in its order
  next,         \* the finding the repair loop is at
  scans

vars == <<texts, findings, next, scans>>

Project == "the whole project"

\* By identifier, which is the order the registry gives them.
Rules == <<"API-001", "API-002", "COST-003", "CTR-001", "CTR-002", "CTR-003", "CTR-004",
           "CTR-005", "CTR-006", "OBS-001", "OBS-006", "REL-001", "REL-002", "SEC-001",
           "SEC-002", "SEC-007", "SEC-008", "SEC-010", "SEC-011", "SEC-012", "SEC-014",
           "SEC-015", "SEC-016", "SEC-018">>

Flagged(rule, f, text, i) ==
  CASE rule = "API-001" -> SourceFile(f, "py") /\ HttpTimeout(text, i)
    [] rule = "API-002" -> SourceFile(f, "js") /\ HttpTimeoutJs(text, i)
    [] rule = "SEC-001" -> SourceFile(f, "py") /\ SqlInjectionPython(text, i)
    [] rule = "SEC-002" -> SourceFile(f, "js") /\ SqlInjectionJavaScript(text, i)
    [] rule = "COST-003" -> KindOf[f] = "docker" /\ OversizedBase(text, i)
    [] rule = "CTR-001" -> KindOf[f] = "docker" /\ RunsAsRoot(text, i)
    [] rule = "CTR-002" -> KindOf[f] = "docker" /\ NoHealthcheck(text, i)
    [] rule = "CTR-003" -> KindOf[f] = "docker" /\ UnpinnedBase(text, i)
    [] rule = "CTR-004" -> KindOf[f] = "docker" /\ InstallAfterCopy(text, i)
    [] rule = "CTR-005" -> KindOf[f] = "docker" /\ BakedSecret(text, i)
    [] rule = "CTR-006" -> KindOf[f] = "docker" /\ LayerBloat(text, i)
    [] rule = "SEC-012" -> f \notin Apart /\ DebugMode(text, i)
    [] rule = "SEC-015" -> f \notin Apart /\ PermissiveCors(text, i)
    [] rule = "SEC-018" -> f \notin Apart /\ TlsVerification(text, i)
    [] OTHER -> KindOf[f] \in {"py", "js"} /\ f \notin Apart /\
         CASE rule = "OBS-001" -> PrintDiagnostics(f, text, i)
           [] rule = "OBS-006" -> DebugLevel(text, i)
           [] rule = "REL-001" -> SwallowedException(text, i)
           [] rule = "REL-002" -> UnreleasedResource(text, i)
           [] rule = "SEC-007" -> CommandInjection(text, i)
           [] rule = "SEC-008" -> PathTraversal(text, i)
           [] rule = "SEC-010" -> WeakCryptography(text, i)
           [] rule = "SEC-011" -> UnsafeRandomness(text, i)
           [] rule = "SEC-016" -> InsecureCookie(text, i)

\* <<>> when the rule refuses, or has no repair.
Repaired(x, text) ==
  CASE x.rule = "API-001" -> AddTimeout(text, x)
    [] x.rule = "COST-003" -> Slim(text, x)
    [] x.rule = "CTR-001" -> DropPrivileges(text)
    [] x.rule = "CTR-002" -> CheckHealth(text)
    [] x.rule = "CTR-004" -> InstallFirst(text)
    [] x.rule = "OBS-001" -> LogInstead(x.file, text, x)
    [] x.rule = "REL-002" -> WithInstead(x.file, text, x)
    [] x.rule = "SEC-001" -> BindValue(text, x)
    [] x.rule = "SEC-002" -> BindTemplate(text, x)
    [] x.rule = "SEC-007" -> ArgumentList(x.file, text, x)
    [] x.rule = "SEC-011" -> DrawSecrets(x.file, text, x)
    [] x.rule = "SEC-014" -> ApplyHelmet(text)
    [] x.rule = "SEC-016" -> SetFlags(x.file, text, x)
    [] x.rule = "SEC-018" -> VerifyAgain(text, x)
    [] OTHER -> Refused

\* SEC-014 is about the project; its repair needs one file that builds the app.
Repairable(x, ts) == x.file # Project \/ Cardinality(ExpressFiles(ts)) = 1
FileOf(x, ts) == IF x.file = Project THEN CHOOSE f \in ExpressFiles(ts) : TRUE ELSE x.file

-----------------------------------------------------------------------------
FirstOf(seq, n) == SubSeq(seq, 1, Min({n, Len(seq)}))

PerFile(rule) == CASE rule = "OBS-001" -> FileCap [] rule = "CTR-004" -> 1 [] OTHER -> Cap

InFile(rule, f, text) ==
  LET at == SetToSortSeq({i \in DOMAIN text : Flagged(rule, f, text, i)}, <)
      found(i) == [rule |-> rule, file |-> f, line |-> i, reads |-> Reads(text[i]), nr |-> text[i].nr]
  IN  [k \in DOMAIN FirstOf(at, PerFile(rule)) |-> found(at[k])]

WholeProject(ts) ==
  IF SecurityHeaders(ts)
  THEN <<[rule |-> "SEC-014", file |-> Project, line |-> 0, reads |-> <<>>, nr |-> 0]>>
  ELSE <<>>

ByRule(ts, rule) ==
  IF rule = "SEC-014" THEN WholeProject(ts)
  ELSE FirstOf(FlattenSeq([k \in DOMAIN Order |-> InFile(rule, Order[k], ts[Order[k]])]), Cap)

\* Of two findings of a rule in a file that read the same, the first stays.
SameFinding(x, y) == <<x.rule, x.file, x.reads>> = <<y.rule, y.file, y.reads>>
Deduplicated(seq) ==
  FoldLeft(LAMBDA kept, x : IF \E k \in DOMAIN kept : SameFinding(kept[k], x)
                            THEN kept ELSE Append(kept, x), <<>>, seq)

Findings(ts) ==
  Deduplicated(FlattenSeq([k \in DOMAIN Rules |-> ByRule(ts, Rules[k])]))

-----------------------------------------------------------------------------
Init ==
  /\ \E project \in Projects : texts = [f \in Files |-> Numbered(project[f])]
  /\ findings = <<>> /\ next = 1 /\ scans = 0

Scan ==
  /\ next > Len(findings) /\ scans < MaxScans
  /\ texts' = [f \in Files |-> Numbered(texts[f])]
  /\ findings' = Findings(texts')
  /\ next' = 1 /\ scans' = scans + 1

Repair ==
  /\ next <= Len(findings) /\ Repairable(findings[next], texts)
  /\ LET f == FileOf(findings[next], texts)
         repaired == Repaired(findings[next], texts[f])
     IN  repaired # Refused /\ texts' = [texts EXCEPT ![f] = repaired]
  /\ next' = next + 1
  /\ UNCHANGED <<findings, scans>>

Leave ==
  /\ next <= Len(findings)
  /\ next' = next + 1
  /\ UNCHANGED <<texts, findings, scans>>

Next == Scan \/ Repair \/ Leave

Spec == Init /\ [][Next]_vars

-----------------------------------------------------------------------------
(* What a text does, as far as a repair could spoil it, and what a repair  *)
(* does not look at.                                                       *)
Outside(line) == "indented" \notin line.has
Importing(line, module) == module \in line.has /\ line.has \cap {"import", "from"} # {}
ImportOf(line, module) == Importing(line, module) /\ "from" \notin line.has

\* What binds a name runs before what uses it: above it, or, for a use inside
\* of a function, anywhere.
BoundBefore(text, i, Binds(_)) ==
  \E j \in DOMAIN text : Binds(text[j]) /\ Outside(text[j]) /\ (Outside(text[i]) => j < i)

LoggerUnbound(text, i) ==
  "log" \in text[i].has /\ ~BoundBefore(text, i, LAMBDA line : "getLogger" \in line.has)
ModuleUnbound(text, i, module) ==
  /\ (IF module = "logging" THEN "getLogger" ELSE module) \in text[i].has
  /\ text[i].has \cap {"import", "from"} = {}
  /\ ~BoundBefore(text, i, LAMBDA line : ImportOf(line, module))

\* The module's own logger, or its first import, stands further down.
LoggerBelow(text, i) ==
  LET own(what) == {j \in With(text, what) : text[j].nr # 0}
  IN  \/ \E j \in own("getLogger") : i < j
      \/ own("import") # {} /\ \A j \in own("import") : i < j
\* The file has an import of the module that does not bind it there.
OwnImport(text, module) == \E j \in DOMAIN text : text[j].nr # 0 /\ Importing(text[j], module)

\* A line was added between those of a bracketed import.
Split(text, i) ==
  \E k \in (i + 1)..Len(text) :
    /\ "(" \in text[i].has /\ ")" \in text[k].has
    /\ \A m \in i..(k - 1) : ")" \notin text[m].has
    /\ \E j \in (i + 1)..(k - 1) : text[j].nr = 0

\* A handle is read when its with block has closed it: below the block, or, for
\* a handle of the module, in a function above it.
Closed(text, i) == IF "in with" \in text[i].has THEN text[i - 1].has \cap Names ELSE {}
ReadBelow(text, i) == \E j \in (i + 1)..Len(text) : text[j].has \cap Closed(text, i) # {}
ReadAbove(text, i) ==
  \E j \in 1..(i - 2) : ~Outside(text[j]) /\ text[j].has \cap Closed(text, i) # {}
\* Or what read it lazily is read: a generator, a csv reader.
ReadLazily(text, i) ==
  /\ {"in with", "lazy"} \subseteq text[i].has
  /\ \E j \in (i + 1)..Len(text) : text[j].has \cap text[i].has \cap Names # {}
ReadClosed(text, i) == ReadBelow(text, i) \/ ReadAbove(text, i) \/ ReadLazily(text, i)

\* An install does not find its manifests where it runs.
WorkDirs(text, i) ==
  {w \in StageFrom(text, Max({g \in Froms(text) : g <= i})) : text[w].op = "WORKDIR" /\ w <= i}
Cwd(text, i) == IF WorkDirs(text, i) = {} THEN "/" ELSE text[Max(WorkDirs(text, i))].at[1]
LandsIn(text, c) == IF text[c].at[1] = "./" THEN Cwd(text, c) ELSE text[c].at[1]
CopiedAbove(text, i) ==
  {c \in StageFrom(text, Max({g \in Froms(text) : g <= i})) :
     c < i /\ text[c].op = "COPY" /\ text[c].has \cap {"full", "manifest"} # {}}
Unfed(text, i) ==
  Install(text, i) /\ \A c \in CopiedAbove(text, i) : LandsIn(text, c) # Cwd(text, i)
\* The directory is chosen between the copy and the install.
WorkdirBetween(text, i) == \E c \in CopiedAbove(text, i) : Cwd(text, c) # Cwd(text, i)

-----------------------------------------------------------------------------

\* What the rules report, each by the line it stood on at the scan.
Reports(ts) ==
  UNION {{<<rule, f, ts[f][i].nr>> : i \in {j \in DOMAIN ts[f] : Flagged(rule, f, ts[f], j)}} :
           rule \in ToSet(Rules) \ {"SEC-014"}, f \in Files}
    \cup (IF SecurityHeaders(ts) THEN {<<"SEC-014", Project, 0>>} ELSE {})

\* A repair that is kept removes the defect it was made for, and no other
\* finding of that rule: however far earlier repairs moved the lines, the
\* edit is made on the line the finding is about.
HitsItsFinding(x) ==
  LET own == <<x.rule, x.file, x.nr>>
  IN  /\ own \notin Reports(texts')
      /\ \A d \in Reports(texts) \ {own} : d[1] = x.rule => d \in Reports(texts')
RepairHitsItsFinding ==
  [][next' = next + 1 /\ texts' # texts => HitsItsFinding(findings[next])]_vars

\* The lines that a repair for x takes for the one it is about.
Reading(text, nr) == {Reads(text[i]) : i \in {j \in DOMAIN text : text[j].nr = nr}}
Fits(x, text, i) ==
  LET repaired == Repaired([x EXCEPT !.line = i], text)
  IN  /\ text[i].nr # 0 /\ repaired # Refused
      /\ Reading(repaired, text[i].nr) # Reading(text, text[i].nr)
Near(x, text) == {i \in DOMAIN text : i <= x.line + Window /\ x.line <= i + Window}

\* The finding's own line is not where it was recorded, and another that fits
\* is there, or is the only one that fits near it.
Misled(x, text) ==
  \E i \in Near(x, text) :
    /\ text[i].nr # x.nr /\ Fits(x, text, i)
    /\ i = x.line \/ ~\E k \in Near(x, text) : text[k].nr = x.nr /\ Fits(x, text, k)

\* Where a repair edits another line than its finding's, or leaves the finding
\* or removes another one of the rule, it was misled by where the lines stand:
\* repairs that came before moved them, or the rule reports what it cannot
\* repair next to a line that it can.
HitsUnlessMisled ==
  [][next' = next + 1 /\ texts' # texts =>
       \/ HitsItsFinding(findings[next])
       \/ findings[next].file # Project /\ Misled(findings[next], texts[findings[next].file])]_vars

\* No repair of a rule brings a defect that some rule reports.
RepairBringsNoDefect ==
  [][next' = next + 1 /\ texts' # texts => Reports(texts') \subseteq Reports(texts)]_vars

\* "Re-running a fix on already-fixed content produces no patch", unless another
\* line near it fits: it then goes to that line, and undoes nothing.
GoesElsewhere(x, before, after) ==
  LET again == Repaired(x, after)
      old(text) == {text[i].nr : i \in DOMAIN text} \ {0}
      edited == {nr \in old(before) : Reading(after, nr) # Reading(before, nr)}
  IN  /\ \E i \in Near(x, after) : Fits(x, after, i) /\ after[i].nr \notin edited
      /\ \A nr \in edited : Reading(again, nr) = Reading(after, nr)

\* A test that failed before the repair of its finding fails after it when the
\* finding is still there, so that no repair is kept on the word of its test that
\* removed nothing; and when it is not, only for a line that reads like it: no
\* repair is rolled back for any other defect of the file.
Stands(x, text) ==
  \E i \in DOMAIN text :
    text[i].nr = x.nr /\ Flagged(x.rule, x.file, text, i) /\ Reads(text[i]) = x.reads
Lookalike(x, text) ==
  LET bare(marks) == marks \ {"indented", "=", "block", "sensitive", "execute", "raw", "args"}
  IN  \E i \in DOMAIN text :
        /\ text[i].nr # x.nr /\ bare(text[i].has) # {}
        /\ bare(text[i].has) \subseteq bare(x.reads[3]) \/ bare(x.reads[3]) \subseteq bare(text[i].has)
TestTellsItsDefect ==
  next <= Len(findings) /\ Repairable(findings[next], texts) =>
    LET x == findings[next]
        text == texts[FileOf(x, texts)]
        repaired == Repaired(x, text)
    IN  repaired # Refused /\ Reproduces(x, text) =>
          /\ Stands(x, repaired) => Reproduces(x, repaired)
          /\ Reproduces(x, repaired) => Stands(x, repaired) \/ Lookalike(x, repaired)
==============================================================================
