----------------------------- MODULE DockerRules -----------------------------
(***************************************************************************)
(* The rules about Dockerfiles, with their repairs.  A line has the op of  *)
(* its instruction; comments and blank lines have op "", the further lines *)
(* of an instruction op "...".  at and has are                             *)
(*   FROM        <<image, alias>>; python, node: the family of the image,  *)
(*               known: one adduser is known for, fat: a whole             *)
(*               distribution, digest, slim, floating: what the tag says   *)
(*   COPY        <<where to>>; full: of the whole context; manifest;       *)
(*               secret; continued                                         *)
(*   RUN         <<manager>> whose manifest it reads; install; tooling:    *)
(*               compilers and package managers; bloat: leaves a cache     *)
(*   WORKDIR     <<directory>>                                             *)
(*   USER        root, appuser                                             *)
(*   EXPOSE      port: one number, ports: several                          *)
(*   CMD, ENTRYPOINT   server                                              *)
(*   ENV, ARG    secret                                                    *)
(* any of them   needs fat: names a workload that needs the whole image    *)
(***************************************************************************)
EXTENDS Repairs

CONSTANTS
  Manifests,            \* managers whose manifests stand at the root
  CompiledDependency    \* a manifest names a package that needs a compiler

parse_dockerfile(text) == {i \in DOMAIN text : text[i].op \notin {"", "..."}}
Is(text, i, ops) == i \in parse_dockerfile(text) /\ text[i].op \in ops
Froms(text) == {i \in DOMAIN text : text[i].op = "FROM"}

\* A stage is the set of its lines, from its FROM on.
StageFrom(text, from) ==
  {i \in parse_dockerfile(text) : i >= from /\ ~\E g \in Froms(text) : from < g /\ g <= i}
final_stage(text) == IF Froms(text) = {} THEN {} ELSE StageFrom(text, Max(Froms(text)))

image(line) == line.at[1]
Aliases(text) == {text[i].at[2] : i \in Froms(text)} \ {""}

-----------------------------------------------------------------------------
(* CTR-001: the last USER of the final stage decides.                      *)
UsersOf(text, stage) == {i \in stage : text[i].op = "USER"}
RunsAsRoot(text, i) ==
  LET stage == final_stage(text)
      users == UsersOf(text, stage)
  IN  /\ stage # {}
      /\ IF users = {} THEN i = Min(stage) ELSE i = Max(users) /\ "root" \in text[i].has

Adduser(line) == "known" \in line.has
DropPrivileges(text) ==
  LET stage == final_stage(text)
      user == <<Blank, Code({"#"}), Line("RUN", <<"">>, {"appuser"}), Line("USER", <<>>, {"appuser"})>>
      last == Max({0} \cup {i \in DOMAIN text : ~IsBlank(text[i]) \/ text[i].op # ""})
  IN  CASE stage = {} -> Refused
        [] OTHER ->
             IF \/ UsersOf(text, stage) # {} \/ Has(text, "appuser")
                \/ ~Adduser(text[Min(stage)])
             THEN Refused
             ELSE SubSeq(text, 1, last) \o user

(* CTR-002: a server without a HEALTHCHECK in any stage.                   *)
Entries(text, stage) == {i \in stage : Is(text, i, {"CMD", "ENTRYPOINT"})}
IsServiceImage(text, stage) ==
  \/ \E i \in stage : text[i].op = "EXPOSE"
  \/ \E i \in Entries(text, stage) : "server" \in text[i].has
HealthChecked(text) == \E i \in parse_dockerfile(text) : text[i].op = "HEALTHCHECK"
NoHealthcheck(text, i) ==
  LET stage == final_stage(text)
  IN  /\ Entries(text, stage) # {} /\ i = Min(stage)
      /\ IsServiceImage(text, stage) /\ ~HealthChecked(text)

OnePort(text, stage) ==
  LET exposed == {i \in stage : text[i].op = "EXPOSE"}
  IN  Cardinality(exposed) = 1 /\ \A i \in exposed : "port" \in text[i].has
HasProbe(line) == line.has \cap {"python", "node"} # {}

CheckHealth(text) ==
  LET stage == final_stage(text)
      check == <<Code({"#"}), Line("HEALTHCHECK", <<>>, {}), Line("...", <<>>, {}), Blank>>
  IN  CASE HealthChecked(text) \/ stage = {} -> Refused
        [] OTHER ->
             IF \/ ~OnePort(text, stage) \/ Entries(text, stage) = {}
                \/ ~HasProbe(text[Min(stage)])
             THEN Refused
             ELSE InsertBefore(text, Min(Entries(text, stage)), check)

(* CTR-003: a tag that does not name a minor version, on an image that no  *)
(* stage of the file builds.                                               *)
Mutable(line) == "floating" \in line.has
UnpinnedBase(text, i) ==
  /\ Is(text, i, {"FROM"}) /\ Mutable(text[i]) /\ "digest" \notin text[i].has
  /\ image(text[i]) \notin Aliases(text) \cup {"scratch"}

-----------------------------------------------------------------------------
(* CTR-004: an install after the copy of everything.  Only the first stage *)
(* that has one is reported, and repaired.                                 *)
FullCopy(text, i) == Is(text, i, {"COPY", "ADD"}) /\ "full" \in text[i].has
Install(text, i) == Is(text, i, {"RUN"}) /\ "install" \in text[i].has
CopiesBefore(text, stage, i) == {c \in stage : FullCopy(text, c) /\ c < i}
LateInstalls(text, stage) ==
  {i \in stage : Install(text, i) /\ CopiesBefore(text, stage, i) # {}}
InstallAfterCopy(text, i) ==
  \E from \in Froms(text) :
    LET late == LateInstalls(text, StageFrom(text, from))
    IN  late # {} /\ i = Min(late)

Reorderable(text, stage, copy, run) ==
  /\ \A i \in stage : copy < i /\ i < run => text[i].op \in {"WORKDIR", "ENV", "ARG", "LABEL"}
  /\ \A c \in stage : FullCopy(text, c) => c = copy
  /\ \A i \in stage : Install(text, i) => i = run

ManifestCopy(line) == line.at[1] \in Manifests
instruction_end(text, i) == FirstFrom(text, i + 1, {j \in DOMAIN text : text[j].op = "..."}) - 1

Reordered(text, copy, run) ==
  LET manifest == Line("COPY", <<"./">>, {"manifest"})
      end == instruction_end(text, run)
  IN  SubSeq(text, 1, copy - 1) \o <<manifest>> \o SubSeq(text, copy + 1, end)
        \o <<text[copy]>> \o SubSeq(text, end + 1, Len(text))

InstallFirst(text) ==
  LET late(from) == LateInstalls(text, StageFrom(text, from))
      heads == {from \in Froms(text) : late(from) # {}}
      stage == StageFrom(text, Min(heads))
      run == Min(LateInstalls(text, stage))
      copy == Min(CopiesBefore(text, stage, run))
  IN  CASE heads = {} -> Refused
        [] OTHER ->
             IF \/ ~Reorderable(text, stage, copy, run) \/ ~ManifestCopy(text[run])
                \/ "continued" \in text[copy].has
             THEN Refused
             ELSE Reordered(text, copy, run)

(* CTR-005, CTR-006: a credential in a layer; a cache or a fat base.       *)
BakedSecret(text, i) ==
  Is(text, i, {"ENV", "ARG", "COPY", "ADD"}) /\ "secret" \in text[i].has
LayerBloat(text, i) ==
  \/ Is(text, i, {"RUN"}) /\ "bloat" \in text[i].has
  \/ Is(text, i, {"FROM"}) /\ HasProbe(text[i]) /\ "slim" \notin text[i].has

-----------------------------------------------------------------------------
(* COST-003: the final stage on a fat image, or one stage with the tooling *)
(* in it.                                                                  *)
Tooling(text) == Has(text, "tooling")
Fat(line) == "fat" \in line.has /\ "slim" \notin line.has
OversizedBase(text, i) ==
  /\ Is(text, i, {"FROM"}) /\ i = Max(Froms(text)) /\ ~Has(text, "needs fat")
  /\ (Fat(text[i]) \/ (Cardinality(Froms(text)) = 1 /\ Tooling(text)))

\* The snippet stops after the image: alias and flags may differ.
ThisFrom(finding, line) == line.op = "FROM" /\ image(line) = finding.reads[2][1]
\* Mutant: -slim takes the place of the version.
SlimUnversioned(text, finding) ==
  LET i == LocateLine({k \in DOMAIN text : ThisFrom(finding, text[k])}, finding.line)
  IN  IF i = 0 \/ Tooling(text) THEN Refused
      ELSE Replace(text, i, text[i].has \cup {"slim", "floating"})

Slim(text, finding) ==
  LET i == LocateLine({k \in DOMAIN text : ThisFrom(finding, text[k])}, finding.line)
  IN  CASE i = 0 -> Refused
        [] OTHER ->
             IF \/ ~({"python", "fat"} \subseteq text[i].has) \/ "slim" \in text[i].has
                \/ Tooling(text) \/ Has(text, "needs fat") \/ CompiledDependency
             THEN Refused
             ELSE Replace(text, i, text[i].has \cup {"slim"})
==============================================================================
