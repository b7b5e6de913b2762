------------------------------- MODULE Repairs -------------------------------
(***************************************************************************)
(* What the repairs of the built-in rules share: how a line is found again *)
(* after earlier repairs moved it, how lines are replaced and inserted,    *)
(* and where an import goes.                                               *)
(*                                                                         *)
(* A text is a sequence of lines.  A line is a record of                   *)
(*   op   the instruction, in a Dockerfile; "" elsewhere                   *)
(*   at   the names it is about: <<image, tag, alias>>, <<directory>>, ... *)
(*   has  what the patterns of the rules tell apart in it                  *)
(*   nr   where it stood when the text was scanned, 0 for an added line;   *)
(*        nothing in the code knows it                                     *)
(* Two lines read the same when op, at and has agree.  A line holds at     *)
(* most one call of each kind, and one defect of each rule.                *)
(***************************************************************************)
EXTENDS Naturals, FiniteSets, FiniteSetsExt, SequencesExt

CONSTANT Window      \* lines a repair looks up and down (12)

ASSUME WindowAssumption == Window \in Nat

Line(op, at, has) == [nr |-> 0, op |-> op, at |-> at, has |-> has]
Code(has) == Line("", <<>>, has)
Blank == Code({})

Reads(line) == <<line.op, line.at, line.has>>
Has(text, what) == \E i \in DOMAIN text : what \in text[i].has

Numbered(text) == [i \in DOMAIN text |-> [text[i] EXCEPT !.nr = i]]

-----------------------------------------------------------------------------
(* fitting: the lines the finding may be about.  0 stands for None: which  *)
(* one cannot be told.                                                     *)
LocateLine(fitting, at) ==
  LET near == {i \in fitting : i <= at + Window /\ at <= i + Window}
  IN  IF at \in near THEN at
      ELSE IF Cardinality(near) = 1 THEN CHOOSE i \in near : TRUE
      ELSE 0

\* The same contract for calls, of which a line holds one.
LocateCall(fitting, at) == LocateLine(fitting, at)

Refused == <<>>

Replace(text, i, has) == [text EXCEPT ![i].has = has]

\* append_arguments, append_object_properties, and replace_node with their text.
AppendArguments(text, i, additions) == Replace(text, i, text[i].has \cup additions)

InsertBefore(text, i, lines) ==
  SubSeq(text, 1, i - 1) \o lines \o SubSeq(text, i, Len(text))

-----------------------------------------------------------------------------
(* Imports of a Python text.                                               *)
FirstFrom(text, from, skipped) == Min((from..(Len(text) + 1)) \ skipped)

IsBlank(line) == line.has = {}
Blanks(text) == {i \in DOMAIN text : IsBlank(text[i])}
With(text, what) == {i \in DOMAIN text : what \in text[i].has}
BodyStart(text) ==
  LET code == FirstFrom(text, 1, Blanks(text) \cup With(text, "#"))
  IN  FirstFrom(text, code, Blanks(text) \cup With(text, "docstring"))

IsImport(line) == line.has \cap {"import", "from"} # {} /\ "indented" \notin line.has

TopOfImports(text) == FirstFrom(text, BodyStart(text), With(text, "__future__"))

\* Comments, blank lines and the rest of a bracketed import do not end the block.
EndOfImports(text) ==
  LET start == BodyStart(text)
      imports == {i \in DOMAIN text : IsImport(text[i])}
      passed == imports \cup Blanks(text) \cup UNION {With(text, w) : w \in {"#", "indented", ")"}}
      end == FirstFrom(text, FirstFrom(text, start, DOMAIN text \ imports), passed)
      block == imports \cap start..(end - 1)
  IN  IF block = {} THEN start ELSE Max(block) + 1

\* Any import of the module counts, wherever it stands and whatever it binds.
HasImport(text, module) ==
  \E i \in DOMAIN text : module \in text[i].has /\ text[i].has \cap {"import", "from"} # {}

EnsureImport(text, module) ==
  IF HasImport(text, module) THEN text
  ELSE InsertBefore(text, TopOfImports(text), <<Code({"import", module})>>)
===============================================================================
