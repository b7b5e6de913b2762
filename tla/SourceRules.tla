----------------------------- MODULE SourceRules -----------------------------
(***************************************************************************)
(* The rules about Python and JavaScript code that come with a repair, and *)
(* those that read the same lines.  A line has, of                         *)
(*   #, prose, docstring, indented, block, ")"   its shape                 *)
(*   import, from, __future__, and a module's name                         *)
(*   def, route      it opens a function, the handler of a route           *)
(*   the members of Names   names it uses, or with "=" binds               *)
(* and what the comment of each rule says.                                 *)
(***************************************************************************)
EXTENDS Repairs

CONSTANTS
  Files,       \* paths
  KindOf,      \* path -> "py", "js" or "docker"
  Apart,       \* paths of tests, examples, vendored and generated code
  Scripts,     \* paths of scripts, CLIs and front ends
  Names,       \* variables
  Helmet       \* package.json asks for helmet

SourceFile(f, kind) == KindOf[f] = kind /\ f \notin Apart

\* The function a line stands in; the whole text outside of one.
Scope(text, i) ==
  LET heads == {j \in DOMAIN text : "def" \in text[j].has}
      above == {j \in heads : j <= i}
  IN  IF above = {} \/ "indented" \notin text[i].has THEN DOMAIN text
      ELSE Max(above)..(Min({j \in heads : j > i} \cup {Len(text) + 1}) - 1)
InScope(text, i, what) == \E j \in Scope(text, i) : what \in text[j].has

IsNonCodeLine(line) == line.has \cap {"#", "prose", "docstring"} # {}

\* A name is from the request when the function binds it to some of it, or when
\* it is a parameter of a handler.
TaintedNames(text, i) ==
  UNION {text[j].has \cap Names : j \in {k \in Scope(text, i) : {"=", "request"} \subseteq text[k].has}}
RouteParams(text, i) ==
  UNION {text[j].has \cap Names : j \in {k \in Scope(text, i) : "route" \in text[k].has}}
IsTainted(text, i) ==
  \/ "request" \in text[i].has
  \/ text[i].has \cap (TaintedNames(text, i) \cup RouteParams(text, i)) # {}

Interpolated(line) == "interpolated" \in line.has

\* A line with what a rule of one pattern looks for, in code.
RegexHit(text, i, what) == what \in text[i].has /\ ~IsNonCodeLine(text[i])

-----------------------------------------------------------------------------
(* API-001: http, or client when the file builds a "Client"; timeout;      *)
(* "default timeout" configures one; "*" or "**" unpacks arguments.        *)
HttpCall(text, line) ==
  "http" \in line.has \/ ("client" \in line.has /\ Has(text, "Client"))
HttpTimeout(text, i) ==
  /\ HttpCall(text, text[i]) /\ "timeout" \notin text[i].has
  /\ ~Has(text, "default timeout")

HttpTarget(line) == line.has \cap {"http", "client"} # {} /\ "timeout" \notin line.has
AddTimeout(text, finding) ==
  LET i == LocateCall({k \in DOMAIN text : HttpTarget(text[k])}, finding.line)
  IN  CASE i = 0 -> Refused
        [] OTHER -> IF "*" \in text[i].has THEN Refused
                    ELSE AppendArguments(text, i, {"timeout"})

(* API-002: axios without timeout, fetch without an abort signal.          *)
HttpTimeoutJs(text, i) ==
  \/ /\ "axios" \in text[i].has /\ "timeout" \notin text[i].has
     /\ ~Has(text, "default timeout")
  \/ /\ "fetch" \in text[i].has
     /\ text[i].has \cap {"signal", "timeout"} = {}

-----------------------------------------------------------------------------
(* OBS-001: print or console; "nested" in another statement; "many"        *)
(* arguments; "__main__" opens the guard, "cli" imports a CLI library.     *)
(* getLogger binds a logger, "logger =" the name to something else, log    *)
(* uses it.                                                                *)
Diagnostic(f, line) ==
  IF KindOf[f] = "py" THEN "print" \in line.has ELSE "console" \in line.has
SkipFile(f, text) == f \in Scripts \/ (KindOf[f] = "py" /\ Has(text, "cli"))
BelowMainGuard(text, i) == \E j \in 1..i : "__main__" \in text[j].has
PrintDiagnostics(f, text, i) ==
  /\ ~SkipFile(f, text) /\ ~BelowMainGuard(text, i)
  /\ Diagnostic(f, text[i]) /\ ~IsNonCodeLine(text[i])

PrintStatement(line) == "print" \in line.has /\ "nested" \notin line.has
ThisPrint(finding, line) == PrintStatement(line) /\ Reads(line) = finding.reads

\* Mutant: the line is replaced after the import went in, at its old place.
ImportFirst(f, text, finding) ==
  LET i == LocateLine({k \in DOMAIN text : ThisPrint(finding, text[k])}, finding.line)
      imported == EnsureImport(text, "logging")
      has == (text[i].has \ {"print"}) \cup {"log"}
  IN  IF KindOf[f] # "py" \/ i = 0 THEN Refused
      ELSE InsertBefore(Replace(imported, i, has), EndOfImports(imported), <<Code({"getLogger"})>>)

ExistingLogger(text) ==
  \E i \in With(text, "getLogger") : "indented" \notin text[i].has
SimpleArgument(line) == "many" \notin line.has

LogInstead(f, text, finding) ==
  LET i == LocateLine({k \in DOMAIN text : ThisPrint(finding, text[k])}, finding.line)
      logged == Replace(text, i, (text[i].has \ {"print"}) \cup {"log"})
      imported == EnsureImport(logged, "logging")
      scaffold == <<Blank, Code({"getLogger"})>>
  IN  CASE KindOf[f] # "py" \/ i = 0 -> Refused
        [] OTHER ->
             CASE ~SimpleArgument(text[i]) -> Refused
               [] ExistingLogger(text) -> logged
               [] Has(text, "logger =") -> Refused
               [] OTHER -> InsertBefore(imported, EndOfImports(imported), scaffold)

(* OBS-006: debug pins the level, unless "environ" is within two lines.    *)
DebugLevel(text, i) ==
  /\ RegexHit(text, i, "debug level")
  /\ ~\E j \in DOMAIN text : j <= i + 2 /\ i <= j + 2 /\ "environ" \in text[j].has

-----------------------------------------------------------------------------
(* REL-001: except is broad and its handler only passes ("pass").          *)
IsSwallowed(line) == "pass" \in line.has
SwallowedException(text, i) == "except" \in text[i].has /\ IsSwallowed(text[i])

(* REL-002: open, or cursor, assigned to a name; with; close or finally.   *)
Opener(line) == line.has \cap {"open", "cursor"} # {}
GuardedByWith(line) == "with" \in line.has
IsAssigned(line) == "=" \in line.has
UnreleasedResource(text, i) ==
  /\ Opener(text[i]) /\ IsAssigned(text[i]) /\ ~GuardedByWith(text[i])
  /\ ~InScope(text, i, "close") /\ ~InScope(text, i, "finally")

OpenAssignment(line) == {"open", "="} \subseteq line.has /\ ~GuardedByWith(line)
Uses(line, var) == var \in line.has


\* The next statement uses the handle, at the same depth, and nothing does later.
OneUse(text, i, follow, var) ==
  /\ follow <= Len(text)
  /\ ("indented" \in text[follow].has) = ("indented" \in text[i].has)
  /\ Uses(text[follow], var) /\ "block" \notin text[follow].has
  /\ ~\E j \in (follow + 1)..Len(text) : Uses(text[j], var)

WithInstead(f, text, finding) ==
  LET i == LocateLine({k \in DOMAIN text : OpenAssignment(text[k])}, finding.line)
      follow == FirstFrom(text, i + 1, Blanks(text))
      body == [text[follow] EXCEPT !.has = @ \cup {"in with"}]
      opened == [text[i] EXCEPT !.has = (@ \ {"="}) \cup {"with", "block"}]
  IN  IF \/ KindOf[f] # "py" \/ i = 0
         \/ ~\E var \in Names \cap text[i].has : OneUse(text, i, follow, var)
      THEN Refused
      ELSE SubSeq(text, 1, i - 1) \o <<opened, body>> \o SubSeq(text, follow + 1, Len(text))

-----------------------------------------------------------------------------
(* SEC-001, SEC-002: execute, or one of the callees only the JavaScript     *)
(* rule repairs (raw), of an interpolated sql text; "one hole" is a plain   *)
(* name in an f-string or template; args: it has further arguments; bound:  *)
(* the value is a parameter; driver is imported.                           *)
Query(line) == line.has \cap {"execute", "raw"} # {}
SqlInjectionPython(text, i) == Query(text[i]) /\ Interpolated(text[i]) /\ "sql" \in text[i].has
SqlInjectionJavaScript(text, i) == SqlInjectionPython(text, i)

Placeholder(text) == HasImport(text, "driver")
OneHole(line) == "args" \notin line.has /\ {"interpolated", "one hole"} \subseteq line.has
Bound(text, i) ==
  IF OneHole(text[i])
  THEN Replace(text, i, (text[i].has \ {"interpolated", "one hole"}) \cup {"bound"})
  ELSE Refused

BindValue(text, finding) ==
  LET i == LocateCall(With(text, "execute"), finding.line)
  IN  IF ~Placeholder(text) \/ i = 0 THEN Refused ELSE Bound(text, i)

BindTemplate(text, finding) ==
  LET i == LocateCall({k \in DOMAIN text : Query(text[k])}, finding.line)
  IN  IF ~Placeholder(text) \/ i = 0 THEN Refused ELSE Bound(text, i)

(* SEC-007: shell runs its first argument through a shell, os.system too;  *)
(* meta: characters that mean something to a shell.                        *)
UsesShell(line) == line.has \cap {"shell", "os.system"} # {}
CommandInjection(text, i) ==
  UsesShell(text[i]) /\ (Interpolated(text[i]) \/ IsTainted(text, i))

Shell(line) == "shell" \in line.has
StaticCommand(line) == line.has \cap ({"interpolated", "request", "meta"} \cup Names) = {}
ArgumentList(f, text, finding) ==
  LET i == LocateCall({k \in DOMAIN text : Shell(text[k])}, finding.line)
  IN  CASE KindOf[f] # "py" \/ i = 0 -> Refused
        [] OTHER ->
             IF StaticCommand(text[i]) THEN Replace(text, i, text[i].has \ {"shell"})
             ELSE Refused

(* SEC-008: a file opened or served by a path from the request.            *)
PathTraversal(text, i) ==
  /\ text[i].has \cap {"open", "send_file"} # {} /\ IsTainted(text, i)
  /\ ~InScope(text, i, "contained")

-----------------------------------------------------------------------------
(* SEC-010: weak primitive, "sensitive" and "kdf" in its function.         *)
WeakCryptography(text, i) ==
  /\ "weak" \in text[i].has
  /\ ~(InScope(text, i, "sensitive") /\ InScope(text, i, "kdf"))

(* SEC-011: random, "bare random" (random(), imported by name) or rng (one  *)
(* of np.random or rng, or another name imported from random), where the   *)
(* statement or the head of the function has a sensitive name; only random *)
(* is repaired; secrets draws from the system's source.                    *)
WeakGenerator(line) == line.has \cap {"random", "bare random", "rng"} # {}
SensitiveContext(text, i) ==
  \/ "sensitive" \in text[i].has
  \/ "indented" \in text[i].has /\ "sensitive" \in text[Min(Scope(text, i))].has
UnsafeRandomness(text, i) == WeakGenerator(text[i]) /\ SensitiveContext(text, i)

Random(f, line) == "random" \in line.has /\ (KindOf[f] = "py" \/ "token idiom" \in line.has)
TokenAnchor(text) == IF Len(text) > 0 /\ "use strict" \in text[1].has THEN 2 ELSE 1
Drawn(text, i) == Replace(text, i, (text[i].has \ {"random"}) \cup {"secrets"})

DrawSecretsPython(text, i) ==
  IF "secrets" \in text[i].has THEN Refused ELSE EnsureImport(Drawn(text, i), "secrets")
DrawSecretsJavaScript(text, i) ==
  IF HasImport(text, "secrets") THEN Drawn(text, i)
  ELSE InsertBefore(Drawn(text, i), TokenAnchor(text), <<Code({"import", "secrets"})>>)
DrawSecrets(f, text, finding) ==
  LET i == LocateLine({k \in DOMAIN text : Random(f, text[k])}, finding.line)
  IN  CASE i = 0 -> Refused
        [] OTHER -> IF KindOf[f] = "py" THEN DrawSecretsPython(text, i)
                    ELSE DrawSecretsJavaScript(text, i)

\* _scan: any of the patterns, in code, and nothing that excuses it.
Scanned(text, i, patterns, negative) ==
  /\ text[i].has \cap patterns # {} /\ text[i].has \cap negative = {}
  /\ ~IsNonCodeLine(text[i])

(* SEC-012: debug mode, unless read from the environment.                  *)
DebugMode(text, i) == Scanned(text, i, {"debug mode"}, {"environ"})

(* SEC-014: a server and no security header anywhere; app binds express(), *)
(* helmet is the middleware.                                               *)
HeaderFiles == Files \ Apart
SecurityHeaders(texts) ==
  /\ \E f \in HeaderFiles : Has(texts[f], "server")
  /\ ~\E f \in HeaderFiles : Has(texts[f], "helmet") \/ Has(texts[f], "header")

ExpressFiles(texts) == {f \in Files : SourceFile(f, "js") /\ Has(texts[f], "express")}
ApplyHelmet(text) ==
  LET app == Min({i \in DOMAIN text : "express" \in text[i].has})
      used == InsertBefore(text, app + 1, <<Code({"helmet"})>>)
  IN  IF ~Helmet \/ Has(text, "helmet") THEN Refused
      ELSE InsertBefore(used, TokenAnchor(text), <<Code({"import", "helmet"})>>)

(* SEC-015: any origin.                                                    *)
PermissiveCors(text, i) == RegexHit(text, i, "cors *")

(* SEC-016: set_cookie, cookie of a response (res.cookie) or session, the   *)
(* middleware with a cookie among its arguments, without one of Flags;     *)
(* cookie: that of any other object; "flag off" switches one off; "setting *)
(* off" is a line of the settings; options: it has an options object; "*"  *)
(* unpacks.                                                                *)
Flags == {"secure", "httponly", "samesite"}
Cookie(line) == line.has \cap {"set_cookie", "res.cookie", "session"} # {}
InsecureCall(line) == Cookie(line) /\ (~(Flags \subseteq line.has) \/ "flag off" \in line.has)
InsecureSetting(text, i) == RegexHit(text, i, "setting off")
InsecureCookie(text, i) == InsecureCall(text[i]) \/ InsecureSetting(text, i)

FlagsMissing(line) == "flag off" \notin line.has /\ ~(Flags \subseteq line.has)
RepairPythonCall(text, i) ==
  IF FlagsMissing(text[i]) /\ "*" \notin text[i].has THEN AppendArguments(text, i, Flags)
  ELSE Refused
RepairJsCall(text, i) ==
  IF FlagsMissing(text[i]) /\ "options" \in text[i].has THEN AppendArguments(text, i, Flags)
  ELSE Refused
RepairSettings(text, i) == Replace(text, i, text[i].has \ {"setting off"})

\* Not the calls that are reported: no session, and the cookie of any object.
CookieTarget(f, line) ==
  line.has \cap (IF KindOf[f] = "py" THEN {"set_cookie"} ELSE {"res.cookie", "cookie"}) # {}

\* A setting is looked for on the recorded line only, a call near it.
SetFlags(f, text, finding) ==
  LET at == finding.line
      i == LocateCall({k \in DOMAIN text : CookieTarget(f, text[k])}, at)
  IN  CASE at > Len(text) -> Refused
        [] OTHER ->
             CASE "setting off" \in text[at].has -> RepairSettings(text, at)
               [] i = 0 -> Refused
               [] OTHER -> IF KindOf[f] = "py" THEN RepairPythonCall(text, i)
                           ELSE RepairJsCall(text, i)

(* SEC-018: "verify off", or another way to skip the check of a            *)
(* certificate that no one word repairs ("unverified").                    *)
TlsVerification(text, i) ==
  Scanned(text, i, {"verify off", "unverified"}, {})

ThisUnverified(finding, line) == "verify off" \in line.has /\ Reads(line) = finding.reads
VerifyAgain(text, finding) ==
  LET i == LocateLine({k \in DOMAIN text : ThisUnverified(finding, text[k])}, finding.line)
  IN  IF i = 0 THEN Refused ELSE Replace(text, i, text[i].has \ {"verify off"})
===============================================================================
