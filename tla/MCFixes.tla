------------------------------- MODULE MCFixes -------------------------------
(***************************************************************************)
(* Small projects for Fixes: a Python module, a JavaScript server and a    *)
(* Dockerfile, each in a few versions.  The first of them keep what one    *)
(* repair could confuse further apart than Window; the others are about    *)
(* what a repair does not look at: lines alike and close by, a logger or   *)
(* an import further down, a lazy reader, a WORKDIR after the copy.        *)
(***************************************************************************)
EXTENDS Fixes

MCFiles == {"app.py", "server.js", "Dockerfile"}
MCOrder == <<"Dockerfile", "app.py", "server.js">>
MCKindOf == [f \in MCFiles |->
  CASE f = "app.py" -> "py" [] f = "server.js" -> "js" [] OTHER -> "docker"]
MCNames == {"fh", "rows", "user"}

Def == Code({"def"})
In(has) == Code(has \cup {"indented"})
Doc == Code({"docstring"})
Open(handle) == In({"open", "=", handle})
Read(handle) == In({handle})

\* A diagnostic at module level, then a handle, a query and a request.
AppA == <<Doc, Code({"from", "__future__", "import"}), Code({"import", "driver"}), Blank,
          Code({"print", "p"}), Def, In({"print", "q"}), In({"execute", "interpolated", "sql", "one hole"}),
          Open("fh"), Blank, Read("fh"), In({"http", "near"}), In({"http", "*", "far"})>>
\* A bracketed import, a token, a cookie, a call without verification.
AppB == <<Code({"from", "import", "("}), Code({"indented", "z"}), Code({")"}), Code({"import", "os"}),
          Def, In({"random", "sensitive"}), In({"set_cookie"}), In({"verify off", "http"}),
          In({"print", "r"}), In({"except", "pass"})>>
\* A logger of its own; the request reaches a shell and a file.
AppC == <<Code({"import", "logging"}), Code({"getLogger"}), Code({"route", "def"}),
          In({"print", "s"}), In({"print", "many"}), In({"user", "=", "request"}),
          In({"shell", "user"}), In({"open", "user"}), In({"weak"}), In({"debug mode"}),
          Def, In({"open", "=", "rows"}), In({"rows"}), In({"x"}), In({"rows"}), Code({"setting off"}),
          Code({"__main__"}), In({"print", "t"})>>

\* More diagnostics than a scan reports; two requests.
AppD == <<Code({"import", "secrets"}), Def, In({"print", "p"}), In({"print", "q"}), In({"x"}),
          In({"print", "r"}), In({"http"}), Blank, Def, In({"secrets", "random", "sensitive"}),
          Open("fh"), In({"fh", "="}), In({"verify off"}), In({"http"}), In({"print", "q", "*"})>>

\* A diagnostic above the first import; lines that read the same.
AppE == <<Code({"print", "p"}), Code({"import", "driver"}), Def, In({"print", "q"}), In({"print", "q"}),
          In({"http"}), In({"http"})>>
\* Imports that bind a part of the module; queries and tokens close by.
AppF == <<Code({"from", "logging", "import"}), Code({"import", "driver"}), Def, In({"print", "p"}), In({"x"}),
          In({"execute", "interpolated", "sql", "one hole"}), In({"x"}), Code({"from", "secrets", "import"}),
          In({"execute", "interpolated", "sql", "one hole", "user"}), Def,
          In({"random", "sensitive"}), In({"random"})>>
\* Tokens of three generators below a bracketed import of __future__.
AppG == <<Code({"from", "__future__", "import", "("}), Code({"indented", "z"}), Code({")"}), Def,
          In({"rng", "sensitive"}), In({"random", "sensitive", "z"}), In({"bare random", "sensitive"}),
          Open("fh"), In({"fh", "=", "rows", "lazy"}), In({"rows"})>>
\* A logger, and a handle of the module, below their first use.
AppH == <<Code({"import", "logging"}), Code({"print", "p"}), Code({"getLogger"}), Def, In({"fh"}),
          Code({"x"}), Code({"open", "=", "fh"}), Code({"fh"}), In({"verify off", "http"}),
          In({"verify off", "http", "near"})>>

ServerA == <<Code({"use strict"}), Code({"express", "server"}), Code({"def"}),
             In({"random", "token idiom", "sensitive"}), In({"res.cookie", "options"}),
             In({"axios"}), In({"console"}), In({"cors *"}), In({"verify off"})>>
ServerB == <<Code({"import", "driver"}), Code({"import", "helmet"}), Code({"express", "server", "helmet"}), Code({"def"}),
             In({"raw", "interpolated", "sql", "one hole"}), In({"res.cookie", "flag off"}), In({"fetch"}),
             In({"random", "sensitive"})>>

\* The session middleware, and the cookie of another object.
ServerC == <<Code({"def"}), In({"session"}), In({"cookie", "options"}), In({"x"}), In({"x"}), In({"x"}),
             In({"res.cookie", "options"}), In({"res.cookie", "options", "*"}), In({"verify off"}),
             In({"verify off", "x"}), In({"unverified", "x"})>>

From(img, alias, has) == Line("FROM", <<img, alias>>, has)
Op(op, at, has) == Line(op, at, has)

DockerA == <<From("node", "build", {"node", "known", "fat"}), Op("WORKDIR", <<"/app">>, {}),
             Op("COPY", <<"./">>, {"full"}), Op("ENV", <<>>, {"secret"}), Op("RUN", <<"npm">>, {"install"}),
             Op("...", <<>>, {}),
             From("python", "", {"python", "known", "fat", "floating"}), Op("WORKDIR", <<"/srv">>, {}),
             Op("EXPOSE", <<>>, {"port"}), Op("CMD", <<>>, {"server"})>>
DockerB == <<From("python", "", {"python", "known", "fat"}), Op("WORKDIR", <<"/app">>, {}),
             Op("COPY", <<"/app">>, {"full"}), Op("RUN", <<"pip">>, {"install", "bloat"}),
             Op("USER", <<>>, {"root"}), Op("ENTRYPOINT", <<>>, {})>>

DockerC == <<From("golang", "build", {"known", "fat"}), Op("COPY", <<"./">>, {"full"}),
             Op("RUN", <<"go">>, {"install", "tooling"}), From("build", "", {}),
             Op("RUN", <<"pip">>, {}), Op("USER", <<>>, {}), Op("EXPOSE", <<>>, {"ports"}),
             Op("CMD", <<>>, {}), Op("COPY", <<"/x">>, {"secret"})>>

\* The directory is chosen after everything was copied into it.
DockerD == <<From("python", "", {"python", "known"}), Op("COPY", <<"/app">>, {"full"}),
             Op("WORKDIR", <<"/app">>, {}), Op("RUN", <<"pip">>, {"install"}), Op("CMD", <<>>, {})>>

Project3(app, server, docker) ==
  [f \in MCFiles |-> CASE f = "app.py" -> app [] f = "server.js" -> server [] OTHER -> docker]
MCProjects ==
  {Project3(app, <<>>, <<>>) : app \in {AppA, AppB, AppC, AppD, AppE, AppF, AppG, AppH}}
    \cup {Project3(<<>>, server, <<>>) : server \in {ServerA, ServerB, ServerC}}
    \cup {Project3(<<>>, <<>>, docker) : docker \in {DockerA, DockerB, DockerC, DockerD}}
    \cup {Project3(AppC, ServerA, <<>>)}

-----------------------------------------------------------------------------
\* Two queries three lines apart, below the place where a logger goes.
Neighbours ==
  <<Code({"import", "driver"}), Code({"print", "p"}), Def,
    In({"execute", "interpolated", "sql", "one hole"}), In({"x"}), In({"y"}),
    In({"execute", "interpolated", "sql", "one hole", "user"})>>
WrongLineProjects == {Project3(Neighbours, <<>>, <<>>)}
==============================================================================
