----------------------------- MODULE MCValidation -----------------------------
(* Instances of Validation: two Python modules, one of them beyond the     *)
(* file limit, and a JavaScript file.                                      *)
EXTENDS Validation

CONSTANTS a, b, web, p1, p2

MCLang == [f \in Files |-> IF f = web THEN "js" ELSE "py"]

(* A patch over both languages, and one whose syntax needs node.           *)
MCChanges == [p \in Patches |-> IF p = p1 THEN {a, b, web} ELSE {web}]

(* A Python project, a JavaScript project, one with both suites whose npm  *)
(* is missing, and one with a suite and hardly a tool.                     *)
MCProjects ==
  {[declared |-> {"pytest", "mypy", "ruff", "wheel"}, installed |-> Tools],
   [declared |-> {"tsc", "eslint", "npm test", "npm build"}, installed |-> Tools],
   [declared |-> {"pytest", "jest", "npm build", "docker"},
    installed |-> Tools \ {"npm", "mypy"}],
   [declared |-> {"npm test"}, installed |-> {"npm", "pytest"}]}

(* One thing may be wrong at the start, and each patch may break one.      *)
MCStarts == {{}, {<<"pytest", a>>}, {<<"mypy", b>>}, {<<"npm test", web>>}, {<<"wheel", a>>}}
MCHarms == {{}} \cup
  {{d} : d \in {"mypy", "pytest"} \X {a, b} \cup {"ruff", "wheel"} \X {a} \cup
                {"tsc", "npm test", "npm build", "docker"} \X {web}}
=============================================================================
