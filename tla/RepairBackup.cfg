SPECIFICATION Spec
CONSTANTS
  f1 = f1  f2 = f2  f3 = f3  review = review  manual = manual  schema = schema
  adapter = adapter  ignored = ignored  advice = advice
  a = a  b = b  c = c
  UserEdit = UserEdit  Torn = Torn  Crlf = Crlf  Absent = Absent  None = None
  Findings = {f1, f2, review, manual, advice, schema, adapter, ignored}
  Files = {a, b}
  Touches <- MCTouches
  Class <- MCClass
  Initial <- MCInitial
  Destructive = {schema}
  Suppressed = {ignored}
  Ruleless = {adapter}
  Interactive = FALSE
  BackupMode = TRUE
  Untracked = {a}
  Undecodable = {}
  FaultKinds = {"read", "write", "rollback", "prepare", "restore", "crash"}
  MaxFaults = 2
  MaxEdits = 0
  MaxRuns = 2
INVARIANTS
  TypeOK
  RefusedUntouched
  InFlightRecoverable
