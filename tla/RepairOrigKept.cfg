SPECIFICATION Spec
CONSTANTS
  f1 = f1  f2 = f2  f3 = f3  review = review  manual = manual  schema = schema
  adapter = adapter  ignored = ignored  advice = advice
  a = a  b = b  c = c
  UserEdit = UserEdit  Torn = Torn  Crlf = Crlf  Absent = Absent  None = None
  Findings = {f1, f2, review}
  Files = {a, b}
  Touches <- MCTouches
  Class <- MCClass
  Initial <- MCInitial
  Destructive = {}
  Suppressed = {}
  Ruleless = {}
  Interactive = TRUE
  BackupMode = TRUE
  Untracked = {}
  Undecodable = {}
  FaultKinds = {}
  MaxFaults = 0
  MaxEdits = 0
  MaxRuns = 1
INVARIANTS
  AppliedIsBackedUp
