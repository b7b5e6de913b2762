SPECIFICATION FairSpec
CONSTANTS
  f1 = f1  f2 = f2  f3 = f3  review = review  manual = manual  schema = schema
  adapter = adapter  ignored = ignored  advice = advice
  a = a  b = b  c = c
  UserEdit = UserEdit  Torn = Torn  Crlf = Crlf  Absent = Absent  None = None
  Findings = {f2, f3, review}
  Files = {a, b, c}
  Touches <- MCTouches
  Class <- MCClass
  Initial <- MCInitial
  Destructive = {}
  Suppressed = {}
  Ruleless = {}
  Interactive = TRUE
  BackupMode = FALSE
  Untracked = {}
  Undecodable = {c}
  FaultKinds = {"read", "write", "rollback", "git", "restore", "add", "commit", "status", "crash"}
  MaxFaults = 2
  MaxEdits = 1
  MaxRuns = 2
INVARIANTS
  TreeMatchesRecords
  RollbackRestoresBytes
  HeadVouched
  ChangedFromOutside
  OnlyLateEditsLost
PROPERTIES
  ImplementsAtomicRepair
  RunEnds
