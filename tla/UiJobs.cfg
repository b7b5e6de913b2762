SPECIFICATION FairSpec
CONSTANTS
  j1 = j1  j2 = j2  j3 = j3  s1 = s1  s2 = s2  q1 = q1  None = None
  Jobs = {j1, j2}
  FixJobs = {j2}
  Streams = {s1}
  Pollers = {q1}
  JobHistory = 1
  MaxEvents = 2
INVARIANTS
  StreamReplaysRun
  RunningJobAddressable
  OneRunAtATime
  StatusHasOutcome
PROPERTIES
  NoEventAfterFinish
  StreamEnds
  ServerFree
