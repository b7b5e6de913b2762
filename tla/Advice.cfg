SPECIFICATION Spec
CONSTANTS
  MaxFollowed = 2
  MaxInspected = 400
  MaxSensitive = 400
  MaxExternal = 20
  Files <- MCFiles
  ExtOf <- MCExtOf
  NameWords <- MCNameWords
  Limit <- MCLimit
  Projects <- MCProjects
INVARIANT AdviceIsHeard
PROPERTY NothingUnanswered
CHECK_DEADLOCK FALSE
