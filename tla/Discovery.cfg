SPECIFICATION Spec
CONSTANTS
  MaxInspected = 2
  MaxSensitive = 1
  MaxExternal = 2
  MaxEdits = 2
  Files <- MCFiles
  ExtOf <- MCExtOf
  Trees <- MCTrees
  Rewrites <- MCRewrites
  Excludes <- MCExcludes
INVARIANTS
  ProfileOfTextsSeen
  FixturesDefineNothing
  MissedOnlyBeyondLimit
