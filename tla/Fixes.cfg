SPECIFICATION Spec
CONSTANTS
  Files <- MCFiles
  Order <- MCOrder
  KindOf <- MCKindOf
  Names <- MCNames
  Projects <- MCProjects
  Apart = {}
  Scripts = {}
  Helmet = TRUE
  Manifests = {"npm", "pip"}
  CompiledDependency = FALSE
  Window = 4
  Cap = 2
  FileCap = 2
  MaxScans = 2
INVARIANTS  TestTellsItsDefect
PROPERTIES HitsUnlessMisled RepairBringsNoDefect 
CHECK_DEADLOCK FALSE
