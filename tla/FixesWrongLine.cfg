SPECIFICATION Spec
CONSTANTS
  Files <- MCFiles
  Order <- MCOrder
  KindOf <- MCKindOf
  Names <- MCNames
  Projects <- WrongLineProjects
  Apart = {}
  Scripts = {}
  Helmet = TRUE
  Manifests = {"npm", "pip"}
  CompiledDependency = FALSE
  Window = 4
  Cap = 2
  FileCap = 2
  MaxScans = 1
PROPERTY RepairHitsItsFinding
CHECK_DEADLOCK FALSE
