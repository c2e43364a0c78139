SPECIFICATION Spec
CONSTANTS
  Mutant = {m1, m2}
  Instance = {i1}
  NoMutant = NoMutant
  MaxTimeoutIterations = 2
  SqlMayFail = FALSE
  MaxUnsaved = 2
  AdminOperation = {"resetMutant", "markMutant", "removeMarkedMutant", "stopTimeoutTest",
                    "clearWorklist", "analyze"}
  AdminStatus = {"unknown", "alive"}
  AdminWhileTesting = FALSE
  MaxAdminOps = 1
  Config <- OperationModes
  Outcome = {"alive", "timeout", "memOverload"}
  PromptSave = TRUE
  ForcedExits = TRUE
  MaxSessions = 2
CHECK_DEADLOCK FALSE
SYMMETRY Symmetry
INVARIANTS UnsavedIsQueued
PROPERTIES FinishedIsComplete
