SPECIFICATION Spec
CONSTANTS
  Mutant = {m1, m2}
  Instance = {i1}
  NoMutant = NoMutant
  MaxTimeoutIterations = 2
  SqlMayFail = FALSE
  MaxUnsaved = 2
  AdminOperation = {}
  AdminStatus = {}
  AdminWhileTesting = FALSE
  MaxAdminOps = 0
  Config <- PullModes
  Outcome = {"alive", "timeout"}
  PromptSave = TRUE
  ForcedExits = FALSE
  MaxSessions = 2
CHECK_DEADLOCK FALSE
INVARIANTS PullRequestOnly
