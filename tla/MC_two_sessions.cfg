SPECIFICATION Spec
CONSTANTS
  Mutant = {m1, m2}
  Instance = {i1, i2}
  NoMutant = NoMutant
  MaxTimeoutIterations = 2
  SqlMayFail = FALSE
  MaxUnsaved = 1
  AdminOperation = {}
  AdminStatus = {}
  AdminWhileTesting = FALSE
  MaxAdminOps = 0
  Config <- PlainOnly
  Outcome = {"alive", "timeout"}
  PromptSave = TRUE
  ForcedExits = FALSE
  MaxSessions = 2
CHECK_DEADLOCK FALSE
SYMMETRY Symmetry
INVARIANTS UnknownIsQueued UnconfirmedIsListed RowsNotAhead
PROPERTIES FinishedNothingLeft
