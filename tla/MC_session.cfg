SPECIFICATION Spec
CONSTANTS
  Mutant = {m1, m2}
  Instance = {i1}
  NoMutant = NoMutant
  MaxTimeoutIterations = 2
  SqlMayFail = FALSE
  MaxUnsaved = 2
  AdminOperation = {}
  AdminStatus = {}
  AdminWhileTesting = FALSE
  MaxAdminOps = 0
  Config <- SessionModes
  Outcome = {"alive", "killed", "timeout", "memOverload", "noResult", "filesysError"}
  PromptSave = TRUE
  ForcedExits = TRUE
  MaxSessions = 2
CHECK_DEADLOCK FALSE
SYMMETRY Symmetry
INVARIANTS TypeOK PurgedAreCurrent RaisedRoundIsComplete TimeoutsAreConfirmed ResultsAreCurrent MeasuredBeforeTesting 
PROPERTIES FinishedIsComplete ScoreIsFinal
