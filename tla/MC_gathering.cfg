SPECIFICATION FairSpec
CONSTANTS
  r1 = r1
  r2 = r2
  r3 = r3
  Layout <- Files
  Faults = {"instrument", "compile", "restore"}
  TestOutcome = {"passed", "failed"}
  Kills = TRUE
INVARIANTS TypeOK SourcesAreRestored
PROPERTIES InfoIsMeasured MarksAreMeasured GatheringEnds
