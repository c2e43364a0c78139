SPECIFICATION Spec
CONSTANTS
  Scenario <- Worlds
  EdgeMargin = 1
  ShakeReach = 0
  Stains = {1}
  Drops = {1}
  TileLife = 2
  ParticleLife = 1
  BonesLife = 1
  MaxMobs = 1
  MaxSize = 3
INVARIANTS TypeOK RemovalIsSafe IndexMatches CapacityHolds NoOrphans NullUntouched EventsAreFresh
PROPERTIES PlayerOnScreen NoNewCollision MoveIsServed MobsLiveAndDie
