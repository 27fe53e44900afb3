SPECIFICATION Spec
CONSTANTS
  Kids <- TwoKids
  Platforms <- BothPlatforms
  Efforts <- EffortsAsked
INVARIANTS
  AttemptTypeOK
  ReturnedTreeIsDead
  FallbackOnUntouched
PROPERTIES
  AttemptEnds
  OrphansDie
