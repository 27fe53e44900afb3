SPECIFICATION Spec
CONSTANTS
  p1 = p1
  p2 = p2
  r1 = r1
  r2 = r2
  Pids <- TwoPids
  Runs <- TwoRuns
  Forcers <- TwoForcers
  MaxStarts = 2
  LastStage = 2
INVARIANT RacesBreakOneAtMost
