SPECIFICATION Spec
CONSTANTS
  p1 = p1
  p2 = p2
  r1 = r1
  r2 = r2
  Pids <- TwoPids
  Runs <- TwoRuns
  Forcers <- OneForcer
  MaxStarts = 2
  LastStage = 3
INVARIANT TypeOK
INVARIANT MutualExclusion
PROPERTY LockLostByOwnerOrAudit
INVARIANT TransitionsFormAChain
