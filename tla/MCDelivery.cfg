SPECIFICATION Spec
CONSTANTS
  Tracked <- TrackedContents
  Untracked <- UntrackedContents
  MaxExports = 2
INVARIANTS
  TypeOK
  CleanupLosesNothing
  CompleteIsOneExport
  WorktreeIsOwned
CHECK_DEADLOCK FALSE
