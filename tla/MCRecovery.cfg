SPECIFICATION RecoverySpec
CONSTANTS
  Model <- OneModelPerRole
  Requests <- CrashRequests
  MaxAttempts = 2
  Evidence <- OneFailure
  AttemptFlags <- CrashFlags
  MaxVersion = 2
  Events <- Errors
  MaxCrashes = 3
INVARIANT RecoveryTypeOK
INVARIANT NoIllegalTransition
INVARIANT StatusFollowsState
INVARIANT AcceptedHasEvidence
INVARIANT AcceptedWasReviewed
INVARIANT AcceptedNothingPending
PROPERTY KeepsContract
PROPERTY ResumedRunSettles
