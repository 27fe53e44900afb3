SPECIFICATION RecoverySpec
CONSTANTS
  Model <- OneModelPerRole
  Requests <- PlainRequest
  MaxAttempts = 1
  Evidence <- OneFailure
  AttemptFlags <- CrashFlags
  MaxVersion = 1
  Events <- Outsiders
  MaxCrashes = 1
INVARIANT RecoveredKeepsAGuard
