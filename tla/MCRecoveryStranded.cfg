SPECIFICATION RecoverySpec
CONSTANTS
  Model <- OneModelPerRole
  Requests <- PlainRequest
  MaxAttempts = 1
  Evidence <- OneFailure
  AttemptFlags <- CrashFlags
  MaxVersion = 0
  Events <- NoEvents
  MaxCrashes = 1
PROPERTY EveryRunSettles
