SPECIFICATION Spec
CONSTANTS
  Model <- DefaultModel
  Requests <- ReviewRequests
  MaxAttempts = 2
  Evidence <- OneFailure
  AttemptFlags <- AcceptanceFlags
  MaxVersion = 2
  Events <- AllEvents
INVARIANT TypeOK
INVARIANT AcceptedHasEvidence
INVARIANT AcceptedWasReviewed
INVARIANT CancellationHonoured
INVARIANT OriginalProtected
PROPERTY RunEnds
