SPECIFICATION Spec
CONSTANTS
  Model <- DefaultModel
  Requests <- LaneRequests
  MaxAttempts = 6
  Evidence <- ThreeFailures
  AttemptFlags <- RoutingFlags
  MaxVersion = 0
  Events <- NoEvents
INVARIANT LadderNeverCycles
INVARIANT OneDeepRoute
INVARIANT RouteFollowsForecast
INVARIANT AttemptsArePaidFor
PROPERTY StopClassStops
PROPERTY RepairNeedsNewEvidence
