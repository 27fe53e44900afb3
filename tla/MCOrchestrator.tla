--------------------------- MODULE MCOrchestrator ---------------------------
(* Instances of Orchestrator for TLC. *)
EXTENDS Orchestrator

\* The default configuration: the repair of the mechanical lane and the
\* standard lane are the same selection.
DefaultModel ==
  [mechanical |-> "luna_medium", standard |-> "luna_high",
   bounded_hard |-> "luna_xhigh", latency |-> "terra_medium",
   mechanical_repair |-> "luna_high", rescue |-> "sol_high",
   deep_serial |-> "sol_max", deep_parallel |-> "sol_ultra"]

Ask(lane, mode) ==
  [lane |-> lane, deepMode |-> mode, reviewer |-> TRUE, noReview |-> FALSE,
   reviewAlways |-> FALSE, rejectDirty |-> FALSE, unsafeSteps |-> FALSE,
   maxTransient |-> 1, maxRepairs |-> 1]

Failing(stage, ids) == [stage |-> stage, failing |-> ids, anonymous |-> 0]
Anonymous(stage, n) == [stage |-> stage, failing |-> {}, anonymous |-> n]

\* Routing: every lane that select_lane may yield, and the parallel deep mode.
LaneInput ==
  [explicit : Lane, repository : {"auto", "latency"},
   highRisk : BOOLEAN, mechanical : BOOLEAN]
LaneRequests ==
  {Ask(SelectLane(i), "serial") : i \in LaneInput}
    \cup {Ask("standard", "parallel")}
\* Two failing tests, one of them fixed, a failure without an id.
ThreeFailures == {Failing(0, {"t1", "t2"}), Failing(0, {"t1"}), Anonymous(0, 1)}
NoEvents == {}
AllEvents == OutsideEvent
RoutingFlags == {{"exited_zero"}, {"transient"}, {"stalled"}, {"credentials"}}

\* Acceptance: the review options, a dirty source, no reviewer.
ReviewRequests ==
  {Ask("standard", "serial"),
   [Ask("mechanical", "serial") EXCEPT !.reviewAlways = TRUE],
   Ask("mechanical", "serial"),
   [Ask("standard", "serial") EXCEPT !.noReview = TRUE],
   [Ask("standard", "serial") EXCEPT !.reviewer = FALSE],
   [Ask("standard", "serial") EXCEPT !.rejectDirty = TRUE]}
OneFailure == {Failing(0, {"t1"})}
AcceptanceFlags == {{"exited_zero"}, {}, {"credentials"}}
=============================================================================
