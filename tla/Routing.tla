------------------------------- MODULE Routing -------------------------------
(***************************************************************************)
(* The deterministic router of codex_auto: the failure classifier          *)
(* (domain/failures.py), the progress test (domain/progress.py) and the    *)
(* retry, repair and escalation ladder (domain/routing.py).  Pure          *)
(* operators; the controller modules apply them to what they observe.      *)
(***************************************************************************)
EXTENDS Naturals, FiniteSets, Sequences

\* The configured model selection (model name and effort) of every role.
CONSTANT Model

Role == {"mechanical", "standard", "bounded_hard", "latency",
         "mechanical_repair", "rescue", "deep_serial", "deep_parallel"}

Selection == {Model[r] : r \in Role}

ASSUME ModelAssumption == DOMAIN Model = Role

Lane == {"auto", "mechanical", "standard", "bounded_hard", "latency", "high_risk"}
DeepMode == {"serial", "parallel"}

FailureClass ==
  {"success", "environment", "permissions", "credentials", "configuration",
   "specification", "transient", "substantive", "stalled", "policy_violation",
   "cancelled", "unknown"}

\* Failures that stop the run: no retry and no stronger model.
STOP_CLASSES ==
  {"environment", "permissions", "credentials", "configuration",
   "specification", "policy_violation", "cancelled"}

\* What next() may decide; "start" and "review" are never among it.
DecisionKind ==
  {"accept", "block", "retry_transient", "repair", "escalate", "human_review"}

NoSelection == "no selection"

Decision(kind, selection) == [kind |-> kind, selection |-> selection]

-----------------------------------------------------------------------------
(***************************************************************************)
(* Failure classification.  The evidence is the set of flags observed; the *)
(* first flag of the code's order decides.                                 *)
(***************************************************************************)
EvidenceFlag ==
  {"cancelled", "credentials", "permissions", "configuration",
   "specification", "environment", "transient", "policy_violation",
   "stalled", "validation_failed", "exited_zero", "candidate_changed"}

\* Flags by precedence, with the class each one yields.
Precedence ==
  << <<"cancelled", "cancelled">>, <<"credentials", "credentials">>,
     <<"permissions", "permissions">>, <<"configuration", "configuration">>,
     <<"specification", "specification">>, <<"environment", "environment">>,
     <<"transient", "transient">>, <<"policy_violation", "policy_violation">>,
     <<"stalled", "stalled">>, <<"validation_failed", "substantive">>,
     <<"exited_zero", "success">>, <<"candidate_changed", "substantive">> >>

\* classify for a process that was started (the only use the controllers make).
Classify(flags) ==
  LET hits == {i \in DOMAIN Precedence : Precedence[i][1] \in flags}
  IN  IF hits = {} THEN "unknown"
      ELSE Precedence[CHOOSE i \in hits : \A j \in hits : i <= j][2]

-----------------------------------------------------------------------------
(***************************************************************************)
(* Progress.  A validation summary holds how far the ordered validation    *)
(* got, the failing test ids and the number of failures without an id.     *)
(***************************************************************************)
FailureCount(v) == Cardinality(v.failing) + v.anonymous
Localized(v) == v.failing # {}

\* The metric clause of the evaluator has no caller that supplies a metric.
HasProgress(before, after, beforeLocalized) ==
  \/ FailureCount(after) < FailureCount(before)
  \/ after.stage > before.stage
  \/ before.failing \ after.failing # {}
  \/ Localized(after) /\ ~beforeLocalized

\* A first failure is compared with itself, taken as not localized.
FirstProgress(v) == HasProgress(v, v, FALSE)
LaterProgress(before, after) == HasProgress(before, after, Localized(before))

-----------------------------------------------------------------------------
(***************************************************************************)
(* The ladder.  A routing state s has the lane, deep mode and selection in *)
(* use, the failure class, progress and repetition of the failure, and the *)
(* budgets used and allowed.                                               *)
(***************************************************************************)
\* select_lane.  What is explicit goes first, in the command line and the task
\* or in the configuration of the repository; the terms in the text decide last.
SelectLane(input) ==
  CASE input.explicit # "auto" -> input.explicit
    [] input.explicit = "auto" /\ input.repository # "auto" -> input.repository
    [] input.explicit = "auto" /\ input.repository = "auto" /\ input.highRisk ->
         "high_risk"
    [] OTHER -> IF input.mechanical THEN "mechanical" ELSE "standard"

InitialSelection(lane) ==
  CASE lane \in {"auto", "standard"} -> Model["standard"]
    [] lane = "high_risk" -> Model["rescue"]
    [] OTHER -> Model[lane]

DeepSelection(mode) ==
  IF mode = "parallel" THEN Model["deep_parallel"] ELSE Model["deep_serial"]

LunaSelections == {Model[r] : r \in {"mechanical", "standard", "bounded_hard",
                                     "mechanical_repair"}}
DeepSelections == {Model["deep_serial"], Model["deep_parallel"]}

\* The rung a selection stands on; the code tests them in this order.
Tier(selection) ==
  IF selection \in LunaSelections THEN "luna"
  ELSE IF selection = Model["latency"] THEN "terra"
  ELSE IF selection = Model["rescue"] THEN "sol"
  ELSE IF selection \in DeepSelections THEN "deep"
  ELSE "unrecognized"

\* (mutant) One repair too many.
RepairOneTooMany(s) == s.progress /\ ~s.repeated /\ s.repairs <= s.maxRepairs

\* (mutant) A repeated failure is repaired like a new one.
RepairRepeated(s) == s.progress /\ s.repairs < s.maxRepairs

RepairAllowed(s) ==
  /\ s.progress
  /\ ~s.repeated
  /\ s.repairs < s.maxRepairs

Rescue == Decision("escalate", Model["rescue"])
RepairOr(s, otherwise) ==
  IF RepairAllowed(s) THEN Decision("repair", s.current) ELSE otherwise

MechanicalStart(s) == s.current = Model["mechanical"] /\ s.lane = "mechanical"

LunaNext(s) ==
  IF MechanicalStart(s)
  THEN IF RepairAllowed(s) THEN Decision("escalate", Model["mechanical_repair"])
       ELSE Rescue
  ELSE IF s.current \in {Model["standard"], Model["mechanical_repair"]}
       THEN RepairOr(s, Rescue)
       ELSE Rescue

\* (mutant) Exhausted deep work starts again from the rescue model.
LadderRestarts(s) ==
  CASE Tier(s.current) = "luna" -> LunaNext(s)
    [] Tier(s.current) = "sol" ->
         RepairOr(s, Decision("escalate", DeepSelection(s.deepMode)))
    [] OTHER -> Rescue

\* (mutant) Exhausted serial deep work is handed to the parallel route.
LadderTriesBothDeep(s) ==
  CASE Tier(s.current) = "luna" -> LunaNext(s)
    [] Tier(s.current) = "terra" -> Rescue
    [] Tier(s.current) = "sol" -> Decision("escalate", DeepSelection(s.deepMode))
    [] s.current = Model["deep_serial"] ->
         Decision("escalate", Model["deep_parallel"])
    [] OTHER -> Decision("human_review", NoSelection)

\* What follows a failure that a model may work on again.
Ladder(s) ==
  CASE Tier(s.current) = "luna"  -> LunaNext(s)
    [] Tier(s.current) = "terra" -> RepairOr(s, Rescue)
    [] Tier(s.current) = "sol"   ->
         RepairOr(s, Decision("escalate", DeepSelection(s.deepMode)))
    [] Tier(s.current) = "deep"  -> Decision("human_review", NoSelection)
    [] OTHER                     -> Decision("block", NoSelection)

\* (mutant) Failures of the user's own making go to a stronger model.
EscalateEverything(s) ==
  CASE s.failure = "success" -> Decision("accept", NoSelection)
    [] OTHER -> Ladder(s)

NextDecision(s) ==
  CASE s.failure = "success" -> Decision("accept", NoSelection)
    [] s.failure \in STOP_CLASSES -> Decision("block", NoSelection)
    [] s.failure = "transient" ->
         IF s.transientRetries < s.maxTransientRetries
         THEN Decision("retry_transient", s.current)
         ELSE Decision("block", NoSelection)
    [] OTHER -> Ladder(s)

-----------------------------------------------------------------------------
(***************************************************************************)
(* The forecast of the command dry-run: the first selection, and four      *)
(* failures, the first of which is progress and the others repetitions.    *)
(***************************************************************************)
\* (mutant) The forecast takes every failure for a repetition.
NeverProgress(step) == FALSE

ForecastProgress(step) == step = 1

\* _expected_sequence
Forecast(lane, mode) ==
  LET after[step \in 0..4] ==
        IF step = 0
        THEN [route |-> <<InitialSelection(lane)>>, repairs |-> 0, open |-> TRUE]
        ELSE
          LET f == after[step - 1]
              current == f.route[Len(f.route)]
              d == NextDecision(
                     [lane |-> lane, deepMode |-> mode, current |-> current,
                      failure |-> "substantive",
                      progress |-> ForecastProgress(step),
                      repeated |-> ~ForecastProgress(step),
                      repairs |-> f.repairs, maxRepairs |-> 1,
                      transientRetries |-> 0, maxTransientRetries |-> 2])
          IN  IF ~f.open \/ d.kind \in {"block", "human_review"}
              THEN [f EXCEPT !.open = FALSE]
              ELSE [route |-> Append(f.route, d.selection), open |-> TRUE,
                    repairs |-> IF d.selection = current THEN f.repairs + 1 ELSE 0]
  IN  after[4].route
=============================================================================
