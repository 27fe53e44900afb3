------------------------------ MODULE Validation ------------------------------
(***************************************************************************)
(* The staged validator: SubprocessValidator (validation/runner.py) and    *)
(* compare_validation (validation/comparison.py).  One run of the          *)
(* controller validates its baseline once and then any number of           *)
(* candidates; a step of the model is one configured command that ran.     *)
(***************************************************************************)
EXTENDS Naturals, Sequences, FiniteSets

CONSTANTS
  Configs,   \* the validator configurations considered: sequences of steps
  Name,      \* names of steps
  Tests      \* the failures a command may name in its output

STAGE_ORDER == <<"baseline", "smoke", "targeted", "full">>
Stage == {STAGE_ORDER[i] : i \in DOMAIN STAGE_ORDER}
ValidationPolicy == {"must_pass", "no_regression", "advisory", "manual"}

\* "here" says that the platform selector matches the machine.
Step == [name : Name, stage : Stage, policy : ValidationPolicy, here : BOOLEAN]

\* ValidationConfig refuses steps of the same name.
UniqueNames(steps) ==
  \A i, j \in DOMAIN steps : steps[i].name = steps[j].name => i = j

ASSUME ValidationAssumption ==
  \A steps \in Configs : steps \in Seq(Step) /\ UniqueNames(steps)

VARIABLES
  config,     \* the configured steps
  phase,      \* what is being validated, or "ready", "judged", "stopped"
  todo,       \* the steps still to run, as indices of config
  results,    \* what the steps of this validation showed
  baseline,   \* what the baseline showed
  outcome     \* verdict so far, on the baseline or on the last candidate

vars == <<config, phase, todo, results, baseline, outcome>>

-----------------------------------------------------------------------------
(***************************************************************************)
(* One command                                                             *)
(***************************************************************************)
(***************************************************************************)
(* A result and, for the properties, two facts the validator cannot see:   *)
(* "broken" is what the command names as failing when it runs to its end,  *)
(* and "complete" that it did so and all its output was kept.  A timeout,  *)
(* a cancellation and the bound on the output leave only some of the names. *)
(* A command may fail without naming anything, and one that was complete   *)
(* and exits as expected has nothing to name.  The output is bounded, so   *)
(* what is named is finite.                                                *)
(***************************************************************************)
Result ==
  [step : Step, ids : SUBSET Tests, expected : BOOLEAN, timedOut : BOOLEAN,
   broken : SUBSET Tests, complete : BOOLEAN]

Observations(step) ==
  {r \in [step : {step}, ids : SUBSET Tests, expected : BOOLEAN,
          timedOut : BOOLEAN, broken : SUBSET Tests, complete : BOOLEAN] :
     /\ r.ids \subseteq r.broken /\ IsFiniteSet(r.ids)
     /\ r.complete => r.ids = r.broken /\ ~r.timedOut
     /\ r.complete /\ r.expected => r.broken = {}}

CommandSucceeded(r) == ~r.timedOut /\ r.expected

\* (mutant) Any failure the baseline named makes every failure acceptable.
CountsOnly(base, r) ==
  /\ CommandSucceeded(r) \/ r.ids # {}
  /\ Cardinality(r.ids) <= Cardinality(base.ids)

\* compare_validation of a no-regression step.
NoRegression(base, r) ==
  /\ CommandSucceeded(r) \/ r.ids # {}
  /\ r.ids \ base.ids = {}
  /\ Cardinality(r.ids) <= Cardinality(base.ids)

-----------------------------------------------------------------------------
(***************************************************************************)
(* The steps of a validation                                               *)
(***************************************************************************)
StageRank(stage) == CHOOSE n \in DOMAIN STAGE_ORDER : STAGE_ORDER[n] = stage

\* sorted() is stable: within a stage the order of the configuration stays.
Precedes(i, j) ==
  LET rank(k) == StageRank(config[k].stage)
  IN  rank(i) < rank(j) \/ (rank(i) = rank(j) /\ i < j)

\* (mutant) Only the baseline stage is run on the baseline.
BaselineStageOnly(steps) ==
  {i \in DOMAIN steps : steps[i].here /\ steps[i].stage = "baseline"}

BaselineSteps(steps) ==
  {i \in DOMAIN steps :
     /\ steps[i].here
     /\ steps[i].stage = "baseline" \/ steps[i].policy = "no_regression"}

CandidateSteps(steps) ==
  {i \in DOMAIN steps :
     /\ steps[i].here
     /\ steps[i].stage # "baseline" \/ steps[i].policy = "no_regression"}

BaselineOf(step) == {b \in {baseline[i] : i \in DOMAIN baseline} :
                       b.step.name = step.name}

\* (mutant) A manual step that succeeds needs nobody.
ManualBySuccess(r) ==
  CASE r.step.policy = "advisory" -> "accepted"
    [] r.step.policy \in {"manual", "must_pass"} ->
         IF CommandSucceeded(r) THEN "accepted" ELSE "blocked"
    [] OTHER ->
         IF phase = "baseline" \/ \E b \in BaselineOf(r.step) : NoRegression(b, r)
         THEN "accepted" ELSE "blocked"

\* (mutant) The policy of a manual step becomes the outcome.
PolicyAsOutcome(r) == IF r.step.policy = "manual" THEN "manual" ELSE "accepted"

\* What a step's result does to the verdict; all but "accepted" end the loop.
Verdict(r) ==
  CASE r.step.policy = "advisory" -> "accepted"
    [] r.step.policy = "manual" -> "human"
    [] r.step.policy = "must_pass" ->
         IF CommandSucceeded(r) THEN "accepted" ELSE "blocked"
    [] r.step.policy = "no_regression" ->
         IF phase = "baseline" \/ \E b \in BaselineOf(r.step) : NoRegression(b, r)
         THEN "accepted" ELSE "blocked"

Init ==
  /\ config \in Configs
  /\ phase = "baseline"
  /\ todo = BaselineSteps(config)
  /\ results = <<>> /\ baseline = <<>>
  /\ outcome = "accepted"

\* _execute_step for the next step, and the verdict on it.
ExecuteStep ==
  /\ phase \in {"baseline", "candidate"}
  /\ \E i \in todo :
       /\ \A j \in todo \ {i} : Precedes(i, j)
       /\ \E r \in Observations(config[i]) :
            /\ results' = Append(results, r)
            /\ outcome' = Verdict(r)
            /\ todo' = IF Verdict(r) = "accepted" THEN todo \ {i} ELSE {}
  /\ UNCHANGED <<config, phase, baseline>>

\* run_baseline returns; a baseline that is not accepted ends the run.
FinishBaseline ==
  /\ phase = "baseline" /\ todo = {}
  /\ phase' = IF outcome = "accepted" THEN "ready" ELSE "stopped"
  /\ baseline' = results
  /\ UNCHANGED <<config, todo, results, outcome>>

\* run_candidate: after an attempt, after a repair, before acceptance.  With no
\* step to run it asks for human review without running any.
RunCandidate ==
  /\ phase \in {"ready", "judged"}
  /\ phase' = "candidate"
  /\ todo' = CandidateSteps(config)
  /\ results' = <<>>
  /\ outcome' = IF CandidateSteps(config) = {} THEN "human" ELSE "accepted"
  /\ UNCHANGED <<config, baseline>>

\* run_candidate returns; the controller stops where a human is needed.
FinishCandidate ==
  /\ phase = "candidate" /\ todo = {}
  /\ phase' = IF outcome = "human" THEN "stopped" ELSE "judged"
  /\ UNCHANGED <<config, todo, results, baseline, outcome>>

\* The controller asks for no further validation.
Rest == phase \in {"judged", "stopped"} /\ UNCHANGED vars

Next == ExecuteStep \/ FinishBaseline \/ RunCandidate \/ FinishCandidate \/ Rest

Spec == Init /\ [][Next]_vars

-----------------------------------------------------------------------------
(***************************************************************************)
(* Properties                                                              *)
(***************************************************************************)
TypeOK ==
  /\ config \in Configs
  /\ phase \in {"baseline", "ready", "candidate", "judged", "stopped"}
  /\ todo \subseteq DOMAIN config
  /\ results \in Seq(Result) /\ baseline \in Seq(Result)
  /\ outcome \in {"accepted", "blocked", "human"}

CandidateAccepted == phase = "judged" /\ outcome = "accepted"

\* An accepted candidate breaks nothing that a complete run of a required step
\* would name: nothing at all where the step must pass, nothing the baseline
\* did not already break where it must not regress.
AcceptedProvesNoRegression ==
  CandidateAccepted =>
    \A i \in DOMAIN results :
      results[i].complete =>
        /\ results[i].step.policy = "must_pass" => results[i].broken = {}
        /\ results[i].step.policy = "no_regression" =>
             \E b \in BaselineOf(results[i].step) : results[i].broken \subseteq b.broken

\* Failures the baseline already had never block a candidate: a no-regression
\* step that blocks has evidence of the baseline to compare with, and if both
\* its runs were complete it named a new failure, or failed without naming any.
KnownFailuresTolerated ==
  phase = "judged" /\ outcome = "blocked" =>
    LET r == results[Len(results)]
    IN  r.step.policy = "no_regression" =>
          /\ BaselineOf(r.step) # {}
          /\ \A b \in BaselineOf(r.step) :
               r.complete /\ b.complete =>
                 ~(r.broken \subseteq b.broken) \/ (r.broken = {} /\ ~r.expected)

\* Nothing that was configured for this machine is skipped on the way to an
\* accepted candidate, and none of it was left to a human.
AcceptedSkippedNothing ==
  CandidateAccepted =>
    \A i \in DOMAIN config :
      LET s == config[i]
          ran == {results[j].step : j \in DOMAIN results}
          ranBefore == {baseline[j].step : j \in DOMAIN baseline}
      IN  s.here => /\ s.policy # "manual"
                    /\ s \in ran \cup ranBefore
                    /\ s.policy = "no_regression" => s \in ran \cap ranBefore

\* README: an advisory step "does not independently accept or block".
AdvisoryNeverAccepts ==
  CandidateAccepted =>
    \E i \in DOMAIN results : results[i].step.policy # "advisory"
=============================================================================
