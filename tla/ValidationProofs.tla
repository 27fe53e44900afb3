--------------------------- MODULE ValidationProofs ---------------------------
(***************************************************************************)
(* What the acceptance and the rejection of a candidate prove, for every   *)
(* configuration of steps and every set of failures.  The invariant says   *)
(* of every validation what has been run and what is still to run, and     *)
(* that the results in hand are those the comparison let through, one by   *)
(* one, up to the last.                                                    *)
(***************************************************************************)
EXTENDS Validation, FiniteSetTheorems, TLAPS

\* What relates a result to what the validator cannot see.
Observed(r) ==
  /\ r.ids \subseteq r.broken /\ IsFiniteSet(r.ids)
  /\ r.complete => r.ids = r.broken /\ ~r.timedOut
  /\ r.complete /\ r.expected => r.broken = {}

\* The result of a candidate's step does not end the loop.
Passed(r) ==
  /\ r.step.policy = "must_pass" => CommandSucceeded(r)
  /\ r.step.policy = "no_regression" => \E b \in BaselineOf(r.step) : NoRegression(b, r)

ResultsObserved ==
  /\ \A i \in DOMAIN results : Observed(results[i])
  /\ \A i \in DOMAIN baseline : Observed(baseline[i])

\* The loop goes on only after results that passed, and "accepted" is what is
\* left when it has gone on to its end.
ResultsPassed ==
  /\ todo # {} => phase \in {"baseline", "candidate"} /\ outcome = "accepted"
  /\ phase \in {"candidate", "judged"} /\ outcome = "accepted" =>
       \A i \in DOMAIN results : Passed(results[i])
  /\ phase \in {"candidate", "judged"} /\ outcome = "blocked" =>
       results # <<>> /\ ~Passed(results[Len(results)])

\* The results hold one of the step, and the step is none for a human.
Ran(s, found) == s.policy # "manual" /\ \E j \in DOMAIN found : found[j].step = s

\* Each step of a validation that has not been given up has run or is to run.
StepsRan ==
  /\ phase = "baseline" /\ outcome = "accepted" =>
       \A i \in BaselineSteps(config) \ todo : Ran(config[i], results)
  /\ phase \in {"ready", "candidate", "judged"} =>
       \A i \in BaselineSteps(config) : Ran(config[i], baseline)
  /\ phase \in {"candidate", "judged"} /\ outcome = "accepted" =>
       \A i \in CandidateSteps(config) \ todo : Ran(config[i], results)

\* What runs belongs to the validation.
StepsBelong ==
  /\ phase = "baseline" => todo \subseteq BaselineSteps(config)
  /\ phase = "candidate" => todo \subseteq CandidateSteps(config)
  /\ phase \in {"candidate", "judged"} =>
       \A j \in DOMAIN results :
         \E i \in CandidateSteps(config) : results[j].step = config[i]

Inv == TypeOK /\ ResultsObserved /\ ResultsPassed /\ StepsRan /\ StepsBelong

LEMMA ConfigType ==
  ASSUME config \in Configs
  PROVE  config \in Seq(Step) /\ \A i \in DOMAIN config : config[i] \in Step
BY ValidationAssumption

\* One result more.
LEMMA AppendResult ==
  ASSUME NEW s \in Seq(Result), NEW r \in Result
  PROVE  /\ Append(s, r) \in Seq(Result) /\ Append(s, r) # <<>>
         /\ Append(s, r)[Len(Append(s, r))] = r
         /\ \A i \in DOMAIN s : i \in DOMAIN Append(s, r) /\ Append(s, r)[i] = s[i]
         /\ \A i \in DOMAIN Append(s, r) :
              Append(s, r)[i] = r \/ (i \in DOMAIN s /\ Append(s, r)[i] = s[i])
         /\ \E i \in DOMAIN Append(s, r) : Append(s, r)[i] = r
<1>1. /\ Append(s, r) \in Seq(Result) /\ Len(Append(s, r)) = Len(s) + 1
      /\ Append(s, r)[Len(s) + 1] = r
      /\ \A i \in 1..Len(s) : Append(s, r)[i] = s[i]
      /\ Len(s) \in Nat
  OBVIOUS
<1>2. DOMAIN Append(s, r) = 1..Len(s) + 1 /\ DOMAIN s = 1..Len(s)
  BY <1>1
<1> QED
  BY <1>1, <1>2

LEMMA ObservedResult ==
  ASSUME NEW s \in Step, NEW r \in Observations(s)
  PROVE  r \in Result /\ r.step = s /\ Observed(r)
BY DEF Observations, Result, Observed

\* The verdict on the result of a step that is validated.
LEMMA VerdictIsPassed ==
  ASSUME NEW r \in Result
  PROVE  /\ Verdict(r) \in {"accepted", "blocked", "human"}
         /\ Verdict(r) = "accepted" => r.step.policy # "manual"
         /\ phase = "candidate" /\ Verdict(r) = "accepted" => Passed(r)
         /\ phase = "candidate" /\ Verdict(r) = "blocked" => ~Passed(r)
<1>1. r.step.policy \in {"must_pass", "no_regression", "advisory", "manual"}
  BY DEF Result, Step, ValidationPolicy
<1>2. CASE r.step.policy = "must_pass"
  BY <1>2 DEF Verdict, Passed
<1>3. CASE r.step.policy = "no_regression"
  BY <1>3 DEF Verdict, Passed
<1>4. CASE r.step.policy = "advisory"
  BY <1>4 DEF Verdict, Passed
<1>5. CASE r.step.policy = "manual"
  BY <1>5 DEF Verdict, Passed
<1> QED
  BY <1>1, <1>2, <1>3, <1>4, <1>5

LEMMA InitInv == Init => Inv
<1> SUFFICES ASSUME Init PROVE Inv
  OBVIOUS
<1>1. BaselineSteps(config) \subseteq DOMAIN config
  BY DEF BaselineSteps
<1>2. TypeOK
  BY <1>1 DEF Init, TypeOK
<1> QED
  BY <1>2 DEF Init, Inv, ResultsObserved, ResultsPassed, StepsRan, StepsBelong

LEMMA ExecuteKeepsInv ==
  ASSUME Inv, ExecuteStep
  PROVE  Inv'
<1>0. PICK i \in todo : \E r \in Observations(config[i]) :
        /\ results' = Append(results, r)
        /\ outcome' = Verdict(r)
        /\ todo' = IF Verdict(r) = "accepted" THEN todo \ {i} ELSE {}
  BY DEF ExecuteStep
<1>1. PICK r \in Observations(config[i]) :
        /\ results' = Append(results, r)
        /\ outcome' = Verdict(r)
        /\ todo' = IF Verdict(r) = "accepted" THEN todo \ {i} ELSE {}
  BY <1>0
<1>2. /\ UNCHANGED <<config, phase, baseline>> /\ outcome = "accepted"
      /\ phase \in {"baseline", "candidate"} /\ todo \subseteq DOMAIN config
      /\ results \in Seq(Result) /\ config \in Configs
  BY <1>1 DEF ExecuteStep, Inv, TypeOK, ResultsPassed
<1>3. config[i] \in Step
  BY <1>2, ConfigType
<1>4. r \in Result /\ r.step = config[i] /\ Observed(r)
  BY <1>3, ObservedResult
<1>5. /\ results' \in Seq(Result) /\ results' # <<>> /\ results'[Len(results')] = r
      /\ \A j \in DOMAIN results : j \in DOMAIN results' /\ results'[j] = results[j]
      /\ \A j \in DOMAIN results' :
           results'[j] = r \/ (j \in DOMAIN results /\ results'[j] = results[j])
      /\ \E j \in DOMAIN results' : results'[j] = r
  BY <1>1, <1>2, <1>4, AppendResult
<1>6. /\ outcome' \in {"accepted", "blocked", "human"}
      /\ outcome' = "accepted" => r.step.policy # "manual"
      /\ phase = "candidate" /\ outcome' = "accepted" => Passed(r)
      /\ phase = "candidate" /\ outcome' = "blocked" => ~Passed(r)
      /\ todo' = IF outcome' = "accepted" THEN todo \ {i} ELSE {}
  BY <1>1, <1>4, VerdictIsPassed
<1>7. TypeOK'
  BY <1>2, <1>5, <1>6 DEF Inv, TypeOK
<1>8. ResultsObserved'
  BY <1>2, <1>4, <1>5 DEF Inv, ResultsObserved
<1>9. \A q : Passed(q)' <=> Passed(q)
  BY <1>2 DEF Passed, BaselineOf, NoRegression, CommandSucceeded
<1>10. ResultsPassed'
  <2>1. phase = "candidate" => \A j \in DOMAIN results : Passed(results[j])
    BY <1>2 DEF Inv, ResultsPassed
  <2>2. phase = "candidate" /\ outcome' = "accepted" =>
          \A j \in DOMAIN results' : Passed(results'[j])
    BY <1>5, <1>6, <2>1
  <2> QED
    BY <1>2, <1>5, <1>6, <1>9, <2>2 DEF ResultsPassed, Passed, BaselineOf, NoRegression, CommandSucceeded
<1>11. ASSUME outcome' = "accepted", NEW S, NEW k \in S \ todo',
              \A j \in S \ todo : Ran(config[j], results)
       PROVE  Ran(config[k], results')
  <2>1. CASE k = i
    BY <1>4, <1>5, <1>6, <1>11, <2>1 DEF Ran
  <2>2. CASE k # i
    BY <1>5, <1>6, <1>11, <2>2 DEF Ran
  <2> QED
    BY <2>1, <2>2
<1>12. StepsRan'
  <2>1. phase = "baseline" /\ outcome' = "accepted" =>
          \A k \in BaselineSteps(config) \ todo' : Ran(config[k], results')
    BY <1>2, <1>11 DEF Inv, StepsRan
  <2>2. phase = "candidate" /\ outcome' = "accepted" =>
          \A k \in CandidateSteps(config) \ todo' : Ran(config[k], results')
    BY <1>2, <1>11 DEF Inv, StepsRan
  <2>3. phase = "candidate" => \A k \in BaselineSteps(config) : Ran(config[k], baseline)
    BY DEF Inv, StepsRan
  <2> QED
    BY <1>2, <2>1, <2>2, <2>3 DEF StepsRan
<1>13. StepsBelong'
  BY <1>2, <1>4, <1>5, <1>6 DEF Inv, StepsBelong
<1> QED
  BY <1>7, <1>8, <1>10, <1>12, <1>13 DEF Inv

LEMMA NextKeepsInv == Inv /\ [Next]_vars => Inv'
<1> SUFFICES ASSUME Inv, [Next]_vars PROVE Inv'
  OBVIOUS
<1> USE DEF Inv, TypeOK, ResultsObserved, ResultsPassed, StepsRan, StepsBelong, Passed, BaselineOf
<1>1. CASE ExecuteStep
  BY <1>1, ExecuteKeepsInv
<1>2. CASE FinishBaseline
  BY <1>2 DEF FinishBaseline
<1>3. CASE RunCandidate
  <2>1. CandidateSteps(config) \subseteq DOMAIN config
    BY DEF CandidateSteps
  <2> QED
    BY <1>3, <2>1 DEF RunCandidate
<1>4. CASE FinishCandidate
  BY <1>4 DEF FinishCandidate
<1>5. CASE Rest \/ UNCHANGED vars
  BY <1>5 DEF Rest, vars
<1> QED
  BY <1>1, <1>2, <1>3, <1>4, <1>5 DEF Next

LEMMA SpecInv == Spec => []Inv
BY InitInv, NextKeepsInv, PTL DEF Spec

\* The variables keep their types: a step of any policy ends in one of the three
\* outcomes of the validator.
THEOREM ValidationTypeCorrect == Spec => []TypeOK
BY SpecInv, PTL DEF Inv

\* An accepted candidate breaks nothing a complete run of a required step would
\* name, but what its baseline broke (compare_validation), for all
\* configurations and whatever the commands do.
THEOREM AcceptedProvesNoRegressionHolds == Spec => []AcceptedProvesNoRegression
<1>1. Inv => AcceptedProvesNoRegression
  <2> SUFFICES ASSUME Inv, CandidateAccepted, NEW i \in DOMAIN results, results[i].complete
               PROVE  /\ results[i].step.policy = "must_pass" => results[i].broken = {}
                      /\ results[i].step.policy = "no_regression" =>
                           \E b \in BaselineOf(results[i].step) : results[i].broken \subseteq b.broken
    BY DEF AcceptedProvesNoRegression
  <2>1. Passed(results[i]) /\ Observed(results[i])
    BY DEF Inv, ResultsObserved, ResultsPassed, CandidateAccepted
  <2>2. \A step, b : b \in BaselineOf(step) => Observed(b)
    BY DEF Inv, ResultsObserved, BaselineOf
  <2>3. ASSUME results[i].step.policy = "must_pass" PROVE results[i].broken = {}
    BY <2>1, <2>3 DEF Passed, Observed, CommandSucceeded
  <2>4. ASSUME results[i].step.policy = "no_regression"
        PROVE  \E b \in BaselineOf(results[i].step) : results[i].broken \subseteq b.broken
    <3>1. PICK b \in BaselineOf(results[i].step) : NoRegression(b, results[i])
      BY <2>1, <2>4 DEF Passed
    <3>2. results[i].broken \subseteq b.ids
      BY <2>1, <3>1 DEF NoRegression, Observed
    <3> QED
      BY <2>2, <3>1, <3>2 DEF Observed
  <2> QED
    BY <2>3, <2>4
<1> QED
  BY <1>1, SpecInv, PTL

\* Of a complete run only new failures, or a failure that names none, are a
\* regression: the count of the failures never decides alone.
LEMMA RegressionIsNew ==
  ASSUME NEW b, NEW r, Observed(b), Observed(r), r.complete, b.complete,
         ~NoRegression(b, r)
  PROVE  ~(r.broken \subseteq b.broken) \/ (r.broken = {} /\ ~r.expected)
<1> SUFFICES ASSUME r.broken \subseteq b.broken
             PROVE  r.broken = {} /\ ~r.expected
  OBVIOUS
<1>1. r.ids = r.broken /\ b.ids = b.broken /\ ~r.timedOut /\ IsFiniteSet(b.ids)
  BY DEF Observed
<1>2. r.ids \ b.ids = {}
  BY <1>1
<1>3. Cardinality(r.ids) <= Cardinality(b.ids)
  BY <1>1, FS_Subset
<1>4. ~(CommandSucceeded(r) \/ r.ids # {})
  BY <1>2, <1>3 DEF NoRegression
<1> QED
  BY <1>1, <1>4 DEF CommandSucceeded

\* A candidate is blocked by a no-regression step only where the baseline has
\* evidence of the step, and, if both runs were complete, only by a failure that
\* is new or that names nothing.
THEOREM KnownFailuresToleratedHolds == Spec => []KnownFailuresTolerated
<1>1. Inv => KnownFailuresTolerated
  <2> DEFINE r == results[Len(results)]
  <2> SUFFICES ASSUME Inv, phase = "judged", outcome = "blocked",
                      r.step.policy = "no_regression"
               PROVE  /\ BaselineOf(r.step) # {}
                      /\ \A b \in BaselineOf(r.step) :
                           r.complete /\ b.complete =>
                             ~(r.broken \subseteq b.broken) \/ (r.broken = {} /\ ~r.expected)
    BY DEF KnownFailuresTolerated
  <2>1. Len(results) \in DOMAIN results /\ ~Passed(r)
    <3>1. results # <<>> /\ results \in Seq(Result) /\ ~Passed(r)
      BY DEF Inv, ResultsPassed, TypeOK
    <3> QED
      BY <3>1
  <2>2. Observed(r)
    BY <2>1 DEF Inv, ResultsObserved
  <2>3. PICK i \in CandidateSteps(config) : r.step = config[i]
    BY <2>1 DEF Inv, StepsBelong
  <2> HIDE DEF r
  <2>4. i \in BaselineSteps(config)
    BY <2>3 DEF CandidateSteps, BaselineSteps
  <2>5. \E j \in DOMAIN baseline : baseline[j].step = r.step
    BY <2>3, <2>4 DEF Inv, StepsRan, Ran
  <2>6. BaselineOf(r.step) # {}
    BY <2>5 DEF BaselineOf
  <2>7. ASSUME NEW b \in BaselineOf(r.step), r.complete, b.complete
        PROVE  ~(r.broken \subseteq b.broken) \/ (r.broken = {} /\ ~r.expected)
    <3>1. Observed(b)
      BY DEF Inv, ResultsObserved, BaselineOf
    <3>2. ~NoRegression(b, r)
      BY <2>1 DEF Passed
    <3> QED
      BY <2>2, <2>7, <3>1, <3>2, RegressionIsNew
  <2> QED
    BY <2>6, <2>7
<1> QED
  BY <1>1, SpecInv, PTL

\* Every step that is configured for the machine has run before a candidate is
\* accepted, one that must not regress on the baseline too, and none is manual.
THEOREM AcceptedSkippedNothingHolds == Spec => []AcceptedSkippedNothing
<1>1. Inv => AcceptedSkippedNothing
  <2> SUFFICES ASSUME Inv, CandidateAccepted, NEW i \in DOMAIN config, config[i].here
               PROVE  LET s == config[i]
                          ran == {results[j].step : j \in DOMAIN results}
                          ranBefore == {baseline[j].step : j \in DOMAIN baseline}
                      IN  /\ s.policy # "manual"
                          /\ s \in ran \cup ranBefore
                          /\ s.policy = "no_regression" => s \in ran \cap ranBefore
    BY DEF AcceptedSkippedNothing
  <2>1. /\ phase = "judged" /\ outcome = "accepted" /\ todo = {}
    BY DEF CandidateAccepted, Inv, ResultsPassed
  <2>2. /\ i \in BaselineSteps(config) => Ran(config[i], baseline)
        /\ i \in CandidateSteps(config) => Ran(config[i], results)
    BY <2>1 DEF Inv, StepsRan
  <2>3. /\ config[i].stage = "baseline" \/ config[i].policy = "no_regression"
             => i \in BaselineSteps(config)
        /\ config[i].stage # "baseline" \/ config[i].policy = "no_regression"
             => i \in CandidateSteps(config)
    BY DEF BaselineSteps, CandidateSteps
  <2> QED
    BY <2>2, <2>3 DEF Ran
<1> QED
  BY <1>1, SpecInv, PTL

-----------------------------------------------------------------------------
(***************************************************************************)
(* The order of the steps                                                  *)
(***************************************************************************)
Rank(r) == StageRank(r.step.stage)

\* No step of a validation runs after one of a later stage.
StagesInOrder ==
  \A i, j \in DOMAIN results : i < j => Rank(results[i]) <= Rank(results[j])

\* What is still to run is of no earlier stage than what has run.
LaterStagesToDo ==
  \A j \in DOMAIN results, k \in todo : Rank(results[j]) <= StageRank(config[k].stage)

OrderInv == StagesInOrder /\ LaterStagesToDo

LEMMA StageHasRank ==
  ASSUME NEW stage \in Stage PROVE StageRank(stage) \in Nat
<1>1. DOMAIN STAGE_ORDER = 1..4
  BY DEF STAGE_ORDER
<1>2. \E n \in 1..4 : STAGE_ORDER[n] = stage
  BY <1>1 DEF Stage
<1>3. StageRank(stage) \in 1..4
  BY <1>1, <1>2 DEF StageRank
<1> QED
  BY <1>3

LEMMA OrderNext == Inv /\ OrderInv /\ [Next]_vars => OrderInv'
<1> SUFFICES ASSUME Inv, OrderInv, [Next]_vars PROVE OrderInv'
  OBVIOUS
<1>1. CASE ExecuteStep
  <2>1. PICK i \in todo :
          /\ \A j \in todo \ {i} : Precedes(i, j)
          /\ \E r \in Observations(config[i]) :
               /\ results' = Append(results, r)
               /\ todo' = todo \ {i} \/ todo' = {}
    BY <1>1 DEF ExecuteStep
  <2>2. PICK r \in Observations(config[i]) : results' = Append(results, r)
    BY <2>1
  <2>3. config' = config /\ results \in Seq(Result) /\ \A j \in todo : config[j] \in Step
    BY <1>1, ConfigType DEF ExecuteStep, Inv, TypeOK
  <2>4. r \in Result /\ r.step = config[i]
    BY <2>3, ObservedResult
  <2>5. /\ \A j \in DOMAIN results : Rank(results[j]) \in Nat
        /\ \A j \in todo : StageRank(config[j].stage) \in Nat
    <3>1. \A j \in DOMAIN results : results[j] \in Result
      BY <2>3
    <3>2. \A q \in Result : q.step \in Step
      BY DEF Result
    <3>3. \A t \in Step : t.stage \in Stage
      BY DEF Step
    <3> QED
      BY <2>3, <3>1, <3>2, <3>3, StageHasRank DEF Rank
  <2>6. Rank(r) = StageRank(config[i].stage) /\ Rank(r) \in Nat
    BY <2>4, <2>5 DEF Rank
  <2>7. /\ \A j \in DOMAIN results : Rank(results[j]) <= Rank(r)
        /\ \A k \in todo \ {i} : Rank(r) <= StageRank(config[k].stage)
    <3>1. \A k \in todo \ {i} : Rank(r) <= StageRank(config[k].stage)
      BY <2>1, <2>5, <2>6 DEF Precedes
    <3> QED
      BY <2>6, <3>1 DEF OrderInv, LaterStagesToDo
  <2>8. /\ DOMAIN results = 1..Len(results) /\ DOMAIN results' = 1..Len(results) + 1
        /\ \A j \in 1..Len(results) : results'[j] = results[j]
        /\ results'[Len(results) + 1] = r /\ Len(results) \in Nat
    BY <2>2, <2>3, <2>4
  <2>9. \A j, k \in DOMAIN results' : j < k => Rank(results'[j]) <= Rank(results'[k])
    <3> SUFFICES ASSUME NEW j \in DOMAIN results', NEW k \in DOMAIN results', j < k
                 PROVE  Rank(results'[j]) <= Rank(results'[k])
      OBVIOUS
    <3>1. j \in 1..Len(results) /\ results'[j] = results[j]
      BY <2>8
    <3>2. CASE k = Len(results) + 1
      BY <2>7, <2>8, <3>1, <3>2
    <3>3. CASE k \in 1..Len(results)
      BY <2>8, <3>1, <3>3 DEF OrderInv, StagesInOrder
    <3> QED
      BY <2>8, <3>2, <3>3
  <2>10. \A j \in DOMAIN results', k \in todo' :
           Rank(results'[j]) <= StageRank(config[k].stage)
    <3> SUFFICES ASSUME NEW j \in DOMAIN results', NEW k \in todo'
                 PROVE  Rank(results'[j]) <= StageRank(config[k].stage)
      OBVIOUS
    <3>1. k \in todo \ {i}
      BY <2>1
    <3>2. CASE j = Len(results) + 1
      BY <2>7, <2>8, <3>1, <3>2
    <3>3. CASE j \in 1..Len(results)
      BY <2>8, <3>1, <3>3 DEF OrderInv, LaterStagesToDo
    <3> QED
      BY <2>8, <3>2, <3>3
  <2> QED
    BY <2>3, <2>9, <2>10 DEF OrderInv, StagesInOrder, LaterStagesToDo, Rank, StageRank
<1>2. CASE FinishBaseline \/ FinishCandidate \/ Rest \/ UNCHANGED vars
  BY <1>2 DEF FinishBaseline, FinishCandidate, Rest, vars, OrderInv, StagesInOrder,
              LaterStagesToDo, Rank, StageRank
<1>3. CASE RunCandidate
  BY <1>3 DEF RunCandidate, OrderInv, StagesInOrder, LaterStagesToDo
<1> QED
  BY <1>1, <1>2, <1>3 DEF Next

\* ordered_steps: however the configuration lists them, the steps of a validation
\* run stage by stage, so the cheap stages stand before the full one.
THEOREM ValidationRunsInOrder == Spec => []StagesInOrder
<1>1. Init => OrderInv
  BY DEF Init, OrderInv, StagesInOrder, LaterStagesToDo
<1>2. OrderInv => StagesInOrder
  BY DEF OrderInv
<1> QED
  BY <1>1, <1>2, OrderNext, SpecInv, PTL DEF Spec

=============================================================================
