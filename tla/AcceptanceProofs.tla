---------------------------- MODULE AcceptanceProofs ----------------------------
(***************************************************************************)
(* What acceptance means, proved for every configuration: the evidence     *)
(* behind it, the events it respects, and the contract it implements.      *)
(***************************************************************************)
EXTENDS OrchestratorProofs

\* Between the final verdict and acceptance the verdict is about the candidate
\* and both late looks came out clean; the export is the candidate's.
FinalInv ==
  /\ performed => pc \in JournaledSteps
  /\ pc \in {"check_original", "final_export", "accept"} =>
       /\ finalPassed = {candidate}
       /\ candidate.policy # "blocking"
       /\ arrived["cancel"] # "early"
  /\ pc \in {"final_export", "accept"} => arrived["edit"] # "early"
  /\ (pc = "final_export" /\ performed) \/ pc = "accept" => exported = {candidate}
  /\ AcceptedHasEvidence
  /\ CancellationHonoured
  /\ OriginalProtected

\* The steps on which FinalInv has something to say.
LastSteps == {"check_original", "final_export", "accept"}

LEMMA FinalInit == Init => FinalInv
BY DEF Init, FinalInv, AcceptedHasEvidence, CancellationHonoured,
       OriginalProtected

\* A step that leads neither towards acceptance nor into it.
LEMMA Elsewhere ==
  ASSUME pc' \notin LastSteps, state' # "ACCEPTED",
         performed' => pc' \in JournaledSteps
  PROVE  FinalInv'
BY DEF FinalInv, LastSteps, AcceptedHasEvidence, CancellationHonoured,
       OriginalProtected

\* An accepted run is at its end.
LEMMA AcceptedIsOver ==
  ASSUME TypeInv, StateInv, state = "ACCEPTED"
  PROVE  pc \in {"report", "release", "raised", "gone"}
BY DEF TypeInv, StateInv, StateInAttempt, StateInDecision, NoIllegalTransition,
       RunSteps, JournaledSteps, PlainSteps, BranchSteps, EndSteps

\* A transition to anything but acceptance, taken or not, accepts nothing.
LEMMA OtherTransition ==
  ASSUME NEW target, target # "ACCEPTED", state # "ACCEPTED", NEW next,
         next \notin LastSteps, Transition(target, next)
  PROVE  pc' \notin LastSteps /\ state' # "ACCEPTED"
BY DEF Transition, durable, LastSteps

\* The journal and the steps that only record a transition, acceptance included.
LEMMA FinalPlain ==
  TypeInv /\ StateInv /\ StateInv' /\ FinalInv
    /\ (PlanOperation \/ StartOperation \/ CompleteOperation \/ Advance)
    => FinalInv'
<1> SUFFICES ASSUME TypeInv, StateInv, StateInv', FinalInv,
                    PlanOperation \/ StartOperation \/ CompleteOperation \/ Advance
             PROVE  FinalInv'
  OBVIOUS
<1>1. state # "ACCEPTED"
  BY AcceptedIsOver
     DEF PlanOperation, StartOperation, CompleteOperation, Advance, JournaledSteps,
         PlainSteps
<1>2. CASE PlanOperation \/ StartOperation
  BY <1>1, <1>2
     DEF PlanOperation, StartOperation, world, evidence, history, FinalInv,
         AcceptedHasEvidence, CancellationHonoured, OriginalProtected
<1>3. CASE CompleteOperation
  <2>1. CASE pc = "final_export"
    <3>1. pc' = "accept"
      BY <1>3, <2>1 DEF CompleteOperation, AfterOperation, JournaledSteps
    <3> QED
      BY <1>1, <1>3, <2>1, <3>1
         DEF CompleteOperation, world, evidence, history, FinalInv,
             AcceptedHasEvidence, CancellationHonoured, OriginalProtected
  <2>2. CASE pc # "final_export"
    <3>1. pc' \notin LastSteps
      BY <1>3, <2>2 DEF CompleteOperation, AfterOperation, JournaledSteps, LastSteps
    <3> QED
      BY <1>1, <1>3, <3>1, Elsewhere DEF CompleteOperation
  <2> QED
    BY <2>1, <2>2
<1>4. CASE Advance
  <2>1. ~performed /\ ~performed'
    BY <1>4 DEF Advance, FinalInv, PlainSteps, JournaledSteps
  <2>2. CASE pc = "accept"
    <3>1. pc' \in {"report", "illegal"}
      BY <1>4, <2>2 DEF Advance, Transition, PlainSteps
    <3>2. AcceptedHasEvidence'
      BY <1>4, <2>2
         DEF Advance, world, evidence, history, FinalInv, AcceptedHasEvidence,
             TypeInv, TypeOK
    <3> QED
      BY <1>4, <2>1, <2>2, <3>1, <3>2
         DEF Advance, world, evidence, history, FinalInv, CancellationHonoured,
             OriginalProtected
  <2>3. CASE pc # "accept"
    <3>1. /\ PlainSteps[pc][1] # "ACCEPTED"
          /\ PlainSteps[pc][2] \notin LastSteps
      BY <1>4, <2>3 DEF Advance, PlainSteps, LastSteps
    <3> QED
      BY <1>1, <1>4, <2>1, <3>1, OtherTransition, Elsewhere DEF Advance
  <2> QED
    BY <2>2, <2>3
<1> QED
  BY <1>2, <1>3, <1>4

\* The start and the attempt loop are far from acceptance.
LEMMA FinalBefore ==
  TypeInv /\ StateInv /\ FinalInv
    /\ (\/ AcquireLock \/ CaptureOriginal \/ BeginCreating \/ CreateWorktree
        \/ ValidatorPreflight \/ RunBaseline \/ JudgeBaseline
        \/ NextAttempt \/ LaunchAttempt \/ RunCodex \/ ClassifyAttempt
        \/ RouteFailure \/ RunCandidate \/ JudgeCandidate \/ RouteSubstantive)
    => FinalInv'
<1> SUFFICES ASSUME TypeInv, StateInv, FinalInv,
                    \/ AcquireLock \/ CaptureOriginal \/ BeginCreating
                    \/ CreateWorktree \/ ValidatorPreflight \/ RunBaseline
                    \/ JudgeBaseline \/ NextAttempt \/ LaunchAttempt \/ RunCodex
                    \/ ClassifyAttempt \/ RouteFailure \/ RunCandidate
                    \/ JudgeCandidate \/ RouteSubstantive
             PROVE  FinalInv'
  OBVIOUS
<1> USE OtherTransition, Elsewhere
<1>1. state # "ACCEPTED"
  BY AcceptedIsOver
     DEF AcquireLock, CaptureOriginal, BeginCreating, CreateWorktree,
         ValidatorPreflight, RunBaseline, JudgeBaseline, NextAttempt, LaunchAttempt,
         RunCodex, ClassifyAttempt, RouteFailure, RunCandidate, JudgeCandidate,
         RouteSubstantive, RunValidation, Performing
<1>2. CASE pc \notin JournaledSteps
  <2>1. ~performed
    BY <1>2 DEF FinalInv
  <2>2. CASE AcquireLock
    BY <1>1, <2>1, <2>2 DEF AcquireLock, Settle, LastSteps
  <2>3. CASE BeginCreating
    BY <1>1, <2>1, <2>3 DEF BeginCreating, Settle, LastSteps
  <2>4. CASE ValidatorPreflight
    BY <1>1, <2>1, <2>4 DEF ValidatorPreflight, Settle, LastSteps
  <2>5. CASE JudgeBaseline
    BY <1>1, <2>1, <2>5 DEF JudgeBaseline, Settle, LastSteps
  <2>6. CASE NextAttempt
    BY <1>1, <2>1, <2>6 DEF NextAttempt, Settle, LastSteps
  <2>7. CASE LaunchAttempt
    BY <1>1, <2>1, <2>7 DEF LaunchAttempt, LastSteps
  <2>8. CASE ClassifyAttempt
    BY <1>1, <2>1, <2>8 DEF ClassifyAttempt, Settle, LastSteps
  <2>9. CASE RouteFailure \/ RouteSubstantive
    <3>1. PICK d : ApplyDecision(d)
      BY <2>9 DEF RouteFailure, RouteSubstantive
    <3>2. Settle("BLOCKED") \/ Settle("NEEDS_HUMAN_REVIEW") \/ Goto("next_attempt")
      BY <3>1 DEF ApplyDecision
    <3>3. pc' \notin LastSteps /\ state' # "ACCEPTED"
      BY <1>1, <3>2 DEF Settle, Goto, durable, LastSteps
    <3>4. performed' = performed
      BY <2>9 DEF RouteFailure, RouteSubstantive
    <3> QED
      BY <2>1, <3>3, <3>4
  <2>10. CASE JudgeCandidate
    BY <1>1, <2>1, <2>10 DEF JudgeCandidate, Settle, LastSteps
  <2> QED
    BY <1>2, <2>2, <2>3, <2>4, <2>5, <2>6, <2>7, <2>8, <2>9, <2>10
       DEF CaptureOriginal, CreateWorktree, RunBaseline, RunCodex, RunCandidate,
           RunValidation, Performing, JournaledSteps
<1>3. CASE pc \in JournaledSteps
  BY <1>1, <1>3
     DEF AcquireLock, CaptureOriginal, BeginCreating, CreateWorktree,
         ValidatorPreflight, RunBaseline, JudgeBaseline, NextAttempt, LaunchAttempt,
         RunCodex, ClassifyAttempt, RouteFailure, RunCandidate, JudgeCandidate,
         RouteSubstantive, RunValidation, Performing, JournaledSteps, LastSteps,
         durable
<1> QED
  BY <1>2, <1>3

\* Policy and review, the final verdict and what follows it.
LEMMA FinalVerdict ==
  TypeInv /\ StateInv /\ FinalInv
    /\ (JudgePolicy \/ ExportPatch \/ RunReview \/ JudgeReview \/ ApplyReview
        \/ EnterFinal \/ RunFinal \/ JudgeFinal \/ CheckOriginal)
    => FinalInv'
<1> SUFFICES ASSUME TypeInv, StateInv, FinalInv,
                    JudgePolicy \/ ExportPatch \/ RunReview \/ JudgeReview
                      \/ ApplyReview \/ EnterFinal \/ RunFinal \/ JudgeFinal
                      \/ CheckOriginal
             PROVE  FinalInv'
  OBVIOUS
<1> USE OtherTransition, Elsewhere
<1>1. state # "ACCEPTED"
  BY AcceptedIsOver
     DEF JudgePolicy, ExportPatch, RunReview, JudgeReview, ApplyReview, EnterFinal,
         RunFinal, RunValidation, JudgeFinal, CheckOriginal, Performing
<1>2. CASE JudgePolicy
  <2>1. \/ Settle("NEEDS_HUMAN_REVIEW")
        \/ Goto("policy_export") \/ Goto("enter_final")
        \/ Transition("REVIEW_PREPARING", "review_launch")
    BY <1>2 DEF JudgePolicy
  <2>2. ~performed /\ performed' = performed
    BY <1>2 DEF JudgePolicy, FinalInv, JournaledSteps
  <2> QED
    BY <1>1, <2>1, <2>2 DEF Settle, Goto, durable, LastSteps
<1>3. CASE ExportPatch
  <2>1. pc' = pc /\ pc \in JournaledSteps /\ state' = state
    BY <1>3 DEF ExportPatch, Performing, durable, JournaledSteps
  <2> QED
    BY <1>1, <1>3, <2>1
       DEF ExportPatch, evidence, history, FinalInv, AcceptedHasEvidence,
           CancellationHonoured, OriginalProtected
<1>4. CASE RunReview \/ RunFinal
  BY <1>1, <1>4
     DEF RunReview, RunFinal, RunValidation, Performing, durable, JournaledSteps,
         LastSteps
<1>5. CASE JudgeReview
  <2>1. ~performed /\ performed' = performed
    BY <1>5 DEF JudgeReview, FinalInv, JournaledSteps
  <2> QED
    BY <1>1, <1>5, <2>1 DEF JudgeReview, Settle, LastSteps
<1>6. CASE ApplyReview
  <2>1. ~performed /\ performed' = performed
    BY <1>6 DEF ApplyReview, FinalInv, JournaledSteps
  <2> QED
    BY <1>1, <1>6, <2>1 DEF ApplyReview, Settle, Goto, durable, LastSteps
<1>7. CASE EnterFinal
  <2>1. ~performed /\ performed' = performed
    BY <1>7 DEF EnterFinal, FinalInv, JournaledSteps
  <2> QED
    BY <1>1, <1>7, <2>1 DEF EnterFinal, LastSteps
<1>8. CASE JudgeFinal
  <2>1. ~performed /\ performed' = performed
    BY <1>8 DEF JudgeFinal, FinalInv, JournaledSteps
  <2>2. CASE Goto("check_original") /\ FinalVerdictHolds /\ ~cancelRequested
    <3>1. finalPassed' = {candidate'} /\ arrived' = arrived /\ candidate' = tree
      BY <1>8, <2>2 DEF JudgeFinal, FinalVerdictHolds, Settle, Goto, Transition, world
    <3>2. tree.policy # "blocking"
      BY <1>8, <2>2
         DEF JudgeFinal, FinalVerdictHolds, Settle, Goto, Transition, PolicyBlocks
    <3> QED
      BY <1>1, <2>1, <2>2, <3>1, <3>2
         DEF Goto, durable, cancelRequested, FinalInv, AcceptedHasEvidence,
             CancellationHonoured, OriginalProtected
  <2>3. CASE \/ \E t \in {"CANCELLED", "NEEDS_HUMAN_REVIEW", "BLOCKED"} : Settle(t)
             \/ Goto("final_policy_export")
    BY <1>1, <2>1, <2>3 DEF Settle, Goto, durable, LastSteps
  <2> QED
    BY <1>8, <2>2, <2>3 DEF JudgeFinal
<1>9. CASE CheckOriginal
  <2>1. ~performed /\ performed' = performed
    BY <1>9 DEF CheckOriginal, FinalInv, JournaledSteps
  <2>2. CASE Settle("FAILED")
    BY <1>1, <2>1, <2>2 DEF Settle, LastSteps
  <2>3. CASE ~originalChanged /\ Goto("final_export")
    BY <1>1, <1>9, <2>1, <2>3
       DEF CheckOriginal, originalChanged, Goto, durable, world, evidence, history,
           FinalInv, AcceptedHasEvidence, CancellationHonoured, OriginalProtected
  <2> QED
    BY <1>9, <2>2, <2>3 DEF CheckOriginal
<1> QED
  BY <1>2, <1>3, <1>4, <1>5, <1>6, <1>7, <1>8, <1>9

\* Exceptions, outside events and the end of a run.
LEMMA FinalOther ==
  TypeInv /\ StateInv /\ FinalInv
    /\ (Report \/ Release \/ Raises \/ Environment \/ UNCHANGED vars)
    => FinalInv'
<1> SUFFICES ASSUME TypeInv, StateInv, FinalInv,
                    Report \/ Release \/ Raises \/ Environment \/ UNCHANGED vars
             PROVE  FinalInv'
  OBVIOUS
<1> USE DEF FinalInv, AcceptedHasEvidence, CancellationHonoured, OriginalProtected
<1>1. CASE Report
  BY <1>1 DEF Report, Forget, world, history
<1>2. CASE Release
  BY <1>2 DEF Release, world, evidence, history, JournaledSteps
<1>3. CASE Raises
  BY <1>3 DEF Raises, FailOperation, RaiseError, Forget, durable, world, history
<1>4. CASE RequestCancel
  <2>1. state # "ACCEPTED"
    BY <1>4 DEF RequestCancel, StateInv, StatusFollowsState, TERMINAL_STATES
  <2> QED
    BY <1>4, <2>1
       DEF RequestCancel, AfterLastCancelCheck, durable, evidence, history, TypeInv
<1>5. CASE EditOriginal
  <2>1. state = "ACCEPTED" => pc \in EndSteps
    BY AcceptedIsOver DEF EndSteps
  <2>2. arrived'["cancel"] = arrived["cancel"]
    BY <1>5 DEF EditOriginal, TypeInv
  <2>3. pc \in AfterLastOriginalCheck => arrived'["edit"] = "late"
    BY <1>5 DEF EditOriginal, TypeInv
  <2>4. pc \in {"final_export", "accept"} \cup EndSteps
          => pc \in AfterLastOriginalCheck
    BY DEF AfterLastOriginalCheck, AfterLastCancelCheck, EndSteps
  <2>5. UNCHANGED <<state, pc, performed, exported, candidate, finalPassed>>
    BY <1>5 DEF EditOriginal, durable, evidence, history
  <2> QED
    BY <2>1, <2>2, <2>3, <2>4, <2>5
<1>6. CASE TouchWorktree
  BY <1>6 DEF TouchWorktree, durable, evidence, history
<1>7. CASE UNCHANGED vars
  BY <1>7 DEF vars, durable, world, evidence, history
<1> QED
  BY <1>1, <1>2, <1>3, <1>4, <1>5, <1>6, <1>7 DEF Environment

LEMMA FinalStep == TypeInv /\ StateInv /\ FinalInv /\ [Next]_vars => FinalInv'
BY StateStep, FinalPlain, FinalBefore, FinalVerdict, FinalOther
   DEF Next, Controller, Exited

\* For every configuration and every interleaving of outside events, an accepted
\* run has exported exactly one patch, of the very content whose final
\* validation passed, and no blocking policy finding applies to that content.
THEOREM RunAcceptedHasEvidence == Spec => []AcceptedHasEvidence
<1>1. FinalInv => AcceptedHasEvidence
  BY DEF FinalInv
<1> QED
  BY <1>1, TypeInit, TypeStep, StateInit, StateStep, FinalInit, FinalStep, PTL
     DEF Spec

\* No acceptance overtakes a cancellation asked for before the final verdict.
THEOREM RunCancellationHonoured == Spec => []CancellationHonoured
<1>1. FinalInv => CancellationHonoured
  BY DEF FinalInv
<1> QED
  BY <1>1, TypeInit, TypeStep, StateInit, StateStep, FinalInit, FinalStep, PTL
     DEF Spec

\* No acceptance overlooks an original checkout that changed before the last
\* comparison.
THEOREM RunOriginalProtected == Spec => []OriginalProtected
<1>1. FinalInv => OriginalProtected
  BY DEF FinalInv
<1> QED
  BY <1>1, TypeInit, TypeStep, StateInit, StateStep, FinalInit, FinalStep, PTL
     DEF Spec

-----------------------------------------------------------------------------
(***************************************************************************)
(* The run implements its contract                                         *)
(***************************************************************************)
\* A run with an outcome is at its end.
LEMMA SettledIsOver ==
  ASSUME TypeInv, StateInv, state \in TERMINAL_STATES
  PROVE  pc \in {"report", "release", "raised", "gone"}
BY DEF TypeInv, StateInv, StateInAttempt, StateInDecision, NoIllegalTransition,
       RunSteps, JournaledSteps, PlainSteps, BranchSteps, EndSteps, TERMINAL_STATES

\* Only an export changes the exported patch, only the final verdict what the
\* final validation has passed, and neither accepts the run.
LEMMA Deliveries ==
  ASSUME StateInv, [Next]_vars
  PROVE  /\ exported' = exported \/ status' = status
         /\ finalPassed' = finalPassed \/ state' # "ACCEPTED"
<1>1. CASE Controller
  <2>1. CASE PlanOperation \/ StartOperation \/ CompleteOperation \/ Advance
    BY <2>1
       DEF PlanOperation, StartOperation, CompleteOperation, Advance, world, history
  <2>2. CASE \/ AcquireLock \/ CaptureOriginal \/ BeginCreating \/ CreateWorktree
             \/ ValidatorPreflight \/ RunBaseline \/ JudgeBaseline
    BY <2>2
       DEF AcquireLock, CaptureOriginal, BeginCreating, CreateWorktree,
           ValidatorPreflight, RunBaseline, JudgeBaseline, world, history
  <2>3. CASE \/ NextAttempt \/ LaunchAttempt \/ RunCodex \/ ClassifyAttempt
             \/ RouteFailure \/ RunCandidate \/ JudgeCandidate \/ RouteSubstantive
    BY <2>3
       DEF NextAttempt, LaunchAttempt, RunCodex, ClassifyAttempt, RouteFailure,
           RunCandidate, RunValidation, JudgeCandidate, RouteSubstantive, world,
           history
  <2>4. CASE JudgePolicy \/ RunReview \/ JudgeReview \/ ApplyReview \/ EnterFinal
             \/ RunFinal \/ CheckOriginal
    BY <2>4
       DEF JudgePolicy, RunReview, JudgeReview, ApplyReview, EnterFinal, RunFinal,
           RunValidation, CheckOriginal, world, history
  <2>5. CASE ExportPatch
    BY <2>5 DEF ExportPatch, durable, history
  <2>6. CASE JudgeFinal
    <3>1. state # "ACCEPTED"
      BY <2>6 DEF JudgeFinal, StateInv, StateInDecision
    <3>2. \/ \E t \in {"CANCELLED", "NEEDS_HUMAN_REVIEW", "BLOCKED"} : Settle(t)
          \/ Goto("final_policy_export") \/ Goto("check_original")
      BY <2>6 DEF JudgeFinal
    <3>3. state' # "ACCEPTED"
      BY <3>1, <3>2 DEF Settle, Transition, Goto, durable
    <3> QED
      BY <2>6, <3>3 DEF JudgeFinal, world
  <2>7. CASE Report \/ Release
    BY <2>7 DEF Report, Release, world, history
  <2> QED
    BY <1>1, <2>1, <2>2, <2>3, <2>4, <2>5, <2>6, <2>7 DEF Controller
<1>2. CASE Raises
  BY <1>2 DEF Raises, FailOperation, RaiseError, world, history
<1>3. CASE Environment
  BY <1>3 DEF Environment, RequestCancel, EditOriginal, TouchWorktree, history
<1>4. CASE UNCHANGED vars
  BY <1>4 DEF vars, world, history
<1> QED
  BY <1>1, <1>2, <1>3, <1>4 DEF Next, Exited

\* After the outcome nothing the contract sees moves any more.
LEMMA OutcomeKept ==
  ASSUME TypeInv, StateInv, state \in TERMINAL_STATES, [Next]_vars
  PROVE  UNCHANGED <<status, exported, finalPassed>>
<1>1. pc \in {"report", "release", "raised", "gone"}
  BY SettledIsOver
<1>2. status = state
  BY DEF StateInv, StatusFollowsState
<1>3. CASE Report \/ Release
  BY <1>2, <1>3 DEF Report, Release, world, history
<1>4. CASE Raises
  BY <1>4 DEF Raises, FailOperation, RaiseError, durable, world, history
<1>5. CASE Environment
  BY <1>5 DEF Environment, RequestCancel, EditOriginal, TouchWorktree, durable,
              history
<1>6. CASE UNCHANGED vars
  BY <1>6 DEF vars, durable, world, history
<1>7. CASE Controller /\ ~Report /\ ~Release
  BY <1>1, <1>7
     DEF Controller, PlanOperation, StartOperation, CompleteOperation, Advance,
         PlainSteps, AcquireLock, CaptureOriginal, BeginCreating, CreateWorktree,
         ValidatorPreflight, RunBaseline, JudgeBaseline, NextAttempt, LaunchAttempt,
         RunCodex, ClassifyAttempt, RouteFailure, RunCandidate, RunValidation,
         JudgeCandidate, RouteSubstantive, JudgePolicy, ExportPatch, RunReview,
         JudgeReview, ApplyReview, EnterFinal, RunFinal, JudgeFinal, CheckOriginal,
         Performing, JournaledSteps
<1> QED
  BY <1>3, <1>4, <1>5, <1>6, <1>7 DEF Next, Exited

LEMMA ContractInitial == Init => Contract!ContractInit
BY DEF Init, Contract!ContractInit

\* Every step of the run is a step of the contract or stutters under it.
LEMMA ContractStep ==
  ASSUME TypeInv, TypeInv', StateInv, StateInv', FinalInv', [Next]_vars
  PROVE  [Contract!ContractNext]_(Contract!contractVars)
<1>1. CASE state \in TERMINAL_STATES
  BY <1>1, OutcomeKept DEF Contract!contractVars
<1>2. CASE state \notin TERMINAL_STATES /\ state' \notin TERMINAL_STATES
  <2>1. status = "active" /\ status' = "active"
    BY <1>2 DEF StateInv, StatusFollowsState
  <2> QED
    BY <2>1 DEF Contract!ContractNext, Contract!Work, TypeInv, TypeOK
<1>3. CASE state \notin TERMINAL_STATES /\ state' \in TERMINAL_STATES
  <2>1. status = "active" /\ status' = state' /\ status' # "active"
    BY <1>3 DEF StateInv, StatusFollowsState, TERMINAL_STATES
  <2>2. exported' = exported
    BY <2>1, Deliveries
  <2>3. CASE state' = "ACCEPTED"
    <3>1. finalPassed' = finalPassed
      BY <2>3, Deliveries
    <3>2. \E c \in Snapshot : exported' = {c} /\ finalPassed' = {c}
      BY <2>3 DEF FinalInv, AcceptedHasEvidence
    <3> QED
      BY <2>1, <2>2, <2>3, <3>1, <3>2 DEF Contract!ContractNext, Contract!Accept
  <2>4. CASE state' # "ACCEPTED"
    BY <1>3, <2>1, <2>2, <2>4
       DEF Contract!ContractNext, Contract!Stop, TypeInv, TypeOK
  <2> QED
    BY <2>3, <2>4
<1> QED
  BY <1>1, <1>2, <1>3

\* Every run implements RunContract: one outcome, reached once and kept, and an
\* acceptance only of the content that was delivered and tested.
THEOREM RunKeepsContract == Spec => KeepsContract
<1>1. Spec => [](TypeInv /\ StateInv /\ FinalInv)
  BY TypeInit, TypeStep, StateInit, StateStep, FinalInit, FinalStep, PTL DEF Spec
<1>2. Init => Contract!ContractInit
  BY ContractInitial
<1>3. /\ TypeInv /\ StateInv /\ FinalInv
      /\ (TypeInv /\ StateInv /\ FinalInv)'
      /\ [Next]_vars
      => [Contract!ContractNext]_(Contract!contractVars)
  BY ContractStep
<1> QED
  BY <1>1, <1>2, <1>3, PTL DEF Spec, KeepsContract, Contract!ContractSpec

-----------------------------------------------------------------------------
(***************************************************************************)
(* No acceptance goes round a review                                       *)
(***************************************************************************)
\* The request asks for a review, whatever the policy says of the content.
Demanded ==
  req.reviewer /\ ~req.noReview /\ (req.reviewAlways \/ req.lane # "mechanical")

\* A reviewer accepted something, and nothing but this content if nothing
\* outside the run writes the worktree.
Approves(c) == approved # {} /\ ("touch" \notin Events => c \in approved)

ReviewSteps == {"run_review", "judge_review", "apply_review"}

\* The steps that may still find the word of the reviewer in hand.
FromReview ==
  ReviewSteps \cup EndSteps
    \cup {"enter_final", "run_final", "judge_final", "check_original",
          "final_policy_export", "final_export", "policy_blocked", "accept"}

\* What is reviewed is the candidate, what is approved is validated again, and
\* what is accepted is the candidate of that validation.
ReviewInv ==
  /\ pc \notin FromReview => outcome # "accept"
  /\ pc \in ReviewSteps /\ outcome = "accept" => Approves(tree)
  /\ pc \in ReviewSteps \cup {"review_launch", "enter_final"}
       => ("touch" \notin Events => candidate = tree)
  /\ pc \in {"run_final", "judge_final"}
       => ("touch" \notin Events => candidate = before)
  /\ pc \in {"enter_final", "run_final", "judge_final"} /\ (Demanded \/ reviewed)
       => Approves(candidate)
  /\ pc \in LastSteps /\ (Demanded \/ candidate.policy = "high_risk")
       => Approves(candidate)
  /\ AcceptedWasReviewed

\* The steps on which ReviewInv says more than that the reviewer is not heard.
WatchedSteps ==
  ReviewSteps \cup LastSteps
    \cup {"review_launch", "enter_final", "run_final", "judge_final"}

LEMMA ReviewElsewhere ==
  ASSUME pc' \notin WatchedSteps, pc' \in FromReview \/ outcome' # "accept",
         AcceptedWasReviewed'
  PROVE  ReviewInv'
BY DEF ReviewInv, WatchedSteps

\* The request stands, and what a reviewer accepted is not taken back.
LEMMA ApprovalsKept ==
  ASSUME [Next]_vars
  PROVE  req' = req /\ approved \subseteq approved'
<1>1. CASE \/ PlanOperation \/ StartOperation \/ CompleteOperation \/ Advance
           \/ AcquireLock \/ CaptureOriginal \/ BeginCreating \/ CreateWorktree
           \/ ValidatorPreflight \/ RunBaseline \/ JudgeBaseline
  BY <1>1
     DEF PlanOperation, StartOperation, CompleteOperation, Advance, AcquireLock,
         CaptureOriginal, BeginCreating, CreateWorktree, ValidatorPreflight,
         RunBaseline, JudgeBaseline, history
<1>2. CASE \/ NextAttempt \/ LaunchAttempt \/ RunCodex \/ ClassifyAttempt
           \/ RouteFailure \/ RunCandidate \/ JudgeCandidate \/ RouteSubstantive
  BY <1>2
     DEF NextAttempt, LaunchAttempt, RunCodex, ClassifyAttempt, RouteFailure,
         RunCandidate, RunValidation, JudgeCandidate, RouteSubstantive, evidence,
         history
<1>3. CASE \/ JudgePolicy \/ ExportPatch \/ RunReview \/ JudgeReview \/ ApplyReview
           \/ EnterFinal \/ RunFinal \/ JudgeFinal \/ CheckOriginal
  BY <1>3
     DEF JudgePolicy, ExportPatch, RunReview, JudgeReview, ApplyReview, EnterFinal,
         RunFinal, RunValidation, JudgeFinal, CheckOriginal, evidence, history
<1>4. CASE Report \/ Release \/ Raises \/ Environment \/ UNCHANGED vars
  BY <1>4
     DEF Report, Release, Raises, FailOperation, RaiseError, Environment,
         RequestCancel, EditOriginal, TouchWorktree, vars, history
<1> QED
  BY <1>1, <1>2, <1>3, <1>4 DEF Next, Controller, Exited

\* Only the last step accepts.
LEMMA OnlyAcceptAccepts ==
  ASSUME [Next]_vars, state # "ACCEPTED", TypeInv, StateInv, state' = "ACCEPTED"
  PROVE  pc = "accept" /\ Advance
<1> USE DEF Settle, Transition, Goto, durable
<1>1. ~(PlanOperation \/ StartOperation \/ CompleteOperation)
  BY DEF PlanOperation, StartOperation, CompleteOperation
<1>2. ~(\/ AcquireLock \/ CaptureOriginal \/ BeginCreating \/ CreateWorktree
        \/ ValidatorPreflight \/ RunBaseline \/ JudgeBaseline)
  BY DEF AcquireLock, CaptureOriginal, BeginCreating, CreateWorktree,
         ValidatorPreflight, RunBaseline, JudgeBaseline
<1>3. ~(\/ NextAttempt \/ LaunchAttempt \/ RunCodex \/ ClassifyAttempt
        \/ RunCandidate \/ JudgeCandidate)
  BY DEF NextAttempt, LaunchAttempt, RunCodex, ClassifyAttempt, RunCandidate,
         RunValidation, JudgeCandidate
<1>4. ~(RouteFailure \/ RouteSubstantive)
  BY DEF RouteFailure, RouteSubstantive, ApplyDecision
<1>5. ~(\/ JudgePolicy \/ ExportPatch \/ RunReview \/ JudgeReview \/ ApplyReview
        \/ EnterFinal \/ RunFinal \/ JudgeFinal \/ CheckOriginal)
  BY DEF JudgePolicy, ExportPatch, RunReview, JudgeReview, ApplyReview, EnterFinal,
         RunFinal, RunValidation, JudgeFinal, CheckOriginal
<1>6. ~(Report \/ Release \/ Raises \/ Environment \/ UNCHANGED vars)
  BY DEF Report, Release, Raises, FailOperation, RaiseError, Environment,
         RequestCancel, EditOriginal, TouchWorktree, vars
<1>7. Advance
  BY <1>1, <1>2, <1>3, <1>4, <1>5, <1>6, Zenon DEF Next, Controller, Exited
<1>8. pc = "accept"
  BY <1>7 DEF Advance, PlainSteps
<1> QED
  BY <1>7, <1>8

LEMMA AcceptedReviewedStep ==
  ASSUME TypeInv, StateInv, FinalInv, ReviewInv, [Next]_vars
  PROVE  AcceptedWasReviewed'
<1> SUFFICES ASSUME state' = "ACCEPTED" PROVE AcceptedWasReviewed'
  BY DEF AcceptedWasReviewed
<1>1. req' = req /\ approved \subseteq approved'
  BY ApprovalsKept
<1>2. CASE state = "ACCEPTED"
  <2>1. exported' = exported
    BY <1>2, OutcomeKept DEF TERMINAL_STATES
  <2>2. AcceptedWasReviewed
    BY DEF ReviewInv
  <2> QED
    BY <1>1, <1>2, <2>1, <2>2 DEF AcceptedWasReviewed
<1>3. CASE state # "ACCEPTED"
  <2>1. pc = "accept" /\ Advance
    BY <1>3, OnlyAcceptAccepts
  <2>2. exported' = exported /\ exported = {candidate}
    BY <2>1 DEF Advance, world, FinalInv
  <2>3. Demanded \/ candidate.policy = "high_risk" => Approves(candidate)
    BY <2>1 DEF ReviewInv, LastSteps
  <2> QED
    BY <1>1, <2>2, <2>3 DEF AcceptedWasReviewed, Approves, Demanded
<1> QED
  BY <1>2, <1>3

\* A failed process is classified, whatever it left behind.
LEMMA ProcessFailureTyped == ProcessFailure \in FailureClass
<1>1. ASSUME NEW S \in SUBSET (1..12), S # {}
      PROVE  \E i \in S : \A j \in S : i <= j
  <2> SUFFICES ASSUME \A i \in S : \E j \in S : j < i PROVE FALSE
    BY <1>1
  <2>1. \A i \in 1..3 : i \notin S
    OBVIOUS
  <2>2. \A i \in 1..6 : i \notin S
    BY <2>1
  <2>3. \A i \in 1..9 : i \notin S
    BY <2>2
  <2>4. \A i \in 1..12 : i \notin S
    BY <2>3
  <2> QED
    BY <1>1, <2>4
<1>2. DOMAIN Precedence = 1..12 /\ \A i \in 1..12 : Precedence[i][2] \in FailureClass
  BY DEF Precedence, FailureClass
<1>3. ASSUME NEW flagged PROVE Classify(flagged) \in FailureClass
  <2> DEFINE hits == {i \in DOMAIN Precedence : Precedence[i][1] \in flagged}
  <2>1. hits \subseteq 1..12
    BY <1>2
  <2> HIDE DEF hits
  <2>2. CASE hits = {}
    BY <2>2 DEF Classify, hits, FailureClass
  <2>3. CASE hits # {}
    <3>1. (CHOOSE i \in hits : \A j \in hits : i <= j) \in hits
      BY <1>1, <2>1, <2>3
    <3>2. Precedence[CHOOSE i \in hits : \A j \in hits : i <= j][2] \in FailureClass
      BY <1>2, <2>1, <3>1
    <3> QED
      BY <2>3, <3>2 DEF Classify, hits
  <2> QED
    BY <2>2, <2>3
<1> QED
  BY <1>3 DEF ProcessFailure

\* The journal, the transitions without a branch, the start and the loop.
LEMMA ReviewBefore ==
  ASSUME TypeInv, FinalInv, ReviewInv, AcceptedWasReviewed',
         \/ PlanOperation \/ StartOperation \/ CompleteOperation \/ Advance
         \/ AcquireLock \/ CaptureOriginal \/ BeginCreating \/ CreateWorktree
         \/ ValidatorPreflight \/ RunBaseline \/ JudgeBaseline
         \/ NextAttempt \/ LaunchAttempt \/ RunCodex \/ ClassifyAttempt
         \/ RouteFailure \/ RunCandidate \/ JudgeCandidate \/ RouteSubstantive
  PROVE  ReviewInv'
<1> USE ReviewElsewhere
    DEF ReviewSteps, FromReview, WatchedSteps, LastSteps, EndSteps
<1>1. CASE PlanOperation \/ StartOperation
  BY <1>1
     DEF PlanOperation, StartOperation, world, evidence, history, ReviewInv,
         Demanded, Approves
<1>2. CASE CompleteOperation
  BY <1>2
     DEF CompleteOperation, AfterOperation, JournaledSteps, world, evidence, history,
         ReviewInv, Demanded, Approves
<1>3. CASE Advance
  BY <1>3
     DEF Advance, Transition, PlainSteps, world, evidence, history, ReviewInv,
         Demanded, Approves
<1> USE DEF Settle, Transition, Goto, durable, Performing, evidence, STOP_CLASSES
<1>4. CASE AcquireLock \/ CaptureOriginal \/ BeginCreating \/ CreateWorktree
  BY <1>4
     DEF AcquireLock, CaptureOriginal, BeginCreating, CreateWorktree, ReviewInv
<1>5. CASE ValidatorPreflight \/ RunBaseline
  BY <1>5 DEF ValidatorPreflight, RunBaseline, ReviewInv
<1>10. CASE JudgeBaseline
  BY <1>10 DEF JudgeBaseline, ReviewInv
<1>6. CASE NextAttempt
  BY <1>6 DEF NextAttempt, ReviewInv
<1>11. CASE LaunchAttempt \/ RunCodex
  BY <1>11 DEF LaunchAttempt, RunCodex, ReviewInv
<1>7. CASE ClassifyAttempt
  BY <1>7, ProcessFailureTyped DEF ClassifyAttempt, FailureClass, ReviewInv
<1>8. CASE RunCandidate \/ JudgeCandidate
  BY <1>8 DEF RunCandidate, RunValidation, JudgeCandidate, ReviewInv
<1>9. CASE RouteFailure \/ RouteSubstantive
  <2>1. pc' \in {"report", "illegal", "next_attempt"}
    BY <1>9, DecisionApplied DEF RouteFailure, RouteSubstantive
  <2>2. outcome' = outcome /\ outcome # "accept"
    BY <1>9 DEF RouteFailure, RouteSubstantive, ReviewInv
  <2> QED
    BY <2>1, <2>2
<1> QED
  BY <1>1, <1>2, <1>3, <1>4, <1>5, <1>6, <1>7, <1>8, <1>9, <1>10, <1>11

\* Policy, review, final validation and what follows.
LEMMA ReviewVerdict ==
  ASSUME TypeInv, FinalInv, ReviewInv, AcceptedWasReviewed',
         JudgePolicy \/ ExportPatch \/ RunReview \/ JudgeReview \/ ApplyReview
           \/ EnterFinal \/ RunFinal \/ JudgeFinal \/ CheckOriginal
  PROVE  ReviewInv'
<1> USE ReviewElsewhere
    DEF ReviewSteps, FromReview, WatchedSteps, LastSteps, EndSteps, Settle,
        Transition, Goto, durable, Performing, evidence
<1>1. CASE JudgePolicy
  <2>1. /\ pc = "decide" /\ outcome # "accept" /\ candidate' = tree
        /\ UNCHANGED <<req, tree, outcome, before, approved>>
    BY <1>1 DEF JudgePolicy, ReviewInv, world, history
  <2>2. \/ pc' \in {"report", "illegal", "policy_export", "review_launch"}
        \/ /\ pc' = "enter_final" /\ outcome # "human" /\ ~reviewed'
           /\ ~ReviewRequired(tree.policy)
    BY <1>1 DEF JudgePolicy
  <2>3. ~ReviewRequired(tree.policy) => ~Demanded
    BY DEF ReviewRequired, Demanded
  <2> QED
    BY <2>1, <2>2, <2>3 DEF ReviewInv, Demanded
<1>2. CASE ExportPatch
  BY <1>2 DEF ExportPatch, history, ReviewInv, Demanded, Approves
<1>3. CASE RunReview
  BY <1>3 DEF RunReview, world, ReviewInv, Demanded, Approves
<1>4. CASE JudgeReview
  BY <1>4 DEF JudgeReview, world, history, ReviewInv, Demanded, Approves
<1>5. CASE ApplyReview
  <2>1. /\ pc = "apply_review"
        /\ UNCHANGED <<req, tree, outcome, candidate, reviewed, approved>>
        /\ \/ pc' \in {"report", "illegal"}
           \/ pc' = "next_attempt" /\ outcome = "repair"
           \/ pc' = "enter_final" /\ outcome = "accept"
    BY <1>5 DEF ApplyReview, world, history
  <2> QED
    BY <2>1 DEF ReviewInv, Approves
<1>6. CASE EnterFinal
  BY <1>6 DEF EnterFinal, world, history, ReviewInv, Demanded, Approves
<1>7. CASE RunFinal
  BY <1>7 DEF RunFinal, RunValidation, history, ReviewInv, Demanded, Approves
<1>8. CASE JudgeFinal
  <2>1. CASE pc' \notin WatchedSteps
    BY <1>8, <2>1 DEF JudgeFinal
  <2>2. CASE pc' \in WatchedSteps
    <3>1. /\ pc = "judge_final" /\ pc' = "check_original"
          /\ candidate' = tree /\ tree = before /\ ~UnreviewedHighRisk
          /\ UNCHANGED <<req, tree, outcome, approved, reviewed>>
      BY <1>8, <2>2 DEF JudgeFinal, FinalVerdictHolds, world
    <3>2. Demanded \/ tree.policy = "high_risk" => Demanded \/ reviewed
      BY <3>1 DEF UnreviewedHighRisk
    <3>3. Demanded \/ tree.policy = "high_risk" => Approves(tree)
      BY <3>1, <3>2 DEF ReviewInv, Approves
    <3> QED
      BY <3>1, <3>3 DEF ReviewInv, Demanded, Approves
  <2> QED
    BY <2>1, <2>2
<1>9. CASE CheckOriginal
  BY <1>9 DEF CheckOriginal, world, history, ReviewInv, Demanded, Approves
<1> QED
  BY <1>1, <1>2, <1>3, <1>4, <1>5, <1>6, <1>7, <1>8, <1>9

\* Exceptions, outside events and the end of a run.
LEMMA ReviewOther ==
  ASSUME TypeInv, ReviewInv, AcceptedWasReviewed',
         Report \/ Release \/ Raises \/ Environment \/ UNCHANGED vars
  PROVE  ReviewInv'
<1> USE ReviewElsewhere
    DEF ReviewSteps, FromReview, WatchedSteps, LastSteps, EndSteps
<1>1. CASE Report \/ Release \/ Raises
  BY <1>1 DEF Report, Release, Raises, FailOperation, RaiseError
<1>2. CASE RequestCancel \/ EditOriginal
  BY <1>2
     DEF RequestCancel, EditOriginal, evidence, history, ReviewInv, Demanded, Approves
<1>3. CASE TouchWorktree
  BY <1>3
     DEF TouchWorktree, evidence, history, ReviewInv, Demanded, Approves
<1>4. CASE UNCHANGED vars
  BY <1>4 DEF vars, world, evidence, history, ReviewInv, Demanded, Approves
<1> QED
  BY <1>1, <1>2, <1>3, <1>4 DEF Environment

LEMMA ReviewStep ==
  TypeInv /\ StateInv /\ FinalInv /\ ReviewInv /\ [Next]_vars => ReviewInv'
BY AcceptedReviewedStep, ReviewBefore, ReviewVerdict, ReviewOther
   DEF Next, Controller, Exited

\* For every request, every candidate and every interleaving: an acceptance that
\* the request or a high-risk path subjects to a review was reviewed, and if
\* nothing outside the run writes the worktree, the content the reviewer
\* accepted is the content delivered.
THEOREM RunAcceptedWasReviewed == Spec => []AcceptedWasReviewed
<1>1. Init => ReviewInv
  BY DEF Init, ReviewInv, AcceptedWasReviewed, FromReview, ReviewSteps, LastSteps
<1>2. ReviewInv => AcceptedWasReviewed
  BY DEF ReviewInv
<1> QED
  BY <1>1, <1>2, TypeInit, TypeStep, StateInit, StateStep, FinalInit, FinalStep,
     ReviewStep, PTL DEF Spec
=================================================================================
