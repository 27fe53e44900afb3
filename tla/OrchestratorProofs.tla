--------------------------- MODULE OrchestratorProofs ---------------------------
(***************************************************************************)
(* Proofs about one controller run, for every set of requests, every loop  *)
(* limit, every evidence and every combination of outside events.          *)
(***************************************************************************)
EXTENDS Orchestrator, SequenceTheorems, FiniteSetTheorems, TLAPS

-----------------------------------------------------------------------------
(***************************************************************************)
(* The table of transitions                                                *)
(***************************************************************************)
\* The transitions the controller takes, by the state they leave.
LEMMA EdgesBeforeTheLoop ==
  /\ \A t \in {"PREFLIGHT", "BLOCKED"} : CanTransition("CREATED", t)
  /\ CanTransition("PREFLIGHT", "SOURCE_SNAPSHOTTED")
  /\ \A t \in {"WORKTREE_CREATING", "BLOCKED"} :
       CanTransition("SOURCE_SNAPSHOTTED", t)
  /\ CanTransition("WORKTREE_CREATING", "WORKTREE_READY")
  /\ \A t \in {"BASELINE_RUNNING", "BLOCKED"} :
       CanTransition("WORKTREE_READY", t)
  /\ \A t \in {"BASELINE_COMPLETE", "BLOCKED", "NEEDS_HUMAN_REVIEW", "CANCELLED"} :
       CanTransition("BASELINE_RUNNING", t)
BY DEF CanTransition, LEGAL_TRANSITIONS, RunState, TERMINAL_STATES

LEMMA EdgesOfAnAttempt ==
  /\ \A t \in {"ATTEMPT_PREPARING", "CANCELLED"} :
       CanTransition("BASELINE_COMPLETE", t)
  /\ CanTransition("ATTEMPT_PREPARING", "ATTEMPT_RUNNING")
  /\ CanTransition("ATTEMPT_RUNNING", "ATTEMPT_COMPLETE")
  /\ \A t \in {"VALIDATION_RUNNING", "ROUTING", "CANCELLED"} :
       CanTransition("ATTEMPT_COMPLETE", t)
  /\ \A t \in {"VALIDATION_COMPLETE", "CANCELLED"} :
       CanTransition("VALIDATION_RUNNING", t)
  /\ CanTransition("VALIDATION_COMPLETE", "ROUTING")
BY DEF CanTransition, LEGAL_TRANSITIONS, RunState, TERMINAL_STATES

LEMMA EdgesOfADecision ==
  /\ \A t \in {"ATTEMPT_PREPARING", "REVIEW_PREPARING", "FINAL_VALIDATION",
               "BLOCKED", "NEEDS_HUMAN_REVIEW", "CANCELLED"} :
       CanTransition("ROUTING", t)
  /\ CanTransition("REVIEW_PREPARING", "REVIEW_RUNNING")
  /\ \A t \in {"REVIEW_COMPLETE", "CANCELLED"} :
       CanTransition("REVIEW_RUNNING", t)
  /\ \A t \in {"ATTEMPT_PREPARING", "FINAL_VALIDATION", "NEEDS_HUMAN_REVIEW",
               "CANCELLED"} :
       CanTransition("REVIEW_COMPLETE", t)
  /\ \A t \in {"ACCEPTED", "NEEDS_HUMAN_REVIEW", "BLOCKED", "CANCELLED",
               "FAILED"} :
       CanTransition("FINAL_VALIDATION", t)
BY DEF CanTransition, LEGAL_TRANSITIONS, RunState, TERMINAL_STATES

\* Nothing leaves a terminal state.
LEMMA TerminalStatesAbsorb ==
  \A s \in TERMINAL_STATES, t \in RunState : ~CanTransition(s, t)
BY DEF CanTransition, LEGAL_TRANSITIONS, RunState, TERMINAL_STATES

-----------------------------------------------------------------------------
(***************************************************************************)
(* Types                                                                   *)
(***************************************************************************)
\* Besides the types: a decision that needs a selection has one, and only a
\* terminal run is reported.
TypeInv ==
  /\ TypeOK
  /\ arrived \in [{"cancel", "edit"} -> Arrival]
  /\ pc \in RunSteps \cup EndSteps
  /\ pc = "route_failure" => outcome # "success"
  /\ pc = "report" => state \in TERMINAL_STATES

\* A lane starts with a configured selection.
LEMMA InitialSelectionTyped ==
  ASSUME NEW lane \in Lane
  PROVE  InitialSelection(lane) \in Selection
BY DEF InitialSelection, Lane, Selection, Role

\* The router stops the run or names a configured selection; only a success,
\* which the controller never asks it about, does neither.
LEMMA DecisionTyped ==
  ASSUME NEW s, s.failure # "success", s.current \in Selection
  PROVE  \/ NextDecision(s).kind \in {"block", "human_review"}
         \/ NextDecision(s).selection \in Selection
<1> DEFINE Good(d) == d.kind \in {"block", "human_review"} \/ d.selection \in Selection
<1>1. \A r \in Role : Model[r] \in Selection
  BY DEF Selection
<1>2. Good(Rescue) /\ Good(Decision("repair", s.current))
  BY <1>1 DEF Rescue, Decision, Role
<1>3. Good(RepairOr(s, Rescue))
  BY <1>2 DEF RepairOr
<1>4. Good(LunaNext(s))
  BY <1>1, <1>2, <1>3 DEF LunaNext, Decision, Role
<1>5. Good(Decision("escalate", DeepSelection(s.deepMode)))
  BY <1>1 DEF Decision, DeepSelection, Role
<1>6. Good(RepairOr(s, Decision("escalate", DeepSelection(s.deepMode))))
  BY <1>2, <1>5 DEF RepairOr
<1>7. Good(Ladder(s))
  BY <1>2, <1>3, <1>4, <1>6 DEF Ladder, Decision
<1>8. Good(NextDecision(s))
  BY <1>7 DEF NextDecision, Decision
<1> QED
  BY <1>8

\* Init has the types.
LEMMA TypeInit == Init => TypeInv
<1> SUFFICES ASSUME Init PROVE TypeInv
  OBVIOUS
<1> USE OrchestratorAssumption
<1>1. req.lane \in Lane
  BY DEF Init, Request
<1>2. selection \in Selection
  BY <1>1, InitialSelectionTyped DEF Init
<1>3. Base \in Snapshot
  BY DEF Base, Snapshot, PolicyVerdict
<1>4. journal \in [Operations -> OperationStatus]
  BY DEF Init, OperationStatus
<1>5. state \in RunState /\ status \in {"active"} \cup TERMINAL_STATES
  BY DEF Init, RunState
<1>6. arrived \in [{"cancel", "edit"} -> Arrival]
  BY DEF Init, Arrival
<1>7. pc \in RunSteps \cup EndSteps /\ pc \notin {"route_failure", "report"}
  BY DEF Init, RunSteps, BranchSteps
<1>8. route \in Seq(Selection) /\ repairs \in [Selection -> Nat]
  BY DEF Init
<1>9. /\ tree \in Snapshot /\ before \in Snapshot /\ candidate \in Snapshot
      /\ exported \subseteq Snapshot /\ finalPassed \subseteq Snapshot
      /\ approved \subseteq Snapshot /\ ordinal \in 0..MaxAttempts
  BY <1>3 DEF Init
<1>10. /\ req \in Requests
       /\ ownership \in {"absent", "unowned", "owned"}
       /\ transientRetries \in Nat /\ reviewerRepairs \in 0..1
       /\ seen \subseteq Evidence /\ previous \subseteq Evidence
       /\ failing \subseteq Evidence
  BY DEF Init
<1>11. locked \in BOOLEAN /\ performed \in BOOLEAN /\ reviewed \in BOOLEAN
  BY DEF Init
<1> QED
  BY <1>2, <1>4, <1>5, <1>6, <1>7, <1>8, <1>9, <1>10, <1>11 DEF TypeInv, TypeOK

\* A transition, taken or refused, keeps the types of what is durable.
LEMMA TransitionTyped ==
  ASSUME TypeInv, NEW target \in RunState, NEW next \in RunSteps \cup EndSteps,
         next = "report" => target \in TERMINAL_STATES, Transition(target, next)
  PROVE  /\ state' \in RunState /\ status' \in {"active"} \cup TERMINAL_STATES
         /\ UNCHANGED <<journal, locked>>
         /\ pc' \in {next, "illegal"} /\ pc' \in RunSteps \cup EndSteps
         /\ pc' = "report" => state' \in TERMINAL_STATES
BY DEF TypeInv, TypeOK, Transition, StatusAfter, durable, EndSteps

\* The steps of a run that record a transition or branch without one.
LEMMA TypePlain ==
  TypeInv /\ (PlanOperation \/ StartOperation \/ CompleteOperation \/ Advance)
    => TypeInv'
<1> SUFFICES ASSUME TypeInv,
                    PlanOperation \/ StartOperation \/ CompleteOperation \/ Advance
             PROVE  TypeInv'
  OBVIOUS
<1> USE DEF TypeInv, TypeOK, world, budgets, evidence, history
<1>1. CASE PlanOperation
  BY <1>1 DEF PlanOperation, OperationStatus
<1>2. CASE StartOperation
  BY <1>2 DEF StartOperation, OperationStatus
<1>3. CASE CompleteOperation
  <2>1. \A s \in JournaledSteps :
          /\ AfterOperation[s] \in RunSteps
          /\ AfterOperation[s] \notin {"route_failure", "report"}
    BY DEF AfterOperation, JournaledSteps, RunSteps, PlainSteps, BranchSteps
  <2> QED
    BY <1>3, <2>1 DEF CompleteOperation, OperationStatus
<1>4. CASE Advance
  <2>1. PlainSteps[pc][1] \in RunState
    BY <1>4 DEF Advance, PlainSteps, RunState, TERMINAL_STATES
  <2>2. /\ PlainSteps[pc][2] \in RunSteps \cup EndSteps
        /\ PlainSteps[pc][2] # "route_failure"
        /\ PlainSteps[pc][2] = "report" => PlainSteps[pc][1] \in TERMINAL_STATES
    BY <1>4
       DEF Advance, PlainSteps, RunSteps, JournaledSteps, BranchSteps, EndSteps,
           TERMINAL_STATES
  <2> QED
    BY <1>4, <2>1, <2>2, TransitionTyped DEF Advance
<1> QED
  BY <1>1, <1>2, <1>3, <1>4

\* The start of a run, up to the verdict on the baseline.
LEMMA TypeStart ==
  TypeInv /\ (AcquireLock \/ CaptureOriginal \/ BeginCreating \/ CreateWorktree
             \/ ValidatorPreflight \/ RunBaseline \/ JudgeBaseline)
    => TypeInv'
<1> SUFFICES ASSUME TypeInv,
                    AcquireLock \/ CaptureOriginal \/ BeginCreating \/ CreateWorktree
                      \/ ValidatorPreflight \/ RunBaseline \/ JudgeBaseline
             PROVE  TypeInv'
  OBVIOUS
<1> USE DEF TypeInv, TypeOK, world, budgets, evidence, history
<1>1. CASE AcquireLock
  <2>1. CASE Settle("BLOCKED")
    BY <1>1, <2>1, TransitionTyped
       DEF AcquireLock, Settle, RunState, TERMINAL_STATES, EndSteps
  <2>2. CASE locked' = TRUE /\ pc' = "preflight" /\ UNCHANGED <<state, status, journal>>
    BY <1>1, <2>2 DEF AcquireLock, RunSteps, PlainSteps
  <2> QED
    BY <1>1, <2>1, <2>2 DEF AcquireLock
<1>2. CASE CaptureOriginal
  BY <1>2 DEF CaptureOriginal, Performing, durable, Arrival, RunSteps, JournaledSteps
<1>3. CASE BeginCreating
  BY <1>3, TransitionTyped
     DEF BeginCreating, Settle, RunState, TERMINAL_STATES, EndSteps, RunSteps,
         JournaledSteps
<1>4. CASE CreateWorktree
  BY <1>4 DEF CreateWorktree, Performing, durable
<1>5. CASE ValidatorPreflight
  BY <1>5, TransitionTyped
     DEF ValidatorPreflight, Settle, RunState, TERMINAL_STATES, EndSteps,
         RunSteps, JournaledSteps
<1>6. CASE RunBaseline
  BY <1>6 DEF RunBaseline, WorktreeMayChange, Performing, durable
<1>7. CASE JudgeBaseline
  BY <1>7, TransitionTyped
     DEF JudgeBaseline, Settle, RunState, TERMINAL_STATES, EndSteps, RunSteps,
         BranchSteps
<1> QED
  BY <1>1, <1>2, <1>3, <1>4, <1>5, <1>6, <1>7

\* The attempt loop.
LEMMA TypeLoop ==
  TypeInv /\ (NextAttempt \/ LaunchAttempt \/ RunCodex \/ ClassifyAttempt
             \/ RouteFailure \/ RunCandidate \/ JudgeCandidate \/ RouteSubstantive)
    => TypeInv'
<1> SUFFICES ASSUME TypeInv,
                    NextAttempt \/ LaunchAttempt \/ RunCodex \/ ClassifyAttempt
                      \/ RouteFailure \/ RunCandidate \/ JudgeCandidate
                      \/ RouteSubstantive
             PROVE  TypeInv'
  OBVIOUS
<1> USE OrchestratorAssumption DEF TypeInv, TypeOK, world, budgets, evidence, history
<1>1. CASE NextAttempt
  <2>1. ordinal' = ordinal \/ (ordinal < MaxAttempts /\ ordinal' = ordinal + 1)
    BY <1>1, Zenon DEF NextAttempt
  <2>4. ordinal' \in 0..MaxAttempts
    BY <2>1
  <2>2. route' = route \/ route' = Append(route, selection)
    BY <1>1, Zenon DEF NextAttempt
  <2>3. Append(route, selection) \in Seq(Selection)
    BY AppendProperties, Zenon
  <2>5. route' \in Seq(Selection)
    BY <2>2, <2>3, Zenon
  <2> QED
    BY <1>1, <2>4, <2>5, TransitionTyped
       DEF NextAttempt, Settle, RunState, TERMINAL_STATES, EndSteps, RunSteps,
           BranchSteps
<1>2. CASE LaunchAttempt
  BY <1>2, TransitionTyped
     DEF LaunchAttempt, RunState, RunSteps, JournaledSteps
<1>3. CASE RunCodex
  BY <1>3 DEF RunCodex, WorktreeMayChange, Performing, durable
<1>4. CASE ClassifyAttempt
  <2>1. outcome' # "success" \/ pc' # "route_failure"
    BY <1>4 DEF ClassifyAttempt, Settle, Transition
  <2> QED
    BY <1>4, <2>1, TransitionTyped
       DEF ClassifyAttempt, Settle, RunState, TERMINAL_STATES, EndSteps, RunSteps,
           JournaledSteps, BranchSteps
<1>5. ASSUME NEW d, ApplyDecision(d),
             d.kind \in {"block", "human_review"} \/ d.selection \in Selection
      PROVE  /\ state' \in RunState /\ status' \in {"active"} \cup TERMINAL_STATES
             /\ UNCHANGED <<journal, locked>>
             /\ pc' \in RunSteps \cup EndSteps /\ pc' # "route_failure"
             /\ pc' = "report" => state' \in TERMINAL_STATES
             /\ selection' \in Selection
  BY <1>5, TransitionTyped
     DEF ApplyDecision, Settle, Goto, durable, RunState, TERMINAL_STATES, EndSteps,
         RunSteps, BranchSteps
<1>6. CASE RouteFailure
  <2> DEFINE r == RoutingState(outcome, FALSE, FALSE, 0)
  <2>1. r.failure # "success" /\ r.current \in Selection
    BY <1>6 DEF RouteFailure, RoutingState
  <2>2. NextDecision(r).kind \in {"block", "human_review"}
          \/ NextDecision(r).selection \in Selection
    BY <2>1, DecisionTyped
  <2>3. ApplyDecision(NextDecision(r))
    BY <1>6 DEF RouteFailure
  <2> HIDE DEF r
  <2>4. transientRetries' \in Nat
    BY <1>6 DEF RouteFailure
  <2> QED
    BY <1>5, <1>6, <2>2, <2>3, <2>4 DEF RouteFailure
<1>7. CASE RunCandidate
  BY <1>7 DEF RunCandidate, RunValidation, WorktreeMayChange, Performing, durable
<1>8. CASE JudgeCandidate
  BY <1>8, TransitionTyped
     DEF JudgeCandidate, Settle, RunState, TERMINAL_STATES, EndSteps, RunSteps,
         PlainSteps
<1>9. CASE RouteSubstantive
  <2>1. PICK e \in failing :
          /\ seen' = seen \cup {e}
          /\ previous' = {e}
          /\ ApplyDecision(SubstantiveDecision(e))
          /\ repairs' = IF SubstantiveDecision(e).kind = "repair"
                        THEN [repairs EXCEPT ![selection] = @ + 1] ELSE repairs
    BY <1>9 DEF RouteSubstantive
  <2> DEFINE r == RoutingState("substantive", Progress(e), e \in seen,
                               repairs[selection])
  <2>2. r.failure # "success" /\ r.current \in Selection
    BY DEF RoutingState
  <2>3. SubstantiveDecision(e).kind \in {"block", "human_review"}
          \/ SubstantiveDecision(e).selection \in Selection
    BY <2>2, DecisionTyped DEF SubstantiveDecision
  <2>4. repairs' \in [Selection -> Nat]
    BY <2>1
  <2>5. seen' \subseteq Evidence /\ previous' \subseteq Evidence
    BY <2>1
  <2> QED
    BY <1>5, <1>9, <2>1, <2>3, <2>4, <2>5 DEF RouteSubstantive
<1> QED
  BY <1>1, <1>2, <1>3, <1>4, <1>6, <1>7, <1>8, <1>9

\* Policy, review, final validation and what follows.
LEMMA TypeEnd ==
  TypeInv /\ (JudgePolicy \/ ExportPatch \/ RunReview \/ JudgeReview \/ ApplyReview
             \/ EnterFinal \/ RunFinal \/ JudgeFinal \/ CheckOriginal)
    => TypeInv'
<1> SUFFICES ASSUME TypeInv,
                    JudgePolicy \/ ExportPatch \/ RunReview \/ JudgeReview
                      \/ ApplyReview \/ EnterFinal \/ RunFinal \/ JudgeFinal
                      \/ CheckOriginal
             PROVE  TypeInv'
  OBVIOUS
<1> USE DEF TypeInv, TypeOK, world, budgets, evidence, history
<1>1. CASE JudgePolicy
  <2>1. reviewed' \in BOOLEAN
    BY <1>1 DEF JudgePolicy
  <2>2. /\ state' \in RunState /\ status' \in {"active"} \cup TERMINAL_STATES
        /\ UNCHANGED <<journal, locked>>
        /\ pc' \in RunSteps \cup EndSteps /\ pc' # "route_failure"
        /\ pc' = "report" => state' \in TERMINAL_STATES
    BY <1>1, TransitionTyped
       DEF JudgePolicy, Settle, Goto, durable, RunState, TERMINAL_STATES, EndSteps,
           RunSteps, JournaledSteps, PlainSteps, BranchSteps
  <2> QED
    BY <1>1, <2>1, <2>2 DEF JudgePolicy
<1>2. CASE ExportPatch
  BY <1>2 DEF ExportPatch, Performing, durable
<1>3. CASE RunReview
  <2>1. approved' \subseteq Snapshot
    BY <1>3 DEF RunReview
  <2> QED
    BY <1>3, <2>1 DEF RunReview, Performing, durable
<1>4. CASE JudgeReview
  BY <1>4, TransitionTyped
     DEF JudgeReview, Settle, RunState, TERMINAL_STATES, EndSteps, RunSteps,
         BranchSteps
<1>5. CASE ApplyReview
  <2>1. reviewerRepairs' \in 0..1
    BY <1>5 DEF ApplyReview, ReviewRepairAllowed
  <2> QED
    BY <1>5, <2>1, TransitionTyped
       DEF ApplyReview, Settle, Goto, durable, RunState, TERMINAL_STATES, EndSteps,
           RunSteps, BranchSteps
<1>6. CASE EnterFinal
  BY <1>6, TransitionTyped DEF EnterFinal, RunState, RunSteps, JournaledSteps
<1>7. CASE RunFinal
  BY <1>7 DEF RunFinal, RunValidation, WorktreeMayChange, Performing, durable
<1>8. CASE JudgeFinal
  <2>1. candidate' \in Snapshot /\ finalPassed' \subseteq Snapshot
    BY <1>8 DEF JudgeFinal
  <2>2. /\ state' \in RunState /\ status' \in {"active"} \cup TERMINAL_STATES
        /\ UNCHANGED <<journal, locked>>
        /\ pc' \in RunSteps \cup EndSteps /\ pc' # "route_failure"
        /\ pc' = "report" => state' \in TERMINAL_STATES
    BY <1>8, TransitionTyped
       DEF JudgeFinal, Settle, Goto, durable, RunState, TERMINAL_STATES, EndSteps,
           RunSteps, JournaledSteps, BranchSteps
  <2> QED
    BY <1>8, <2>1, <2>2 DEF JudgeFinal
<1>9. CASE CheckOriginal
  BY <1>9, TransitionTyped
     DEF CheckOriginal, Settle, Goto, durable, RunState, TERMINAL_STATES, EndSteps,
         RunSteps, JournaledSteps
<1> QED
  BY <1>1, <1>2, <1>3, <1>4, <1>5, <1>6, <1>7, <1>8, <1>9

\* What a controller that starts from nothing has in memory.
LEMMA ForgetTyped ==
  ASSUME req \in Requests, Forget
  PROVE  /\ performed' \in BOOLEAN /\ reviewed' \in BOOLEAN
         /\ ordinal' \in 0..MaxAttempts
         /\ selection' \in Selection /\ route' \in Seq(Selection)
         /\ repairs' \in [Selection -> Nat]
         /\ transientRetries' \in Nat /\ reviewerRepairs' \in 0..1
         /\ seen' \subseteq Evidence /\ previous' \subseteq Evidence
         /\ failing' \subseteq Evidence
         /\ before' \in Snapshot /\ candidate' \in Snapshot
<1> USE OrchestratorAssumption
<1>1. Base \in Snapshot
  BY DEF Base, Snapshot, PolicyVerdict
<1>2. InitialSelection(req.lane) \in Selection
  BY InitialSelectionTyped DEF Request
<1>3. performed' \in BOOLEAN /\ reviewed' \in BOOLEAN
  BY DEF Forget
<1>4. selection' \in Selection /\ route' \in Seq(Selection)
  BY <1>2 DEF Forget
<1>5. repairs' \in [Selection -> Nat]
  BY DEF Forget
<1>6. /\ ordinal' \in 0..MaxAttempts
      /\ transientRetries' \in Nat /\ reviewerRepairs' \in 0..1
  BY DEF Forget
<1>7. /\ seen' \subseteq Evidence /\ previous' \subseteq Evidence
      /\ failing' \subseteq Evidence
      /\ before' \in Snapshot /\ candidate' \in Snapshot
  BY <1>1 DEF Forget
<1> QED
  BY <1>3, <1>4, <1>5, <1>6, <1>7

\* Exceptions, outside events and the end of a run.
LEMMA TypeOther ==
  TypeInv /\ (Report \/ Release \/ Raises \/ Environment \/ UNCHANGED vars) => TypeInv'
<1> SUFFICES ASSUME TypeInv,
                    Report \/ Release \/ Raises \/ Environment \/ UNCHANGED vars
             PROVE  TypeInv'
  OBVIOUS
<1> USE DEF TypeInv, TypeOK, durable, world, budgets, evidence, history
<1>1. CASE Report
  BY <1>1, ForgetTyped DEF Report, EndSteps
<1>2. CASE Release
  BY <1>2 DEF Release, EndSteps
<1>3. CASE Raises
  BY <1>3, ForgetTyped DEF Raises, FailOperation, RaiseError, OperationStatus, EndSteps
<1>4. CASE Environment
  BY <1>4 DEF Environment, RequestCancel, EditOriginal, TouchWorktree, Arrival
<1>5. CASE UNCHANGED vars
  BY <1>5 DEF vars
<1> QED
  BY <1>1, <1>2, <1>3, <1>4, <1>5

\* Every step keeps the types.
LEMMA TypeStep == TypeInv /\ [Next]_vars => TypeInv'
BY TypePlain, TypeStart, TypeLoop, TypeEnd, TypeOther
   DEF Next, Controller, Exited

\* Every reachable state of a run is well typed; in particular the router never
\* leaves the controller without a configured selection to go on with.
THEOREM RunTypeCorrect == Spec => []TypeOK
<1>1. TypeInv => TypeOK
  BY DEF TypeInv
<1> QED
  BY <1>1, TypeInit, TypeStep, PTL DEF Spec

-----------------------------------------------------------------------------
(***************************************************************************)
(* Where the controller stands and what the row says                       *)
(***************************************************************************)
\* The steps that come before the loop.
StartSteps ==
  {"acquire_lock", "preflight", "capture_original", "source_snapshotted",
   "creating", "create_worktree", "worktree_ready", "validator_preflight",
   "run_baseline", "judge_baseline"}

\* The steps of the loop, which only a started attempt reaches.
LoopSteps ==
  {"launch", "run_codex", "record_attempt", "classify", "route_failure",
   "run_candidate", "judge_candidate", "to_routing", "decide", "policy_export",
   "review_launch", "run_review", "judge_review", "apply_review", "enter_final"}

\* The durable state at each step of the start and of an attempt.
StateInAttempt ==
  /\ pc \in {"acquire_lock", "preflight"} => state = "CREATED"
  /\ pc \in {"capture_original", "source_snapshotted"} => state = "PREFLIGHT"
  /\ pc = "creating" => state = "SOURCE_SNAPSHOTTED"
  /\ pc \in {"create_worktree", "worktree_ready"} => state = "WORKTREE_CREATING"
  /\ pc = "validator_preflight" => state = "WORKTREE_READY"
  /\ pc \in {"run_baseline", "judge_baseline"} => state = "BASELINE_RUNNING"
  /\ pc = "next_attempt" =>
       \/ state = "BASELINE_COMPLETE"
       \/ state \in {"ROUTING", "REVIEW_COMPLETE"} /\ ordinal # 0
  /\ pc = "launch" => state = "ATTEMPT_PREPARING"
  /\ pc \in {"run_codex", "record_attempt"} => state = "ATTEMPT_RUNNING"
  /\ pc = "classify" => state = "ATTEMPT_COMPLETE"

\* The durable state from the validation of a candidate to the outcome.
StateInDecision ==
  /\ pc \in {"run_candidate", "judge_candidate"} => state = "VALIDATION_RUNNING"
  /\ pc = "to_routing" => state = "VALIDATION_COMPLETE"
  /\ pc \in {"route_failure", "decide", "policy_export"} => state = "ROUTING"
  /\ pc = "policy_blocked" => state \in {"ROUTING", "FINAL_VALIDATION"}
  /\ pc = "review_launch" => state = "REVIEW_PREPARING"
  /\ pc \in {"run_review", "judge_review"} => state = "REVIEW_RUNNING"
  /\ pc = "apply_review" => state = "REVIEW_COMPLETE"
  /\ pc = "enter_final" => state \in {"ROUTING", "REVIEW_COMPLETE"}
  /\ pc \in {"run_final", "judge_final", "final_policy_export",
             "check_original", "final_export", "accept"} =>
       state = "FINAL_VALIDATION"
  /\ pc \in {"report", "release"} => state \in TERMINAL_STATES

StateInv ==
  /\ StateInAttempt
  /\ StateInDecision
  /\ pc \in LoopSteps => ordinal # 0
  /\ pc \in StartSteps => ordinal = 0
  /\ pc = "next_attempt" /\ state = "BASELINE_COMPLETE" => ordinal = 0
  /\ NoIllegalTransition
  /\ StatusFollowsState

\* A run is created before any step.
LEMMA StateInit == Init => StateInv
BY DEF Init, StateInv, StateInAttempt, StateInDecision, StartSteps, LoopSteps,
       NoIllegalTransition, StatusFollowsState, TERMINAL_STATES

\* A transition the table lists moves the row, and its status with it.
LEMMA LegalMove ==
  ASSUME TypeInv, StatusFollowsState, NEW target \in RunState, NEW next,
         CanTransition(state, target), Transition(target, next)
  PROVE  /\ state' = target /\ pc' = next /\ StatusFollowsState'
         /\ UNCHANGED <<journal, locked>>
<1>1. state' = target /\ pc' = next /\ status' = StatusAfter(target)
      /\ UNCHANGED <<journal, locked>>
  BY DEF Transition
<1>2. status = "active"
  BY TerminalStatesAbsorb DEF TypeInv, TypeOK, StatusFollowsState
<1> QED
  BY <1>1, <1>2 DEF StatusAfter, StatusFollowsState

\* The journal, and the steps that only record a transition.
LEMMA StatePlain ==
  TypeInv /\ StateInv
    /\ (PlanOperation \/ StartOperation \/ CompleteOperation \/ Advance)
    => StateInv'
<1> SUFFICES ASSUME TypeInv, StateInv,
                    PlanOperation \/ StartOperation \/ CompleteOperation \/ Advance
             PROVE  StateInv'
  OBVIOUS
<1> USE DEF StateInv, StateInAttempt, StateInDecision, StartSteps, LoopSteps,
            NoIllegalTransition
<1>1. CASE PlanOperation
  BY <1>1 DEF PlanOperation, StatusFollowsState
<1>2. CASE StartOperation
  BY <1>2 DEF StartOperation, StatusFollowsState
<1>3. CASE CompleteOperation
  BY <1>3 DEF CompleteOperation, StatusFollowsState, AfterOperation, JournaledSteps
<1>4. CASE Advance
  <2>1. /\ PlainSteps[pc][1] \in RunState
        /\ CanTransition(state, PlainSteps[pc][1])
    BY <1>4, EdgesBeforeTheLoop, EdgesOfAnAttempt, EdgesOfADecision
       DEF Advance, PlainSteps, RunState, TERMINAL_STATES
  <2>2. /\ state' = PlainSteps[pc][1] /\ pc' = PlainSteps[pc][2]
        /\ StatusFollowsState' /\ ordinal' = ordinal
    BY <1>4, <2>1, LegalMove DEF Advance
  <2> QED
    BY <1>4, <2>2 DEF Advance, PlainSteps, TERMINAL_STATES
<1> QED
  BY <1>1, <1>2, <1>3, <1>4

\* The start of a run.
LEMMA StateStart ==
  TypeInv /\ StateInv
    /\ (AcquireLock \/ CaptureOriginal \/ BeginCreating \/ CreateWorktree
        \/ ValidatorPreflight \/ RunBaseline \/ JudgeBaseline)
    => StateInv'
<1> SUFFICES ASSUME TypeInv, StateInv,
                    AcquireLock \/ CaptureOriginal \/ BeginCreating \/ CreateWorktree
                      \/ ValidatorPreflight \/ RunBaseline \/ JudgeBaseline
             PROVE  StateInv'
  OBVIOUS
<1> USE EdgesBeforeTheLoop
    DEF StateInv, StateInAttempt, StateInDecision, StartSteps, LoopSteps, NoIllegalTransition
<1>1. ASSUME NEW target \in RunState, CanTransition(state, target), Settle(target),
             target \in TERMINAL_STATES, ordinal' = ordinal
      PROVE  StateInv'
  BY <1>1, LegalMove DEF Settle
<1>2. CASE AcquireLock
  <2>1. CASE Settle("BLOCKED")
    BY <1>1, <1>2, <2>1 DEF AcquireLock, RunState, TERMINAL_STATES
  <2>2. CASE pc' = "preflight" /\ UNCHANGED <<state, status, journal>>
    BY <1>2, <2>2 DEF AcquireLock, StatusFollowsState
  <2> QED
    BY <1>2, <2>1, <2>2 DEF AcquireLock
<1>3. CASE CaptureOriginal
  BY <1>3 DEF CaptureOriginal, Performing, durable, StatusFollowsState
<1>4. CASE BeginCreating
  <2>1. CASE Settle("BLOCKED")
    BY <1>1, <1>4, <2>1 DEF BeginCreating, RunState, TERMINAL_STATES
  <2>2. CASE Transition("WORKTREE_CREATING", "create_worktree")
    BY <1>4, <2>2, LegalMove DEF BeginCreating, RunState
  <2> QED
    BY <1>4, <2>1, <2>2 DEF BeginCreating
<1>5. CASE CreateWorktree
  BY <1>5 DEF CreateWorktree, Performing, durable, StatusFollowsState
<1>6. CASE ValidatorPreflight
  <2>1. CASE Settle("BLOCKED")
    BY <1>1, <1>6, <2>1 DEF ValidatorPreflight, RunState, TERMINAL_STATES
  <2>2. CASE Transition("BASELINE_RUNNING", "run_baseline")
    BY <1>6, <2>2, LegalMove DEF ValidatorPreflight, RunState
  <2> QED
    BY <1>6, <2>1, <2>2 DEF ValidatorPreflight
<1>7. CASE RunBaseline
  BY <1>7 DEF RunBaseline, Performing, durable, StatusFollowsState
<1>8. CASE JudgeBaseline
  <2>1. \/ \E t \in {"CANCELLED", "BLOCKED", "NEEDS_HUMAN_REVIEW"} : Settle(t)
        \/ Transition("BASELINE_COMPLETE", "next_attempt")
    BY <1>8 DEF JudgeBaseline
  <2>2. CASE \E t \in {"CANCELLED", "BLOCKED", "NEEDS_HUMAN_REVIEW"} : Settle(t)
    BY <1>1, <1>8, <2>2 DEF JudgeBaseline, RunState, TERMINAL_STATES
  <2>3. CASE Transition("BASELINE_COMPLETE", "next_attempt")
    BY <1>8, <2>3, LegalMove DEF JudgeBaseline, RunState
  <2> QED
    BY <2>1, <2>2, <2>3
<1> QED
  BY <1>2, <1>3, <1>4, <1>5, <1>6, <1>7, <1>8

\* The attempt loop.
LEMMA StateLoop ==
  TypeInv /\ StateInv
    /\ (NextAttempt \/ LaunchAttempt \/ RunCodex \/ ClassifyAttempt
        \/ RouteFailure \/ RunCandidate \/ JudgeCandidate \/ RouteSubstantive)
    => StateInv'
<1> SUFFICES ASSUME TypeInv, StateInv,
                    NextAttempt \/ LaunchAttempt \/ RunCodex \/ ClassifyAttempt
                      \/ RouteFailure \/ RunCandidate \/ JudgeCandidate
                      \/ RouteSubstantive
             PROVE  StateInv'
  OBVIOUS
<1> USE EdgesOfAnAttempt, EdgesOfADecision
    DEF StateInv, StateInAttempt, StateInDecision, StartSteps, LoopSteps,
        NoIllegalTransition
<1>1. ASSUME NEW target \in TERMINAL_STATES, CanTransition(state, target),
             Settle(target)
      PROVE  StateInv'
  <2>1. target \in RunState
    BY DEF RunState
  <2>2. state' = target /\ pc' = "report" /\ StatusFollowsState'
    BY <1>1, <2>1, LegalMove DEF Settle
  <2> QED
    BY <2>2
<1>2. ASSUME NEW d, ApplyDecision(d), state = "ROUTING", ordinal # 0,
             ordinal' = ordinal
      PROVE  StateInv'
  <2>1. CASE Goto("next_attempt")
    BY <1>2, <2>1 DEF Goto, durable, StatusFollowsState
  <2>2. CASE Settle("BLOCKED")
    BY <1>1, <1>2, <2>2 DEF TERMINAL_STATES
  <2>3. CASE Settle("NEEDS_HUMAN_REVIEW")
    BY <1>1, <1>2, <2>3 DEF TERMINAL_STATES
  <2> QED
    BY <1>2, <2>1, <2>2, <2>3 DEF ApplyDecision
<1>3. CASE NextAttempt
  <2>1. CASE ordinal = MaxAttempts /\ Settle("NEEDS_HUMAN_REVIEW")
    <3>1. state # "BASELINE_COMPLETE"
      BY <1>3, <2>1, OrchestratorAssumption DEF NextAttempt
    <3> QED
      BY <1>1, <1>3, <2>1, <3>1 DEF NextAttempt, TERMINAL_STATES
  <2>2. CASE Settle("CANCELLED")
    BY <1>1, <1>3, <2>2 DEF NextAttempt, TERMINAL_STATES
  <2>3. CASE /\ ordinal < MaxAttempts /\ ordinal' = ordinal + 1
             /\ Transition("ATTEMPT_PREPARING", "launch")
    <3>1. ordinal \in Nat
      BY OrchestratorAssumption DEF TypeInv, TypeOK
    <3>2. ordinal' # 0
      BY <2>3, <3>1
    <3> QED
      BY <1>3, <2>3, <3>2, LegalMove DEF NextAttempt, RunState
  <2> QED
    BY <1>3, <2>1, <2>2, <2>3 DEF NextAttempt
<1>4. CASE LaunchAttempt
  BY <1>4, LegalMove DEF LaunchAttempt, RunState
<1>5. CASE RunCodex
  BY <1>5 DEF RunCodex, Performing, durable, StatusFollowsState
<1>6. CASE ClassifyAttempt
  <2>1. \/ Settle("CANCELLED")
        \/ Transition("VALIDATION_RUNNING", "run_candidate")
        \/ Transition("ROUTING", "route_failure")
    BY <1>6 DEF ClassifyAttempt
  <2>2. CASE Settle("CANCELLED")
    BY <1>1, <1>6, <2>2 DEF ClassifyAttempt, TERMINAL_STATES
  <2>3. CASE Transition("VALIDATION_RUNNING", "run_candidate")
    BY <1>6, <2>3, LegalMove DEF ClassifyAttempt, RunState
  <2>4. CASE Transition("ROUTING", "route_failure")
    BY <1>6, <2>4, LegalMove DEF ClassifyAttempt, RunState
  <2> QED
    BY <2>1, <2>2, <2>3, <2>4
<1>7. CASE RouteFailure
  BY <1>2, <1>7 DEF RouteFailure
<1>8. CASE RunCandidate
  BY <1>8 DEF RunCandidate, RunValidation, Performing, durable, StatusFollowsState
<1>9. CASE JudgeCandidate
  <2>1. CASE Settle("CANCELLED")
    BY <1>1, <1>9, <2>1 DEF JudgeCandidate, TERMINAL_STATES
  <2>2. CASE Transition("VALIDATION_COMPLETE", "to_routing")
    BY <1>9, <2>2, LegalMove DEF JudgeCandidate, RunState
  <2> QED
    BY <1>9, <2>1, <2>2 DEF JudgeCandidate
<1>10. CASE RouteSubstantive
  <2>1. PICK e \in failing : ApplyDecision(SubstantiveDecision(e))
    BY <1>10 DEF RouteSubstantive
  <2> QED
    BY <1>2, <1>10, <2>1 DEF RouteSubstantive
<1> QED
  BY <1>3, <1>4, <1>5, <1>6, <1>7, <1>8, <1>9, <1>10

\* Policy, review, final validation and what follows.
LEMMA StateEnd ==
  TypeInv /\ StateInv
    /\ (JudgePolicy \/ ExportPatch \/ RunReview \/ JudgeReview \/ ApplyReview
        \/ EnterFinal \/ RunFinal \/ JudgeFinal \/ CheckOriginal)
    => StateInv'
<1> SUFFICES ASSUME TypeInv, StateInv,
                    JudgePolicy \/ ExportPatch \/ RunReview \/ JudgeReview
                      \/ ApplyReview \/ EnterFinal \/ RunFinal \/ JudgeFinal
                      \/ CheckOriginal
             PROVE  StateInv'
  OBVIOUS
<1> USE EdgesOfADecision
    DEF StateInv, StateInAttempt, StateInDecision, StartSteps, LoopSteps,
        NoIllegalTransition
<1>1. ASSUME NEW target \in TERMINAL_STATES, CanTransition(state, target),
             Settle(target)
      PROVE  StateInv'
  <2>1. target \in RunState
    BY DEF RunState
  <2>2. state' = target /\ pc' = "report" /\ StatusFollowsState'
    BY <1>1, <2>1, LegalMove DEF Settle
  <2> QED
    BY <2>2
<1>2. CASE JudgePolicy
  <2>1. \/ Settle("NEEDS_HUMAN_REVIEW")
        \/ Goto("policy_export") \/ Goto("enter_final")
        \/ Transition("REVIEW_PREPARING", "review_launch")
    BY <1>2 DEF JudgePolicy
  <2>2. CASE Settle("NEEDS_HUMAN_REVIEW")
    BY <1>1, <1>2, <2>2 DEF JudgePolicy, TERMINAL_STATES
  <2>3. CASE Goto("policy_export") \/ Goto("enter_final")
    BY <1>2, <2>3 DEF JudgePolicy, Goto, durable, StatusFollowsState
  <2>4. CASE Transition("REVIEW_PREPARING", "review_launch")
    BY <1>2, <2>4, LegalMove DEF JudgePolicy, RunState
  <2> QED
    BY <2>1, <2>2, <2>3, <2>4
<1>3. CASE ExportPatch
  BY <1>3 DEF ExportPatch, Performing, durable, StatusFollowsState
<1>4. CASE RunReview
  BY <1>4 DEF RunReview, Performing, durable, StatusFollowsState
<1>5. CASE JudgeReview
  <2>1. CASE Settle("CANCELLED")
    BY <1>1, <1>5, <2>1 DEF JudgeReview, TERMINAL_STATES
  <2>2. CASE Transition("REVIEW_COMPLETE", "apply_review")
    BY <1>5, <2>2, LegalMove DEF JudgeReview, RunState
  <2> QED
    BY <1>5, <2>1, <2>2 DEF JudgeReview
<1>6. CASE ApplyReview
  <2>1. CASE Settle("NEEDS_HUMAN_REVIEW")
    BY <1>1, <1>6, <2>1 DEF ApplyReview, TERMINAL_STATES
  <2>2. CASE Goto("next_attempt") \/ Goto("enter_final")
    BY <1>6, <2>2 DEF ApplyReview, Goto, durable, StatusFollowsState
  <2> QED
    BY <1>6, <2>1, <2>2 DEF ApplyReview
<1>7. CASE EnterFinal
  BY <1>7, LegalMove DEF EnterFinal, RunState
<1>8. CASE RunFinal
  BY <1>8 DEF RunFinal, RunValidation, Performing, durable, StatusFollowsState
<1>9. CASE JudgeFinal
  <2>1. \/ \E t \in {"CANCELLED", "NEEDS_HUMAN_REVIEW", "BLOCKED"} : Settle(t)
        \/ Goto("final_policy_export") \/ Goto("check_original")
    BY <1>9 DEF JudgeFinal
  <2>2. CASE \E t \in {"CANCELLED", "NEEDS_HUMAN_REVIEW", "BLOCKED"} : Settle(t)
    BY <1>1, <1>9, <2>2 DEF JudgeFinal, TERMINAL_STATES
  <2>3. CASE Goto("final_policy_export") \/ Goto("check_original")
    BY <1>9, <2>3 DEF JudgeFinal, Goto, durable, StatusFollowsState
  <2> QED
    BY <2>1, <2>2, <2>3
<1>10. CASE CheckOriginal
  <2>1. CASE Settle("FAILED")
    BY <1>1, <1>10, <2>1 DEF CheckOriginal, TERMINAL_STATES
  <2>2. CASE Goto("final_export")
    BY <1>10, <2>2 DEF CheckOriginal, Goto, durable, StatusFollowsState
  <2> QED
    BY <1>10, <2>1, <2>2 DEF CheckOriginal
<1> QED
  BY <1>2, <1>3, <1>4, <1>5, <1>6, <1>7, <1>8, <1>9, <1>10

\* Exceptions, outside events and the end of a run.
LEMMA StateOther ==
  TypeInv /\ StateInv /\ (Report \/ Release \/ Raises \/ Environment \/ UNCHANGED vars)
    => StateInv'
<1> SUFFICES ASSUME TypeInv, StateInv,
                    Report \/ Release \/ Raises \/ Environment \/ UNCHANGED vars
             PROVE  StateInv'
  OBVIOUS
<1> USE DEF StateInv, StateInAttempt, StateInDecision, StartSteps, LoopSteps,
            NoIllegalTransition, StatusFollowsState, durable
<1>1. CASE Report
  BY <1>1 DEF Report
<1>2. CASE Release
  BY <1>2 DEF Release
<1>3. CASE Raises
  BY <1>3 DEF Raises, FailOperation, RaiseError
<1>4. CASE Environment
  BY <1>4 DEF Environment, RequestCancel, EditOriginal, TouchWorktree
<1>5. CASE UNCHANGED vars
  BY <1>5 DEF vars
<1> QED
  BY <1>1, <1>2, <1>3, <1>4, <1>5

\* Every step keeps row and controller in step.
LEMMA StateStep == TypeInv /\ StateInv /\ [Next]_vars => StateInv'
BY StatePlain, StateStart, StateLoop, StateEnd, StateOther
   DEF Next, Controller, Exited

\* For every configuration, no transition the controller attempts is refused
\* by the table, so no run ends by IllegalTransitionError.
THEOREM RunTransitionsLegal == Spec => []NoIllegalTransition
<1>1. StateInv => NoIllegalTransition
  BY DEF StateInv
<1> QED
  BY <1>1, TypeInit, TypeStep, StateInit, StateStep, PTL DEF Spec

\* Whichever write the controller stops after, the status column and the state
\* column of the row agree.
THEOREM RunStatusFollowsState == Spec => []StatusFollowsState
<1>1. StateInv => StatusFollowsState
  BY DEF StateInv
<1> QED
  BY <1>1, TypeInit, TypeStep, StateInit, StateStep, PTL DEF Spec

-----------------------------------------------------------------------------
(***************************************************************************)
(* The ladder: what a configuration must keep apart                        *)
(***************************************************************************)
\* No escalation leads back to a tier that the router tests for earlier.
AscendingTiers ==
  /\ Model["rescue"] \notin LunaSelections
  /\ DeepSelections \cap (LunaSelections \cup {Model["latency"]}) = {}

\* Besides, every escalation is a change of selection.
DistinctTiers ==
  /\ AscendingTiers
  /\ Model["mechanical"] # Model["mechanical_repair"]
  /\ Model["rescue"] # Model["latency"]
  /\ Model["rescue"] \notin DeepSelections

\* The two deep routes are told from each other and from what comes before.
DistinctDeep ==
  /\ DeepSelections \cap (LunaSelections \cup {Model["latency"], Model["rescue"]}) = {}
  /\ Model["deep_serial"] # Model["deep_parallel"]

\* How far up the ladder a selection stands.
Rank(s) ==
  IF s = Model["mechanical"] THEN 0
  ELSE IF s \in LunaSelections THEN 1
  ELSE IF s = Model["latency"] THEN 2
  ELSE IF s = Model["rescue"] THEN 3 ELSE 4

LEMMA RankTyped == \A s : Rank(s) \in Nat
BY DEF Rank

\* What the ladder offers: a repair within the budget, or a climb.
ClimbsFrom(s, d) ==
  \/ d = Decision("repair", s.current) /\ RepairAllowed(s)
  \/ /\ d.kind = "escalate"
     /\ \/ Rank(s.current) < Rank(d.selection)
        \/ ~DistinctTiers /\ d.selection = s.current

LEMMA LadderClimbs ==
  ASSUME AscendingTiers, NEW s, Ladder(s).kind \notin {"block", "human_review"}
  PROVE  ClimbsFrom(s, Ladder(s))
<1>1. ASSUME NEW d, ClimbsFrom(s, d) PROVE ClimbsFrom(s, RepairOr(s, d))
  BY <1>1 DEF RepairOr, ClimbsFrom
<1>2. CASE Tier(s.current) = "luna"
  <2>1. s.current \in LunaSelections
    BY <1>2 DEF Tier
  <2>2. Rank(s.current) \in {0, 1}
    BY <2>1 DEF Rank
  <2>3. Model["mechanical"] \in LunaSelections /\ Model["mechanical_repair"] \in LunaSelections
    BY DEF LunaSelections
  <2>4. Rank(Model["rescue"]) \in {2, 3}
    BY <2>3 DEF Rank, AscendingTiers
  <2>5. ClimbsFrom(s, Rescue)
    BY <2>2, <2>4 DEF Rescue, Decision, ClimbsFrom
  <2>6. ClimbsFrom(s, RepairOr(s, Rescue))
    BY <1>1, <2>5
  <2>7. ASSUME MechanicalStart(s)
        PROVE  ClimbsFrom(s, Decision("escalate", Model["mechanical_repair"]))
    <3>1. CASE Model["mechanical"] = Model["mechanical_repair"]
      BY <2>7, <3>1 DEF MechanicalStart, Decision, DistinctTiers, ClimbsFrom
    <3>2. CASE Model["mechanical"] # Model["mechanical_repair"]
      <4>1. Rank(s.current) = 0 /\ Rank(Model["mechanical_repair"]) = 1
        BY <2>3, <2>7, <3>2 DEF MechanicalStart, Rank
      <4> QED
        BY <4>1 DEF Decision, ClimbsFrom
    <3> QED
      BY <3>1, <3>2
  <2>8. ClimbsFrom(s, LunaNext(s))
    BY <2>5, <2>6, <2>7 DEF LunaNext
  <2> QED
    BY <1>2, <2>8 DEF Ladder
<1>3. Model["rescue"] \notin LunaSelections /\ Model["mechanical"] \in LunaSelections
  BY DEF AscendingTiers, LunaSelections
<1>4. CASE Tier(s.current) = "terra"
  <2>1. s.current \notin LunaSelections /\ s.current = Model["latency"]
    BY <1>4 DEF Tier
  <2>2. Rank(s.current) = 2
    BY <1>3, <2>1 DEF Rank
  <2>3. Model["rescue"] = s.current \/ Rank(Model["rescue"]) = 3
    BY <1>3, <2>1 DEF Rank
  <2>4. ClimbsFrom(s, Rescue)
    BY <2>1, <2>2, <2>3 DEF ClimbsFrom, Rescue, Decision, DistinctTiers
  <2> QED
    BY <1>1, <1>4, <2>4 DEF Ladder
<1>5. CASE Tier(s.current) = "sol"
  <2> DEFINE d == DeepSelection(s.deepMode)
  <2>1. s.current # Model["latency"] /\ s.current = Model["rescue"]
    BY <1>5 DEF Tier
  <2>2. Rank(s.current) = 3
    BY <1>3, <2>1 DEF Rank
  <2>3. d \in DeepSelections
    BY DEF DeepSelection, DeepSelections
  <2>4. d \notin LunaSelections /\ d # Model["latency"]
    BY <2>3 DEF AscendingTiers
  <2>5. d = s.current \/ Rank(d) = 4
    BY <1>3, <2>1, <2>4 DEF Rank
  <2>6. d = s.current => ~DistinctTiers
    BY <2>1, <2>3 DEF DistinctTiers
  <2> HIDE DEF d
  <2>7. ClimbsFrom(s, Decision("escalate", d))
    BY <2>2, <2>5, <2>6 DEF ClimbsFrom, Decision
  <2> QED
    BY <1>1, <1>5, <2>7 DEF Ladder, d
<1> QED
  BY <1>2, <1>4, <1>5 DEF Ladder, Decision, Tier

\* A decision to go on repairs or retries the selection in use, each within its
\* budget, or it climbs.
LEMMA DecisionClimbs ==
  ASSUME AscendingTiers, NEW s, s.failure # "success",
         NextDecision(s).kind \notin {"block", "human_review"}
  PROVE  \/ s.failure # "transient" /\ ClimbsFrom(s, NextDecision(s))
         \/ /\ NextDecision(s) = Decision("retry_transient", s.current)
            /\ s.failure = "transient"
            /\ s.transientRetries < s.maxTransientRetries
<1>1. CASE s.failure \in STOP_CLASSES
  BY <1>1 DEF NextDecision, Decision
<1>2. CASE s.failure = "transient"
  BY <1>2 DEF NextDecision, Decision, STOP_CLASSES
<1>3. CASE s.failure \notin STOP_CLASSES \cup {"transient"}
  BY <1>3, LadderClimbs DEF NextDecision
<1> QED
  BY <1>1, <1>2, <1>3

\* Only a repair within its budget is called one.
LEMMA RepairsAllowed ==
  ASSUME NEW s, NextDecision(s).kind = "repair"
  PROVE  RepairAllowed(s)
BY DEF NextDecision, Ladder, LunaNext, RepairOr, Rescue, Decision

-----------------------------------------------------------------------------
(***************************************************************************)
(* The steps that decide on the next attempt                               *)
(***************************************************************************)
\* Every other step leaves the budgets of the run alone, and goes on to an
\* attempt only from the baseline, on an outcome that does not stop the run.
Bystander ==
  /\ UNCHANGED <<req, ordinal, budgets>>
  /\ pc' \in StartSteps => pc \in StartSteps
  /\ pc' = "next_attempt" => pc \in {"next_attempt", "judge_baseline"}
  /\ pc' \notin EndSteps => pc \notin EndSteps
  /\ \/ outcome' = outcome
     \/ pc' \notin StartSteps \cup {"next_attempt"}
     \/ outcome' \in {"accepted", "blocked", "human"}

\* The controller is on its way out and has forgotten the run.
Leaving ==
  /\ Forget /\ req' = req
  /\ pc' \in {"release", "raised"}

LEMMA BystandersStart ==
  ASSUME TypeInv,
         \/ PlanOperation \/ StartOperation \/ CompleteOperation \/ Advance
         \/ AcquireLock \/ CaptureOriginal \/ BeginCreating \/ CreateWorktree
         \/ ValidatorPreflight \/ RunBaseline \/ JudgeBaseline
  PROVE  Bystander
<1> USE DEF Bystander, budgets, evidence, history, StartSteps, EndSteps, durable,
            Settle, Transition, Performing
<1>1. CASE PlanOperation \/ StartOperation
  BY <1>1 DEF PlanOperation, StartOperation
<1>2. CASE CompleteOperation
  BY <1>2 DEF CompleteOperation, AfterOperation, JournaledSteps
<1>3. CASE Advance
  BY <1>3 DEF Advance, PlainSteps
<1>4. CASE AcquireLock \/ CaptureOriginal \/ BeginCreating \/ CreateWorktree
  BY <1>4 DEF AcquireLock, CaptureOriginal, BeginCreating, CreateWorktree
<1>5. CASE ValidatorPreflight
  BY <1>5 DEF ValidatorPreflight
<1>6. CASE RunBaseline
  BY <1>6 DEF RunBaseline
<1>7. CASE JudgeBaseline
  BY <1>7 DEF JudgeBaseline
<1> QED
  BY <1>1, <1>2, <1>3, <1>4, <1>5, <1>6, <1>7

LEMMA BystandersAttempt ==
  ASSUME TypeInv,
         \/ LaunchAttempt \/ RunCodex \/ ClassifyAttempt \/ RunCandidate
         \/ JudgeCandidate \/ JudgePolicy \/ ExportPatch \/ RunReview
         \/ JudgeReview
  PROVE  Bystander
<1> USE DEF Bystander, budgets, evidence, history, StartSteps, EndSteps, durable,
            Settle, Transition, Goto, Performing
<1>1. CASE LaunchAttempt \/ RunCodex
  BY <1>1 DEF LaunchAttempt, RunCodex
<1>2. CASE ClassifyAttempt
  BY <1>2 DEF ClassifyAttempt
<1>3. CASE RunCandidate
  BY <1>3 DEF RunCandidate, RunValidation
<1>4. CASE JudgeCandidate
  BY <1>4 DEF JudgeCandidate
<1>5. CASE JudgePolicy
  BY <1>5 DEF JudgePolicy
<1>6. CASE ExportPatch
  BY <1>6 DEF ExportPatch
<1>7. CASE RunReview
  BY <1>7 DEF RunReview
<1>8. CASE JudgeReview
  BY <1>8 DEF JudgeReview
<1> QED
  BY <1>1, <1>2, <1>3, <1>4, <1>5, <1>6, <1>7, <1>8

LEMMA BystandersEnd ==
  ASSUME TypeInv,
         \/ EnterFinal \/ RunFinal \/ JudgeFinal \/ CheckOriginal
         \/ Release \/ Environment \/ UNCHANGED vars
  PROVE  Bystander
<1> USE DEF Bystander, budgets, evidence, history, StartSteps, EndSteps, durable,
            Settle, Transition, Goto, Performing
<1>1. CASE EnterFinal
  BY <1>1 DEF EnterFinal
<1>2. CASE RunFinal
  BY <1>2 DEF RunFinal, RunValidation
<1>3. CASE JudgeFinal
  BY <1>3 DEF JudgeFinal
<1>4. CASE CheckOriginal \/ Release
  BY <1>4 DEF CheckOriginal, Release
<1>5. CASE Environment
  BY <1>5 DEF Environment, RequestCancel, EditOriginal, TouchWorktree
<1>6. CASE UNCHANGED vars
  BY <1>6 DEF vars
<1> QED
  BY <1>1, <1>2, <1>3, <1>4, <1>5, <1>6

LEMMA StepsByBudget ==
  ASSUME TypeInv, [Next]_vars
  PROVE  \/ Bystander \/ Leaving
         \/ NextAttempt \/ RouteFailure \/ RouteSubstantive \/ ApplyReview
<1>1. Report \/ Raises => Leaving
  BY DEF Report, Raises, FailOperation, RaiseError, Leaving
<1> QED
  BY <1>1, BystandersStart, BystandersAttempt, BystandersEnd, Zenon
     DEF Next, Controller, Exited

\* After a decision the run goes on with what was decided, or it is settled.
LEMMA DecisionApplied ==
  ASSUME NEW d, ApplyDecision(d)
  PROVE  \/ /\ d.kind \notin {"block", "human_review"}
            /\ pc' = "next_attempt" /\ selection' = d.selection
         \/ pc' \in {"report", "illegal"} /\ selection' = selection
BY DEF ApplyDecision, Settle, Transition, Goto

\* What the router decides after a failed attempt, and after a failed candidate.
LEMMA FailureDecided ==
  ASSUME AscendingTiers, TypeInv, RouteFailure
  PROVE  \/ pc' \in {"report", "illegal"} /\ selection' = selection
         \/ /\ pc' = "next_attempt" /\ outcome # "transient"
            /\ \/ Rank(selection) < Rank(selection')
               \/ ~DistinctTiers /\ selection' = selection
         \/ /\ pc' = "next_attempt" /\ outcome = "transient"
            /\ transientRetries < req.maxTransient
            /\ selection' = selection
<1> DEFINE r == RoutingState(outcome, FALSE, FALSE, 0)
           d == NextDecision(r)
<1>1. /\ r.failure = outcome /\ r.current = selection /\ ~r.progress
      /\ r.transientRetries = transientRetries
      /\ r.maxTransientRetries = req.maxTransient
  BY DEF RoutingState
<1>2. r.failure # "success" /\ ApplyDecision(d)
  BY <1>1 DEF RouteFailure, TypeInv
<1> HIDE DEF r
<1>4. CASE d.kind \in {"block", "human_review"}
  BY <1>2, <1>4, DecisionApplied
<1>5. CASE d.kind \notin {"block", "human_review"}
  <2>1. \/ pc' \in {"report", "illegal"} /\ selection' = selection
        \/ pc' = "next_attempt" /\ selection' = d.selection
    BY <1>2, DecisionApplied
  <2>2. \/ r.failure # "transient" /\ ClimbsFrom(r, d)
        \/ /\ d = Decision("retry_transient", r.current)
           /\ r.failure = "transient"
           /\ r.transientRetries < r.maxTransientRetries
    BY <1>2, <1>5, DecisionClimbs
  <2> HIDE DEF d
  <2> QED
    BY <1>1, <2>1, <2>2 DEF ClimbsFrom, Decision, RepairAllowed
<1> QED
  BY <1>4, <1>5

LEMMA CandidateDecided ==
  ASSUME AscendingTiers, TypeInv, RouteSubstantive
  PROVE  \/ pc' \in {"report", "illegal"} /\ selection' = selection
         \/ /\ pc' = "next_attempt"
            /\ \/ Rank(selection) < Rank(selection')
               \/ ~DistinctTiers /\ selection' = selection
               \/ /\ selection' = selection
                  /\ repairs' = [repairs EXCEPT ![selection] = @ + 1]
<1>1. PICK e \in failing :
        /\ ApplyDecision(SubstantiveDecision(e))
        /\ repairs' = IF SubstantiveDecision(e).kind = "repair"
                      THEN [repairs EXCEPT ![selection] = @ + 1] ELSE repairs
  BY DEF RouteSubstantive
<1> DEFINE r == RoutingState("substantive", Progress(e), e \in seen,
                             repairs[selection])
           d == NextDecision(r)
<1>2. r.failure = "substantive" /\ r.current = selection
  BY DEF RoutingState
<1>3. d = SubstantiveDecision(e)
  BY DEF SubstantiveDecision
<1> HIDE DEF r
<1>4. CASE d.kind \in {"block", "human_review"}
  BY <1>1, <1>3, <1>4, DecisionApplied
<1>5. CASE d.kind \notin {"block", "human_review"}
  <2>1. \/ pc' \in {"report", "illegal"} /\ selection' = selection
        \/ pc' = "next_attempt" /\ selection' = d.selection
    BY <1>1, <1>3, DecisionApplied
  <2>2. ClimbsFrom(r, d)
    BY <1>2, <1>5, DecisionClimbs
  <2> HIDE DEF d
  <2> QED
    BY <1>1, <1>2, <1>3, <2>1, <2>2 DEF ClimbsFrom, Decision
<1> QED
  BY <1>4, <1>5

\* The route only climbs, and the selection in use stands at its top.
RouteClimbs ==
  /\ \A i \in DOMAIN route :
       route[i] = selection \/ Rank(route[i]) < Rank(selection)
  /\ \A i, j \in DOMAIN route :
       i < j => route[i] = route[j] \/ Rank(route[i]) < Rank(route[j])

LEMMA RouteStep ==
  ASSUME AscendingTiers
  PROVE  TypeInv /\ RouteClimbs /\ [Next]_vars => RouteClimbs'
<1> SUFFICES ASSUME TypeInv, RouteClimbs, [Next]_vars PROVE RouteClimbs'
  OBVIOUS
<1> USE RankTyped DEF RouteClimbs
<1>1. CASE UNCHANGED <<route, selection>>
  BY <1>1
<1>2. CASE Leaving
  BY <1>2 DEF Leaving, Forget
<1>3. CASE NextAttempt
  <2>1. selection' = selection
    BY <1>3 DEF NextAttempt
  <2>2. CASE route' = Append(route, selection)
    <3>1. route \in Seq(Selection) /\ selection \in Selection
      BY DEF TypeInv, TypeOK
    <3>2. /\ DOMAIN route' = 1..Len(route) + 1 /\ DOMAIN route = 1..Len(route)
          /\ Len(route) \in Nat
          /\ \A i \in 1..Len(route) : route'[i] = route[i]
          /\ route'[Len(route) + 1] = selection
      BY <2>2, <3>1, AppendProperties
    <3> QED
      BY <2>1, <3>2
  <2> QED
    BY <1>1, <1>3, <2>1, <2>2 DEF NextAttempt
<1>4. CASE RouteFailure
  <2>1. selection' = selection \/ Rank(selection) < Rank(selection')
    BY <1>4, FailureDecided
  <2> QED
    BY <1>4, <2>1 DEF RouteFailure
<1>5. CASE RouteSubstantive
  <2>1. selection' = selection \/ Rank(selection) < Rank(selection')
    BY <1>5, CandidateDecided
  <2> QED
    BY <1>5, <2>1 DEF RouteSubstantive
<1>6. Bystander \/ ApplyReview => UNCHANGED <<route, selection>>
  BY DEF Bystander, ApplyReview, budgets
<1> QED
  BY <1>1, <1>2, <1>3, <1>4, <1>5, <1>6, StepsByBudget

\* If no escalation leads back to an earlier tier, which the defaults satisfy
\* and the configuration does not check, the ladder never comes back to a
\* selection it has left.
THEOREM RunNeverCycles ==
  ASSUME AscendingTiers
  PROVE  Spec => []LadderNeverCycles
<1>1. Init => RouteClimbs
  BY DEF Init, RouteClimbs
<1>2. TypeInv /\ RouteClimbs => LadderNeverCycles
  BY RankTyped DEF RouteClimbs, LadderNeverCycles, TypeInv, TypeOK
<1> QED
  BY <1>1, <1>2, TypeInit, TypeStep, RouteStep, PTL DEF Spec

\* The deep route that this run may not use.
OtherDeep ==
  IF req.deepMode = "parallel" THEN Model["deep_serial"] ELSE Model["deep_parallel"]

OtherDeepUnused ==
  selection # OtherDeep /\ \A i \in DOMAIN route : route[i] # OtherDeep

LEMMA DecisionAvoids ==
  ASSUME DistinctDeep, NEW s, s.deepMode = req.deepMode, s.current # OtherDeep,
         s.failure # "success", NextDecision(s).kind \notin {"block", "human_review"}
  PROVE  NextDecision(s).selection # OtherDeep
<1>1. /\ Model["rescue"] # OtherDeep /\ Model["mechanical_repair"] # OtherDeep
      /\ DeepSelection(s.deepMode) # OtherDeep
  BY DEF DistinctDeep, DeepSelections, DeepSelection, LunaSelections, OtherDeep
<1> HIDE DEF OtherDeep
<1>2. \A d : d.selection # OtherDeep => RepairOr(s, d).selection # OtherDeep
  BY DEF RepairOr, Decision
<1>3. Rescue.selection # OtherDeep
  BY <1>1 DEF Rescue, Decision
<1>4. LunaNext(s).selection # OtherDeep
  BY <1>1, <1>2, <1>3 DEF LunaNext, Decision
<1>5. Decision("escalate", DeepSelection(s.deepMode)).selection # OtherDeep
  BY <1>1 DEF Decision
<1>6. Ladder(s).kind \notin {"block", "human_review"} => Ladder(s).selection # OtherDeep
  BY <1>2, <1>3, <1>4, <1>5 DEF Ladder, Decision
<1> QED
  BY <1>6 DEF NextDecision, Decision

LEMMA InitialAvoids ==
  ASSUME DistinctDeep, req \in Requests
  PROVE  InitialSelection(req.lane) # OtherDeep
<1>1. req.lane \in Lane
  BY OrchestratorAssumption DEF Request
<1>2. InitialSelection(req.lane)
        \in LunaSelections \cup {Model["latency"], Model["rescue"]}
  BY <1>1 DEF InitialSelection, Lane, LunaSelections
<1>3. OtherDeep \in DeepSelections
  BY DEF OtherDeep, DeepSelections
<1> QED
  BY <1>2, <1>3 DEF DistinctDeep

LEMMA OtherDeepStep ==
  ASSUME DistinctDeep
  PROVE  TypeInv /\ OtherDeepUnused /\ [Next]_vars => OtherDeepUnused'
<1> SUFFICES ASSUME TypeInv, OtherDeepUnused, [Next]_vars PROVE OtherDeepUnused'
  OBVIOUS
<1> USE DEF OtherDeepUnused
<1>1. req' = req /\ OtherDeep' = OtherDeep
  BY StepsByBudget
     DEF Bystander, Leaving, NextAttempt, RouteFailure, RouteSubstantive,
         ApplyReview, OtherDeep
<1>2. CASE UNCHANGED <<route, selection>>
  BY <1>1, <1>2
<1>3. CASE Leaving
  BY <1>1, <1>3, InitialAvoids DEF Leaving, Forget, TypeInv, TypeOK
<1>4. CASE NextAttempt
  <2>1. selection' = selection
    BY <1>4 DEF NextAttempt
  <2>2. CASE route' = Append(route, selection)
    <3>1. route \in Seq(Selection) /\ selection \in Selection
      BY DEF TypeInv, TypeOK
    <3>2. \A i \in DOMAIN route' :
            route'[i] = selection \/ (i \in DOMAIN route /\ route'[i] = route[i])
      BY <2>2, <3>1, AppendProperties
    <3> QED
      BY <1>1, <2>1, <3>2
  <2> QED
    BY <1>2, <1>4, <2>1, <2>2 DEF NextAttempt
<1>5. ASSUME NEW r, ApplyDecision(NextDecision(r)), r.deepMode = req.deepMode,
             r.current = selection, r.failure # "success"
      PROVE  selection' # OtherDeep
  BY <1>5, DecisionApplied, DecisionAvoids
<1>6. CASE RouteFailure
  <2> DEFINE r == RoutingState(outcome, FALSE, FALSE, 0)
  <2>1. /\ r.deepMode = req.deepMode /\ r.current = selection
        /\ r.failure = outcome /\ outcome # "success"
    BY <1>6 DEF RoutingState, RouteFailure, TypeInv
  <2>2. ApplyDecision(NextDecision(r)) /\ route' = route
    BY <1>6 DEF RouteFailure
  <2> HIDE DEF r
  <2> QED
    BY <1>1, <1>5, <2>1, <2>2
<1>7. CASE RouteSubstantive
  <2>1. PICK e \in failing : ApplyDecision(SubstantiveDecision(e))
    BY <1>7 DEF RouteSubstantive
  <2> DEFINE r == RoutingState("substantive", Progress(e), e \in seen,
                               repairs[selection])
  <2>2. /\ r.deepMode = req.deepMode /\ r.current = selection
        /\ r.failure = "substantive"
    BY DEF RoutingState
  <2>3. ApplyDecision(NextDecision(r)) /\ route' = route
    BY <1>7, <2>1 DEF RouteSubstantive, SubstantiveDecision
  <2> HIDE DEF r
  <2> QED
    BY <1>1, <1>5, <2>2, <2>3
<1>8. Bystander \/ ApplyReview => UNCHANGED <<route, selection>>
  BY DEF Bystander, ApplyReview, budgets
<1> QED
  BY <1>2, <1>3, <1>4, <1>6, <1>7, <1>8, StepsByBudget

\* With two deep selections of their own, a run uses at most one of them.
THEOREM RunGoesDeepOnce ==
  ASSUME DistinctDeep
  PROVE  Spec => []OneDeepRoute
<1>1. Init => OtherDeepUnused
  BY InitialAvoids DEF Init, OtherDeepUnused
<1>2. OtherDeepUnused => OneDeepRoute
  BY DEF OtherDeepUnused, OtherDeep, OneDeepRoute, DeepSelections, DistinctDeep
<1> QED
  BY <1>1, <1>2, TypeInit, TypeStep, OtherDeepStep, PTL DEF Spec

-----------------------------------------------------------------------------
(***************************************************************************)
(* The forecast of dry-run, and the route that follows it                  *)
(***************************************************************************)
\* One step of the forecast, and where it starts.
ForecastStart(lane) == [route |-> <<InitialSelection(lane)>>, repairs |-> 0, open |-> TRUE]

ForecastFailure(lane, mode, f, step) ==
  [lane |-> lane, deepMode |-> mode, current |-> f.route[Len(f.route)],
   failure |-> "substantive",
   progress |-> ForecastProgress(step), repeated |-> ~ForecastProgress(step),
   repairs |-> f.repairs, maxRepairs |-> 1,
   transientRetries |-> 0, maxTransientRetries |-> 2]

ForecastStep(lane, mode, f, step) ==
  LET current == f.route[Len(f.route)]
      d == NextDecision(ForecastFailure(lane, mode, f, step))
  IN  IF ~f.open \/ d.kind \in {"block", "human_review"}
      THEN [f EXCEPT !.open = FALSE]
      ELSE [route |-> Append(f.route, d.selection), open |-> TRUE,
            repairs |-> IF d.selection = current THEN f.repairs + 1 ELSE 0]

LEMMA ForecastUnfolds ==
  ASSUME NEW lane, NEW mode, NEW f0, NEW f1, NEW f2, NEW f3, NEW f4,
         f0 = ForecastStart(lane),
         f1 = ForecastStep(lane, mode, f0, 1), f2 = ForecastStep(lane, mode, f1, 2),
         f3 = ForecastStep(lane, mode, f2, 3), f4 = ForecastStep(lane, mode, f3, 4)
  PROVE  Forecast(lane, mode) = f4.route
<1> DEFINE Body(g) == [step \in 0..4 |-> IF step = 0 THEN ForecastStart(lane)
                                         ELSE ForecastStep(lane, mode, g[step - 1], step)]
           after == CHOOSE g : g = Body(g)
           states == [step \in 0..4 |-> IF step = 0 THEN f0 ELSE IF step = 1 THEN f1
                                        ELSE IF step = 2 THEN f2 ELSE IF step = 3 THEN f3 ELSE f4]
<1>1. states = Body(states)
  OBVIOUS
<1>2. after = Body(after)
  <2>1. \E g : g = Body(g)
    BY <1>1
  <2> HIDE DEF Body
  <2> QED
    BY <2>1
<1>3. Forecast(lane, mode) = after[4].route
  BY Zenon DEF Forecast, ForecastStart, ForecastStep, ForecastFailure
<1> HIDE DEF after
<1>4. after[4] = f4
  <2>1. after[0] = f0
    BY <1>2
  <2>2. after[1] = f1
    BY <1>2, <2>1
  <2>3. after[2] = f2
    BY <1>2, <2>2
  <2>4. after[3] = f3
    BY <1>2, <2>3
  <2> QED
    BY <1>2, <2>4
<1> QED
  BY <1>3, <1>4

\* What the router answers to the failures of a forecast: the first may be
\* repaired, the others climb.
LEMMA ForecastDecides ==
  ASSUME NEW lane, NEW mode, NEW f, NEW step \in Nat, NEW c,
         c = f.route[Len(f.route)], step = 1 => f.repairs = 0
  PROVE  LET d == NextDecision(ForecastFailure(lane, mode, f, step))
         IN  /\ step # 1 /\ Tier(c) \in {"luna", "terra"} => d = Rescue
             /\ step # 1 /\ Tier(c) = "sol" => d = Decision("escalate", DeepSelection(mode))
             /\ Tier(c) = "deep" => d.kind = "human_review"
             /\ step = 1 /\ Tier(c) \in {"terra", "sol"} => d = Decision("repair", c)
             /\ step = 1 /\ Tier(c) = "luna" =>
                  IF c = Model["mechanical"] /\ lane = "mechanical"
                  THEN d = Decision("escalate", Model["mechanical_repair"])
                  ELSE d \in {Rescue, Decision("repair", c)}
<1> DEFINE s == ForecastFailure(lane, mode, f, step)
<1>0. /\ s.failure = "substantive" /\ s.current = c /\ s.lane = lane /\ s.deepMode = mode
      /\ s.progress = (step = 1) /\ s.repeated = ~(step = 1)
      /\ s.repairs = f.repairs /\ s.maxRepairs = 1
  BY Zenon DEF ForecastFailure, ForecastProgress
<1> HIDE DEF s
<1>1. RepairAllowed(s) <=> step = 1
  <2>1. CASE step = 1
    <3>1. s.progress /\ ~s.repeated
      BY <1>0, <2>1
    <3>2. s.repairs < s.maxRepairs
      BY <1>0, <2>1
    <3> QED
      BY <2>1, <3>1, <3>2 DEF RepairAllowed
  <2>2. CASE step # 1
    <3>1. s.progress = FALSE
      BY <1>0, <2>2
    <3> QED
      BY <2>2, <3>1 DEF RepairAllowed
  <2> QED
    BY <2>1, <2>2
<1>2. NextDecision(s) = Ladder(s)
  BY <1>0, <1>1 DEF NextDecision, STOP_CLASSES
<1>3. Tier(c) = "deep" => Ladder(s).kind = "human_review"
  BY <1>0, <1>1 DEF Ladder, Decision
<1>4. Tier(c) \in {"terra", "sol"} =>
        Ladder(s) = IF step = 1 THEN Decision("repair", c)
                    ELSE IF Tier(c) = "terra" THEN Rescue
                    ELSE Decision("escalate", DeepSelection(mode))
  BY <1>0, <1>1 DEF Ladder, RepairOr
<1>5. Tier(c) = "luna" => Ladder(s) = LunaNext(s)
  BY <1>0, <1>1 DEF Ladder
<1>6. /\ step # 1 => LunaNext(s) = Rescue
      /\ step = 1 => IF c = Model["mechanical"] /\ lane = "mechanical"
                     THEN LunaNext(s) = Decision("escalate", Model["mechanical_repair"])
                     ELSE LunaNext(s) \in {Rescue, Decision("repair", c)}
  BY <1>0, <1>1 DEF LunaNext, MechanicalStart, RepairOr
<1> QED
  BY <1>2, <1>3, <1>4, <1>5, <1>6 DEF s

\* The tiers of a forecast.
LEMMA TiersApart ==
  ASSUME DistinctTiers, NEW mode
  PROVE  /\ Tier(Model["rescue"]) = "sol" /\ Tier(DeepSelection(mode)) = "deep"
         /\ Tier(Model["mechanical"]) = "luna" /\ Tier(Model["mechanical_repair"]) = "luna"
         /\ Model["rescue"] # DeepSelection(mode)
         /\ \A c : Tier(c) \in {"luna", "terra"} =>
                     c # Model["rescue"] /\ c # DeepSelection(mode) /\ Rank(c) \in 0..2
         /\ Rank(Model["rescue"]) = 3 /\ Rank(DeepSelection(mode)) = 4
         /\ Rank(Model["mechanical"]) = 0 /\ Rank(Model["mechanical_repair"]) = 1
<1>1. Model["mechanical"] \in LunaSelections /\ Model["mechanical_repair"] \in LunaSelections
  BY DEF LunaSelections
<1>2. DeepSelection(mode) \in DeepSelections
  BY DEF DeepSelection, DeepSelections
<1>3. /\ Model["rescue"] \notin LunaSelections /\ Model["rescue"] # Model["latency"]
      /\ DeepSelection(mode) \notin LunaSelections /\ DeepSelection(mode) # Model["latency"]
      /\ DeepSelection(mode) # Model["rescue"] /\ Model["mechanical"] # Model["mechanical_repair"]
  BY <1>2 DEF DistinctTiers, AscendingTiers
<1> HIDE DEF DeepSelection
<1> QED
  BY <1>1, <1>2, <1>3 DEF Tier, Rank

LEMMA InitialTier ==
  ASSUME NEW lane \in Lane
  PROVE  /\ lane = "mechanical" => InitialSelection(lane) = Model["mechanical"]
         /\ lane = "high_risk" => InitialSelection(lane) = Model["rescue"]
         /\ lane # "high_risk" => Tier(InitialSelection(lane)) \in {"luna", "terra"}
<1>1. /\ Model["mechanical"] \in LunaSelections /\ Model["standard"] \in LunaSelections
      /\ Model["bounded_hard"] \in LunaSelections
  BY DEF LunaSelections
<1> QED
  BY <1>1 DEF InitialSelection, Lane, Tier

\* The last two steps up the ladder, from any step but the first.
LEMMA ForecastClimbs ==
  ASSUME DistinctTiers, NEW lane, NEW mode, NEW f, NEW step \in Nat \ {0, 1},
         DOMAIN f = {"route", "repairs", "open"}, f.open
  PROVE  LET t == Tier(f.route[Len(f.route)])
             g == ForecastStep(lane, mode, f, step)
         IN  /\ t \in {"luna", "terra"} =>
                  g.route = Append(f.route, Model["rescue"]) /\ g.open
             /\ t = "sol" => g.route = Append(f.route, DeepSelection(mode)) /\ g.open
             /\ t = "deep" => g.route = f.route /\ ~g.open
             /\ DOMAIN g = {"route", "repairs", "open"}
<1> DEFINE c == f.route[Len(f.route)]
           g == ForecastStep(lane, mode, f, step)
           d == NextDecision(ForecastFailure(lane, mode, f, step))
<1>1. /\ Tier(c) \in {"luna", "terra"} => d = Decision("escalate", Model["rescue"])
      /\ Tier(c) = "sol" => d = Decision("escalate", DeepSelection(mode))
      /\ Tier(c) = "deep" => d.kind = "human_review"
  BY ForecastDecides DEF Rescue
<1>2. ASSUME NEW x, d = Decision("escalate", x)
      PROVE  g.route = Append(f.route, x) /\ g.open
  BY <1>2 DEF ForecastStep, Decision
<1>3. Tier(c) = "deep" => g.route = f.route /\ ~g.open
  BY <1>1 DEF ForecastStep
<1>4. DOMAIN g = {"route", "repairs", "open"}
  BY DEF ForecastStep
<1> HIDE DEF c, d, g
<1>5. /\ Tier(c) \in {"luna", "terra"} => g.route = Append(f.route, Model["rescue"]) /\ g.open
      /\ Tier(c) = "sol" => g.route = Append(f.route, DeepSelection(mode)) /\ g.open
  BY <1>1, <1>2
<1> QED
  BY <1>3, <1>4, <1>5 DEF c, g

\* The first step: mechanical work may be handed to the stronger small model,
\* other work is repaired or rescued, and high-risk work is repaired.
LEMMA ForecastBegins ==
  ASSUME DistinctTiers, NEW lane \in Lane, NEW mode, NEW f, NEW g, NEW c,
         f = ForecastStart(lane), c = InitialSelection(lane),
         g = ForecastStep(lane, mode, f, 1)
  PROVE  /\ DOMAIN g = {"route", "repairs", "open"} /\ g.open
         /\ lane = "mechanical" => g.route = <<c, Model["mechanical_repair"]>>
         /\ lane = "high_risk" => g.route = <<c, c>>
         /\ g.route \in {<<c, c>>, <<c, Model["rescue"]>>,
                        <<c, Model["mechanical_repair"]>>}
         /\ lane # "mechanical" => g.route \in {<<c, c>>, <<c, Model["rescue"]>>}
<1> DEFINE d == NextDecision(ForecastFailure(lane, mode, f, 1))
<1>1. f.route = <<c>> /\ f.repairs = 0 /\ f.open
  BY DEF ForecastStart
<1>2. c = f.route[Len(f.route)]
  BY <1>1
<1>3. /\ Tier(c) \in {"terra", "sol"} => d = Decision("repair", c)
      /\ Tier(c) = "luna" =>
           IF c = Model["mechanical"] /\ lane = "mechanical"
           THEN d = Decision("escalate", Model["mechanical_repair"])
           ELSE d \in {Rescue, Decision("repair", c)}
  <2>1. 1 \in Nat /\ (1 = 1 => f.repairs = 0)
    BY <1>1
  <2> QED
    BY <1>2, <2>1, ForecastDecides
<1>4. /\ lane = "mechanical" => Tier(c) = "luna" /\ c = Model["mechanical"]
      /\ lane = "high_risk" => Tier(c) = "sol"
      /\ lane # "high_risk" => Tier(c) \in {"luna", "terra"}
  BY InitialTier, TiersApart
<1> HIDE DEF d
<1>5. ASSUME NEW kind \in {"repair", "escalate"}, NEW x, d = Decision(kind, x)
      PROVE  g.route = <<c, x>> /\ g.open
  <2>1. g.route = Append(f.route, x) /\ g.open
    BY <1>1, <1>5 DEF ForecastStep, Decision, d
  <2> QED
    BY <1>1, <2>1
<1>6. DOMAIN g = {"route", "repairs", "open"}
  BY DEF ForecastStep, ForecastStart
<1>7. CASE lane = "mechanical"
  BY <1>3, <1>4, <1>5, <1>6, <1>7
<1>8. CASE lane = "high_risk"
  BY <1>3, <1>4, <1>5, <1>6, <1>8
<1>9. CASE lane \notin {"mechanical", "high_risk"}
  <2>1. d \in {Decision("escalate", Model["rescue"]), Decision("repair", c)}
    BY <1>3, <1>4, <1>9 DEF Rescue
  <2> QED
    BY <1>5, <1>6, <1>9, <2>1
<1> QED
  BY <1>7, <1>8, <1>9

\* A selection added to a route of two or of three.
LEMMA AppendThird ==
  ASSUME NEW c, NEW s, NEW d
  PROVE  Append(<<c, s>>, d) = <<c, s, d>>
<1> DEFINE S == {c, s, d}
           a == <<c, s>>
           b == <<c, s, d>>
           e == Append(a, d)
<1>1. a \in Seq(S) /\ Len(a) = 2 /\ a[1] = c /\ a[2] = s
  OBVIOUS
<1>2. b \in Seq(S) /\ Len(b) = 3 /\ b[1] = c /\ b[2] = s /\ b[3] = d
  OBVIOUS
<1>3. /\ e \in Seq(S) /\ Len(e) = Len(a) + 1 /\ e[Len(a) + 1] = d
      /\ \A i \in 1..Len(a) : e[i] = a[i]
  BY <1>1, AppendProperties
<1> HIDE DEF a, b, S, e
<1>4. Len(e) = 3 /\ e[1] = b[1] /\ e[2] = b[2] /\ e[3] = b[3]
  <2>1. 1 \in 1..2 /\ 2 \in 1..2
    OBVIOUS
  <2> QED
    BY <1>1, <1>2, <1>3, <2>1
<1>5. \A i \in 1..3 : e[i] = b[i]
  <2>1. \A i \in 1..3 : i = 1 \/ i = 2 \/ i = 3
    OBVIOUS
  <2> QED
    BY <1>4, <2>1
<1>6. e = b
  BY <1>2, <1>3, <1>4, <1>5, SeqEqual
<1> QED
  BY <1>6 DEF a, b, e

LEMMA AppendFourth ==
  ASSUME NEW c, NEW s, NEW r, NEW d
  PROVE  Append(<<c, s, r>>, d) = <<c, s, r, d>>
<1> DEFINE S == {c, s, r, d}
           a == <<c, s, r>>
           b == <<c, s, r, d>>
           e == Append(a, d)
<1>1. a \in Seq(S) /\ Len(a) = 3 /\ a[1] = c /\ a[2] = s /\ a[3] = r
  OBVIOUS
<1>2. b \in Seq(S) /\ Len(b) = 4 /\ b[1] = c /\ b[2] = s /\ b[3] = r /\ b[4] = d
  OBVIOUS
<1>3. /\ e \in Seq(S) /\ Len(e) = Len(a) + 1 /\ e[Len(a) + 1] = d
      /\ \A i \in 1..Len(a) : e[i] = a[i]
  BY <1>1, AppendProperties
<1> HIDE DEF a, b, S, e
<1>4. Len(e) = 4 /\ e[1] = b[1] /\ e[2] = b[2] /\ e[3] = b[3] /\ e[4] = b[4]
  <2>1. 1 \in 1..3 /\ 2 \in 1..3 /\ 3 \in 1..3
    OBVIOUS
  <2> QED
    BY <1>1, <1>2, <1>3, <2>1
<1>5. \A i \in 1..4 : e[i] = b[i]
  <2>1. \A i \in 1..4 : i = 1 \/ i = 2 \/ i = 3 \/ i = 4
    OBVIOUS
  <2> QED
    BY <1>4, <2>1
<1>6. e = b
  BY <1>2, <1>3, <1>4, <1>5, SeqEqual
<1> QED
  BY <1>6 DEF a, b, e

\* The last three steps: from a small model over rescue to deep work, from
\* rescue to deep work, and to the end.
LEMMA ForecastEnds ==
  ASSUME DistinctTiers, NEW lane, NEW mode, NEW f1, NEW f2, NEW f3, NEW f4,
         NEW S, NEW a \in Seq(S), NEW r \in S, NEW d \in S,
         r = Model["rescue"], d = DeepSelection(mode),
         f2 = ForecastStep(lane, mode, f1, 2), f3 = ForecastStep(lane, mode, f2, 3),
         f4 = ForecastStep(lane, mode, f3, 4),
         DOMAIN f1 = {"route", "repairs", "open"}, f1.open, f1.route = a
  PROVE  /\ Tier(a[Len(a)]) = "sol" => f4.route = Append(a, d)
         /\ Tier(a[Len(a)]) \in {"luna", "terra"} => f4.route = Append(Append(a, r), d)
<1>1. Tier(r) = "sol" /\ Tier(d) = "deep"
  BY TiersApart
<1>2. 2 \in Nat \ {0, 1} /\ 3 \in Nat \ {0, 1} /\ 4 \in Nat \ {0, 1}
  OBVIOUS
<1>3. \A seq \in Seq(S), x \in S :
        Append(seq, x) \in Seq(S) /\ Append(seq, x)[Len(Append(seq, x))] = x
  BY AppendProperties
<1>4. CASE Tier(a[Len(a)]) = "sol"
  <2>1. /\ f2.route = Append(a, d) /\ f2.open
        /\ DOMAIN f2 = {"route", "repairs", "open"}
    BY <1>2, <1>4, ForecastClimbs
  <2>2. f2.route[Len(f2.route)] = d
    BY <1>3, <2>1
  <2>3. f3.route = f2.route /\ ~f3.open
    BY <1>1, <1>2, <2>1, <2>2, ForecastClimbs
  <2>4. f4.route = f3.route
    BY <2>3 DEF ForecastStep
  <2> QED
    BY <1>4, <2>1, <2>3, <2>4
<1>5. CASE Tier(a[Len(a)]) \in {"luna", "terra"}
  <2>1. /\ f2.route = Append(a, r) /\ f2.open
        /\ DOMAIN f2 = {"route", "repairs", "open"}
    BY <1>2, <1>5, ForecastClimbs
  <2>2. f2.route[Len(f2.route)] = r /\ f2.route \in Seq(S)
    BY <1>3, <2>1
  <2>3. /\ f3.route = Append(f2.route, d) /\ f3.open
        /\ DOMAIN f3 = {"route", "repairs", "open"}
    BY <1>1, <1>2, <2>1, <2>2, ForecastClimbs
  <2>4. f3.route[Len(f3.route)] = d
    BY <1>3, <2>2, <2>3
  <2>5. f4.route = f3.route
    BY <1>1, <1>2, <2>3, <2>4, ForecastClimbs
  <2> QED
    BY <1>5, <2>1, <2>3, <2>5
<1> QED
  BY <1>4, <1>5

\* The command dry-run shows the first selection of the lane, once more if a
\* repair may keep it, or the stronger model for mechanical work, then rescue,
\* then deep work, and nothing after it.
THEOREM ForecastOfALane ==
  ASSUME DistinctTiers, NEW lane \in Lane, NEW mode
  PROVE  LET c == InitialSelection(lane)
             r == Model["rescue"]
             d == DeepSelection(mode)
         IN  Forecast(lane, mode) \in
               IF lane = "mechanical" THEN {<<c, Model["mechanical_repair"], r, d>>}
               ELSE IF lane = "high_risk" THEN {<<c, c, d>>}
               ELSE {<<c, r, d>>, <<c, c, r, d>>}
<1>1. PICK c, r, d, f0, f1, f2, f3, f4 :
        /\ c = InitialSelection(lane) /\ r = Model["rescue"] /\ d = DeepSelection(mode)
        /\ f0 = ForecastStart(lane) /\ f1 = ForecastStep(lane, mode, f0, 1)
        /\ f2 = ForecastStep(lane, mode, f1, 2) /\ f3 = ForecastStep(lane, mode, f2, 3)
        /\ f4 = ForecastStep(lane, mode, f3, 4)
  OBVIOUS
<1>2. Forecast(lane, mode) = f4.route
  BY <1>1, ForecastUnfolds, Zenon
<1>3. /\ DOMAIN f1 = {"route", "repairs", "open"} /\ f1.open
      /\ lane = "mechanical" => f1.route = <<c, Model["mechanical_repair"]>>
      /\ lane = "high_risk" => f1.route = <<c, c>>
      /\ lane # "mechanical" => f1.route \in {<<c, c>>, <<c, r>>}
  BY <1>1, ForecastBegins
<1>4. Tier(r) = "sol" /\ Tier(Model["mechanical_repair"]) \in {"luna", "terra"}
  BY <1>1, TiersApart
<1>5. /\ lane = "high_risk" => Tier(c) = "sol"
      /\ lane # "high_risk" => Tier(c) \in {"luna", "terra"}
  BY <1>1, <1>4, InitialTier
<1>6. ASSUME NEW s, f1.route = <<c, s>>
      PROVE  /\ Tier(s) = "sol" => f4.route = <<c, s, d>>
             /\ Tier(s) \in {"luna", "terra"} => f4.route = <<c, s, r, d>>
  <2> DEFINE a == <<c, s>>
             S == {c, s, r, d}
  <2>1. a \in Seq(S) /\ a[Len(a)] = s /\ r \in S /\ d \in S
    OBVIOUS
  <2>2. Append(a, d) = <<c, s, d>> /\ Append(Append(a, r), d) = <<c, s, r, d>>
    <3>1. /\ Append(a, d) = <<c, s, d>> /\ Append(a, r) = <<c, s, r>>
          /\ Append(<<c, s, r>>, d) = <<c, s, r, d>>
      BY AppendThird, AppendFourth, Zenon
    <3> HIDE DEF a
    <3> QED
      BY <3>1, Zenon
  <2>3. f1.route = a
    BY <1>6
  <2> HIDE DEF a, S
  <2>4. /\ Tier(s) = "sol" => f4.route = Append(a, d)
        /\ Tier(s) \in {"luna", "terra"} => f4.route = Append(Append(a, r), d)
    <3>1. /\ f2 = ForecastStep(lane, mode, f1, 2) /\ f3 = ForecastStep(lane, mode, f2, 3)
          /\ f4 = ForecastStep(lane, mode, f3, 4)
          /\ r = Model["rescue"] /\ d = DeepSelection(mode)
      BY <1>1
    <3>2. DOMAIN f1 = {"route", "repairs", "open"} /\ f1.open
      BY <1>3
    <3> QED
      BY <2>1, <2>3, <3>1, <3>2, ForecastEnds
  <2> QED
    BY <2>2, <2>4
<1>7. CASE lane = "mechanical"
  <2>1. f4.route = <<c, Model["mechanical_repair"], r, d>>
    BY <1>3, <1>4, <1>6, <1>7
  <2> QED
    BY <1>1, <1>2, <1>7, <2>1
<1>8. CASE lane = "high_risk"
  <2>1. f4.route = <<c, c, d>>
    BY <1>3, <1>5, <1>6, <1>8
  <2> QED
    BY <1>1, <1>2, <1>8, <2>1
<1>9. CASE lane \notin {"mechanical", "high_risk"}
  <2>1. f4.route \in {<<c, r, d>>, <<c, c, r, d>>}
    BY <1>3, <1>4, <1>5, <1>6, <1>9
  <2> QED
    BY <1>1, <1>2, <1>9, <2>1
<1> QED
  BY <1>7, <1>8, <1>9

\* The selections a forecast names.
Expected(lane, mode) ==
  {InitialSelection(lane), Model["rescue"], DeepSelection(mode)}
    \cup (IF lane = "mechanical" THEN {Model["mechanical_repair"]} ELSE {})

\* A forecast names them all, and climbs.
LEMMA ForecastAscends ==
  ASSUME DistinctTiers, NEW lane \in Lane, NEW mode, NEW f, f = Forecast(lane, mode)
  PROVE  /\ \A s \in Expected(lane, mode) : \E a \in DOMAIN f : f[a] = s
         /\ \A a, b \in DOMAIN f : a < b => Rank(f[a]) <= Rank(f[b])
         /\ DOMAIN f \subseteq Nat
<1> DEFINE c == InitialSelection(lane)
           m == Model["mechanical_repair"]
           r == Model["rescue"]
           d == DeepSelection(mode)
<1>1. /\ Rank(r) = 3 /\ Rank(d) = 4 /\ Rank(m) = 1
      /\ lane = "mechanical" => Rank(c) = 0
      /\ lane = "high_risk" => c = r
      /\ lane # "high_risk" => Rank(c) \in 0..2
  BY TiersApart, InitialTier
<1>2. f \in IF lane = "mechanical" THEN {<<c, m, r, d>>}
            ELSE IF lane = "high_risk" THEN {<<c, c, d>>}
            ELSE {<<c, r, d>>, <<c, c, r, d>>}
  BY ForecastOfALane
<1>3. Expected(lane, mode) = {c, r, d} \cup IF lane = "mechanical" THEN {m} ELSE {}
  BY DEF Expected
<1> HIDE DEF c, m, r, d
<1>4. ASSUME NEW x, NEW y, NEW z, f = <<x, y, z>>,
             Rank(x) <= Rank(y), Rank(y) <= Rank(z),
             Expected(lane, mode) \subseteq {x, y, z}
      PROVE  /\ \A s \in Expected(lane, mode) : \E a \in DOMAIN f : f[a] = s
             /\ \A a, b \in DOMAIN f : a < b => Rank(f[a]) <= Rank(f[b])
             /\ DOMAIN f \subseteq Nat
  <2>1. DOMAIN f = {1, 2, 3} /\ f[1] = x /\ f[2] = y /\ f[3] = z
    BY <1>4
  <2>2. Rank(x) <= Rank(z)
    BY <1>4, RankTyped
  <2>3. \A s \in Expected(lane, mode) : \E a \in DOMAIN f : f[a] = s
    BY <1>4, <2>1
  <2>4. \A a, b \in DOMAIN f : a < b => Rank(f[a]) <= Rank(f[b])
    BY <1>4, <2>1, <2>2
  <2> QED
    BY <2>1, <2>3, <2>4
<1>5. ASSUME NEW x, NEW y, NEW z, NEW w, f = <<x, y, z, w>>,
             Rank(x) <= Rank(y), Rank(y) <= Rank(z), Rank(z) <= Rank(w),
             Expected(lane, mode) \subseteq {x, y, z, w}
      PROVE  /\ \A s \in Expected(lane, mode) : \E a \in DOMAIN f : f[a] = s
             /\ \A a, b \in DOMAIN f : a < b => Rank(f[a]) <= Rank(f[b])
             /\ DOMAIN f \subseteq Nat
  <2>1. DOMAIN f = {1, 2, 3, 4} /\ f[1] = x /\ f[2] = y /\ f[3] = z /\ f[4] = w
    BY <1>5
  <2>2. Rank(x) <= Rank(z) /\ Rank(y) <= Rank(w) /\ Rank(x) <= Rank(w)
    BY <1>5, RankTyped
  <2>3. \A s \in Expected(lane, mode) : \E a \in DOMAIN f : f[a] = s
    BY <1>5, <2>1
  <2>4. \A a, b \in DOMAIN f : a < b => Rank(f[a]) <= Rank(f[b])
    BY <1>5, <2>1, <2>2
  <2> QED
    BY <2>1, <2>3, <2>4
<1>6. CASE lane = "mechanical"
  <2>1. /\ f = <<c, m, r, d>> /\ Expected(lane, mode) \subseteq {c, m, r, d}
        /\ Rank(c) <= Rank(m) /\ Rank(m) <= Rank(r) /\ Rank(r) <= Rank(d)
    BY <1>1, <1>2, <1>3, <1>6
  <2> QED
    BY <1>5, <2>1
<1>7. CASE lane = "high_risk"
  <2>1. /\ f = <<c, c, d>> /\ Expected(lane, mode) \subseteq {c, c, d}
        /\ Rank(c) <= Rank(c) /\ Rank(c) <= Rank(d)
    BY <1>1, <1>2, <1>3, <1>7
  <2> QED
    BY <1>4, <2>1
<1>8. CASE lane \notin {"mechanical", "high_risk"}
  <2>1. /\ f \in {<<c, r, d>>, <<c, c, r, d>>} /\ Expected(lane, mode) = {c, r, d}
        /\ Rank(c) <= Rank(c) /\ Rank(c) <= Rank(r) /\ Rank(r) <= Rank(d)
    BY <1>1, <1>2, <1>3, <1>8
  <2>2. CASE f = <<c, r, d>>
    BY <1>4, <2>1, <2>2
  <2>3. CASE f = <<c, c, r, d>>
    BY <1>5, <2>1, <2>3
  <2> QED
    BY <2>1, <2>2, <2>3
<1> QED
  BY <1>6, <1>7, <1>8

\* No failure leads a run away from the selections of its forecast.
LEMMA DecisionExpected ==
  ASSUME NEW s, s.failure # "success", s.current \in Expected(s.lane, s.deepMode),
         NextDecision(s).kind \notin {"block", "human_review"}
  PROVE  NextDecision(s).selection \in Expected(s.lane, s.deepMode)
<1> DEFINE E == Expected(s.lane, s.deepMode)
<1>1. /\ Model["rescue"] \in E /\ DeepSelection(s.deepMode) \in E
      /\ s.lane = "mechanical" => Model["mechanical_repair"] \in E
  BY DEF Expected
<1> HIDE DEF E
<1>2. s.current \in E
  BY DEF E
<1>3. \A d : d.selection \in E => RepairOr(s, d).selection \in E
  BY <1>2 DEF RepairOr, Decision
<1>4. Rescue.selection \in E
  BY <1>1 DEF Rescue, Decision
<1>5. LunaNext(s).selection \in E
  BY <1>1, <1>3, <1>4 DEF LunaNext, MechanicalStart, Decision
<1>6. Decision("escalate", DeepSelection(s.deepMode)).selection \in E
  BY <1>1 DEF Decision
<1>7. Ladder(s).kind \notin {"block", "human_review"} => Ladder(s).selection \in E
  BY <1>3, <1>4, <1>5, <1>6 DEF Ladder, Decision
<1>8. NextDecision(s).selection \in E
  BY <1>2, <1>7 DEF NextDecision, Decision
<1> QED
  BY <1>8 DEF E

\* The run stays among the selections of its forecast.
RouteExpected ==
  /\ selection \in Expected(req.lane, req.deepMode)
  /\ \A i \in DOMAIN route : route[i] \in Expected(req.lane, req.deepMode)

LEMMA RouteExpectedStep == TypeInv /\ RouteExpected /\ [Next]_vars => RouteExpected'
<1> SUFFICES ASSUME TypeInv, RouteExpected, [Next]_vars PROVE RouteExpected'
  OBVIOUS
<1> DEFINE E == Expected(req.lane, req.deepMode)
<1>1. req' = req
  BY StepsByBudget
     DEF Bystander, Leaving, NextAttempt, RouteFailure, RouteSubstantive, ApplyReview
<1>2. ASSUME selection' \in E, route' = route PROVE RouteExpected'
  BY <1>1, <1>2 DEF RouteExpected
<1>3. CASE UNCHANGED <<route, selection>>
  BY <1>2, <1>3 DEF RouteExpected
<1>4. CASE Leaving
  BY <1>1, <1>4 DEF Leaving, Forget, RouteExpected, Expected
<1>5. CASE NextAttempt
  <2>1. selection' = selection
    BY <1>5 DEF NextAttempt
  <2>2. CASE route' = Append(route, selection)
    <3>1. route \in Seq(Selection) /\ selection \in Selection
      BY DEF TypeInv, TypeOK
    <3>2. \A i \in DOMAIN route' :
            route'[i] = selection \/ (i \in DOMAIN route /\ route'[i] = route[i])
      BY <2>2, <3>1, AppendProperties
    <3> QED
      BY <1>1, <2>1, <3>2 DEF RouteExpected
  <2> QED
    BY <1>3, <1>5, <2>1, <2>2 DEF NextAttempt
<1>6. ASSUME NEW r, ApplyDecision(NextDecision(r)), r.lane = req.lane,
             r.deepMode = req.deepMode, r.current = selection, r.failure # "success"
      PROVE  selection' \in E
  BY <1>6, DecisionApplied, DecisionExpected DEF RouteExpected
<1>7. CASE RouteFailure
  <2> DEFINE r == RoutingState(outcome, FALSE, FALSE, 0)
  <2>1. /\ r.deepMode = req.deepMode /\ r.lane = req.lane /\ r.current = selection
        /\ r.failure = outcome /\ outcome # "success"
    BY <1>7 DEF RoutingState, RouteFailure, TypeInv
  <2>2. ApplyDecision(NextDecision(r)) /\ route' = route
    BY <1>7 DEF RouteFailure
  <2> HIDE DEF r
  <2> QED
    BY <1>2, <1>6, <2>1, <2>2
<1>8. CASE RouteSubstantive
  <2>1. PICK e \in failing : ApplyDecision(SubstantiveDecision(e))
    BY <1>8 DEF RouteSubstantive
  <2> DEFINE r == RoutingState("substantive", Progress(e), e \in seen,
                               repairs[selection])
  <2>2. /\ r.deepMode = req.deepMode /\ r.lane = req.lane /\ r.current = selection
        /\ r.failure = "substantive"
    BY DEF RoutingState
  <2>3. ApplyDecision(NextDecision(r)) /\ route' = route
    BY <1>8, <2>1 DEF RouteSubstantive, SubstantiveDecision
  <2> HIDE DEF r
  <2> QED
    BY <1>2, <1>6, <2>2, <2>3
<1>9. Bystander \/ ApplyReview => UNCHANGED <<route, selection>>
  BY DEF Bystander, ApplyReview, budgets
<1> QED
  BY <1>3, <1>4, <1>5, <1>7, <1>8, <1>9, StepsByBudget

\* A route that climbs among the selections of a forecast that climbs over all
\* of them keeps to its order.
LEMMA ClimbingRouteFollows ==
  ASSUME DistinctTiers, TypeInv, RouteClimbs, RouteExpected
  PROVE  RouteFollowsForecast
<1> DEFINE f == Forecast(req.lane, req.deepMode)
<1>1. req.lane \in Lane
  BY OrchestratorAssumption DEF TypeInv, TypeOK, Request
<1>2. /\ \A s \in Expected(req.lane, req.deepMode) : \E a \in DOMAIN f : f[a] = s
      /\ \A a, b \in DOMAIN f : a < b => Rank(f[a]) <= Rank(f[b])
      /\ DOMAIN f \subseteq Nat
  BY <1>1, ForecastAscends
<1> HIDE DEF f
<1>3. ASSUME NEW i \in DOMAIN route, NEW j \in DOMAIN route, i <= j
      PROVE  \E a, b \in DOMAIN f : a <= b /\ f[a] = route[i] /\ f[b] = route[j]
  <2>1. PICK a \in DOMAIN f, b \in DOMAIN f : f[a] = route[i] /\ f[b] = route[j]
    BY <1>2 DEF RouteExpected
  <2>2. route[i] = route[j] \/ Rank(route[i]) < Rank(route[j])
    BY <1>3 DEF RouteClimbs, TypeInv, TypeOK
  <2>3. a \in Nat /\ b \in Nat
    BY <1>2
  <2>4. CASE route[i] = route[j]
    BY <2>1, <2>3, <2>4
  <2>5. CASE Rank(route[i]) < Rank(route[j])
    <3>1. ~(b < a)
      BY <1>2, <2>1, <2>5, RankTyped
    <3> QED
      BY <2>1, <2>3, <3>1
  <2> QED
    BY <2>2, <2>4, <2>5
<1> QED
  BY <1>3 DEF RouteFollowsForecast, f

\* With the tiers apart, whatever fails in a run and however often, its
\* attempts use the selections that dry-run shows, and in that order.
THEOREM RunFollowsForecast ==
  ASSUME DistinctTiers
  PROVE  Spec => []RouteFollowsForecast
<1>1. AscendingTiers
  BY DEF DistinctTiers
<1>2. Init => RouteClimbs /\ RouteExpected
  BY DEF Init, RouteClimbs, RouteExpected, Expected
<1> QED
  BY <1>1, <1>2, TypeInit, TypeStep, RouteStep, RouteExpectedStep, ClimbingRouteFollows,
     PTL DEF Spec

-----------------------------------------------------------------------------
(***************************************************************************)
(* Failures that end a run, and what is repaired                           *)
(***************************************************************************)
\* The controller is about to start an attempt only after an outcome that does
\* not stop the run.
StopInv == pc \in StartSteps \cup {"next_attempt"} => outcome \notin STOP_CLASSES

\* A failure of a stop class settles the run.
LEMMA StopFailureSettles ==
  ASSUME RouteFailure, outcome \in STOP_CLASSES
  PROVE  pc' \in {"report", "illegal"}
<1> DEFINE r == RoutingState(outcome, FALSE, FALSE, 0)
<1>1. r.failure = outcome
  BY DEF RoutingState
<1> HIDE DEF r
<1>2. NextDecision(r).kind = "block"
  BY <1>1 DEF NextDecision, Decision, STOP_CLASSES
<1>3. ApplyDecision(NextDecision(r))
  BY DEF RouteFailure, r
<1> QED
  BY <1>2, <1>3, DecisionApplied

LEMMA StopStep == TypeInv /\ StopInv /\ [Next]_vars => StopInv'
<1> SUFFICES ASSUME TypeInv, StopInv, [Next]_vars PROVE StopInv'
  OBVIOUS
<1> USE DEF StopInv
<1>1. CASE Bystander
  BY <1>1 DEF Bystander, StartSteps, STOP_CLASSES
<1>2. CASE Leaving
  BY <1>2 DEF Leaving, StartSteps
<1>3. CASE NextAttempt
  BY <1>3 DEF NextAttempt, Settle, Transition, StartSteps
<1>4. CASE RouteFailure
  <2>1. outcome' = outcome
    BY <1>4 DEF RouteFailure, evidence
  <2>2. pc' \notin StartSteps
    BY <1>4, DecisionApplied DEF RouteFailure, StartSteps
  <2>3. outcome \in STOP_CLASSES => pc' # "next_attempt"
    BY <1>4, StopFailureSettles
  <2> QED
    BY <2>1, <2>2, <2>3
<1>5. CASE RouteSubstantive
  <2>1. outcome' = "failed"
    BY <1>5 DEF RouteSubstantive, evidence
  <2> QED
    BY <2>1 DEF STOP_CLASSES
<1>6. CASE ApplyReview
  <2>1. outcome' = outcome /\ outcome \in {"human_review", "invalid", "repair", "accept"}
    BY <1>6 DEF ApplyReview, evidence
  <2> QED
    BY <2>1 DEF STOP_CLASSES
<1> QED
  BY <1>1, <1>2, <1>3, <1>4, <1>5, <1>6, StepsByBudget

\* For every configuration: after a user error, a failure of a stop class or a
\* cancellation no further attempt is started.
THEOREM RunStopsForGood == Spec => StopClassStops
<1>1. Init => StopInv
  BY DEF Init, StopInv, STOP_CLASSES
<1>2. TypeInv /\ StopInv /\ [Next]_vars
        => [(outcome \in STOP_CLASSES) => ordinal' <= ordinal]_vars
  <2> SUFFICES ASSUME TypeInv, StopInv, [Next]_vars, outcome \in STOP_CLASSES
               PROVE  ordinal' <= ordinal
    OBVIOUS
  <2>1. ordinal \in 0..MaxAttempts
    BY DEF TypeInv, TypeOK
  <2>2. pc # "next_attempt"
    BY DEF StopInv
  <2>3. Leaving => ordinal' = 0
    BY DEF Leaving, Forget
  <2>4. Bystander \/ RouteFailure \/ RouteSubstantive \/ ApplyReview => ordinal' = ordinal
    BY DEF Bystander, RouteFailure, RouteSubstantive, ApplyReview
  <2>5. ~NextAttempt
    BY <2>2 DEF NextAttempt
  <2> QED
    BY <2>1, <2>3, <2>4, <2>5, StepsByBudget, OrchestratorAssumption
<1> QED
  BY <1>1, <1>2, TypeInit, TypeStep, StopStep, PTL DEF Spec, StopClassStops

\* A repair is granted within its budget and on a fingerprint that is new.
LEMMA RepairGranted ==
  ASSUME TypeInv, RouteSubstantive
  PROVE  \/ repairs' = repairs
         \/ /\ repairs[selection] < req.maxRepairs
            /\ repairs' = [repairs EXCEPT ![selection] = @ + 1]
            /\ seen' # seen
<1>1. PICK e \in failing :
        /\ seen' = seen \cup {e}
        /\ repairs' = IF SubstantiveDecision(e).kind = "repair"
                      THEN [repairs EXCEPT ![selection] = @ + 1] ELSE repairs
  BY DEF RouteSubstantive
<1> DEFINE r == RoutingState("substantive", Progress(e), e \in seen,
                             repairs[selection])
<1>2. CASE SubstantiveDecision(e).kind = "repair"
  <2>1. /\ r.repeated = (e \in seen) /\ r.repairs = repairs[selection]
        /\ r.maxRepairs = req.maxRepairs
    BY DEF RoutingState
  <2>2. RepairAllowed(r)
    BY <1>2, RepairsAllowed DEF SubstantiveDecision
  <2> QED
    BY <1>1, <1>2, <2>1, <2>2 DEF RepairAllowed
<1> QED
  BY <1>1, <1>2

\* Nothing was repaired before a fingerprint was recorded.
RepairedSeen == seen = {} => repairs = [s \in Selection |-> 0]

LEMMA RepairedSeenStep == TypeInv /\ RepairedSeen /\ [Next]_vars => RepairedSeen'
<1> SUFFICES ASSUME TypeInv, RepairedSeen, [Next]_vars PROVE RepairedSeen'
  OBVIOUS
<1> USE DEF RepairedSeen
<1>1. Bystander \/ NextAttempt \/ RouteFailure \/ ApplyReview
        => UNCHANGED <<seen, repairs>>
  BY DEF Bystander, NextAttempt, RouteFailure, ApplyReview, budgets
<1>2. Leaving => RepairedSeen'
  BY DEF Leaving, Forget
<1>3. RouteSubstantive => seen' # {}
  BY DEF RouteSubstantive
<1> QED
  BY <1>1, <1>2, <1>3, StepsByBudget

\* For every evidence and every budget: whenever the count of repairs moves, the
\* fingerprint just recorded was not there before.
THEOREM RunRepairsOnNewEvidence == Spec => RepairNeedsNewEvidence
<1>1. Init => RepairedSeen
  BY DEF Init, RepairedSeen
<1>2. TypeInv /\ RepairedSeen /\ [Next]_vars
        => [repairs' # repairs => seen' # seen]_vars
  <2> SUFFICES ASSUME TypeInv, RepairedSeen, [Next]_vars, seen' = seen
               PROVE  repairs' = repairs
    OBVIOUS
  <2>1. Bystander \/ NextAttempt \/ RouteFailure \/ ApplyReview => repairs' = repairs
    BY DEF Bystander, NextAttempt, RouteFailure, ApplyReview, budgets
  <2>2. Leaving => repairs' = repairs
    BY DEF Leaving, Forget, RepairedSeen
  <2>3. RouteSubstantive => repairs' = repairs
    BY RepairGranted
  <2> QED
    BY <2>1, <2>2, <2>3, StepsByBudget
<1> QED
  BY <1>1, <1>2, TypeInit, TypeStep, RepairedSeenStep, PTL
     DEF Spec, RepairNeedsNewEvidence

-----------------------------------------------------------------------------
(***************************************************************************)
(* Every attempt is paid for                                               *)
(***************************************************************************)
AttemptsOn(s) == {i \in DOMAIN route : route[i] = s}

\* The attempt that the controller is about to start.
Pending(s) == IF pc = "next_attempt" /\ s = selection THEN 1 ELSE 0

Paid(s) == 1 + repairs[s] + transientRetries + reviewerRepairs

PaidInv ==
  /\ \A s \in Selection : repairs[s] <= req.maxRepairs
  /\ transientRetries <= req.maxTransient + 1
  /\ pc \notin EndSteps => transientRetries <= req.maxTransient
  /\ pc \in StartSteps => route = <<>>
  /\ \A s \in Selection : Cardinality(AttemptsOn(s)) + Pending(s) <= Paid(s)

LEMMA AttemptsFinite ==
  ASSUME TypeInv, NEW s
  PROVE  IsFiniteSet(AttemptsOn(s)) /\ Cardinality(AttemptsOn(s)) \in Nat
<1>1. DOMAIN route = 1..Len(route) /\ Len(route) \in Nat
  BY DEF TypeInv, TypeOK
<1>2. IsFiniteSet(1..Len(route))
  BY <1>1, FS_Interval
<1>3. AttemptsOn(s) \subseteq 1..Len(route)
  BY <1>1 DEF AttemptsOn
<1> QED
  BY <1>2, <1>3, FS_Subset, FS_CardinalityType

LEMMA NoAttempts ==
  ASSUME route = <<>>, NEW s
  PROVE  Cardinality(AttemptsOn(s)) = 0
<1>1. AttemptsOn(s) = {}
  BY DEF AttemptsOn
<1> QED
  BY <1>1, FS_EmptySet

\* The budgets of a well-typed run are natural numbers.
LEMMA BudgetsTyped ==
  ASSUME TypeInv
  PROVE  /\ \A s \in Selection : repairs[s] \in Nat
         /\ transientRetries \in Nat /\ reviewerRepairs \in Nat
         /\ req.maxRepairs \in Nat /\ req.maxTransient \in Nat
         /\ selection \in Selection
BY OrchestratorAssumption DEF TypeInv, TypeOK, Request

\* An attempt that is started is no longer pending.
LEMMA PaidAttempt ==
  ASSUME TypeInv, PaidInv, NextAttempt
  PROVE  PaidInv'
<1>1. /\ pc = "next_attempt" /\ pc' \in {"report", "illegal", "launch"}
      /\ UNCHANGED <<req, selection, repairs, transientRetries, reviewerRepairs>>
  BY DEF NextAttempt, Settle, Transition
<1>2. ASSUME NEW s \in Selection
      PROVE  /\ Cardinality(AttemptsOn(s)') \in Nat
             /\ Cardinality(AttemptsOn(s)') <= Cardinality(AttemptsOn(s)) + Pending(s)
  <2>1. CASE route' = route
    <3>1. AttemptsOn(s)' = AttemptsOn(s)
      BY <2>1 DEF AttemptsOn
    <3> QED
      BY <3>1, AttemptsFinite DEF Pending
  <2>2. CASE route' = Append(route, selection)
    <3>1. route \in Seq(Selection) /\ selection \in Selection
      BY DEF TypeInv, TypeOK
    <3>2. /\ DOMAIN route' = 1..Len(route) + 1 /\ DOMAIN route = 1..Len(route)
          /\ Len(route) \in Nat
          /\ \A i \in 1..Len(route) : route'[i] = route[i]
          /\ route'[Len(route) + 1] = selection
      BY <2>2, <3>1, AppendProperties
    <3>3. CASE s = selection
      <4>1. AttemptsOn(s)' = AttemptsOn(s) \cup {Len(route) + 1}
        BY <3>2, <3>3 DEF AttemptsOn
      <4>2. Len(route) + 1 \notin AttemptsOn(s)
        BY <3>2 DEF AttemptsOn
      <4>3. Cardinality(AttemptsOn(s)') = Cardinality(AttemptsOn(s)) + 1
        BY <4>1, <4>2, AttemptsFinite, FS_AddElement
      <4> QED
        BY <1>1, <3>3, <4>3, AttemptsFinite DEF Pending
    <3>4. CASE s # selection
      <4>1. AttemptsOn(s)' = AttemptsOn(s)
        BY <3>2, <3>4 DEF AttemptsOn
      <4> QED
        BY <3>4, <4>1, AttemptsFinite DEF Pending
    <3> QED
      BY <3>3, <3>4
  <2> QED
    BY <2>1, <2>2 DEF NextAttempt
<1>3. \A s \in Selection : Pending(s)' = 0 /\ Paid(s)' = Paid(s)
  BY <1>1 DEF Pending, Paid
<1>4. \A s \in Selection : Cardinality(AttemptsOn(s)') <= Paid(s)
  <2> SUFFICES ASSUME NEW s \in Selection
               PROVE  Cardinality(AttemptsOn(s)') <= Paid(s)
    OBVIOUS
  <2>1. Cardinality(AttemptsOn(s)) + Pending(s) <= Paid(s)
    BY DEF PaidInv
  <2>2. Paid(s) \in Nat /\ Pending(s) \in Nat /\ Cardinality(AttemptsOn(s)) \in Nat
    BY BudgetsTyped, AttemptsFinite DEF Paid, Pending
  <2> QED
    BY <1>2, <2>1, <2>2
<1>5. \A s \in Selection : Cardinality(AttemptsOn(s)') + Pending(s)' <= Paid(s)'
  <2>1. \A s \in Selection : Cardinality(AttemptsOn(s)') + 0 <= Paid(s)
    BY <1>2, <1>4
  <2> QED
    BY <1>3, <2>1
<1>6. /\ \A s \in Selection : repairs'[s] <= req'.maxRepairs
      /\ transientRetries' <= req'.maxTransient + 1
      /\ pc' \notin EndSteps => transientRetries' <= req'.maxTransient
      /\ pc' \notin StartSteps
  BY <1>1 DEF PaidInv, EndSteps, StartSteps
<1> QED
  BY <1>5, <1>6 DEF PaidInv

\* A decision pays for the attempt it leads to, or climbs to a selection that
\* the route has not used.
LEMMA PaidDecision ==
  ASSUME TypeInv, RouteClimbs, PaidInv,
         UNCHANGED <<req, route, reviewerRepairs>>, pc \notin EndSteps,
         selection' \in Selection,
         \A s \in Selection : repairs'[s] \in Nat /\ repairs[s] <= repairs'[s],
         \A s \in Selection : repairs'[s] <= req.maxRepairs,
         transientRetries' \in transientRetries..(req.maxTransient + 1),
         pc' \in {"report", "illegal"}
           \/ /\ pc' = "next_attempt" /\ transientRetries' <= req.maxTransient
              /\ \/ Rank(selection) < Rank(selection')
                 \/ /\ selection' = selection
                    /\ \/ repairs'[selection] = repairs[selection] + 1
                       \/ transientRetries' = transientRetries + 1
  PROVE  PaidInv'
<1>1. \A s : AttemptsOn(s)' = AttemptsOn(s)
  BY DEF AttemptsOn
<1>2. ASSUME NEW s \in Selection
      PROVE  Cardinality(AttemptsOn(s)) + Pending(s)' <= Paid(s)'
  <2>1. Cardinality(AttemptsOn(s)) + Pending(s) <= Paid(s)
    BY DEF PaidInv
  <2>2. Cardinality(AttemptsOn(s)) \in Nat /\ Pending(s) \in Nat
    BY AttemptsFinite DEF Pending
  <2>3. Cardinality(AttemptsOn(s)) <= Paid(s)
    BY <2>1, <2>2, BudgetsTyped DEF Paid
  <2>4. Paid(s) <= Paid(s)' /\ Paid(s) \in Nat /\ Paid(s)' \in Nat
    BY BudgetsTyped DEF Paid
  <2>5. CASE Pending(s)' = 0
    BY <2>2, <2>3, <2>4, <2>5
  <2>6. CASE pc' = "next_attempt" /\ s = selection'
    <3>1. Pending(s)' = 1
      BY <2>6 DEF Pending
    <3>2. CASE Rank(selection) < Rank(selection')
      <4>1. \A i \in DOMAIN route : route[i] # s
        BY <2>6, <3>2, RankTyped DEF RouteClimbs
      <4>2. AttemptsOn(s) = {}
        BY <4>1 DEF AttemptsOn
      <4>3. Cardinality(AttemptsOn(s)) = 0
        BY <4>2, FS_EmptySet
      <4>4. 1 <= Paid(s)'
        BY BudgetsTyped DEF Paid
      <4> QED
        BY <2>4, <3>1, <4>3, <4>4
    <3>3. CASE /\ selection' = selection
               /\ \/ repairs'[selection] = repairs[selection] + 1
                  \/ transientRetries' = transientRetries + 1
      <4>1. Paid(s) + 1 <= Paid(s)'
        BY <2>6, <3>3, BudgetsTyped DEF Paid
      <4> QED
        BY <2>2, <2>3, <2>4, <3>1, <4>1
    <3> QED
      BY <2>6, <3>2, <3>3
  <2> QED
    BY <2>5, <2>6 DEF Pending
<1>3. /\ pc' \notin StartSteps
      /\ transientRetries' <= req'.maxTransient + 1
      /\ pc' \notin EndSteps => transientRetries' <= req'.maxTransient
  BY BudgetsTyped DEF StartSteps, EndSteps
<1> QED
  BY <1>1, <1>2, <1>3 DEF PaidInv

LEMMA PaidStep ==
  ASSUME DistinctTiers
  PROVE  TypeInv /\ RouteClimbs /\ PaidInv /\ [Next]_vars => PaidInv'
<1> SUFFICES ASSUME TypeInv, RouteClimbs, PaidInv, [Next]_vars PROVE PaidInv'
  OBVIOUS
<1> USE BudgetsTyped
<1>1. selection' \in Selection /\ \A s \in Selection : repairs'[s] \in Nat
  BY TypeStep DEF TypeInv, TypeOK
<1>2. CASE Bystander
  <2>1. UNCHANGED <<req, route, selection, repairs, transientRetries, reviewerRepairs>>
    BY <1>2 DEF Bystander, budgets
  <2>2. \A s : AttemptsOn(s)' = AttemptsOn(s) /\ Paid(s)' = Paid(s)
    BY <2>1 DEF AttemptsOn, Paid
  <2>3. ASSUME NEW s \in Selection
        PROVE  Cardinality(AttemptsOn(s)) + Pending(s)' <= Paid(s)
    <3>1. Cardinality(AttemptsOn(s)) + Pending(s) <= Paid(s)
      BY DEF PaidInv
    <3>2. Cardinality(AttemptsOn(s)) \in Nat /\ Paid(s) \in Nat
      BY AttemptsFinite DEF Paid
    <3>3. CASE pc' = "next_attempt" /\ pc = "judge_baseline"
      <4>1. Cardinality(AttemptsOn(s)) = 0
        BY <3>3, NoAttempts DEF PaidInv, StartSteps
      <4> QED
        BY <4>1 DEF Paid, Pending
    <3>4. CASE pc' # "next_attempt" \/ pc = "next_attempt"
      BY <2>1, <3>1, <3>2, <3>4 DEF Pending
    <3> QED
      BY <1>2, <3>3, <3>4 DEF Bystander
  <2> QED
    BY <1>2, <2>1, <2>2, <2>3 DEF PaidInv, Bystander
<1>3. CASE Leaving
  <2>1. /\ req' = req /\ route' = <<>> /\ repairs' = [s \in Selection |-> 0]
        /\ transientRetries' = 0 /\ reviewerRepairs' = 0
        /\ pc' \in {"release", "raised"}
    BY <1>3 DEF Leaving, Forget
  <2>2. \A s : AttemptsOn(s)' = {}
    BY <2>1 DEF AttemptsOn
  <2>3. ASSUME NEW s \in Selection
        PROVE  Cardinality(AttemptsOn(s)') + Pending(s)' <= Paid(s)'
    <3>1. Cardinality(AttemptsOn(s)') = 0
      BY <2>2, FS_EmptySet
    <3>2. Pending(s)' = 0 /\ Paid(s)' = 1
      BY <2>1 DEF Pending, Paid
    <3> QED
      BY <3>1, <3>2
  <2> QED
    BY <2>1, <2>3 DEF PaidInv, StartSteps, EndSteps
<1>4. CASE NextAttempt
  BY <1>4, PaidAttempt
<1>5. CASE RouteFailure
  <2>1. /\ UNCHANGED <<req, route, repairs, reviewerRepairs>>
        /\ pc = "route_failure"
        /\ transientRetries' = IF outcome = "transient"
                               THEN transientRetries + 1 ELSE transientRetries
    BY <1>5 DEF RouteFailure
  <2>2. pc \notin EndSteps /\ transientRetries <= req.maxTransient
    BY <2>1 DEF PaidInv, EndSteps
  <2>3. \A s \in Selection : repairs'[s] <= req.maxRepairs
    BY <2>1 DEF PaidInv
  <2>4. pc' \in {"report", "illegal"}
          \/ /\ pc' = "next_attempt"
             /\ \/ outcome # "transient" /\ Rank(selection) < Rank(selection')
                \/ /\ outcome = "transient" /\ transientRetries < req.maxTransient
                   /\ selection' = selection
    BY <1>5, FailureDecided DEF DistinctTiers
  <2>5. transientRetries' \in transientRetries..(req.maxTransient + 1)
    BY <2>1, <2>2
  <2>6. \A s \in Selection : repairs'[s] \in Nat /\ repairs[s] <= repairs'[s]
    BY <1>1, <2>1
  <2>7. pc' \in {"report", "illegal"}
          \/ /\ pc' = "next_attempt" /\ transientRetries' <= req.maxTransient
             /\ \/ Rank(selection) < Rank(selection')
                \/ /\ selection' = selection
                   /\ \/ repairs'[selection] = repairs[selection] + 1
                      \/ transientRetries' = transientRetries + 1
    BY <2>1, <2>2, <2>4
  <2>8. UNCHANGED <<req, route, reviewerRepairs>> /\ pc \notin EndSteps
    BY <2>1, <2>2
  <2> QED
    BY <1>1, <2>3, <2>5, <2>6, <2>7, <2>8, PaidDecision, Zenon
<1>6. CASE RouteSubstantive
  <2>1. UNCHANGED <<req, route, transientRetries, reviewerRepairs>> /\ pc = "decide"
    BY <1>6 DEF RouteSubstantive
  <2>2. pc \notin EndSteps /\ transientRetries <= req.maxTransient
    BY <2>1 DEF PaidInv, EndSteps
  <2>3. repairs \in [Selection -> Nat]
    BY DEF TypeInv, TypeOK
  <2>4. \A s \in Selection : repairs[s] <= req.maxRepairs
    BY DEF PaidInv
  <2>5. /\ \A s \in Selection : repairs'[s] \in Nat /\ repairs[s] <= repairs'[s]
        /\ \A s \in Selection : repairs'[s] <= req.maxRepairs
    BY <1>1, <1>6, <2>3, <2>4, RepairGranted
  <2>6. pc' \in {"report", "illegal"}
          \/ /\ pc' = "next_attempt" /\ transientRetries' <= req.maxTransient
             /\ \/ Rank(selection) < Rank(selection')
                \/ /\ selection' = selection
                   /\ \/ repairs'[selection] = repairs[selection] + 1
                      \/ transientRetries' = transientRetries + 1
    BY <1>6, <2>1, <2>2, <2>3, CandidateDecided DEF DistinctTiers
  <2>7. transientRetries' \in transientRetries..(req.maxTransient + 1)
    BY <2>1, <2>2
  <2>8. UNCHANGED <<req, route, reviewerRepairs>> /\ pc \notin EndSteps
    BY <2>1, <2>2
  <2> QED
    BY <1>1, <2>5, <2>6, <2>7, <2>8, PaidDecision, Zenon
<1>7. CASE ApplyReview
  <2>1. /\ UNCHANGED <<req, route, selection, repairs, transientRetries>>
        /\ pc = "apply_review" /\ pc' \notin StartSteps
        /\ \/ reviewerRepairs' = reviewerRepairs + 1
           \/ reviewerRepairs' = reviewerRepairs /\ pc' # "next_attempt"
    BY <1>7 DEF ApplyReview, Settle, Transition, Goto, StartSteps
  <2>2. \A s : AttemptsOn(s)' = AttemptsOn(s)
    BY <2>1 DEF AttemptsOn
  <2>3. ASSUME NEW s \in Selection
        PROVE  Cardinality(AttemptsOn(s)) + Pending(s)' <= Paid(s)'
    <3>1. Cardinality(AttemptsOn(s)) + Pending(s) <= Paid(s)
      BY DEF PaidInv
    <3> QED
      BY <2>1, <3>1, AttemptsFinite DEF Pending, Paid
  <2> QED
    BY <2>1, <2>2, <2>3 DEF PaidInv, EndSteps
<1> QED
  BY <1>2, <1>3, <1>4, <1>5, <1>6, <1>7, StepsByBudget

\* If, besides, every escalation is a change of selection: for every budget,
\* loop limit and evidence, each attempt on a selection after the first is paid
\* for by a repair, a transient retry or the reviewer repair, within its budget.
THEOREM RunAttemptsPaidFor ==
  ASSUME DistinctTiers
  PROVE  Spec => []AttemptsArePaidFor
<1>1. AscendingTiers
  BY DEF DistinctTiers
<1>2. Init => RouteClimbs
  BY DEF Init, RouteClimbs
<1>3. Init => PaidInv
  <2> SUFFICES ASSUME Init PROVE PaidInv
    OBVIOUS
  <2>1. \A s \in Selection : Cardinality(AttemptsOn(s)) = 0
    BY NoAttempts DEF Init
  <2>2. req.maxRepairs \in Nat /\ req.maxTransient \in Nat
    BY TypeInit, BudgetsTyped
  <2> QED
    BY <2>1, <2>2 DEF Init, PaidInv, Pending, Paid
<1>4. TypeInv /\ PaidInv => AttemptsArePaidFor
  <2> SUFFICES ASSUME TypeInv, PaidInv PROVE AttemptsArePaidFor
    OBVIOUS
  <2>1. ASSUME NEW s \in Selection PROVE Cardinality(AttemptsOn(s)) <= Paid(s)
    <3>1. Cardinality(AttemptsOn(s)) + Pending(s) <= Paid(s)
      BY DEF PaidInv
    <3> QED
      BY <3>1, AttemptsFinite, BudgetsTyped DEF Pending, Paid
  <2> QED
    BY <2>1 DEF AttemptsArePaidFor, AttemptsOn, Paid, PaidInv
<1>5. TypeInv /\ RouteClimbs /\ [Next]_vars => RouteClimbs'
  BY <1>1, RouteStep
<1> QED
  BY <1>2, <1>3, <1>4, <1>5, TypeInit, TypeStep, PaidStep, PTL DEF Spec

-----------------------------------------------------------------------------
(***************************************************************************)
(* A run comes to an end: every step of the controller uses up some of the *)
(* steps it has left                                                       *)
(***************************************************************************)
\* How far a step of the controller is from the end of its round.  A round of
\* the loop ends where the next one is asked for.
Rung(step) ==
  CASE step = "report" -> 0          [] step = "next_attempt" -> 1
    [] step = "accept" -> 2          [] step = "policy_blocked" -> 3
    [] step = "final_export" -> 4    [] step = "final_policy_export" -> 5
    [] step = "check_original" -> 6  [] step = "judge_final" -> 7
    [] step = "run_final" -> 8       [] step = "enter_final" -> 9
    [] step = "apply_review" -> 10   [] step = "judge_review" -> 11
    [] step = "run_review" -> 12     [] step = "review_launch" -> 13
    [] step = "policy_export" -> 14  [] step = "decide" -> 15
    [] step = "to_routing" -> 16     [] step = "judge_candidate" -> 17
    [] step = "run_candidate" -> 18  [] step = "route_failure" -> 19
    [] step = "classify" -> 20       [] step = "record_attempt" -> 21
    [] step = "run_codex" -> 22      [] step = "launch" -> 23
    [] step = "judge_baseline" -> 24 [] step = "run_baseline" -> 25
    [] step = "validator_preflight" -> 26 [] step = "worktree_ready" -> 27
    [] step = "create_worktree" -> 28 [] step = "creating" -> 29
    [] step = "source_snapshotted" -> 30 [] step = "capture_original" -> 31
    [] step = "preflight" -> 32      [] OTHER -> 33

\* What a journaled operation has before it: its plan, its start, its effect
\* (two for a worktree, which is added and then marked as owned) and its end.
OperationLeft ==
  IF pc \notin JournaledSteps THEN 0
  ELSE IF journal[Op] = "absent" THEN 4
  ELSE IF journal[Op] = "planned" THEN 3
  ELSE IF performed THEN 0
  ELSE IF ownership = "absent" THEN 2 ELSE 1

\* A bound on the steps the controller has left.
StepsLeft ==
  IF pc = "gone" THEN 0
  ELSE IF pc \in {"release", "raised", "illegal"} THEN 1
  ELSE 2 + 200 * (MaxAttempts - ordinal) + 5 * Rung(pc) + OperationLeft

LEMMA RungsTyped == \A s : Rung(s) \in 0..33
BY DEF Rung

LEMMA Rungs ==
  /\ Rung("report") = 0 /\ Rung("next_attempt") = 1 /\ Rung("accept") = 2
  /\ Rung("policy_blocked") = 3 /\ Rung("final_export") = 4
  /\ Rung("final_policy_export") = 5 /\ Rung("check_original") = 6
  /\ Rung("judge_final") = 7 /\ Rung("run_final") = 8 /\ Rung("enter_final") = 9
  /\ Rung("apply_review") = 10 /\ Rung("judge_review") = 11
  /\ Rung("run_review") = 12 /\ Rung("review_launch") = 13
  /\ Rung("policy_export") = 14 /\ Rung("decide") = 15 /\ Rung("to_routing") = 16
  /\ Rung("judge_candidate") = 17 /\ Rung("run_candidate") = 18
  /\ Rung("route_failure") = 19 /\ Rung("classify") = 20
  /\ Rung("record_attempt") = 21 /\ Rung("run_codex") = 22 /\ Rung("launch") = 23
  /\ Rung("judge_baseline") = 24 /\ Rung("run_baseline") = 25
  /\ Rung("validator_preflight") = 26 /\ Rung("worktree_ready") = 27
  /\ Rung("create_worktree") = 28 /\ Rung("creating") = 29
  /\ Rung("source_snapshotted") = 30 /\ Rung("capture_original") = 31
  /\ Rung("preflight") = 32 /\ Rung("acquire_lock") = 33
BY DEF Rung

LEMMA StepsLeftTyped ==
  ASSUME TypeInv
  PROVE  /\ StepsLeft \in 0..(200 * (MaxAttempts + 1))
         /\ OperationLeft \in 0..4
         /\ ordinal \in Nat /\ MaxAttempts - ordinal \in Nat
<1>1. MaxAttempts \in Nat /\ ordinal \in 0..MaxAttempts
  BY OrchestratorAssumption DEF TypeInv, TypeOK
<1>2. OperationLeft \in 0..4
  BY DEF OperationLeft
<1>3. Rung(pc) \in 0..33
  BY RungsTyped
<1>4. StepsLeft \in 0..(200 * (MaxAttempts + 1))
  BY <1>1, <1>2, <1>3 DEF StepsLeft
<1> QED
  BY <1>1, <1>2, <1>4

\* The steps of a run, by name.
LEMMA StepsOfARun ==
  /\ RunSteps =
       {"acquire_lock", "preflight", "capture_original", "source_snapshotted",
        "creating", "create_worktree", "worktree_ready", "validator_preflight",
        "run_baseline", "judge_baseline", "next_attempt", "launch", "run_codex",
        "record_attempt", "classify", "route_failure", "run_candidate",
        "judge_candidate", "to_routing", "decide", "policy_export",
        "review_launch", "run_review", "judge_review", "apply_review",
        "enter_final", "run_final", "judge_final", "final_policy_export",
        "check_original", "final_export", "policy_blocked", "accept"}
  /\ JournaledSteps \subseteq RunSteps
BY DEF RunSteps, JournaledSteps, PlainSteps, BranchSteps

\* A step between two operations goes down the round.
GoesDown ==
  /\ pc \in RunSteps \ JournaledSteps
  /\ UNCHANGED <<ordinal, journal, performed>>
  /\ \/ pc' = "illegal"
     \/ Rung(pc') < Rung(pc) /\ pc' \in RunSteps \cup {"report"}

Performs ==
  /\ pc \in JournaledSteps /\ journal[Op] = "started" /\ ~performed
  /\ UNCHANGED <<pc, ordinal, journal>>
  /\ OperationLeft' < OperationLeft

\* The journal follows an operation from its plan to its end.
Journals ==
  /\ pc \in JournaledSteps
  /\ ordinal' = ordinal
  /\ \E from, to \in OperationStatus :
       /\ journal[Op] = from /\ journal' = [journal EXCEPT ![Op] = to]
       /\ \/ from = "absent" /\ to = "planned" /\ UNCHANGED <<pc, performed, ownership>>
          \/ from = "planned" /\ to = "started" /\ UNCHANGED <<pc, performed, ownership>>
          \/ /\ from = "started" /\ to = "completed" /\ performed' = FALSE
             /\ Rung(pc') < Rung(pc) /\ pc' \in RunSteps

\* A round of the loop begins.
Begins ==
  /\ pc = "next_attempt" /\ ordinal < MaxAttempts /\ ordinal' = ordinal + 1
  /\ pc' \in {"launch", "illegal"} /\ UNCHANGED <<journal, performed>>

\* Where a transition leads.
LEMMA TransitionDescends ==
  ASSUME NEW target, NEW next, Transition(target, next)
  PROVE  pc' \in {next, "illegal"} /\ journal' = journal
BY DEF Transition, durable

LEMMA OperationDescends ==
  ASSUME TypeInv, PlanOperation \/ StartOperation \/ CompleteOperation \/ Advance
  PROVE  GoesDown \/ Journals
<1> USE DEF Journals, OperationStatus
<1>1. CASE PlanOperation
  BY <1>1 DEF PlanOperation, world
<1>2. CASE StartOperation
  BY <1>2 DEF StartOperation, world
<1>3. CASE CompleteOperation
  <2>1. \A s \in JournaledSteps :
          Rung(AfterOperation[s]) < Rung(s) /\ AfterOperation[s] \in RunSteps
    BY Rungs, StepsOfARun DEF JournaledSteps, AfterOperation
  <2> QED
    BY <1>3, <2>1 DEF CompleteOperation
<1>4. CASE Advance
  <2>1. /\ pc \in DOMAIN PlainSteps /\ UNCHANGED <<ordinal, journal, performed>>
        /\ pc' \in {PlainSteps[pc][2], "illegal"}
    BY <1>4, TransitionDescends DEF Advance
  <2>2. \A s \in DOMAIN PlainSteps :
          /\ Rung(PlainSteps[s][2]) < Rung(s)
          /\ PlainSteps[s][2] \in RunSteps \cup {"report"} /\ s \notin JournaledSteps
    BY Rungs, StepsOfARun DEF PlainSteps, JournaledSteps
  <2> QED
    BY <2>1, <2>2 DEF GoesDown, RunSteps
<1> QED
  BY <1>1, <1>2, <1>3, <1>4

\* An effect of an operation that is not a new worktree.
LEMMA EffectDescends ==
  ASSUME NEW step \in JournaledSteps, Performing(step), performed',
         UNCHANGED <<pc, ordinal, journal>>
  PROVE  Performs
<1>1. pc = step /\ journal[Op] = "started" /\ ~performed
  BY DEF Performing
<1>2. Op' = Op
  BY DEF Op
<1>3. OperationLeft \in {1, 2} /\ OperationLeft' = 0
  BY <1>1, <1>2 DEF OperationLeft
<1> QED
  BY <1>1, <1>3 DEF Performs

\* From the lock to the verdict on the baseline.
LEMMA StartDescends ==
  ASSUME TypeInv,
         \/ AcquireLock \/ CaptureOriginal \/ BeginCreating \/ CreateWorktree
         \/ ValidatorPreflight \/ RunBaseline \/ JudgeBaseline
  PROVE  GoesDown \/ Performs
<1> USE StepsOfARun DEF JournaledSteps, GoesDown
<1>1. CASE AcquireLock
  <2>1. /\ pc = "acquire_lock" /\ UNCHANGED <<ordinal, journal, performed>>
        /\ pc' \in {"preflight", "report", "illegal"}
    BY <1>1, TransitionDescends DEF AcquireLock, Settle
  <2> QED
    BY <2>1, Rungs
<1>2. CASE CaptureOriginal
  BY <1>2, EffectDescends DEF CaptureOriginal, JournaledSteps, durable
<1>3. CASE BeginCreating
  <2>1. /\ pc = "creating" /\ UNCHANGED <<ordinal, journal, performed>>
        /\ pc' \in {"create_worktree", "report", "illegal"}
    BY <1>3, TransitionDescends DEF BeginCreating, Settle
  <2> QED
    BY <2>1, Rungs
<1>4. CASE CreateWorktree
  <2>1. /\ Performing("create_worktree") /\ UNCHANGED <<pc, ordinal, journal>>
    BY <1>4 DEF CreateWorktree, durable
  <2>2. CASE ownership = "unowned" /\ performed' = TRUE
    BY <2>1, <2>2, EffectDescends DEF JournaledSteps
  <2>3. CASE ownership = "absent" /\ ownership' = "unowned" /\ performed' = performed
    <3>1. pc = "create_worktree" /\ journal[Op] = "started" /\ ~performed
      BY <2>1 DEF Performing
    <3>2. Op' = Op
      BY <2>1 DEF Op
    <3>3. OperationLeft = 2 /\ OperationLeft' = 1
      BY <2>1, <2>3, <3>1, <3>2 DEF OperationLeft, JournaledSteps
    <3> QED
      BY <2>1, <3>1, <3>3 DEF Performs
  <2> QED
    BY <1>4, <2>2, <2>3 DEF CreateWorktree
<1>5. CASE ValidatorPreflight
  <2>1. /\ pc = "validator_preflight" /\ UNCHANGED <<ordinal, journal, performed>>
        /\ pc' \in {"run_baseline", "report", "illegal"}
    BY <1>5, TransitionDescends DEF ValidatorPreflight, Settle
  <2> QED
    BY <2>1, Rungs
<1>6. CASE RunBaseline
  BY <1>6, EffectDescends DEF RunBaseline, JournaledSteps, durable
<1>7. CASE JudgeBaseline
  <2>1. /\ pc = "judge_baseline" /\ UNCHANGED <<ordinal, journal, performed>>
        /\ pc' \in {"next_attempt", "report", "illegal"}
    BY <1>7, TransitionDescends DEF JudgeBaseline, Settle
  <2> QED
    BY <2>1, Rungs
<1> QED
  BY <1>1, <1>2, <1>3, <1>4, <1>5, <1>6, <1>7

\* A new attempt, or none.
LEMMA AttemptDescends ==
  ASSUME TypeInv, NextAttempt
  PROVE  GoesDown \/ Begins
<1>1. CASE ordinal' = ordinal
  <2>1. /\ pc = "next_attempt" /\ pc' \in {"report", "illegal"}
        /\ UNCHANGED <<journal, performed>>
    BY <1>1, TransitionDescends, OrchestratorAssumption
       DEF NextAttempt, Settle, TypeInv, TypeOK
  <2> QED
    BY <1>1, <2>1, Rungs, StepsOfARun DEF GoesDown, JournaledSteps
<1>2. CASE ordinal < MaxAttempts /\ ordinal' = ordinal + 1
  BY <1>2, TransitionDescends, OrchestratorAssumption
     DEF NextAttempt, Begins, Settle, TypeInv, TypeOK
<1> QED
  BY <1>1, <1>2 DEF NextAttempt

\* What a decision of the router leads to.
LEMMA DecisionDescends ==
  ASSUME NEW d, ApplyDecision(d)
  PROVE  pc' \in {"next_attempt", "report", "illegal"} /\ journal' = journal
<1>1. journal' = journal
  BY TransitionDescends DEF ApplyDecision, Settle, Goto, durable
<1> QED
  BY <1>1, DecisionApplied

\* The attempt and the validation of its candidate.
LEMMA LoopDescends ==
  ASSUME TypeInv,
         \/ LaunchAttempt \/ RunCodex \/ ClassifyAttempt \/ RouteFailure
         \/ RunCandidate \/ JudgeCandidate \/ RouteSubstantive
  PROVE  GoesDown \/ Performs
<1> USE StepsOfARun DEF JournaledSteps, GoesDown
<1>1. CASE LaunchAttempt
  <2>1. /\ pc = "launch" /\ UNCHANGED <<ordinal, journal, performed>>
        /\ pc' \in {"run_codex", "illegal"}
    BY <1>1, TransitionDescends DEF LaunchAttempt
  <2> QED
    BY <2>1, Rungs
<1>2. CASE RunCodex
  BY <1>2, EffectDescends DEF RunCodex, JournaledSteps, durable
<1>3. CASE ClassifyAttempt
  <2>1. /\ pc = "classify" /\ UNCHANGED <<ordinal, journal, performed>>
        /\ pc' \in {"run_candidate", "route_failure", "report", "illegal"}
    BY <1>3, TransitionDescends DEF ClassifyAttempt, Settle
  <2> QED
    BY <2>1, Rungs
<1>4. CASE RouteFailure
  <2>1. /\ pc = "route_failure" /\ UNCHANGED <<ordinal, journal, performed>>
        /\ pc' \in {"next_attempt", "report", "illegal"}
    BY <1>4, DecisionDescends DEF RouteFailure
  <2> QED
    BY <2>1, Rungs
<1>5. CASE RunCandidate
  BY <1>5, EffectDescends DEF RunCandidate, RunValidation, JournaledSteps, durable
<1>6. CASE JudgeCandidate
  <2>1. /\ pc = "judge_candidate" /\ UNCHANGED <<ordinal, journal, performed>>
        /\ pc' \in {"to_routing", "report", "illegal"}
    BY <1>6, TransitionDescends DEF JudgeCandidate, Settle
  <2> QED
    BY <2>1, Rungs
<1>7. CASE RouteSubstantive
  <2>1. /\ pc = "decide" /\ UNCHANGED <<ordinal, journal, performed>>
    BY <1>7, DecisionDescends DEF RouteSubstantive
  <2>2. pc' \in {"next_attempt", "report", "illegal"}
    BY <1>7, DecisionDescends DEF RouteSubstantive
  <2> QED
    BY <2>1, <2>2, Rungs
<1> QED
  BY <1>1, <1>2, <1>3, <1>4, <1>5, <1>6, <1>7

\* From the policy to the last look at the original checkout.
LEMMA EndDescends ==
  ASSUME TypeInv,
         \/ JudgePolicy \/ ExportPatch \/ RunReview \/ JudgeReview \/ ApplyReview
         \/ EnterFinal \/ RunFinal \/ JudgeFinal \/ CheckOriginal
  PROVE  GoesDown \/ Performs
<1> USE StepsOfARun DEF JournaledSteps, GoesDown
<1>1. CASE JudgePolicy
  <2>1. /\ pc = "decide" /\ UNCHANGED <<ordinal, journal, performed>>
        /\ pc' \in {"policy_export", "review_launch", "enter_final", "report", "illegal"}
    BY <1>1, TransitionDescends DEF JudgePolicy, Settle, Goto, durable
  <2> QED
    BY <2>1, Rungs
<1>2. CASE ExportPatch
  <2>1. PICK step \in {"policy_export", "final_policy_export", "final_export"} :
          Performing(step)
    BY <1>2 DEF ExportPatch
  <2>2. performed' /\ UNCHANGED <<pc, ordinal, journal>>
    BY <1>2 DEF ExportPatch, durable
  <2> QED
    BY <2>1, <2>2, EffectDescends DEF JournaledSteps
<1>3. CASE RunReview
  BY <1>3, EffectDescends DEF RunReview, JournaledSteps, durable
<1>4. CASE JudgeReview
  <2>1. /\ pc = "judge_review" /\ UNCHANGED <<ordinal, journal, performed>>
        /\ pc' \in {"apply_review", "report", "illegal"}
    BY <1>4, TransitionDescends DEF JudgeReview, Settle
  <2> QED
    BY <2>1, Rungs
<1>5. CASE ApplyReview
  <2>1. /\ pc = "apply_review" /\ UNCHANGED <<ordinal, journal, performed>>
        /\ pc' \in {"next_attempt", "enter_final", "report", "illegal"}
    BY <1>5, TransitionDescends DEF ApplyReview, Settle, Goto, durable
  <2> QED
    BY <2>1, Rungs
<1>6. CASE EnterFinal
  <2>1. /\ pc = "enter_final" /\ UNCHANGED <<ordinal, journal, performed>>
        /\ pc' \in {"run_final", "illegal"}
    BY <1>6, TransitionDescends DEF EnterFinal
  <2> QED
    BY <2>1, Rungs
<1>7. CASE RunFinal
  BY <1>7, EffectDescends DEF RunFinal, RunValidation, JournaledSteps, durable
<1>8. CASE JudgeFinal
  <2>1. /\ pc = "judge_final" /\ UNCHANGED <<ordinal, journal, performed>>
        /\ pc' \in {"final_policy_export", "check_original", "report", "illegal"}
    BY <1>8, TransitionDescends DEF JudgeFinal, Settle, Goto, durable
  <2> QED
    BY <2>1, Rungs
<1>9. CASE CheckOriginal
  <2>1. /\ pc = "check_original" /\ UNCHANGED <<ordinal, journal, performed>>
        /\ pc' \in {"final_export", "report", "illegal"}
    BY <1>9, TransitionDescends DEF CheckOriginal, Settle, Goto, durable
  <2> QED
    BY <2>1, Rungs
<1> QED
  BY <1>1, <1>2, <1>3, <1>4, <1>5, <1>6, <1>7, <1>8, <1>9

\* The reports, and an exception anywhere, lead to the finally clause.
Exits ==
  /\ pc \in RunSteps \cup {"report"} /\ pc' \in {"release", "raised"}
  /\ state' = state
  /\ journal' \in {journal, [journal EXCEPT ![Op] = "failed"]}

LEMMA ExitDescends ==
  ASSUME Report \/ Raises
  PROVE  Exits
BY DEF Exits, Report, Raises, FailOperation, RaiseError, RunSteps, durable

\* What the controller does, by what it leaves to be done.
LEMMA StepsByDescent ==
  ASSUME TypeInv, Controller \/ Raises
  PROVE  GoesDown \/ Performs \/ Journals \/ Begins \/ Exits \/ Release
BY OperationDescends, StartDescends, AttemptDescends, LoopDescends, EndDescends,
   ExitDescends DEF Controller

\* Each of these lowers the bound.
LEMMA StepsGoDown ==
  ASSUME TypeInv, Controller \/ Raises
  PROVE  StepsLeft' < StepsLeft
<1>1. /\ Rung(pc) \in 0..33 /\ Rung(pc') \in 0..33
      /\ OperationLeft \in 0..4 /\ OperationLeft' \in 0..4
      /\ ordinal \in Nat /\ MaxAttempts \in Nat /\ MaxAttempts - ordinal \in Nat
  BY RungsTyped, StepsLeftTyped, OrchestratorAssumption DEF OperationLeft
<1>2. CASE Release
  BY <1>2 DEF Release, StepsLeft
<1>3. ASSUME pc \in RunSteps \cup {"report"}
      PROVE  StepsLeft = 2 + 200 * (MaxAttempts - ordinal) + 5 * Rung(pc) + OperationLeft
  BY <1>3, StepsOfARun DEF StepsLeft
<1>4. \/ StepsLeft' \in {0, 1}
      \/ StepsLeft' = 2 + 200 * (MaxAttempts - ordinal') + 5 * Rung(pc') + OperationLeft'
  BY DEF StepsLeft
<1>5. CASE /\ pc \in RunSteps \cup {"report"}
           /\ pc' \in {"release", "raised", "illegal"}
  <2>1. StepsLeft' = 1
    BY <1>5 DEF StepsLeft
  <2> QED
    BY <1>1, <1>3, <1>5, <2>1
<1>6. CASE /\ pc \in RunSteps \cup {"report"} /\ ordinal' = ordinal
           /\ Rung(pc') < Rung(pc)
  BY <1>1, <1>3, <1>4, <1>6
<1>7. CASE /\ pc \in RunSteps /\ ordinal' = ordinal /\ pc' = pc
           /\ OperationLeft' < OperationLeft
  BY <1>1, <1>3, <1>4, <1>7
<1>8. CASE Begins
  <2>1. pc = "next_attempt" /\ Rung(pc) = 1 /\ pc \in RunSteps
    BY <1>8, Rungs, StepsOfARun DEF Begins
  <2> QED
    BY <1>1, <1>3, <1>4, <1>8, <2>1 DEF Begins
<1>9. CASE Journals
  <2>1. PICK from \in OperationStatus, to \in OperationStatus :
          /\ journal[Op] = from /\ journal' = [journal EXCEPT ![Op] = to]
          /\ \/ from = "absent" /\ to = "planned" /\ UNCHANGED <<pc, performed, ownership>>
             \/ from = "planned" /\ to = "started" /\ UNCHANGED <<pc, performed, ownership>>
             \/ Rung(pc') < Rung(pc)
    BY <1>9 DEF Journals
  <2>2. pc \in JournaledSteps /\ pc \in RunSteps /\ ordinal' = ordinal
    BY <1>9, StepsOfARun DEF Journals
  <2>3. CASE Rung(pc') < Rung(pc)
    BY <1>6, <2>2, <2>3
  <2>4. CASE UNCHANGED <<pc, performed, ownership>> /\ <<from, to>> \in
               {<<"absent", "planned">>, <<"planned", "started">>}
    <3>1. Op' = Op /\ Op \in Operations
      BY <2>2, <2>4 DEF Op, Operations, TypeInv, TypeOK
    <3>2. journal'[Op] = to
      BY <2>1, <3>1 DEF TypeInv, TypeOK
    <3>3. OperationLeft' < OperationLeft
      BY <2>1, <2>2, <2>4, <3>1, <3>2 DEF OperationLeft
    <3> QED
      BY <1>7, <2>2, <2>4, <3>3
  <2> QED
    BY <2>1, <2>3, <2>4
<1> QED
  BY <1>2, <1>5, <1>6, <1>7, <1>8, <1>9, StepsByDescent, StepsOfARun
     DEF GoesDown, Performs, Exits

\* Outside events give the controller nothing more to do.
LEMMA EventsAddNothing ==
  ASSUME Environment \/ UNCHANGED vars
  PROVE  UNCHANGED <<state, pc, ordinal, journal, performed>> /\ StepsLeft' = StepsLeft
<1>1. UNCHANGED <<state, pc, ordinal, journal, performed>> /\ ownership' = ownership
  BY DEF Environment, RequestCancel, EditOriginal, TouchWorktree, vars, durable, world
<1>2. Op' = Op
  BY <1>1 DEF Op
<1>3. OperationLeft' = OperationLeft
  BY <1>1, <1>2 DEF OperationLeft
<1> QED
  BY <1>1, <1>3 DEF StepsLeft

\* Whatever Codex, the validators and the reviewer answer, and whatever happens
\* outside, a run is over after at most 200 steps of its controller for every
\* attempt it may make and 200 more: each step lowers a bound that no outside
\* event raises.
THEOREM RunStepsAreBounded ==
  Spec => /\ [](StepsLeft \in 0..(200 * (MaxAttempts + 1)))
          /\ [][IF Controller \/ Raises THEN StepsLeft' < StepsLeft
                ELSE StepsLeft' = StepsLeft]_vars
<1>1. TypeInv => StepsLeft \in 0..(200 * (MaxAttempts + 1))
  BY StepsLeftTyped
<1>2. TypeInv /\ [Next]_vars
        => [IF Controller \/ Raises THEN StepsLeft' < StepsLeft
            ELSE StepsLeft' = StepsLeft]_vars
  <2> SUFFICES ASSUME TypeInv, Next
               PROVE  IF Controller \/ Raises THEN StepsLeft' < StepsLeft
                      ELSE StepsLeft' = StepsLeft
    OBVIOUS
  <2>1. ~(Controller \/ Raises) => StepsLeft' = StepsLeft
    BY EventsAddNothing DEF Next, Exited
  <2> QED
    BY <2>1, StepsGoDown
<1> QED
  BY <1>1, <1>2, TypeInit, TypeStep, PTL DEF Spec

-----------------------------------------------------------------------------
(***************************************************************************)
(* The journal a crash leaves behind                                       *)
(***************************************************************************)
\* What the run has yet to do is not in its journal, and the operation in hand
\* is not at its end.
JournalAhead ==
  pc \in RunSteps =>
    /\ \A op \in Operations :
         op[2] > ordinal \/ (op[2] = ordinal /\ Rung(op[1]) < Rung(pc))
           => journal[op] = "absent"
    /\ pc \in JournaledSteps => journal[Op] \in {"absent", "planned", "started"}
    /\ performed => pc \in JournaledSteps /\ journal[Op] = "started"

LEMMA JournalAheadStep == TypeInv /\ JournalAhead /\ [Next]_vars => JournalAhead'
<1> SUFFICES ASSUME TypeInv, JournalAhead, [Next]_vars, pc' \in RunSteps
             PROVE  JournalAhead'
  BY DEF JournalAhead
<1>1. /\ journal \in [Operations -> OperationStatus] /\ ordinal \in 0..MaxAttempts
      /\ MaxAttempts \in Nat
      /\ Rung(pc) \in 0..33 /\ Rung(pc') \in 0..33
      /\ \A op \in Operations :
           op[1] \in JournaledSteps /\ op[2] \in 0..MaxAttempts /\ Rung(op[1]) \in 0..33
  BY OrchestratorAssumption, RungsTyped DEF TypeInv, TypeOK, Operations
<1>2. CASE UNCHANGED <<pc, ordinal, journal, performed>>
  BY <1>2 DEF JournalAhead, Op
<1>3. CASE GoesDown
  <2>1. pc \in RunSteps /\ pc \notin JournaledSteps /\ Rung(pc') < Rung(pc)
    BY <1>3, StepsOfARun DEF GoesDown
  <2>2. ordinal' = ordinal /\ journal' = journal /\ ~performed'
    BY <1>3, <2>1, StepsOfARun DEF GoesDown, JournalAhead
  <2>3. pc' \in JournaledSteps => journal'[Op'] = "absent"
    <3>1. pc' \in JournaledSteps => Op' \in Operations /\ Op'[1] = pc' /\ Op'[2] = ordinal
      BY <1>1, <2>2 DEF Op, Operations
    <3> QED
      BY <2>1, <2>2, <3>1 DEF JournalAhead
  <2>4. \A op \in Operations :
          op[2] > ordinal \/ (op[2] = ordinal /\ Rung(op[1]) < Rung(pc'))
            => journal[op] = "absent"
    BY <1>1, <2>1 DEF JournalAhead
  <2> QED
    BY <2>2, <2>3, <2>4 DEF JournalAhead
<1>4. CASE Performs
  BY <1>4, StepsOfARun DEF Performs, JournalAhead, Op
<1>5. CASE Journals
  <2>1. PICK from \in OperationStatus, to \in OperationStatus :
          /\ journal[Op] = from /\ journal' = [journal EXCEPT ![Op] = to]
          /\ \/ /\ from \in {"absent", "planned"} /\ to \in {"planned", "started"}
                /\ UNCHANGED <<pc, performed>>
             \/ /\ from = "started" /\ performed' = FALSE
                /\ Rung(pc') < Rung(pc)
    BY <1>5 DEF Journals
  <2>2. /\ pc \in JournaledSteps /\ pc \in RunSteps /\ ordinal' = ordinal
        /\ Op \in Operations /\ Op = <<pc, ordinal>>
    BY <1>1, <1>5, StepsOfARun DEF Journals, Op, Operations
  <2>3. \A op \in Operations : op # Op => journal'[op] = journal[op]
    BY <1>1, <2>1
  <2>4. journal'[Op] = to
    BY <1>1, <2>1, <2>2
  <2>5. CASE UNCHANGED <<pc, performed>> /\ from \in {"absent", "planned"} /\ to \in {"planned", "started"}
    <3>1. Op' = Op /\ ~performed
      BY <2>1, <2>2, <2>5 DEF Op, JournalAhead
    <3>2. \A op \in Operations :
            op[2] > ordinal \/ (op[2] = ordinal /\ Rung(op[1]) < Rung(pc)) => op # Op
      BY <1>1, <2>2
    <3> QED
      BY <2>2, <2>3, <2>4, <2>5, <3>1, <3>2 DEF JournalAhead
  <2>6. CASE performed' = FALSE /\ Rung(pc') < Rung(pc)
    <3>1. \A op \in Operations :
            op[2] > ordinal \/ (op[2] = ordinal /\ Rung(op[1]) < Rung(pc'))
              => op # Op /\ journal[op] = "absent"
      BY <1>1, <2>2, <2>6 DEF JournalAhead
    <3>2. pc' \in JournaledSteps => Op' \in Operations /\ Op'[1] = pc' /\ Op'[2] = ordinal
      BY <1>1, <2>2 DEF Op, Operations
    <3>3. pc' \in JournaledSteps => journal'[Op'] = "absent"
      <4>1. pc' \in JournaledSteps => Op' # Op /\ journal[Op'] = "absent"
        BY <1>1, <2>2, <2>6, <3>2 DEF JournalAhead
      <4> QED
        BY <2>3, <3>2, <4>1
    <3> QED
      BY <2>2, <2>3, <2>6, <3>1, <3>3 DEF JournalAhead
  <2> QED
    BY <2>1, <2>5, <2>6
<1>6. CASE Begins
  <2>1. /\ pc = "next_attempt" /\ pc \in RunSteps /\ pc' = "launch"
        /\ ordinal' = ordinal + 1 /\ UNCHANGED <<journal, performed>>
        /\ pc \notin JournaledSteps /\ pc' \notin JournaledSteps
    BY <1>6, StepsOfARun DEF Begins, JournaledSteps
  <2>2. \A op \in Operations : op[2] >= ordinal + 1 => op[2] > ordinal
    BY <1>1
  <2> QED
    BY <1>1, <2>1, <2>2 DEF JournalAhead
<1>7. \/ UNCHANGED <<pc, ordinal, journal, performed>>
      \/ GoesDown \/ Performs \/ Journals \/ Begins
  BY StepsByDescent, EventsAddNothing, StepsOfARun DEF Next, Exited, Exits, Release
<1> QED
  BY <1>2, <1>3, <1>4, <1>5, <1>6, <1>7

LEMMA JournalAheadInit == Init => JournalAhead
<1> SUFFICES ASSUME Init PROVE JournalAhead
  OBVIOUS
<1>1. \A op \in Operations : journal[op] = "absent"
  BY DEF Init
<1>2. pc \notin JournaledSteps /\ ~performed
  BY DEF Init, JournaledSteps
<1> QED
  BY <1>1, <1>2 DEF JournalAhead

\* The operations a crash would leave planned or started.
Unfinished == {op \in Operations : journal[op] \in {"planned", "started"}}

OneInHand ==
  /\ \A op \in Unfinished : pc \in RunSteps => pc \in JournaledSteps /\ op = Op
  /\ \A a, b \in Unfinished : a = b
  /\ state \in TERMINAL_STATES => Unfinished = {}

\* A row is not terminal while the controller is at work on it.
LEMMA RunningRow ==
  ASSUME StateInv, pc \in RunSteps
  PROVE  state \notin TERMINAL_STATES
BY StepsOfARun DEF StateInv, StateInAttempt, StateInDecision, TERMINAL_STATES

LEMMA OneInHandStep ==
  TypeInv /\ StateInv /\ StateInv' /\ OneInHand /\ [Next]_vars => OneInHand'
<1> SUFFICES ASSUME TypeInv, StateInv, StateInv', OneInHand, [Next]_vars
             PROVE  OneInHand'
  OBVIOUS
<1>1. CASE UNCHANGED <<state, pc, ordinal, journal, performed>>
  BY <1>1 DEF OneInHand, Unfinished, Op
<1>2. CASE (GoesDown \/ Begins)
  <2>1. pc \in RunSteps \ JournaledSteps /\ journal' = journal
    BY <1>2, StepsOfARun DEF GoesDown, Begins, JournaledSteps
  <2>2. Unfinished' = {}
    BY <2>1 DEF OneInHand, Unfinished
  <2> QED
    BY <2>2 DEF OneInHand
<1>3. CASE Performs
  <2>1. /\ pc \in RunSteps /\ pc' = pc /\ Op' = Op /\ Unfinished' = Unfinished
    BY <1>3, StepsOfARun DEF Performs, Op, Unfinished
  <2>2. state' \notin TERMINAL_STATES
    BY <2>1, StepsOfARun DEF StateInv, StateInAttempt, StateInDecision, TERMINAL_STATES
  <2> QED
    BY <2>1, <2>2 DEF OneInHand
<1>4. CASE Journals
  <2>1. PICK from \in OperationStatus, to \in OperationStatus :
          /\ journal[Op] = from /\ journal' = [journal EXCEPT ![Op] = to]
          /\ \/ to \in {"planned", "started"} /\ pc' = pc
             \/ to = "completed" /\ pc' \in RunSteps
    BY <1>4 DEF Journals
  <2>2. pc \in JournaledSteps /\ pc \in RunSteps /\ ordinal' = ordinal
    BY <1>4, StepsOfARun DEF Journals
  <2>3. \A op \in Operations : op # Op => op \notin Unfinished /\ op \notin Unfinished'
    BY <2>1, <2>2 DEF OneInHand, Unfinished, TypeInv, TypeOK
  <2>4. state' \notin TERMINAL_STATES
    BY <2>1, <2>2, StepsOfARun
       DEF StateInv, StateInAttempt, StateInDecision, TERMINAL_STATES
  <2>5. \A op \in Unfinished' : op = Op
    BY <2>3 DEF Unfinished
  <2>6. CASE pc' = pc
    BY <2>2, <2>4, <2>5, <2>6 DEF OneInHand, Op
  <2>7. CASE to = "completed"
    <3>1. Unfinished' = {}
      BY <2>1, <2>5, <2>7 DEF Unfinished, TypeInv, TypeOK
    <3> QED
      BY <3>1 DEF OneInHand
  <2> QED
    BY <2>1, <2>6, <2>7
<1>5. CASE Exits \/ Release
  <2>1. /\ pc' \notin RunSteps /\ state' = state
        /\ journal' \in {journal, [journal EXCEPT ![Op] = "failed"]}
    BY <1>5, StepsOfARun DEF Exits, Release
  <2>2. Unfinished' \subseteq Unfinished
    BY <2>1 DEF Unfinished, TypeInv, TypeOK
  <2> QED
    BY <2>1, <2>2 DEF OneInHand
<1> QED
  BY <1>1, <1>2, <1>3, <1>4, <1>5, StepsByDescent, EventsAddNothing DEF Next, Exited

\* The controller never meets an operation its journal already has, so it never
\* repeats an effect; and wherever it stops, by an exit, an exception or a crash,
\* at most one operation is left planned or started, none once the row is
\* terminal.  The plan of a resume depends on this: it judges the run by the
\* types of the operations it finds unfinished.
THEOREM RunJournalsOneAtATime ==
  Spec => [](/\ JournalAhead
             /\ \A a, b \in Unfinished : a = b
             /\ state \in TERMINAL_STATES => Unfinished = {})
<1>1. Init => JournalAhead /\ OneInHand
  <2>1. Init => Unfinished = {}
    BY DEF Init, Unfinished
  <2> QED
    BY <2>1, JournalAheadInit DEF OneInHand
<1>2. OneInHand => /\ \A a, b \in Unfinished : a = b
                   /\ state \in TERMINAL_STATES => Unfinished = {}
  BY DEF OneInHand
<1> QED
  BY <1>1, <1>2, TypeInit, TypeStep, StateInit, StateStep, JournalAheadStep,
     OneInHandStep, PTL DEF Spec
=============================================================================
