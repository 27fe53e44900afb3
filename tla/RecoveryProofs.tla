----------------------------- MODULE RecoveryProofs -----------------------------
(***************************************************************************)
(* Crashes and resumes, for every number of them at any step: the row and  *)
(* the steps of a resume stay in step, and a recovered run implements the  *)
(* same contract as an undisturbed one.  While the first controller runs,  *)
(* the invariants of OrchestratorProofs and AcceptanceProofs hold as they  *)
(* stand; the steps of a resume have their own.                            *)
(***************************************************************************)
EXTENDS Recovery, AcceptanceProofs

CrashedTypeInv ==
  /\ RecoveryTypeOK
  /\ arrived \in [{"cancel", "edit"} -> Arrival]
  /\ pc = "route_failure" => outcome # "success"
  /\ pc = "report" => state \in TERMINAL_STATES

\* The durable state at each step of a resume.
StateInResume ==
  /\ pc \in ResumeSteps => state \notin TERMINAL_STATES
  /\ pc \in {"resume_candidate", "resume_validated"} => state = "VALIDATION_RUNNING"
  /\ pc \in {"resume_export", "resume_policy"} => state = "VALIDATION_COMPLETE"
  /\ pc = "resume_route" => state = "ROUTING"
  /\ pc = "resume_review_launch" => state = "REVIEW_PREPARING"
  /\ pc \in {"resume_review", "resume_reviewed"} => state = "REVIEW_RUNNING"
  /\ pc = "resume_judge_review" => state = "REVIEW_COMPLETE"
  /\ pc = "resume_enter_final" => state \in {"VALIDATION_COMPLETE", "REVIEW_COMPLETE"}
  /\ pc \in {"resume_run_final", "resume_judge_final", "resume_final_export",
             "resume_accept"} => state = "FINAL_VALIDATION"

\* What a resume accepts is what it has tested and exported.
ResumeDelivers ==
  /\ pc \in RunSteps => FinalInv
  /\ pc \in {"resume_final_export", "resume_accept"} => finalPassed = {candidate}
  /\ pc = "resume_accept" => exported = {candidate}
  /\ state = "ACCEPTED" => \E c \in Snapshot : exported = {c} /\ finalPassed = {c}

CrashedInv == CrashedTypeInv /\ StateInv /\ StateInResume /\ ResumeDelivers

\* The steps of a run, of its end and of a resume are different ones.
LEMMA StepsDiffer ==
  /\ RunSteps \cap ResumeSteps = {} /\ EndSteps \cap ResumeSteps = {}
  /\ RunSteps \cap EndSteps = {}
  /\ "dead" \notin RunSteps \cup EndSteps \cup ResumeSteps
BY DEF RunSteps, JournaledSteps, PlainSteps, BranchSteps, EndSteps, ResumeSteps

LEMMA RecoveryStarts == RecoveryInit => CrashedInv
<1> SUFFICES ASSUME RecoveryInit PROVE CrashedInv
  OBVIOUS
<1>1. Init /\ TypeInv /\ StateInv /\ FinalInv
  BY TypeInit, StateInit, FinalInit DEF RecoveryInit
<1>2. CrashedTypeInv
  BY <1>1, RecoveryAssumption DEF RecoveryInit, CrashedTypeInv, RecoveryTypeOK, TypeInv
<1>3. pc \in RunSteps /\ state = "CREATED"
  BY <1>1 DEF Init, RunSteps, BranchSteps
<1>4. StateInResume /\ ResumeDelivers
  BY <1>1, <1>3, StepsDiffer DEF StateInResume, ResumeDelivers, ResumeSteps
<1> QED
  BY <1>1, <1>2, <1>4 DEF CrashedInv

-----------------------------------------------------------------------------
(***************************************************************************)
(* The first controller, and the end of any                                *)
(***************************************************************************)
LEMMA ControllerRuns ==
  Controller \/ Raises => pc \in RunSteps \cup EndSteps
BY DEF Controller, Raises, FailOperation, RaiseError, PlanOperation, StartOperation,
       CompleteOperation, Advance, AcquireLock, CaptureOriginal, BeginCreating,
       CreateWorktree, ValidatorPreflight, RunBaseline, JudgeBaseline, NextAttempt,
       LaunchAttempt, RunCodex, ClassifyAttempt, RouteFailure, RunCandidate,
       RunValidation, JudgeCandidate, RouteSubstantive, JudgePolicy, ExportPatch,
       RunReview, JudgeReview, ApplyReview, EnterFinal, RunFinal, JudgeFinal,
       CheckOriginal, Report, Release, Performing, RunSteps, JournaledSteps,
       BranchSteps, EndSteps

\* At its end a controller only reports and releases, or raises.
LEMMA EndIsQuiet ==
  ASSUME pc \in EndSteps, Controller \/ Raises
  PROVE  /\ pc' \in EndSteps
         /\ UNCHANGED <<state, exported, finalPassed>>
<1>1. pc \notin RunSteps
  BY StepsDiffer
<1>2. Report \/ Release \/ RaiseError
  BY <1>1
     DEF Controller, Raises, FailOperation, PlanOperation, StartOperation,
         CompleteOperation, Advance, AcquireLock, CaptureOriginal, BeginCreating,
         CreateWorktree, ValidatorPreflight, RunBaseline, JudgeBaseline, NextAttempt,
         LaunchAttempt, RunCodex, ClassifyAttempt, RouteFailure, RunCandidate,
         RunValidation, JudgeCandidate, RouteSubstantive, JudgePolicy, ExportPatch,
         RunReview, JudgeReview, ApplyReview, EnterFinal, RunFinal, JudgeFinal,
         CheckOriginal, Performing, RunSteps, JournaledSteps, BranchSteps
<1> QED
  BY <1>2 DEF Report, Release, RaiseError, EndSteps, durable, world, history

LEMMA ControllerKeepsInv ==
  ASSUME CrashedInv, Controller \/ Raises, crashes' \in 0..MaxCrashes
  PROVE  CrashedInv'
<1>1. pc \in RunSteps \cup EndSteps
  BY ControllerRuns
<1>2. TypeInv /\ StateInv
  BY <1>1 DEF CrashedInv, CrashedTypeInv, RecoveryTypeOK, TypeInv
<1>3. TypeInv' /\ StateInv'
  BY <1>2, TypeStep, StateStep DEF Next
<1>4. CrashedTypeInv'
  BY <1>3 DEF CrashedTypeInv, RecoveryTypeOK, TypeInv
<1>5. pc' \notin ResumeSteps
  BY <1>3, StepsDiffer DEF TypeInv
<1>6. StateInResume'
  BY <1>5 DEF StateInResume, ResumeSteps
<1>7. CASE pc \in RunSteps
  <2>1. FinalInv'
    BY <1>2, <1>7, FinalStep DEF CrashedInv, ResumeDelivers, Next
  <2>2. ResumeDelivers'
    BY <1>5, <2>1 DEF ResumeDelivers, ResumeSteps, FinalInv, AcceptedHasEvidence
  <2> QED
    BY <1>3, <1>4, <1>6, <2>2 DEF CrashedInv
<1>8. CASE pc \in EndSteps
  <2>1. ResumeDelivers'
    BY <1>5, <1>8, EndIsQuiet, StepsDiffer DEF CrashedInv, ResumeDelivers, ResumeSteps
  <2> QED
    BY <1>3, <1>4, <1>6, <2>1 DEF CrashedInv
<1> QED
  BY <1>1, <1>7, <1>8

\* Cancellations and edits, and writes to the worktree, between any two steps.
LEMMA EnvironmentKeepsInv ==
  ASSUME CrashedInv, Environment, crashes' = crashes
  PROVE  CrashedInv'
<1>1. UNCHANGED <<state, status, pc, performed, ordinal, outcome, candidate, exported, history>>
  BY DEF Environment, RequestCancel, EditOriginal, TouchWorktree, durable, evidence
<1>2. CrashedTypeInv'
  BY DEF CrashedInv, CrashedTypeInv, RecoveryTypeOK, TypeOK, Environment, RequestCancel,
         EditOriginal, TouchWorktree, durable, budgets, evidence, history, Arrival
<1>3. StateInv' /\ StateInResume'
  BY <1>1
     DEF CrashedInv, StateInv, StateInAttempt, StateInDecision, NoIllegalTransition,
         StatusFollowsState, StateInResume
<1>4. ResumeDelivers'
  <2>1. CASE pc \in RunSteps
    <3>1. TypeInv /\ FinalInv
      BY <2>1
         DEF CrashedInv, CrashedTypeInv, RecoveryTypeOK, TypeInv, ResumeDelivers
    <3>2. FinalInv'
      BY <3>1, FinalStep DEF CrashedInv, Next
    <3> QED
      BY <1>1, <3>2 DEF CrashedInv, ResumeDelivers, history
  <2>2. CASE pc \notin RunSteps
    BY <1>1, <2>2 DEF CrashedInv, ResumeDelivers, history
  <2> QED
    BY <2>1, <2>2
<1> QED
  BY <1>2, <1>3, <1>4 DEF CrashedInv

-----------------------------------------------------------------------------
(***************************************************************************)
(* A crash, and the steps of a resume                                      *)
(***************************************************************************)
LEMMA CrashKeepsInv ==
  ASSUME CrashedInv, Crash \/ ResumeRaises, crashes' \in 0..MaxCrashes
  PROVE  CrashedInv'
<1>1. /\ pc' \in {"dead", "raised"} /\ Forget
      /\ UNCHANGED <<req, durable, ownership, exported, arrived, history>>
      /\ tree' = tree \/ WorktreeMayChange
  BY DEF Crash, ResumeRaises, world
<1>2. tree' \in Snapshot
  BY <1>1 DEF CrashedInv, CrashedTypeInv, RecoveryTypeOK, TypeOK, WorktreeMayChange
<1>3. CrashedTypeInv'
  BY <1>1, <1>2, ForgetTyped
     DEF CrashedInv, CrashedTypeInv, RecoveryTypeOK, TypeOK, durable, history, EndSteps
<1>4. StateInv' /\ StateInResume'
  BY <1>1
     DEF CrashedInv, StateInv, StateInAttempt, StateInDecision, NoIllegalTransition,
         StatusFollowsState, StateInResume, ResumeSteps, StartSteps, LoopSteps, durable
<1>5. ResumeDelivers'
  BY <1>1, StepsDiffer
     DEF CrashedInv, ResumeDelivers, EndSteps, durable, history
<1> QED
  BY <1>3, <1>4, <1>5 DEF CrashedInv

\* A resume's transition that the table lists.
LEMMA ResumeMoves ==
  ASSUME CrashedInv, NEW target \in RunState, CanTransition(state, target),
         NEW next, Transition(target, next)
  PROVE  /\ state' = target /\ pc' = next
         /\ status' \in {"active"} \cup TERMINAL_STATES /\ StatusFollowsState'
         /\ UNCHANGED <<journal, locked>>
<1>1. state' = target /\ pc' = next /\ status' = StatusAfter(target)
      /\ UNCHANGED <<journal, locked>>
  BY DEF Transition
<1>2. status = "active"
  BY TerminalStatesAbsorb
     DEF CrashedInv, StateInv, StatusFollowsState, CrashedTypeInv, RecoveryTypeOK, TypeOK
<1> QED
  BY <1>1, <1>2 DEF StatusAfter, StatusFollowsState

\* The edges a resume takes from a captured candidate to its acceptance.
LEMMA EdgesOfAResume ==
  /\ CanTransition("ATTEMPT_RUNNING", "ATTEMPT_INTERRUPTED")
  /\ \A s \in {"ATTEMPT_INTERRUPTED", "ATTEMPT_COMPLETE"} :
       CanTransition(s, "VALIDATION_RUNNING")
  /\ CanTransition("VALIDATION_RUNNING", "VALIDATION_COMPLETE")
  /\ \A t \in {"BLOCKED", "ROUTING", "REVIEW_PREPARING", "NEEDS_HUMAN_REVIEW",
               "FINAL_VALIDATION"} : CanTransition("VALIDATION_COMPLETE", t)
  /\ CanTransition("ROUTING", "NEEDS_HUMAN_REVIEW")
  /\ CanTransition("REVIEW_PREPARING", "REVIEW_RUNNING")
  /\ CanTransition("REVIEW_RUNNING", "REVIEW_COMPLETE")
  /\ \A t \in {"NEEDS_HUMAN_REVIEW", "FINAL_VALIDATION"} :
       CanTransition("REVIEW_COMPLETE", t)
  /\ \A t \in {"BLOCKED", "ACCEPTED"} : CanTransition("FINAL_VALIDATION", t)
BY DEF CanTransition, LEGAL_TRANSITIONS, RunState, TERMINAL_STATES

\* Whatever state it finds, a resume that asks for human review takes an edge.
LEMMA HumanReviewIsLegal ==
  ASSUME NEW s, HumanReviewStep(s) # "none"
  PROVE  /\ CanTransition(s, HumanReviewStep(s))
         /\ HumanReviewStep(s) \in {"ROUTING", "NEEDS_HUMAN_REVIEW", "FAILED"}
BY DEF HumanReviewStep

\* A resume leaves the types of what it does not touch alone: its steps by the
\* state and the step they lead to.
LEMMA ResumeArrives ==
  ASSUME CrashedInv, crashes' = crashes, UNCHANGED <<req, arrived, ordinal, budgets>>,
         NEW s, state' = s, s \in RunState, StatusFollowsState',
         status' \in {"active"} \cup TERMINAL_STATES,
         journal' \in [Operations -> OperationStatus], locked' \in BOOLEAN,
         tree' \in Snapshot, before' \in Snapshot, candidate' \in Snapshot,
         ownership' \in {"absent", "unowned", "owned"},
         exported' \subseteq Snapshot, finalPassed' \subseteq Snapshot,
         approved' \subseteq Snapshot, failing' \subseteq Evidence,
         performed' \in BOOLEAN, reviewed' \in BOOLEAN,
         pc' \in ResumeSteps \cup {"report", "raised"},
         pc' = "report" => s \in TERMINAL_STATES,
         StateInResume', ResumeDelivers'
  PROVE  CrashedInv'
<1>1. CrashedTypeInv'
  BY StepsDiffer
     DEF CrashedInv, CrashedTypeInv, RecoveryTypeOK, TypeOK, budgets, EndSteps, ResumeSteps
<1>2. StateInv'
  BY DEF StateInv, StateInAttempt, StateInDecision, NoIllegalTransition, StartSteps,
         LoopSteps, ResumeSteps
<1> QED
  BY <1>1, <1>2 DEF CrashedInv

\* A step of a resume that leads to another one and touches nothing but the row.
LEMMA ResumeGoesOn ==
  ASSUME CrashedInv, pc \in ResumeSteps,
         UNCHANGED <<req, world, memory, history, crashes>>,
         NEW next \in ResumeSteps \ {"resume_final_export", "resume_accept"},
         NEW target \in RunState \ TERMINAL_STATES,
         \/ Goto(next) /\ target = state
         \/ CanTransition(state, target) /\ Transition(target, next),
         StateInResume'
  PROVE  CrashedInv'
<1>1. /\ state' = target /\ pc' = next /\ StatusFollowsState'
      /\ status' \in {"active"} \cup TERMINAL_STATES
      /\ UNCHANGED <<journal, locked>>
  <2>1. CASE Goto(next) /\ target = state
    BY <2>1
       DEF Goto, durable, CrashedInv, CrashedTypeInv, RecoveryTypeOK, TypeOK, StateInv,
           StatusFollowsState
  <2>2. CASE CanTransition(state, target) /\ Transition(target, next)
    BY <2>2, ResumeMoves
  <2> QED
    BY <2>1, <2>2
<1>2. ResumeDelivers'
  BY <1>1, StepsDiffer DEF ResumeDelivers, TERMINAL_STATES, ResumeSteps
<1>3. target \notin TERMINAL_STATES /\ "report" \notin ResumeSteps
  BY DEF ResumeSteps
<1> QED
  BY <1>1, <1>2, <1>3, ResumeArrives
     DEF CrashedInv, CrashedTypeInv, RecoveryTypeOK, TypeOK, world, memory, evidence,
         history

\* A resume that ends the run without accepting it.
LEMMA ResumeSettles ==
  ASSUME CrashedInv, pc \in ResumeSteps, UNCHANGED <<req, world, memory, history, crashes>>,
         NEW target \in TERMINAL_STATES \ {"ACCEPTED"},
         CanTransition(state, target), Settle(target)
  PROVE  CrashedInv'
<1>1. /\ state' = target /\ pc' = "report" /\ StatusFollowsState'
      /\ status' \in {"active"} \cup TERMINAL_STATES
      /\ UNCHANGED <<journal, locked>>
  BY ResumeMoves DEF Settle, RunState
<1>2. StateInResume' /\ ResumeDelivers'
  BY <1>1, StepsDiffer
     DEF StateInResume, ResumeDelivers, ResumeSteps, EndSteps
<1> QED
  BY <1>1, <1>2, ResumeArrives
     DEF CrashedInv, CrashedTypeInv, RecoveryTypeOK, TypeOK, world, memory, evidence,
         history, RunState

LEMMA BeginResumeKeepsInv ==
  ASSUME CrashedInv, BeginResume, crashes' = crashes
  PROVE  CrashedInv'
<1>1. /\ pc' = "resume_worktree" /\ state' = state /\ state \notin TERMINAL_STATES
      /\ status' = status /\ locked' = TRUE /\ journal' = journal
  BY DEF BeginResume
<1>2. StateInResume' /\ ResumeDelivers'
  BY <1>1, StepsDiffer DEF StateInResume, ResumeDelivers, ResumeSteps, TERMINAL_STATES
<1> QED
  BY <1>1, <1>2, ResumeArrives
     DEF BeginResume, CrashedInv, CrashedTypeInv, RecoveryTypeOK, TypeOK, StateInv,
         StatusFollowsState, world, memory, evidence, history, ResumeSteps

LEMMA PlanKeepsInv ==
  ASSUME CrashedInv, ResumeWorktree \/ ResumePlan, crashes' = crashes
  PROVE  CrashedInv'
<1>1. CASE ResumeWorktree
  <2>1. /\ pc' \in {"resume_worktree", "resume_plan", "raised"}
        /\ UNCHANGED <<state, status, journal, locked>>
        /\ state \notin TERMINAL_STATES
    BY <1>1
       DEF ResumeWorktree, durable, CrashedInv, StateInResume, ResumeSteps
  <2>2. StateInResume' /\ ResumeDelivers'
    BY <2>1, StepsDiffer
       DEF StateInResume, ResumeDelivers, ResumeSteps, EndSteps, TERMINAL_STATES
  <2> QED
    BY <1>1, <2>1, <2>2, ResumeArrives
       DEF ResumeWorktree, CrashedInv, CrashedTypeInv, RecoveryTypeOK, TypeOK, StateInv,
           StatusFollowsState, evidence, history, ResumeSteps
<1>2. CASE ResumePlan
  <2>1. /\ pc' \in {"resume_human", "resume_capture"}
        /\ UNCHANGED <<state, status, locked>>
        /\ state \notin TERMINAL_STATES
    BY <1>2 DEF ResumePlan, CrashedInv, StateInResume, ResumeSteps
  <2>2. StateInResume' /\ ResumeDelivers'
    BY <2>1, StepsDiffer
       DEF StateInResume, ResumeDelivers, ResumeSteps, TERMINAL_STATES
  <2>3. journal' \in [Operations -> OperationStatus]
    BY <1>2
       DEF ResumePlan, Reconciled, CrashedInv, CrashedTypeInv, RecoveryTypeOK, TypeOK,
           OperationStatus
  <2> QED
    BY <1>2, <2>1, <2>2, <2>3, ResumeArrives
       DEF ResumePlan, CrashedInv, CrashedTypeInv, RecoveryTypeOK, TypeOK, StateInv,
           StatusFollowsState, world, memory, evidence, history, ResumeSteps
<1> QED
  BY <1>1, <1>2

\* The steps that decide, or only record a transition.
LEMMA DecisionsKeepInv ==
  ASSUME CrashedInv, crashes' = crashes,
         \/ ResumeHuman \/ ResumeCapture \/ ResumeGate \/ ResumeValidated
         \/ ResumePolicy \/ ResumeRoute \/ ResumeReviewLaunch \/ ResumeReviewed
         \/ ResumeJudgeReview
  PROVE  CrashedInv'
<1>1. /\ pc \in ResumeSteps /\ state \in RunState \ TERMINAL_STATES
      /\ UNCHANGED <<req, world, memory, history, crashes>>
  <2>1. pc \in ResumeSteps /\ UNCHANGED <<req, world, memory, history>>
    BY DEF ResumeHuman, ResumeCapture, ResumeGate, ResumeValidated, ResumePolicy,
           ResumeRoute, ResumeReviewLaunch, ResumeReviewed, ResumeJudgeReview, ResumeSteps
  <2> QED
    BY <2>1
       DEF CrashedInv, CrashedTypeInv, RecoveryTypeOK, TypeOK, StateInResume
<1>2. CASE ResumeHuman
  <2>1. CASE HumanReviewStep(state) = "none"
    <3>1. pc' = "raised" /\ UNCHANGED durable
      BY <1>2, <2>1 DEF ResumeHuman, Goto
    <3>2. StateInResume' /\ ResumeDelivers'
      BY <1>1, <3>1, StepsDiffer
         DEF StateInResume, ResumeDelivers, ResumeSteps, EndSteps, durable, TERMINAL_STATES
    <3> QED
      BY <1>1, <3>1, <3>2, ResumeArrives
         DEF CrashedInv, CrashedTypeInv, RecoveryTypeOK, TypeOK, StateInv,
             StatusFollowsState, durable, world, memory, evidence, history, ResumeSteps
  <2>2. CASE HumanReviewStep(state) = "ROUTING"
    <3>1. CanTransition(state, "ROUTING") /\ Transition("ROUTING", "resume_human")
      BY <1>2, <2>2, HumanReviewIsLegal DEF ResumeHuman
    <3>2. "ROUTING" \in RunState \ TERMINAL_STATES
      BY DEF RunState, TERMINAL_STATES
    <3>3. StateInResume'
      BY <3>1, <3>2, ResumeMoves DEF StateInResume
    <3> QED
      BY <1>1, <3>1, <3>2, <3>3, ResumeGoesOn DEF ResumeSteps
  <2>3. CASE HumanReviewStep(state) \in {"NEEDS_HUMAN_REVIEW", "FAILED"}
    <3>1. /\ Settle(HumanReviewStep(state))
          /\ CanTransition(state, HumanReviewStep(state))
      BY <1>2, <2>3, HumanReviewIsLegal DEF ResumeHuman
    <3> QED
      BY <1>1, <2>3, <3>1, ResumeSettles DEF TERMINAL_STATES
  <2> QED
    BY <2>1, <2>2, <2>3, HumanReviewIsLegal
<1>3. CASE ResumeCapture
  <2>1. CASE state = "ATTEMPT_RUNNING"
    <3>1. Transition("ATTEMPT_INTERRUPTED", "resume_gate")
      BY <1>3, <2>1 DEF ResumeCapture
    <3>2. "ATTEMPT_INTERRUPTED" \in RunState \ TERMINAL_STATES
      BY DEF RunState, TERMINAL_STATES
    <3>3. CanTransition(state, "ATTEMPT_INTERRUPTED")
      BY <2>1, EdgesOfAResume
    <3>4. StateInResume'
      BY <3>1, <3>2, <3>3, ResumeMoves DEF StateInResume
    <3> QED
      BY <1>1, <3>1, <3>2, <3>3, <3>4, ResumeGoesOn DEF ResumeSteps
  <2>2. CASE state # "ATTEMPT_RUNNING"
    <3>1. Goto("resume_gate")
      BY <1>3, <2>2 DEF ResumeCapture
    <3>2. StateInResume'
      BY <1>1, <3>1 DEF StateInResume, Goto, durable
    <3> QED
      BY <1>1, <3>1, <3>2, ResumeGoesOn DEF ResumeSteps
  <2> QED
    BY <2>1, <2>2
<1>4. CASE ResumeGate
  <2>1. CASE Goto("resume_human")
    <3>1. StateInResume'
      BY <1>1, <2>1 DEF StateInResume, Goto, durable
    <3> QED
      BY <1>1, <2>1, <3>1, ResumeGoesOn DEF ResumeSteps
  <2>2. CASE Captured /\ Transition("VALIDATION_RUNNING", "resume_candidate")
    <3>1. CanTransition(state, "VALIDATION_RUNNING")
      BY <2>2, EdgesOfAResume DEF Captured
    <3>2. "VALIDATION_RUNNING" \in RunState \ TERMINAL_STATES
      BY DEF RunState, TERMINAL_STATES
    <3>3. StateInResume'
      BY <2>2, <3>1, <3>2, ResumeMoves DEF StateInResume
    <3> QED
      BY <1>1, <2>2, <3>1, <3>2, <3>3, ResumeGoesOn DEF ResumeSteps
  <2> QED
    BY <1>4, <2>1, <2>2 DEF ResumeGate
<1>5. CASE ResumeValidated
  <2>1. /\ CanTransition(state, "VALIDATION_COMPLETE")
        /\ Transition("VALIDATION_COMPLETE", "resume_export")
    BY <1>5, EdgesOfAResume DEF ResumeValidated, CrashedInv, StateInResume
  <2>2. "VALIDATION_COMPLETE" \in RunState \ TERMINAL_STATES
    BY DEF RunState, TERMINAL_STATES
  <2>3. StateInResume'
    BY <2>1, <2>2, ResumeMoves DEF StateInResume
  <2> QED
    BY <1>1, <2>1, <2>2, <2>3, ResumeGoesOn DEF ResumeSteps
<1>6. CASE ResumePolicy
  <2>1. state = "VALIDATION_COMPLETE"
    BY <1>6 DEF ResumePolicy, CrashedInv, StateInResume
  <2>2. \/ Settle("BLOCKED") \/ Settle("NEEDS_HUMAN_REVIEW")
        \/ Transition("ROUTING", "resume_route")
        \/ Transition("REVIEW_PREPARING", "resume_review_launch")
        \/ Goto("resume_enter_final")
    BY <1>6 DEF ResumePolicy
  <2>3. CASE Settle("BLOCKED") \/ Settle("NEEDS_HUMAN_REVIEW")
    BY <1>1, <2>1, <2>3, EdgesOfAResume, ResumeSettles DEF TERMINAL_STATES
  <2>4. CASE Transition("ROUTING", "resume_route")
    <3>1. "ROUTING" \in RunState \ TERMINAL_STATES /\ CanTransition(state, "ROUTING")
      BY <2>1, EdgesOfAResume DEF RunState, TERMINAL_STATES
    <3>2. StateInResume'
      BY <2>4, <3>1, ResumeMoves DEF StateInResume
    <3> QED
      BY <1>1, <2>4, <3>1, <3>2, ResumeGoesOn DEF ResumeSteps
  <2>5. CASE Transition("REVIEW_PREPARING", "resume_review_launch")
    <3>1. /\ "REVIEW_PREPARING" \in RunState \ TERMINAL_STATES
          /\ CanTransition(state, "REVIEW_PREPARING")
      BY <2>1, EdgesOfAResume DEF RunState, TERMINAL_STATES
    <3>2. StateInResume'
      BY <2>5, <3>1, ResumeMoves DEF StateInResume
    <3> QED
      BY <1>1, <2>5, <3>1, <3>2, ResumeGoesOn DEF ResumeSteps
  <2>6. CASE Goto("resume_enter_final")
    <3>1. StateInResume'
      BY <1>1, <2>1, <2>6 DEF StateInResume, Goto, durable
    <3> QED
      BY <1>1, <2>6, <3>1, ResumeGoesOn DEF ResumeSteps
  <2> QED
    BY <2>2, <2>3, <2>4, <2>5, <2>6
<1>7. CASE ResumeRoute
  BY <1>1, <1>7, EdgesOfAResume, ResumeSettles
     DEF ResumeRoute, CrashedInv, StateInResume, TERMINAL_STATES
<1>8. CASE ResumeReviewLaunch
  <2>1. /\ CanTransition(state, "REVIEW_RUNNING")
        /\ Transition("REVIEW_RUNNING", "resume_review")
    BY <1>8, EdgesOfAResume DEF ResumeReviewLaunch, CrashedInv, StateInResume
  <2>2. "REVIEW_RUNNING" \in RunState \ TERMINAL_STATES
    BY DEF RunState, TERMINAL_STATES
  <2>3. StateInResume'
    BY <2>1, <2>2, ResumeMoves DEF StateInResume
  <2> QED
    BY <1>1, <2>1, <2>2, <2>3, ResumeGoesOn DEF ResumeSteps
<1>9. CASE ResumeReviewed
  <2>1. /\ CanTransition(state, "REVIEW_COMPLETE")
        /\ Transition("REVIEW_COMPLETE", "resume_judge_review")
    BY <1>9, EdgesOfAResume DEF ResumeReviewed, CrashedInv, StateInResume
  <2>2. "REVIEW_COMPLETE" \in RunState \ TERMINAL_STATES
    BY DEF RunState, TERMINAL_STATES
  <2>3. StateInResume'
    BY <2>1, <2>2, ResumeMoves DEF StateInResume
  <2> QED
    BY <1>1, <2>1, <2>2, <2>3, ResumeGoesOn DEF ResumeSteps
<1>10. CASE ResumeJudgeReview
  <2>1. state = "REVIEW_COMPLETE"
    BY <1>10 DEF ResumeJudgeReview, CrashedInv, StateInResume
  <2>2. CASE Goto("resume_enter_final")
    <3>1. StateInResume'
      BY <1>1, <2>1, <2>2 DEF StateInResume, Goto, durable
    <3> QED
      BY <1>1, <2>2, <3>1, ResumeGoesOn DEF ResumeSteps
  <2>3. CASE Settle("NEEDS_HUMAN_REVIEW")
    BY <1>1, <2>1, <2>3, EdgesOfAResume, ResumeSettles DEF TERMINAL_STATES
  <2> QED
    BY <1>10, <2>2, <2>3 DEF ResumeJudgeReview
<1> QED
  BY <1>2, <1>3, <1>4, <1>5, <1>6, <1>7, <1>8, <1>9, <1>10

\* The steps that work in the worktree: they test, export, review and accept.
LEMMA TestsKeepInv ==
  ASSUME CrashedInv, ResumeCandidate \/ ResumeRunFinal, crashes' = crashes
  PROVE  CrashedInv'
<1>1. /\ pc \in ResumeSteps /\ state \notin TERMINAL_STATES
      /\ UNCHANGED <<req, state, status, journal, locked, ownership, exported, arrived,
                     performed, ordinal, budgets, failing, before, candidate, reviewed,
                     finalPassed, approved>>
      /\ \/ pc' = "resume_validated" /\ state = "VALIDATION_RUNNING"
         \/ pc' = "resume_judge_final" /\ state = "FINAL_VALIDATION"
      /\ WorktreeMayChange
  BY DEF ResumeCandidate, ResumeRunFinal, ResumeValidates, CrashedInv, StateInResume,
         ResumeSteps, durable, history
<1>2. tree' \in Snapshot
  BY <1>1 DEF WorktreeMayChange, CrashedInv, CrashedTypeInv, RecoveryTypeOK, TypeOK
<1>3. StateInResume' /\ ResumeDelivers'
  BY <1>1, StepsDiffer DEF StateInResume, ResumeDelivers, ResumeSteps, TERMINAL_STATES
<1> QED
  BY <1>1, <1>2, <1>3, ResumeArrives
     DEF CrashedInv, CrashedTypeInv, RecoveryTypeOK, TypeOK, StateInv, StatusFollowsState,
         ResumeSteps

LEMMA ExportsKeepInv ==
  ASSUME CrashedInv, ResumeExport \/ ResumeFinalExport \/ ResumeReview, crashes' = crashes
  PROVE  CrashedInv'
<1>1. /\ pc \in ResumeSteps /\ state \notin TERMINAL_STATES
      /\ UNCHANGED <<req, state, status, journal, locked, ownership, tree, arrived,
                     performed, ordinal, budgets, failing, before, reviewed, finalPassed>>
  BY DEF ResumeExport, ResumeFinalExport, ResumeReview, Goto, CrashedInv, StateInResume,
         ResumeSteps, durable, world, memory, evidence, history
<1>2. /\ candidate' \in Snapshot /\ exported' \subseteq Snapshot
      /\ approved' \subseteq Snapshot
  BY DEF ResumeExport, ResumeFinalExport, ResumeReview, CrashedInv, CrashedTypeInv,
         RecoveryTypeOK, TypeOK, world, memory, evidence, history
<1>3. \/ pc' = "resume_policy" /\ state = "VALIDATION_COMPLETE"
      \/ pc' = "resume_reviewed" /\ state = "REVIEW_RUNNING"
      \/ /\ pc' = "resume_accept" /\ state = "FINAL_VALIDATION"
         /\ finalPassed = {candidate} /\ exported' = {candidate} /\ candidate' = candidate
  BY DEF ResumeExport, ResumeFinalExport, ResumeReview, Goto, CrashedInv, StateInResume,
         ResumeDelivers, memory, evidence
<1>4. StateInResume' /\ ResumeDelivers'
  BY <1>1, <1>3, StepsDiffer
     DEF StateInResume, ResumeDelivers, ResumeSteps, TERMINAL_STATES
<1> QED
  BY <1>1, <1>2, <1>3, <1>4, ResumeArrives
     DEF CrashedInv, CrashedTypeInv, RecoveryTypeOK, TypeOK, StateInv, StatusFollowsState,
         ResumeSteps

LEMMA AcceptanceKeepsInv ==
  ASSUME CrashedInv, ResumeEnterFinal \/ ResumeJudgeFinal \/ ResumeAccept,
         crashes' = crashes
  PROVE  CrashedInv'
<1>1. CASE ResumeEnterFinal
  <2>1. CanTransition(state, "FINAL_VALIDATION") /\ Transition("FINAL_VALIDATION", "resume_run_final")
    BY <1>1, EdgesOfAResume DEF ResumeEnterFinal, CrashedInv, StateInResume
  <2>2. /\ state' = "FINAL_VALIDATION" /\ pc' = "resume_run_final" /\ StatusFollowsState'
        /\ status' \in {"active"} \cup TERMINAL_STATES /\ UNCHANGED <<journal, locked>>
    BY <2>1, ResumeMoves DEF RunState
  <2>3. StateInResume' /\ ResumeDelivers'
    BY <2>2, StepsDiffer DEF StateInResume, ResumeDelivers, ResumeSteps, TERMINAL_STATES
  <2> QED
    BY <1>1, <2>2, <2>3, ResumeArrives
       DEF ResumeEnterFinal, CrashedInv, CrashedTypeInv, RecoveryTypeOK, TypeOK, world,
           history, ResumeSteps, RunState
<1>2. CASE ResumeJudgeFinal
  <2>1. state = "FINAL_VALIDATION"
    BY <1>2 DEF ResumeJudgeFinal, CrashedInv, StateInResume
  <2>2. CASE FinalVerdictHolds
    <3>1. /\ UNCHANGED durable /\ pc' = "resume_final_export"
          /\ finalPassed' = {before} /\ candidate' = tree /\ before = tree
      BY <1>2, <2>2 DEF ResumeJudgeFinal, Goto, FinalVerdictHolds
    <3>2. StateInResume' /\ ResumeDelivers'
      BY <2>1, <3>1, StepsDiffer
         DEF StateInResume, ResumeDelivers, ResumeSteps, TERMINAL_STATES, durable
    <3> QED
      BY <1>2, <2>1, <3>1, <3>2, ResumeArrives
         DEF ResumeJudgeFinal, CrashedInv, CrashedTypeInv, RecoveryTypeOK, TypeOK, StateInv,
             StatusFollowsState, durable, world, ResumeSteps
  <2>3. CASE ~FinalVerdictHolds
    <3>1. Settle("BLOCKED") /\ CanTransition(state, "BLOCKED")
      BY <1>2, <2>1, <2>3, EdgesOfAResume DEF ResumeJudgeFinal
    <3>2. /\ state' = "BLOCKED" /\ pc' = "report" /\ StatusFollowsState'
          /\ status' \in {"active"} \cup TERMINAL_STATES /\ UNCHANGED <<journal, locked>>
      BY <3>1, ResumeMoves DEF Settle, RunState, TERMINAL_STATES
    <3>3. StateInResume' /\ ResumeDelivers'
      BY <3>2, StepsDiffer
         DEF StateInResume, ResumeDelivers, ResumeSteps, EndSteps
    <3> QED
      BY <1>2, <2>3, <3>2, <3>3, ResumeArrives
         DEF ResumeJudgeFinal, CrashedInv, CrashedTypeInv, RecoveryTypeOK, TypeOK, world,
             RunState, TERMINAL_STATES
  <2> QED
    BY <2>2, <2>3
<1>3. CASE ResumeAccept
  <2>1. Settle("ACCEPTED") /\ CanTransition(state, "ACCEPTED")
    BY <1>3, EdgesOfAResume DEF ResumeAccept, CrashedInv, StateInResume
  <2>2. /\ state' = "ACCEPTED" /\ pc' = "report" /\ StatusFollowsState'
        /\ status' \in {"active"} \cup TERMINAL_STATES /\ UNCHANGED <<journal, locked>>
    BY <2>1, ResumeMoves DEF Settle, RunState, TERMINAL_STATES
  <2>3. /\ candidate \in Snapshot
        /\ exported' = {candidate} /\ finalPassed' = {candidate}
    BY <1>3
       DEF ResumeAccept, CrashedInv, CrashedTypeInv, RecoveryTypeOK, TypeOK,
           ResumeDelivers, world, history
  <2>4. StateInResume' /\ ResumeDelivers'
    BY <2>2, <2>3, StepsDiffer
       DEF StateInResume, ResumeDelivers, ResumeSteps, EndSteps
  <2> QED
    BY <1>3, <2>2, <2>4, ResumeArrives
       DEF ResumeAccept, CrashedInv, CrashedTypeInv, RecoveryTypeOK, TypeOK, world, memory,
           evidence, history, RunState, TERMINAL_STATES
<1> QED
  BY <1>1, <1>2, <1>3

LEMMA CrashedStep == CrashedInv /\ [RecoveryNext]_recoveryVars => CrashedInv'
<1> SUFFICES ASSUME CrashedInv, [RecoveryNext]_recoveryVars PROVE CrashedInv'
  OBVIOUS
<1>1. crashes \in 0..MaxCrashes
  BY DEF CrashedInv, CrashedTypeInv, RecoveryTypeOK
<1>2. CASE Failures
  <2>1. crashes' \in 0..MaxCrashes
    BY <1>1, <1>2, RecoveryAssumption DEF Failures
  <2> QED
    BY <1>2, <2>1, ControllerKeepsInv, CrashKeepsInv DEF Failures
<1>3. CASE (Controller \/ Environment \/ BeginResume) /\ UNCHANGED crashes
  BY <1>1, <1>3, ControllerKeepsInv, EnvironmentKeepsInv, BeginResumeKeepsInv
<1>4. CASE Resumer /\ UNCHANGED crashes
  BY <1>4, PlanKeepsInv, DecisionsKeepInv, TestsKeepInv, ExportsKeepInv, AcceptanceKeepsInv
     DEF Resumer
<1>5. CASE UNCHANGED recoveryVars
  <2>1. UNCHANGED recoveryVars
    BY <1>5
  <2>2. CrashedTypeInv'
    BY <2>1
       DEF recoveryVars, vars, durable, world, budgets, evidence, history, CrashedInv,
           CrashedTypeInv, RecoveryTypeOK, TypeOK
  <2>3. StateInv' /\ StateInResume'
    BY <2>1
       DEF recoveryVars, vars, durable, CrashedInv, StateInv, StateInAttempt,
           StateInDecision, NoIllegalTransition, StatusFollowsState, StateInResume
  <2>4. FinalInv => FinalInv'
    BY <2>1
       DEF recoveryVars, vars, durable, world, evidence, history, FinalInv,
           AcceptedHasEvidence, CancellationHonoured, OriginalProtected
  <2>5. ResumeDelivers'
    BY <2>1, <2>4
       DEF recoveryVars, vars, durable, world, evidence, history, CrashedInv,
           ResumeDelivers
  <2> QED
    BY <2>2, <2>3, <2>5 DEF CrashedInv
<1> QED
  BY <1>2, <1>3, <1>4, <1>5 DEF RecoveryNext, Settled

-----------------------------------------------------------------------------
(***************************************************************************)
(* Theorems                                                                *)
(***************************************************************************)
\* However often the run crashes and is resumed, its rows stay well formed.
THEOREM RecoveryTypeCorrect == RecoverySpec => []RecoveryTypeOK
<1>1. CrashedInv => RecoveryTypeOK
  BY DEF CrashedInv, CrashedTypeInv
<1> QED
  BY <1>1, RecoveryStarts, CrashedStep, PTL DEF RecoverySpec

\* No step of a run, of its end or of a resume asks for a transition that the
\* table does not list, wherever the crash before it has left the row.
THEOREM RecoveryTransitionsLegal == RecoverySpec => []NoIllegalTransition
<1>1. CrashedInv => NoIllegalTransition
  BY DEF CrashedInv, StateInv
<1> QED
  BY <1>1, RecoveryStarts, CrashedStep, PTL DEF RecoverySpec

\* Status and state never disagree, whichever write a crash comes after.
THEOREM RecoveryStatusFollows == RecoverySpec => []StatusFollowsState
<1>1. CrashedInv => StatusFollowsState
  BY DEF CrashedInv, StateInv
<1> QED
  BY <1>1, RecoveryStarts, CrashedStep, PTL DEF RecoverySpec

\* A run with an outcome is never worked on again, by nobody.
LEMMA SettledStaysSettled ==
  ASSUME CrashedInv, state \in TERMINAL_STATES, [RecoveryNext]_recoveryVars
  PROVE  UNCHANGED <<status, exported, finalPassed>>
<1>1. pc \notin ResumeSteps
  BY DEF CrashedInv, StateInResume
<1>2. status = state
  BY DEF CrashedInv, StateInv, StatusFollowsState
<1>3. CASE Controller \/ Raises
  <2>1. TypeInv /\ StateInv
    BY <1>3, ControllerRuns DEF CrashedInv, CrashedTypeInv, RecoveryTypeOK, TypeInv
  <2> QED
    BY <1>3, <2>1, OutcomeKept DEF Next
<1>4. CASE Environment
  BY <1>4
     DEF Environment, RequestCancel, EditOriginal, TouchWorktree, durable, history
<1>5. CASE Crash \/ ResumeRaises
  BY <1>5 DEF Crash, ResumeRaises, durable, world, history
<1>6. ~Resumer /\ ~BeginResume
  BY <1>1
     DEF BeginResume, Resumer, ResumeWorktree, ResumePlan, ResumeHuman, ResumeCapture,
         ResumeGate, ResumeCandidate, ResumeRunFinal, ResumeValidates, ResumeValidated,
         ResumeExport, ResumePolicy, ResumeRoute, ResumeReviewLaunch, ResumeReview,
         ResumeReviewed, ResumeJudgeReview, ResumeEnterFinal, ResumeJudgeFinal,
         ResumeFinalExport, ResumeAccept, ResumeSteps
<1>7. CASE UNCHANGED recoveryVars
  BY <1>7 DEF recoveryVars, vars, durable, world, history
<1> QED
  BY <1>3, <1>4, <1>5, <1>6, <1>7 DEF RecoveryNext, Failures, Settled

\* The step that gives a run its outcome exports nothing, and the one that
\* accepts it tests nothing.
LEMMA OutcomesDeliverNothing ==
  ASSUME CrashedInv, [RecoveryNext]_recoveryVars
  PROVE  /\ exported' = exported \/ status' = status
         /\ finalPassed' = finalPassed \/ state' # "ACCEPTED"
<1>1. CASE Controller \/ Raises \/ Environment
  BY <1>1, Deliveries DEF CrashedInv, Next
<1>2. CASE Crash \/ ResumeRaises \/ BeginResume \/ UNCHANGED recoveryVars
  BY <1>2
     DEF Crash, ResumeRaises, BeginResume, recoveryVars, vars, durable, world, history
<1>3. CASE Resumer /\ ~ResumeJudgeFinal
  BY <1>3
     DEF Resumer, ResumeWorktree, ResumePlan, ResumeHuman, ResumeCapture,
         ResumeGate, ResumeCandidate, ResumeRunFinal, ResumeValidates, ResumeValidated,
         ResumeExport, ResumePolicy, ResumeRoute, ResumeReviewLaunch, ResumeReview,
         ResumeReviewed, ResumeJudgeReview, ResumeEnterFinal,
         ResumeFinalExport, ResumeAccept, Goto, durable, world, history
<1>4. CASE ResumeJudgeFinal
  <2>1. state # "ACCEPTED"
    BY <1>4 DEF ResumeJudgeFinal, CrashedInv, StateInResume
  <2>2. state' # "ACCEPTED"
    BY <1>4, <2>1 DEF ResumeJudgeFinal, Settle, Transition, Goto, durable
  <2> QED
    BY <1>4, <2>2 DEF ResumeJudgeFinal, world
<1> QED
  BY <1>1, <1>2, <1>3, <1>4 DEF RecoveryNext, Failures, Settled

\* Every step of a run, a crash or a resume is a step of the contract or
\* stutters under it.
LEMMA RecoveredContractStep ==
  ASSUME CrashedInv, CrashedInv', [RecoveryNext]_recoveryVars
  PROVE  [Contract!ContractNext]_(Contract!contractVars)
<1>1. /\ StatusFollowsState /\ StatusFollowsState'
      /\ exported' \subseteq Snapshot /\ finalPassed' \subseteq Snapshot
      /\ state \in RunState /\ state' \in RunState
  BY DEF CrashedInv, CrashedTypeInv, RecoveryTypeOK, TypeOK, StateInv
<1>2. CASE state \in TERMINAL_STATES
  BY <1>2, SettledStaysSettled DEF Contract!contractVars
<1>3. CASE state \notin TERMINAL_STATES /\ state' \notin TERMINAL_STATES
  <2>1. status = "active" /\ status' = "active"
    BY <1>1, <1>3 DEF StatusFollowsState
  <2> QED
    BY <1>1, <2>1 DEF Contract!ContractNext, Contract!Work
<1>4. CASE state \notin TERMINAL_STATES /\ state' \in TERMINAL_STATES
  <2>1. status = "active" /\ status' = state' /\ status' # "active"
    BY <1>1, <1>4 DEF StatusFollowsState, TERMINAL_STATES
  <2>2. exported' = exported
    BY <2>1, OutcomesDeliverNothing
  <2>3. CASE state' = "ACCEPTED"
    <3>1. finalPassed' = finalPassed
      BY <2>3, OutcomesDeliverNothing
    <3>2. \E c \in Snapshot : exported' = {c} /\ finalPassed' = {c}
      BY <2>3 DEF CrashedInv, ResumeDelivers
    <3> QED
      BY <2>1, <2>2, <2>3, <3>1, <3>2 DEF Contract!ContractNext, Contract!Accept
  <2>4. CASE state' # "ACCEPTED"
    BY <1>1, <1>4, <2>1, <2>2, <2>4 DEF Contract!ContractNext, Contract!Stop
  <2> QED
    BY <2>3, <2>4
<1> QED
  BY <1>2, <1>3, <1>4

\* A run that crashes and is resumed any number of times implements RunContract
\* like an undisturbed one: one outcome, kept through every later crash, and an
\* acceptance only of the content that was delivered and tested.
THEOREM RecoveredRunKeepsContract == RecoverySpec => KeepsContract
<1>1. RecoverySpec => []CrashedInv
  BY RecoveryStarts, CrashedStep, PTL DEF RecoverySpec
<1>2. RecoveryInit => Contract!ContractInit
  BY ContractInitial DEF RecoveryInit
<1>3. CrashedInv /\ CrashedInv' /\ [RecoveryNext]_recoveryVars
      => [Contract!ContractNext]_(Contract!contractVars)
  BY RecoveredContractStep
<1> QED
  BY <1>1, <1>2, <1>3, PTL DEF RecoverySpec, KeepsContract, Contract!ContractSpec

-----------------------------------------------------------------------------
(***************************************************************************)
(* The journal of a run that is accepted                                   *)
(***************************************************************************)
Open(op) == journal[op] \in {"planned", "started"}

AttemptStates == {"ATTEMPT_RUNNING", "ATTEMPT_INTERRUPTED", "ATTEMPT_COMPLETE"}

\* The steps of a resume that has passed its gate.
BeyondGate ==
  ResumeSteps \ {"resume_worktree", "resume_plan", "resume_human", "resume_capture",
                  "resume_gate"}

\* A controller has one operation open at a time, its own.  What a crash leaves
\* open either is an attempt, which the plan of the next resume closes, or
\* keeps that resume from its gate.
JournalInv ==
  /\ \A op \in Operations : journal[op] = "interrupted" => op[1] = "run_codex"
  /\ \A op \in Operations : Open(op) =>
       \/ pc \in JournaledSteps /\ op = Op
       \/ /\ pc \in (EndSteps \cup ResumeSteps \cup {"dead"}) \ BeyondGate
          /\ state # "ACCEPTED"
          /\ op[1] = "run_codex" =>
               pc \notin {"resume_human", "resume_capture", "resume_gate"}
          /\ op[1] # "run_codex" => state \notin AttemptStates

NothingOpen == \A op \in Operations : ~Open(op)

LEMMA JournalStarts == RecoveryInit => JournalInv
BY DEF RecoveryInit, Init, JournalInv, Open

\* Whatever happens while nothing is open and the journal is left alone.
LEMMA JournalAtRest ==
  ASSUME JournalInv, NothingOpen, journal' = journal
  PROVE  JournalInv'
BY DEF JournalInv, NothingOpen, Open

\* A process that stops leaves its operation open.
LEMMA JournalLeftOpen ==
  ASSUME CrashedInv, JournalInv, pc' \in {"raised", "dead"}, UNCHANGED <<state, journal>>
  PROVE  JournalInv'
<1>1. pc' \in (EndSteps \cup ResumeSteps \cup {"dead"}) \ BeyondGate
  BY DEF EndSteps, ResumeSteps, BeyondGate
<1>2. ASSUME NEW op \in Operations, Open(op)
      PROVE  state # "ACCEPTED" /\ (op[1] # "run_codex" => state \notin AttemptStates)
  <2>1. CASE pc \in JournaledSteps /\ op = Op
    <3>1. op[1] = pc
      BY <2>1 DEF Op
    <3> QED
      BY <2>1, <3>1
         DEF CrashedInv, StateInv, StateInAttempt, StateInDecision, JournaledSteps,
             AttemptStates
  <2>2. CASE ~(pc \in JournaledSteps /\ op = Op)
    BY <1>2, <2>2 DEF JournalInv
  <2> QED
    BY <2>1, <2>2
<1> QED
  BY <1>1, <1>2 DEF JournalInv, Open

LEMMA JournalRun ==
  ASSUME CrashedInv, JournalInv, Controller \/ Raises
  PROVE  JournalInv'
<1>1. journal \in [Operations -> OperationStatus]
  BY DEF CrashedInv, CrashedTypeInv, RecoveryTypeOK, TypeOK
<1>2. CASE PlanOperation \/ StartOperation \/ CompleteOperation \/ FailOperation
  <2>1. /\ pc \in JournaledSteps
        /\ \E new \in {"planned", "started", "completed", "failed"} :
             /\ journal' = [journal EXCEPT ![Op] = new]
             /\ new \in {"planned", "started"} => pc' = pc /\ Op' = Op
    BY <1>2 DEF PlanOperation, StartOperation, CompleteOperation, FailOperation, Op
  <2>2. PICK new \in {"planned", "started", "completed", "failed"} :
          /\ journal' = [journal EXCEPT ![Op] = new]
          /\ new \in {"planned", "started"} => pc' = pc /\ Op' = Op
    BY <2>1
  <2>3. ASSUME NEW op \in Operations, op # Op PROVE ~Open(op) /\ ~Open(op)'
    <3>1. pc \notin EndSteps \cup ResumeSteps \cup {"dead"}
      BY <2>1, StepsDiffer DEF RunSteps
    <3>2. journal'[op] = journal[op]
      BY <1>1, <2>2, <2>3
    <3> QED
      BY <2>3, <3>1, <3>2 DEF JournalInv, Open
  <2>4. \A op \in Operations : journal'[op] = IF op = Op THEN new ELSE journal[op]
    BY <1>1, <2>2
  <2>5. \A op \in Operations : journal'[op] = "interrupted" => op[1] = "run_codex"
    BY <2>2, <2>4 DEF JournalInv
  <2>6. ASSUME NEW op \in Operations, Open(op)'
        PROVE  pc' \in JournaledSteps /\ op = Op'
    BY <2>1, <2>2, <2>3, <2>4, <2>6 DEF Open
  <2> QED
    BY <2>5, <2>6 DEF JournalInv
<1>3. CASE \/ CaptureOriginal \/ CreateWorktree \/ RunBaseline \/ RunCodex
           \/ RunCandidate \/ ExportPatch \/ RunReview \/ RunFinal
  <2>1. UNCHANGED <<state, journal, pc, ordinal>>
    BY <1>3
       DEF CaptureOriginal, CreateWorktree, RunBaseline, RunCodex, RunCandidate,
           ExportPatch, RunReview, RunFinal, RunValidation, durable
  <2> QED
    BY <2>1 DEF JournalInv, Open, Op
<1>4. CASE \/ Advance \/ AcquireLock \/ BeginCreating \/ ValidatorPreflight
           \/ JudgeBaseline \/ NextAttempt \/ LaunchAttempt \/ ClassifyAttempt
           \/ RouteFailure \/ JudgeCandidate \/ RouteSubstantive \/ JudgePolicy
           \/ JudgeReview \/ ApplyReview \/ EnterFinal \/ JudgeFinal \/ CheckOriginal
  <2>1. pc \in RunSteps \ JournaledSteps
    BY <1>4
       DEF Advance, AcquireLock, BeginCreating, ValidatorPreflight, JudgeBaseline,
           NextAttempt, LaunchAttempt, ClassifyAttempt, RouteFailure, JudgeCandidate,
           RouteSubstantive, JudgePolicy, JudgeReview, ApplyReview, EnterFinal,
           JudgeFinal, CheckOriginal, RunSteps, JournaledSteps, PlainSteps, BranchSteps
  <2>2. NothingOpen
    BY <2>1, StepsDiffer DEF JournalInv, NothingOpen
  <2>3. journal' = journal
    BY <1>4
       DEF Advance, AcquireLock, BeginCreating, ValidatorPreflight, JudgeBaseline,
           NextAttempt, LaunchAttempt, ClassifyAttempt, RouteFailure, ApplyDecision,
           JudgeCandidate, RouteSubstantive, JudgePolicy, JudgeReview, ApplyReview,
           EnterFinal, JudgeFinal, CheckOriginal, Settle, Transition, Goto, durable
  <2> QED
    BY <2>2, <2>3, JournalAtRest
<1>5. CASE Report \/ Release
  <2>1. pc \in EndSteps
    BY <1>5 DEF Report, Release, EndSteps
  <2>2. pc' \in EndSteps /\ UNCHANGED <<state, journal>>
    BY <1>5 DEF Report, Release, EndSteps
  <2>3. pc \notin JournaledSteps /\ EndSteps \cap BeyondGate = {}
        /\ pc' \notin {"resume_human", "resume_capture", "resume_gate"}
    BY <2>1, <2>2, StepsDiffer DEF RunSteps, BeyondGate, EndSteps
  <2> QED
    BY <2>2, <2>3 DEF JournalInv, Open
<1>6. CASE RaiseError
  BY <1>6, JournalLeftOpen DEF RaiseError, durable
<1> QED
  BY <1>2, <1>3, <1>4, <1>5, <1>6 DEF Controller, Raises

LEMMA AttemptsByType ==
  \A s \in JournaledSteps : OperationType(s) = "run_codex_attempt" <=> s = "run_codex"
BY DEF OperationType, JournaledSteps

\* The resume closes the attempts it finds open, and goes through its gate only
\* from a state in which nothing else can be open.
LEMMA JournalResume ==
  ASSUME CrashedInv, JournalInv, BeginResume \/ Resumer
  PROVE  JournalInv'
<1>1. CASE BeginResume \/ ResumeWorktree
  <2>1. /\ pc' \in {"resume_worktree", "resume_plan", "raised"}
        /\ pc \in {"gone", "dead", "resume_worktree"}
        /\ UNCHANGED <<state, journal>>
    BY <1>1 DEF BeginResume, ResumeWorktree, durable
  <2> QED
    BY <2>1 DEF JournalInv, Open, EndSteps, ResumeSteps, BeyondGate, JournaledSteps
<1>2. CASE ResumePlan
  <2>1. /\ pc = "resume_plan" /\ pc' \in {"resume_human", "resume_capture"}
        /\ state' = state
        /\ journal' = Reconciled
    BY <1>2 DEF ResumePlan
  <2>2. ASSUME NEW op \in Operations
        PROVE  /\ journal'[op] = "interrupted" => op[1] = "run_codex"
               /\ Open(op)' => Open(op) /\ op[1] # "run_codex"
    <3>1. journal'[op] = IF op \in Incomplete /\ op[1] = "run_codex"
                         THEN "interrupted" ELSE journal[op]
      BY <2>1, AttemptsByType DEF Reconciled, Operations
    <3>2. Open(op) => op \in Incomplete
      BY DEF Open, Incomplete
    <3> QED
      BY <3>1, <3>2 DEF JournalInv, Open
  <2>3. pc' \in ResumeSteps \ BeyondGate
    BY <2>1 DEF ResumeSteps, BeyondGate
  <2>4. \A op \in Operations : Open(op) /\ op[1] # "run_codex" =>
          state # "ACCEPTED" /\ state \notin AttemptStates
    BY <2>1 DEF JournalInv, JournaledSteps
  <2> QED
    BY <2>1, <2>2, <2>3, <2>4 DEF JournalInv
<1>3. CASE ResumeHuman \/ ResumeCapture \/ ResumeGate
  <2>1. /\ pc \in {"resume_human", "resume_capture", "resume_gate"}
        /\ journal' = journal
    BY <1>3
       DEF ResumeHuman, ResumeCapture, ResumeGate, Settle, Transition, Goto, durable
  <2>2. \A op \in Operations : Open(op) =>
          op[1] # "run_codex" /\ state \notin AttemptStates \cup {"ACCEPTED"}
    BY <2>1 DEF JournalInv, JournaledSteps
  <2>3. CASE state \in AttemptStates \cup {"ACCEPTED"}
    <3>1. NothingOpen
      BY <2>2, <2>3 DEF NothingOpen
    <3> QED
      BY <2>1, <3>1, JournalAtRest
  <2>4. CASE state \notin AttemptStates \cup {"ACCEPTED"}
    <3>1. /\ pc' \in {"resume_human", "resume_gate", "report", "raised", "illegal"}
          /\ state' \in {state, "ROUTING", "NEEDS_HUMAN_REVIEW", "FAILED"}
      <4>1. CASE ResumeHuman
        BY <4>1, HumanReviewIsLegal
           DEF ResumeHuman, Settle, Transition, Goto, durable
      <4>2. CASE ResumeCapture \/ ResumeGate
        BY <2>4, <4>2
           DEF ResumeCapture, ResumeGate, Captured, AttemptStates, Goto, durable
      <4> QED
        BY <1>3, <4>1, <4>2
    <3>2. state' \notin AttemptStates \cup {"ACCEPTED"}
      BY <2>4, <3>1 DEF AttemptStates
    <3>3. pc' \in (EndSteps \cup ResumeSteps \cup {"dead"}) \ BeyondGate
      BY <3>1 DEF EndSteps, ResumeSteps, BeyondGate
    <3> QED
      BY <2>1, <2>2, <3>2, <3>3 DEF JournalInv, Open
  <2> QED
    BY <2>3, <2>4
<1>4. CASE Resumer /\ pc \in BeyondGate
  <2>1. NothingOpen
    BY <1>4, StepsDiffer DEF JournalInv, NothingOpen, BeyondGate, RunSteps
  <2>2. journal' = journal
    BY <1>4
       DEF Resumer, ResumeWorktree, ResumePlan, ResumeHuman, ResumeCapture, ResumeGate,
           ResumeCandidate, ResumeRunFinal, ResumeValidates, ResumeValidated,
           ResumeExport, ResumePolicy, ResumeRoute, ResumeReviewLaunch, ResumeReview,
           ResumeReviewed, ResumeJudgeReview, ResumeEnterFinal, ResumeJudgeFinal,
           ResumeFinalExport, ResumeAccept, BeyondGate, Settle, Transition, Goto, durable
  <2> QED
    BY <2>1, <2>2, JournalAtRest
<1>5. Resumer => \/ ResumeWorktree \/ ResumePlan \/ ResumeHuman \/ ResumeCapture
                 \/ ResumeGate \/ pc \in BeyondGate
  BY DEF Resumer, ResumeCandidate, ResumeRunFinal, ResumeValidates, ResumeValidated,
         ResumeExport, ResumePolicy, ResumeRoute, ResumeReviewLaunch, ResumeReview,
         ResumeReviewed, ResumeJudgeReview, ResumeEnterFinal, ResumeJudgeFinal,
         ResumeFinalExport, ResumeAccept, BeyondGate, ResumeSteps
<1> QED
  BY <1>1, <1>2, <1>3, <1>4, <1>5

LEMMA JournalStep ==
  ASSUME CrashedInv, JournalInv, [RecoveryNext]_recoveryVars
  PROVE  JournalInv'
<1>1. CASE Controller \/ Raises
  BY <1>1, JournalRun
<1>2. CASE BeginResume \/ Resumer
  BY <1>2, JournalResume
<1>3. CASE Crash \/ ResumeRaises
  BY <1>3, JournalLeftOpen DEF Crash, ResumeRaises, durable
<1>4. CASE Environment \/ UNCHANGED recoveryVars
  <2>1. UNCHANGED <<state, journal, pc, ordinal>>
    BY <1>4
       DEF Environment, RequestCancel, EditOriginal, TouchWorktree, recoveryVars, vars,
           durable
  <2> QED
    BY <2>1 DEF JournalInv, Open, Op
<1> QED
  BY <1>1, <1>2, <1>3, <1>4 DEF RecoveryNext, Failures, Settled

\* However a run came to be accepted, its journal leaves no side effect of
\* unknown fate behind, except attempts that are recorded as interrupted.
THEOREM RecoveryNothingPending == RecoverySpec => []AcceptedNothingPending
<1>1. CrashedInv /\ JournalInv => AcceptedNothingPending
  <2> SUFFICES ASSUME CrashedInv, JournalInv, state = "ACCEPTED",
                      NEW op \in Operations, op \in Incomplete
               PROVE  op[1] = "run_codex" /\ journal[op] = "interrupted"
    BY DEF AcceptedNothingPending, Incomplete
  <2>1. pc \notin JournaledSteps
    BY DEF CrashedInv, StateInv, StateInAttempt, StateInDecision, JournaledSteps
  <2> QED
    BY <2>1 DEF JournalInv, Open, Incomplete
<1>2. CrashedInv /\ JournalInv /\ [RecoveryNext]_recoveryVars => (CrashedInv /\ JournalInv)'
  BY CrashedStep, JournalStep
<1> QED
  BY <1>1, <1>2, RecoveryStarts, JournalStarts, PTL DEF RecoverySpec

-----------------------------------------------------------------------------
(***************************************************************************)
(* Reviews across crashes                                                  *)
(***************************************************************************)
\* A resume reviews what it has captured, and accepts what was reviewed.
RecoveredReviewInv ==
  /\ pc \in RunSteps => ReviewInv
  /\ pc \in {"resume_reviewed", "resume_judge_review"} /\ outcome = "accept"
       => Approves(tree)
  /\ pc \in {"resume_policy", "resume_review_launch", "resume_review",
             "resume_reviewed", "resume_judge_review", "resume_enter_final"}
       => candidate = tree
  /\ pc \in {"resume_run_final", "resume_judge_final"} => candidate = before
  /\ pc \in {"resume_enter_final", "resume_run_final", "resume_judge_final",
             "resume_final_export", "resume_accept"}
       /\ (Demanded \/ candidate.policy = "high_risk")
       => Approves(candidate)
  /\ AcceptedWasReviewed

\* The first controller, and the end of any.
LEMMA ControllerReviews ==
  ASSUME CrashedInv, RecoveredReviewInv, Controller \/ Raises
  PROVE  RecoveredReviewInv'
<1>1. pc \in RunSteps \cup EndSteps
  BY ControllerRuns
<1>2. TypeInv /\ StateInv
  BY <1>1 DEF CrashedInv, CrashedTypeInv, RecoveryTypeOK, TypeInv
<1>3. TypeInv'
  BY <1>2, TypeStep DEF Next
<1>4. pc' \notin ResumeSteps
  BY <1>3, StepsDiffer DEF TypeInv
<1>5. CASE pc \in RunSteps
  <2>1. ReviewInv'
    BY <1>2, <1>5, ReviewStep DEF CrashedInv, ResumeDelivers, RecoveredReviewInv, Next
  <2> QED
    BY <1>4, <2>1 DEF RecoveredReviewInv, ReviewInv, ResumeSteps
<1>6. CASE pc \in EndSteps
  <2>1. pc' \in EndSteps /\ UNCHANGED <<state, exported>>
    BY <1>6, EndIsQuiet
  <2>2. req' = req /\ approved \subseteq approved'
    BY ApprovalsKept DEF Next
  <2>3. AcceptedWasReviewed'
    BY <2>1, <2>2 DEF RecoveredReviewInv, AcceptedWasReviewed
  <2> QED
    BY <1>4, <2>1, <2>3, StepsDiffer DEF RecoveredReviewInv, ResumeSteps
<1> QED
  BY <1>1, <1>5, <1>6

\* Cancellations and edits, crashes and exceptions, and the start of a resume.
LEMMA DisturbancesReview ==
  ASSUME CrashedInv, RecoveredReviewInv, "touch" \notin Events,
         Environment \/ Crash \/ ResumeRaises \/ BeginResume \/ UNCHANGED recoveryVars
  PROVE  RecoveredReviewInv'
<1> USE DEF RecoveredReviewInv
<1>1. CASE Environment \/ UNCHANGED recoveryVars
  BY <1>1
     DEF Environment, RequestCancel, EditOriginal, TouchWorktree, recoveryVars, vars,
         durable, world, evidence, history, ReviewInv, Demanded, Approves,
         AcceptedWasReviewed
<1>2. CASE Crash \/ ResumeRaises \/ BeginResume
  <2>1. /\ pc' \in {"dead", "raised", "resume_worktree"}
        /\ UNCHANGED <<req, state, exported, approved>>
    BY <1>2 DEF Crash, ResumeRaises, BeginResume, durable, world, history
  <2>2. pc' \notin RunSteps
    BY <2>1, StepsDiffer DEF EndSteps, ResumeSteps
  <2> QED
    BY <2>1, <2>2 DEF AcceptedWasReviewed
<1> QED
  BY <1>1, <1>2

\* The steps of a resume up to the export of what it has captured.
LEMMA CaptureReviews ==
  ASSUME CrashedInv, RecoveredReviewInv,
         \/ ResumeWorktree \/ ResumePlan \/ ResumeHuman \/ ResumeCapture
         \/ ResumeGate \/ ResumeCandidate \/ ResumeValidated \/ ResumeExport
         \/ ResumeRoute
  PROVE  RecoveredReviewInv'
<1>1. pc \in ResumeSteps
  BY DEF ResumeWorktree, ResumePlan, ResumeHuman, ResumeCapture, ResumeGate,
         ResumeCandidate, ResumeValidates, ResumeValidated, ResumeExport, ResumeRoute,
         ResumeSteps
<1>2. state # "ACCEPTED"
  BY <1>1 DEF CrashedInv, StateInResume, TERMINAL_STATES
<1>3. ~ResumeExport => /\ state' # "ACCEPTED"
                       /\ pc' \in {"resume_worktree", "resume_plan", "resume_human",
                                   "resume_capture", "resume_gate", "resume_candidate",
                                   "resume_validated", "resume_export", "report",
                                   "raised", "illegal"}
  BY <1>2, HumanReviewIsLegal
     DEF ResumeWorktree, ResumePlan, ResumeHuman, ResumeCapture, ResumeGate,
         ResumeCandidate, ResumeValidates, ResumeValidated, ResumeRoute, Settle,
         Transition, Goto, durable
<1>4. ResumeExport => /\ state' # "ACCEPTED" /\ pc' = "resume_policy"
                      /\ candidate' = tree /\ tree' = tree
  BY <1>2 DEF ResumeExport, Goto, durable
<1>5. pc' \notin RunSteps /\ AcceptedWasReviewed'
  BY <1>3, <1>4, StepsDiffer DEF AcceptedWasReviewed, EndSteps, ResumeSteps
<1> QED
  BY <1>3, <1>4, <1>5 DEF RecoveredReviewInv

\* Policy, review, final validation and acceptance of a resume.
LEMMA VerdictReviews ==
  ASSUME CrashedInv, RecoveredReviewInv, "touch" \notin Events,
         \/ ResumePolicy \/ ResumeReviewLaunch \/ ResumeReview \/ ResumeReviewed
         \/ ResumeJudgeReview \/ ResumeEnterFinal \/ ResumeRunFinal
         \/ ResumeJudgeFinal \/ ResumeFinalExport \/ ResumeAccept
  PROVE  RecoveredReviewInv'
<1>1. pc \in ResumeSteps /\ req' = req
  BY DEF ResumePolicy, ResumeReviewLaunch, ResumeReview, ResumeReviewed,
         ResumeJudgeReview, ResumeEnterFinal, ResumeRunFinal, ResumeValidates,
         ResumeJudgeFinal, ResumeFinalExport, ResumeAccept, ResumeSteps
<1>2. state # "ACCEPTED"
  BY <1>1 DEF CrashedInv, StateInResume, TERMINAL_STATES
<1> USE DEF Settle, Transition, Goto, durable
<1>3. ASSUME pc' \in ResumeSteps \cup EndSteps, state' # "ACCEPTED"
      PROVE  pc' \notin RunSteps /\ AcceptedWasReviewed'
  BY <1>3, StepsDiffer DEF AcceptedWasReviewed
<1>4. CASE ResumePolicy
  <2>1. /\ state' # "ACCEPTED" /\ pc = "resume_policy"
        /\ UNCHANGED <<tree, candidate, approved, outcome>>
        /\ \/ pc' \in {"report", "illegal", "resume_route", "resume_review_launch"}
           \/ pc' = "resume_enter_final" /\ ~ResumeReviewRequired(candidate.policy)
    BY <1>2, <1>4 DEF ResumePolicy, world, memory, evidence, history
  <2>2. ~ResumeReviewRequired(candidate.policy)
          => ~Demanded /\ candidate.policy # "high_risk"
    BY DEF ResumeReviewRequired, Demanded
  <2>3. pc' \notin RunSteps /\ AcceptedWasReviewed'
    BY <1>3, <2>1 DEF ResumeSteps, EndSteps
  <2> QED
    BY <1>1, <2>1, <2>2, <2>3 DEF RecoveredReviewInv, Demanded
<1>5. CASE ResumeReviewLaunch \/ ResumeReview \/ ResumeReviewed
  <2>1. /\ state' # "ACCEPTED" /\ candidate' = candidate /\ tree' = tree
        /\ \/ pc' \in {"resume_review", "illegal"}
           \/ /\ pc' = "resume_reviewed"
              /\ outcome' = "accept" => approved' = approved \cup {tree}
           \/ /\ pc = "resume_reviewed" /\ pc' = "resume_judge_review"
              /\ UNCHANGED <<outcome, approved>>
        /\ pc \in {"resume_review_launch", "resume_review", "resume_reviewed"}
    BY <1>2, <1>5
       DEF ResumeReviewLaunch, ResumeReview, ResumeReviewed, world, memory, evidence,
           history
  <2>2. pc' \notin RunSteps /\ AcceptedWasReviewed'
    BY <1>3, <2>1 DEF ResumeSteps, EndSteps
  <2> QED
    BY <2>1, <2>2 DEF RecoveredReviewInv, Approves
<1>6. CASE ResumeJudgeReview
  <2>1. /\ state' # "ACCEPTED" /\ pc = "resume_judge_review"
        /\ UNCHANGED <<tree, candidate, approved, outcome>>
        /\ \/ pc' \in {"report", "illegal"}
           \/ pc' = "resume_enter_final" /\ outcome = "accept"
    BY <1>2, <1>6 DEF ResumeJudgeReview, world, memory, evidence, history
  <2>2. pc' \notin RunSteps /\ AcceptedWasReviewed'
    BY <1>3, <2>1 DEF ResumeSteps, EndSteps
  <2> QED
    BY <2>1, <2>2 DEF RecoveredReviewInv, Approves
<1>7. CASE ResumeEnterFinal \/ ResumeRunFinal
  <2>1. /\ state' # "ACCEPTED" /\ UNCHANGED <<candidate, approved>>
        /\ \/ pc' = "illegal"
           \/ pc = "resume_enter_final" /\ pc' = "resume_run_final" /\ before' = tree
           \/ pc = "resume_run_final" /\ pc' = "resume_judge_final" /\ before' = before
    BY <1>2, <1>7
       DEF ResumeEnterFinal, ResumeRunFinal, ResumeValidates, world, history
  <2>2. pc' \notin RunSteps /\ AcceptedWasReviewed'
    BY <1>3, <2>1 DEF ResumeSteps, EndSteps
  <2> QED
    BY <1>1, <2>1, <2>2 DEF RecoveredReviewInv, Approves, Demanded
<1>8. CASE ResumeJudgeFinal
  <2>1. /\ state' # "ACCEPTED" /\ approved' = approved /\ pc = "resume_judge_final"
        /\ \/ pc' \in {"report", "illegal"}
           \/ pc' = "resume_final_export" /\ candidate' = tree /\ tree = before
    BY <1>2, <1>8 DEF ResumeJudgeFinal, FinalVerdictHolds
  <2>2. pc' \notin RunSteps /\ AcceptedWasReviewed'
    BY <1>3, <2>1 DEF ResumeSteps, EndSteps
  <2> QED
    BY <1>1, <2>1, <2>2 DEF RecoveredReviewInv, Approves, Demanded
<1>9. CASE ResumeFinalExport
  <2>1. /\ state' # "ACCEPTED" /\ UNCHANGED <<approved, candidate>>
        /\ pc = "resume_final_export" /\ pc' = "resume_accept"
    BY <1>2, <1>9 DEF ResumeFinalExport, memory, evidence, history
  <2>2. pc' \notin RunSteps /\ AcceptedWasReviewed'
    BY <1>3, <2>1 DEF ResumeSteps
  <2> QED
    BY <1>1, <2>1, <2>2 DEF RecoveredReviewInv, Approves, Demanded
<1>10. CASE ResumeAccept
  <2>1. /\ pc = "resume_accept" /\ pc' \in {"report", "illegal"}
        /\ UNCHANGED <<exported, approved>> /\ exported = {candidate}
    BY <1>10
       DEF ResumeAccept, world, history, CrashedInv, ResumeDelivers
  <2>2. AcceptedWasReviewed'
    BY <1>1, <2>1 DEF RecoveredReviewInv, AcceptedWasReviewed, Approves, Demanded
  <2>3. pc' \notin RunSteps
    BY <2>1, StepsDiffer DEF EndSteps
  <2> QED
    BY <2>1, <2>2, <2>3 DEF RecoveredReviewInv
<1> QED
  BY <1>4, <1>5, <1>6, <1>7, <1>8, <1>9, <1>10

LEMMA ReviewsStep ==
  ASSUME "touch" \notin Events
  PROVE  CrashedInv /\ RecoveredReviewInv /\ [RecoveryNext]_recoveryVars
           => RecoveredReviewInv'
BY ControllerReviews, DisturbancesReview, CaptureReviews, VerdictReviews
   DEF RecoveryNext, Failures, Settled, Resumer

\* For every number of crashes at any step: if nothing outside the run writes its
\* worktree, a recovered run, too, is accepted only after the review that the
\* request or a high-risk path demands, of the content that it delivers.
THEOREM RecoveryAcceptedWasReviewed ==
  ASSUME "touch" \notin Events
  PROVE  RecoverySpec => []AcceptedWasReviewed
<1>1. RecoveryInit => RecoveredReviewInv
  BY DEF RecoveryInit, Init, RecoveredReviewInv, ReviewInv, AcceptedWasReviewed,
         FromReview, ReviewSteps, LastSteps
<1>2. RecoveredReviewInv => AcceptedWasReviewed
  BY DEF RecoveredReviewInv
<1> QED
  BY <1>1, <1>2, RecoveryStarts, CrashedStep, ReviewsStep, PTL DEF RecoverySpec
=================================================================================
