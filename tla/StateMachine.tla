---------------------------- MODULE StateMachine ----------------------------
(***************************************************************************)
(* The run states of codex_auto and the declared transitions between them  *)
(* (domain/enums.py, domain/state_machine.py), and the route on which the  *)
(* resume service ends a run it may not continue (recovery_resume.py).     *)
(* Constant-level only: the modules that move a run EXTEND this one.       *)
(***************************************************************************)

\* The states no transition leaves.
TERMINAL_STATES ==
  {"ACCEPTED", "NEEDS_HUMAN_REVIEW", "BLOCKED", "FAILED", "CANCELLED"}

RunState ==
  {"CREATED", "PREFLIGHT", "SOURCE_SNAPSHOTTED", "WORKTREE_CREATING",
   "WORKTREE_READY", "BASELINE_RUNNING", "BASELINE_COMPLETE",
   "ATTEMPT_PREPARING", "ATTEMPT_RUNNING", "ATTEMPT_INTERRUPTED",
   "ATTEMPT_COMPLETE", "VALIDATION_RUNNING", "VALIDATION_COMPLETE", "ROUTING",
   "REVIEW_PREPARING", "REVIEW_RUNNING", "REVIEW_COMPLETE",
   "FINAL_VALIDATION"} \cup TERMINAL_STATES

\* The successors the table lists for each state.
LEGAL_TRANSITIONS ==
  [s \in RunState |->
    CASE s = "CREATED" ->
           {"PREFLIGHT", "BLOCKED", "CANCELLED", "FAILED"}
      [] s = "PREFLIGHT" ->
           {"SOURCE_SNAPSHOTTED", "BLOCKED", "CANCELLED", "FAILED"}
      [] s = "SOURCE_SNAPSHOTTED" ->
           {"WORKTREE_CREATING", "BLOCKED", "CANCELLED", "FAILED"}
      [] s = "WORKTREE_CREATING" ->
           {"WORKTREE_READY", "BLOCKED", "CANCELLED", "FAILED"}
      [] s = "WORKTREE_READY" ->
           {"BASELINE_RUNNING", "BLOCKED", "CANCELLED", "FAILED"}
      [] s = "BASELINE_RUNNING" ->
           {"BASELINE_COMPLETE", "BLOCKED", "NEEDS_HUMAN_REVIEW", "CANCELLED",
            "FAILED"}
      [] s = "BASELINE_COMPLETE" ->
           {"ATTEMPT_PREPARING", "BLOCKED", "CANCELLED", "FAILED"}
      [] s = "ATTEMPT_PREPARING" ->
           {"ATTEMPT_RUNNING", "BLOCKED", "CANCELLED", "FAILED"}
      [] s = "ATTEMPT_RUNNING" ->
           {"ATTEMPT_COMPLETE", "ATTEMPT_INTERRUPTED", "CANCELLED", "FAILED"}
      [] s = "ATTEMPT_INTERRUPTED" ->
           {"VALIDATION_RUNNING", "ROUTING", "BLOCKED", "NEEDS_HUMAN_REVIEW",
            "CANCELLED"}
      [] s = "ATTEMPT_COMPLETE" ->
           {"VALIDATION_RUNNING", "ROUTING", "BLOCKED", "CANCELLED"}
      [] s = "VALIDATION_RUNNING" ->
           {"VALIDATION_COMPLETE", "BLOCKED", "NEEDS_HUMAN_REVIEW",
            "CANCELLED", "FAILED"}
      [] s = "VALIDATION_COMPLETE" ->
           {"ROUTING", "REVIEW_PREPARING", "FINAL_VALIDATION", "BLOCKED",
            "NEEDS_HUMAN_REVIEW", "CANCELLED"}
      [] s = "ROUTING" ->
           {"ATTEMPT_PREPARING", "REVIEW_PREPARING", "FINAL_VALIDATION",
            "BLOCKED", "NEEDS_HUMAN_REVIEW", "CANCELLED", "FAILED"}
      [] s = "REVIEW_PREPARING" ->
           {"REVIEW_RUNNING", "BLOCKED", "CANCELLED", "FAILED"}
      [] s = "REVIEW_RUNNING" ->
           {"REVIEW_COMPLETE", "BLOCKED", "CANCELLED", "FAILED"}
      [] s = "REVIEW_COMPLETE" ->
           {"ATTEMPT_PREPARING", "FINAL_VALIDATION", "NEEDS_HUMAN_REVIEW",
            "BLOCKED", "CANCELLED"}
      [] s = "FINAL_VALIDATION" ->
           {"ACCEPTED", "ROUTING", "NEEDS_HUMAN_REVIEW", "BLOCKED",
            "CANCELLED", "FAILED"}
      [] OTHER -> {}]

CanTransition(current, target) == target \in LEGAL_TRANSITIONS[current]

(***************************************************************************)
(* _transition_to_terminal: where a resume that asks for human review goes *)
(* first from "current"; from ROUTING it goes on to human review.  "none"  *)
(* stands for the ValueError of the last line.                             *)
(***************************************************************************)
\* (mutant) A state that reaches neither review nor routing has no way out.
NoFailedFallback(current) ==
  CASE CanTransition(current, "NEEDS_HUMAN_REVIEW") -> "NEEDS_HUMAN_REVIEW"
    [] ~CanTransition(current, "NEEDS_HUMAN_REVIEW")
       /\ CanTransition(current, "ROUTING") -> "ROUTING"
    [] OTHER -> "none"

HumanReviewStep(current) ==
  CASE CanTransition(current, "NEEDS_HUMAN_REVIEW") -> "NEEDS_HUMAN_REVIEW"
    [] ~CanTransition(current, "NEEDS_HUMAN_REVIEW")
       /\ CanTransition(current, "ROUTING") -> "ROUTING"
    [] ~CanTransition(current, "NEEDS_HUMAN_REVIEW")
       /\ ~CanTransition(current, "ROUTING")
       /\ CanTransition(current, "FAILED") -> "FAILED"
    [] OTHER -> "none"
=============================================================================
