---------------------------- MODULE Orchestrator ----------------------------
(***************************************************************************)
(* One controller run: RunOrchestrator.run (orchestrator.py) from the      *)
(* created run row to the released lock.  A step is what lies between two  *)
(* durable commits: a recorded transition, or one of the commits of the    *)
(* operation journal around a side effect.  "pc" names the next step.      *)
(* The user may ask for cancellation or edit the original checkout at any  *)
(* time, and any step may raise.  Crash and resume are in Recovery.        *)
(***************************************************************************)
EXTENDS StateMachine, Routing, Sequences

CONSTANTS
  Requests,      \* the run requests considered (see Request)
  MaxAttempts,   \* last ordinal of the attempt loop (8 in the code)
  Evidence,      \* validation summaries a failing candidate may show
  AttemptFlags,  \* process evidence an attempt may leave behind
  MaxVersion,    \* bound: how often the candidate worktree changes
  Events         \* the outside events considered (see OutsideEvent)

\* The cancel command, an edit of the original checkout, a write to the
\* worktree by something the run does not control, an exception.
OutsideEvent == {"cancel", "edit", "touch", "error"}

\* What run() reads of a request, the reviewer and the validator configuration.
Request ==
  [lane : Lane, deepMode : DeepMode,
   reviewer : BOOLEAN,      \* a reviewer is configured
   noReview : BOOLEAN, reviewAlways : BOOLEAN,
   rejectDirty : BOOLEAN,   \* the source is dirty and must be clean
   unsafeSteps : BOOLEAN,   \* some validator step is not safe to rerun
   maxTransient : Nat, maxRepairs : Nat]

ASSUME OrchestratorAssumption ==
  /\ Requests \subseteq Request
  /\ MaxAttempts \in Nat \ {0}
  /\ MaxVersion \in Nat
  /\ Events \subseteq OutsideEvent

VARIABLES
  req,
  \* durable: the row in runs, its journal and its repository lock
  state, status, journal, locked,
  \* the world: the owned worktree, the exported patch, outside events
  tree, ownership, exported, arrived,
  \* controller memory
  pc, performed, ordinal, selection, route, repairs, transientRetries,
  reviewerRepairs, seen, previous, flags, outcome, failing, before,
  candidate, reviewed,
  \* history, for stating properties only
  finalPassed,   \* what the accepting final validation was started on
  approved       \* what the accepting reviewer looked at

durable == <<state, status, journal, locked>>
world == <<tree, ownership, exported, arrived>>
budgets == <<selection, route, repairs, transientRetries, reviewerRepairs,
             seen, previous>>
evidence == <<flags, outcome, failing, before, candidate, reviewed>>
history == <<finalPassed, approved>>
vars == <<req, durable, world, pc, performed, ordinal, budgets, evidence,
          history>>

-----------------------------------------------------------------------------
(***************************************************************************)
(* Values                                                                  *)
(***************************************************************************)
\* How the policy judges a candidate: only high-risk findings do not block.
PolicyVerdict == {"clean", "high_risk", "blocking"}

\* A Git snapshot: which content, and what the policy says of that content.
Snapshot == [version : 0..MaxVersion, policy : PolicyVerdict]
Base == [version |-> 0, policy |-> "clean"]

JournaledSteps ==
  {"capture_original", "create_worktree", "run_baseline", "run_codex",
   "run_candidate", "policy_export", "run_review", "run_final",
   "final_policy_export", "final_export"}

\* The operation_type the journal stores, which is all that recovery sees.
OperationType(step) ==
  CASE step = "capture_original" -> "capture_git_snapshot"
    [] step = "create_worktree" -> "create_worktree"
    [] step = "run_codex" -> "run_codex_attempt"
    [] step = "run_review" -> "run_reviewer"
    [] step = "run_baseline" /\ ~req.unsafeSteps -> "run_baseline_validator"
    [] step \in {"run_candidate", "run_final"} /\ ~req.unsafeSteps ->
         "run_candidate_validator"
    [] step \in {"run_baseline", "run_candidate", "run_final"}
       /\ req.unsafeSteps -> "run_validation_non_idempotent"
    [] OTHER -> "export_patch"

OperationStatus ==
  {"absent", "planned", "started", "completed", "failed", "interrupted"}

\* Operations are keyed by step and attempt ordinal (0 before the loop).
Operations == JournaledSteps \X (0..MaxAttempts)
Op == <<pc, ordinal>>

\* The step that follows each journaled operation.
AfterOperation ==
  [s \in JournaledSteps |->
    CASE s = "capture_original" -> "source_snapshotted"
      [] s = "create_worktree" -> "worktree_ready"
      [] s = "run_baseline" -> "judge_baseline"
      [] s = "run_codex" -> "record_attempt"
      [] s = "run_candidate" -> "judge_candidate"
      [] s = "run_review" -> "judge_review"
      [] s = "run_final" -> "judge_final"
      [] s = "final_export" -> "accept"
      [] OTHER -> "policy_blocked"]

\* Steps that only record a transition: its target and the step that follows.
PlainSteps ==
  [preflight          |-> <<"PREFLIGHT", "capture_original">>,
   source_snapshotted |-> <<"SOURCE_SNAPSHOTTED", "creating">>,
   worktree_ready     |-> <<"WORKTREE_READY", "validator_preflight">>,
   record_attempt     |-> <<"ATTEMPT_COMPLETE", "classify">>,
   to_routing         |-> <<"ROUTING", "decide">>,
   review_launch      |-> <<"REVIEW_RUNNING", "run_review">>,
   policy_blocked     |-> <<"BLOCKED", "report">>,
   accept             |-> <<"ACCEPTED", "report">>]

\* The steps between two operations that branch on what was observed.
BranchSteps ==
  {"acquire_lock", "creating", "validator_preflight", "judge_baseline",
   "next_attempt", "launch", "classify", "route_failure", "judge_candidate",
   "decide", "judge_review", "apply_review", "enter_final", "judge_final",
   "check_original"}

RunSteps == JournaledSteps \cup DOMAIN PlainSteps \cup BranchSteps
\* "raised" and "illegal" are the two ways into the finally clause by exception.
EndSteps == {"report", "release", "raised", "illegal", "gone"}

\* The steps after the last look at the cancellation file, and after the last
\* look at the original checkout.
AfterLastCancelCheck ==
  {"check_original", "final_export", "accept"} \cup EndSteps
AfterLastOriginalCheck == AfterLastCancelCheck \ {"check_original"}

\* When an outside event arrived: never, in time for the last look, or late.
Arrival == {"never", "early", "late"}
\* (mutant) Nobody looks at the cancellation file after the final validation.
CancelIgnoredAtEnd == pc # "judge_final" /\ arrived["cancel"] # "never"

cancelRequested == arrived["cancel"] # "never"
originalChanged == arrived["edit"] # "never"

-----------------------------------------------------------------------------
(***************************************************************************)
(* Durable transitions and the operation journal                           *)
(***************************************************************************)
\* (mutant) The transition leaves the status to the final finish_run.
StatusLeftToReport(target) == status

\* The row keeps status 'active' until the state is terminal.
StatusAfter(target) == IF target \in TERMINAL_STATES THEN target ELSE status

\* The transition closure: refuse what the table does not list, else commit.
Transition(target, next) ==
  \/ /\ CanTransition(state, target)
     /\ state' = target
     /\ status' = StatusAfter(target)
     /\ pc' = next
     /\ UNCHANGED <<journal, locked>>
  \/ /\ ~CanTransition(state, target)
     /\ pc' = "illegal"
     /\ UNCHANGED durable

\* A terminal transition followed by _result.
Settle(target) == Transition(target, "report")

Goto(next) == pc' = next /\ UNCHANGED durable

PlanOperation ==
  /\ pc \in JournaledSteps
  /\ journal[Op] = "absent"
  /\ journal' = [journal EXCEPT ![Op] = "planned"]
  /\ UNCHANGED <<req, state, status, locked, world, pc, performed, ordinal,
                 budgets, evidence, history>>

StartOperation ==
  /\ pc \in JournaledSteps
  /\ journal[Op] = "planned"
  /\ journal' = [journal EXCEPT ![Op] = "started"]
  /\ UNCHANGED <<req, state, status, locked, world, pc, performed, ordinal,
                 budgets, evidence, history>>

\* The side effect of the current operation may happen now.
Performing(step) ==
  /\ pc = step
  /\ journal[Op] = "started"
  /\ ~performed

CompleteOperation ==
  /\ pc \in JournaledSteps
  /\ journal[Op] = "started"
  /\ performed
  /\ journal' = [journal EXCEPT ![Op] = "completed"]
  /\ performed' = FALSE
  /\ pc' = AfterOperation[pc]
  /\ UNCHANGED <<req, state, status, locked, world, ordinal, budgets,
                 evidence, history>>

\* What the controller had in memory is gone with its stack.
Forget ==
  /\ performed' = FALSE /\ ordinal' = 0
  /\ selection' = InitialSelection(req.lane) /\ route' = <<>>
  /\ repairs' = [s \in Selection |-> 0]
  /\ transientRetries' = 0 /\ reviewerRepairs' = 0
  /\ seen' = {} /\ previous' = {}
  /\ flags' = {} /\ outcome' = "none" /\ failing' = {}
  /\ before' = Base /\ candidate' = Base /\ reviewed' = FALSE

\* The operation raises, before or after its effect; the journal says so.
FailOperation ==
  /\ "error" \in Events
  /\ pc \in JournaledSteps
  /\ journal[Op] = "started"
  /\ journal' = [journal EXCEPT ![Op] = "failed"]
  /\ pc' = "raised"
  /\ Forget
  /\ UNCHANGED <<req, state, status, locked, world, history>>

\* Git, the disk or the database fails, or the user interrupts the program: the
\* journal is left as it was.
RaiseError ==
  /\ "error" \in Events
  /\ pc \in RunSteps \cup {"report"}
  /\ pc' = "raised"
  /\ Forget
  /\ UNCHANGED <<req, durable, world, history>>

Advance ==
  /\ pc \in DOMAIN PlainSteps
  /\ Transition(PlainSteps[pc][1], PlainSteps[pc][2])
  /\ UNCHANGED <<req, world, performed, ordinal, budgets, evidence, history>>

-----------------------------------------------------------------------------
(***************************************************************************)
(* Start: lock, original snapshot, worktree, baseline                      *)
(***************************************************************************)
Init ==
  /\ req \in Requests
  /\ state = "CREATED" /\ status = "active"
  /\ journal = [op \in Operations |-> "absent"]
  /\ locked = FALSE
  /\ tree = Base /\ ownership = "absent" /\ exported = {}
  /\ arrived = [event \in {"cancel", "edit"} |-> "never"]
  /\ pc = "acquire_lock" /\ performed = FALSE /\ ordinal = 0
  /\ selection = InitialSelection(req.lane) /\ route = <<>>
  /\ repairs = [s \in Selection |-> 0]
  /\ transientRetries = 0 /\ reviewerRepairs = 0
  /\ seen = {} /\ previous = {}
  /\ flags = {} /\ outcome = "none" /\ failing = {}
  /\ before = Base /\ candidate = Base /\ reviewed = FALSE
  /\ finalPassed = {} /\ approved = {}

AcquireLock ==
  /\ pc = "acquire_lock"
  /\ \/ /\ locked' = TRUE
        /\ pc' = "preflight"
        /\ UNCHANGED <<state, status, journal>>
     \/ Settle("BLOCKED")           \* another run holds the repository
  /\ UNCHANGED <<req, world, performed, ordinal, budgets, evidence, history>>

\* Evidence of the original checkout; edits made before it are not changes.
CaptureOriginal ==
  /\ Performing("capture_original")
  /\ performed' = TRUE
  /\ arrived' = [arrived EXCEPT !["edit"] = "never"]
  /\ UNCHANGED <<req, durable, tree, ownership, exported, pc, ordinal,
                 budgets, evidence, history>>

BeginCreating ==
  /\ pc = "creating"
  /\ IF req.rejectDirty THEN Settle("BLOCKED")
     ELSE Transition("WORKTREE_CREATING", "create_worktree")
  /\ UNCHANGED <<req, world, performed, ordinal, budgets, evidence, history>>

\* git worktree add, and then the ownership file.
CreateWorktree ==
  /\ Performing("create_worktree")
  /\ \/ /\ ownership = "absent"
        /\ ownership' = "unowned"
        /\ UNCHANGED performed
     \/ /\ ownership = "unowned"
        /\ ownership' = "owned"
        /\ performed' = TRUE
  /\ UNCHANGED <<req, durable, tree, exported, arrived, pc, ordinal, budgets,
                 evidence, history>>

ValidatorPreflight ==
  /\ pc = "validator_preflight"
  /\ \/ Settle("BLOCKED")
     \/ Transition("BASELINE_RUNNING", "run_baseline")
  /\ UNCHANGED <<req, world, performed, ordinal, budgets, evidence, history>>

\* A command run in the worktree leaves it alone or changes it.
WorktreeMayChange ==
  tree' \in {tree} \cup
    {t \in Snapshot : t.version = tree.version + 1}

RunBaseline ==
  /\ Performing("run_baseline")
  /\ performed' = TRUE
  /\ outcome' \in {"accepted", "blocked", "human"}
  /\ WorktreeMayChange
  /\ UNCHANGED <<req, durable, ownership, exported, arrived, pc, ordinal,
                 budgets, flags, failing, before, candidate, reviewed, history>>

JudgeBaseline ==
  /\ pc = "judge_baseline"
  /\ CASE cancelRequested -> Settle("CANCELLED")
       [] ~cancelRequested /\ outcome = "blocked" -> Settle("BLOCKED")
       [] ~cancelRequested /\ outcome = "human" -> Settle("NEEDS_HUMAN_REVIEW")
       [] OTHER -> Transition("BASELINE_COMPLETE", "next_attempt")
  /\ UNCHANGED <<req, world, performed, ordinal, budgets, evidence, history>>

-----------------------------------------------------------------------------
(***************************************************************************)
(* The attempt loop                                                        *)
(***************************************************************************)
NextAttempt ==
  /\ pc = "next_attempt"
  /\ \/ /\ ordinal = MaxAttempts
        /\ Settle("NEEDS_HUMAN_REVIEW")
        /\ UNCHANGED <<ordinal, route>>
     \/ /\ ordinal < MaxAttempts
        /\ cancelRequested
        /\ Settle("CANCELLED")
        /\ UNCHANGED <<ordinal, route>>
     \/ /\ ordinal < MaxAttempts
        /\ ~cancelRequested
        /\ route' = Append(route, selection)
        /\ ordinal' = ordinal + 1
        /\ Transition("ATTEMPT_PREPARING", "launch")
  /\ UNCHANGED <<req, world, performed, selection, repairs, transientRetries,
                 reviewerRepairs, seen, previous, evidence, history>>

LaunchAttempt ==
  /\ pc = "launch"
  /\ Transition("ATTEMPT_RUNNING", "run_codex")
  /\ before' = tree
  /\ UNCHANGED <<req, world, performed, ordinal, budgets, flags, outcome,
                 failing, candidate, reviewed, history>>

\* The supervised Codex process: only a cancel request makes it "cancelled".
RunCodex ==
  /\ Performing("run_codex")
  /\ performed' = TRUE
  /\ \/ flags' \in AttemptFlags
     \/ cancelRequested /\ flags' = {"cancelled"}
  /\ WorktreeMayChange
  /\ UNCHANGED <<req, durable, ownership, exported, arrived, pc, ordinal,
                 budgets, outcome, failing, before, candidate, reviewed,
                 history>>

ProcessFailure ==
  Classify(flags \cup (IF tree # before THEN {"candidate_changed"} ELSE {}))

ClassifyAttempt ==
  /\ pc = "classify"
  /\ outcome' = ProcessFailure
  /\ flags' = {}
  /\ CASE ProcessFailure = "cancelled" -> Settle("CANCELLED")
       [] ProcessFailure \in {"success", "substantive"} ->
            Transition("VALIDATION_RUNNING", "run_candidate")
       [] OTHER -> Transition("ROUTING", "route_failure")
  /\ UNCHANGED <<req, world, performed, ordinal, budgets, failing, before,
                 candidate, reviewed, history>>

RoutingState(failure, progress, repeated, used) ==
  [lane |-> req.lane, deepMode |-> req.deepMode, current |-> selection,
   failure |-> failure, progress |-> progress, repeated |-> repeated,
   repairs |-> used, maxRepairs |-> req.maxRepairs,
   transientRetries |-> transientRetries,
   maxTransientRetries |-> req.maxTransient]

\* (mutant) A blocking decision is reported without its transition.
BlockWithoutTransition(decision) ==
  CASE decision.kind = "block" -> Goto("report") /\ UNCHANGED selection
    [] decision.kind = "human_review" ->
         Settle("NEEDS_HUMAN_REVIEW") /\ UNCHANGED selection
    [] OTHER -> Goto("next_attempt") /\ selection' = decision.selection

\* _apply_decision, or the next round of the loop with the selection decided.
ApplyDecision(decision) ==
  CASE decision.kind = "block" ->
         Settle("BLOCKED") /\ UNCHANGED selection
    [] decision.kind = "human_review" ->
         Settle("NEEDS_HUMAN_REVIEW") /\ UNCHANGED selection
    [] OTHER ->
         Goto("next_attempt") /\ selection' = decision.selection

\* The attempt itself failed: no validation evidence, so no repair.
RouteFailure ==
  /\ pc = "route_failure"
  /\ ApplyDecision(NextDecision(RoutingState(outcome, FALSE, FALSE, 0)))
  /\ transientRetries' =
       IF outcome = "transient" THEN transientRetries + 1 ELSE transientRetries
  /\ UNCHANGED <<req, world, performed, ordinal, route, repairs,
                 reviewerRepairs, seen, previous, evidence, history>>

RunValidation(step) ==
  /\ Performing(step)
  /\ performed' = TRUE
  /\ \/ outcome' \in {"accepted", "human"} /\ failing' = {}
     \/ outcome' = "failed" /\ \E e \in Evidence : failing' = {e}
  /\ WorktreeMayChange
  /\ UNCHANGED <<req, durable, ownership, exported, arrived, pc, ordinal,
                 budgets, flags, before, candidate, reviewed, history>>

RunCandidate == RunValidation("run_candidate")

JudgeCandidate ==
  /\ pc = "judge_candidate"
  /\ IF cancelRequested THEN Settle("CANCELLED")
     ELSE Transition("VALIDATION_COMPLETE", "to_routing")
  /\ UNCHANGED <<req, world, performed, ordinal, budgets, evidence, history>>

\* The progress of the current failure over the previous one of this run.
Progress(e) ==
  \/ previous = {} /\ FirstProgress(e)
  \/ \E p \in previous : LaterProgress(p, e)

SubstantiveDecision(e) ==
  NextDecision(RoutingState("substantive", Progress(e), e \in seen,
                            repairs[selection]))

\* The fingerprint of a failure is a digest of the results e summarises.
RouteSubstantive ==
  /\ pc = "decide"
  /\ outcome = "failed"
  /\ \E e \in failing :
       /\ seen' = seen \cup {e}
       /\ previous' = {e}
       /\ ApplyDecision(SubstantiveDecision(e))
       /\ repairs' = IF SubstantiveDecision(e).kind = "repair"
                     THEN [repairs EXCEPT ![selection] = @ + 1] ELSE repairs
  /\ UNCHANGED <<req, world, performed, ordinal, route, transientRetries,
                 reviewerRepairs, evidence, history>>

-----------------------------------------------------------------------------
(***************************************************************************)
(* Policy, review and final validation of a candidate that validated       *)
(***************************************************************************)
\* (mutant) The review_always option is forgotten.
ReviewAlwaysForgotten(policy) ==
  /\ req.reviewer
  /\ policy = "high_risk" \/ (~req.noReview /\ req.lane # "mechanical")

ReviewRequired(policy) ==
  /\ req.reviewer
  /\ \/ policy = "high_risk"
     \/ ~req.noReview /\ (req.reviewAlways \/ req.lane # "mechanical")

PolicyBlocks(policy) == policy = "blocking"

JudgePolicy ==
  /\ pc = "decide"
  /\ outcome # "failed"
  /\ candidate' = tree
  /\ reviewed' = (outcome = "accepted" /\ ReviewRequired(tree.policy))
  /\ CASE outcome = "human" -> Settle("NEEDS_HUMAN_REVIEW")
       [] outcome # "human" /\ PolicyBlocks(tree.policy) -> Goto("policy_export")
       [] outcome # "human" /\ tree.policy = "high_risk" /\ ~req.reviewer ->
            Settle("NEEDS_HUMAN_REVIEW")
       [] outcome # "human" /\ ~PolicyBlocks(tree.policy)
          /\ ReviewRequired(tree.policy) ->
            Transition("REVIEW_PREPARING", "review_launch")
       [] OTHER -> Goto("enter_final")
  /\ UNCHANGED <<req, world, performed, ordinal, budgets, flags, outcome,
                 failing, before, history>>

\* PatchExporter.export: the patch is that of the snapshot it is given.
ExportPatch ==
  /\ \E step \in {"policy_export", "final_policy_export", "final_export"} :
       Performing(step)
  /\ performed' = TRUE
  /\ exported' = {candidate}
  /\ UNCHANGED <<req, durable, tree, ownership, arrived, pc, ordinal, budgets,
                 evidence, history>>

\* A read-only reviewer: it does not write the worktree.
RunReview ==
  /\ Performing("run_review")
  /\ performed' = TRUE
  /\ \/ outcome' \in {"accept", "repair", "human_review", "invalid"}
     \/ cancelRequested /\ outcome' = "cancelled"
  /\ approved' = IF outcome' = "accept" THEN approved \cup {tree} ELSE approved
  /\ UNCHANGED <<req, durable, world, pc, ordinal, budgets, flags, failing,
                 before, candidate, reviewed, finalPassed>>

JudgeReview ==
  /\ pc = "judge_review"
  /\ IF outcome = "cancelled" THEN Settle("CANCELLED")
     ELSE Transition("REVIEW_COMPLETE", "apply_review")
  /\ UNCHANGED <<req, world, performed, ordinal, budgets, evidence, history>>

\* (mutant) A second reviewer repair is granted.
SecondReviewRepair == reviewerRepairs <= 1

ReviewRepairAllowed == reviewerRepairs < 1

ApplyReview ==
  /\ pc = "apply_review"
  /\ \/ /\ outcome \in {"human_review", "invalid"}
        /\ Settle("NEEDS_HUMAN_REVIEW")
        /\ UNCHANGED reviewerRepairs
     \/ /\ outcome = "repair" /\ ~ReviewRepairAllowed
        /\ Settle("NEEDS_HUMAN_REVIEW")
        /\ UNCHANGED reviewerRepairs
     \/ /\ outcome = "repair" /\ ReviewRepairAllowed
        /\ reviewerRepairs' = reviewerRepairs + 1
        /\ Goto("next_attempt")
     \/ /\ outcome = "accept"
        /\ Goto("enter_final")
        /\ UNCHANGED reviewerRepairs
  /\ UNCHANGED <<req, world, performed, ordinal, selection, route, repairs,
                 transientRetries, seen, previous, evidence, history>>

EnterFinal ==
  /\ pc = "enter_final"
  /\ Transition("FINAL_VALIDATION", "run_final")
  /\ before' = tree
  /\ UNCHANGED <<req, world, performed, ordinal, budgets, flags, outcome,
                 failing, candidate, reviewed, history>>

RunFinal == RunValidation("run_final")

\* A high-risk path that no reviewer was asked about.
UnreviewedHighRisk ==
  tree.policy = "high_risk" /\ ~(candidate.policy = "high_risk" /\ reviewed)

\* (mutant) The snapshots around the final validation are not compared.
VerdictWithoutComparison == outcome = "accepted"

FinalVerdictHolds == tree = before /\ outcome = "accepted"

JudgeFinal ==
  /\ pc = "judge_final"
  /\ \/ /\ cancelRequested
        /\ Settle("CANCELLED")
        /\ UNCHANGED <<candidate, finalPassed>>
     \/ /\ ~cancelRequested /\ tree = before /\ outcome = "human"
        /\ Settle("NEEDS_HUMAN_REVIEW")
        /\ UNCHANGED <<candidate, finalPassed>>
     \/ /\ ~cancelRequested /\ ~FinalVerdictHolds
        /\ ~(tree = before /\ outcome = "human")
        /\ Settle("BLOCKED")
        /\ UNCHANGED <<candidate, finalPassed>>
     \/ /\ ~cancelRequested /\ FinalVerdictHolds
        /\ candidate' = tree
        /\ finalPassed' = {before}
        /\ CASE PolicyBlocks(tree.policy) -> Goto("final_policy_export")
             [] UnreviewedHighRisk -> Settle("NEEDS_HUMAN_REVIEW")
             [] OTHER -> Goto("check_original")
  /\ UNCHANGED <<req, world, performed, ordinal, budgets, flags, outcome,
                 failing, before, reviewed, approved>>

\* (mutant) The final comparison of the original checkout is missing.
OriginalNotCompared ==
  /\ pc = "check_original"
  /\ Goto("final_export")
  /\ UNCHANGED <<req, world, performed, ordinal, budgets, evidence, history>>

CheckOriginal ==
  /\ pc = "check_original"
  /\ IF originalChanged THEN Settle("FAILED") ELSE Goto("final_export")
  /\ UNCHANGED <<req, world, performed, ordinal, budgets, evidence, history>>

-----------------------------------------------------------------------------
(***************************************************************************)
(* The end of run(), and what happens around it                            *)
(***************************************************************************)
\* _result: finish_run writes the outcome once more, then the reports.
Report ==
  /\ pc = "report"
  /\ status' = state
  /\ pc' = "release"
  /\ Forget
  /\ UNCHANGED <<req, state, journal, locked, world, history>>

\* The finally clause; without the lock it releases nothing.
Release ==
  /\ pc \in {"release", "raised", "illegal"}
  /\ locked' = FALSE
  /\ pc' = "gone"
  /\ UNCHANGED <<req, state, status, journal, world, performed, ordinal,
                 budgets, evidence, history>>

Controller ==
  \/ PlanOperation \/ StartOperation \/ CompleteOperation \/ Advance
  \/ AcquireLock \/ CaptureOriginal \/ BeginCreating \/ CreateWorktree
  \/ ValidatorPreflight \/ RunBaseline \/ JudgeBaseline
  \/ NextAttempt \/ LaunchAttempt \/ RunCodex \/ ClassifyAttempt
  \/ RouteFailure \/ RunCandidate \/ JudgeCandidate \/ RouteSubstantive
  \/ JudgePolicy \/ ExportPatch \/ RunReview \/ JudgeReview \/ ApplyReview
  \/ EnterFinal \/ RunFinal \/ JudgeFinal \/ CheckOriginal
  \/ Report \/ Release

Raises == FailOperation \/ RaiseError

\* The cancel command: it refuses a run whose status is not active.
RequestCancel ==
  /\ "cancel" \in Events
  /\ status = "active"
  /\ ~cancelRequested
  /\ arrived' = [arrived EXCEPT !["cancel"] =
                   IF pc \in AfterLastCancelCheck THEN "late" ELSE "early"]
  /\ UNCHANGED <<req, durable, tree, ownership, exported, pc, performed,
                 ordinal, budgets, evidence, history>>

\* An edit is of interest while a controller is there to protect the checkout.
EditOriginal ==
  /\ "edit" \in Events
  /\ pc # "gone"
  /\ ~originalChanged
  /\ arrived' = [arrived EXCEPT !["edit"] =
                   IF pc \in AfterLastOriginalCheck THEN "late" ELSE "early"]
  /\ UNCHANGED <<req, durable, tree, ownership, exported, pc, performed,
                 ordinal, budgets, evidence, history>>

\* Something the run does not control writes its worktree.
TouchWorktree ==
  /\ "touch" \in Events
  /\ ownership = "owned"
  /\ tree' \in {t \in Snapshot : t.version = tree.version + 1}
  /\ UNCHANGED <<req, durable, ownership, exported, arrived, pc, performed,
                 ordinal, budgets, evidence, history>>

Environment == RequestCancel \/ EditOriginal \/ TouchWorktree

\* The process has exited; nothing of it is left to run.
Exited == pc = "gone" /\ UNCHANGED vars

Next == Controller \/ Raises \/ Environment \/ Exited

\* The controller is not stopped for ever: every process it waits for is
\* supervised with a timeout.  Nobody owes it a cancellation or an error.
Spec == Init /\ [][Next]_vars /\ WF_vars(Controller)

-----------------------------------------------------------------------------
(***************************************************************************)
(* Properties                                                              *)
(***************************************************************************)
TypeOK ==
  /\ req \in Requests
  /\ state \in RunState
  /\ status \in {"active"} \cup TERMINAL_STATES
  /\ journal \in [Operations -> OperationStatus]
  /\ locked \in BOOLEAN /\ performed \in BOOLEAN /\ reviewed \in BOOLEAN
  /\ tree \in Snapshot /\ before \in Snapshot /\ candidate \in Snapshot
  /\ ownership \in {"absent", "unowned", "owned"}
  /\ exported \subseteq Snapshot /\ finalPassed \subseteq Snapshot
  /\ approved \subseteq Snapshot
  /\ ordinal \in 0..MaxAttempts
  /\ selection \in Selection
  /\ route \in Seq(Selection)
  /\ repairs \in [Selection -> Nat]
  /\ transientRetries \in Nat /\ reviewerRepairs \in 0..1
  /\ seen \subseteq Evidence /\ previous \subseteq Evidence
  /\ failing \subseteq Evidence

\* Every transition the controller attempts is one the table declares, so no
\* run ends by IllegalTransitionError with its row still active.
NoIllegalTransition == pc # "illegal"

\* Status and state never disagree, whichever write the controller dies after:
\* the row is active exactly while its state is not terminal.
StatusFollowsState ==
  /\ state \in TERMINAL_STATES => status = state
  /\ state \notin TERMINAL_STATES => status = "active"

\* An accepted run delivers exactly one patch, that of the very content which
\* passed the final validation unchanged, and no blocking finding applies to it.
AcceptedHasEvidence ==
  state = "ACCEPTED" =>
    \E c \in Snapshot :
      /\ exported = {c} /\ finalPassed = {c}
      /\ c.policy # "blocking"

\* A review that the request or a high-risk path demands is never skipped on
\* the way to acceptance; when nothing else writes the worktree, the content
\* the reviewer accepted is the content delivered.
AcceptedWasReviewed ==
  /\ state = "ACCEPTED"
  /\ \/ \E c \in exported : c.policy = "high_risk"
     \/ /\ req.reviewer /\ ~req.noReview
        /\ req.reviewAlways \/ req.lane # "mechanical"
  => /\ approved # {}
     /\ "touch" \notin Events => exported \subseteq approved

\* A cancellation asked for at any step before the final verdict is never
\* overtaken by an acceptance.
CancellationHonoured ==
  state = "ACCEPTED" => arrived["cancel"] # "early"

\* A run whose original checkout changed before the final comparison is never
\* accepted.
OriginalProtected ==
  state = "ACCEPTED" => arrived["edit"] # "early"

\* A user error, a stop-class failure or a cancellation is never followed by
\* another model attempt.
StopClassStops ==
  [][(outcome \in STOP_CLASSES => ordinal' <= ordinal)]_vars

\* The ladder never comes back to a selection it has left.
LadderNeverCycles ==
  \A i, j, k \in DOMAIN route :
    i < j /\ j < k /\ route[i] = route[k] => route[j] = route[i]

\* A run uses at most one of the two deep routes.
OneDeepRoute ==
  ~ DeepSelections \subseteq {route[i] : i \in DOMAIN route}

\* README.md: dry-run shows the "expected model sequence".  Whatever fails, and
\* however often, a run uses only the selections of the forecast and in its
\* order; it may leave some out and repeat others.
RouteFollowsForecast ==
  LET expected == Forecast(req.lane, req.deepMode)
  IN  \A i, j \in DOMAIN route :
        i <= j => \E a, b \in DOMAIN expected :
                    a <= b /\ expected[a] = route[i] /\ expected[b] = route[j]

\* Every attempt after the first is paid for: it is a change of selection, a
\* same-tier repair, a transient retry or the one reviewer repair, each within
\* its budget.
AttemptsArePaidFor ==
  /\ \A s \in Selection : repairs[s] <= req.maxRepairs
  /\ transientRetries <= req.maxTransient + 1
  /\ \A s \in Selection :
       Cardinality({i \in DOMAIN route : route[i] = s})
         <= 1 + repairs[s] + transientRetries + reviewerRepairs

\* An attempt that follows a repair decision works on evidence not seen before:
\* the fingerprint just recorded was new when a repair was granted.
RepairNeedsNewEvidence ==
  [][ repairs' # repairs => seen' # seen ]_vars

\* What the status, the exported patch and the final validation show of the run.
Contract == INSTANCE RunContract WITH
  Content <- Snapshot, Outcome <- TERMINAL_STATES,
  outcome <- status, delivered <- exported, tested <- finalPassed

\* The run keeps the contract of RunContract: one outcome, reached once, and an
\* acceptance only of the content that was tested and delivered.
KeepsContract == Contract!ContractSpec

\* The run comes to its end and frees its repository whatever happens; if
\* nothing raises, it ends in a terminal state.
RunEnds ==
  /\ <>(pc = "gone" /\ ~locked)
  /\ <>(pc = "raised") \/ <>(pc = "gone" /\ state \in TERMINAL_STATES)
=============================================================================
