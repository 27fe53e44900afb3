------------------------------- MODULE Recovery -------------------------------
(***************************************************************************)
(* Crashes and the resume service: InterruptedRunResumer                   *)
(* (recovery_resume.py) and RecoveryManager (persistence/recovery.py) on   *)
(* top of the controller of Orchestrator.  A crash takes the memory of the *)
(* process and nothing else; a resume starts from what is durable.  One    *)
(* process works on the run at a time: RunLock models that several try.    *)
(***************************************************************************)
EXTENDS Orchestrator

CONSTANT MaxCrashes   \* bound: crashes and exceptions of one run

ASSUME RecoveryAssumption == MaxCrashes \in Nat

VARIABLE crashes

recoveryVars == <<vars, crashes>>
memory == <<performed, ordinal, budgets, evidence>>

ResumeSteps ==
  {"resume_worktree", "resume_plan", "resume_human", "resume_capture",
   "resume_gate", "resume_candidate", "resume_validated", "resume_export",
   "resume_policy", "resume_route", "resume_review_launch",
   "resume_review", "resume_reviewed",
   "resume_judge_review", "resume_enter_final", "resume_run_final",
   "resume_judge_final", "resume_final_export", "resume_accept"}

RecoveryInit == Init /\ crashes = 0

-----------------------------------------------------------------------------
(***************************************************************************)
(* Crash                                                                   *)
(***************************************************************************)
\* The tree of a subprocess is killed after its controller, not with it.
SubprocessRunning ==
  \/ /\ pc \in {"run_baseline", "run_codex", "run_candidate", "run_final"}
     /\ journal[Op] = "started" /\ ~performed
  \/ pc \in {"resume_candidate", "resume_run_final"}

\* The process dies; the row, the journal, the lock and the worktree remain.
Crash ==
  /\ pc \notin {"gone", "dead"}
  /\ pc' = "dead"
  /\ IF SubprocessRunning THEN WorktreeMayChange ELSE UNCHANGED tree
  /\ Forget
  /\ UNCHANGED <<req, durable, ownership, exported, arrived, history>>

ResumeRaises ==
  /\ "error" \in Events
  /\ pc \in ResumeSteps
  /\ pc' = "raised"
  /\ Forget
  /\ UNCHANGED <<req, durable, world, history>>

Failures ==
  /\ crashes < MaxCrashes
  /\ crashes' = crashes + 1
  /\ Crash \/ Raises \/ ResumeRaises

-----------------------------------------------------------------------------
(***************************************************************************)
(* Resume: lock, worktree, plan                                            *)
(***************************************************************************)
\* A run that is terminal is not resumed; a stale lock is taken by force.
BeginResume ==
  /\ pc \in {"gone", "dead"}
  /\ state \notin TERMINAL_STATES
  /\ locked' = TRUE
  /\ pc' = "resume_worktree"
  /\ UNCHANGED <<req, state, status, journal, world, memory, history>>

\* GitWorktreeManager.create: a worktree without its ownership file that this
\* call did not add is refused.
ResumeWorktree ==
  /\ pc = "resume_worktree"
  /\ \/ /\ ownership = "owned"
        /\ pc' = "resume_plan"
        /\ UNCHANGED <<ownership, performed>>
     \/ /\ ownership = "absent"
        /\ ownership' = "unowned" /\ performed' = TRUE
        /\ UNCHANGED pc
     \/ /\ ownership = "unowned" /\ performed
        /\ ownership' = "owned" /\ performed' = FALSE
        /\ pc' = "resume_plan"
     \/ /\ ownership = "unowned" /\ ~performed
        /\ pc' = "raised"
        /\ UNCHANGED <<ownership, performed>>
  /\ UNCHANGED <<req, durable, tree, exported, arrived, ordinal, budgets,
                 evidence, history>>

Incomplete ==
  {op \in Operations : journal[op] \in {"planned", "started", "interrupted"}}
IncompleteTypes == {OperationType(op[1]) : op \in Incomplete}

\* RecoveryManager.plan: what the incomplete operations allow.
PlanAction ==
  CASE IncompleteTypes = {} -> "continue"
    [] "run_validation_non_idempotent" \in IncompleteTypes -> "human_review"
    [] "run_validation_non_idempotent" \notin IncompleteTypes
       /\ "run_codex_attempt" \in IncompleteTypes -> "capture"
    [] "run_validation_non_idempotent" \notin IncompleteTypes
       /\ IncompleteTypes # {}
       /\ IncompleteTypes \subseteq
            {"run_baseline_validator", "run_candidate_validator"} -> "continue"
    [] OTHER -> "human_review"

\* (mutant) The interrupted attempt is captured but stays open in the journal.
NotReconciled == journal

\* RecoveryManager.reconcile: interrupted attempts are marked, never replayed.
Reconciled ==
  [op \in Operations |->
    IF op \in Incomplete /\ OperationType(op[1]) = "run_codex_attempt"
    THEN "interrupted" ELSE journal[op]]

ResumePlan ==
  /\ pc = "resume_plan"
  /\ journal' = Reconciled
  /\ pc' = IF PlanAction = "human_review" THEN "resume_human"
           ELSE "resume_capture"
  /\ UNCHANGED <<req, state, status, locked, world, memory, history>>

\* _transition_to_terminal, one transition at a time.
ResumeHuman ==
  /\ pc = "resume_human"
  /\ CASE HumanReviewStep(state) = "none" -> Goto("raised")
       [] HumanReviewStep(state) = "ROUTING" ->
            Transition("ROUTING", "resume_human")
       [] OTHER -> Settle(HumanReviewStep(state))
  /\ UNCHANGED <<req, world, memory, history>>

ResumeCapture ==
  /\ pc = "resume_capture"
  /\ IF state = "ATTEMPT_RUNNING"
     THEN Transition("ATTEMPT_INTERRUPTED", "resume_gate")
     ELSE Goto("resume_gate")
  /\ UNCHANGED <<req, world, memory, history>>

\* (mutant) The gate does not ask whether the candidate was captured.
AlwaysCaptured == TRUE

Captured == state \in {"ATTEMPT_INTERRUPTED", "ATTEMPT_COMPLETE"}

ResumeGate ==
  /\ pc = "resume_gate"
  /\ IF ~Captured \/ req.unsafeSteps THEN Goto("resume_human")
     ELSE Transition("VALIDATION_RUNNING", "resume_candidate")
  /\ UNCHANGED <<req, world, memory, history>>

-----------------------------------------------------------------------------
(***************************************************************************)
(* Resume: validation, policy, review and final validation.  Nothing here  *)
(* is journaled, looks at the cancellation file or compares the original   *)
(* checkout.                                                               *)
(***************************************************************************)
ResumeValidates(step, next) ==
  /\ pc = step
  /\ pc' = next
  /\ outcome' \in {"accepted", "failed", "human"}
  /\ WorktreeMayChange
  /\ UNCHANGED <<req, durable, ownership, exported, arrived, performed,
                 ordinal, budgets, flags, failing, before, candidate, reviewed,
                 history>>

ResumeCandidate == ResumeValidates("resume_candidate", "resume_validated")

ResumeValidated ==
  /\ pc = "resume_validated"
  /\ Transition("VALIDATION_COMPLETE", "resume_export")
  /\ UNCHANGED <<req, world, memory, history>>

\* The captured candidate is exported before it is judged.
ResumeExport ==
  /\ pc = "resume_export"
  /\ candidate' = tree
  /\ exported' = {tree}
  /\ Goto("resume_policy")
  /\ UNCHANGED <<req, tree, ownership, arrived, performed, ordinal, budgets,
                 flags, outcome, failing, before, reviewed, history>>

\* (mutant) A high-risk path needs no reviewer when the lane is mechanical.
HighRiskForgotten(policy) ==
  ~req.noReview /\ (req.reviewAlways \/ req.lane # "mechanical")

ResumeReviewRequired(policy) ==
  \/ policy = "high_risk"
  \/ ~req.noReview /\ (req.reviewAlways \/ req.lane # "mechanical")

ResumePolicy ==
  /\ pc = "resume_policy"
  /\ CASE PolicyBlocks(candidate.policy) -> Settle("BLOCKED")
       [] ~PolicyBlocks(candidate.policy) /\ outcome # "accepted" ->
            Transition("ROUTING", "resume_route")
       [] ~PolicyBlocks(candidate.policy) /\ outcome = "accepted"
          /\ ResumeReviewRequired(candidate.policy) ->
            IF req.reviewer
            THEN Transition("REVIEW_PREPARING", "resume_review_launch")
            ELSE Settle("NEEDS_HUMAN_REVIEW")
       [] OTHER -> Goto("resume_enter_final")
  /\ UNCHANGED <<req, world, memory, history>>

ResumeRoute ==
  /\ pc = "resume_route"
  /\ Settle("NEEDS_HUMAN_REVIEW")
  /\ UNCHANGED <<req, world, memory, history>>

ResumeReviewLaunch ==
  /\ pc = "resume_review_launch"
  /\ Transition("REVIEW_RUNNING", "resume_review")
  /\ UNCHANGED <<req, world, memory, history>>

ResumeReview ==
  /\ pc = "resume_review"
  /\ outcome' \in {"accept", "repair", "human_review", "invalid"}
  /\ approved' = IF outcome' = "accept" THEN approved \cup {tree} ELSE approved
  /\ Goto("resume_reviewed")
  /\ UNCHANGED <<req, world, performed, ordinal, budgets, flags, failing,
                 before, candidate, reviewed, finalPassed>>

ResumeReviewed ==
  /\ pc = "resume_reviewed"
  /\ Transition("REVIEW_COMPLETE", "resume_judge_review")
  /\ UNCHANGED <<req, world, memory, history>>

ResumeJudgeReview ==
  /\ pc = "resume_judge_review"
  /\ IF outcome = "accept" THEN Goto("resume_enter_final")
     ELSE Settle("NEEDS_HUMAN_REVIEW")
  /\ UNCHANGED <<req, world, memory, history>>

ResumeEnterFinal ==
  /\ pc = "resume_enter_final"
  /\ Transition("FINAL_VALIDATION", "resume_run_final")
  /\ before' = tree
  /\ UNCHANGED <<req, world, performed, ordinal, budgets, flags, outcome,
                 failing, candidate, reviewed, history>>

ResumeRunFinal == ResumeValidates("resume_run_final", "resume_judge_final")

\* The snapshot compared here is the one that is exported.
ResumeJudgeFinal ==
  /\ pc = "resume_judge_final"
  /\ IF FinalVerdictHolds
     THEN Goto("resume_final_export") /\ finalPassed' = {before}
     ELSE Settle("BLOCKED") /\ UNCHANGED finalPassed
  /\ candidate' = tree
  /\ UNCHANGED <<req, world, performed, ordinal, budgets, flags, outcome,
                 failing, before, reviewed, approved>>

ResumeFinalExport ==
  /\ pc = "resume_final_export"
  /\ exported' = {candidate}
  /\ Goto("resume_accept")
  /\ UNCHANGED <<req, tree, ownership, arrived, memory, history>>

ResumeAccept ==
  /\ pc = "resume_accept"
  /\ Settle("ACCEPTED")
  /\ UNCHANGED <<req, world, memory, history>>

Resumer ==
  \/ ResumeWorktree \/ ResumePlan \/ ResumeHuman \/ ResumeCapture
  \/ ResumeGate \/ ResumeCandidate \/ ResumeValidated \/ ResumeExport
  \/ ResumePolicy \/ ResumeRoute \/ ResumeReviewLaunch \/ ResumeReview
  \/ ResumeReviewed \/ ResumeJudgeReview \/ ResumeEnterFinal \/ ResumeRunFinal
  \/ ResumeJudgeFinal \/ ResumeFinalExport \/ ResumeAccept

\* Nothing works on the run any more.
Settled ==
  /\ pc \in {"gone", "dead"}
  /\ state \in TERMINAL_STATES
  /\ UNCHANGED recoveryVars

RecoveryNext ==
  \/ /\ Controller \/ Environment \/ BeginResume \/ Resumer
     /\ UNCHANGED crashes
  \/ Failures
  \/ Settled

RecoverySpec ==
  /\ RecoveryInit
  /\ [][RecoveryNext]_recoveryVars
  /\ WF_recoveryVars((Controller \/ Resumer) /\ UNCHANGED crashes)
  /\ WF_recoveryVars(BeginResume /\ UNCHANGED crashes)

-----------------------------------------------------------------------------
(***************************************************************************)
(* Properties; those of Orchestrator hold of recovered runs unless a run   *)
(* says otherwise.                                                         *)
(***************************************************************************)
RecoveryTypeOK ==
  /\ TypeOK
  /\ pc \in RunSteps \cup EndSteps \cup ResumeSteps \cup {"dead"}
  /\ crashes \in 0..MaxCrashes

\* An accepted run leaves no side effect of unknown fate in its journal: all
\* that is still open there is an attempt recorded as interrupted.
AcceptedNothingPending ==
  state = "ACCEPTED" =>
    \A op \in Incomplete : op[1] = "run_codex" /\ journal[op] = "interrupted"

\* The one place where a crash strands a run: the worktree is added, the file
\* that says who owns it is not written, and every resume refuses it.
Stranded == ownership = "unowned" /\ pc \in {"dead", "gone"}

\* A user who resumes the run whenever it is interrupted sees it settle, unless
\* a crash stranded it.
ResumedRunSettles == <>(state \in TERMINAL_STATES \/ Stranded)

\* Documented: every ambiguous state terminates for human review or block.
EveryRunSettles == <>(state \in TERMINAL_STATES)

\* Documented (README.md, "Cancellation is file-signaled and observed by ...",
\* "Before acceptance, policy checks: ..."): a cancellation is honoured, the
\* original checkout is compared, and no blocking finding applies to what is
\* accepted.  Of these guards a recovered run keeps one at least.
RecoveredKeepsAGuard ==
  CancellationHonoured \/ OriginalProtected \/ AcceptedHasEvidence
=============================================================================
