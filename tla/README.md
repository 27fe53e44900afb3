# Verification of codex-auto

TLA+ modules, TLC configurations and TLAPS proofs about `codex-auto`, a
controller that hands a coding task to Codex models and accepts the result only
on external evidence. The reference is the Python code under
`src/src/codex_auto`; `PROJECT.json` maps each definition to the lines it models.

## 1. The system

| Component | State it keeps | Operations | Talks to |
|---|---|---|---|
| Orchestrator (`orchestrator.py`) | stack of one `run()`: attempt ordinal, selection, budgets, fingerprints seen, snapshots | `run`, `_apply_decision`, `_result`, `_journaled_operation` | everything below |
| State machine (`domain/state_machine.py`) | none (a table) | `can_transition`, `transition` | orchestrator, resume |
| Routing engine, failure classifier, progress evaluator (`domain/`) | none (pure) | `initial`, `next`, `classify`, `has_progress` | orchestrator |
| Run store (`persistence/sqlite.py`) | `runs`, `state_transitions`, `operations`, `run_locks`, evidence tables | `create_run`, `record_transition`, `finish_run`, `plan_operation`, `mark_operation`, `acquire_lock`, `release_lock` | SQLite, shared by all processes |
| Recovery (`persistence/recovery.py`, `recovery_resume.py`) | none durable of its own | `plan`, `reconcile`, `resume` | store, validator, reviewer, worktree |
| Process identity (`process/identity.py`) | none | pid + start identity, match | lock |
| Worktree manager (`git/worktree.py`) | worktree, ownership file | `create`, `cleanup` | git |
| Snapshots and export (`git/repository.py`, `git/patch.py`) | `final/` files | `snapshot`, `export`, `export_is_complete` | git, file system |
| Validation (`validation/`) | none | `preflight`, `run_baseline`, `run_candidate`, comparison | supervisor |
| Codex executor and reviewer (`codex/`) | attempt files | `execute`, `review` | supervisor |
| Supervision (`process/`) | process tree, output buffers, loop detector | `run`, watchdog | operating system |
| CLI, configuration, reports | files | commands | all of the above |

One controller process is sequential. What makes it hard:

* everything durable is written in separate commits, so a crash can fall between
  any two of them; the resume goes by what it finds;
* the user cancels through a file, edits the original checkout and starts other
  commands while the run works;
* several processes at one repository share the store and compete for its lock;
* models, validators and the reviewer are subprocesses which may change the
  worktree, fail, time out or be cancelled, in any order;
* retries, repairs, reviewer repairs and escalations draw on separate budgets
  inside one loop.

`PROJECT.json` lists every component with what is and is not modelled, and every
hazard at its line.

## 2. The modules

| Module | Models | Kind |
|---|---|---|
| `StateMachine` | the states, the table, the fallback route of recovery | operators |
| `Routing` | classifier, progress test, lane selection, ladder, the forecast of dry-run | operators |
| `Orchestrator` | `run()` with journal, cancellation, edits, exceptions | state machine; EXTENDS the two above |
| `RunContract` | what a run promises, abstractly | abstract specification |
| `Recovery` | crashes and `resume` on top of `Orchestrator` | state machine; EXTENDS `Orchestrator` |
| `RunLock` | several processes at one repository: lock and transition log | state machine |
| `Validation` | the staged validator: baseline, candidates, policies, comparison | state machine |
| `Supervision` | one supervised call: controller, watchdog or Job Object, process tree | state machine |
| `Attempt` | the invocations of one attempt, with the fallback to a lower effort | state machine; EXTENDS `Supervision` |
| `Output` | bounded output buffer and command-loop detector | state machine |
| `Delivery` | export of a candidate, the copy of it, and the cleanup of its worktree | state machine |
| `OrchestratorProofs` | types, legality of transitions, status of the row, routes and their forecast, the bound on steps, the journal | proofs; EXTENDS `Orchestrator` |
| `AcceptanceProofs` | what acceptance means, the review before it; refinement of `RunContract` | proofs; EXTENDS `OrchestratorProofs` |
| `RecoveryProofs` | the same across crashes and resumes; the journal | proofs; EXTENDS `Recovery`, `AcceptanceProofs` |
| `RunLockProofs`, `ValidationProofs`, `OutputProofs`, `DeliveryProofs` | one module each | proofs; EXTEND the module they name |
| `AttemptProofs` | supervised calls and the attempts made of them | proofs; EXTENDS `Attempt` |
| `MC*` | instances for TLC | model checking |

`Orchestrator` treats an attempt, a validation, an export and a run of the lock
protocol as one step with several outcomes. The modules `Attempt`, `Validation`,
`Delivery` and `RunLock` open that step up, each with the neighbours that can
interfere with it. They share no variables with `Orchestrator`: what one hands
to the other is the outcome.

### Orchestrator

A step is what lies between two durable commits: a recorded transition, or one
commit of the operation journal (planned, started, completed or failed) around a
side effect. `pc` names the step to come. `state`, `status`, `journal` and
`locked` are the rows of the store; `tree`, `ownership`, `exported` and
`arrived` are the world outside; the rest is the stack of `run()`.

* A snapshot is a version of the worktree with the verdict the policy has on it
  (`clean`, `high_risk`, `blocking`); every command run in the worktree may
  leave it alone or produce a new version with any verdict.
* The ten journaled operations share three actions, `PlanOperation`,
  `StartOperation`, `CompleteOperation`; the side effect is an action of its own
  in between. `FailOperation` marks the journal, `RaiseError` stands for
  everything that leaves it as it was.
* Steps that do nothing but record a transition are the table `PlainSteps`.
* `Transition` refuses what the table of `StateMachine` does not list and goes
  to `illegal`, which `NoIllegalTransition` excludes.
* Validation evidence is a summary (stage reached, failing tests, failures
  without an id); the fingerprint is that summary.
* `arrived` remembers whether a cancellation or an edit came before or after the
  last look the code has at it, so that the properties blame the code only for
  what it could have seen.

### Recovery

`Crash` takes the memory and leaves the rest; a subprocess may still change the
worktree, since the watchdog kills it later than the controller dies. A resume
is one action per transition or side effect of `_resume_locked`. Nothing in it
is journaled, as in the code. `MaxCrashes` bounds crashes and exceptions.

### RunLock

Statements outside a transaction are separate steps: `RunSelect` or
`ResumeSelect` reads the lock row, `Insert` or `Steal` writes it; `CheckState`
reads the state, `Record` inserts the transition. Pids are reused with new start
identities. A run is a number of stages from 1 (CREATED) to `LastStage`.

### Validation

One configured command is one step. A result carries what the validator sees
(the names of failures in its output, whether the exit code was expected,
whether it timed out) and two facts it cannot see, for the properties only: what
the command would name if it ran to its end, and whether it did so with all its
output kept. Timeouts, cancellations and the bound on the output are the
incomplete results; a complete command that exits as expected has nothing to
name, and any command may fail without naming anything. `phase` follows the
controller: one baseline, then candidates until a human is needed. `todo` holds
the steps still to run as positions in the configuration, and `ExecuteStep` takes
the one that `ordered_steps` puts first (`Precedes`).
`Orchestrator` keeps of this only the outcome of a validation and, of a failed
one, the summary the router reads.

### Supervision

`pc` follows `ProcessSupervisor.run` from the start of the process to the return
of the call: `Watch` is the polling loop, `Signal`, `Grace`, `HardKill` and
`Wait` are the escalation, `Join` the reader threads and `Close` the handle of
the job. On POSIX the process started is the watchdog, which leads the group and
starts the command; `wpc` follows its `main`. On Windows it is the command, and a
Job Object owns the tree if both could be had. `born`, `alive` and `inside` are
the tree: which processes were started, live, and are in the group or the job.
The members fork, exit and, on POSIX, leave the group at any time.

* Time is a choice. Every deadline may pass at any step; only the total timeout
  must, once it has passed (`expired`), end the loop.
* A look of the watchdog at its group is a run of `ps` and takes two steps,
  `WatchdogPoll` and `WatchdogLook`: who lives all the while is listed, who is
  born or gone meanwhile may be or not. `missed` counts the looks that found the
  group empty and were wrong.
* A signal is left out where `_signal_owned_group` cannot read the identity of
  the watchdog (`blind`, if it was the KILL); `process.kill` then ends the
  watchdog alone.

### Attempt

`Launch`, `Supervise` and `CallReturns` are one invocation; `Fallback` starts the
next one at a lower effort when the CLI rejected the last and the worktree
compares equal to the first snapshot. Any supervised process writes the
worktree while it lives, and so does one that an earlier invocation left behind
(`strays`). The timeouts are per invocation, so each call has its own `expired`.

### Output

A stream is a sequence of lines, a byte is its position, and a chunk of the
buffer is an interval of positions: what is said of intervals holds of the
bytes. `ReadChunk` is one read and one `append`, in the four cases of the code;
`TrimChunk` is one round of the loop that drops the overflow. Then the observer
gets the same chunk: `ObserveLine` hands one complete line to the detector, and
`ObserveEnd` leaves when none is left or a loop was found. The steps with
`pc = "trim"` hold the lock of the buffer, so `finish` sees none of them.

### Delivery

A content of the worktree is a pair: the tracked files and the untracked ones.
`BeginExport` takes the snapshot, and the four files of `final/` follow one by
one, the checksums last; the archive is read from the worktree as it is then. A
crash may leave the file in hand torn, and a resume may export again over what
is there. Models and people write and commit at any time. A behaviour has one of
the two commands, since they do not act on each other's state: `CopyFile` copies
`final/` in any order, and cleanup is `LookForCleanup`, `Remove` and `Unlink`.

## 3. The runs

| Run | Configuration | Checks | Shows |
|---|---|---|---|
| `acceptance` | `MCOrchestratorAcceptance.cfg` | `TypeOK`, `AcceptedHasEvidence`, `AcceptedWasReviewed`, `CancellationHonoured`, `OriginalProtected`, `RunEnds` | Whatever is cancelled, edited, touched or raised and whenever, a run ends and frees its repository, and it is accepted only with its evidence: final validation of the exported content, review, no early cancellation, an unchanged original checkout. |
| `routing` | `MCOrchestratorRouting.cfg` | `LadderNeverCycles`, `OneDeepRoute`, `RouteFollowsForecast`, `AttemptsArePaidFor`, `StopClassStops`, `RepairNeedsNewEvidence` | The routes a run takes through the ladder in every lane and deep mode, with the whole attempt loop around the router, beside the forecast that dry-run prints. |
| `recovery` | `MCRecovery.cfg` | `RecoveryTypeOK`, `NoIllegalTransition`, `StatusFollowsState`, `AcceptedHasEvidence`, `AcceptedWasReviewed`, `AcceptedNothingPending`, `KeepsContract`, `ResumedRunSettles` | Up to three crashes or exceptions at any step of a run and of its resumes: a recovered run is accepted on the same evidence as an undisturbed one, and a run that is resumed whenever it was interrupted settles unless its worktree is stranded. |
| `recovery_unguarded` (violated) | `MCRecoveryUnguarded.cfg` | `RecoveredKeepsAGuard` | One recovered run that is accepted although it was cancelled, its original checkout was edited and a blocking finding applies to the content it delivers: a resume looks at none of the three where a run does. |
| `recovery_stranded` (violated) | `MCRecoveryStranded.cfg` | `EveryRunSettles` | A crash between git worktree add and the ownership file leaves a run that no resume can settle. |
| `lock` | `MCRunLock.cfg` | `TypeOK`, `MutualExclusion`, `TransitionsFormAChain`, `LockLostByOwnerOrAudit` | With one process that may force a stale lock, no two processes work on a repository, over crashes, interrupts and reused pids, and the transitions they record form one chain. |
| `lock_races` (violated) | `MCRunLockRaces.cfg` | `RacesBreakOneAtMost` | Two races in one behaviour: two runs pass the SELECT of acquire_lock together, and the one refused by the INSERT stays active with nobody to drive it; then two forced resumes that saw the same stale owner both come to work. |
| `validation` | `MCValidation.cfg` | `TypeOK`, `AcceptedProvesNoRegression`, `KnownFailuresTolerated`, `AcceptedSkippedNothing` | Baseline and candidates through every combination of stages and policies, with timeouts, cut output and failures without a name: acceptance proves what the complete runs can prove, known failures do not block, and no step is skipped. |
| `validation_advisory` (violated) | `MCValidationAdvisory.cfg` | `AdvisoryNeverAccepts` | A candidate whose only validator is advisory is accepted, whatever the validator says. |
| `attempt` | `MCAttempt.cfg` | `AttemptTypeOK`, `ReturnedTreeIsDead`, `FallbackOnUntouched`, `AttemptEnds`, `OrphansDie` | An attempt over all its invocations, on POSIX and on Windows, with processes that fork, escape, exit, trap signals or never end: it ends, it leaves nothing it owns alive, no retry starts on a worktree that was changed, and the tree of a dead controller dies. |
| `output` | `MCOutput.cfg` | `TypeOK`, `KeepsBothEnds`, `LoopFoundExactly` | Every stream of six lines cut into chunks in every way: the buffer keeps the first and last bytes without a gap, and the detector finds a command loop exactly when there is one. |
| `delivery` | `MCDelivery.cfg` | `TypeOK`, `CleanupLosesNothing`, `CompleteIsOneExport`, `WorktreeIsOwned` | Exports broken off by crashes and begun again, edits and commits of the candidate, a copy made meanwhile and a cleanup in its separate steps: what passes for a complete export is one, and cleanup removes nothing that it was asked to protect. |

Bounds, and why they suffice:

* `MaxAttempts` is 2 for acceptance (a first attempt and one after a repair or a
  rejected review) and 6 for routing, where the longest route of these requests in the
  default configuration is exhausted before the loop is. In the code it is 8.
* `MaxVersion` bounds how often the worktree changes. Two changes suffice to
  tell apart the content that was reviewed, tested and exported.
* `Evidence` has two failing tests, one of them fixed, and an anonymous failure:
  progress, repetition and regression all occur.
* `MaxCrashes` is 3: a crash of the run and two of its resumes.
* Two processes and two runs at one repository, each pid used twice: reuse of a
  pid and a race of two processes. The theorems cover every number.
* Validation: two steps suffice for every pair of policies and stages in either
  order, two tests for a known and a new failure. A validation does not
  remember its predecessors, except for the baseline.
* Attempt: the command and two processes below it, so that one can outlive its
  parent, be born during a look or escape while the other stays; the efforts
  `high`, which has no fallback, and `ultra`, which has three; both platforms.
  Two processes do not suffice for two wrong looks in a row, which is why the
  exception of `ReturnedTreeIsDead` for them is not reached in this run. The
  theorem covers any number.
* Output: the limits 2, 5 and 6 are the least one, an odd and an even one; reads
  of 1 to 4 bytes are shorter and longer than the tail and cut lines of two
  bytes everywhere; six lines hold a loop of three with something in between.
* Delivery: two exports, so that the second can break off over the first; two
  contents each of the tracked and the untracked files.
* No symmetry is used: the requests, events and pids that force differ.

Deadlock is checked in every run but `delivery`: the only ways to stop are the
explicit stuttering steps `Exited`, `Settled`, `Quiet`, `Rest` and `Ended`. In
`delivery` the system really stops, once the worktree is removed.

Fairness: `Orchestrator!Spec` has weak fairness of the controller's own steps,
since every subprocess it waits for is supervised with a timeout.
Nobody owes it a cancellation, an edit or an error. `RecoverySpec` adds weak
fairness of `BeginResume`: the property is about a user who resumes whenever the
run was interrupted. `Attempt` has weak fairness of the program's own steps, of
the watchdog and of the total timeout, and none of the processes they supervise,
which may run for ever and trap every signal that can be trapped. The loop over
`poll` owes a step only when `MustStop` holds: that it may end before is a choice.
The other modules have safety properties only and no fairness.

## 4. Findings

The runs expected to be violated state what a document says and show that the
code does otherwise; `PROJECT.json` quotes the sentences. Two of them check a
disjunction: `RecoveredKeepsAGuard` and `RacesBreakOneAtMost` hold as soon as one
of the documented promises does, so each is weaker than every promise it is made
of, and the one behaviour TLC finds breaks all of them.

* `RecoveredKeepsAGuard` (run `recovery_unguarded`, recovery_resume.py:163): README.md:477 says "Cancellation is file-signaled and observed by baseline, model, candidate validation, review, and final validation". A resume runs the candidate validation, the review and the final validation without a cancel event and never looks at cancel.requested, so a run cancelled before the crash is accepted by the resume.
* `RecoveredKeepsAGuard` (run `recovery_unguarded`, recovery_resume.py:318): README.md:510-518, "Before acceptance, policy checks: ... original checkout HEAD, branch, index, status, untracked manifest, and tracked hashes". A resume never compares the original checkout with the snapshot the run took, and accepts a run whose original checkout changed.
* `RecoveredKeepsAGuard` (run `recovery_unguarded`, recovery_resume.py:311): README.md:510-520, "Before acceptance, policy checks: ...". A resume evaluates the policy once, before the review, and compares the worktree only across the final validation; where a run evaluates the policy again on the content it accepts (orchestrator.py:929), a resume accepts a content that a surviving process wrote after the policy check, blocking findings included.
* `EveryRunSettles` (run `recovery_stranded`, git/worktree.py:51): docs/recovery.md:7 says "ambiguous states, and interrupted non-idempotent validation terminate for human review or block". After a crash between git worktree add and the write of the ownership file, every resume raises WorktreeOwnershipError before it plans anything, and the run stays active.
* `RacesBreakOneAtMost` (run `lock_races`, recovery_resume.py:76): docs/recovery.md:3 says "Locks bind each repository to one controller PID and process-start identity". resume reads the owner, decides that it is stale, and then calls acquire_lock with existing_owner_alive=False and force: two forced resumes that both saw the stale owner take the lock from each other and both work.
* `RacesBreakOneAtMost` (run `lock_races`, orchestrator.py:294): IMPLEMENTATION_PLAN.md:73 says "Terminalize lock rejection without leaving an active orphan". Only LockHeldError and StaleLockError are terminalized: when two runs pass the SELECT of acquire_lock together, the second INSERT raises sqlite3.IntegrityError and its run stays active with no process.
* `AdvisoryNeverAccepts` (run `validation_advisory`, validation/runner.py:184): README.md:313 says of an advisory step "Evidence is recorded but does not independently accept or block", and docs/validation.md:7 "With no validator, automatic acceptance is forbidden". run_candidate guards against an empty list of steps only: with nothing but advisory steps the loop falls through with ACCEPTED, even if every command failed.

What the models show beside that, and no document contradicts:

* A crash between the terminal transition and the release of the lock
  (orchestrator.py:1002) leaves a stale lock. A resume of that run returns before
  it looks at the lock, since the run is terminal; only a forced resume of another
  interrupted run of the repository clears it.
* A crash after `ATTEMPT_RUNNING` and before the launch of Codex is resumed like
  any interrupted attempt: the resume validates, and may accept, a worktree that
  no model has touched.
* The archive of an export may hold a later content of the untracked files than
  its manifest says, since it is read from the live worktree (git/patch.py:58).
* Cleanup takes a candidate that a model committed for unchanged, and a complete
  export for an export of what the worktree holds now (git/worktree.py:100).
* A call of `run` may return while processes it owns live: two looks of the
  watchdog in a row overlooked them, or the KILL was left out for want of an
  identity to compare. Without a Job Object nothing on Windows is owned at all.
* The timeouts of an attempt start again with each fallback.

## 5. What is proved

| Theorem | Module | Property | Says |
|---|---|---|---|
| `RunTransitionsLegal` | `OrchestratorProofs` | `NoIllegalTransition` | No transition the controller attempts is refused by the table, for all requests, limits, evidence and outside events. |
| `RunStatusFollowsState` | `OrchestratorProofs` | `StatusFollowsState` | Status and state of the row agree after every write. |
| `RunTypeCorrect` | `OrchestratorProofs` | `TypeOK` | The variables of a run keep their types; the router never leaves it without a selection. |
| `RunNeverCycles` | `OrchestratorProofs` | `LadderNeverCycles` | The attempts of a run never come back to a tier they left, for every list of verdicts and all budgets, if no escalation of the configuration leads to a tier the router tests for earlier. |
| `RunGoesDeepOnce` | `OrchestratorProofs` | `OneDeepRoute` | A run uses one of the two deep routes and never the other, if the configuration tells them apart. |
| `ForecastOfALane` | `OrchestratorProofs` |  | For every lane and both deep modes the forecast of dry-run, a recursive function, is the ascending list of the tiers the lane may reach. |
| `RunFollowsForecast` | `OrchestratorProofs` | `RouteFollowsForecast` | Whatever fails, and however often, a run attempts only selections of its forecast and in its order, if no two tiers share a selection. |
| `RunStepsAreBounded` | `OrchestratorProofs` |  | Every step of the controller lowers a bound of 200 steps for each attempt and 200 more, which no outside event raises: whatever is answered, a run takes finitely many steps. |
| `RunJournalsOneAtATime` | `OrchestratorProofs` |  | The controller never meets an operation its journal already has; wherever it stops, at most one is left unfinished, and none once the row is terminal, which the plan of a resume depends on. |
| `RunAttemptsPaidFor` | `OrchestratorProofs` | `AttemptsArePaidFor` | Every attempt on a tier beyond the first is paid for by a repair or a transient retry within its budget, or by a repair the reviewer asked for, if no two tiers share a selection. |
| `RunStopsForGood` | `OrchestratorProofs` | `StopClassStops` | After a failure of a stop class no attempt starts, for every configuration. |
| `RunRepairsOnNewEvidence` | `OrchestratorProofs` | `RepairNeedsNewEvidence` | A repair is granted only together with evidence not seen before, for every configuration. |
| `RunAcceptedHasEvidence` | `AcceptanceProofs` | `AcceptedHasEvidence` | An accepted run has exported exactly one patch, of the content whose final validation passed, with no blocking finding. |
| `RunCancellationHonoured` | `AcceptanceProofs` | `CancellationHonoured` | No acceptance overtakes a cancellation requested before the final verdict. |
| `RunOriginalProtected` | `AcceptanceProofs` | `OriginalProtected` | No acceptance overlooks an original checkout changed before the last comparison. |
| `RunKeepsContract` | `AcceptanceProofs` | `KeepsContract` | Every run implements RunContract: one outcome, reached once and kept, and acceptance only of what was delivered and tested. |
| `RunAcceptedWasReviewed` | `AcceptanceProofs` | `AcceptedWasReviewed` | No run is accepted round the review that its request or a high-risk path demands; the review was of the content delivered, unless something outside the run writes its worktree. |
| `LockExcludes` | `RunLockProofs` | `MutualExclusion` | With at most one process that may force, no two processes ever work under the lock, for any number of processes, runs and restarts. |
| `TypeCorrect` | `RunLockProofs` | `TypeOK` | The variables of RunLock keep their types. |
| `TransitionsAreLinear` | `RunLockProofs` | `TransitionsFormAChain` | The recorded transitions of every run form one chain that ends in its state, whichever processes race. |
| `LockIsLostInOneOfTwoWays` | `RunLockProofs` | `LockLostByOwnerOrAudit` | For any processes, all of which may force: a lock row disappears only by its live owner's release or with a new audit record of its successor. |
| `SupervisionTypeCorrect` | `AttemptProofs` |  | The variables of a supervised call keep their types, for any processes on either platform. |
| `ReturnedTreeIsDeadHolds` | `AttemptProofs` | `ReturnedTreeIsDead` | When a supervised call returns, nothing it owns is alive, unless two looks in a row overlooked it or the KILL was left out; for any number of processes. |
| `EveryReturnedTreeIsDead` | `AttemptProofs` | `ReturnedTreeIsDead` | The same over every invocation of an attempt. |
| `FallbackOnUntouchedHolds` | `AttemptProofs` | `FallbackOnUntouched` | No invocation starts on a worktree that an earlier one changed, unless that one left a process behind. |
| `AttemptTypeCorrect` | `AttemptProofs` | `AttemptTypeOK` | The variables of an attempt keep their types; no invocation is made without an effort left for it. |
| `AttemptIsSupervised` | `AttemptProofs` |  | Every step of an attempt is, for the processes, a step of one supervised call or the start of the next after that one returned: Attempt implements the supervisor's specification, call by call. |
| `KeepsBothEndsHolds` | `OutputProofs` | `KeepsBothEnds` | For every limit and every way to cut a stream of any length, the buffer holds all of it or exactly its two ends. |
| `LoopFoundExactlyHolds` | `OutputProofs` | `LoopFoundExactly` | For any stream, chunks, failures and threshold, the observer tells of a loop exactly when the complete lines hold one. |
| `OutputTypeOK` | `OutputProofs` | `TypeOK` | The buffer keeps its bounds: never more than the limit, and one chunk more while the tail is trimmed. |
| `CompleteIsOneExportHolds` | `DeliveryProofs` | `CompleteIsOneExport` | For all contents and any number of exports and crashes, files that agree with their checksums are those of one export. |
| `CleanupLosesNothingHolds` | `DeliveryProofs` | `CleanupLosesNothing` | Cleanup without discard removes uncommitted work only when a whole export is on disk, or when it was written after cleanup had looked. |
| `WorktreeIsOwnedHolds` | `DeliveryProofs` | `WorktreeIsOwned` | A worktree that exists has its ownership record, but for the crash while it is created. |
| `DeliveryTypeCorrect` | `DeliveryProofs` | `TypeOK` | The variables keep their types: each file of an export and of its copy holds what belongs in it, is torn or is absent. |
| `AcceptedProvesNoRegressionHolds` | `ValidationProofs` | `AcceptedProvesNoRegression` | For any steps, stages, failures and cut output, what is accepted has proved every required step and no regression against a complete baseline. |
| `KnownFailuresToleratedHolds` | `ValidationProofs` | `KnownFailuresTolerated` | A no-regression step blocks a candidate only where the baseline has evidence of it, and after complete runs only by a failure that is new or names nothing: for every configuration the count of failures decides nothing alone. |
| `AcceptedSkippedNothingHolds` | `ValidationProofs` | `AcceptedSkippedNothing` | For every configuration, each step meant for the machine has run before an acceptance, on the baseline too where it must not regress, and none was manual. |
| `ValidationTypeCorrect` | `ValidationProofs` | `TypeOK` | The variables of a validation keep their types. |
| `ValidationRunsInOrder` | `ValidationProofs` |  | However the configuration lists them, no step runs after one of a later stage. |
| `RecoveryTypeCorrect` | `RecoveryProofs` | `RecoveryTypeOK` | The variables keep their types through any number of crashes and resumes. |
| `RecoveryTransitionsLegal` | `RecoveryProofs` | `NoIllegalTransition` | Wherever a crash leaves the row, no step of a resume asks for a transition the table does not list. |
| `RecoveryStatusFollows` | `RecoveryProofs` | `StatusFollowsState` | Status and state agree after every write, crashes and resumes included. |
| `RecoveryNothingPending` | `RecoveryProofs` | `AcceptedNothingPending` | A run accepted after any crashes leaves no operation open in its journal, except attempts recorded as interrupted. |
| `RecoveredRunKeepsContract` | `RecoveryProofs` | `KeepsContract` | A run that crashes and is resumed any number of times implements RunContract. |
| `RecoveryAcceptedWasReviewed` | `RecoveryProofs` | `AcceptedWasReviewed` | The same through any number of crashes and resumes, if nothing outside the run writes its worktree. |

The assumptions are the named ones of the modules: a model for every role,
well-formed requests, positive bounds. Some theorems state one more of their own:
four about routes that the configuration keeps its tiers apart, the one about
reviews across crashes that nothing outside the run writes its worktree, and
`LockExcludes` that at most one process forces (`OneForcer`). Nothing else is
assumed, and every theorem holds for all other values of the constants: any number
of processes, runs, attempts, crashes, exports, any limit and any stream.

`OrchestratorProofs` and `AcceptanceProofs`. Three invariants build on each
other, and each has one step per action. `TypeInv` adds to the types that the
router is asked only about failures, from which it follows that its decision
names a selection or stops the run. `StateInv` ties every step of the controller
to the durable state it is taken in (`StateInAttempt`, `StateInDecision`),
without which the legality of a transition is not inductive; together with the
edges of the table it gives `RunTransitionsLegal` and `RunStatusFollowsState`.
`FinalInv` says what is known between the final verdict and the acceptance: the
verdict is about the candidate, the candidate is what is exported, and both late
looks at the outside world came out clean. An outside event after its last look
is recorded as late, which is why no event can falsify it. For the refinement,
`OutcomeKept` shows that a settled run moves nothing the contract sees,
`Deliveries` that no step both exports and settles, and `ContractStep` splits on
whether the run was and is settled.

The routes of a run rest on what one decision of the router may do: a repair or a
transient retry within its budget stays where the run is, everything else climbs
(`LadderClimbs`, by the `Rank` of a tier). `RouteClimbs` carries that through
the run, `OtherDeepUnused` keeps the second deep route out of it, `StopInv` says
that nothing is about to be attempted after a stop class, `RepairedSeen` that
nothing is repaired before evidence has been recorded, and `PaidInv` counts the attempts on a
tier, the one pending included, against what pays for them. Four of these
theorems ask something of the configuration: that no escalation leads to a tier
the router tests for earlier (`AscendingTiers`), that every escalation is a
change of selection (`DistinctTiers`), that the deep routes differ from each
other and from the rest (`DistinctDeep`). The defaults of `config.py` satisfy
all three and nothing there checks them: with equal tiers a run could go round
until `MaxAttempts`. `ReviewInv` follows an approval from the review to the
acceptance: from the final validation on, either the candidate is approved or
neither the request nor its policy verdict demands a review.

The forecast of a lane is a recursive function of the states of the router. It is
never reasoned about by induction: it takes at most four selections, so
`ForecastUnfolds` unfolds it against an explicit function that satisfies its
equations, and `ForecastOfALane` lists it. `Expected` is the same list as a set;
`RouteExpected` keeps the run inside it and, since both the forecast and the route
climb (`ForecastAscends`, `RouteClimbs`), inside it and in its order
(`ClimbingRouteFollows`).

The end of a run, short of fairness, is a matter of safety. `Rung` numbers the
steps of a round downwards, `OperationLeft` the commits an operation still has
before it, and `StepsLeft` adds them to what the attempts left may cost. Every
action of the controller is one of six kinds (`StepsByDescent`), each of which
lowers the bound (`StepsGoDown`); `RunStepsAreBounded` is all of `RunEnds` but that
an owed step is taken and that one is always possible, which is ENABLED and stays
with TLC. The same six kinds and the same order give `JournalAhead`, nothing still
to come is in the journal, and `OneInHand`, nothing is open but the operation the
controller is in.

`RecoveryProofs`. `CrashedInv` lets the invariants above hold while the first
controller runs and gives the resume its own: the durable state at each of its
steps (`StateInResume`) and what it has tested and exported on its way to
acceptance (`ResumeDelivers`). The steps of the first controller keep it by the
lemmas of the two modules above (`ControllerKeepsInv`), a crash because it moves
nothing durable, and the steps of a resume by the edges of the table they take
(`EdgesOfAResume`, `HumanReviewIsLegal`). `RecoveredReviewInv` follows the
approval of what a resume has captured. `JournalInv` says what is open in the
journal: the operation of the running controller and no other, and after a crash
an attempt, which the plan closes, or something that keeps the resume from its
gate because of the state it was opened in.

`RunLockProofs`. The inductive invariant for mutual exclusion says that a
process which works owns the one row of the lock, that a row which a live
process owns is not stale for anybody, and that a process about to steal saw an
owner that is dead for good: start identities only grow. With two processes
that may force, the second half fails, which is part of the run `lock_races`. The
chain of transitions needs no assumption on who forces: the comparison with the
durable state and the unique sequence number suffice. Nor does the loss of a lock:
`AuditInv` says that a process which may yet take over has no audit record.

`ValidationProofs`. Every result in hand has passed the comparison that its
policy asks for (`ResultsPassed`), and what the comparison sees of a complete run
is all there is to see (`ResultsObserved`). `StepsRan` says of each step of a
validation not given up that it has run or is to run, on the baseline too where it
must not regress, and `StepsBelong` that nothing else runs; together they leave
nothing skipped at acceptance. That a known failure never blocks is the lemma
`RegressionIsNew`: of complete runs the count of the failures never decides, since
a set of failures within that of the baseline is no larger. `OrderInv` compares
what is still to run with what has run, stage by stage.

`AttemptProofs`. A watchdog that is gone leaves nothing owned, unless its last
two looks were wrong or it was killed alone (`LooksCount`), and the controller
passes each step of the escalation only with a watchdog that is gone
(`ControllerKnows`); on Windows the job owns what is in it until it is closed
(`JobOwns`). For the attempt, nothing of an invocation runs before it starts
(`Unstarted`), so the comparison made before a fallback still holds at the launch,
unless strays write. `AttemptIsSupervised` puts the two modules together: for the
processes every step of an attempt is one of `Supervision`, or the reset to its
initial state, which only happens after the call before it returned.

`OutputProofs`. Amid the trimming, too, the tail holds the last `tailBytes` bytes
read, in chunks that join, and never fewer than the limit leaves for it (`Parts`,
`TailFits`); `Bounded` adds how much it may hold beyond that. For the detector,
`CountsTheRun` ties its count to the stream: the lines taken end in as many equal
failures with no other command in between, and in no more. `FoundSoFar` follows,
since a run as long as the threshold has to be counted up to it at its last line;
a line is handed on once, whichever chunk brings its newline.

`DeliveryProofs`. The argument is about the checksums: whatever they list was on
disk together at the end of one export (`SumsHold`), so a directory, or a copy of
one put together at several moments, that agrees with them agrees with itself.
`Frozen` says that what cleanup has seen of an export stays, since the run has
ended; `Ownership` orders the worktree and its record. The types say of every file
that it holds what belongs in it, a part of it, or nothing.

Only model-checked: the liveness properties `RunEnds`, `ResumedRunSettles`,
`AttemptEnds` and `OrphansDie`, which need fairness and ENABLED and are out of the
provers' reach. Every invariant and every action property of the passing runs is a
theorem.

## 6. Not modelled, and what is left

* Not modelled: configuration, prompts, reports, statistics and capability
  discovery, which keep no state that changes and is read back; the evidence
  tables of the store, which are written and not read by the controller; the
  parsing of events and results of Codex; the checks on unsafe paths in an
  export. `init`, `doctor`, `stats` and `report` are argument handling and output.
* Abstracted: what a policy rule or a reviewer says is a choice; so is whatever
  git, the file system and the operating system answer.
* The result file of a rejected invocation may be read as that of the next one,
  if that writes none (codex/executor.py:160); results are choices here.
* Left to prove: liveness. `RunStepsAreBounded` is the part of it that is safety;
  for a resume, a supervised call and the watchdog no such bound is stated yet.
