-------------------------------- MODULE Attempt --------------------------------
(***************************************************************************)
(* One attempt of the executor (execute in codex/executor.py): an          *)
(* invocation of Codex under supervision and, where the installed CLI      *)
(* rejects the effort max or ultra, another one at a lower effort.         *)
(***************************************************************************)
EXTENDS Supervision, Sequences

CONSTANT Efforts    \* the reasoning efforts an attempt is asked to use

VARIABLES
  apc,         \* where execute is
  requested,   \* request.selection.effort
  turn,        \* the invocation, an index into Invocations
  worktree,    \* its content, as checkout_invariant tells it apart
  strays,      \* an ended invocation has left processes behind
  launched     \* history: worktree and strays when the last invocation started

attempt == <<apc, requested, turn, worktree, strays, launched>>
vars == <<supervision, attempt>>

\* EFFORT_FALLBACKS
EffortFallbacks(effort) ==
  CASE effort = "max"   -> <<"xhigh", "high">>
    [] effort = "ultra" -> <<"max", "xhigh", "high">>
    [] OTHER            -> <<>>

Invocations == <<requested>> \o EffortFallbacks(requested)

Initial == "initial"

AttemptTypeOK ==
  /\ SupervisionTypeOK
  /\ apc \in {"prepare", "call", "judge", "done", "failed"}
  /\ requested \in Efforts /\ turn \in 1..Len(Invocations)
  /\ worktree \in {Initial, "changed"} /\ strays \in BOOLEAN
  /\ launched \in [worktree : {Initial, "changed"}, strays : BOOLEAN]

Init ==
  /\ SupervisionInit
  /\ apc = "prepare" /\ requested \in Efforts /\ turn = 1
  /\ worktree = Initial /\ strays = FALSE
  /\ launched = [worktree |-> Initial, strays |-> FALSE]

-----------------------------------------------------------------------------
\* The initial snapshot; the first invocation.
Prepare ==
  /\ apc = "prepare" /\ apc' = "call"
  /\ UNCHANGED <<supervision, requested, turn, worktree, strays, launched>>

\* The command line is built and supervisor.run starts the process.
Launch ==
  /\ apc = "call" /\ Spawn
  /\ launched' = [worktree |-> worktree, strays |-> strays]
  /\ UNCHANGED <<apc, requested, turn, worktree, strays>>

\* The rest of supervisor.run, with all that happens beside it.
Supervise ==
  /\ apc = "call" /\ pc # "spawn" /\ SupervisionNext /\ UNCHANGED attempt

\* A supervised process, or one that was left behind, writes or undoes it.
Write ==
  /\ alive # {} \/ strays
  /\ worktree' \in {Initial, "changed"} \ {worktree}
  /\ UNCHANGED <<supervision, apc, requested, turn, strays, launched>>

CallReturns ==
  /\ apc = "call" /\ pc = "returned" /\ apc' = "judge"
  /\ UNCHANGED <<supervision, requested, turn, worktree, strays, launched>>

\* An exception, or the end of the controller.
CallFails ==
  /\ apc = "call" /\ pc \in {"raised", "dead"}
  /\ apc' = "failed"
  /\ UNCHANGED <<supervision, requested, turn, worktree, strays, launched>>

\* The result is taken as it is: the effort was not rejected, there is no
\* lower one, or the rejected invocation has changed the worktree.
TakeResult ==
  /\ apc = "judge" /\ apc' = "done"
  /\ UNCHANGED <<supervision, requested, turn, worktree, strays, launched>>

\* (mutant) A rejected effort is enough to try the next one.
NothingCompared == TRUE

\* checkout_invariant of the worktree now and before the first invocation.
Untouched == worktree = Initial

\* (mutant) One invocation more than there are efforts.
OneEffortMore == turn <= Len(Invocations)

EffortLeft == turn < Len(Invocations)

\* The CLI rejected the effort, and the worktree is as it was: the next call.
Fallback ==
  /\ apc = "judge" /\ apc' = "call"
  /\ EffortLeft /\ Untouched
  /\ turn' = turn + 1
  /\ strays' = (strays \/ alive # {})
  /\ pc' = "spawn" /\ expired' = FALSE /\ job' = FALSE
  /\ wpc' = "none" /\ empty' = 0 /\ view' = {} /\ missed' = 0
  /\ born' = {} /\ alive' = {} /\ inside' = {} /\ blind' = FALSE
  /\ UNCHANGED <<platform, requested, worktree, launched>>

\* Processes go on after the call.
Aftermath ==
  /\ apc # "call" /\ (Watchdog \/ Family) /\ UNCHANGED attempt

Ended == apc \in {"done", "failed"} /\ alive = {} /\ UNCHANGED vars

Next ==
  \/ Prepare \/ Launch \/ Supervise \/ Write \/ CallReturns \/ CallFails
  \/ TakeResult \/ Fallback \/ Aftermath \/ Ended

\* The program's own steps and the clock; not the processes it started.
Fairness ==
  /\ WF_vars(Prepare \/ Launch \/ CallReturns \/ CallFails \/ TakeResult \/ Fallback)
  /\ WF_vars(apc = "call" /\ Controller /\ (pc = "watch" => MustStop) /\ UNCHANGED attempt)
  /\ WF_vars(Watchdog /\ UNCHANGED attempt)
  /\ WF_vars(apc = "call" /\ Expire /\ UNCHANGED attempt)

Spec == Init /\ [][Next]_vars /\ Fairness

-----------------------------------------------------------------------------
\* README.md: fallbacks are used "only after proving the rejected invocation
\* did not modify the candidate".  Every invocation of an attempt starts on the
\* worktree the attempt was given, however long after the comparison it starts,
\* unless an earlier one has left a process behind, which may write meanwhile.
FallbackOnUntouched ==
  launched.worktree = Initial \/ launched.strays

\* Whatever the command does (it may never end, and trap every signal it can),
\* an attempt ends, over all the invocations it is allowed.
AttemptEnds == <>(apc \in {"done", "failed"})

\* README.md: "Watchdog kills session when parent identity disappears", "Job
\* closes owned tree".  Once the controller is dead its process tree dies, but
\* for what the watchdog overlooked or had no more part in.
OrphansDie ==
  [](pc = "dead" => <>(Owned = {} \/ missed >= 2 \/ blind))

=============================================================================
