-------------------------------- MODULE RunLock --------------------------------
(***************************************************************************)
(* The repository lock (acquire_lock, lock_owner and release_lock of       *)
(* persistence/sqlite.py) and the recorded transitions it protects, with   *)
(* several processes at one repository: controllers of new runs            *)
(* (orchestrator.py) and resumes (recovery_resume.py).  A step is one      *)
(* SQLite statement run by itself or one committed transaction: what a     *)
(* SELECT returned may be stale when the transaction that follows begins.  *)
(***************************************************************************)
EXTENDS Naturals, Sequences

CONSTANTS
  Pids,       \* process ids; the system hands them out again
  Runs,       \* the runs of the repository
  Forcers,    \* the pids whose resume passes --force-stale-lock
  MaxStarts,  \* bound: how often a pid is handed out
  LastStage   \* the states of a run in order: 1 is CREATED, the last terminal

ASSUME RunLockAssumption ==
  /\ Forcers \subseteq Pids
  /\ MaxStarts \in Nat /\ LastStage \in Nat \ {0, 1}

VARIABLES
  \* durable
  stage,       \* the recorded state of each run, 0 before create_run
  log,         \* its recorded transitions
  lock,        \* the rows of run_locks for the repository: none or one
  steals,      \* the owners audited as having taken the lock by force
  \* processes
  pc, started, job, current, sequence, force,
  \* history: runs whose process crashed or was interrupted at work
  interrupted

durable == <<stage, log, lock, steals>>
process == <<pc, started, job, current, sequence, force>>
vars == <<durable, process, interrupted>>

Stages == 1..LastStage
Terminal(s) == s = LastStage
Active(r) == stage[r] \in Stages /\ ~Terminal(stage[r])

\* A row of state_transitions.
LogRow == [seq : Nat, from : Stages, to : Stages]

\* A process is known by its pid and its start identity.
Owner(p) == [run |-> job[p], pid |-> p, start |-> started[p]]
Owners == [run : Runs, pid : Pids, start : 1..MaxStarts]

Alive(p) == pc[p] # "none"

\* process_identity_matches
OwnerAlive(owner) == Alive(owner.pid) /\ started[owner.pid] = owner.start

Stale == \E owner \in lock : ~OwnerAlive(owner)

\* The processes that act on the worktree and the row of a run.
Working(p) == pc[p] \in {"work", "record"}

Step(p, from, to) == pc[p] = from /\ pc' = [pc EXCEPT ![p] = to]

-----------------------------------------------------------------------------
Init ==
  /\ stage = [r \in Runs |-> 0] /\ log = [r \in Runs |-> <<>>]
  /\ lock = {} /\ steals = {}
  /\ pc = [p \in Pids |-> "none"] /\ started = [p \in Pids |-> 0]
  /\ job \in [Pids -> Runs]
  /\ current = [p \in Pids |-> 1] /\ sequence = [p \in Pids |-> 0]
  /\ force = [p \in Pids |-> FALSE]
  /\ interrupted = {}

\* (mutant) The start of the process is not told apart from an unknown one.
BirthUnidentified(p, r, first) ==
  /\ ~Alive(p) /\ started[p] < MaxStarts
  /\ job' = [job EXCEPT ![p] = r]
  /\ pc' = [pc EXCEPT ![p] = first]
  /\ force' = [force EXCEPT ![p] = FALSE]
  /\ sequence' = [sequence EXCEPT ![p] = 0]
  /\ UNCHANGED started

\* A process is born: a pid that is free, a start identity never seen before.
Birth(p, r, first) ==
  /\ ~Alive(p) /\ started[p] < MaxStarts
  /\ started' = [started EXCEPT ![p] = @ + 1]
  /\ job' = [job EXCEPT ![p] = r]
  /\ pc' = [pc EXCEPT ![p] = first]
  /\ force' = [force EXCEPT ![p] = FALSE]
  /\ sequence' = [sequence EXCEPT ![p] = 0]

\* The run command: create_run, then the lock.
StartRun(p, r) ==
  /\ stage[r] = 0
  /\ Birth(p, r, "run_select")
  /\ stage' = [stage EXCEPT ![r] = 1]
  /\ current' = [current EXCEPT ![p] = 1]
  /\ UNCHANGED <<log, lock, steals, interrupted>>

\* The resume command: the state it goes by is read before the lock is taken.
StartResume(p, r) ==
  /\ Active(r)
  /\ Birth(p, r, "resume_owner")
  /\ current' = [current EXCEPT ![p] = stage[r]]
  /\ UNCHANGED <<durable, interrupted>>

\* lock_owner and the identity of the owner; then acquire_lock with
\* existing_owner_alive=False and force set if there was a lock.
ResumeOwner(p) ==
  /\ \/ lock = {} /\ Step(p, "resume_owner", "resume_select")
        /\ UNCHANGED force
     \/ Stale /\ p \in Forcers
        /\ Step(p, "resume_owner", "resume_select")
        /\ force' = [force EXCEPT ![p] = TRUE]
     \/ lock # {} /\ ~(Stale /\ p \in Forcers)
        /\ Step(p, "resume_owner", "none")        \* ValueError
        /\ UNCHANGED force
  /\ UNCHANGED <<durable, started, job, current, sequence, interrupted>>

\* acquire_lock, its SELECT, as the run command calls it.
RunSelect(p) ==
  /\ \/ lock = {} /\ Step(p, "run_select", "insert")
     \/ lock # {} /\ Step(p, "run_select", "rejected")  \* LockHeldError
  /\ UNCHANGED <<durable, started, job, current, sequence, force, interrupted>>

\* The same SELECT as resume calls it: every owner passes for dead.
ResumeSelect(p) ==
  /\ \/ lock = {} /\ Step(p, "resume_select", "insert")
     \/ lock # {} /\ force[p] /\ Step(p, "resume_select", "steal")
     \/ lock # {} /\ ~force[p]
        /\ Step(p, "resume_select", "none")                 \* StaleLockError
  /\ UNCHANGED <<durable, started, job, current, sequence, force, interrupted>>

\* (mutant) The INSERT replaces the row it conflicts with.
InsertReplaces(p) ==
  /\ Step(p, "insert", "locked") /\ lock' = {Owner(p)}
  /\ UNCHANGED <<stage, log, steals, started, job, current, sequence, force,
                 interrupted>>

\* The INSERT; the repository column is unique.
Insert(p) ==
  /\ \/ lock = {} /\ Step(p, "insert", "locked") /\ lock' = {Owner(p)}
     \/ lock # {} /\ Step(p, "insert", "none")          \* IntegrityError
        /\ UNCHANGED lock
  /\ UNCHANGED <<stage, log, steals, started, job, current, sequence, force,
                 interrupted>>

\* (mutant) The takeover leaves no audit record.
StealUnaudited(p) ==
  /\ Step(p, "steal", "locked")
  /\ lock' = {Owner(p)}
  /\ UNCHANGED <<stage, log, steals, started, job, current, sequence, force,
                 interrupted>>

\* DELETE, the audit record and INSERT, in one transaction.
Steal(p) ==
  /\ Step(p, "steal", "locked")
  /\ lock' = {Owner(p)}
  /\ steals' = steals \cup {Owner(p)}
  /\ UNCHANGED <<stage, log, started, job, current, sequence, force,
                 interrupted>>

-----------------------------------------------------------------------------
(***************************************************************************)
(* Work under the lock: transitions, each checked against the recorded     *)
(* state and then inserted under its sequence number                       *)
(***************************************************************************)
\* A resume counts the transitions recorded so far; a new run starts from 0.
Begin(p) ==
  /\ Step(p, "locked", "work")
  /\ sequence' = [sequence EXCEPT ![p] = Len(log[job[p]])]
  /\ UNCHANGED <<durable, started, job, current, force, interrupted>>

\* How a process ends that cannot record a transition: under the lock by its
\* finally clause, as a rejected run at once.
Abandon(p, from) ==
  Step(p, from, IF from \in {"rejected", "record_rejection"} THEN "none"
                ELSE "release")

\* (mutant) The caller's state is not compared with the durable one.
NoComparison(p) == TRUE

DurableStateExpected(p) == stage[job[p]] = current[p]

\* record_transition, its SELECT: the caller's state must be the durable one.
CheckState(p) ==
  /\ \E check \in {<<"work", "record">>, <<"rejected", "record_rejection">>} :
       IF DurableStateExpected(p) THEN Step(p, check[1], check[2])
       ELSE Abandon(p, check[1])
  /\ ~Terminal(current[p])
  /\ UNCHANGED <<durable, started, job, current, sequence, force, interrupted>>

SequenceTaken(p) ==
  \E i \in DOMAIN log[job[p]] : log[job[p]][i].seq = sequence[p] + 1

\* The row of the transition and the new state of the run, in one commit.
Record(p, to) ==
  /\ ~SequenceTaken(p)
  /\ stage' = [stage EXCEPT ![job[p]] = to]
  /\ log' = [log EXCEPT ![job[p]] =
               Append(@, [seq |-> sequence[p] + 1, from |-> current[p],
                          to |-> to])]
  /\ current' = [current EXCEPT ![p] = to]
  /\ sequence' = [sequence EXCEPT ![p] = @ + 1]
  /\ UNCHANGED <<lock, steals, started, job, force, interrupted>>

RecordTransition(p) ==
  \E to \in Stages :
    /\ to > current[p]
    /\ Step(p, "record", IF Terminal(to) THEN "release" ELSE "work")
    /\ Record(p, to)

\* A run that is refused the lock is recorded as blocked.
RecordRejection(p) ==
  /\ Step(p, "record_rejection", "none")
  /\ Record(p, LastStage)

\* (run_id, sequence) is unique: the second INSERT raises.
SequenceConflict(p) ==
  /\ SequenceTaken(p)
  /\ \E from \in {"record", "record_rejection"} : Abandon(p, from)
  /\ UNCHANGED <<durable, started, job, current, sequence, force, interrupted>>

\* Work fails: the lock is released, the run stays as it is.
Interrupt(p) ==
  /\ Step(p, "work", "release")
  /\ interrupted' = interrupted \cup {job[p]}
  /\ UNCHANGED <<durable, started, job, current, sequence, force>>

\* release_lock deletes the row of this very process, or nothing.
Release(p) ==
  /\ Step(p, "release", "none")
  /\ lock' = lock \ {Owner(p)}
  /\ UNCHANGED <<stage, log, steals, started, job, current, sequence, force,
                 interrupted>>

Crash(p) ==
  /\ Alive(p)
  /\ pc' = [pc EXCEPT ![p] = "none"]
  /\ interrupted' = interrupted \cup {job[p]}
  /\ UNCHANGED <<durable, started, job, current, sequence, force>>

ProcessStep(p) ==
  \/ ResumeOwner(p) \/ RunSelect(p) \/ ResumeSelect(p) \/ Insert(p)
  \/ Steal(p) \/ Begin(p) \/ CheckState(p) \/ RecordTransition(p)
  \/ RecordRejection(p) \/ SequenceConflict(p) \/ Interrupt(p) \/ Release(p)

Quiet == (\A p \in Pids : ~Alive(p)) /\ UNCHANGED vars

Next ==
  \/ \E p \in Pids, r \in Runs : StartRun(p, r) \/ StartResume(p, r)
  \/ \E p \in Pids : ProcessStep(p) \/ Crash(p)
  \/ Quiet

Spec == Init /\ [][Next]_vars

-----------------------------------------------------------------------------
TypeOK ==
  /\ stage \in [Runs -> 0..LastStage]
  /\ log \in [Runs -> Seq(LogRow)]
  /\ lock \subseteq Owners
  /\ steals \subseteq Owners
  /\ pc \in [Pids -> {"none", "run_select", "rejected", "record_rejection",
                      "resume_owner", "resume_select", "insert", "steal",
                      "locked", "work", "record", "release"}]
  /\ started \in [Pids -> 0..MaxStarts]
  /\ \A p \in Pids : Alive(p) => started[p] # 0
  /\ job \in [Pids -> Runs]
  /\ current \in [Pids -> Stages] /\ sequence \in [Pids -> Nat]
  /\ force \in [Pids -> BOOLEAN]
  /\ interrupted \subseteq Runs

\* Documented: the lock binds the repository to one controller process
\* (docs/recovery.md).  No two processes ever work under it.
MutualExclusion ==
  \A p, q \in Pids : Working(p) /\ Working(q) => p = q

\* A lock is given up only by the process that holds it, in its finally clause,
\* or taken over by a process whose forced takeover is audited.
LockLostByOwnerOrAudit ==
  [][\A owner \in lock \ lock' :
       \/ OwnerAlive(owner) /\ pc[owner.pid] = "release"
       \/ lock' # {} /\ lock' \subseteq steals' \ steals]_vars

\* Numbered from 1, and each transition starts where the one before ended.
IsChain(l) ==
  \A i \in DOMAIN l :
    /\ l[i].seq = i
    /\ l[i].from = IF i = 1 THEN 1 ELSE l[i - 1].to

LastState(l) == IF l = <<>> THEN 1 ELSE l[Len(l)].to

\* Whichever processes race, stale ones included, the recorded transitions of a
\* run form one chain that ends in its state.
TransitionsFormAChain ==
  \A r \in Runs :
    IsChain(log[r]) /\ (stage[r] > 0 => stage[r] = LastState(log[r]))

\* Documented: a run refused the lock is terminal, not an active orphan
\* (IMPLEMENTATION_PLAN.md).  An active run has a process that drives it or was
\* left behind by a crash or an error at work.
NoActiveOrphan ==
  \A r \in Runs : Active(r) =>
    r \in interrupted \/ \E p \in Pids : Alive(p) /\ job[p] = r

\* Of these two documented promises at least one is kept, whichever processes
\* race: the least that can be asked of the lock when two of them may force it.
RacesBreakOneAtMost == MutualExclusion \/ NoActiveOrphan
=============================================================================
