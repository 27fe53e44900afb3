----------------------------- MODULE RunLockProofs -----------------------------
(***************************************************************************)
(* Proofs about RunLock for any number of processes, runs, starts and      *)
(* stages.                                                                 *)
(***************************************************************************)
EXTENDS RunLock, TLAPS

\* The assumption under which the lock excludes: one pid at most forces a
\* stale lock.  The run MCRunLockForcedRace shows what happens without it.
OneForcer == \A p, q \in Forcers : p = q

Locations ==
  {"none", "run_select", "rejected", "record_rejection", "resume_owner",
   "resume_select", "insert", "steal", "locked", "work", "record", "release"}

\* The part of TypeOK that the lock depends on.
LockTypeOK ==
  /\ lock \subseteq Owners
  /\ pc \in [Pids -> Locations]
  /\ started \in [Pids -> 0..MaxStarts]
  /\ \A p \in Pids : Alive(p) => started[p] # 0
  /\ job \in [Pids -> Runs]
  /\ force \in [Pids -> BOOLEAN]

Holding(p) == pc[p] \in {"locked", "work", "record", "release"}

\* About to take over the lock of a process it has found dead.
Forcing(p) == pc[p] = "steal" \/ (pc[p] = "resume_select" /\ force[p])

\* The repository column is unique.
OneRow == \A a, b \in lock : a = b

OwnersWereBorn == \A owner \in lock : owner.start <= started[owner.pid]

HoldersOwnTheLock == \A p \in Pids : Holding(p) => lock = {Owner(p)}

ForcersFoundItStale ==
  \A p \in Pids : Forcing(p) =>
    /\ p \in Forcers /\ force[p]
    /\ lock # {}
    /\ \A owner \in lock : ~OwnerAlive(owner)

\* force is set by the look at the owner, not before.
NotForcedYet == \A p \in Pids : pc[p] = "resume_owner" => ~force[p]

\* The inductive invariant: a holder owns the row, and the only process that
\* may replace a row sees one whose owner is dead and stays dead.
LockInv ==
  /\ LockTypeOK
  /\ OneRow
  /\ OwnersWereBorn
  /\ HoldersOwnTheLock
  /\ ForcersFoundItStale
  /\ NotForcedYet

-----------------------------------------------------------------------------
\* A process that is alive, as one at a step other than "none" is, is the live
\* owner of the row it would write.
LEMMA LiveOwner ==
  ASSUME NEW p \in Pids, Alive(p)
  PROVE  OwnerAlive(Owner(p))
BY DEF OwnerAlive, Owner, Alive

\* Two pids never own the same row.
LEMMA OwnerNamesItsPid ==
  ASSUME NEW p \in Pids, NEW q \in Pids, Owner(p) = Owner(q)
  PROVE  p = q
<1>1. Owner(p).pid = p /\ Owner(q).pid = q
  BY DEF Owner
<1> QED
  BY <1>1

\* The invariant holds before any process is born.
LEMMA LockInvInit == Init => LockInv
<1> SUFFICES ASSUME Init PROVE LockInv
  OBVIOUS
<1>1. LockTypeOK
  BY RunLockAssumption DEF Init, LockTypeOK, Locations, Alive
<1>2. OneRow /\ OwnersWereBorn
  BY DEF Init, OneRow, OwnersWereBorn
<1>3. HoldersOwnTheLock
  BY DEF Init, HoldersOwnTheLock, Holding
<1>4. ForcersFoundItStale
  BY DEF Init, ForcersFoundItStale, Forcing
<1>5. NotForcedYet
  BY DEF Init, NotForcedYet
<1> QED
  BY <1>1, <1>2, <1>3, <1>4, <1>5 DEF LockInv

\* A step that moves one live process, writes no row and gives the process no
\* hold and no force it did not have, preserves the invariant.
LEMMA PlainMove ==
  ASSUME LockInv, NEW p \in Pids, NEW to \in Locations,
         Alive(p),
         pc' = [pc EXCEPT ![p] = to],
         to \in {"locked", "work", "record", "release"} => Holding(p),
         to = "steal" \/ (to = "resume_select" /\ force[p]) => Forcing(p),
         to # "resume_owner",
         UNCHANGED <<lock, started, job, force>>
  PROVE  LockInv'
<1>1. LockTypeOK'
  BY DEF LockInv, LockTypeOK, Alive
<1>2. OneRow' /\ OwnersWereBorn'
  BY DEF LockInv, OneRow, OwnersWereBorn
<1>3. HoldersOwnTheLock'
  BY DEF LockInv, LockTypeOK, HoldersOwnTheLock, Holding, Owner
<1>4. ForcersFoundItStale'
  <2> SUFFICES ASSUME NEW q \in Pids, Forcing(q)'
               PROVE  /\ q \in Forcers /\ force[q]
                      /\ lock # {}
                      /\ \A owner \in lock : ~OwnerAlive(owner)'
    BY DEF ForcersFoundItStale
  <2>1. Forcing(q)
    BY DEF LockInv, LockTypeOK, Forcing
  <2>2. ForcersFoundItStale
    BY DEF LockInv
  <2>3. ASSUME NEW owner \in lock PROVE ~OwnerAlive(owner)'
    <3>1. ~OwnerAlive(owner) /\ owner.pid \in Pids
      BY <2>1, <2>2 DEF ForcersFoundItStale, LockInv, LockTypeOK, Owners
    <3> QED
      BY <3>1 DEF OwnerAlive, Alive, LockInv, LockTypeOK
  <2> QED
    BY <2>1, <2>2, <2>3 DEF ForcersFoundItStale
<1>5. NotForcedYet'
  BY DEF LockInv, LockTypeOK, NotForcedYet
<1> QED
  BY <1>1, <1>2, <1>3, <1>4, <1>5 DEF LockInv

\* The birth of a process brings no owner back to life: its start identity is
\* one that no row bears.
LEMMA BirthMove ==
  ASSUME LockInv, NEW p \in Pids, NEW r \in Runs,
         NEW first \in {"run_select", "resume_owner"},
         Birth(p, r, first), UNCHANGED lock
  PROVE  LockInv'
<1>1. LockTypeOK'
  BY RunLockAssumption DEF LockInv, LockTypeOK, Alive, Birth, Locations
<1>2. started[p] \in Nat /\ started'[p] = started[p] + 1
  BY RunLockAssumption DEF LockInv, LockTypeOK, Birth
<1>3. OneRow' /\ OwnersWereBorn'
  BY <1>2, RunLockAssumption DEF LockInv, OneRow, LockTypeOK, OwnersWereBorn, Owners, Birth
<1>4. HoldersOwnTheLock'
  BY DEF LockInv, LockTypeOK, HoldersOwnTheLock, Holding, Owner, Birth
<1>5. ForcersFoundItStale'
  <2> SUFFICES ASSUME NEW q \in Pids, Forcing(q)'
               PROVE  /\ q \in Forcers /\ force'[q]
                      /\ lock # {}
                      /\ \A owner \in lock : ~OwnerAlive(owner)'
    BY DEF ForcersFoundItStale
  <2>1. q # p /\ Forcing(q) /\ force'[q] = force[q]
    BY DEF LockInv, LockTypeOK, Forcing, Birth
  <2>2. ForcersFoundItStale
    BY DEF LockInv
  <2>3. ASSUME NEW owner \in lock PROVE ~OwnerAlive(owner)'
    <3>1. /\ ~OwnerAlive(owner) /\ owner.pid \in Pids
          /\ owner.start \in Nat /\ owner.start <= started[owner.pid]
      BY <2>1, <2>2, RunLockAssumption
      DEF ForcersFoundItStale, LockInv, LockTypeOK, OwnersWereBorn, Owners
    <3>2. CASE owner.pid = p
      BY <1>2, <3>1, <3>2 DEF OwnerAlive
    <3>3. CASE owner.pid # p
      BY <3>1, <3>3 DEF OwnerAlive, Alive, LockInv, LockTypeOK, Birth
    <3> QED
      BY <3>2, <3>3
  <2> QED
    BY <2>1, <2>2, <2>3 DEF ForcersFoundItStale
<1>6. NotForcedYet'
  BY DEF LockInv, LockTypeOK, NotForcedYet, Birth
<1> QED
  BY <1>1, <1>3, <1>4, <1>5, <1>6 DEF LockInv

-----------------------------------------------------------------------------
(***************************************************************************)
(* The steps that decide about the row                                     *)
(***************************************************************************)
\* The look at the owner: a process that will force has found it dead.
LEMMA ResumeOwnerStep ==
  ASSUME LockInv, NEW p \in Pids, ResumeOwner(p)
  PROVE  LockInv'
<1> USE DEF Step, durable
<1>1. Alive(p) /\ ~force[p]
  BY DEF ResumeOwner, Alive, LockInv, NotForcedYet
<1>2. CASE pc' = [pc EXCEPT ![p] = "none"] /\ UNCHANGED force
  BY <1>1, <1>2, PlainMove DEF ResumeOwner, Locations
<1>3. CASE pc' = [pc EXCEPT ![p] = "resume_select"] /\ UNCHANGED force
  BY <1>1, <1>3, PlainMove DEF ResumeOwner, Locations
<1>4. CASE /\ Stale /\ p \in Forcers
           /\ pc[p] = "resume_owner"
           /\ pc' = [pc EXCEPT ![p] = "resume_select"]
           /\ force' = [force EXCEPT ![p] = TRUE]
  <2>0. UNCHANGED <<lock, started, job>>
    BY DEF ResumeOwner
  <2>1. /\ LockTypeOK' /\ OneRow' /\ OwnersWereBorn'
        /\ HoldersOwnTheLock' /\ NotForcedYet'
    BY <1>4, <2>0
    DEF LockInv, LockTypeOK, Alive, OneRow, Locations, OwnersWereBorn, HoldersOwnTheLock,
        Holding, Owner, NotForcedYet
  <2>2. ASSUME NEW q \in Pids, Forcing(q)'
        PROVE  /\ q \in Forcers /\ force'[q]
               /\ lock # {}
               /\ \A owner \in lock : ~OwnerAlive(owner)
    <3>1. CASE q = p
      <4>1. lock # {}
        BY <1>4 DEF Stale
      <4>2. OneRow
        BY DEF LockInv
      <4> QED
        BY <1>4, <3>1, <4>1, <4>2 DEF Stale, OneRow, LockInv, LockTypeOK
    <3>2. CASE q # p
      BY <1>4, <2>2, <3>2
      DEF Forcing, LockInv, LockTypeOK, ForcersFoundItStale
    <3> QED
      BY <3>1, <3>2
  <2>3. \A owner \in lock : ~OwnerAlive(owner) => ~OwnerAlive(owner)'
    BY <1>4, <2>0 DEF OwnerAlive, Alive, LockInv, LockTypeOK, Owners
  <2> QED
    BY <2>0, <2>1, <2>2, <2>3 DEF LockInv, ForcersFoundItStale
<1> QED
  BY <1>2, <1>3, <1>4 DEF ResumeOwner

\* A new row: the process that writes it holds it, and nobody else holds or
\* forces one.
LEMMA NewRow ==
  ASSUME LockInv, NEW p \in Pids, Alive(p),
         pc' = [pc EXCEPT ![p] = "locked"], lock' = {Owner(p)},
         UNCHANGED <<started, job, force>>,
         \A q \in Pids \ {p} : ~Holding(q) /\ ~Forcing(q)
  PROVE  LockInv'
<1>1. LockTypeOK'
  <2>1. started[p] \in 1..MaxStarts
    BY RunLockAssumption DEF LockInv, LockTypeOK
  <2> QED
    BY <2>1 DEF LockInv, LockTypeOK, Alive, Locations, Owner, Owners
<1>2. OneRow' /\ OwnersWereBorn' /\ NotForcedYet'
  BY RunLockAssumption
  DEF LockInv, LockTypeOK, OneRow, OwnersWereBorn, NotForcedYet, Owner
<1>3. HoldersOwnTheLock'
  BY DEF LockInv, LockTypeOK, HoldersOwnTheLock, Holding, Owner
<1>4. ForcersFoundItStale'
  BY DEF LockInv, LockTypeOK, ForcersFoundItStale, Forcing
<1> QED
  BY <1>1, <1>2, <1>3, <1>4 DEF LockInv

\* The INSERT succeeds only where there is no row, so no holder and no forcer.
LEMMA InsertStep ==
  ASSUME LockInv, NEW p \in Pids, Insert(p)
  PROVE  LockInv'
<1> USE DEF Step
<1>1. Alive(p)
  BY DEF Insert, Alive
<1>2. CASE /\ lock = {} /\ lock' = {Owner(p)}
           /\ pc' = [pc EXCEPT ![p] = "locked"]
  <2>1. \A q \in Pids \ {p} : ~Holding(q) /\ ~Forcing(q)
    BY <1>2 DEF LockInv, HoldersOwnTheLock, ForcersFoundItStale
  <2> QED
    BY <1>1, <1>2, <2>1, NewRow DEF Insert
<1>3. CASE pc' = [pc EXCEPT ![p] = "none"] /\ UNCHANGED lock
  BY <1>1, <1>3, PlainMove DEF Insert, Locations
<1> QED
  BY <1>2, <1>3 DEF Insert

\* A takeover: the row is that of a dead process, so nobody holds it, and with
\* one forcing pid nobody else is about to take it.
LEMMA StealStep ==
  ASSUME LockInv, OneForcer, NEW p \in Pids, Steal(p)
  PROVE  LockInv'
<1>1. Alive(p) /\ Forcing(p)
  BY DEF Steal, Step, Alive, Forcing
<1>2. p \in Forcers /\ \A owner \in lock : ~OwnerAlive(owner)
  BY <1>1 DEF LockInv, ForcersFoundItStale
<1>3. ASSUME NEW q \in Pids \ {p} PROVE ~Holding(q) /\ ~Forcing(q)
  <2>1. ~Forcing(q)
    BY <1>2, OneForcer DEF OneForcer, LockInv, ForcersFoundItStale
  <2>2. Holding(q) => lock = {Owner(q)} /\ OwnerAlive(Owner(q))
    BY LiveOwner DEF LockInv, HoldersOwnTheLock, Holding, Alive
  <2> QED
    BY <1>2, <2>1, <2>2
<1> QED
  BY <1>1, <1>3, NewRow DEF Steal, Step

\* Only the holder of the row gives it up, and it holds nothing afterwards.
LEMMA ReleaseStep ==
  ASSUME LockInv, NEW p \in Pids, Release(p)
  PROVE  LockInv'
<1> USE DEF Step
<1>1. /\ lock = {Owner(p)} /\ lock' = {}
      /\ pc' = [pc EXCEPT ![p] = "none"]
      /\ UNCHANGED <<started, job, force>>
  BY DEF Release, LockInv, HoldersOwnTheLock, Holding
<1>2. OwnerAlive(Owner(p))
  BY LiveOwner DEF Release, Alive
<1>3. \A q \in Pids : ~Forcing(q)
  BY <1>1, <1>2 DEF LockInv, ForcersFoundItStale
<1>4. \A q \in Pids \ {p} : ~Holding(q)
  <2> SUFFICES ASSUME NEW q \in Pids, q # p, Holding(q) PROVE FALSE
    OBVIOUS
  <2>1. {Owner(q)} = {Owner(p)}
    BY <1>1 DEF LockInv, HoldersOwnTheLock
  <2>2. Owner(q) = Owner(p)
    BY <2>1
  <2> QED
    BY <2>2, OwnerNamesItsPid
<1>5. LockTypeOK' /\ OneRow' /\ OwnersWereBorn' /\ NotForcedYet'
  BY <1>1
  DEF LockInv, LockTypeOK, Alive, Locations, OneRow, OwnersWereBorn, NotForcedYet
<1>6. HoldersOwnTheLock'
  BY <1>1, <1>4 DEF LockInv, LockTypeOK, HoldersOwnTheLock, Holding
<1>7. ForcersFoundItStale'
  BY <1>1, <1>3 DEF LockInv, LockTypeOK, ForcersFoundItStale, Forcing
<1> QED
  BY <1>5, <1>6, <1>7 DEF LockInv

-----------------------------------------------------------------------------
\* Every step preserves the invariant.
LEMMA LockInvStep ==
  ASSUME LockInv, OneForcer, [Next]_vars
  PROVE  LockInv'
<1> USE DEF Step, durable
<1>1. ASSUME NEW p \in Pids, NEW r \in Runs, StartRun(p, r) \/ StartResume(p, r)
      PROVE  LockInv'
  BY <1>1, BirthMove DEF StartRun, StartResume
<1>2. ASSUME NEW p \in Pids, ProcessStep(p) PROVE LockInv'
  <2>1. CASE ResumeOwner(p)
    BY <2>1, ResumeOwnerStep
  <2>2. CASE RunSelect(p)
    BY <2>2, PlainMove DEF RunSelect, Alive, Locations
  <2>3. CASE ResumeSelect(p)
    BY <2>3, PlainMove DEF ResumeSelect, Alive, Locations, Forcing
  <2>4. CASE Insert(p)
    BY <2>4, InsertStep
  <2>5. CASE Steal(p)
    BY <2>5, StealStep
  <2>6. CASE Begin(p)
    BY <2>6, PlainMove DEF Begin, Alive, Locations, Holding
  <2>7. CASE CheckState(p)
    BY <2>7, PlainMove DEF CheckState, Abandon, Alive, Locations, Holding
  <2>8. CASE RecordTransition(p)
    BY <2>8, PlainMove DEF RecordTransition, Record, Alive, Locations, Holding
  <2>9. CASE RecordRejection(p)
    BY <2>9, PlainMove DEF RecordRejection, Record, Alive, Locations
  <2>10. CASE SequenceConflict(p)
    BY <2>10, PlainMove DEF SequenceConflict, Abandon, Alive, Locations, Holding
  <2>11. CASE Interrupt(p)
    BY <2>11, PlainMove DEF Interrupt, Alive, Locations, Holding
  <2>12. CASE Release(p)
    BY <2>12, ReleaseStep
  <2> QED
    BY <1>2, <2>1, <2>2, <2>3, <2>4, <2>5, <2>6, <2>7, <2>8, <2>9, <2>10, <2>11,
       <2>12 DEF ProcessStep
<1>3. ASSUME NEW p \in Pids, Crash(p) PROVE LockInv'
  BY <1>3, PlainMove DEF Crash, Locations
<1>4. CASE UNCHANGED vars
  BY <1>4
  DEF vars, process, LockInv, LockTypeOK, OneRow, OwnersWereBorn,
      HoldersOwnTheLock, Holding, Owner, ForcersFoundItStale, Forcing,
      OwnerAlive, Alive, NotForcedYet
<1> QED
  BY <1>1, <1>2, <1>3, <1>4 DEF Next, Quiet

\* As long as one pid at most forces stale locks, no two processes ever work
\* under the repository lock, whatever crashes and however pids are reused.
THEOREM LockExcludes ==
  ASSUME OneForcer
  PROVE  Spec => []MutualExclusion
<1>1. Init => LockInv
  BY LockInvInit
<1>2. LockInv /\ [Next]_vars => LockInv'
  BY LockInvStep
<1>3. LockInv => MutualExclusion
  <2> SUFFICES ASSUME LockInv, NEW p \in Pids, NEW q \in Pids,
                      Working(p), Working(q)
               PROVE  p = q
    BY DEF MutualExclusion
  <2>1. lock = {Owner(p)} /\ lock = {Owner(q)}
    BY DEF LockInv, HoldersOwnTheLock, Holding, Working
  <2>2. Owner(p) = Owner(q)
    BY <2>1
  <2> QED
    BY <2>2, OwnerNamesItsPid
<1> QED
  BY <1>1, <1>2, <1>3, PTL DEF Spec

-----------------------------------------------------------------------------
(***************************************************************************)
(* Type correctness                                                        *)
(***************************************************************************)
LEMMA TypeInit == Init => TypeOK
BY RunLockAssumption DEF Init, TypeOK, Stages, Alive

\* Every step keeps the types; only the log and the counters can grow.
LEMMA TypeStep ==
  ASSUME TypeOK, [Next]_vars
  PROVE  TypeOK'
<1> USE RunLockAssumption DEF TypeOK, durable, process
<1>1. ASSUME NEW p \in Pids, NEW r \in Runs, StartRun(p, r)
      PROVE  TypeOK'
  <2>1. 1 \in Stages /\ 1 \in 0..LastStage
    BY DEF Stages
  <2> QED
    BY <1>1, <2>1 DEF StartRun, Birth, Alive
<1>2. ASSUME NEW p \in Pids, NEW r \in Runs, StartResume(p, r)
      PROVE  TypeOK'
  BY <1>2 DEF StartResume, Birth, Active, Alive
<1>3. ASSUME NEW p \in Pids, ProcessStep(p) PROVE TypeOK'
  <2> USE DEF Step
  <2>1. CASE ResumeOwner(p)
    BY <2>1 DEF ResumeOwner, Alive
  <2>2. CASE RunSelect(p)
    BY <2>2 DEF RunSelect, Alive
  <2>3. CASE ResumeSelect(p)
    BY <2>3 DEF ResumeSelect, Alive
  <2>4. CASE Insert(p) \/ Steal(p)
    <3>1. Alive(p)
      BY <2>4 DEF Insert, Steal, Alive
    <3>2. Owner(p) \in Owners
      BY <3>1 DEF Owner, Owners
    <3> QED
      BY <2>4, <3>1, <3>2 DEF Insert, Steal, Alive
  <2>5. CASE Begin(p)
    BY <2>5 DEF Begin, Alive
  <2>6. CASE CheckState(p)
    <3>1. \E to \in {"record", "record_rejection", "release", "none"} :
            pc' = [pc EXCEPT ![p] = to] /\ Alive(p)
      BY <2>6 DEF CheckState, Abandon, Alive
    <3>2. UNCHANGED <<durable, started, job, current, sequence, force, interrupted>>
      BY <2>6 DEF CheckState
    <3> QED
      BY <3>1, <3>2 DEF Alive
  <2>7. ASSUME NEW to \in Stages, Record(p, to)
        PROVE  /\ stage' \in [Runs -> 0..LastStage]
               /\ log' \in [Runs -> Seq(LogRow)]
               /\ current' \in [Pids -> Stages] /\ sequence' \in [Pids -> Nat]
    <3>1. [seq |-> sequence[p] + 1, from |-> current[p], to |-> to] \in LogRow
      BY DEF LogRow
    <3>2. log[job[p]] \in Seq(LogRow)
      OBVIOUS
    <3>3. log' \in [Runs -> Seq(LogRow)]
      BY <2>7, <3>1, <3>2 DEF Record
    <3>4. to \in 0..LastStage /\ sequence[p] + 1 \in Nat
      BY DEF Stages
    <3> QED
      BY <2>7, <3>3, <3>4 DEF Record
  <2>8. CASE RecordTransition(p) \/ RecordRejection(p)
    <3>1. \E to \in {"work", "release", "none"} :
            pc' = [pc EXCEPT ![p] = to] /\ Alive(p)
      BY <2>8 DEF RecordTransition, RecordRejection, Alive
    <3>2. \E to \in Stages : Record(p, to)
      BY <2>8, RunLockAssumption DEF RecordTransition, RecordRejection, Stages
    <3>3. UNCHANGED <<lock, steals, started, job, force, interrupted>>
      BY <3>2 DEF Record
    <3>4. /\ stage' \in [Runs -> 0..LastStage]
          /\ log' \in [Runs -> Seq(LogRow)]
          /\ current' \in [Pids -> Stages] /\ sequence' \in [Pids -> Nat]
      BY <2>7, <3>2
    <3>5. pc' \in [Pids -> {"none", "run_select", "rejected", "record_rejection",
                            "resume_owner", "resume_select", "insert", "steal",
                            "locked", "work", "record", "release"}]
      BY <3>1
    <3>6. ASSUME NEW q \in Pids, Alive(q)' PROVE Alive(q)
      BY <3>1, <3>6 DEF Alive
    <3> QED
      BY <3>3, <3>4, <3>5, <3>6
  <2>10. CASE SequenceConflict(p)
    BY <2>10 DEF SequenceConflict, Abandon, Alive
  <2>11. CASE Interrupt(p)
    BY <2>11 DEF Interrupt, Alive
  <2>12. CASE Release(p)
    BY <2>12 DEF Release, Alive
  <2> QED
    BY <1>3, <2>1, <2>2, <2>3, <2>4, <2>5, <2>6, <2>8, <2>10, <2>11, <2>12
    DEF ProcessStep
<1>4. ASSUME NEW p \in Pids, Crash(p) PROVE TypeOK'
  BY <1>4 DEF Crash, Alive
<1>5. CASE UNCHANGED vars
  BY <1>5 DEF vars, Alive
<1> QED
  BY <1>1, <1>2, <1>3, <1>4, <1>5 DEF Next, Quiet

\* The values of the variables are what their use supposes.
THEOREM TypeCorrect == Spec => []TypeOK
BY TypeInit, TypeStep, PTL DEF Spec

-----------------------------------------------------------------------------
(***************************************************************************)
(* The recorded transitions                                                *)
(***************************************************************************)
ChainOf(r) == IsChain(log[r]) /\ (stage[r] > 0 => stage[r] = LastState(log[r]))

\* A chain grows by a transition that bears the next number and starts where
\* the chain ends.
LEMMA ChainGrows ==
  ASSUME NEW l \in Seq(LogRow), NEW row \in LogRow, IsChain(l),
         row.seq = Len(l) + 1, row.from = LastState(l)
  PROVE  IsChain(Append(l, row)) /\ LastState(Append(l, row)) = row.to
<1> DEFINE m == Append(l, row)
           n == Len(l)
<1>1. /\ n \in Nat /\ DOMAIN l = 1..n
      /\ Len(m) = n + 1 /\ DOMAIN m = 1..(n + 1) /\ m # <<>>
      /\ m[n + 1] = row
      /\ \A i \in 1..n : m[i] = l[i]
  OBVIOUS
<1>2. LastState(l) = IF n = 0 THEN 1 ELSE l[n].to
  BY DEF LastState
<1>3. IsChain(m)
  <2> SUFFICES ASSUME NEW i \in 1..(n + 1)
               PROVE  /\ m[i].seq = i
                      /\ m[i].from = IF i = 1 THEN 1 ELSE m[i - 1].to
    BY <1>1 DEF IsChain
  <2> HIDE DEF m
  <2>1. CASE i = n + 1
    BY <1>1, <1>2, <2>1
  <2>2. CASE i # n + 1
    <3>1. i \in 1..n /\ (i # 1 => i - 1 \in 1..n)
      BY <1>1, <2>2
    <3> QED
      BY <1>1, <3>1 DEF IsChain
  <2> QED
    BY <2>1, <2>2
<1>4. LastState(m) = row.to
  <2> HIDE DEF m
  <2> QED
    BY <1>1 DEF LastState
<1> QED
  BY <1>3, <1>4

\* About to insert a transition, after the comparison of the states.
Recording(p) == pc[p] \in {"record", "record_rejection"}

\* No process is ahead of the log, and one that is level with it when it records
\* still has the durable state in hand.
BehindTheLog(p) ==
  /\ stage[job[p]] > 0
  /\ sequence[p] <= Len(log[job[p]])
  /\ Recording(p) /\ sequence[p] = Len(log[job[p]]) =>
       current[p] = stage[job[p]]

ChainInv ==
  /\ TypeOK
  /\ \A r \in Runs : ChainOf(r)
  /\ \A r \in Runs : stage[r] = 0 => log[r] = <<>>
  /\ \A p \in Pids : Alive(p) => BehindTheLog(p)

\* No run has recorded anything at the start.
LEMMA ChainInit == Init => ChainInv
<1> SUFFICES ASSUME Init PROVE ChainInv
  OBVIOUS
<1>1. TypeOK
  BY TypeInit
<1>2. \A r \in Runs : log[r] = <<>> /\ stage[r] = 0
  BY DEF Init
<1>3. \A p \in Pids : ~Alive(p)
  BY DEF Init, Alive
<1>4. IsChain(<<>>)
  BY DEF IsChain
<1> QED
  BY <1>1, <1>2, <1>3, <1>4 DEF ChainInv, ChainOf

\* A step of one process that records nothing keeps the chain, provided it does
\* not make the process ahead of the log or level with a state it does not know.
LEMMA NothingRecorded ==
  ASSUME ChainInv, TypeOK', NEW p \in Pids,
         UNCHANGED <<stage, log>>,
         Alive(p)' => BehindTheLog(p)',
         \A q \in Pids \ {p} :
           /\ pc'[q] = pc[q] /\ job'[q] = job[q]
           /\ sequence'[q] = sequence[q] /\ current'[q] = current[q]
  PROVE  ChainInv'
<1>1. ASSUME NEW q \in Pids, q # p, Alive(q)' PROVE BehindTheLog(q)'
  BY <1>1 DEF ChainInv, Alive, BehindTheLog, Recording
<1>2. \A r \in Runs : ChainOf(r)'
  BY DEF ChainInv, ChainOf
<1> QED
  BY <1>1, <1>2 DEF ChainInv

\* What a process remembers of its run.
LEMMA MemoryTyped ==
  ASSUME TypeOK, NEW p \in Pids
  PROVE  sequence[p] \in Nat /\ current[p] \in Stages
BY DEF TypeOK

\* A committed transition extends the chain by the next number.
LEMMA RecordExtends ==
  ASSUME ChainInv, TypeOK', NEW p \in Pids, NEW to \in Stages,
         Recording(p), Record(p, to),
         NEW next \in {"work", "release", "none"}, pc' = [pc EXCEPT ![p] = next]
  PROVE  ChainInv'
<1>0. PICK r \in Runs : r = job[p]
  BY DEF ChainInv, TypeOK
<1> DEFINE n == Len(log[r])
           row == [seq |-> sequence[p] + 1, from |-> current[p], to |-> to]
<1>1. /\ r \in Runs /\ log[r] \in Seq(LogRow) /\ n \in Nat
      /\ sequence[p] \in Nat /\ stage[r] \in Nat
  BY RunLockAssumption DEF ChainInv, TypeOK
<1>2. BehindTheLog(p) /\ ChainOf(r)
  BY <1>0, <1>1 DEF ChainInv, Recording, Alive
<1>3. sequence[p] = n
  <2>1. DOMAIN log[r] = 1..n
    BY <1>1
  <2>2. \A i \in 1..n : log[r][i].seq = i
    BY <1>2, <2>1 DEF ChainOf, IsChain
  <2>3. \A i \in 1..n : log[r][i].seq # sequence[p] + 1
    BY <1>0, <2>1 DEF Record, SequenceTaken
  <2>4. sequence[p] + 1 \notin 1..n
    BY <2>2, <2>3
  <2> QED
    BY <1>0, <1>1, <1>2, <2>4 DEF BehindTheLog
<1>4. current[p] = stage[r] /\ stage[r] = LastState(log[r])
  BY <1>0, <1>2, <1>3 DEF BehindTheLog, ChainOf, Recording
<1>5. /\ log'[r] = Append(log[r], row) /\ stage'[r] = to
      /\ \A s \in Runs \ {r} : log'[s] = log[s] /\ stage'[s] = stage[s]
  BY <1>0, <1>1 DEF Record, ChainInv, TypeOK
<1>6. Len(log'[r]) = n + 1
  BY <1>1, <1>5
<1>7. ChainOf(r)'
  <2>1. row \in LogRow
    <3>1. sequence[p] + 1 \in Nat /\ current[p] \in Stages
      BY MemoryTyped DEF ChainInv
    <3> QED
      BY <3>1 DEF LogRow
  <2>2. IsChain(log'[r]) /\ LastState(log'[r]) = to
    BY <1>1, <1>2, <1>3, <1>4, <1>5, <2>1, ChainGrows DEF ChainOf
  <2> QED
    BY <1>5, <2>2 DEF ChainOf, IsChain, LastState
<1>8. ASSUME NEW s \in Runs PROVE ChainOf(s)'
  <2>1. CASE s = r
    BY <1>7, <2>1
  <2>2. CASE s # r
    BY <1>5, <2>2 DEF ChainInv, ChainOf, IsChain, LastState
  <2> QED
    BY <2>1, <2>2
<1>9. \A s \in Runs : stage'[s] = 0 => log'[s] = <<>>
  BY <1>5 DEF ChainInv, Stages
<1>10. ASSUME NEW q \in Pids, Alive(q)' PROVE BehindTheLog(q)'
  <2>1. job' = job /\ to > 0
    BY DEF Record, Stages
  <2>2. CASE q = p
    BY <1>0, <1>1, <1>3, <1>5, <1>6, <2>1, <2>2
    DEF Record, BehindTheLog, Recording, ChainInv, TypeOK
  <2>3. CASE q # p
    <3>1. Alive(q) /\ BehindTheLog(q) /\ sequence'[q] = sequence[q]
      BY <1>10, <2>3 DEF ChainInv, TypeOK, Alive, Record
    <3>2. CASE job[q] = r
      BY <1>0, <1>1, <1>5, <1>6, <2>1, <3>1, <3>2 DEF BehindTheLog, ChainInv, TypeOK
    <3>3. CASE job[q] # r
      BY <1>0, <1>5, <1>10, <2>1, <2>3, <3>1, <3>3
      DEF BehindTheLog, Recording, Record, ChainInv, TypeOK
    <3> QED
      BY <3>2, <3>3
  <2> QED
    BY <2>2, <2>3
<1> QED
  BY <1>8, <1>9, <1>10 DEF ChainInv

\* Only a record of a transition touches the log, and it extends the chain.
LEMMA ChainStep ==
  ASSUME ChainInv, [Next]_vars
  PROVE  ChainInv'
<1>1. TypeOK'
  BY TypeStep DEF ChainInv
<1> USE DEF Step, durable
<1>2. ASSUME NEW p \in Pids, NEW r \in Runs, StartRun(p, r)
      PROVE  ChainInv'
  <2>1. /\ stage' = [stage EXCEPT ![r] = 1] /\ stage[r] = 0 /\ log' = log
        /\ log[r] = <<>>
    BY <1>2 DEF StartRun, ChainInv
  <2>2. ASSUME NEW s \in Runs PROVE ChainOf(s)' /\ (stage'[s] = 0 => log'[s] = <<>>)
    <3>1. LastState(<<>>) = 1
      BY DEF LastState
    <3>2. CASE s = r
      BY <2>1, <3>1, <3>2 DEF ChainInv, TypeOK, ChainOf, IsChain, LastState
    <3>3. CASE s # r
      BY <2>1, <3>3 DEF ChainInv, TypeOK, ChainOf, IsChain, LastState
    <3> QED
      BY <3>2, <3>3
  <2>3. ASSUME NEW q \in Pids, Alive(q)' PROVE BehindTheLog(q)'
    <3>1. CASE q = p
      BY <1>2, <2>1, <3>1
      DEF StartRun, Birth, BehindTheLog, Recording, ChainInv, TypeOK
    <3>2. CASE q # p
      <4>1. Alive(q) /\ BehindTheLog(q)
        BY <1>2, <2>3, <3>2 DEF StartRun, Birth, Alive, ChainInv, TypeOK
      <4>2. job[q] # r
        BY <2>1, <4>1 DEF BehindTheLog
      <4> QED
        BY <1>2, <2>1, <3>2, <4>1, <4>2
        DEF StartRun, Birth, BehindTheLog, Recording, ChainInv, TypeOK
    <3> QED
      BY <3>1, <3>2
  <2> QED
    BY <1>1, <2>2, <2>3 DEF ChainInv
<1>3. ASSUME NEW p \in Pids, NEW r \in Runs, StartResume(p, r)
      PROVE  ChainInv'
  <2>1. BehindTheLog(p)'
    BY <1>3
    DEF StartResume, Active, Stages, Birth, BehindTheLog, Recording, ChainInv,
        TypeOK
  <2> QED
    BY <1>1, <1>3, <2>1, NothingRecorded DEF StartResume, Birth, ChainInv, TypeOK
<1>4. ASSUME NEW p \in Pids, Alive(p),
             NEW to \in Locations \ {"record", "record_rejection"},
             pc' = [pc EXCEPT ![p] = to],
             UNCHANGED <<stage, log, job, current, sequence>>
      PROVE  ChainInv'
  <2>1. BehindTheLog(p)'
    BY <1>4 DEF BehindTheLog, Recording, ChainInv, TypeOK
  <2> QED
    BY <1>1, <1>4, <2>1, NothingRecorded DEF ChainInv, TypeOK
<1>5. ASSUME NEW p \in Pids, ProcessStep(p) PROVE ChainInv'
  <2>0. Alive(p) /\ BehindTheLog(p)
    BY <1>5
    DEF ProcessStep, ResumeOwner, RunSelect, ResumeSelect, Insert, Steal, Begin,
        CheckState, Abandon, RecordTransition, RecordRejection,
        SequenceConflict, Interrupt, Release, Alive, ChainInv
  <2>1. CASE \/ ResumeOwner(p) \/ RunSelect(p) \/ ResumeSelect(p) \/ Insert(p)
             \/ Steal(p) \/ SequenceConflict(p) \/ Interrupt(p) \/ Release(p)
    BY <1>4, <2>0, <2>1
    DEF ResumeOwner, RunSelect, ResumeSelect, Insert, Steal, SequenceConflict,
        Abandon, Interrupt, Release, Locations
  <2>2. CASE Begin(p)
    <3>1. BehindTheLog(p)'
      BY <2>0, <2>2 DEF Begin, BehindTheLog, Recording, ChainInv, TypeOK
    <3> QED
      BY <1>1, <2>2, <3>1, NothingRecorded DEF Begin, ChainInv, TypeOK
  <2>3. CASE CheckState(p)
    <3>1. CASE DurableStateExpected(p)
      <4>1. \E to \in Locations : pc' = [pc EXCEPT ![p] = to]
        BY <2>3, <3>1 DEF CheckState, Locations
      <4>2. BehindTheLog(p)'
        BY <2>0, <2>3, <3>1, <4>1
        DEF CheckState, DurableStateExpected, BehindTheLog, Recording
      <4> QED
        BY <1>1, <2>3, <4>1, <4>2, NothingRecorded
        DEF CheckState, ChainInv, TypeOK
    <3>2. CASE ~DurableStateExpected(p)
      BY <1>4, <2>0, <2>3, <3>2 DEF CheckState, Abandon, Locations
    <3> QED
      BY <3>1, <3>2
  <2>4. CASE RecordTransition(p)
    BY <1>1, <2>4, RecordExtends DEF RecordTransition, Recording
  <2>5. CASE RecordRejection(p)
    <3>1. LastStage \in Stages
      BY RunLockAssumption DEF Stages
    <3> QED
      BY <1>1, <2>5, <3>1, RecordExtends DEF RecordRejection, Recording
  <2> QED
    BY <1>5, <2>1, <2>2, <2>3, <2>4, <2>5 DEF ProcessStep
<1>6. ASSUME NEW p \in Pids, Crash(p) PROVE ChainInv'
  BY <1>4, <1>6 DEF Crash, Locations
<1>7. CASE UNCHANGED vars
  BY <1>1, <1>7
  DEF vars, process, ChainInv, ChainOf, IsChain, LastState, BehindTheLog,
      Recording, Alive
<1> QED
  BY <1>2, <1>3, <1>5, <1>6, <1>7 DEF Next, Quiet

\* The recorded transitions of every run are one chain that ends in its state,
\* even when forced resumes of the same run work at the same time: nobody needs
\* the lock for that.
THEOREM TransitionsAreLinear == Spec => []TransitionsFormAChain
<1>1. ChainInv => TransitionsFormAChain
  BY DEF ChainInv, ChainOf, TransitionsFormAChain
<1> QED
  BY <1>1, ChainInit, ChainStep, PTL DEF Spec
-----------------------------------------------------------------------------
(***************************************************************************)
(* How a lock is lost                                                      *)
(***************************************************************************)
\* A process takes over once in its life, and before that has no audit record.
AuditInv ==
  /\ \A owner \in steals : owner.start <= started[owner.pid]
  /\ \A p \in Pids :
       pc[p] \in {"resume_owner", "resume_select", "steal"} => Owner(p) \notin steals

LEMMA AuditBirth ==
  ASSUME TypeOK, AuditInv, NEW p \in Pids, NEW r \in Runs,
         NEW first \in {"run_select", "resume_owner"},
         Birth(p, r, first), UNCHANGED steals
  PROVE  AuditInv'
<1>1. started[p] \in Nat /\ started' = [started EXCEPT ![p] = @ + 1]
  BY RunLockAssumption DEF TypeOK, Birth
<1>2. \A owner \in steals : owner.start \in Nat /\ owner.pid \in Pids
  BY RunLockAssumption DEF TypeOK, Owners
<1>3. \A owner \in steals : owner.start <= started'[owner.pid]
  BY <1>1, <1>2 DEF AuditInv, TypeOK
<1>4. Owner(p)' \notin steals
  <2>1. Owner(p)'.start = started[p] + 1 /\ Owner(p)'.pid = p
    BY <1>1 DEF Owner, TypeOK
  <2>2. \A owner \in steals : owner.pid = p => owner.start <= started[p]
    BY DEF AuditInv
  <2> QED
    BY <1>1, <1>2, <2>1, <2>2
<1>5. ASSUME NEW q \in Pids, q # p,
             pc'[q] \in {"resume_owner", "resume_select", "steal"}
      PROVE  Owner(q)' \notin steals
  BY <1>1, <1>5 DEF AuditInv, Owner, Birth, TypeOK
<1> QED
  BY <1>3, <1>4, <1>5 DEF AuditInv

LEMMA AuditStep == TypeOK /\ AuditInv /\ [Next]_vars => AuditInv'
<1> SUFFICES ASSUME TypeOK, AuditInv, [Next]_vars PROVE AuditInv'
  OBVIOUS
<1>1. ASSUME NEW p \in Pids, NEW r \in Runs, StartRun(p, r) \/ StartResume(p, r)
      PROVE  AuditInv'
  BY <1>1, AuditBirth DEF StartRun, StartResume, durable
<1>2. ASSUME NEW p \in Pids, Steal(p) PROVE AuditInv'
  <2>1. started[p] \in Nat /\ Owner(p).start = started[p] /\ Owner(p).pid = p
    BY RunLockAssumption DEF Owner, TypeOK
  <2>2. \A owner \in steals' : owner.start <= started'[owner.pid]
    BY <1>2, <2>1 DEF Steal, AuditInv
  <2>3. ASSUME NEW q \in Pids,
               pc'[q] \in {"resume_owner", "resume_select", "steal"}
        PROVE  Owner(q)' \notin steals'
    <3>1. q # p /\ pc'[q] = pc[q]
      BY <1>2, <2>3 DEF Steal, Step, TypeOK
    <3>2. Owner(q)' = Owner(q) /\ Owner(q) # Owner(p)
      BY <1>2, <3>1, OwnerNamesItsPid DEF Steal, Owner
    <3> QED
      BY <1>2, <2>3, <3>1, <3>2 DEF Steal, AuditInv
  <2> QED
    BY <2>2, <2>3 DEF AuditInv
<1>3. ASSUME NEW p \in Pids, (ProcessStep(p) /\ ~Steal(p)) \/ Crash(p)
      PROVE  AuditInv'
  <2>1. UNCHANGED <<steals, started, job>>
    BY <1>3
    DEF ProcessStep, Crash, ResumeOwner, RunSelect, ResumeSelect, Insert, Begin,
        CheckState, RecordTransition, RecordRejection, Record, SequenceConflict,
        Interrupt, Release, durable
  <2>2. \E from, to :
          /\ pc[p] = from /\ pc' = [pc EXCEPT ![p] = to]
          /\ to \in {"resume_owner", "resume_select", "steal"}
               => from \in {"resume_owner", "resume_select", "steal"}
    BY <1>3
    DEF ProcessStep, Crash, ResumeOwner, RunSelect, ResumeSelect, Insert, Begin,
        CheckState, RecordTransition, RecordRejection, SequenceConflict,
        Interrupt, Release, Step, Abandon
  <2> QED
    BY <2>1, <2>2 DEF AuditInv, Owner, TypeOK
<1>4. CASE UNCHANGED vars
  BY <1>4 DEF vars, durable, process, AuditInv, Owner
<1> QED
  BY <1>1, <1>2, <1>3, <1>4 DEF Next, Quiet

\* Whoever forces, and however many: a row of the lock disappears only when its
\* own process, alive and in its finally clause, deletes it, or together with a
\* new audit record of the process that takes it over.
THEOREM LockIsLostInOneOfTwoWays == Spec => LockLostByOwnerOrAudit
<1>1. Init => AuditInv
  BY DEF Init, AuditInv
<1>2. TypeOK /\ AuditInv /\ [Next]_vars
        => [\A owner \in lock \ lock' :
              \/ OwnerAlive(owner) /\ pc[owner.pid] = "release"
              \/ lock' # {} /\ lock' \subseteq steals' \ steals]_vars
  <2> SUFFICES ASSUME TypeOK, AuditInv, Next, NEW owner \in lock \ lock'
               PROVE  \/ OwnerAlive(owner) /\ pc[owner.pid] = "release"
                      \/ lock' # {} /\ lock' \subseteq steals' \ steals
    BY DEF vars, durable
  <2>1. PICK p \in Pids : Steal(p) \/ Release(p)
    BY DEF Next, Quiet, StartRun, StartResume, ProcessStep, Crash, ResumeOwner,
           RunSelect, ResumeSelect, Insert, Begin, CheckState, RecordTransition,
           RecordRejection, Record, SequenceConflict, Interrupt, durable, vars
  <2>2. CASE Steal(p)
    BY <2>2 DEF Steal, Step, AuditInv
  <2>3. CASE Release(p)
    <3>1. owner = Owner(p) /\ pc[p] = "release" /\ Alive(p)
      BY <2>3 DEF Release, Step, Alive
    <3> QED
      BY <3>1, LiveOwner DEF Owner
  <2> QED
    BY <2>1, <2>2, <2>3
<1> QED
  BY <1>1, <1>2, TypeInit, TypeStep, AuditStep, PTL DEF Spec, LockLostByOwnerOrAudit
=============================================================================
