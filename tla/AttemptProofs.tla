----------------------------- MODULE AttemptProofs -----------------------------
(***************************************************************************)
(* A call that returns leaves nothing alive that it owns, for every set of *)
(* processes the command may start and on both platforms; and over all the *)
(* invocations of an attempt each begins on the worktree the attempt was   *)
(* given.  The argument for the first: a watchdog ends of itself only      *)
(* after two looks which were both empty or both mistaken, and otherwise   *)
(* its end is the end of the group.                                        *)
(***************************************************************************)
EXTENDS Attempt, TLAPS

-----------------------------------------------------------------------------
(***************************************************************************)
(* One supervised call                                                     *)
(***************************************************************************)
\* Before the command is launched there is nothing to own.
NothingYet ==
  /\ wpc \in {"none", "start", "armed"} /\ Posix => born = {} /\ empty = 0
  /\ pc = "spawn" => born = {} /\ wpc = "none" /\ ~job
  /\ ~Posix => wpc = "none"
  /\ Posix => ~job

\* The looks of the watchdog, and how it ends.
LooksCount ==
  /\ wpc # "gone" => empty < 2
  /\ Posix /\ Owned # {} => missed = empty
  /\ wpc = "gone" /\ Owned # {} => missed >= 2 \/ blind

\* What the controller knows at each of its steps.
ControllerKnows ==
  /\ Posix /\ pc = "wait" => wpc = "gone" \/ blind
  /\ Posix /\ pc \in {"join", "close", "returned"} => wpc = "gone"
  /\ pc = "returned" => ~job

\* Without a job nothing is inside one.
JobOwns ==
  /\ ~Posix /\ ~job => Owned = {}
  /\ ~Posix /\ pc = "attach" => inside = {}

Inv == SupervisionTypeOK /\ NothingYet /\ LooksCount /\ ControllerKnows /\ JobOwns

LEMMA InitInv == SupervisionInit => Inv
<1> SUFFICES ASSUME SupervisionInit PROVE Inv
  OBVIOUS
<1> USE DEF SupervisionInit, Owned, Posix
<1>1. SupervisionTypeOK
  <2>1. empty \in 0..2 /\ missed \in 0..empty
    OBVIOUS
  <2>2. expired \in BOOLEAN /\ job \in BOOLEAN /\ blind \in BOOLEAN
    BY Zenon
  <2>3. QED BY <2>1, <2>2 DEF SupervisionTypeOK, InCall
<1>2. NothingYet /\ ControllerKnows /\ JobOwns
  BY DEF NothingYet, ControllerKnows, JobOwns
<1>3. LooksCount
  BY DEF LooksCount
<1>4. QED BY <1>1, <1>2, <1>3 DEF Inv

\* A step of the processes can end a member or bring one in only beside one
\* that is already there.
LEMMA FamilyKeepsInv == Inv /\ Family => Inv'
<1> SUFFICES ASSUME Inv, Family PROVE Inv'
  OBVIOUS
<1> USE DEF Inv, SupervisionTypeOK, NothingYet, LooksCount, ControllerKnows, JobOwns,
            Owned, Posix, InCall, controller, watchdog
<1>1. ASSUME NEW p \in Members, NEW k \in Kids, Fork(p, k) PROVE Inv'
  <2>1. Child \in Members /\ k \in Members
    BY DEF Members
  <2>2. Owned' # {} => Owned # {}
    BY <1>1 DEF Fork
  <2>3. QED BY <1>1, <2>1, <2>2 DEF Fork
<1>2. ASSUME NEW p \in Members, Exit(p) PROVE Inv'
  BY <1>2 DEF Exit, Die
<1>3. ASSUME NEW p \in Members, Escape(p) PROVE Inv'
  BY <1>3 DEF Escape
<1>4. QED BY <1>1, <1>2, <1>3 DEF Family

LEMMA WatchdogKeepsInv == Inv /\ Watchdog => Inv'
<1> SUFFICES ASSUME Inv, Watchdog PROVE Inv'
  OBVIOUS
<1> USE DEF Inv, SupervisionTypeOK, NothingYet, LooksCount, ControllerKnows, JobOwns,
            Owned, Posix, InCall, controller, family
<1>1. CASE WatchdogArm
  BY <1>1 DEF WatchdogArm
<1>2. CASE WatchdogLaunch
  BY <1>2 DEF WatchdogLaunch, Members
<1>3. CASE WatchdogPoll
  BY <1>3 DEF WatchdogPoll
<1>4. CASE WatchdogLook
  <2>1. CASE wpc' = "parent" /\ empty' = 0 /\ missed' = 0
    <3>1. Posix /\ empty \in 0..2
      BY <1>4 DEF WatchdogLook
    <3>2. QED BY <1>4, <2>1, <3>1 DEF WatchdogLook
  <2>2. CASE /\ empty' = empty + 1
             /\ missed' = IF Owned # {} THEN missed + 1 ELSE missed
             /\ wpc' = IF empty' >= EnoughLooks THEN "gone" ELSE "parent"
    <3>1. Posix /\ empty \in {0, 1} /\ missed \in 0..empty
      BY <1>4 DEF WatchdogLook
    <3>2. empty' \in 0..2 /\ missed' \in 0..empty'
      BY <2>2, <3>1
    <3>3. Owned # {} => missed' = empty'
      BY <2>2, <3>1
    <3>4. QED BY <1>4, <2>2, <3>1, <3>2, <3>3 DEF WatchdogLook, EnoughLooks
  <2>3. QED BY <1>4, <2>1, <2>2 DEF WatchdogLook
<1>5. CASE WatchdogParent
  <2>1. CASE KillGroup
    BY <1>5, <2>1 DEF WatchdogParent, KillGroup, Die
  <2>2. CASE wpc' = "loop" /\ UNCHANGED family
    BY <1>5, <2>2 DEF WatchdogParent
  <2>3. QED BY <1>5, <2>1, <2>2 DEF WatchdogParent
<1>6. QED BY <1>1, <1>2, <1>3, <1>4, <1>5 DEF Watchdog

LEMMA ControllerKeepsInv == Inv /\ Controller => Inv'
<1> SUFFICES ASSUME Inv, Controller PROVE Inv'
  OBVIOUS
<1> USE DEF Inv, SupervisionTypeOK, NothingYet, LooksCount, ControllerKnows, JobOwns,
            Owned, Posix, InCall, Goto, watchdog, family
<1>1. CASE Spawn
  BY <1>1 DEF Spawn, Members
<1>2. CASE Attach
  <2>1. CASE Posix /\ \E to \in {"watch", "raised"} : Goto("attach", to)
    BY <1>2, <2>1 DEF Attach, AttachPosix, AttachWindows
  <2>2. CASE ~Posix /\ inside' = {Child} /\ job
    BY <1>2, <2>2 DEF Attach, AttachPosix, AttachWindows
  <2>3. CASE ~Posix /\ job' = FALSE /\ inside' = inside
    BY <1>2, <2>3 DEF Attach, AttachPosix, AttachWindows
  <2>4. QED BY <1>2, <2>1, <2>2, <2>3 DEF Attach, AttachPosix, AttachWindows
<1>3. CASE Watch
  BY <1>3 DEF Watch, RootGone
<1>4. CASE Signal
  <2>1. CASE RootGone
    BY <1>4, <2>1 DEF Signal, RootGone
  <2>2. CASE ~RootGone /\ Posix /\ Term
    BY <1>4, <2>2 DEF Signal, RootGone, Term, Die
  <2>3. CASE ~RootGone /\ UNCHANGED <<wpc, family>>
    BY <1>4, <2>3 DEF Signal
  <2>4. CASE ~RootGone /\ ~Posix /\ EndJobOrTaskkill
    BY <1>4, <2>4 DEF Signal, EndJobOrTaskkill, Die
  <2>5. QED BY <1>4, <2>1, <2>2, <2>3, <2>4 DEF Signal
<1>5. CASE Grace
  BY <1>5 DEF Grace, RootGone
<1>6. CASE HardKill
  BY <1>6 DEF HardKill, Kill, KillGroup, EndJobOrTaskkill, Die
<1>7. CASE Wait
  BY <1>7 DEF Wait, RootGone, Die
<1>8. CASE Join
  BY <1>8 DEF Join
<1>9. CASE Close
  BY <1>9 DEF Close, Die
<1>10. QED BY <1>1, <1>2, <1>3, <1>4, <1>5, <1>6, <1>7, <1>8, <1>9 DEF Controller

LEMMA NextInv == Inv /\ [SupervisionNext]_supervision => Inv'
<1> SUFFICES ASSUME Inv, [SupervisionNext]_supervision PROVE Inv'
  OBVIOUS
<1>1. CASE Controller \/ Watchdog \/ Family
  BY <1>1, ControllerKeepsInv, WatchdogKeepsInv, FamilyKeepsInv
<1> USE DEF Inv, SupervisionTypeOK, NothingYet, LooksCount, ControllerKnows, JobOwns,
            Owned, Posix, InCall, watchdog, family
<1>2. CASE Expire
  BY <1>2 DEF Expire
<1>3. CASE Raise
  BY <1>3 DEF Raise
<1>4. CASE ControllerDies
  BY <1>4 DEF ControllerDies, Die
<1>5. CASE UNCHANGED supervision
  BY <1>5 DEF supervision, controller
<1>6. QED BY <1>1, <1>2, <1>3, <1>4, <1>5 DEF SupervisionNext

LEMMA SpecInv == SupervisionSpec => []Inv
BY InitInv, NextInv, PTL DEF SupervisionSpec

\* Every state of a call has the declared shape: in particular the watchdog
\* never counts beyond the two looks it needs.
THEOREM SupervisionTypeCorrect == SupervisionSpec => []SupervisionTypeOK
<1>1. Inv => SupervisionTypeOK
  BY DEF Inv
<1>2. QED BY SpecInv, <1>1, PTL

\* However many processes the command starts, and whenever they fork, exit and
\* leave the group, the call of run that returns owns nothing that lives.
THEOREM ReturnedTreeIsDeadHolds == SupervisionSpec => []ReturnedTreeIsDead
<1>1. Inv => ReturnedTreeIsDead
  BY DEF Inv, ReturnedTreeIsDead, LooksCount, ControllerKnows, JobOwns
<1>2. QED BY SpecInv, <1>1, PTL

-----------------------------------------------------------------------------
(***************************************************************************)
(* The invocations of an attempt                                           *)
(***************************************************************************)
\* Before an invocation starts, nothing of it runs, and the worktree is as it
\* was compared, unless there is somebody else to write to it.
Unstarted ==
  apc = "prepare" \/ (apc = "call" /\ pc = "spawn") =>
    /\ alive = {} /\ wpc = "none"
    /\ worktree = Initial \/ strays

\* The supervisor has nothing to do before it is called.
Uncalled == apc = "prepare" => pc = "spawn"

AInv == Inv /\ Unstarted /\ Uncalled /\ FallbackOnUntouched

LEMMA AttemptInitInv == Init => AInv
<1> SUFFICES ASSUME Init PROVE AInv
  OBVIOUS
<1>1. Inv
  BY InitInv DEF Init
<1>2. Unstarted /\ Uncalled /\ FallbackOnUntouched
  BY DEF Init, SupervisionInit, Unstarted, Uncalled, FallbackOnUntouched
<1>3. QED BY <1>1, <1>2 DEF AInv

\* Supervision starts anew with the next invocation.
LEMMA FallbackKeepsInv == AInv /\ Fallback => AInv'
<1> SUFFICES ASSUME AInv, Fallback PROVE AInv'
  OBVIOUS
<1>1. platform' \in Platforms
  BY DEF AInv, Inv, SupervisionTypeOK, Fallback
<1>2. SupervisionInit'
  BY <1>1 DEF Fallback, SupervisionInit
<1>3. SupervisionInit' => Inv'
  BY InitInv, PTL
<1>4. Inv'
  BY <1>2, <1>3
<1>5. Unstarted' /\ Uncalled' /\ FallbackOnUntouched'
  BY DEF AInv, Fallback, Unstarted, Uncalled, FallbackOnUntouched, Untouched
<1>6. QED BY <1>4, <1>5 DEF AInv

LEMMA AttemptNextInv == AInv /\ [Next]_vars => AInv'
<1> SUFFICES ASSUME AInv, [Next]_vars PROVE AInv'
  OBVIOUS
<1> USE DEF AInv, FallbackOnUntouched, attempt
<1>1. CASE Fallback
  BY <1>1, FallbackKeepsInv
<1>2. CASE Supervise
  <2>1. Inv'
    BY <1>2, NextInv DEF Supervise
  <2>2. pc' # "spawn"
    BY <1>2 DEF Supervise, SupervisionNext, Controller, Spawn, Attach, AttachPosix,
           AttachWindows, Watch, Signal, Grace,
           HardKill, Wait, Join, Close, Goto, Watchdog, WatchdogArm, WatchdogLaunch,
           WatchdogPoll, WatchdogLook, WatchdogParent, Family, Fork, Exit, Escape, Expire,
           Raise, ControllerDies, controller
  <2>3. QED BY <1>2, <2>1, <2>2 DEF Supervise, Unstarted, Uncalled
<1>3. CASE Aftermath
  <2>1. Inv'
    BY <1>3, WatchdogKeepsInv, FamilyKeepsInv DEF Aftermath
  <2>2. apc = "prepare" => ~Watchdog /\ ~Family
    BY DEF Unstarted, Uncalled, Watchdog, WatchdogArm, WatchdogLaunch, WatchdogPoll, WatchdogLook,
           WatchdogParent, Family, Fork, Exit, Escape, Owned
  <2>3. QED BY <1>3, <2>1, <2>2 DEF Aftermath, Unstarted, Uncalled
<1>4. CASE Launch
  <2>1. Inv'
    BY <1>4, NextInv DEF Launch, SupervisionNext, Controller
  <2>2. pc = "spawn" /\ pc' = "attach"
    BY <1>4 DEF Launch, Spawn, Goto
  <2>3. QED BY <1>4, <2>1, <2>2 DEF Launch, Unstarted, Uncalled
<1>5. CASE UNCHANGED supervision /\ ~Fallback
  <2>1. Inv'
    BY <1>5, NextInv
  <2>2. CASE Prepare
    BY <1>5, <2>1, <2>2 DEF Prepare, supervision, controller, watchdog, family, Unstarted, Uncalled
  <2>3. CASE Write
    <3>1. pc' = pc /\ alive' = alive /\ wpc' = wpc
      BY <1>5 DEF supervision, controller, watchdog, family
    <3>2. Unstarted'
      BY <2>3, <3>1 DEF Write, Unstarted
    <3>3. QED BY <2>1, <2>3, <3>1, <3>2 DEF Write, Uncalled
  <2>4. CASE CallReturns \/ CallFails \/ TakeResult
    BY <1>5, <2>1, <2>4 DEF CallReturns, CallFails, TakeResult, Unstarted, Uncalled
  <2>5. CASE Launch
    BY <1>4, <2>5
  <2>6. CASE Supervise
    BY <1>2, <2>6
  <2>7. CASE Aftermath
    BY <1>3, <2>7
  <2>8. CASE UNCHANGED vars
    BY <2>1, <2>8 DEF vars, supervision, controller, watchdog, family, Unstarted, Uncalled
  <2>9. QED BY <1>5, <2>2, <2>3, <2>4, <2>5, <2>6, <2>7, <2>8 DEF Next, Ended
<1>6. Next /\ ~Fallback /\ ~Launch /\ ~Supervise /\ ~Aftermath => UNCHANGED supervision
  BY DEF Next, Prepare, Write, CallReturns, CallFails, TakeResult, Ended, vars
<1>7. QED BY <1>1, <1>2, <1>3, <1>4, <1>5, <1>6 DEF vars

LEMMA AttemptSpecInv == Spec => []AInv
BY AttemptInitInv, AttemptNextInv, PTL DEF Spec

\* Every invocation of an attempt begins on the worktree the attempt was given,
\* or beside a process that an earlier invocation has left behind.
THEOREM FallbackOnUntouchedHolds == Spec => []FallbackOnUntouched
BY AttemptSpecInv, PTL DEF AInv

\* Over every retry of the attempt, a returned call owns nothing that lives.
THEOREM EveryReturnedTreeIsDead == Spec => []ReturnedTreeIsDead
<1>1. AInv => ReturnedTreeIsDead
  BY DEF AInv, Inv, ReturnedTreeIsDead, LooksCount, ControllerKnows, JobOwns
<1>2. QED BY AttemptSpecInv, <1>1, PTL

-----------------------------------------------------------------------------
\* A result is judged when the call that gave it has returned.
Judged == apc \in {"judge", "done"} => pc = "returned"

AttemptTypes ==
  /\ apc \in {"prepare", "call", "judge", "done", "failed"}
  /\ requested \in Efforts /\ turn \in 1..Len(Invocations)
  /\ worktree \in {Initial, "changed"} /\ strays \in BOOLEAN
  /\ launched \in [worktree : {Initial, "changed"}, strays : BOOLEAN]

\* Every attempt has an invocation, and each effort but two has one only.
LEMMA InvocationsAreMany ==
  /\ Len(Invocations) \in Nat /\ Len(Invocations) >= 1
  /\ requested \notin {"max", "ultra"} => Len(Invocations) = 1
<1>1. CASE requested = "max"
  <2>1. Invocations = <<requested>> \o <<"xhigh", "high">>
    BY <1>1 DEF Invocations, EffortFallbacks
  <2> QED
    BY <1>1, <2>1
<1>2. CASE requested = "ultra"
  <2>1. Invocations = <<requested>> \o <<"max", "xhigh", "high">>
    BY <1>2 DEF Invocations, EffortFallbacks
  <2> QED
    BY <1>2, <2>1
<1>3. CASE requested \notin {"max", "ultra"}
  <2>1. Invocations = <<requested>> \o <<>>
    BY <1>3 DEF Invocations, EffortFallbacks
  <2> QED
    BY <1>3, <2>1
<1> QED
  BY <1>1, <1>2, <1>3

LEMMA AttemptTypesInit == Init => AttemptTypes /\ Judged
<1> SUFFICES ASSUME Init PROVE AttemptTypes /\ Judged
  OBVIOUS
<1>1. turn \in 1..Len(Invocations)
  BY InvocationsAreMany DEF Init
<1> QED
  BY <1>1, Zenon DEF Init, AttemptTypes, Judged

LEMMA AttemptTypesNext == AttemptTypes /\ Judged /\ AInv /\ [Next]_vars => AttemptTypes' /\ Judged'
<1> SUFFICES ASSUME AttemptTypes, Judged, AInv, [Next]_vars PROVE AttemptTypes' /\ Judged'
  OBVIOUS
<1>1. requested' = requested => Invocations' = Invocations
  BY DEF Invocations
<1>2. CASE Fallback
  <2>1. turn' \in 1..Len(Invocations)
    BY <1>2, InvocationsAreMany DEF Fallback, EffortLeft, AttemptTypes
  <2>2. strays' \in BOOLEAN
    BY <1>2, Zenon DEF Fallback, AttemptTypes
  <2> QED
    BY <1>1, <1>2, <2>1, <2>2 DEF Fallback, AttemptTypes, Judged
<1>3. CASE Launch
  BY <1>1, <1>3 DEF Launch, AttemptTypes, Judged
<1>4. CASE Supervise
  BY <1>1, <1>4 DEF Supervise, attempt, AttemptTypes, Judged
<1>5. CASE Aftermath
  <2>1. pc' = pc /\ UNCHANGED attempt
    BY <1>5 DEF Aftermath, Watchdog, WatchdogArm, WatchdogLaunch, WatchdogPoll, WatchdogLook,
           WatchdogParent, Family, Fork, Exit, Escape, controller
  <2> QED
    BY <1>1, <2>1 DEF attempt, AttemptTypes, Judged
<1>6. CASE Prepare \/ Write \/ CallReturns \/ CallFails \/ TakeResult \/ UNCHANGED vars
  BY <1>1, <1>6 DEF Prepare, Write, CallReturns, CallFails, TakeResult, vars, supervision,
         controller, attempt, AttemptTypes, Judged
<1> QED
  BY <1>2, <1>3, <1>4, <1>5, <1>6 DEF Next, Ended

LEMMA AttemptTypesHold == Spec => [](AttemptTypes /\ Judged)
BY AttemptSpecInv, AttemptTypesInit, AttemptTypesNext, PTL DEF Spec

\* The variables of an attempt keep their types; no invocation is made for which
\* there is no effort left.
THEOREM AttemptTypeCorrect == Spec => []AttemptTypeOK
<1>1. AInv /\ AttemptTypes => AttemptTypeOK
  BY DEF AInv, Inv, AttemptTypes, AttemptTypeOK
<1> QED
  BY <1>1, AttemptSpecInv, AttemptTypesHold, PTL

\* The next invocation is a new call of the supervisor on the same platform, made
\* after the last one has returned.
NewCall == pc = "returned" /\ platform' = platform /\ SupervisionInit'

\* What an attempt does to processes is what the supervisor does in one call after
\* another: the specification of one call holds between any two fallbacks.
THEOREM AttemptIsSupervised == Spec => [][SupervisionNext \/ NewCall]_supervision
<1>1. ASSUME Judged, AInv, [Next]_vars
      PROVE  [SupervisionNext \/ NewCall]_supervision
  <2>1. CASE Fallback
    <3>1. pc = "returned"
      BY <1>1, <2>1 DEF Fallback, Judged
    <3>2. platform' = platform /\ platform \in Platforms
      BY <1>1, <2>1 DEF Fallback, AInv, Inv, SupervisionTypeOK
    <3> QED
      BY <2>1, <3>1, <3>2 DEF Fallback, NewCall, SupervisionInit
  <2>2. CASE Launch \/ Supervise \/ Aftermath
    BY <2>2 DEF Launch, Supervise, Aftermath, SupervisionNext, Controller
  <2>3. CASE ~(Fallback \/ Launch \/ Supervise \/ Aftermath)
    BY <1>1, <2>3 DEF Next, Prepare, Write, CallReturns, CallFails, TakeResult, Ended, vars
  <2> QED
    BY <2>1, <2>2, <2>3
<1> QED
  BY <1>1, AttemptSpecInv, AttemptTypesHold, PTL DEF Spec

=============================================================================
