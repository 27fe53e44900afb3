------------------------------ MODULE Supervision ------------------------------
(***************************************************************************)
(* One call of ProcessSupervisor.run (process/supervisor.py), with the     *)
(* owner of the process tree it starts: on POSIX a watchdog that leads the *)
(* process group (process/posix.py, process/posix_watchdog.py), on Windows *)
(* a Job Object with taskkill as the fallback (process/windows.py).        *)
(*                                                                         *)
(* Time is a choice: a deadline may pass at any step, except that the      *)
(* total timeout, once passed, stays passed.  A look of the watchdog at    *)
(* its group is a run of ps, which is not atomic: a process that lives     *)
(* throughout the look is listed, one born or gone during it may be or not.*)
(***************************************************************************)
EXTENDS Naturals, FiniteSets

CONSTANTS
  Kids,       \* the processes the command can come to start, it or others
  Platforms   \* the platforms the call can run on

Child == "child"
Members == Kids \cup {Child}

ASSUME SupervisionAssumption ==
  /\ Child \notin Kids
  /\ Platforms \subseteq {"posix", "windows"}

VARIABLES
  platform,
  pc,        \* where the controller is in run
  expired,   \* total_timeout_seconds have passed
  job,       \* Windows: the controller holds a Job Object
  \* the watchdog
  wpc,       \* where it is in main
  empty,     \* empty_group_observations
  view,      \* the members which the running look is bound to list
  \* the process tree, without the watchdog
  born,      \* the processes that have ever been started
  alive,     \* those that live
  inside,    \* those in the process group, or in the Job Object
  \* history
  missed,    \* consecutive looks that overlooked a living member
  blind      \* a KILL was left out for want of an identity to compare

controller == <<pc, expired, job>>
watchdog == <<wpc, empty, view, missed>>
family == <<born, alive, inside>>
supervision == <<platform, controller, watchdog, family, blind>>

Posix == platform = "posix"
Owned == alive \cap inside     \* what a signal to the group or job reaches

\* process.poll() is not None: the watchdog, or the command itself, has ended.
RootGone == IF Posix THEN wpc = "gone" ELSE Child \notin alive

InCall == {"spawn", "attach", "watch", "signal", "grace", "kill", "wait", "join", "close"}

SupervisionTypeOK ==
  /\ platform \in Platforms
  /\ pc \in InCall \cup {"returned", "raised", "dead"}
  /\ wpc \in {"none", "start", "armed", "loop", "look", "parent", "gone"}
  /\ expired \in BOOLEAN /\ job \in BOOLEAN /\ blind \in BOOLEAN
  /\ empty \in 0..2 /\ missed \in 0..empty
  /\ born \subseteq Members /\ alive \subseteq born /\ inside \subseteq born
  /\ view \subseteq born

SupervisionInit ==
  /\ platform \in Platforms
  /\ pc = "spawn" /\ expired = FALSE /\ job = FALSE
  /\ wpc = "none" /\ empty = 0 /\ view = {} /\ missed = 0
  /\ born = {} /\ alive = {} /\ inside = {}
  /\ blind = FALSE

-----------------------------------------------------------------------------
(* Signals *)

Die(S) == alive' = alive \ S /\ UNCHANGED <<born, inside>>

\* SIGTERM to the group: a member may trap it; the watchdog does from the
\* moment its handler is installed.
Term ==
  /\ \E S \in SUBSET Owned : Die(S)
  /\ wpc' = IF wpc = "start" THEN "gone" ELSE wpc

\* SIGKILL to the group.
KillGroup == Die(Owned) /\ wpc' = "gone"

\* The job ends with all in it.  taskkill /T /F may fail, and finds only what
\* still hangs together from the command down.
EndJobOrTaskkill ==
  /\ IF job THEN Die(Owned) ELSE \E S \in SUBSET alive : Die(S)
  /\ UNCHANGED wpc

\* _signal_owned_group leaves the signal out if it cannot read the identity.
Kill ==
  \/ Posix /\ KillGroup /\ UNCHANGED blind
  \/ Posix /\ blind' = TRUE /\ UNCHANGED <<wpc, family>>
  \/ ~Posix /\ EndJobOrTaskkill /\ UNCHANGED blind

-----------------------------------------------------------------------------
(* The controller *)

Goto(from, to) == pc = from /\ pc' = to

\* Popen of the watchdog or of the command; the Job Object is made before.
Spawn ==
  /\ IF Posix
     THEN /\ wpc' = "start"
          /\ UNCHANGED <<family, job>>
     ELSE /\ born' = {Child} /\ alive' = {Child} /\ UNCHANGED inside
          /\ job' \in BOOLEAN
          /\ UNCHANGED wpc
  /\ Goto("spawn", "attach")
  /\ UNCHANGED <<platform, expired, empty, view, missed, blind>>

\* The identity of the watchdog is read, or it cannot be.
AttachPosix ==
  /\ Posix /\ \E to \in {"watch", "raised"} : Goto("attach", to)
  /\ UNCHANGED <<job, inside>>

\* The command joins the job, without the processes it has started; if it
\* cannot, the job is given up.
AttachWindows ==
  /\ ~Posix /\ Goto("attach", "watch")
  /\ \/ job /\ Child \in alive /\ inside' = {Child} /\ UNCHANGED job
     \/ job' = FALSE /\ UNCHANGED inside

Attach ==
  /\ AttachPosix \/ AttachWindows
  /\ UNCHANGED <<platform, expired, watchdog, born, alive, blind>>

\* The loop over poll(): the loop detector, the cancel file and the startup
\* and inactivity timeouts may end it at any time, the total timeout must.
Watch ==
  /\ \/ RootGone /\ Goto("watch", "join")
     \/ ~RootGone /\ Goto("watch", "signal")
  /\ UNCHANGED <<platform, expired, job, watchdog, family, blind>>

\* (mutant) The total timeout ends nothing.
StopWhenGone == RootGone

\* Without one of these the loop may go on.
MustStop == RootGone \/ expired

Expire ==
  /\ pc = "watch" /\ ~expired /\ expired' = TRUE
  /\ UNCHANGED <<platform, pc, job, watchdog, family, blind>>

\* controller.terminate, unless the process has ended meanwhile.
Signal ==
  /\ IF RootGone
     THEN Goto("signal", "join") /\ UNCHANGED <<wpc, family>>
     ELSE /\ Goto("signal", "grace")
          /\ \/ Posix /\ Term
             \/ Posix /\ UNCHANGED <<wpc, family>>     \* identity unreadable
             \/ ~Posix /\ EndJobOrTaskkill
  /\ UNCHANGED <<platform, expired, job, empty, view, missed, blind>>

\* graceful_shutdown_seconds: the process ends, or the deadline passes.
Grace ==
  /\ Goto("grace", IF RootGone THEN "join" ELSE "kill")
  /\ UNCHANGED <<platform, expired, job, watchdog, family, blind>>

\* controller.kill.
HardKill ==
  /\ Goto("kill", "wait") /\ Kill
  /\ UNCHANGED <<platform, expired, job, empty, view, missed>>

\* process.wait; if it times out, process.kill ends the root alone.
Wait ==
  /\ Goto("wait", "join")
  /\ IF RootGone THEN UNCHANGED <<wpc, family>>
     ELSE IF Posix THEN wpc' = "gone" /\ UNCHANGED family
     ELSE Die({Child}) /\ UNCHANGED wpc
  /\ UNCHANGED <<platform, expired, job, empty, view, missed, blind>>

\* The reader threads are joined for a second each, at most.
Join ==
  /\ Goto("join", "close")
  /\ UNCHANGED <<platform, expired, job, watchdog, family, blind>>

\* controller.close: the kill-on-close of the job.
Close ==
  /\ Goto("close", "returned")
  /\ IF job THEN Die(Owned) ELSE UNCHANGED family
  /\ job' = FALSE
  /\ UNCHANGED <<platform, expired, watchdog, blind>>

\* An exception or an interrupt leaves run without ending the tree.
Raise ==
  /\ pc \in InCall \ {"spawn"} /\ pc' = "raised"
  /\ UNCHANGED <<platform, expired, job, watchdog, family, blind>>

\* The controller process ends; the system closes its handle of the job.
ControllerDies ==
  /\ pc \in (InCall \ {"spawn"}) \cup {"raised"} /\ pc' = "dead"
  /\ IF job THEN Die(Owned) ELSE UNCHANGED family
  /\ job' = FALSE
  /\ UNCHANGED <<platform, expired, watchdog, blind>>

Controller ==
  \/ Spawn \/ Attach \/ Watch \/ Signal \/ Grace \/ HardKill \/ Wait \/ Join \/ Close

-----------------------------------------------------------------------------
(* The watchdog *)

WatchdogArm ==
  /\ wpc = "start" /\ wpc' = "armed"
  /\ UNCHANGED <<platform, controller, empty, view, missed, family, blind>>

\* Popen of the command, which may fail.
WatchdogLaunch ==
  /\ wpc = "armed"
  /\ \/ /\ wpc' = "loop"
        /\ born' = {Child} /\ alive' = {Child} /\ inside' = {Child}
     \/ wpc' = "gone" /\ UNCHANGED family
  /\ UNCHANGED <<platform, controller, empty, view, missed, blind>>

\* child.poll(), and the start of _group_has_other_members.
WatchdogPoll ==
  /\ wpc = "loop"
  /\ IF Child \in alive
     THEN wpc' = "parent" /\ UNCHANGED view
     ELSE wpc' = "look" /\ view' = Owned
  /\ UNCHANGED <<platform, controller, empty, missed, family, blind>>

\* (mutant) One empty look is enough.
OneLook == 1

\* empty_group_observations >= 2
EnoughLooks == 2

\* The end of the look: another member was listed, or ps failed; or none was.
WatchdogLook ==
  /\ wpc = "look" /\ view' = {}
  /\ \/ wpc' = "parent" /\ empty' = 0 /\ missed' = 0
     \/ /\ view \cap alive = {}
        /\ empty' = empty + 1
        /\ missed' = IF Owned # {} THEN missed + 1 ELSE missed
        /\ wpc' = IF empty' >= EnoughLooks THEN "gone" ELSE "parent"
  /\ UNCHANGED <<platform, controller, family, blind>>

\* (mutant) The parent is looked for only as long as the command runs.
ParentOfChildOnly ==
  /\ wpc = "parent"
  /\ IF pc = "dead" /\ Child \in alive
     THEN KillGroup
     ELSE wpc' = "loop" /\ UNCHANGED family
  /\ UNCHANGED <<platform, controller, empty, view, missed, blind>>

\* The parent is gone, or its identity cannot be read.
WatchdogParent ==
  /\ wpc = "parent"
  /\ \/ KillGroup
     \/ pc # "dead" /\ wpc' = "loop" /\ UNCHANGED family
  /\ UNCHANGED <<platform, controller, empty, view, missed, blind>>

Watchdog == WatchdogArm \/ WatchdogLaunch \/ WatchdogPoll \/ WatchdogLook \/ WatchdogParent

-----------------------------------------------------------------------------
(* The process tree *)

\* A process starts another, which is where its parent is.
Fork(p, k) ==
  /\ p \in alive /\ k \in Kids \ born
  /\ born' = born \cup {k} /\ alive' = alive \cup {k}
  /\ inside' = IF p \in inside THEN inside \cup {k} ELSE inside
  /\ UNCHANGED <<platform, controller, watchdog, blind>>

Exit(p) ==
  /\ p \in alive /\ Die({p})
  /\ UNCHANGED <<platform, controller, watchdog, blind>>

\* setsid or setpgid: a process leaves the group.  A job cannot be left.
Escape(p) ==
  /\ Posix /\ p \in Owned /\ inside' = inside \ {p}
  /\ UNCHANGED <<platform, controller, watchdog, born, alive, blind>>

Family ==
  \/ \E p \in Members, k \in Kids : Fork(p, k)
  \/ \E p \in Members : Exit(p)
  \/ \E p \in Members : Escape(p)

-----------------------------------------------------------------------------
SupervisionNext ==
  Controller \/ Watchdog \/ Family \/ Expire \/ Raise \/ ControllerDies

SupervisionSpec == SupervisionInit /\ [][SupervisionNext]_supervision

\* What a returned call leaves alive has left the group, was never in the job,
\* was overlooked by two looks in a row, or lives because the KILL was left
\* out: every other process of the tree is dead when the next step of the run
\* reads the worktree.
ReturnedTreeIsDead ==
  pc = "returned" => Owned = {} \/ missed >= 2 \/ blind

=============================================================================
