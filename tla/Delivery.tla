-------------------------------- MODULE Delivery -------------------------------
(***************************************************************************)
(* What becomes of a candidate: its worktree is created (git/worktree.py), *)
(* exported by a run or a resume of it, which may crash in the middle      *)
(* (git/patch.py), copied by the command export and removed by the command *)
(* cleanup (cli.py), while models and people write to it.                  *)
(*                                                                         *)
(* A content of the worktree is a pair: what it has in place of the tracked*)
(* files of the base, and its untracked files.  The two commands do not act*)
(* on each other's state, so a behaviour has one of them.                  *)
(***************************************************************************)
EXTENDS Naturals, FiniteSets

CONSTANTS
  Tracked,    \* contents of the tracked files
  Untracked,  \* contents of the untracked files
  MaxExports  \* bound: how often an export is begun

Base == "base"
Nothing == "nothing"

ASSUME DeliveryAssumption ==
  /\ Base \in Tracked /\ Nothing \in Untracked /\ MaxExports \in Nat
  /\ "void" \notin Tracked \cup Untracked

Content == Tracked \X Untracked
Original == <<Base, Nothing>>

\* A file that is absent or that a crash has left torn.
Void == "void"

VARIABLES
  command,    \* what is called beside the run: export or cleanup
  active,     \* the run is active
  \* the worktree
  present, worktree, head, owned,
  \* the controller in export: the file it writes next, and its snapshot
  xpc, snapshot, exports,
  \* the directory final of the run, and a copy of it
  final, copied, copy,
  \* cleanup
  cpc, discard,
  \* history: a worktree was never recorded; it was written since cleanup looked;
  \* what cleanup removed without discard
  stranded, meddled, removed

tree == <<present, worktree, head, owned>>
export == <<xpc, snapshot, exports, final>>
copying == <<copied, copy>>
cleaning == <<cpc, discard, meddled, removed>>
vars == <<command, active, tree, export, copying, cleaning, stranded>>

Files == {"patch", "archive", "manifest"}
AllFiles == Files \cup {"checksums"}

Checksums == [patch : Tracked \cup {Void}, archive : Untracked \cup {Void},
              manifest : Content \cup {<<Void, Void>>}]

Directory == [patch : Tracked \cup {Void}, archive : Untracked \cup {Void},
              manifest : Content \cup {<<Void, Void>>}, checksums : Checksums]

Torn == [patch |-> Void, archive |-> Void, manifest |-> <<Void, Void>>,
         checksums |-> [patch |-> Void, archive |-> Void, manifest |-> <<Void, Void>>]]

TypeOK ==
  /\ command \in {"export", "cleanup"}
  /\ active \in BOOLEAN /\ present \in BOOLEAN /\ owned \in BOOLEAN
  /\ worktree \in Content /\ head \in Tracked
  /\ xpc \in AllFiles \cup {"create", "own", "work", "down"}
  /\ snapshot \in Content /\ exports \in 0..MaxExports
  /\ final \in Directory /\ copied \subseteq AllFiles /\ copy \in Directory
  /\ cpc \in {"idle", "remove", "unlink"} /\ discard \in BOOLEAN
  /\ stranded \in BOOLEAN /\ meddled \in BOOLEAN
  /\ removed \in [dirty : BOOLEAN, exported : BOOLEAN, meddled : BOOLEAN]

Init ==
  /\ command \in {"export", "cleanup"} /\ active = TRUE
  /\ present = FALSE /\ worktree = Original /\ head = Base /\ owned = FALSE
  /\ xpc = "create" /\ snapshot = Original /\ exports = 0
  /\ final = Torn /\ copied = {} /\ copy = Torn
  /\ cpc = "idle" /\ discard = FALSE
  /\ stranded = FALSE /\ meddled = FALSE
  /\ removed = [dirty |-> FALSE, exported |-> FALSE, meddled |-> FALSE]

-----------------------------------------------------------------------------
(* The controller of a run or of its resume *)

Goto(from, to) == xpc = from /\ xpc' = to

\* create: git worktree add, then the ownership file.
AddWorktree ==
  /\ Goto("create", "own") /\ present' = TRUE
  /\ UNCHANGED <<command, active, worktree, head, owned, snapshot, exports, final, copying, cleaning, stranded>>

RecordOwnership ==
  /\ Goto("own", "work") /\ owned' = TRUE
  /\ UNCHANGED <<command, active, present, worktree, head, snapshot, exports, final, copying, cleaning, stranded>>

\* The snapshot, and the call of export.
BeginExport ==
  /\ Goto("work", "patch") /\ active
  /\ exports < MaxExports /\ exports' = exports + 1
  /\ snapshot' = worktree
  /\ UNCHANGED <<command, active, tree, final, copying, cleaning, stranded>>

Write(file, value) == final' = [final EXCEPT ![file] = value]

WritePatch ==
  /\ Goto("patch", "archive") /\ Write("patch", snapshot[1])
  /\ UNCHANGED <<command, active, tree, snapshot, exports, copying, cleaning, stranded>>

\* The files the snapshot names, as they are now; one that is gone raises.
WriteArchive ==
  /\ IF snapshot[2] # Nothing /\ worktree[2] = Nothing
     THEN Goto("archive", "down") /\ Write("archive", Void)
     ELSE /\ Goto("archive", "manifest")
          /\ Write("archive", IF snapshot[2] = Nothing THEN Nothing ELSE worktree[2])
  /\ UNCHANGED <<command, active, tree, snapshot, exports, copying, cleaning, stranded>>

WriteManifest ==
  /\ Goto("manifest", "checksums") /\ Write("manifest", snapshot)
  /\ UNCHANGED <<command, active, tree, snapshot, exports, copying, cleaning, stranded>>

\* (mutant) The checksums cover their own file.
ListedTooMany == AllFiles

Listed == Files

WriteChecksums ==
  /\ Goto("checksums", "work")
  /\ Write("checksums", [f \in Listed |-> final[f]])
  /\ UNCHANGED <<command, active, tree, snapshot, exports, copying, cleaning, stranded>>

\* The terminal transition, with or without an export before it.
EndRun ==
  /\ active /\ xpc \in {"work", "down"} /\ active' = FALSE
  /\ UNCHANGED <<command, tree, export, copying, cleaning, stranded>>

\* The file which is being written is torn, if any of it was.
Crash ==
  /\ active /\ xpc # "down" /\ xpc' = "down"
  /\ stranded' = (stranded \/ xpc = "own")
  /\ \/ UNCHANGED final
     \/ xpc \in AllFiles /\ Write(xpc, Torn[xpc])
  /\ UNCHANGED <<command, active, tree, snapshot, exports, copying, cleaning>>

\* Another process takes the run up, if the worktree is owned.
Resume ==
  /\ active /\ owned /\ Goto("down", "work")
  /\ UNCHANGED <<command, active, tree, snapshot, exports, final, copying, cleaning, stranded>>

Controller ==
  \/ AddWorktree \/ RecordOwnership \/ BeginExport
  \/ WritePatch \/ WriteArchive \/ WriteManifest \/ WriteChecksums \/ EndRun

-----------------------------------------------------------------------------
(* Those who write to the worktree: a model at work, one that was left      *)
(* behind, and the person who looks at the candidate.                       *)

Edit ==
  /\ present /\ worktree' \in Content \ {worktree}
  /\ meddled' = TRUE
  /\ UNCHANGED <<command, active, present, head, owned, export, copying, cpc, discard, removed, stranded>>

\* The changes of the tracked files are committed, on the detached head.
Commit ==
  /\ present /\ head' = worktree[1] /\ head' # head
  /\ UNCHANGED <<command, active, present, worktree, owned, export, copying, cleaning, stranded>>

-----------------------------------------------------------------------------
(* The commands export and cleanup *)

\* (mutant) An export counts once its checksums are there.
ChecksumsThere(d) == d.checksums.patch # Void

\* (mutant) The patch is compared, the other files are not.
PatchMatches(d) == d.patch # Void /\ d.patch = d.checksums.patch

\* export_is_complete
Complete(d) ==
  /\ d.checksums.patch # Void
  /\ \A f \in Files : d[f] = d.checksums[f]

\* shutil.copytree copies one file after another, in no fixed order.
CopyFile(f) ==
  /\ command = "export" /\ f \notin copied /\ copied' = copied \cup {f}
  /\ copy' = [copy EXCEPT ![f] = final[f]]
  /\ UNCHANGED <<command, active, tree, export, cleaning, stranded>>

Dirty == worktree # <<head, Nothing>>

\* cleanup up to its last check: the run is not active, the worktree is owned
\* and registered, and it is exported, or clean, or given up.  The export of a
\* run that has ended does not change any more.
LookForCleanup ==
  /\ command = "cleanup" /\ cpc = "idle" /\ cpc' = "remove"
  /\ ~active /\ owned /\ present
  /\ discard' \in BOOLEAN
  /\ Dirty => Complete(final) \/ discard'
  /\ meddled' = FALSE
  /\ UNCHANGED <<command, active, tree, export, copying, removed, stranded>>

\* The files fit together: patch and archive are what the manifest names, but
\* the archive may hold a later content of the untracked files.
OneExport(d) ==
  /\ d.patch # Void /\ d.archive # Void
  /\ d.manifest[1] = d.patch
  /\ d.manifest[2] = Nothing <=> d.archive = Nothing

\* (mutant) The record of the owner goes first.
UnlinkFirst ==
  /\ cpc = "remove" /\ cpc' = "unlink" /\ owned' = FALSE
  /\ UNCHANGED <<command, active, present, worktree, head, export, copying, discard,
                 meddled, removed, stranded>>

\* git worktree remove --force
Remove ==
  /\ cpc = "remove" /\ cpc' = "unlink" /\ present' = FALSE
  /\ removed' = IF discard THEN removed
                ELSE [dirty |-> Dirty, exported |-> OneExport(final), meddled |-> meddled]
  /\ UNCHANGED <<command, active, worktree, head, owned, export, copying, discard, meddled, stranded>>

Unlink ==
  /\ cpc = "unlink" /\ cpc' = "idle" /\ owned' = FALSE
  /\ UNCHANGED <<command, active, present, worktree, head, export, copying, discard, meddled, removed, stranded>>

\* cleanup is interrupted.
StopCleanup ==
  /\ cpc # "idle" /\ cpc' = "idle"
  /\ UNCHANGED <<command, active, tree, export, copying, discard, meddled, removed, stranded>>

Next ==
  \/ Controller \/ Crash \/ Resume \/ Edit \/ Commit
  \/ \E f \in AllFiles : CopyFile(f)
  \/ LookForCleanup \/ Remove \/ Unlink \/ StopCleanup

Spec == Init /\ [][Next]_vars

-----------------------------------------------------------------------------
\* README.md: cleanup "refuses incomplete, modified, or unexported artifacts
\* unless destructive discard is explicit".  A worktree that cleanup has removed
\* without it held nothing that was not committed, or all the files of an export
\* of it are on disk, or it was written after cleanup had looked.  A crash in an
\* export never makes it pass for one.
CleanupLosesNothing ==
  removed.dirty => removed.exported \/ removed.meddled

\* README.md: "export completeness and checksums".  Files that pass for complete
\* are those of one export, however often it was begun and broken off; so is a
\* copy, even one made while the files were written.  The archive alone may be
\* of a later content.
CompleteIsOneExport ==
  \A d \in {final, copy} : Complete(d) => OneExport(d)

\* A worktree which is there has its owner on record, so that cleanup can find
\* it: the record is written after the worktree is made and goes after it.
\* But for the crash between the two when it is made.
WorktreeIsOwned ==
  present /\ xpc # "own" => owned \/ stranded

=============================================================================
