----------------------------- MODULE DeliveryProofs ----------------------------
(***************************************************************************)
(* The safety of export and cleanup for every content and any number of    *)
(* exports.  The argument rests on the checksums: whatever they list was   *)
(* on disk together, at the end of one export, and a directory that agrees *)
(* with them agrees with itself.                                           *)
(***************************************************************************)
EXTENDS Delivery, TLAPS

\* What a list of checksums says, if it is one.
Consistent(sums) ==
  sums.patch # Void =>
    /\ sums.archive # Void /\ sums.manifest[1] = sums.patch
    /\ sums.manifest[2] = Nothing <=> sums.archive = Nothing

Shape ==
  /\ DOMAIN final = AllFiles /\ DOMAIN copy = AllFiles
  /\ xpc \in AllFiles \cup {"create", "own", "work", "down"}
  /\ snapshot[1] # Void /\ worktree \in Content /\ snapshot \in Content
  /\ cpc \in {"idle", "remove", "unlink"}

\* The files an export has written so far are of its snapshot.
WrittenSoFar ==
  /\ xpc \in {"archive", "manifest", "checksums"} => final.patch = snapshot[1]
  /\ xpc \in {"manifest", "checksums"} =>
       /\ final.archive # Void
       /\ snapshot[2] = Nothing <=> final.archive = Nothing
  /\ xpc = "checksums" => final.manifest = snapshot

SumsHold == Consistent(final.checksums) /\ Consistent(copy.checksums)

\* A run that has ended exports no more, so what cleanup saw stays.
Frozen ==
  /\ ~active => xpc \in {"work", "down"}
  /\ cpc # "idle" => ~active
  /\ cpc = "remove" /\ ~discard /\ ~meddled /\ Dirty => Complete(final)

Ownership ==
  /\ cpc = "unlink" => ~present
  /\ xpc = "create" => ~present
  /\ present /\ xpc # "own" => owned \/ stranded

Inv ==
  /\ Shape /\ WrittenSoFar /\ SumsHold /\ Frozen /\ Ownership
  /\ CleanupLosesNothing

LEMMA InitInv == Init => Inv
<1> SUFFICES ASSUME Init PROVE Inv
  OBVIOUS
<1>1. /\ final = Torn /\ copy = Torn /\ worktree = Original /\ snapshot = Original
      /\ xpc = "create" /\ cpc = "idle" /\ present = FALSE /\ active = TRUE
      /\ removed.dirty = FALSE
  BY Zenon DEF Init
<1>2. Original \in Content /\ Original[1] # Void
  BY DeliveryAssumption DEF Original, Content, Void, Base
<1>3. DOMAIN Torn = AllFiles /\ Torn.checksums.patch = Void
  BY DEF Torn, AllFiles, Files
<1>4. Shape /\ WrittenSoFar /\ SumsHold
  BY <1>1, <1>2, <1>3 DEF Shape, WrittenSoFar, SumsHold, Consistent
<1>5. Frozen /\ Ownership /\ CleanupLosesNothing
  BY <1>1 DEF Frozen, Ownership, CleanupLosesNothing
<1>6. QED BY <1>4, <1>5 DEF Inv

\* A directory that agrees with consistent checksums is one export.
LEMMA CompleteIsConsistent ==
  ASSUME NEW d, Consistent(d.checksums), Complete(d)
  PROVE  OneExport(d)
BY DEF Consistent, Complete, OneExport, Files

\* The steps of an export: only they write to final.
LEMMA WritingKeepsInv ==
  ASSUME Inv, WritePatch \/ WriteArchive \/ WriteManifest \/ WriteChecksums
  PROVE  Inv'
<1> USE DEF Inv
<1>1. /\ active /\ cpc = "idle"
      /\ UNCHANGED <<active, tree, snapshot, copying, cleaning, stranded>>
  BY DEF WritePatch, WriteArchive, WriteManifest, WriteChecksums, Goto, Frozen, Shape, cleaning
<1>2. /\ xpc' \in AllFiles \cup {"work", "down"}
      /\ xpc \in AllFiles
  BY DEF WritePatch, WriteArchive, WriteManifest, WriteChecksums, Goto, AllFiles, Files
<1>3. Frozen' /\ Ownership' /\ CleanupLosesNothing'
  BY <1>1, <1>2 DEF Frozen, Ownership, CleanupLosesNothing, AllFiles, Files, tree, cleaning, Shape
<1> USE DEF Shape, WrittenSoFar, SumsHold, copying, tree, cleaning, AllFiles, Files
<1>4. CASE WritePatch
  <2>1. final' = [final EXCEPT !["patch"] = snapshot[1]] /\ xpc' = "archive"
    BY <1>4 DEF WritePatch, Write, Goto
  <2>2. Shape' /\ WrittenSoFar' /\ SumsHold'
    BY <1>1, <2>1
  <2>3. QED BY <1>3, <2>2
<1>5. CASE WriteArchive
  <2>1. CASE snapshot[2] # Nothing /\ worktree[2] = Nothing
    <3>1. final' = [final EXCEPT !["archive"] = Void] /\ xpc' = "down"
      BY <1>5, <2>1 DEF WriteArchive, Write, Goto
    <3>2. Shape' /\ WrittenSoFar' /\ SumsHold'
      BY <1>1, <3>1
    <3>3. QED BY <1>3, <3>2
  <2>2. CASE ~(snapshot[2] # Nothing /\ worktree[2] = Nothing)
    <3> DEFINE value == IF snapshot[2] = Nothing THEN Nothing ELSE worktree[2]
    <3>1. final' = [final EXCEPT !["archive"] = value] /\ xpc = "archive" /\ xpc' = "manifest"
      BY <1>5, <2>2 DEF WriteArchive, Write, Goto
    <3>2. value # Void /\ (snapshot[2] = Nothing <=> value = Nothing)
      BY <2>2, DeliveryAssumption DEF Content, Void
    <3> HIDE DEF value
    <3>3. Shape' /\ WrittenSoFar' /\ SumsHold'
      BY <1>1, <3>1, <3>2
    <3>4. QED BY <1>3, <3>3
  <2>3. QED BY <2>1, <2>2
<1>6. CASE WriteManifest
  <2>1. /\ final' = [final EXCEPT !["manifest"] = snapshot]
        /\ xpc = "manifest" /\ xpc' = "checksums"
    BY <1>6 DEF WriteManifest, Write, Goto
  <2>2. Shape' /\ WrittenSoFar' /\ SumsHold'
    BY <1>1, <2>1
  <2>3. QED BY <1>3, <2>2
<1>7. CASE WriteChecksums
  <2> DEFINE sums == [f \in Files |-> final[f]]
  <2>1. /\ final' = [final EXCEPT !["checksums"] = sums]
        /\ xpc = "checksums" /\ xpc' = "work"
    BY <1>7 DEF WriteChecksums, Write, Goto, Listed
  <2>2. Consistent(sums)
    BY <2>1 DEF Consistent
  <2> HIDE DEF sums
  <2>3. Shape' /\ WrittenSoFar' /\ SumsHold'
    BY <1>1, <2>1, <2>2
  <2>4. QED BY <1>3, <2>3
<1>8. QED BY <1>4, <1>5, <1>6, <1>7

\* The other steps of the controller, and its crash.
LEMMA ControlKeepsInv ==
  ASSUME Inv,
         AddWorktree \/ RecordOwnership \/ BeginExport \/ EndRun \/ Crash \/ Resume
  PROVE  Inv'
<1> USE DEF Inv, copying, tree, cleaning, export
<1>1. CASE AddWorktree
  BY <1>1 DEF AddWorktree, Goto, Shape, WrittenSoFar, SumsHold, Frozen, Ownership,
              CleanupLosesNothing, Dirty, AllFiles, Files
<1>2. CASE RecordOwnership
  BY <1>2 DEF RecordOwnership, Goto, Shape, WrittenSoFar, SumsHold, Frozen, Ownership,
              CleanupLosesNothing, Dirty, AllFiles, Files
<1>3. CASE BeginExport
  <2>1. worktree[1] # Void
    BY DeliveryAssumption DEF Shape, Content, Void
  <2>2. QED BY <1>3, <2>1 DEF BeginExport, Goto, Shape, WrittenSoFar, SumsHold, Frozen,
              Ownership, CleanupLosesNothing, Dirty, AllFiles, Files
<1>4. CASE EndRun
  BY <1>4 DEF EndRun, Shape, WrittenSoFar, SumsHold, Frozen, Ownership,
              CleanupLosesNothing, Dirty, AllFiles, Files
<1>5. CASE Resume
  BY <1>5 DEF Resume, Goto, Shape, WrittenSoFar, SumsHold, Frozen, Ownership,
              CleanupLosesNothing, Dirty, AllFiles, Files
<1>6. CASE Crash
  <2>1. /\ active /\ xpc' = "down" /\ cpc = "idle"
        /\ UNCHANGED <<active, tree, snapshot, copying, cleaning>>
        /\ stranded' = (stranded \/ xpc = "own")
    BY <1>6 DEF Crash, Frozen, Shape
  <2>2. \/ final' = final
        \/ \E f \in AllFiles : final' = [final EXCEPT ![f] = Torn[f]]
    BY <1>6 DEF Crash, Write
  <2>3. Consistent(Torn.checksums)
    BY DEF Torn, Consistent
  <2>4. DOMAIN final' = AllFiles /\ Consistent(final'.checksums)
    BY <2>2, <2>3 DEF Shape, SumsHold, AllFiles
  <2>5. Shape' /\ WrittenSoFar' /\ SumsHold'
    BY <2>1, <2>4 DEF Shape, WrittenSoFar, SumsHold
  <2>6. Frozen' /\ Ownership' /\ CleanupLosesNothing'
    BY <2>1 DEF Frozen, Ownership, CleanupLosesNothing, Shape
  <2>7. QED BY <2>5, <2>6
<1>7. QED BY <1>1, <1>2, <1>3, <1>4, <1>5, <1>6

LEMMA OthersKeepInv ==
  ASSUME Inv, Edit \/ Commit \/ \E f \in AllFiles : CopyFile(f)
  PROVE  Inv'
<1> USE DEF Inv, copying, tree, cleaning, export
<1>1. CASE Edit
  BY <1>1 DEF Edit, Shape, WrittenSoFar, SumsHold, Frozen, Ownership, CleanupLosesNothing
<1>2. CASE Commit
  <2>1. Dirty' => Dirty
    BY <1>2 DEF Commit, Dirty, Content, Shape
  <2>2. QED BY <1>2, <2>1 DEF Commit, Shape, WrittenSoFar, SumsHold, Frozen, Ownership,
                CleanupLosesNothing, Complete
<1>3. ASSUME NEW f \in AllFiles, CopyFile(f) PROVE Inv'
  <2>1. copy' = [copy EXCEPT ![f] = final[f]]
    BY <1>3 DEF CopyFile
  <2>2. DOMAIN copy' = AllFiles /\ Consistent(copy'.checksums)
    BY <2>1 DEF Shape, SumsHold, AllFiles
  <2>3. Dirty' <=> Dirty
    BY <1>3 DEF CopyFile, Dirty
  <2>4. QED BY <1>3, <2>2, <2>3 DEF CopyFile, Shape, WrittenSoFar, SumsHold, Frozen, Ownership,
                CleanupLosesNothing, Complete
<1>4. QED BY <1>1, <1>2, <1>3

LEMMA CleanupKeepsInv ==
  ASSUME Inv, LookForCleanup \/ Remove \/ Unlink \/ StopCleanup PROVE Inv'
<1> USE DEF Inv, copying, tree, export
<1>1. Shape' /\ WrittenSoFar' /\ SumsHold'
  BY DEF LookForCleanup, Remove, Unlink, StopCleanup, Shape, WrittenSoFar, SumsHold
<1>2. CASE LookForCleanup
  BY <1>1, <1>2 DEF LookForCleanup, Frozen, Ownership, CleanupLosesNothing, Dirty, Complete, Shape
<1>3. CASE Remove
  <2>1. Dirty /\ ~discard => meddled \/ OneExport(final)
    BY <1>3, CompleteIsConsistent DEF Remove, Frozen, SumsHold
  <2>2. CleanupLosesNothing'
    BY <1>3, <2>1 DEF Remove, CleanupLosesNothing
  <2>3. Frozen' /\ Ownership'
    BY <1>3 DEF Remove, Frozen, Ownership, Shape
  <2>4. QED BY <1>1, <2>2, <2>3
<1>4. CASE Unlink
  BY <1>1, <1>4 DEF Unlink, Frozen, Ownership, CleanupLosesNothing, Shape
<1>5. CASE StopCleanup
  BY <1>1, <1>5 DEF StopCleanup, Frozen, Ownership, CleanupLosesNothing, Shape
<1>6. QED BY <1>2, <1>3, <1>4, <1>5

LEMMA NextInv == Inv /\ [Next]_vars => Inv'
<1> SUFFICES ASSUME Inv, [Next]_vars PROVE Inv'
  OBVIOUS
<1>1. CASE Next
  BY <1>1, WritingKeepsInv, ControlKeepsInv, OthersKeepInv, CleanupKeepsInv DEF Next, Controller
<1>2. CASE UNCHANGED vars
  BY <1>2 DEF vars, tree, export, copying, cleaning, Inv, Shape, WrittenSoFar, SumsHold, Frozen,
              Ownership, CleanupLosesNothing, Dirty, Complete
<1>3. QED BY <1>1, <1>2

LEMMA SpecInv == Spec => []Inv
BY InitInv, NextInv, PTL DEF Spec

\* For all contents and any number of exports and crashes: files that pass for
\* a complete export, in place or copied amid the writing, are of one export.
THEOREM CompleteIsOneExportHolds == Spec => []CompleteIsOneExport
<1>1. Inv => CompleteIsOneExport
  BY CompleteIsConsistent DEF Inv, SumsHold, CompleteIsOneExport
<1>2. QED BY SpecInv, <1>1, PTL

\* No cleanup without discard removes a worktree with uncommitted content of
\* which no export is complete, unless it was written after the look.
THEOREM CleanupLosesNothingHolds == Spec => []CleanupLosesNothing
<1>1. Inv => CleanupLosesNothing
  BY DEF Inv
<1>2. QED BY SpecInv, <1>1, PTL

\* Every worktree has its owner on record but one whose creation crashed.
THEOREM WorktreeIsOwnedHolds == Spec => []WorktreeIsOwned
<1>1. Inv => WorktreeIsOwned
  BY DEF Inv, Ownership, WorktreeIsOwned
<1>2. QED BY SpecInv, <1>1, PTL

-----------------------------------------------------------------------------
(***************************************************************************)
(* Type correctness                                                        *)
(***************************************************************************)
\* What a file of an export, or its checksum, may hold.
FileType(file) ==
  CASE file = "patch"     -> Tracked \cup {Void}
    [] file = "archive"   -> Untracked \cup {Void}
    [] file = "manifest"  -> Content \cup {<<Void, Void>>}
    [] file = "checksums" -> Checksums

\* One file of a directory is written.
LEMMA FileWritten ==
  ASSUME NEW d \in Directory, NEW file \in AllFiles, NEW value \in FileType(file)
  PROVE  [d EXCEPT ![file] = value] \in Directory
<1>1. CASE file = "patch"
  BY <1>1 DEF Directory, FileType
<1>2. CASE file = "archive"
  BY <1>2 DEF Directory, FileType
<1>3. CASE file = "manifest"
  BY <1>3 DEF Directory, FileType
<1>4. CASE file = "checksums"
  BY <1>4 DEF Directory, FileType
<1> QED
  BY <1>1, <1>2, <1>3, <1>4 DEF AllFiles, Files

LEMMA FileRead ==
  ASSUME NEW d \in Directory, NEW file \in AllFiles
  PROVE  d[file] \in FileType(file)
BY DEF Directory, FileType, AllFiles, Files

LEMMA TornIsDirectory == Torn \in Directory
BY DEF Torn, Directory, Checksums

\* The variables by who writes them.
RunTypes ==
  /\ command \in {"export", "cleanup"}
  /\ active \in BOOLEAN /\ present \in BOOLEAN /\ owned \in BOOLEAN
  /\ stranded \in BOOLEAN
  /\ worktree \in Content /\ head \in Tracked

ExportTypes ==
  /\ xpc \in AllFiles \cup {"create", "own", "work", "down"}
  /\ snapshot \in Content /\ exports \in 0..MaxExports
  /\ final \in Directory /\ copied \subseteq AllFiles /\ copy \in Directory

CleanupTypes ==
  /\ cpc \in {"idle", "remove", "unlink"} /\ discard \in BOOLEAN
  /\ meddled \in BOOLEAN
  /\ removed \in [dirty : BOOLEAN, exported : BOOLEAN, meddled : BOOLEAN]

Types == RunTypes /\ ExportTypes /\ CleanupTypes

LEMMA TypesInit == Init => Types
<1> SUFFICES ASSUME Init PROVE Types
  OBVIOUS
<1>1. Original \in Content /\ Base \in Tracked /\ 0 \in 0..MaxExports
  BY DeliveryAssumption DEF Original, Content
<1>2. RunTypes
  BY <1>1, Zenon DEF Init, RunTypes
<1>3. ExportTypes
  BY <1>1, TornIsDirectory, Zenon DEF Init, ExportTypes
<1>4. CleanupTypes
  BY Zenon DEF Init, CleanupTypes
<1> QED
  BY <1>2, <1>3, <1>4 DEF Types

LEMMA RunTypesNext == RunTypes /\ [Next]_vars => RunTypes'
<1> SUFFICES ASSUME RunTypes, [Next]_vars PROVE RunTypes'
  OBVIOUS
<1>1. /\ command' = command
      /\ active' = active \/ active' = FALSE
      /\ present' = present \/ present' \in BOOLEAN
      /\ owned' = owned \/ owned' \in BOOLEAN
      /\ stranded' = stranded \/ Crash
      /\ worktree' = worktree \/ worktree' \in Content
      /\ head' = head \/ head' = worktree[1]
  BY DEF Next, vars, tree, Controller, AddWorktree, RecordOwnership, BeginExport, WritePatch,
         WriteArchive, WriteManifest, WriteChecksums, EndRun, Crash, Resume, Edit, Commit, CopyFile,
         LookForCleanup, Remove, Unlink, StopCleanup
<1>2. worktree[1] \in Tracked
  BY DEF RunTypes, Content
<1>3. stranded' \in BOOLEAN
  <2>1. Crash => stranded' \in BOOLEAN
    BY Zenon DEF Crash
  <2> QED
    BY <1>1, <2>1, Zenon DEF RunTypes
<1>4. command' \in {"export", "cleanup"} /\ worktree' \in Content /\ head' \in Tracked
  BY <1>1, <1>2 DEF RunTypes
<1>5. active' \in BOOLEAN /\ present' \in BOOLEAN /\ owned' \in BOOLEAN
  BY <1>1, Zenon DEF RunTypes
<1> QED
  BY <1>3, <1>4, <1>5, Zenon DEF RunTypes

LEMMA ExportTypesNext == RunTypes /\ ExportTypes /\ [Next]_vars => ExportTypes'
<1> SUFFICES ASSUME RunTypes, ExportTypes, [Next]_vars PROVE ExportTypes'
  OBVIOUS
<1>1. /\ snapshot[1] \in Tracked /\ snapshot[2] \in Untracked /\ worktree[2] \in Untracked
      /\ worktree \in Content /\ Nothing \in Untracked
  BY DeliveryAssumption DEF RunTypes, ExportTypes, Content
<1> USE DEF ExportTypes, AllFiles, Files, Goto, copying
<1>2. CASE WritePatch
  <2>1. final' \in Directory
    BY <1>1, <1>2, FileWritten DEF WritePatch, Write, FileType
  <2> QED
    BY <1>2, <2>1 DEF WritePatch
<1>3. CASE WriteArchive
  <2>1. Void \in FileType("archive") /\ Nothing \in FileType("archive")
        /\ worktree[2] \in FileType("archive")
    BY <1>1 DEF FileType
  <2>2. final' \in Directory
    BY <1>3, <2>1, FileWritten DEF WriteArchive, Write
  <2> QED
    BY <1>3, <2>2 DEF WriteArchive
<1>4. CASE WriteManifest
  <2>1. final' \in Directory
    BY <1>4, FileWritten DEF WriteManifest, Write, FileType
  <2> QED
    BY <1>4, <2>1 DEF WriteManifest
<1>5. CASE WriteChecksums
  <2>1. [f \in Listed |-> final[f]] \in Checksums
    BY DEF Listed, Directory, Checksums
  <2>2. final' \in Directory
    BY <1>5, <2>1, FileWritten DEF WriteChecksums, Write, FileType
  <2> QED
    BY <1>5, <2>2 DEF WriteChecksums
<1>6. CASE Crash
  <2>1. final' \in Directory
    BY <1>6, FileWritten, FileRead, TornIsDirectory DEF Crash, Write
  <2> QED
    BY <1>6, <2>1 DEF Crash
<1>7. ASSUME NEW f \in AllFiles, CopyFile(f) PROVE ExportTypes'
  <2>1. copy' \in Directory
    BY <1>7, FileWritten, FileRead DEF CopyFile
  <2> QED
    BY <1>7, <2>1 DEF CopyFile, export
<1>8. CASE BeginExport
  BY <1>1, <1>8, DeliveryAssumption DEF BeginExport
<1>9. CASE AddWorktree \/ RecordOwnership \/ EndRun \/ Resume \/ Edit \/ Commit
  BY <1>9 DEF AddWorktree, RecordOwnership, EndRun, Resume, Edit, Commit, export
<1>10. CASE LookForCleanup \/ Remove \/ Unlink \/ StopCleanup \/ UNCHANGED vars
  BY <1>10 DEF LookForCleanup, Remove, Unlink, StopCleanup, export, vars
<1> QED
  BY <1>2, <1>3, <1>4, <1>5, <1>6, <1>7, <1>8, <1>9, <1>10 DEF Next, Controller

LEMMA CleanupTypesNext == CleanupTypes /\ [Next]_vars => CleanupTypes'
<1> SUFFICES ASSUME CleanupTypes, [Next]_vars PROVE CleanupTypes'
  OBVIOUS
<1>1. CASE UNCHANGED cleaning
  BY <1>1, Zenon DEF cleaning, CleanupTypes
<1>2. CASE Edit
  BY <1>2, Zenon DEF Edit, CleanupTypes
<1>3. CASE LookForCleanup
  BY <1>3, Zenon DEF LookForCleanup, CleanupTypes
<1>4. CASE Remove
  <2>1. Dirty \in BOOLEAN /\ OneExport(final) \in BOOLEAN /\ meddled \in BOOLEAN
    BY Zenon DEF Dirty, OneExport, CleanupTypes
  <2>2. [dirty |-> Dirty, exported |-> OneExport(final), meddled |-> meddled]
          \in [dirty : BOOLEAN, exported : BOOLEAN, meddled : BOOLEAN]
    BY <2>1, Zenon
  <2> QED
    BY <1>4, <2>2, Zenon DEF Remove, CleanupTypes
<1>5. CASE Unlink \/ StopCleanup
  BY <1>5, Zenon DEF Unlink, StopCleanup, CleanupTypes
<1>6. CASE Controller \/ Crash \/ Resume \/ Commit \/ UNCHANGED vars
  BY <1>1, <1>6 DEF Controller, AddWorktree, RecordOwnership, BeginExport, WritePatch, WriteArchive,
         WriteManifest, WriteChecksums, EndRun, Crash, Resume, Commit, vars
<1>7. ASSUME NEW f \in AllFiles, CopyFile(f) PROVE CleanupTypes'
  BY <1>1, <1>7 DEF CopyFile
<1> QED
  BY <1>2, <1>3, <1>4, <1>5, <1>6, <1>7 DEF Next

\* The variables keep their types: every file of an export and of a copy holds
\* what belongs in it, or is torn or not there.
THEOREM DeliveryTypeCorrect == Spec => []TypeOK
<1>1. Types /\ [Next]_vars => Types'
  BY RunTypesNext, ExportTypesNext, CleanupTypesNext DEF Types
<1>2. Types => TypeOK
  BY Zenon DEF Types, RunTypes, ExportTypes, CleanupTypes, TypeOK
<1> QED
  BY TypesInit, <1>1, <1>2, PTL DEF Spec

=============================================================================
