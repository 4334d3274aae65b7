------------------------ MODULE BackupRestoreProofs ------------------------
(***************************************************************************)
(* What BackupRestore promises, for every bound on runs, faults, versions  *)
(* and sizes.  TypeOK and Progress are the inductive invariant: Progress   *)
(* says at each label of the tool how far the run has come, and what is    *)
(* then live, set aside and owed to the operator.                          *)
(***************************************************************************)
EXTENDS BackupRestore, TLAPS

CreateLabels == {"collect", "write", "rename"}
PublishLabels == {"aside", "install"}
RollbackLabels == {"rollback", "putBack"}
RestoreLabels == {"check", "cleanup"} \cup PublishLabels \cup RollbackLabels
Outcomes == {"none", "running", "saved", "done", "failed", "rejected", "crashed"}

Archives == [content : [Items -> Int], size : Int, intact : BOOLEAN]

ValuesOK ==
    /\ live \in [Items -> Int]
    /\ saved \in [Items -> SUBSET (Int \X Int)]
    /\ artifact \in Archives
    /\ pc \in {"idle"} \cup CreateLabels \cup RestoreLabels
    /\ item \in 0 .. 2
    /\ pc # "rollback" => item # 0
    /\ attempt \in Nat
    /\ draft \in Archives
    /\ old \in [Items -> Int]
    /\ outcome \in Outcomes
    /\ faults \in Nat
    /\ start \in [live : [Items -> Int], faults : Nat]
    /\ entitled \in [Items -> Int]
    /\ promised \in Archives
    /\ highest \in Int

FlagsOK == replace \in BOOLEAN /\ stale \in BOOLEAN /\ rewound \in BOOLEAN

TypeOK == ValuesOK /\ FlagsOK

-----------------------------------------------------------------------------
(* Progress: what holds at each label of the tool *)

\* None marks an item that was not set aside: no directory holds it, and no
\* archive that can be decrypted.  Such an archive is at most the overhead above
\* the limit, and Restore goes on only with one.
Sound(archive) ==
    archive.intact =>
        /\ archive.size <= MaxBackupSize + Overhead
        /\ \A i \in Items : archive.content[i] # None

ArchivesSound ==
    /\ \A i \in Items : live[i] # None
    /\ Sound(artifact)
    /\ pc \in {"write", "rename"} => Sound(draft)
    /\ pc \in RestoreLabels \ {"check"} => artifact.intact

\* publish starts with the first item, and with nothing set aside.
Fresh ==
    pc \in {"idle", "check"} \cup CreateLabels =>
        item = 1 /\ \A i \in Items : old[i] = None

\* Both directories are replaced by what the archive holds.
Installed ==
    /\ pc \in PublishLabels =>
          \A i \in Items : i < item => live[i] = artifact.content[i]
    /\ pc = "cleanup" => \A i \in Items : live[i] = artifact.content[i]

\* From SetAside on, until the old directory is back in its place, what the
\* operator is owed is among the directories set aside.
Owed(i) == entitled[i] \in {Absent} \cup Kept(i)

OwedIsKept ==
    /\ pc = "install" => live[item] = Absent
    /\ pc \in PublishLabels => \A i \in Items : old[i] # None => Owed(i)
    /\ pc \in RollbackLabels =>
          \A i \in Items : i <= item /\ old[i] # None => Owed(i)
    /\ pc = "cleanup" => \A i \in Items : entitled[i] = live[i]

\* What was in place when the run began was set aside, or did not exist.
WasSetAside(i) == old[i] = IF start.live[i] = Absent THEN None ELSE start.live[i]

\* A directory that existed when the run began is as it was.
Restored(i) == start.live[i] # Absent => live[i] = start.live[i]

\* Before publish reaches an item it is in place, and after that set aside;
\* behind rollback it is in place again, if no second operation failed: then
\* no directory was in the way of the one set aside.
Undoable ==
    /\ start.faults <= faults
    /\ \A i \in Items : start.live[i] # None
    /\ pc \in CreateLabels \cup {"check"} => live = start.live
    /\ pc \in PublishLabels =>
          \A i \in Items :
             IF i < item \/ (i = item /\ pc = "install")
             THEN WasSetAside(i)
             ELSE old[i] = None /\ live[i] = start.live[i]
    /\ pc \in RollbackLabels =>
          /\ start.faults < faults
          /\ \A i \in Items :
                IF i <= item THEN WasSetAside(i)
                ELSE faults = start.faults + 1 => Restored(i)
    /\ pc = "putBack" =>
          /\ old[item] # None
          /\ faults = start.faults + 1 => ~Exists(item)

\* As long as no stale data directory was left in place, the service finds the
\* counter where it last was, and so did the run that is under way.  While it
\* publishes, the data directory is the one it found, the one it installs, a
\* remainder or none; behind publish and behind rollback it is up to date.
Current(content) == content >= 0 => content = highest

CountersCurrent ==
    ~rewound =>
        /\ pc = "idle" => Current(live[1])
        /\ pc # "idle" => Current(start.live[1])
        /\ pc \in {"write", "rename"} => Current(draft.content[1])
        /\ ~stale => Current(artifact.content[1])
        /\ pc \in RestoreLabels =>
              live[1] \in {Absent, Partial, start.live[1], artifact.content[1]}
        /\ pc = "cleanup" \/ (pc = "rollback" /\ item = 0) => Current(live[1])

\* The inductive invariant, with the properties it carries along.
Progress ==
    /\ ArchivesSound
    /\ BackupSurvives
    /\ Fresh
    /\ Installed
    /\ OwedIsKept
    /\ StateNeverLost
    /\ Undoable
    /\ FailedRestoreRollsBack
    /\ CountersCurrent
    /\ RestoreComplete
    /\ BackupsAreAccepted

-----------------------------------------------------------------------------
(* Type correctness *)

LEMMA ValuesInit == Init => ValuesOK
<1>1. NoArchive \in Archives /\ [i \in Items |-> None] \in [Items -> Int]
  BY DEF NoArchive, Archives, None
<1>2. ASSUME Init
      PROVE  ValuesOK
  <2>1. saved \in [Items -> SUBSET (Int \X Int)]
    BY <1>2 DEF Init
  <2>2. live \in [Items -> Int] /\ start \in [live : [Items -> Int], faults : Nat]
    BY <1>2 DEF Init
  <2>3. QED
    BY <1>1, <1>2, <2>1, <2>2 DEF Init, ValuesOK, Outcomes
<1>3. QED BY <1>2

\* Create and the first steps of Restore keep the types.
LEMMA ValuesTool ==
    ASSUME ValuesOK, Backup \/ Collect \/ CollectFails \/ WriteTemp \/ RenameArtifact
                   \/ CreateFails \/ (\E r \in BOOLEAN : Restore(r))
                   \/ RejectArchive \/ RejectExisting \/ Stage \/ StageFails
    PROVE  ValuesOK'
<1> USE BackupAssumption DEF ValuesOK, CreateLabels, RestoreLabels, PublishLabels,
        RollbackLabels, Outcomes, disk, run, ghosts, history, Goto
<1>0. NoArchive \in Archives /\ [i \in Items |-> None] \in [Items -> Int]
  BY DEF NoArchive, Archives, None
<1>1. CASE Backup
  BY <1>1 DEF Backup, Start
<1>2. CASE Collect
  <2>1. PICK size \in Sizes : draft' = Encrypted(size)
    BY <1>2 DEF Collect
  <2>2. draft' \in Archives
    BY <2>1 DEF Encrypted, Archives
  <2>3. QED BY <1>2, <2>2 DEF Collect
<1>3. CASE CollectFails
  BY <1>0, <1>3 DEF CollectFails, Stop, End
<1>4. CASE WriteTemp
  BY <1>4 DEF WriteTemp, Proceed
<1>5. CASE RenameArtifact
  BY <1>0, <1>5 DEF RenameArtifact, End
<1>6. CASE CreateFails
  BY <1>0, <1>6 DEF CreateFails, Stop, End, Faulty
<1>7. CASE \E r \in BOOLEAN : Restore(r)
  BY <1>7 DEF Restore, Start
<1>8. CASE RejectArchive \/ RejectExisting
  BY <1>0, <1>8 DEF RejectArchive, RejectExisting, Stop, End
<1>9. CASE Stage
  BY <1>9 DEF Stage, Proceed
<1>10. CASE StageFails
  BY <1>0, <1>10 DEF StageFails, Stop, End, Faulty
<1>11. QED BY <1>1, <1>2, <1>3, <1>4, <1>5, <1>6, <1>7, <1>8, <1>9, <1>10

\* publish, rollback and the removal of the old directories keep the types.
LEMMA ValuesPublish ==
    ASSUME ValuesOK, SetAside \/ NothingToSetAside \/ SetAsideFails \/ Install
                     \/ InstallFails \/ RollbackSkip \/ RollbackRemove
                     \/ RollbackRename \/ RollbackEnds \/ Cleanup
    PROVE  ValuesOK'
<1> USE DEF ValuesOK, CreateLabels, RestoreLabels, PublishLabels,
        RollbackLabels, Outcomes, disk, run, ghosts, history, Goto, Items, Exists
<1>0. NoArchive \in Archives /\ [i \in Items |-> None] \in [Items -> Int]
  BY DEF NoArchive, Archives, None
<1>1. CASE SetAside
  <2>1. item \in Items
    BY <1>1 DEF SetAside
  <2>2. live' \in [Items -> Int] /\ old' \in [Items -> Int]
    BY <1>1, <2>1 DEF SetAside, Absent
  <2>3. saved' \in [Items -> SUBSET (Int \X Int)]
    BY <1>1, <2>1 DEF SetAside
  <2>4. QED BY <1>1, <2>2, <2>3 DEF SetAside
<1>2. CASE NothingToSetAside
  BY <1>2 DEF NothingToSetAside, Proceed
<1>3. CASE SetAsideFails
  BY <1>3 DEF SetAsideFails, RollbackFrom, Faulty
<1>4. CASE Install
  <2>1. artifact.content \in [Items -> Int]
    BY DEF Archives
  <2>2. live' \in [Items -> Int] /\ entitled' \in [Items -> Int]
    BY <1>4, <2>1 DEF Install, InstallWith
  <2>3. QED BY <1>4, <2>2 DEF Install, InstallWith, NextItem
<1>5. CASE InstallFails
  BY <1>5 DEF InstallFails, RollbackFrom, Faulty
<1>6. CASE RollbackSkip
  BY <1>6 DEF RollbackSkip
<1>7. CASE RollbackRemove
  BY <1>7 DEF RollbackRemove, Faulty, Absent, Partial
<1>8. CASE RollbackRename
  <2>1. saved' \in [Items -> SUBSET (Int \X Int)]
    BY <1>8 DEF RollbackRename
  <2>2. live' \in [Items -> Int] /\ faults' \in Nat
    BY <1>8 DEF RollbackRename, Faulty
  <2>3. QED BY <1>8, <2>1, <2>2 DEF RollbackRename
<1>9. CASE RollbackEnds
  BY <1>0, <1>9 DEF RollbackEnds, Stop, End
<1>10. CASE Cleanup
  <2>1. saved' \in [Items -> SUBSET (Int \X Int)]
    BY <1>10 DEF Cleanup, Partial
  <2>2. faults' \in Nat
    BY <1>10 DEF Cleanup, Faulty
  <2>3. QED BY <1>0, <1>10, <2>1, <2>2 DEF Cleanup, End
<1>11. QED BY <1>1, <1>2, <1>3, <1>4, <1>5, <1>6, <1>7, <1>8, <1>9, <1>10

\* The service, accidents and the death of the tool keep the types.
LEMMA ValuesEnvironment ==
    ASSUME ValuesOK, (\E i \in Items : Work(i) \/ LoseDirectory(i))
                     \/ LoseArtifact \/ Crash
    PROVE  ValuesOK'
<1> USE DEF ValuesOK, Outcomes, disk, tool, run, ghosts, history, Goto, Faulty
<1>0. NoArchive \in Archives /\ [i \in Items |-> None] \in [Items -> Int]
  BY DEF NoArchive, Archives, None
<1>1. ASSUME NEW i \in Items, Work(i)
      PROVE  ValuesOK'
  <2>1. live' \in [Items -> Int] /\ 1 \in Items
    BY <1>1 DEF Work, Items
  <2>2. entitled' \in [Items -> Int] /\ highest' \in Int
    BY <1>1, <2>1 DEF Work
  <2>3. QED BY <1>1, <2>1, <2>2 DEF Work
<1>2. ASSUME NEW i \in Items, LoseDirectory(i)
      PROVE  ValuesOK'
  BY <1>2 DEF LoseDirectory, Absent
<1>3. CASE LoseArtifact
  <2>1. artifact' \in Archives /\ promised' \in Archives
    BY <1>3 DEF LoseArtifact, Archives
  <2>2. QED BY <1>3, <2>1 DEF LoseArtifact
<1>4. CASE Crash
  BY <1>0, <1>4 DEF Crash, Stop, End
<1>5. QED BY <1>1, <1>2, <1>3, <1>4

LEMMA ValuesStep ==
    ASSUME ValuesOK, [Next]_vars
    PROVE  ValuesOK'
<1>1. CASE UNCHANGED vars
  BY <1>1 DEF ValuesOK, vars, disk, tool, run, ghosts, history
<1>2. QED
  BY <1>1, ValuesTool, ValuesPublish, ValuesEnvironment DEF Next

\* Every flag is only ever set to a truth value.
LEMMA FlagsStep ==
    ASSUME FlagsOK, [Next]_vars
    PROVE  FlagsOK'
<1> USE DEF FlagsOK, run, tool, ghosts, history
<1>1. CASE Backup
  BY <1>1, Zenon DEF Backup, Start
<1>2. ASSUME NEW r \in BOOLEAN, Restore(r)
      PROVE  FlagsOK'
  BY <1>2, Zenon DEF Restore, Start
<1>3. CASE RenameArtifact
  BY <1>3, Zenon DEF RenameArtifact, End
<1>4. ASSUME NEW i \in Items, Work(i)
      PROVE  FlagsOK'
  BY <1>4, Zenon DEF Work
<1>5. CASE Install
  BY <1>5, Zenon DEF Install, InstallWith, DataStays
<1>6. CASE Collect \/ WriteTemp \/ Stage \/ NothingToSetAside
  BY <1>6, Zenon DEF Collect, WriteTemp, Stage, NothingToSetAside, Proceed
<1>7. CASE CollectFails \/ CreateFails \/ RejectArchive \/ RejectExisting
           \/ StageFails \/ RollbackEnds \/ Crash
  BY <1>7, Zenon DEF CollectFails, CreateFails, RejectArchive, RejectExisting,
     StageFails, RollbackEnds, Crash, Stop, End, DataStays
<1>8. CASE SetAside \/ SetAsideFails \/ InstallFails
  BY <1>8, Zenon DEF SetAside, SetAsideFails, InstallFails, RollbackFrom
<1>9. CASE RollbackSkip \/ RollbackRemove \/ RollbackRename
  BY <1>9, Zenon DEF RollbackSkip, RollbackRemove, RollbackRename, DataStays
<1>10. CASE Cleanup
  BY <1>10, Zenon DEF Cleanup, End
<1>11. CASE LoseArtifact \/ \E i \in Items : LoseDirectory(i)
  BY <1>11, Zenon DEF LoseArtifact, LoseDirectory
<1>12. CASE UNCHANGED vars
  BY <1>12, Zenon DEF vars
<1>13. QED
  BY <1>1, <1>2, <1>3, <1>4, <1>5, <1>6, <1>7, <1>8, <1>9, <1>10, <1>11, <1>12
     DEF Next

\* The directories hold contents, the labels of the tool and the counts of runs
\* and faults stay in their ranges, and an item is under the index where one is
\* read.
THEOREM TypeCorrect == Spec => []TypeOK
<1>1. Init => TypeOK
  BY ValuesInit, Zenon DEF Init, TypeOK, FlagsOK
<1>2. TypeOK /\ [Next]_vars => TypeOK'
  BY ValuesStep, FlagsStep DEF TypeOK
<1>3. QED BY <1>1, <1>2, PTL DEF Spec

-----------------------------------------------------------------------------
(* Progress is inductive *)

LEMMA ProgressInit == Init => Progress
<1> SUFFICES ASSUME Init
             PROVE  Progress
  OBVIOUS
<1> USE DEF Init, Items, None, CreateLabels, RestoreLabels, PublishLabels, RollbackLabels
<1>1. ArchivesSound /\ BackupSurvives /\ Fresh /\ Installed
  BY DEF ArchivesSound, Sound, NoArchive, BackupSurvives, Fresh, Installed
<1>2. OwedIsKept /\ StateNeverLost /\ Undoable
  BY DEF OwedIsKept, StateNeverLost, Undoable
<1>3. FailedRestoreRollsBack /\ CountersCurrent /\ RestoreComplete /\ BackupsAreAccepted
  BY DEF FailedRestoreRollsBack, CountersCurrent, Current, RestoreComplete,
         BackupsAreAccepted
<1>4. QED BY <1>1, <1>2, <1>3 DEF Progress

\* A step that ends the run and leaves the disk as it is.
Ends ==
    \/ CollectFails \/ CreateFails \/ RejectArchive \/ RejectExisting
    \/ StageFails \/ RollbackEnds \/ Crash

\* Whatever ends the run this way, nothing is lost, and a run that ends with an
\* error has undone what it did.
LEMMA ProgressEnds ==
    ASSUME TypeOK, Progress, Ends
    PROVE  Progress'
<1> USE BackupAssumption
    DEF TypeOK, ValuesOK, Archives, CreateLabels, RestoreLabels, PublishLabels,
        RollbackLabels, Items, None, Goto
<1>1. Stop("failed") \/ Stop("rejected") \/ Crash
  BY DEF Ends, CollectFails, CreateFails, RejectArchive, RejectExisting,
         StageFails, RollbackEnds
<1>2. /\ pc' = "idle" /\ item' = 1 /\ old' = [i \in Items |-> None]
      /\ UNCHANGED <<live, saved, artifact, start, entitled, promised, highest>>
      /\ UNCHANGED stale
      /\ outcome' \in {"failed", "rejected", "crashed"}
  BY <1>1 DEF Stop, Crash, End, disk, ghosts, history
<1>3. ArchivesSound' /\ BackupSurvives' /\ Fresh' /\ Installed'
  BY <1>2 DEF Progress, ArchivesSound, Sound, BackupSurvives, Fresh, Installed
<1>4. OwedIsKept' /\ StateNeverLost' /\ RestoreComplete'
  BY <1>2 DEF Progress, OwedIsKept, StateNeverLost, Kept, RestoreComplete
<1>5. Undoable' /\ FailedRestoreRollsBack'
  <2>1. /\ faults' \in {faults, faults + 1}
        /\ ~Crash => \/ pc \in CreateLabels \cup {"check"}
                     \/ RollbackEnds /\ UNCHANGED faults
    BY DEF Ends, CollectFails, CreateFails, RejectArchive, RejectExisting,
           StageFails, RollbackEnds, Faulty, Crash, Stop, End, run
  <2>2. Undoable'
    <3>1. start'.faults <= faults' /\ \A i \in Items : start'.live[i] # None
      BY <1>2, <2>1 DEF Progress, Undoable
    <3>2. QED BY <1>2, <3>1 DEF Undoable
  <2>3. CASE Crash
    BY <2>3, <2>2, <1>2 DEF Crash, Stop, End, FailedRestoreRollsBack
  <2>4. CASE pc \in CreateLabels \cup {"check"}
    BY <2>4, <2>1, <2>2, <1>2 DEF Progress, Undoable, FailedRestoreRollsBack
  <2>5. CASE RollbackEnds /\ UNCHANGED faults
    BY <2>5, <2>2, <1>2 DEF RollbackEnds, Progress, Undoable, Restored,
                      FailedRestoreRollsBack
  <2>6. QED BY <2>1, <2>2, <2>3, <2>4, <2>5
<1>6. BackupsAreAccepted'
  <2>1. CASE RejectArchive
    BY <2>1, <1>2 DEF RejectArchive, Acceptable, Progress, ArchivesSound, Sound,
                      BackupsAreAccepted
  <2>2. CASE ~RejectArchive
    BY <2>2 DEF Ends, CollectFails, CreateFails, RejectExisting, StageFails,
                RollbackEnds, Crash, Stop, End, BackupsAreAccepted
  <2>3. QED BY <2>1, <2>2
<1>7. CountersCurrent'
  <2>1. CASE Crash
    <3>1. /\ pc # "idle"
          /\ rewound' = (rewound \/ (stale /\ live[1] >= 0 /\ live[1] # start.live[1]))
      BY <2>1, <1>2 DEF Crash, DataStays
    <3>2. ASSUME ~rewound'
          PROVE  Current(live[1])
      <4>1. ~rewound /\ (~stale \/ ~(live[1] >= 0) \/ live[1] = start.live[1])
        BY <3>1, <3>2, Zenon
      <4>2. \/ live[1] = start.live[1]
            \/ live[1] \in {Absent, Partial, start.live[1], artifact.content[1]}
        BY <3>1, <4>1 DEF Progress, Undoable, CountersCurrent
      <4>3. Current(start.live[1]) /\ (~stale => Current(artifact.content[1]))
        BY <3>1, <4>1 DEF Progress, CountersCurrent
      <4>4. QED BY <4>1, <4>2, <4>3 DEF Current, Absent, Partial
    <3>3. ~rewound' => ~rewound
      BY <3>1, Zenon
    <3>4. QED BY <1>2, <3>2, <3>3 DEF Progress, CountersCurrent, Current
  <2>2. CASE ~Crash
    <3>1. UNCHANGED rewound /\ (pc \in CreateLabels \cup {"check"} \/ (pc = "rollback" /\ item = 0))
      BY <2>2 DEF Ends, CollectFails, CreateFails, RejectArchive, RejectExisting,
                  StageFails, RollbackEnds, Stop, ghosts, history
    <3>2. QED BY <1>2, <3>1 DEF Progress, Undoable, CountersCurrent, Current
  <2>3. QED BY <2>1, <2>2
<1>8. QED BY <1>3, <1>4, <1>5, <1>6, <1>7 DEF Progress

\* Create, and Restore up to publish.
LEMMA ProgressTool ==
    ASSUME TypeOK, Progress,
           Backup \/ Collect \/ WriteTemp \/ RenameArtifact
           \/ (\E r \in BOOLEAN : Restore(r)) \/ Stage
    PROVE  Progress'
<1> USE BackupAssumption
    DEF TypeOK, ValuesOK, FlagsOK, Archives, CreateLabels, RestoreLabels,
        PublishLabels, RollbackLabels, Outcomes, disk, run, ghosts, history,
        Goto, Items, Exists, None, Absent, Progress
<1>1. CASE Backup
  <2>1. ArchivesSound' /\ BackupSurvives' /\ Fresh' /\ Installed'
    BY <1>1 DEF Backup, Start, ArchivesSound, Sound, BackupSurvives, Fresh, Installed
  <2>2. OwedIsKept' /\ StateNeverLost' /\ Undoable' /\ FailedRestoreRollsBack'
    BY <1>1 DEF Backup, Start, ArchivesSound, OwedIsKept, StateNeverLost, Kept, Undoable,
                FailedRestoreRollsBack
  <2>3. CountersCurrent' /\ RestoreComplete' /\ BackupsAreAccepted'
    BY <1>1 DEF Backup, Start, CountersCurrent, Current, RestoreComplete,
                BackupsAreAccepted
  <2>4. QED BY <2>1, <2>2, <2>3
<1>2. CASE Collect
  <2>1. PICK size \in Sizes : ~TooLarge(size) /\ draft' = Encrypted(size)
    BY <1>2 DEF Collect
  <2>2. Sound(draft')
    BY <2>1 DEF ArchivesSound, Sound, TooLarge, Encrypted
  <2>3. ArchivesSound' /\ BackupSurvives' /\ Fresh' /\ Installed'
    BY <1>2, <2>2 DEF Collect, ArchivesSound, Sound, BackupSurvives, Fresh, Installed
  <2>4. OwedIsKept' /\ StateNeverLost' /\ Undoable' /\ FailedRestoreRollsBack'
    BY <1>2 DEF Collect, OwedIsKept, StateNeverLost, Kept, Undoable,
                FailedRestoreRollsBack
  <2>5. CountersCurrent' /\ RestoreComplete' /\ BackupsAreAccepted'
    BY <1>2, <2>1 DEF Collect, Encrypted, Undoable, CountersCurrent, Current,
                      RestoreComplete, BackupsAreAccepted
  <2>6. QED BY <2>3, <2>4, <2>5
<1>3. CASE WriteTemp \/ Stage
  <2>1. ArchivesSound' /\ BackupSurvives' /\ Fresh' /\ Installed'
    BY <1>3 DEF WriteTemp, Stage, Acceptable, Proceed, ArchivesSound, Sound,
                BackupSurvives, Fresh, Installed
  <2>2. OwedIsKept' /\ StateNeverLost' /\ Undoable' /\ FailedRestoreRollsBack'
    BY <1>3 DEF WriteTemp, Stage, Proceed, Fresh, OwedIsKept, StateNeverLost, Kept,
                Undoable, FailedRestoreRollsBack
  <2>3. CountersCurrent' /\ RestoreComplete' /\ BackupsAreAccepted'
    BY <1>3 DEF WriteTemp, Stage, Proceed, CountersCurrent, Current, RestoreComplete,
                BackupsAreAccepted
  <2>4. QED BY <2>1, <2>2, <2>3
<1>4. CASE RenameArtifact
  <2>1. ArchivesSound' /\ BackupSurvives' /\ Fresh' /\ Installed'
    BY <1>4 DEF RenameArtifact, End, ArchivesSound, Sound,
                BackupSurvives, Fresh, Installed
  <2>2. OwedIsKept' /\ StateNeverLost' /\ Undoable' /\ FailedRestoreRollsBack'
    BY <1>4 DEF RenameArtifact, End, OwedIsKept, StateNeverLost, Kept,
                Undoable, FailedRestoreRollsBack
  <2>3. CountersCurrent' /\ RestoreComplete' /\ BackupsAreAccepted'
    BY <1>4 DEF RenameArtifact, End, Undoable, CountersCurrent, Current,
                RestoreComplete, BackupsAreAccepted
  <2>4. QED BY <2>1, <2>2, <2>3
<1>5. ASSUME NEW r \in BOOLEAN, Restore(r)
      PROVE  Progress'
  <2>1. ArchivesSound' /\ BackupSurvives' /\ Fresh' /\ Installed'
    BY <1>5 DEF Restore, Start, ArchivesSound, Sound, BackupSurvives, Fresh, Installed
  <2>2. OwedIsKept' /\ StateNeverLost' /\ Undoable' /\ FailedRestoreRollsBack'
    BY <1>5 DEF Restore, Start, ArchivesSound, OwedIsKept, StateNeverLost, Kept, Undoable,
                FailedRestoreRollsBack
  <2>3. CountersCurrent' /\ RestoreComplete' /\ BackupsAreAccepted'
    BY <1>5 DEF Restore, Start, CountersCurrent, Current, RestoreComplete,
                BackupsAreAccepted
  <2>4. QED BY <2>1, <2>2, <2>3
<1>6. QED BY <1>1, <1>2, <1>3, <1>4, <1>5

\* publish: SetAside and Install, and the failures that begin a rollback.
LEMMA ProgressPublish ==
    ASSUME TypeOK, Progress,
           SetAside \/ NothingToSetAside \/ SetAsideFails \/ Install \/ InstallFails
    PROVE  Progress'
<1> USE BackupAssumption
    DEF TypeOK, ValuesOK, FlagsOK, Archives, CreateLabels, RestoreLabels,
        PublishLabels, RollbackLabels, Outcomes, disk, run, ghosts, history,
        Goto, Items, Exists, None, Absent, Progress
<1>1. CASE SetAside
  <2>1. ArchivesSound' /\ BackupSurvives' /\ Fresh' /\ Installed'
    BY <1>1 DEF SetAside, ArchivesSound, Sound, BackupSurvives, Fresh, Installed
  <2>2. OwedIsKept' /\ StateNeverLost'
    <3>1. \A i \in Items : Kept(i) \subseteq Kept(i)'
      BY <1>1 DEF SetAside, Kept
    <3>2. live[item] \in Kept(item)'
      <4>1. <<attempt, live[item]>> \in saved'[item] /\ item' = item
        BY <1>1 DEF SetAside
      <4>2. <<attempt, live[item]>>[2] = live[item]
        OBVIOUS
      <4>3. QED BY <4>1, <4>2 DEF Kept
    <3>3. \A i \in Items \ {item} : live'[i] = live[i] /\ old'[i] = old[i]
      BY <1>1 DEF SetAside
    <3>4. pc' = "install" /\ item' = item /\ live'[item] = Absent
      BY <1>1 DEF SetAside
    <3>5. \A i \in Items : old'[i] # None => Owed(i)'
      BY <1>1, <3>1, <3>2, <3>3 DEF SetAside, OwedIsKept, Owed, StateNeverLost
    <3>6. StateNeverLost'
      BY <1>1, <3>1, <3>2, <3>3 DEF SetAside, StateNeverLost
    <3>7. QED BY <3>4, <3>5, <3>6 DEF OwedIsKept
  <2>3. Undoable' /\ FailedRestoreRollsBack'
    BY <1>1 DEF SetAside, ArchivesSound, Undoable, WasSetAside, FailedRestoreRollsBack
  <2>4. CountersCurrent' /\ RestoreComplete' /\ BackupsAreAccepted'
    BY <1>1 DEF SetAside, CountersCurrent, Current, RestoreComplete, BackupsAreAccepted
  <2>5. QED BY <2>1, <2>2, <2>3, <2>4
<1>2. CASE NothingToSetAside
  <2>1. ArchivesSound' /\ BackupSurvives' /\ Fresh' /\ Installed'
    BY <1>2 DEF NothingToSetAside, Proceed, ArchivesSound, Sound, BackupSurvives,
                Fresh, Installed
  <2>2. OwedIsKept' /\ StateNeverLost' /\ Undoable' /\ FailedRestoreRollsBack'
    BY <1>2 DEF NothingToSetAside, Proceed, OwedIsKept, Owed, StateNeverLost, Kept,
                Undoable, WasSetAside, FailedRestoreRollsBack
  <2>3. CountersCurrent' /\ RestoreComplete' /\ BackupsAreAccepted'
    BY <1>2 DEF NothingToSetAside, Proceed, CountersCurrent, Current,
                RestoreComplete, BackupsAreAccepted
  <2>4. QED BY <2>1, <2>2, <2>3
<1>3. CASE SetAsideFails \/ InstallFails
  <2>1. ArchivesSound' /\ BackupSurvives' /\ Fresh' /\ Installed'
    BY <1>3 DEF SetAsideFails, InstallFails, RollbackFrom, ArchivesSound, Sound,
                BackupSurvives, Fresh, Installed
  <2>2. OwedIsKept' /\ StateNeverLost'
    BY <1>3 DEF SetAsideFails, InstallFails, RollbackFrom, OwedIsKept, Owed,
                StateNeverLost, Kept
  <2>3. Undoable' /\ FailedRestoreRollsBack'
    BY <1>3 DEF SetAsideFails, InstallFails, RollbackFrom, Faulty, Undoable,
                WasSetAside, Restored, FailedRestoreRollsBack
  <2>4. CountersCurrent' /\ RestoreComplete' /\ BackupsAreAccepted'
    BY <1>3 DEF SetAsideFails, InstallFails, RollbackFrom, Undoable, CountersCurrent,
                Current, RestoreComplete, BackupsAreAccepted
  <2>5. QED BY <2>1, <2>2, <2>3, <2>4
<1>4. CASE Install
  <2>1. ArchivesSound' /\ BackupSurvives' /\ Fresh' /\ Installed'
    BY <1>4 DEF Install, InstallWith, NextItem, ArchivesSound, Sound,
                BackupSurvives, Fresh, Installed
  <2>2. OwedIsKept' /\ StateNeverLost'
    BY <1>4 DEF Install, InstallWith, NextItem, OwedIsKept, Owed, StateNeverLost, Kept
  <2>3. Undoable' /\ FailedRestoreRollsBack'
    BY <1>4 DEF Install, InstallWith, NextItem, Undoable, WasSetAside,
                FailedRestoreRollsBack
  <2>4. RestoreComplete' /\ BackupsAreAccepted'
    BY <1>4 DEF Install, InstallWith, NextItem, RestoreComplete, BackupsAreAccepted
  <2>5. CountersCurrent'
    <3>1. /\ UNCHANGED <<artifact, start, highest, stale>>
          /\ live'[1] = artifact.content[1]
      BY <1>4 DEF Install, InstallWith, Installed
    <3>2. CASE item = 1
      BY <1>4, <3>1, <3>2 DEF Install, InstallWith, NextItem, CountersCurrent, Current
    <3>3. CASE item = 2
      <4>1. /\ pc' = "cleanup"
            /\ rewound' = (rewound \/ (stale /\ live'[1] >= 0 /\ live'[1] # start.live[1]))
        BY <1>4, <3>3 DEF Install, InstallWith, NextItem, DataStays
      <4>2. ~rewound' =>
               ~rewound /\ (~stale \/ ~(live'[1] >= 0) \/ live'[1] = start.live[1])
        BY <4>1, Zenon
      <4>3. QED BY <1>4, <3>1, <4>1, <4>2 DEF Install, InstallWith, CountersCurrent, Current
    <3>4. QED BY <1>4, <3>2, <3>3 DEF Install, InstallWith
  <2>6. QED BY <2>1, <2>2, <2>3, <2>4, <2>5
<1>5. QED BY <1>1, <1>2, <1>3, <1>4

\* A data directory that rollback leaves in place is up to date, or counted as
\* rewound.
LEMMA LeftInPlace ==
    ASSUME TypeOK, CountersCurrent, pc \in RollbackLabels, UNCHANGED <<live, highest>>,
           DataStays
    PROVE  /\ ~rewound' => ~rewound
           /\ ~rewound' => Current(live[1])
<1>1. rewound' = (rewound \/ (stale /\ live[1] >= 0 /\ live[1] # start.live[1]))
  BY DEF DataStays
<1>2. ~rewound' => ~rewound /\ (~stale \/ ~(live[1] >= 0) \/ live[1] = start.live[1])
  BY <1>1, Zenon
<1>3. ~rewound' =>
         /\ Current(start.live[1]) /\ (~stale => Current(artifact.content[1]))
         /\ live[1] \in {Absent, Partial, start.live[1], artifact.content[1]}
  BY <1>2 DEF CountersCurrent, RollbackLabels, RestoreLabels
<1>4. QED BY <1>2, <1>3 DEF Current, Absent, Partial

\* rollback and, after publish, the removal of what was set aside.
LEMMA ProgressUndo ==
    ASSUME TypeOK, Progress,
           RollbackSkip \/ RollbackRemove \/ RollbackRename \/ Cleanup
    PROVE  Progress'
<1> USE BackupAssumption
    DEF TypeOK, ValuesOK, FlagsOK, Archives, CreateLabels, RestoreLabels,
        PublishLabels, RollbackLabels, Outcomes, disk, run, ghosts, history,
        Goto, Items, Exists, None, Absent, Partial, Progress
<1>1. CASE RollbackSkip
  <2>1. ArchivesSound' /\ BackupSurvives' /\ Fresh' /\ Installed'
    BY <1>1 DEF RollbackSkip, ArchivesSound, Sound, BackupSurvives, Fresh, Installed
  <2>2. OwedIsKept' /\ StateNeverLost'
    BY <1>1 DEF RollbackSkip, OwedIsKept, Owed, StateNeverLost, Kept
  <2>3. Undoable' /\ FailedRestoreRollsBack'
    <3>1. Restored(item)
      BY <1>1 DEF RollbackSkip, Undoable, WasSetAside, Restored
    <3>2. \A i \in Items : i > item - 1 => i = item \/ i > item
      OBVIOUS
    <3>3. \A i \in Items : Restored(i)' <=> Restored(i)
      BY <1>1 DEF RollbackSkip, Restored
    <3>4. \A i \in Items : WasSetAside(i)' <=> WasSetAside(i)
      BY <1>1 DEF RollbackSkip, WasSetAside
    <3>5. QED
      BY <1>1, <3>1, <3>2, <3>3, <3>4 DEF RollbackSkip, Undoable, FailedRestoreRollsBack
  <2>4. RestoreComplete' /\ BackupsAreAccepted'
    BY <1>1 DEF RollbackSkip, RestoreComplete, BackupsAreAccepted
  <2>5. CountersCurrent'
    <3>1. /\ UNCHANGED <<live, artifact, start, highest, stale, pc, draft>>
          /\ pc = "rollback" /\ item' = item - 1 /\ item \in 1 .. 2
      BY <1>1 DEF RollbackSkip
    <3>2. CASE item = 1
      BY <1>1, <3>1, <3>2, LeftInPlace DEF RollbackSkip, CountersCurrent, Current
    <3>3. CASE item = 2
      BY <1>1, <3>1, <3>3 DEF RollbackSkip, CountersCurrent, Current
    <3>4. QED BY <3>1, <3>2, <3>3
  <2>6. QED BY <2>1, <2>2, <2>3, <2>4, <2>5
<1>2. CASE RollbackRemove
  <2>1. ArchivesSound' /\ BackupSurvives' /\ Fresh' /\ Installed'
    BY <1>2 DEF RollbackRemove, ArchivesSound, Sound, BackupSurvives, Fresh, Installed
  <2>2. OwedIsKept' /\ StateNeverLost'
    BY <1>2 DEF RollbackRemove, OwedIsKept, Owed, StateNeverLost, Kept
  <2>3. Undoable' /\ FailedRestoreRollsBack'
    BY <1>2 DEF RollbackRemove, Faulty, Undoable, WasSetAside, Restored,
                FailedRestoreRollsBack
  <2>4. CountersCurrent' /\ RestoreComplete' /\ BackupsAreAccepted'
    BY <1>2 DEF RollbackRemove, CountersCurrent, Current, RestoreComplete,
                BackupsAreAccepted
  <2>5. QED BY <2>1, <2>2, <2>3, <2>4
<1>3. CASE RollbackRename
  <2>1. ArchivesSound' /\ BackupSurvives' /\ Fresh' /\ Installed'
    BY <1>3 DEF RollbackRename, Undoable, ArchivesSound, Sound, BackupSurvives,
                Fresh, Installed
  <2>2. OwedIsKept' /\ StateNeverLost'
    BY <1>3 DEF RollbackRename, Undoable, OwedIsKept, Owed, StateNeverLost, Kept
  <2>3. Undoable' /\ FailedRestoreRollsBack'
    BY <1>3 DEF RollbackRename, Faulty, Undoable, WasSetAside, Restored,
                FailedRestoreRollsBack
  <2>4. RestoreComplete' /\ BackupsAreAccepted'
    BY <1>3 DEF RollbackRename, RestoreComplete, BackupsAreAccepted
  <2>5. CountersCurrent'
    <3>1. /\ UNCHANGED <<artifact, start, highest, stale, draft>>
          /\ pc = "putBack" /\ pc' = "rollback" /\ item' = item - 1 /\ item \in 1 .. 2
      BY <1>3 DEF RollbackRename
    <3>2. CASE item = 2
      BY <1>3, <3>1, <3>2 DEF RollbackRename, DataStays, CountersCurrent, Current
    <3>3. CASE item = 1 /\ Exists(item)
      <4>1. UNCHANGED live /\ DataStays
        BY <1>3, <3>3 DEF RollbackRename
      <4>2. QED BY <3>1, <3>3, <4>1, LeftInPlace DEF CountersCurrent, Current
    <3>4. CASE item = 1 /\ ~Exists(item)
      <4>1. UNCHANGED rewound /\ live'[1] \in {Absent, old[1]}
        BY <1>3, <3>4 DEF RollbackRename
      <4>2. old[1] = start.live[1]
        BY <3>1, <3>4 DEF Undoable, WasSetAside
      <4>3. QED BY <3>1, <3>4, <4>1, <4>2 DEF CountersCurrent, Current
    <3>5. QED BY <3>1, <3>2, <3>3, <3>4
  <2>6. QED BY <2>1, <2>2, <2>3, <2>4, <2>5
<1>4. CASE Cleanup
  <2>1. ArchivesSound' /\ BackupSurvives' /\ Fresh' /\ Installed'
    BY <1>4 DEF Cleanup, End, ArchivesSound, Sound, BackupSurvives, Fresh, Installed
  <2>2. OwedIsKept' /\ StateNeverLost'
    BY <1>4 DEF Cleanup, End, OwedIsKept, StateNeverLost
  <2>3. Undoable' /\ FailedRestoreRollsBack'
    BY <1>4 DEF Cleanup, End, Faulty, Undoable, FailedRestoreRollsBack
  <2>4. CountersCurrent' /\ BackupsAreAccepted'
    BY <1>4 DEF Cleanup, End, CountersCurrent, Current, BackupsAreAccepted
  <2>5. RestoreComplete'
    BY <1>4 DEF Cleanup, End, Installed, BackupSurvives, RestoreComplete
  <2>6. QED BY <2>1, <2>2, <2>3, <2>4, <2>5
<1>5. QED BY <1>1, <1>2, <1>3, <1>4

\* The service, and accidents between the runs of the tool.
LEMMA ProgressEnvironment ==
    ASSUME TypeOK, Progress,
           (\E i \in Items : Work(i) \/ LoseDirectory(i)) \/ LoseArtifact
    PROVE  Progress'
<1> USE BackupAssumption
    DEF TypeOK, ValuesOK, FlagsOK, Archives, CreateLabels, RestoreLabels,
        PublishLabels, RollbackLabels, Outcomes, disk, tool, run, ghosts, history,
        Goto, Items, Exists, None, Absent, Progress
<1>1. ASSUME NEW i \in Items, Work(i)
      PROVE  Progress'
  <2>1. ArchivesSound' /\ BackupSurvives' /\ Fresh' /\ Installed'
    BY <1>1 DEF Work, ArchivesSound, Sound, BackupSurvives, Fresh, Installed
  <2>2. OwedIsKept' /\ StateNeverLost' /\ Undoable' /\ FailedRestoreRollsBack'
    BY <1>1 DEF Work, OwedIsKept, StateNeverLost, Kept, Undoable,
                FailedRestoreRollsBack
  <2>3. RestoreComplete' /\ BackupsAreAccepted'
    BY <1>1 DEF Work, RestoreComplete, BackupsAreAccepted
  <2>4. CountersCurrent'
    <3>1. /\ pc = "idle" /\ pc' = "idle" /\ live[1] >= 0
          /\ UNCHANGED <<artifact, rewound>>
          /\ stale' = (stale \/ i = 1)
      BY <1>1 DEF Work
    <3>2. CASE i = 1
      <4>1. stale' /\ live'[1] = live[1] + 1
        BY <1>1, <3>2 DEF Work
      <4>2. ~rewound => live'[1] = highest'
        BY <1>1, <3>1, <3>2, <4>1 DEF Work, CountersCurrent, Current
      <4>3. QED BY <3>1, <4>1, <4>2 DEF CountersCurrent, Current
    <3>3. CASE i # 1
      <4>1. UNCHANGED highest /\ live'[1] = live[1]
        BY <1>1, <3>3 DEF Work
      <4>2. ~stale' => ~stale
        BY <3>1, Zenon
      <4>3. QED BY <3>1, <4>1, <4>2 DEF CountersCurrent, Current
    <3>4. QED BY <3>2, <3>3
  <2>5. QED BY <2>1, <2>2, <2>3, <2>4
<1>2. ASSUME NEW i \in Items, LoseDirectory(i)
      PROVE  Progress'
  <2>1. ArchivesSound' /\ BackupSurvives' /\ Fresh' /\ Installed'
    BY <1>2 DEF LoseDirectory, ArchivesSound, Sound, BackupSurvives, Fresh, Installed
  <2>2. OwedIsKept' /\ StateNeverLost' /\ Undoable' /\ FailedRestoreRollsBack'
    BY <1>2 DEF LoseDirectory, Faulty, OwedIsKept, StateNeverLost, Kept, Undoable,
                FailedRestoreRollsBack
  <2>3. CountersCurrent' /\ RestoreComplete' /\ BackupsAreAccepted'
    BY <1>2 DEF LoseDirectory, CountersCurrent, Current, RestoreComplete,
                BackupsAreAccepted
  <2>4. QED BY <2>1, <2>2, <2>3
<1>3. CASE LoseArtifact
  <2>1. ArchivesSound' /\ BackupSurvives' /\ Fresh' /\ Installed'
    BY <1>3 DEF LoseArtifact, ArchivesSound, Sound, BackupSurvives, Fresh, Installed
  <2>2. OwedIsKept' /\ StateNeverLost' /\ Undoable' /\ FailedRestoreRollsBack'
    BY <1>3 DEF LoseArtifact, Faulty, OwedIsKept, StateNeverLost, Kept, Undoable,
                FailedRestoreRollsBack
  <2>3. CountersCurrent' /\ RestoreComplete' /\ BackupsAreAccepted'
    BY <1>3 DEF LoseArtifact, CountersCurrent, Current, RestoreComplete,
                BackupsAreAccepted
  <2>4. QED BY <2>1, <2>2, <2>3
<1>4. QED BY <1>1, <1>2, <1>3

LEMMA ProgressStep ==
    ASSUME TypeOK, Progress, [Next]_vars
    PROVE  Progress'
<1>1. CASE UNCHANGED vars
  <2>1. ArchivesSound' /\ BackupSurvives' /\ Fresh' /\ Installed'
    BY <1>1 DEF vars, disk, tool, run, Progress, ArchivesSound, Sound, BackupSurvives,
                Fresh, Installed, ghosts, history
  <2>2. OwedIsKept' /\ StateNeverLost' /\ Undoable' /\ FailedRestoreRollsBack'
    BY <1>1 DEF vars, disk, tool, ghosts, history, Progress, OwedIsKept, Owed,
                StateNeverLost, Kept, Undoable, WasSetAside, Restored, Exists,
                FailedRestoreRollsBack
  <2>3. CountersCurrent' /\ RestoreComplete' /\ BackupsAreAccepted'
    BY <1>1 DEF vars, disk, tool, ghosts, history, Progress, CountersCurrent, Current,
                RestoreComplete, BackupsAreAccepted
  <2>4. QED BY <2>1, <2>2, <2>3 DEF Progress
<1>2. CASE Ends
  BY <1>2, ProgressEnds
<1>3. CASE ~Ends
  BY <1>1, <1>3, ProgressTool, ProgressPublish, ProgressUndo, ProgressEnvironment
     DEF Next, Ends
<1>4. QED BY <1>2, <1>3

\* The contents of both directories survive every sequence of failed, killed
\* and repeated runs: what the operator last had in place is live or set aside,
\* a single failed operation is undone, and a completed restore is complete.
\* The last completed backup stays in place, is refused only within the
\* overhead of the limit, and the serial counter is set back only by a stale
\* data directory that was installed and stayed.
THEOREM BackupsAndRestores == Spec => []Progress
<1>1. Progress /\ TypeOK /\ [Next]_vars => Progress'
  BY ProgressStep
<1>2. QED BY ProgressInit, <1>1, TypeCorrect, PTL DEF Spec

\* Nothing the operator had in place is lost by Restore, whatever fails and
\* wherever it dies: StateNeverLost.
THEOREM NothingLost == Spec => []StateNeverLost
<1>1. Progress => StateNeverLost
  BY DEF Progress
<1>2. QED BY <1>1, BackupsAndRestores, PTL

\* publish and rollback undo what they did when one operation fails:
\* FailedRestoreRollsBack.
THEOREM FailureUndone == Spec => []FailedRestoreRollsBack
<1>1. Progress => FailedRestoreRollsBack
  BY DEF Progress
<1>2. QED BY <1>1, BackupsAndRestores, PTL

\* Restore reports success only with both directories in place: RestoreComplete.
THEOREM RestoresComplete == Spec => []RestoreComplete
<1>1. Progress => RestoreComplete
  BY DEF Progress
<1>2. QED BY <1>1, BackupsAndRestores, PTL

\* Create replaces the output only by a complete archive: BackupSurvives.
THEOREM BackupKept == Spec => []BackupSurvives
<1>1. Progress => BackupSurvives
  BY DEF Progress
<1>2. QED BY <1>1, BackupsAndRestores, PTL

\* An archive Create completed is refused by Restore only for the overhead
\* Create does not count: BackupsAreAccepted.
THEOREM BackupsAccepted == Spec => []BackupsAreAccepted
<1>1. Progress => BackupsAreAccepted
  BY DEF Progress
<1>2. QED BY <1>1, BackupsAndRestores, PTL

\* Backups and restores leave the serial counter where it last was, failed,
\* rejected and rolled back restores of an old backup included, unless the data
\* directory of one was left in place: CounterNotRewound.
THEOREM CounterKept == Spec => []CounterNotRewound
<1>1. Progress => CounterNotRewound
  BY DEF Progress, CountersCurrent, Current, CounterNotRewound
<1>2. QED BY <1>1, BackupsAndRestores, PTL
=============================================================================
