--------------------------- MODULE BackupRestore ---------------------------
(***************************************************************************)
(* certarium-backup, backup.Create and backup.Restore with publish and     *)
(* rollback.  Create collects the data and the configuration directory     *)
(* into one artifact, which replaces the last one.  Restore replaces both  *)
(* directories by the contents of the artifact, first the data directory:  *)
(* each is set aside under a .before-restore name, the staged copy is      *)
(* renamed into its place and only then the old ones are removed.          *)
(*                                                                         *)
(* The content of a directory is a version number.  That of the data       *)
(* directory stands for its serial counter: an issuance draws the number   *)
(* it finds and leaves the next one.  The operator runs the tool with the  *)
(* service stopped, one run after the other, and the service in between.   *)
(***************************************************************************)
EXTENDS Integers, FiniteSets

CONSTANTS
    MaxRuns,        \* bound on the runs of the tool
    MaxFaults,      \* bound on the file operations that fail, and on accidents
    MaxVersion,     \* bound on the changes the service makes
    MaxBackupSize,  \* the limit of Create and Restore
    Overhead,       \* what tar trailer and encryption add after Create's check
    Sizes           \* the sizes an archive may have before that

\* publish handles the data directory before the configuration directory.
Items == 1 .. 2

ASSUME BackupAssumption ==
    /\ MaxRuns \in Nat \ {0}
    /\ MaxFaults \in Nat
    /\ MaxVersion \in Nat
    /\ MaxBackupSize \in Nat
    /\ Overhead \in 1 .. MaxBackupSize
    /\ Sizes \subseteq Nat

VARIABLES
    live,       \* what each directory holds
    saved,      \* its .before-restore directories, as <<run, content>>
    artifact,   \* the backup file: contents, size, whether it can be decrypted
    pc,         \* what the tool does next
    item,       \* the index i of publish or rollback
    attempt,    \* number of the current run
    replace,    \* the -replace flag
    draft,      \* the archive Create has made
    old,        \* publication.old: what this attempt set aside, or None
    outcome,    \* how the last run ended, if nothing happened since
    faults,     \* failures so far
    start,      \* live and faults when the run began, for the properties
    entitled,   \* what the operator last had in place, for the properties
    promised,   \* the last backup that replaced the artifact, for the properties
    highest,    \* the highest version of the data directory, for the properties
    stale,      \* whether the data changed since then, for the properties
    rewound     \* a stale data directory was left in place, for the properties

run == <<attempt, replace>>
tool == <<pc, item, run, draft, old, outcome>>
disk == <<live, saved, artifact>>
history == <<entitled, promised, highest, stale, rewound>>
ghosts == <<start, history>>
vars == <<disk, tool, faults, ghosts>>

Absent == -1
Partial == -2     \* a directory that os.RemoveAll began to remove
None == -3        \* publication.old == ""

Exists(i) == live[i] # Absent
Kept(i) == {s[2] : s \in saved[i]}

NoArchive == [content |-> [i \in Items |-> None], size |-> 0, intact |-> FALSE]

Goto(label) == pc' = label

\* A file operation that fails uses up the budget of faults.
Faulty == faults < MaxFaults /\ faults' = faults + 1

End(result) ==
    /\ Goto("idle")
    /\ outcome' = result
    /\ item' = 1
    /\ old' = [i \in Items |-> None]
    /\ draft' = NoArchive
    /\ UNCHANGED run

\* The run ends and leaves everything as it is.
Stop(result) == End(result) /\ UNCHANGED <<disk, ghosts>>

Proceed(label) == Goto(label) /\ UNCHANGED <<disk, item, run, draft, old, outcome, faults, ghosts>>

Start(label, r) ==
    /\ pc = "idle"
    /\ attempt < MaxRuns
    /\ attempt' = attempt + 1
    /\ replace' = r
    /\ outcome' = "running"
    /\ start' = [live |-> live, faults |-> faults]
    /\ Goto(label)
    /\ UNCHANGED <<disk, item, draft, old, faults>>

-----------------------------------------------------------------------------
(* Create *)

Backup == Start("collect", FALSE) /\ UNCHANGED history

\* collect needs both directories; makeArchive checks its size while it writes.
TooLargeWithOverhead(size) == size > MaxBackupSize + Overhead
TooLarge(size) == size > MaxBackupSize

\* Trailer, salt, nonce and tag come on top of what was checked.
Encrypted(size) == [content |-> live, size |-> size + Overhead, intact |-> TRUE]

Collect ==
    /\ pc = "collect"
    /\ \A i \in Items : Exists(i)
    /\ \E size \in Sizes :
          /\ ~TooLarge(size)
          /\ draft' = Encrypted(size)
    /\ Goto("write")
    /\ UNCHANGED <<disk, item, run, old, outcome, faults, ghosts>>

CollectFails ==
    /\ pc = "collect"
    /\ \/ \E i \in Items : ~Exists(i)
       \/ \E size \in Sizes : TooLarge(size)
    /\ Stop("failed")
    /\ UNCHANGED faults

\* The encrypted archive goes to a temporary file beside the output.
WriteInPlace ==
    /\ pc = "write"
    /\ artifact' = [draft EXCEPT !.intact = FALSE]
    /\ Goto("rename")
    /\ UNCHANGED <<live, saved, item, run, draft, old, outcome, faults, ghosts>>
WriteTemp ==
    /\ pc = "write"
    /\ Proceed("rename")

RenameArtifact ==
    /\ pc = "rename"
    /\ artifact' = draft
    /\ End("saved")
    /\ promised' = draft
    /\ stale' = FALSE
    /\ UNCHANGED <<live, saved, faults, start, entitled, highest, rewound>>

\* The temporary file is removed, the output is what it was.
CreateFails ==
    /\ pc \in {"collect", "write", "rename"}
    /\ Faulty
    /\ Stop("failed")

-----------------------------------------------------------------------------
(* Restore *)

Restore(r) == Start("check", r) /\ UNCHANGED history

\* A regular file within the limit, which the password decrypts.
Acceptable == artifact.intact /\ artifact.size <= MaxBackupSize

RejectArchive ==
    /\ pc = "check"
    /\ ~Acceptable
    /\ Stop("rejected")
    /\ UNCHANGED faults

\* Without -replace neither destination may exist.
RejectExisting ==
    /\ pc = "check"
    /\ Acceptable
    /\ ~replace
    /\ \E i \in Items : Exists(i)
    /\ Stop("failed")
    /\ UNCHANGED faults

\* Both archives are materialized next to their destinations.
Stage ==
    /\ pc = "check"
    /\ Acceptable
    /\ replace \/ \A i \in Items : ~Exists(i)
    /\ Proceed("aside")

StageFails ==
    /\ pc = "check"
    /\ Faulty
    /\ Stop("failed")

-----------------------------------------------------------------------------
(* publish *)

\* This step leaves the data directory as the run made it: the service can go
\* on with the serial counter of a backup from before its last issuance.
DataStays ==
    rewound' = (rewound \/ (stale /\ live'[1] >= 0 /\ live'[1] # start.live[1]))

SetAside ==
    /\ pc = "aside"
    /\ Exists(item)
    /\ old' = [old EXCEPT ![item] = live[item]]
    /\ saved' = [saved EXCEPT ![item] = @ \cup {<<attempt, live[item]>>}]
    /\ live' = [live EXCEPT ![item] = Absent]
    /\ Goto("install")
    /\ UNCHANGED <<item, artifact, run, draft, outcome, faults, ghosts>>

NothingToSetAside ==
    /\ pc = "aside"
    /\ ~Exists(item)
    /\ Proceed("install")

\* rollback(items, count) visits count - 1, ..., 0: here count, ..., 1.
RollbackFrom(i) ==
    /\ item' = i
    /\ Goto("rollback")
    /\ UNCHANGED <<disk, run, draft, old, outcome, ghosts>>

\* rollback(items, i): this item is where it was, the ones before it are undone.
SetAsideFailsOffByOne ==
    /\ pc = "aside"
    /\ Faulty
    /\ RollbackFrom(IF item = 1 THEN 0 ELSE item - 2)
SetAsideFails ==
    /\ pc = "aside"
    /\ Faulty
    /\ RollbackFrom(item - 1)

NextItem ==
    /\ item' = IF item = 2 THEN 1 ELSE 2
    /\ Goto(IF item = 2 THEN "cleanup" ELSE "aside")

InstallWith(kept) ==
    /\ pc = "install"
    /\ live' = [live EXCEPT ![item] = artifact.content[item]]
    /\ saved' = kept
    /\ NextItem
    /\ \/ /\ item = 1
          /\ UNCHANGED <<entitled, rewound>>
       \/ /\ item = 2
          /\ entitled' = live'
          /\ DataStays
    /\ UNCHANGED <<artifact, run, draft, old, outcome, faults, start, promised, highest, stale>>
InstallKeepingNothing ==
    InstallWith([saved EXCEPT ![item] = @ \ {<<attempt, old[item]>>}])
Install == InstallWith(saved)

\* rollback(items, i+1): this item was set aside, so it is undone as well.
InstallErrorIgnored ==
    /\ pc = "install"
    /\ Faulty
    /\ NextItem
    /\ UNCHANGED <<disk, run, draft, old, outcome, ghosts>>
InstallFailsOffByOne ==
    /\ pc = "install"
    /\ Faulty
    /\ RollbackFrom(item - 1)
InstallFails ==
    /\ pc = "install"
    /\ Faulty
    /\ RollbackFrom(item)

-----------------------------------------------------------------------------
(* rollback: errors are ignored, an item without an old directory is skipped *)

\* Nothing was there before: what was installed stays.
RollbackSkip ==
    /\ pc = "rollback"
    /\ item > 0
    /\ old[item] = None
    /\ item' = item - 1
    /\ UNCHANGED <<live, saved, pc, artifact, run, draft, old, outcome, faults>>
    /\ UNCHANGED <<start, entitled, promised, highest, stale>>
    /\ IF item = 1 THEN DataStays ELSE UNCHANGED rewound

RollbackRemove ==
    /\ pc = "rollback"
    /\ item > 0
    /\ old[item] # None
    /\ \/ /\ live' = [live EXCEPT ![item] = Absent]
          /\ UNCHANGED faults
       \/ /\ Exists(item)
          /\ Faulty
          /\ \E rest \in {live[item], Partial} : live' = [live EXCEPT ![item] = rest]
    /\ Goto("putBack")
    /\ UNCHANGED <<saved, item, artifact, run, draft, old, outcome, ghosts>>

\* A directory cannot be renamed over one that is not empty, which then stays.
RollbackRename ==
    /\ pc = "putBack"
    /\ item' = item - 1
    /\ Goto("rollback")
    /\ \/ /\ ~Exists(item)
          /\ live' = [live EXCEPT ![item] = old[item]]
          /\ saved' = [saved EXCEPT ![item] = @ \ {<<attempt, old[item]>>}]
          /\ UNCHANGED <<faults, rewound>>
       \/ /\ Exists(item)
          /\ UNCHANGED <<live, saved, faults>>
          /\ IF item = 1 THEN DataStays ELSE UNCHANGED rewound
       \/ /\ ~Exists(item)
          /\ Faulty
          /\ UNCHANGED <<live, saved, rewound>>
    /\ UNCHANGED <<artifact, run, draft, old, outcome, start, entitled, promised, highest, stale>>

RollbackEnds ==
    /\ pc = "rollback"
    /\ item = 0
    /\ Stop("failed")
    /\ UNCHANGED faults

-----------------------------------------------------------------------------
(* After both are installed the old directories go; errors are ignored *)

Cleanup ==
    /\ pc = "cleanup"
    /\ \/ /\ saved' = [saved EXCEPT ![item] = @ \ {<<attempt, old[item]>>}]
          /\ UNCHANGED faults
       \/ /\ old[item] # None
          /\ Faulty
          /\ saved' = [saved EXCEPT ![item] =
                (@ \ {<<attempt, old[item]>>}) \cup {<<attempt, Partial>>}]
    /\ \/ /\ item = 1
          /\ item' = 2
          /\ UNCHANGED <<pc, run, draft, old, outcome>>
       \/ /\ item = 2
          /\ End("done")
    /\ UNCHANGED <<live, artifact, ghosts>>

-----------------------------------------------------------------------------
(* The operator, the service and the host *)

\* The service issues or revokes, or the operator edits the configuration.
Work(i) ==
    /\ pc = "idle"
    /\ \A j \in Items : live[j] >= 0
    /\ live[i] < MaxVersion
    /\ live' = [live EXCEPT ![i] = @ + 1]
    /\ entitled' = [entitled EXCEPT ![i] = live'[i]]
    /\ highest' = IF i = 1 /\ live'[1] > highest THEN live'[1] ELSE highest
    /\ stale' = (stale \/ i = 1)
    /\ outcome' = "none"
    /\ UNCHANGED <<saved, artifact, pc, item, run, draft, old, faults, start, promised, rewound>>

\* A directory is lost, or the host: the operator is left with the artifact.
LoseDirectory(i) ==
    /\ pc = "idle"
    /\ Exists(i)
    /\ Faulty
    /\ live' = [live EXCEPT ![i] = Absent]
    /\ entitled' = [entitled EXCEPT ![i] = Absent]
    /\ outcome' = "none"
    /\ UNCHANGED <<saved, artifact, pc, item, run, draft, old, start, promised, highest, stale, rewound>>

\* The artifact is damaged, or its password forgotten.
LoseArtifact ==
    /\ pc = "idle"
    /\ artifact.intact
    /\ Faulty
    /\ artifact' = [artifact EXCEPT !.intact = FALSE]
    /\ promised' = [promised EXCEPT !.intact = FALSE]
    /\ UNCHANGED <<live, saved, tool, start, entitled, highest, stale, rewound>>

\* The tool is killed or the host stops.
Crash ==
    /\ pc # "idle"
    /\ End("crashed")
    /\ UNCHANGED <<disk, faults, start, entitled, promised, highest, stale>>
    /\ DataStays

-----------------------------------------------------------------------------
(* Specification *)

Init ==
    /\ live = [i \in Items |-> 0]
    /\ saved = [i \in Items |-> {}]
    /\ artifact = NoArchive
    /\ pc = "idle"
    /\ item = 1
    /\ attempt = 0
    /\ replace = FALSE
    /\ draft = NoArchive
    /\ old = [i \in Items |-> None]
    /\ outcome = "none"
    /\ faults = 0
    /\ start = [live |-> live, faults |-> 0]
    /\ entitled = live
    /\ promised = NoArchive
    /\ highest = 0
    /\ stale = TRUE
    /\ rewound = FALSE

Next ==
    \/ Backup \/ Collect \/ CollectFails \/ WriteTemp \/ RenameArtifact
    \/ CreateFails
    \/ \E r \in BOOLEAN : Restore(r)
    \/ RejectArchive \/ RejectExisting \/ Stage \/ StageFails
    \/ SetAside \/ NothingToSetAside \/ SetAsideFails
    \/ Install \/ InstallFails
    \/ RollbackSkip \/ RollbackRemove \/ RollbackRename \/ RollbackEnds
    \/ Cleanup \/ Crash
    \/ \E i \in Items : Work(i) \/ LoseDirectory(i)
    \/ LoseArtifact

Spec == Init /\ [][Next]_vars

-----------------------------------------------------------------------------
(* Properties.  TooLargeWithOverhead, WriteInPlace, SetAsideFailsOffByOne,  *)
(* InstallKeepingNothing, InstallErrorIgnored and InstallFailsOffByOne are  *)
(* broken variants the properties are tried against; the specification does *)
(* not use them.                                                            *)

\* SPEC-v0.1-release: a replacement first preserves the old state.  Whatever
\* fails and wherever the tool dies, in this attempt or in earlier ones, what
\* the operator last had in place is live or in a .before-restore directory
\* until another archive is installed in both places.
StateNeverLost ==
    \A i \in Items : entitled[i] \in {Absent, live[i]} \cup Kept(i)

\* SPEC-v0.1-release: ... and rolls it back if publication fails.  When a
\* single operation fails and Restore returns an error, every directory that
\* existed when it was called is what it was.
FailedRestoreRollsBack ==
    pc = "idle" /\ outcome \in {"failed", "rejected"} /\ faults <= start.faults + 1 =>
        \A i \in Items : start.live[i] # Absent => live[i] = start.live[i]

\* SPEC-v0.1-release: a real round trip.  When Restore succeeds both
\* directories are what the last backup that was published had collected,
\* never one from it and one from before, and never an older backup.
RestoreComplete == pc = "idle" /\ outcome = "done" => live = promised.content

\* The last completed backup stays in place, and can be decrypted if it could,
\* while later ones replace it, fail or are killed.
BackupSurvives == artifact = promised

\* Restore refuses a completed backup only if it cannot be decrypted, or if it
\* came within the overhead of the limit, which Create does not count.
BackupsAreAccepted ==
    outcome = "rejected" /\ artifact.intact =>
        artifact.size \in MaxBackupSize + 1 .. MaxBackupSize + Overhead

\* SPEC-pki-core: issuance never reuses a serial, which the service does on the
\* data directory of a backup from before its last issuance.  Unless one was
\* restored, or was left in place by a kill or where rollback had nothing to put
\* back or could not remove it, every data directory the service can run on has
\* the counter where it last was: after failed backups and restores of one that
\* is up to date, and after stale ones that were rejected or rolled back.
CounterNotRewound ==
    pc = "idle" /\ ~rewound /\ live[1] >= 0 => live[1] = highest
=============================================================================
