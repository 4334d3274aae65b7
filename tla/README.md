# Certarium in TLA+

Certarium (`src/`) is a single-host certificate laboratory: an HTTP service that
initializes an RSA and an SM2 certificate authority, issues RSA certificates
and TLCP certificate pairs, revokes them, publishes CRLs and answers OCSP, all
by running the `openssl` of Tongsuo on a data directory. There is no database:
**the state of the system is a set of files replaced one at a time by
`rename(2)`**, under two nested mutexes in one process. That is where the hard
behaviour is, and what these modules are about.

All `path:line` references below are relative to `src/`.

## 1. Inventory

| Component | State it keeps | Operations | Correct when |
|---|---|---|---|
| `pki.Store` (`internal/pki/pki.go`) | `pki/state.json`: the next serial; `Store.mu` | `Initialize`, `NextSerial` | no serial is handed out twice, across failures and crashes; the counter never wraps; an installation is initialized once |
| `pki.Engine` (`internal/pki/engine.go`) | `pki/ca/<ca>/` (keys, `index.txt`, `crlnumber`), `pki/crl/<ca>.crl.pem`, `pki/issued/<name>/`; `Engine.mu` | `InitializeAuthorities`, `IssueRSA`, `IssueTLCP`, `PublishCRL`, `RespondOCSP` | a bundle appears whole or not at all; CRL, index and number belong together; numbers increase |
| `webapp.PKIService` (`internal/webapp/pki_service.go`) | `pki/issued/<name>/manifest.json`; `PKIService.mu` | `Initialize`, `Issue`, `Revoke`, `refreshIssuer`, `OCSP`; reads: `Status`, `List`, `Download`, `Bundle`, `RootCA`, `CRL` | what a client was told stays true; a revocation is final; inventory, CRL and OCSP agree |
| HTTP handler, audit middleware (`internal/webapp/handler.go`) | the response held back in memory | `initialize`, `issue`, `revoke`, `ocsp`, ..., `auditRequests` | no outcome is told, and nothing carried out, that is not recorded |
| `audit.Log` (`internal/audit/log.go`) | `audit.jsonl`; `Log.mu` | `Ready`, `Append` | whole records, one per request |
| backup (`internal/backup/backup.go`) | the archive; data and configuration directory, `.before-restore` copies | `Create`, `Restore` (`publish`, `rollback`) | the old state is never lost, an error restores it, a success replaces everything; a new artifact never damages the last one; the serial counter goes back only with a stale artifact |
| `CommandRunner` (`internal/pki/runner.go`) | one process and two contexts per call | `Run` | it returns, at the latest after the deadline, and the process is gone by then |
| validation, profiles, passphrase loading | none | | |
| `cmd/*`, `ui.go`, `packaging/`, `build/`, `scripts/`, `tools/` | none at run time | | |
| Tongsuo (external) | the CA database files it is given | `genpkey`, `req`, `x509`, `ca`, `crl`, `ocsp` | |

How they interact: a handler goroutine per request calls `PKIService`, which
holds `PKIService.mu` during `Issue` and `Revoke` and calls `Engine`, whose
methods each hold `Engine.mu`; `Engine` calls `Store.NextSerial` (`Store.mu`)
and `CommandRunner`. Locks nest service, engine, store. `OCSP` takes only the
engine mutex, `Initialize` takes store and engine one after the other, **its
rollback takes none**, and the read-only operations take none: they see the
files between any two renames. The audit middleware wraps all of it. Backup is
a separate program run while the service is stopped.

What is hard here:

* **Crash and failure between two renames.** A revocation replaces the CRL, the
  index, `crlnumber` and then the manifest; an issuance the bundle directory,
  the manifest, and then the same three.
* **Stale reads.** `refreshIssuer` reads the inventory before it takes the
  engine mutex, and `PublishCRL` rebuilds the whole index from that reading.
* **Unlocked rollback.** A failed initialization removes the PKI directory entry
  by entry next to requests that are writing into it.
* **Record after the fact.** The audit record follows the mutation.
* **Nested locks** and commands that may take their whole timeout, or end just
  when it passes; clients that hang up, which cancels their commands, or whose
  answer comes after the server's `WriteTimeout`, and who then try again.
* **Power loss.** Every durable step is a rename, but some renames are followed
  by a sync of their directory and some are not.

`PROJECT.json` lists every hazard at its line, with the properties that cover it.

## 2. Modules

| Module | Models | Kind |
|---|---|---|
| `CertLifecycle` | issuance, revocation, status publication of an initialized instance: `PKIService` over `Engine` over `Store` | the core, composed of the three components that share the data directory |
| `StatusAuthority` | what a client may rely on: recorded once, revoked once, answers of an authority change together, a revocation is recorded only after it is answered | abstract specification, implemented by `CertLifecycle` |
| `CertLifecycleProofs` | types, mutexes, serials and the publication of revocations | TLAPS |
| `CertLifecycleRefinement` | complete bundles, pairs, and that `StatusAuthority` is implemented; extends `CertLifecycleProofs` | TLAPS |
| `CertLifecycleAgreement` | what holds as long as only commands fail: CRL numbers, finality, agreement of inventory, CRL and OCSP; extends `CertLifecycleProofs` | TLAPS |
| `Durability` | the same files under power loss: what is synced when, and what the disk may hold otherwise | the storage side of the core |
| `Bootstrap` | first-run initialization, its rollback, issuances in between | component |
| `CommandRunner` | one command under a deadline and its caller's context | component |
| `AuditTrail` | an audited request from `Ready` to its answer: middleware, handler, commands and log | composes `CommandRunner` (`EXTENDS`) with the handler and the log |
| `BackupRestore` | `backup.Create`, `backup.Restore`, the service in between | component |
| `DurabilityProofs`, `BootstrapProofs`, `AuditTrailProofs`, `BackupRestoreProofs` | theorems about the module each is named after | TLAPS |
| `MCCertLifecycle` | symmetry of threads and names | model checking |

### CertLifecycle

The variables are the files (`nextSerial`, `bundle`, `manifest`, `index`, `crl`,
`crlnumber`) and the process (`mu`, `pc`, `job`, `serials`, `draft`, `reply`).
`pc[t]` names the next step of a handler; a step is a mutex acquisition or one
change of the data directory. Work in a private temporary directory is
invisible to everybody else, so all commands run there are one step that
succeeds (`Sign`, `BuildCrl`) or fails (`CryptoFails`), which also stands for a
timeout and for a client that went away.

| Code | Actions |
|---|---|
| `PKIService.Issue`, `Engine.IssueRSA` / `IssueTLCP` | `Issue`, `IssueLockService`, `IssueLockEngine`, `BeginBundle` / `RejectName`, `NextSerial` (twice for TLCP) / `SerialExhausted` / `SerialSyncFails`, `Sign`, `PublishBundle` / `PublishSyncFails`, `WriteManifest`, then the refresh |
| `PKIService.Revoke` | `Revoke`, `RevokeLockService`, `TargetMissing` / `TargetRevoked` / `TargetValid`, then the refresh, then `MarkRevoked` |
| `refreshIssuer`, `Engine.PublishCRL` | `CollectInventory`, `CrlLockEngine`, `BuildCrl`, `ReplaceCrl`, `ReplaceIndex`, `ReplaceNumberRevoke` / `ReplaceNumberIssue` / `NumberSyncFails` |
| `PKIService.OCSP`, `Engine.RespondOCSP` | `Ocsp`, `OcspLockEngine`, `OcspRespond` |
| failures | `CryptoFails`, `DiskFails` (an operation fails and changes nothing), `Crash` (systemd restarts the service) |

A certificate is its serial; a bundle of kind `tlcp` has two. `index.txt.attr`
is constant and left out. A request arrives validated. The `Faults` constant
selects which failures a run admits; `"read"` lets `refreshIssuer` skip a
manifest it cannot read, as the code does (`internal/webapp/pki_service.go:177`).

The ghosts `ackIssued` and `ackRevoked` are what clients were told. They
survive a crash, which is the point of them.

### Durability

`cache` is what the programs see of each file, `maybe` the contents a power loss
may leave: one of them once content and directory entry are synced. `ReplaceIn`
is a rename into place (it adds a content, and a damaged one if the content was
not synced before), `SyncedIn` an `fsync` of a directory. `PowerLoss`, `Settle`
and `Boot` then choose, file by file, what the next start of the service finds;
a bundle directory whose entry is lost takes its files with it. The assumptions
on the file system are the weak ones of POSIX, no order between directories.

| Code | Synced | Actions |
|---|---|---|
| `writeStateAtomic` (`pki.go:116`) | file, then directory | `RenameState`, `SyncState` |
| `publishBundle` (`engine.go:438`) | the directory that gets the bundle, not what the commands wrote in it | `PublishBundle` (the rename), `SyncBundle` |
| `writeManifest` (`pki_service.go:366`) | file, not its directory | `WriteNewManifest`, `MarkRevoked` |
| `PublishCRL` (`engine.go:188-203`) | the CRL's directory, no content, not the `ca` directory | `ReplaceCrl`, `ReplaceIndex`, `ReplaceNumber`, `SyncCrl` |

A rename and the sync that follows it are two steps, and at every step the
operation may fail (`IssueFails`, `RefreshFails`, `MarkFails`), the process die or
the power go: a draw that fails at its sync leaves a counter ahead of the disk, a
publication that fails at its sync a bundle that may be gone after a power loss.
A refresh may fail or time out at any of its commands, on intact files as well.
Handlers run one at a time here, since `PKIService.mu` serializes mutations; their
interleavings are `CertLifecycle`'s. The ghosts are the serials `NextSerial`
returned (`drawn`), what clients were told, and whether the last mutation was
acknowledged (`refreshed`, cleared when the next one begins).

### Bootstrap

`tree` is the set of entries of the PKI directory. `PKIService.Initialize`
creates the counter under `Store.mu`, the roots under `Engine.mu`, and when the
roots fail it calls `os.RemoveAll` with no mutex: one listing, one removal per
entry, then the directory if it is empty. Issuances take part as far as they
touch the tree: `beginBundle` creates `issued`, `NextSerial` reads `state.json`
and renames a new one into its place. The exclusive check inside
`writeStateAtomic` cannot fail, since every writer holds `Store.mu`, and has no
action of its own. A behavior picks one of `Settings`, the conditions it runs
under (issuances, failing commands, failing syncs, crashes), and keeps it, so
one run covers the conditions under which the properties are claimed.

### CommandRunner and AuditTrail

`CommandRunner` follows `Run`: the process, whether its deadline has passed,
whether the caller's context is cancelled. `Exit`, `Expire`, `Cancel` and `Kill`
happen in any order; `Run` may return when the process has `Ended`; `Result` is
what it returns, which is `timeout` or `canceled` also for a process that
succeeded just before.

`AuditTrail` puts it where it runs. All requests are for one bundle, so that the
second is the retry of the first. `Ready` opens and closes the log; the handler,
its response held back, is refused (`Refuse`), finds the name taken
(`Conflict`), or runs the commands before the bundle (`SignCommand`, `Publish`)
and those of the refresh (`RefreshCommand`, `Created`), each of which may end in
`CommandFails`; `LockLog`, `Open`, `Write` (or `WriteShort`, `WriteRest`) and
`Sync` append the record; `Respond` releases the response, unless the client is
gone or (`RespondLate`) `WriteTimeout` has passed. The log file is a sequence of
chunks, since `write(2)` may take part of a record and Go's `File.Write` then
writes the rest. `Settings` are as in `Bootstrap`.

### BackupRestore

The content of a directory is a version, which for the data directory stands for
its serial counter. One run of the tool follows the other, in between the
service works (`Work`) and directories or the artifact may be lost. `Create` is
`Backup`, `Collect` (with the size check of `makeArchive`), `WriteTemp`,
`RenameArtifact`, `CreateFails`; `Restore` checks the artifact
(`RejectArchive`, `RejectExisting`), stages it, and `publish` and `rollback` are
modelled operation by operation, including that `rollback` ignores errors and
that `os.RemoveAll` may leave a directory half removed, or whole. The ghosts are what
the operator last had (`entitled`), the last backup (`promised`), the highest version
there was, whether the data changed since that backup (`stale`), and whether the
data directory of a stale backup was installed and stayed (`rewound`). `DataStays`
sets the last one where that happens: when both directories are installed, when the
tool is killed, and where `rollback` has nothing to put back or cannot remove what
is in the way; a restore that is rejected or rolled back does not set it.

## 3. What is checked

`tlc -workers 2 -config <cfg> <module>`; `lifecycle_faults` takes three to four
minutes, `durability` about three, every other run about two at most.

| Run | Configuration | Shows |
|---|---|---|
| `lifecycle_faults` | 2 threads, 2 names, 5 mutations, serials 1..4, commands and files fail, crashes | `TypeOK`, `SerialsUnique`, `RevokedIsPublished`, `AckedIssueKnown`, `PairsTogether`, `ManifestDescribesBundle`, `KeepsPromise` (the refinement of `StatusAuthority`) |
| `lifecycle_live` | the same with 4 mutations, only commands fail, fair | `RevocationIsFinal`, `CrlNumbersIncrease`, `QuiescentAgreement`, `TakenNamesAreListed`, `SomebodyProceeds`, `RequestsComplete` |
| `durability` | 2 bundles, 3 draws, failures and deaths anywhere, a power loss | `SerialsSurvive`, `NamesSurvive`, `RefreshHeals` |
| `bootstrap` | 3 threads, 4 requests; initializations with failing commands; with issuances and crashes; with failing syncs as well; fair | `RootsCreatedOnce`, `CanBeInitialized`, `ReinitializationChangesNothing`, `SomebodyProceeds`, `RequestsAnswered` |
| `audit` | 2 requests; short writes, failing syncs, a log that comes and goes; full disk, crashes, late answers; a working log with lost clients and late answers; fair | `RecordsParse`, `AcknowledgedIsRecorded`, `CarriedOutIsRecorded`, `NoOrphans`, `SomebodyProceeds`, `RequestsAnswered` |
| `restore` | 4 runs of the tool, 2 failures or losses, 2 changes by the service, crashes | `StateNeverLost`, `FailedRestoreRollsBack`, `RestoreComplete`, `BackupSurvives`, `BackupsAreAccepted`, `CounterNotRewound` |

**Bounds.** Two handlers are enough for every pairwise interleaving, and the
mutexes admit no other: with one handler inside, further ones only wait. Two
bundles let one be revoked while the other is issued, under one authority or
two. Four serials are two TLCP pairs, or one pair and two failed attempts, and a
fifth draw reaches the exhausted counter. Five mutations cover issue, issue,
revoke, revoke and one more refresh; OCSP requests are not counted. In
`Durability` three draws are two bundles and one attempt that failed; after the power
loss `maybe` speaks of what a second one could leave, before anything was repaired
and after. In
`Bootstrap` three handlers are what the longest interference needs (one rolls
back, one initializes, one issues or initializes again). Two requests in
`AuditTrail` are the first attempt and its retry, and meet at both mutexes. Four
runs of the tool are a backup, a second one or a failed restore, and two more
restores over what is left; the sizes lie below, at and beyond the limit.
`MaxRequests`, `MaxCalls`, `MaxRuns`, `MaxFaults`, `MaxLosses` and `MaxVersion`
bound only the number of inputs, never a reaction of the program.
`CertLifecycle` is checked for deadlock (a read-only request is always
possible); the other modules end when their inputs are used up.

**Fairness.** `FairSpec` of `CertLifecycle` and of `Bootstrap`: weak fairness of
each handler's own steps (goroutines are scheduled, `CommandRunner` bounds every
command by the crypto timeout, `internal/pki/runner.go:28`) and strong fairness
of lock acquisition (`sync.Mutex` hands the lock to a waiter starved for 1 ms).
Nothing is assumed of clients. `AuditTrail` assumes the same of its handlers and
mutexes, and opens that bound up: nothing is assumed of a command, only that
the timer of its deadline fires and that killing it takes effect.

**Mutants.** Each property has a broken variant of a definition, kept next to the
original (`AdvancedSerialLost` beside `AdvancedSerial`), under which it fails. The
specifications do not use them.

### Where the code disagrees with its documents

Six runs check one documented statement each, and TLC finds a behaviour of the
code that contradicts it:

| Run | Statement | What happens |
|---|---|---|
| `crash_revoke` | a repeated revocation never reports a revoked certificate as valid again (`docs/SPEC-revocation-crl.md:20`) | crash (or a failed manifest write) after the CRL and index were published, before the manifest is marked: the next refresh publishes the certificate as valid |
| `failed_issue` | a crypto failure returns 502/504 without publishing a partial bundle (`docs/SPEC-web-issuance.md:62`) | the refresh after the manifest fails: the client reads an error, the bundle is listed and its name taken |
| `unreadable` | every successful revocation refreshes the index first (`docs/SPEC-ocsp.md:12`) | an unreadable manifest is skipped silently: the revocation is acknowledged but published nowhere |
| `bootstrap_race` | initialization creates the roots, once (`docs/SPEC-web-issuance.md:14`) | an issuance writes the counter back while a failed initialization rolls back: no later initialization is possible |
| `power_loss` | durable state survives restart (`docs/SPEC-pki-core.md:19`) | `writeManifest` never syncs its directory: after a power loss an acknowledged revocation is gone from the inventory, and the next refresh takes it off the CRL (`internal/webapp/pki_service.go:392`) |
| `audit_open` | failure to write a required record fails the mutation closed (`docs/SPEC-v0.1-release.md:40`) | the destination fails between `Ready` and `Append`: the mutation is done, unrecorded, and the client reads an error |

More of the kind, each seen by changing constants or conditions of an existing
configuration:

* `CrlNumbersIncrease` fails with `Faults = {"crash"}`: a crash between the
  renames of the CRL and of `crlnumber` (`internal/pki/engine.go:192`) lets the
  next CRL carry the same number; a power loss does the same later, since only
  the CRL's directory is synced.
* `TakenNamesAreListed` fails when writing the manifest fails: the bundle
  directory is there, so the name stays taken and is in no inventory.
* `AlwaysInitializable` also fails with a crash and no issuance: a crash between
  counter and roots leaves an installation that is uninitialized and answers
  every initialization with a conflict.
* `RootsCreatedOnce` fails without its condition on syncs: one initialization
  fails to sync the directory after publishing its roots, a second one is refused
  because of those roots, and while both roll back a third is answered with 201,
  whose roots the first rollback then removes.
* `RecordsParse` fails with a short write followed by a full disk or a crash: the
  part of a record that was written stays, and the next record continues its line.
* A command answered with 504 may have succeeded, and its certificate then is
  discarded: `Run` looks at its contexts before the exit status.
* A request whose path `ServeMux` cleans by a redirect is recorded as a success
  (`internal/webapp/handler.go:410`); `AcknowledgedIsRecorded` names it as the one
  success without effect.
* `FailedRestoreRollsBack` without its condition on existing directories fails:
  `rollback` leaves in place what was installed where there was nothing
  (`internal/backup/backup.go:395`).
* `BackupsAreAccepted` with an empty interval fails: an archive within the
  overhead of the limit is created, reported as completed, and refused by every
  restore (`internal/backup/backup.go:94` and `194`).
* After a power loss a certificate of a listed bundle may be damaged, since
  nothing syncs what a command wrote: every later refresh of its authority fails
  (`Buildable` in `Durability`), and with it every issuance and revocation.
* `CounterNotRewound` holds of a killed restore of an old backup only with the
  exception `DataStays` makes: between the two renames of `publish` the old data
  directory is set aside and the stale one in its place
  (`internal/backup/backup.go:379`).

## 4. What is proved

Every invariant, action property and refinement that a passing run checks is also
a theorem, for every value of the constants. The liveness properties are not. The
inductive invariants were themselves checked with TLC, on instances of the size of
the runs, before they were proved.

**Assumptions.** The theorems use the named `ASSUME` of their module
(`ConstantsAssumption`, `DurabilityAssumption`, `BootstrapAssumption`,
`AuditAssumption`, `BackupAssumption`), which says that the bounds are
numbers and that the values the model adds to the program's (`Nobody`, `Missing`,
`Damaged`, paths) are none of the program's. Seven theorems about `CertLifecycle`
have a hypothesis on `Faults` as well; each is stated below with the failure that makes
it necessary.

### CertLifecycle

* `TypeCorrect`: `Spec => [](TypeOK /\ JobOK)`; the interesting conjunct is
  `nextSerial \in 1 .. MaxSerial`.
* `SerialsNeverReused`: `Spec => []SerialsUnique`. Not inductive alone: publishing
  a bundle needs that the handler holds the engine mutex, that its name is still
  free and that no other handler holds a serial of it. The strengthening
  (`MutexOK`, `SerialsInv`) adds the lock discipline, a label inside a mutex
  implies holding it, and which serials a handler may hold at each label.
* `NoDeadlock`: `Spec => []SomebodyProceeds`, the part of liveness that needs no
  fairness. It rests on the converse of the lock discipline (`HoldersInside`): a
  mutex that is not free belongs to a handler between `Lock` and `Unlock`, so no
  return path keeps one. Then the holder of the innermost mutex taken goes on.
  The same argument, with the locks of each, gives the theorems of this name about
  `Bootstrap` and `AuditTrail`.
* `RevocationsStayPublished`, `IssuancesStayKnown`: with `"read" \notin Faults`,
  `[]RevokedIsPublished` and `[]AckedIssueKnown`. The hypothesis of the induction
  follows the stale reading: between `CollectInventory` and the last rename the
  draft of the handler in the service mutex contains every bundle recorded as
  revoked, and the one being revoked; its CRL is out when the index is replaced,
  and both when the manifest is marked. All writers of manifests hold the service
  mutex, so no other step can invalidate the reading. Run `unreadable` shows that
  the hypothesis is necessary.
* `RecordsDescribeBundles`, `PairsStayTogether`: `[]ManifestDescribesBundle` and
  `[]PairsTogether`, under every fault. `CompleteInv` says that a directory holds
  one certificate or two different ones, as its kind has it, and how many a handler
  has drawn at each label. `PairsInv` says that every database, and every draft of
  one, is a union of whole bundles, with no bundle on both sides: an index is
  rebuilt from manifests, which by the first theorem name all of a bundle or none
  of it.
* `PromiseKept`: with `"read" \notin Faults`, `Spec => KeepsPromise`. Step by step:
  `WriteManifest` is `Record`, `ReplaceIndex` is `Publish`, `MarkRevoked` is
  `Confirm`, every other step, a crash among them, changes nothing a client sees.
  `ReplaceIndex` is the hard one: each bundle of that authority goes from one
  answer to another that the abstract specification admits, which needs the
  publication invariant, whole bundles, and that no database names a certificate
  of a bundle that is not listed.
* `NumbersIncrease`, `NamesAreListed`: with neither `"disk"` nor `"crash"` in
  `Faults`, `CrlNumbersIncrease` and `[]TakenNamesAreListed`. A rename that fails,
  or a crash, between the CRL and `crlnumber` or between a bundle and its manifest
  makes each false (section 3).
* `RevocationsAreFinal`, `QuietAgreement`: with `Faults \subseteq {"crypto"}`,
  `RevocationIsFinal` and `[]QuiescentAgreement`. `AgreementInv` relates both files
  of each authority to the inventory at every label of the handler in the service
  mutex: they are its revoked bundles, plus the one being revoked once that handler
  has replaced the CRL, respectively the index. Run `crash_revoke` shows what a
  crash does to it, run `unreadable` what a skipped manifest does.

### Durability

`DurableAlways` proves the invariant `Durable`, the other three its conjuncts
`SerialsSurvive`, `NamesSurvive`, `RefreshHeals`. It relates three things: what
every program sees (`cache`), what the disk may hold (`maybe`), and where the
handler is. What is seen may be on the disk; a bundle directory that is seen is on
the disk or, as long as its sync has not happened, missing (`BundlesOnce`), and it is
durable before a manifest may name it, although manifests themselves are not durable
(`NamesSurvive`). Between the rename and the sync of the counter the serial being
drawn is past every serial returned and behind the counter that is seen (`DrawFresh`):
so the sync, or a later draw's after a failed one, leaves only contents past them all,
and until then nothing new was returned (`SerialsSurvive`). Serials of bundles were
returned and differ; during a refresh the files already replaced agree with the
inventory, and `refreshed` implies that no handler is under way. `Settle` preserves
it because each part speaks of all contents the disk may hold.

### Bootstrap

`OneOwner` proves the invariant. No mutex covers the rollback, so none can be the
reason why the roots stay. The reason is that the counter passes a right on: only
the handler that created it (`Owns`) may make authorities or remove it, there is at
most one, and while there is one the counter exists, which keeps every other handler
at the inspection, even after its listing of the tree is taken. When the roots are
published that handler gives the right up, and no listing contains them.

* `RootsStay`: `[]RootsCreatedOnce`. The property excludes failing syncs itself,
  and section 3 says why.
* `RollbackSuffices`: `[]CanBeInitialized`: a counter without authorities has an
  owner, which will remove it or use it.
* `MaterialStays`: `Spec => ReinitializationChangesNothing`, under every condition.
* `CreatesWhereAbsent`: the guard `State \notin tree` of `CreateState` is true
  wherever a handler gets there, because `Store.mu` is held since the inspection.
  The code renames without looking again, and the guard takes nothing from it.

### AuditTrail

`TypeCorrect` adds to the types who holds which mutex, where a command may run, and
that a client is told what was held back. `CommandsAreOwned` (`[]NoOrphans`) follows.
`LogOK` describes the file: every chunk is of a request that has come to its write
and has that request's outcome; if no write can be cut short for good (`Untorn`),
every head of a record is followed by its rest, or is last and owed by the one
handler inside `Log.mu`, and no request has two. From it

* `LogParses`: `[]RecordsParse`;
* `AnswersAreRecorded`: `[]AcknowledgedIsRecorded`;
* `IssuesAreRecorded`: `[]CarriedOutIsRecorded`.

The conditions on `setting` are part of the properties; section 3 says what happens
without `Untorn`.

### BackupRestore

`BackupsAndRestores` proves `Progress`: at each label of the tool, how far the run has
come, which directories are installed, set aside or back in place, that what is owed
to the operator is one of them, and which version of the counter each copy holds: unless
a stale data directory stayed, the one the run found is up to date, the one in place
during the run is that one, the archive's, a remainder or none, and behind `publish`
and `rollback` it is up to date again (`CountersCurrent`). The
theorems `NothingLost`, `FailureUndone`, `RestoresComplete`, `BackupKept`,
`BackupsAccepted` and `CounterKept` state the six properties of run `restore`. The
bounds on runs, faults, versions and sizes are any numbers, so any sequence of
attempts is covered.

### Only model-checked

* `RequestsComplete` and both `RequestsAnswered`: liveness under fairness, which
  needs `ENABLED` and is beyond the prover. What is proved of them is `NoDeadlock`.
* The six documented statements the code contradicts: TLC finds the behavior, there
  is nothing to prove.

## 5. Not modelled, and why

* Contents of keys, certificates, CRLs and OCSP messages, and the commands line by
  line: Tongsuo's part. Its effect on `index.txt`, `crlnumber` and the CRL is.
* `ValidateRequest`, `BuildExtensionConfig`, JSON, routing, headers: pure
  functions over characters and numbers; the models start from requests that
  passed them, or are refused as a whole.
* The entries inside an archive (`readArchive`, `safeArchivePath`): an artifact
  that decrypts is one `Create` wrote, so these checks never refuse it.
* Create while the service is running: the documentation stops the service first
  (`docs/BACKUP-RESTORE.md:8`). The sync of restored files: `Restore` has none, so
  a power loss soon after it can lose what was restored.
* A damaged CA key or root after a power loss: `Durability` starts from an
  installation long since written back.
* Passphrase loading, the flags of the command-line programs, the user interface,
  packaging.

## 6. Plan

In the order of what matters most; done so far are items 1 to 9.

1. `CertLifecycle`, `StatusAuthority`, `MCCertLifecycle`: the core.
2. `CertLifecycleProofs`: types, serials, revocations, issuances.
3. `Durability`: the core's files under power loss.
4. `Bootstrap`. 5. `CommandRunner` and `AuditTrail`. 6. `BackupRestore`.
7. The composition of issuance and restore, as far as the serial counter goes
   (`CounterNotRewound`).
8. `CertLifecycleRefinement`, `CertLifecycleAgreement`: the refinement and the
   remaining properties of the core.
9. `DurabilityProofs`, `BootstrapProofs`, `AuditTrailProofs`, `BackupRestoreProofs`.
10. Where the code contradicts a document, the weakest conditions under which the
   statement does hold, as theorems, where that is not obvious: a revocation that
   survives as long as the power does, an issuance that fails before its manifest.
11. `InputRules`: `validDNSName`, `safeRouteSegment`, `safeArchivePath` as operators
   against reference definitions, if they turn out to interact with the rest.
