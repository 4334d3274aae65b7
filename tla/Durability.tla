----------------------------- MODULE Durability -----------------------------
(***************************************************************************)
(* What a power loss leaves of the data directory.  A file is durable once *)
(* its content and the entry of its directory were synced; until then the  *)
(* disk may hold anything written since the last sync, in any combination  *)
(* of files, and damaged contents where the content was not synced.        *)
(*                                                                         *)
(* writeStateAtomic syncs file and directory, publishBundle the directory  *)
(* that gets the bundle, writeManifest only the file, PublishCRL only the  *)
(* directory of the CRL.  What the commands write is not synced at all.    *)
(*                                                                         *)
(* One authority and one mutation at a time: PKIService.mu serializes them *)
(* and CertLifecycle models their interleavings.                           *)
(***************************************************************************)
EXTENDS Naturals, FiniteSets

CONSTANTS
    Names,       \* bundles
    Missing,     \* a file that does not exist
    Damaged,     \* a file whose content, or whose entry in it, was lost
    MaxSerial,   \* bound on the serials drawn
    MaxLosses    \* bound on power losses

\* The contents the model tells apart: serials, CRL numbers and manifests.
Contents == Nat \cup {"number"} \cup [serial : Nat, state : {"valid", "revoked"}]

\* A bundle directory is below issued, so its path is none of the other ones.
ASSUME DurabilityAssumption ==
    /\ Missing # Damaged
    /\ Missing \notin Contents
    /\ Damaged \notin Contents
    /\ Names \cap {"pki", "crl", "ca", "issued"} = {}
    /\ MaxSerial \in Nat \ {0}
    /\ MaxLosses \in Nat

VARIABLES
    cache,        \* the content of each file as every program sees it
    maybe,        \* the contents a power loss may leave of it
    pc,           \* what the handler in the service mutex does next
    job,          \* its bundle, operation and serial
    losses,       \* power losses so far
    drawn,        \* serials NextSerial ever returned, for the properties
    ackIssued,    \* <<name, serial>> of acknowledged issuances, for the properties
    ackRevoked,   \* names of acknowledged revocations, for the properties
    refreshed     \* the last mutation was acknowledged and no loss followed

files == <<cache, maybe>>
acks == <<ackIssued, ackRevoked, refreshed>>
vars == <<files, pc, job, losses, drawn, acks>>

\* A file is a pair of its directory and its name.  Bundle(n) is the entry of
\* the bundle directory n in the issued directory.
State == <<"pki", "state">>
Crl == <<"crl", "crl">>
Index == <<"ca", "index">>
CrlNumber == <<"ca", "crlnumber">>
Bundle(n) == <<"issued", n>>
Cert(n) == <<n, "cert">>
Manifest(n) == <<n, "manifest">>

Files == {State, Crl, Index, CrlNumber}
            \cup UNION {{Bundle(n), Cert(n), Manifest(n)} : n \in Names}

-----------------------------------------------------------------------------
(* File operations *)

\* Rename a written file into place.  Without a sync of the content before,
\* the disk may end up with a file of damaged content.
ReplaceIn(m, p, value, synced) ==
    [m EXCEPT ![p] = @ \cup {value} \cup IF synced THEN {} ELSE {Damaged}]

\* fsync of a directory: its entries are durable, not the contents they name.
SyncedIn(m, dir) ==
    [p \in Files |->
        IF p[1] = dir THEN {cache'[p]} \cup (m[p] \cap {Damaged}) ELSE m[p]]

Goto(label) == pc' = label

NoJob == [op |-> "none", id |-> Missing, serial |-> 0]

Finish ==
    /\ Goto("idle")
    /\ job' = NoJob
    /\ UNCHANGED <<losses, drawn>>

\* The next step of the job, with nothing acknowledged or drawn.
Continue(label) == Goto(label) /\ UNCHANGED <<job, losses, drawn, acks>>

\* fsync of a directory, after which the job goes on.
SyncThen(dir, label) ==
    /\ cache' = cache
    /\ maybe' = SyncedIn(maybe, dir)
    /\ Goto(label)
    /\ UNCHANGED <<job, losses, acks>>

\* An operation fails or times out and the mutation is answered with an error;
\* what was written before stays, synced or not.
Fails(labels) ==
    /\ pc \in labels
    /\ Finish
    /\ UNCHANGED <<files, acks>>

-----------------------------------------------------------------------------
(* Issuance *)

Begin(op, id, serial, label) ==
    /\ job' = [op |-> op, id |-> id, serial |-> serial]
    /\ Goto(label)
    /\ refreshed' = FALSE
    /\ UNCHANGED <<files, losses, drawn, ackIssued, ackRevoked>>

\* The name is free: Lstat finds no bundle directory.
Issue(n) ==
    /\ pc = "idle"
    /\ cache[Bundle(n)] = Missing
    /\ Begin("issue", n, 0, "serial")

\* NextSerial reads the counter and renames the file with the next one, which
\* was synced, into place.
RenameState ==
    /\ pc = "serial"
    /\ cache[State] < MaxSerial
    /\ cache' = [cache EXCEPT ![State] = @ + 1]
    /\ maybe' = ReplaceIn(maybe, State, cache[State] + 1, TRUE)
    /\ job' = [job EXCEPT !.serial = cache[State]]
    /\ Goto("stateSync")
    /\ UNCHANGED <<losses, drawn, acks>>

\* It returns the serial once the directory is synced.
SyncStateErrorIgnored ==
    /\ pc = "stateSync"
    /\ drawn' = drawn \cup {job.serial}
    /\ Goto("publish")
    /\ UNCHANGED <<files, job, losses, acks>>
SyncState ==
    /\ pc = "stateSync"
    /\ drawn' = drawn \cup {job.serial}
    /\ SyncThen("pki", "publish")

\* The commands wrote key and certificate, the directory is renamed.
PublishBundle ==
    /\ pc = "publish"
    /\ cache' = [cache EXCEPT ![Bundle(job.id)] = job.serial,
                              ![Cert(job.id)] = job.serial]
    /\ maybe' = [ReplaceIn(maybe, Bundle(job.id), job.serial, TRUE)
                    EXCEPT ![Cert(job.id)] = {job.serial, Damaged}]
    /\ Continue("bundleSync")

SyncBundleErrorIgnored ==
    /\ pc = "bundleSync"
    /\ Continue("manifest")
    /\ UNCHANGED files
SyncBundle ==
    /\ pc = "bundleSync"
    /\ SyncThen("issued", "manifest")
    /\ UNCHANGED drawn

WriteManifest(state) ==
    /\ cache' = [cache EXCEPT ![Manifest(job.id)] =
                                  [serial |-> job.serial, state |-> state]]
    /\ maybe' = ReplaceIn(maybe, Manifest(job.id), cache'[Manifest(job.id)], TRUE)

WriteNewManifest ==
    /\ pc = "manifest"
    /\ WriteManifest("valid")
    /\ Continue("crl")

\* A draw that fails after its rename leaves the counter ahead of the disk, a
\* publication that fails after its rename a bundle no manifest lists.
IssueFails == Fails({"serial", "stateSync", "publish", "bundleSync", "manifest"})

-----------------------------------------------------------------------------
(* Revocation *)

Listed(n) == cache[Bundle(n)] # Missing /\ cache[Manifest(n)] # Missing

Revoke(n) ==
    /\ pc = "idle"
    /\ Listed(n)
    /\ cache[Manifest(n)].state = "valid"
    /\ Begin("revoke", n, cache[Manifest(n)].serial, "crl")

\* The stable record of an earlier revocation is returned as it is.
RevokeAgain(n) ==
    /\ pc = "idle"
    /\ Listed(n)
    /\ cache[Manifest(n)].state = "revoked"
    /\ ackRevoked' = ackRevoked \cup {n}
    /\ UNCHANGED <<files, pc, job, losses, drawn, ackIssued, refreshed>>

MarkRevoked ==
    /\ pc = "mark"
    /\ WriteManifest("revoked")
    /\ ackRevoked' = ackRevoked \cup {job.id}
    /\ refreshed' = TRUE
    /\ Finish
    /\ UNCHANGED ackIssued

\* The certificate is in the list that was published, its manifest says valid.
MarkFails == Fails({"mark"})

-----------------------------------------------------------------------------
(* refreshIssuer and PublishCRL *)

Revoked(n) ==
    \/ cache[Manifest(n)].state = "revoked"
    \/ job.op = "revoke" /\ n = job.id

Inventory == {n \in Names : Listed(n)}
Serials(S) == {cache[Manifest(n)].serial : n \in S}
RevokedBundles == {n \in Inventory : Revoked(n)}

\* The database is built from the inventory alone, never from what was there.
NewIndexOnTop ==
    LET old == IF cache[Index] = Damaged THEN [valid |-> {}, revoked |-> {}]
               ELSE cache[Index]
    IN  [valid |-> Serials(Inventory \ RevokedBundles) \ old.revoked,
         revoked |-> Serials(RevokedBundles) \cup old.revoked]
NewIndex == [valid |-> Serials(Inventory \ RevokedBundles),
             revoked |-> Serials(RevokedBundles)]

\* The commands read every listed certificate and the number.
Buildable ==
    /\ \A n \in Inventory : cache[Cert(n)] # Damaged
    /\ cache[CrlNumber] # Damaged

\* Any command may fail or time out, on a damaged file or an intact one, and
\* any of the replacements that follow, with the earlier ones in place.
RefreshFails == Fails({"crl", "index", "number", "sync"})

Replace(p, value, from, to) ==
    /\ pc = from
    /\ cache' = [cache EXCEPT ![p] = value]
    /\ maybe' = ReplaceIn(maybe, p, value, FALSE)
    /\ Continue(to)

ReplaceCrl ==
    /\ Buildable
    /\ Replace(Crl, NewIndex.revoked, "crl", "index")

ReplaceIndex == Replace(Index, NewIndex, "index", "number")

ReplaceNumber == Replace(CrlNumber, "number", "number", "sync")

\* Syncing the CRL's directory ends the refresh; an issuance is answered.
SyncCrl ==
    /\ pc = "sync"
    /\ cache' = cache
    /\ maybe' = SyncedIn(maybe, "crl")
    /\ IF job.op = "revoke"
       THEN Continue("mark")
       ELSE /\ ackIssued' = ackIssued \cup {<<job.id, job.serial>>}
            /\ refreshed' = TRUE
            /\ Finish
            /\ UNCHANGED ackRevoked

-----------------------------------------------------------------------------
(* Environment and specification *)

\* The process dies: what it wrote is still seen.
Crash == pc \notin {"idle", "off"} /\ Fails({pc})

\* The host stops, and what it finds when it starts again is what was on the
\* disk: Settle decides it for one file after the other.
PowerLoss ==
    /\ pc # "off"
    /\ losses < MaxLosses
    /\ losses' = losses + 1
    /\ refreshed' = FALSE
    /\ job' = NoJob
    /\ Goto("off")
    /\ UNCHANGED <<files, drawn, ackIssued, ackRevoked>>

Unsettled == {p \in Files : Cardinality(maybe[p]) > 1}

\* A bundle directory whose entry is lost is lost with its files.
Settle ==
    /\ pc = "off"
    /\ Unsettled # {}
    /\ LET p == CHOOSE q \in Unsettled : TRUE IN
       \E found \in maybe[p] :
          LET gone == {p} \cup {q \in Files : found = Missing /\ p = Bundle(q[1])}
          IN  /\ cache' = [q \in Files |-> IF q \in gone THEN found ELSE cache[q]]
              /\ maybe' = [q \in Files |-> IF q \in gone THEN {found} ELSE maybe[q]]
    /\ UNCHANGED <<pc, job, losses, drawn, acks>>

Boot ==
    /\ pc = "off"
    /\ Unsettled = {}
    /\ Continue("idle")
    /\ UNCHANGED files

\* A freshly initialized installation, long since written back.
Init ==
    /\ cache = [p \in Files |->
                  IF p = State THEN 1
                  ELSE IF p = CrlNumber THEN "number"
                  ELSE IF p = Index THEN [valid |-> {}, revoked |-> {}]
                  ELSE Missing]
    /\ maybe = [p \in Files |-> {cache[p]}]
    /\ pc = "idle"
    /\ job = NoJob
    /\ losses = 0
    /\ drawn = {}
    /\ ackIssued = {}
    /\ ackRevoked = {}
    /\ refreshed = FALSE

Next ==
    \/ \E n \in Names : Issue(n) \/ Revoke(n) \/ RevokeAgain(n)
    \/ RenameState \/ SyncState \/ PublishBundle \/ SyncBundle
    \/ WriteNewManifest \/ IssueFails \/ MarkRevoked \/ MarkFails
    \/ RefreshFails \/ ReplaceCrl \/ ReplaceIndex \/ ReplaceNumber \/ SyncCrl
    \/ Crash \/ PowerLoss \/ Settle \/ Boot

Spec == Init /\ [][Next]_vars

-----------------------------------------------------------------------------
(* Properties.  SyncStateErrorIgnored, SyncBundleErrorIgnored and           *)
(* NewIndexOnTop are broken variants the properties are tried against; the  *)
(* specification does not use them.                                         *)

\* SPEC-pki-core: issuance never reuses a serial.  Whenever the power fails,
\* between the rename and the sync of this draw or of earlier ones that failed
\* there too, the counter found afterwards is readable and past every serial
\* that NextSerial ever returned.
SerialsSurvive == \A v \in maybe[State] : v # Damaged /\ \A s \in drawn : s < v

\* SPEC-pki-core: durable state survives restart.  A name a client was told is
\* issued stays taken, by the same serial, whatever power losses follow; and no
\* record can be found on the disk without the directory it describes.
NamesSurvive ==
    /\ \A a \in ackIssued : maybe[Bundle(a[1])] = {a[2]}
    /\ \A n \in Names : \A m \in maybe[Manifest(n)] \ {Missing} :
          maybe[Bundle(n)] = {m.serial}

\* After a power loss, a death or a refresh that failed half way inventory, CRL
\* and index may disagree in any way; a mutation that is acknowledged makes them
\* agree again, until the next one begins.
RefreshHeals ==
    pc = "idle" /\ refreshed =>
        /\ cache[Crl] = Serials({n \in Inventory :
                                  cache[Manifest(n)].state = "revoked"})
        /\ cache[Index].revoked = cache[Crl]
        /\ cache[Index].valid = Serials(Inventory) \ cache[Crl]

\* SPEC-pki-core: durable state survives restart.  A revocation a client was
\* told of is still recorded after a power loss.
RevocationSurvives ==
    \A n \in ackRevoked : Listed(n) /\ cache[Manifest(n)].state = "revoked"
=============================================================================
