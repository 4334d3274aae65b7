--------------------------- MODULE CertLifecycle ---------------------------
(***************************************************************************)
(* Issuance, revocation and status publication of an initialized Certarium *)
(* instance: webapp.PKIService (Issue, Revoke, refreshIssuer, OCSP) on top *)
(* of pki.Engine (IssueRSA, IssueTLCP, PublishCRL, RespondOCSP) and        *)
(* pki.Store (NextSerial).                                                 *)
(*                                                                         *)
(* A thread is an HTTP handler goroutine serving one request at a time.    *)
(* Its label pc[t] names the next thing the handler does: wait for a mutex *)
(* or take one step that touches the data directory.  Everything a handler *)
(* does in its private temporary directory is invisible to the others, so  *)
(* the commands run there are one step with two outcomes.                  *)
(***************************************************************************)
EXTENDS Naturals, FiniteSets

CONSTANTS
    Threads,       \* the handler goroutines
    Names,         \* bundle names (IssueRequest.Name), also their route IDs
    Nobody,        \* the holder of a free mutex, and the empty revokeID ""
    MaxSerial,     \* ^uint64(0): the serial the counter never hands out
    MaxRequests,   \* bound on the mutations a run admits
    Faults         \* the failures a run admits, a subset of FaultKinds

\* A command fails or times out; a file operation fails; a manifest cannot be
\* read while the inventory is collected; the process dies.
FaultKinds == {"crypto", "disk", "read", "crash"}

ASSUME ConstantsAssumption ==
    /\ Nobody \notin Threads
    /\ Nobody \notin Names
    /\ MaxSerial \in Nat \ {0}
    /\ MaxRequests \in Nat
    /\ Faults \subseteq FaultKinds

VARIABLES
    \* The data directory, shared by all threads and surviving a crash.
    nextSerial,    \* pki/state.json: next_serial
    bundle,        \* pki/issued/<name>: kind and certificates of the directory
    manifest,      \* pki/issued/<name>/manifest.json
    index,         \* pki/ca/<ca>/index.txt: the database OCSP answers from
    crl,           \* pki/crl/<ca>.crl.pem, number 0 when never published
    crlnumber,     \* pki/ca/<ca>/crlnumber
    \* The process.
    mu,            \* PKIService.mu ("service") and Engine.mu ("engine")
    pc,            \* what each handler does next
    job,           \* the request each handler serves
    serials,       \* serial numbers a handler has drawn for its bundle
    draft,         \* the CA database and CRL number of a handler's CRL
    reply,         \* the last response of each handler
    requests,      \* mutations admitted so far
    \* What clients have been told, kept for the properties only.
    ackIssued,     \* names whose issuance was answered with 201
    ackRevoked     \* names whose revocation was answered with 200

disk == <<nextSerial, bundle, manifest, index, crl, crlnumber>>
acks == <<ackIssued, ackRevoked>>
vars == <<disk, mu, pc, job, serials, draft, reply, requests, acks>>

-----------------------------------------------------------------------------
(* Values *)

Absent == "absent"
Kinds == {"rsa", "tlcp"}
CAs == {"rsa", "sm2"}
Locks == {"service", "engine"}
Serials == 1 .. (MaxSerial - 1)

\* crlnumber starts as the text 1000, which OpenSSL reads in base 16.
FirstCrlNumber == 4096

NoJob == [op |-> "none", id |-> Nobody, kind |-> "rsa"]
NoDraft == [valid |-> {}, revoked |-> {}, number |-> 0]

\* refreshIssuer: TLCP bundles belong to the SM2 authority.
CaKind(kind) == IF kind = "tlcp" THEN "sm2" ELSE "rsa"

\* Labels of a handler that holds a mutex.
EngineLabels == {"begin", "serial", "sign", "publish",
                 "build", "crl", "index", "number", "respond"}
ServiceLabels == {"issueEngine", "begin", "serial", "sign", "publish",
                  "manifest", "target", "collect", "crlEngine", "build",
                  "crl", "index", "number", "mark"}
Labels == EngineLabels \cup ServiceLabels
              \cup {"idle", "issue", "revoke", "ocspEngine"}

Replies == {"none", "ok", "conflict", "not_found", "crypto", "internal"}

\* A bundle the inventory shows (List, Download and Bundle read the manifest).
Listed(n) == manifest[n].state # Absent

\* The bundles refreshIssuer finds for a kind, split as PublishCRL wants them:
\* the manifest's state decides, except for the bundle being revoked.
RevokedTargetOnly(n, revokeID) == n = revokeID
Revoked(n, revokeID) == manifest[n].state = "revoked" \/ n = revokeID

\* A manifest that cannot be read is skipped without an error.
Inventory(kind, unreadable) ==
    {n \in Names \ unreadable : Listed(n) /\ manifest[n].kind = kind}

CertsOf(S) == UNION {bundle[n].certs : n \in S}

RevokedCertsHalfPair(kind, revokeID, unreadable) ==
    {x \in CertsOf({n \in Inventory(kind, unreadable) : Revoked(n, revokeID)}) :
        \E n \in Names : x \in bundle[n].certs /\ \A y \in bundle[n].certs : x <= y}
RevokedCerts(kind, revokeID, unreadable) ==
    CertsOf({n \in Inventory(kind, unreadable) : Revoked(n, revokeID)})

ValidCerts(kind, revokeID, unreadable) ==
    CertsOf({n \in Inventory(kind, unreadable) : ~Revoked(n, revokeID)})

\* What `openssl ocsp -index` answers for a serial.
OcspStatus(ca, serial) ==
    IF serial \in index[ca].revoked THEN "revoked"
    ELSE IF serial \in index[ca].valid THEN "good"
    ELSE "unknown"

-----------------------------------------------------------------------------
(* Control flow of a handler *)

Goto(t, label) == pc' = [pc EXCEPT ![t] = label]

\* Respond and unwind: the deferred unlocks run and the locals are gone.
Return(t, r) ==
    /\ Goto(t, "idle")
    /\ reply' = [reply EXCEPT ![t] = r]
    /\ job' = [job EXCEPT ![t] = NoJob]
    /\ serials' = [serials EXCEPT ![t] = {}]
    /\ draft' = [draft EXCEPT ![t] = NoDraft]
    /\ mu' = [l \in Locks |-> IF mu[l] = t THEN Nobody ELSE mu[l]]
    /\ UNCHANGED requests

\* Return of an inner call that held only the engine mutex.
ReleaseEngineForgotten == mu' = mu
ReleaseEngine == mu' = [mu EXCEPT !["engine"] = Nobody]

AcquireEngineOnly(t, lock, from, to) ==
    /\ pc[t] = from
    /\ lock = "engine" => mu[lock] = Nobody
    /\ mu' = IF lock = "engine" THEN [mu EXCEPT ![lock] = t] ELSE mu
    /\ Goto(t, to)
    /\ UNCHANGED <<disk, job, serials, draft, reply, requests, acks>>
Acquire(t, lock, from, to) ==
    /\ pc[t] = from
    /\ mu[lock] = Nobody
    /\ mu' = [mu EXCEPT ![lock] = t]
    /\ Goto(t, to)
    /\ UNCHANGED <<disk, job, serials, draft, reply, requests, acks>>

\* An arriving request that passed decodeMutation and ValidateRequest.
Arrive(t, label, newJob) ==
    /\ pc[t] = "idle"
    /\ Goto(t, label)
    /\ job' = [job EXCEPT ![t] = newJob]
    /\ reply' = [reply EXCEPT ![t] = "none"]
    /\ UNCHANGED <<disk, mu, serials, draft, acks>>

-----------------------------------------------------------------------------
(* Issue: PKIService.Issue around Engine.IssueRSA or Engine.IssueTLCP *)

Issue(t, n, k) ==
    /\ requests < MaxRequests
    /\ requests' = requests + 1
    /\ Arrive(t, "issue", [op |-> "issue", id |-> n, kind |-> k])

IssueLockService(t) == Acquire(t, "service", "issue", "issueEngine")
IssueLockEngine(t) == Acquire(t, "engine", "issueEngine", "begin")

\* beginBundle: refuse a name whose directory exists, else open a temporary one.
NameTaken(n) == bundle[n].kind # Absent

BeginBundle(t) ==
    /\ pc[t] = "begin"
    /\ ~NameTaken(job[t].id)
    /\ Goto(t, "serial")
    /\ UNCHANGED <<disk, mu, job, serials, draft, reply, requests, acks>>

RejectName(t) ==
    /\ pc[t] = "begin"
    /\ NameTaken(job[t].id)
    /\ Return(t, "conflict")
    /\ UNCHANGED <<disk, acks>>

\* NextSerial hands out the counter and persists its successor; zero and the
\* largest uint64 are refused.
SerialAvailableWrapping == nextSerial # 0
SerialAvailable == nextSerial # 0 /\ nextSerial # MaxSerial
AdvancedSerialLost == nextSerial
AdvancedSerial == (nextSerial + 1) % (MaxSerial + 1)

\* A TLCP bundle draws twice, for its signing and its encryption certificate.
AllDrawnOnce(t) == TRUE
AllDrawn(t) == job[t].kind = "rsa" \/ serials[t] # {}

NextSerial(t) ==
    /\ pc[t] = "serial"
    /\ SerialAvailable
    /\ nextSerial' = AdvancedSerial
    /\ serials' = [serials EXCEPT ![t] = @ \cup {nextSerial}]
    /\ Goto(t, IF AllDrawn(t) THEN "sign" ELSE "serial")
    /\ UNCHANGED <<bundle, manifest, index, crl, crlnumber>>
    /\ UNCHANGED <<mu, job, draft, reply, requests, acks>>

SerialExhausted(t) ==
    /\ pc[t] = "serial"
    /\ ~SerialAvailable
    /\ Return(t, "crypto")
    /\ UNCHANGED <<disk, acks>>

\* state.json was replaced, but syncing its directory failed: the serial is
\* burned and the caller gets an error.
SerialSyncFails(t) ==
    /\ "disk" \in Faults
    /\ pc[t] = "serial"
    /\ SerialAvailable
    /\ nextSerial' = AdvancedSerial
    /\ Return(t, "crypto")
    /\ UNCHANGED <<bundle, manifest, index, crl, crlnumber, acks>>

\* The genpkey, req, x509 and verify commands, in the temporary directory.
Sign(t) ==
    /\ pc[t] = "sign"
    /\ Goto(t, "publish")
    /\ UNCHANGED <<disk, mu, job, serials, draft, reply, requests, acks>>

\* publishBundle renames the temporary directory into place; IssueRSA and
\* IssueTLCP return and drop the engine mutex.  Every bundle is published under
\* that mutex, so the name beginBundle found free still is.
NewBundle(t) ==
    [bundle EXCEPT ![job[t].id] = [kind |-> job[t].kind, certs |-> serials[t]]]

PublishBundle(t) ==
    /\ pc[t] = "publish"
    /\ bundle' = NewBundle(t)
    /\ ReleaseEngine
    /\ Goto(t, "manifest")
    /\ UNCHANGED <<nextSerial, manifest, index, crl, crlnumber>>
    /\ UNCHANGED <<job, serials, draft, reply, requests, acks>>

\* The directory is in place, but syncing its parent failed.
PublishSyncFails(t) ==
    /\ "disk" \in Faults
    /\ pc[t] = "publish"
    /\ bundle' = NewBundle(t)
    /\ Return(t, "crypto")
    /\ UNCHANGED <<nextSerial, manifest, index, crl, crlnumber, acks>>

\* writeManifest of a new bundle: from here on it is listed and downloadable.
WriteManifest(t) ==
    /\ pc[t] = "manifest"
    /\ manifest' = [manifest EXCEPT ![job[t].id] =
                       [state |-> "valid", kind |-> job[t].kind,
                        serials |-> serials[t]]]
    /\ Goto(t, "collect")
    /\ UNCHANGED <<nextSerial, bundle, index, crl, crlnumber>>
    /\ UNCHANGED <<mu, job, serials, draft, reply, requests, acks>>

-----------------------------------------------------------------------------
(* Revoke: PKIService.Revoke *)

Revoke(t, n) ==
    /\ requests < MaxRequests
    /\ requests' = requests + 1
    /\ Arrive(t, "revoke", [op |-> "revoke", id |-> n, kind |-> "rsa"])

RevokeLockService(t) == Acquire(t, "service", "revoke", "target")

\* An unknown name is answered with 404 ...
TargetMissing(t) ==
    /\ pc[t] = "target"
    /\ ~Listed(job[t].id)
    /\ Return(t, "not_found")
    /\ UNCHANGED <<disk, acks>>

\* ... a revoked one with its stable record ...
TargetRevoked(t) ==
    /\ pc[t] = "target"
    /\ manifest[job[t].id].state = "revoked"
    /\ ackRevoked' = ackRevoked \cup {job[t].id}
    /\ Return(t, "ok")
    /\ UNCHANGED <<disk, ackIssued>>

\* ... and a valid one is revoked: the CRL first, its manifest afterwards.  A
\* kind the service does not issue is never on disk, or it would answer 400.
TargetValid(t) ==
    /\ pc[t] = "target"
    /\ manifest[job[t].id].state = "valid"
    /\ manifest[job[t].id].kind \in Kinds
    /\ job' = [job EXCEPT ![t].kind = manifest[job[t].id].kind]
    /\ Goto(t, "collect")
    /\ UNCHANGED <<disk, mu, serials, draft, reply, requests, acks>>

MarkRevoked(t) ==
    /\ pc[t] = "mark"
    /\ manifest' = [manifest EXCEPT ![job[t].id].state = "revoked"]
    /\ ackRevoked' = ackRevoked \cup {job[t].id}
    /\ Return(t, "ok")
    /\ UNCHANGED <<nextSerial, bundle, index, crl, crlnumber, ackIssued>>

-----------------------------------------------------------------------------
(* refreshIssuer and Engine.PublishCRL, on behalf of Issue and Revoke *)

RevokeIDIgnored(t) == Nobody
RevokeID(t) == IF job[t].op = "revoke" THEN job[t].id ELSE Nobody

\* refreshIssuer reads every manifest before it asks for the engine mutex.
Unreadable == IF "read" \in Faults THEN SUBSET Names ELSE {{}}

CollectInventory(t) ==
    /\ pc[t] = "collect"
    /\ \E skip \in Unreadable :
          draft' = [draft EXCEPT ![t] =
                      [valid |-> ValidCerts(job[t].kind, RevokeID(t), skip),
                       revoked |-> RevokedCerts(job[t].kind, RevokeID(t), skip),
                       number |-> 0]]
    /\ Goto(t, "crlEngine")
    /\ UNCHANGED <<disk, mu, job, serials, reply, requests, acks>>

CrlLockEngine(t) == Acquire(t, "engine", "crlEngine", "build")

\* crlnumber is copied, the certificates are registered and revoked in an
\* empty database, and the CRL is generated and verified, all in the
\* temporary directory.
BuildCrl(t) ==
    /\ pc[t] = "build"
    /\ draft' = [draft EXCEPT ![t].number = crlnumber[CaKind(job[t].kind)]]
    /\ Goto(t, "crl")
    /\ UNCHANGED <<disk, mu, job, serials, reply, requests, acks>>

\* The results are renamed into place one file at a time.
ReplaceCrl(t) ==
    /\ pc[t] = "crl"
    /\ crl' = [crl EXCEPT ![CaKind(job[t].kind)] =
                  [number |-> draft[t].number, revoked |-> draft[t].revoked]]
    /\ Goto(t, "index")
    /\ UNCHANGED <<nextSerial, bundle, manifest, index, crlnumber>>
    /\ UNCHANGED <<mu, job, serials, draft, reply, requests, acks>>

ReplaceIndexSkipped(t) ==
    /\ pc[t] = "index"
    /\ Goto(t, "number")
    /\ UNCHANGED <<disk, mu, job, serials, draft, reply, requests, acks>>
ReplaceIndex(t) ==
    /\ pc[t] = "index"
    /\ index' = [index EXCEPT ![CaKind(job[t].kind)] =
                    [valid |-> draft[t].valid, revoked |-> draft[t].revoked]]
    /\ Goto(t, "number")
    /\ UNCHANGED <<nextSerial, bundle, manifest, crl, crlnumber>>
    /\ UNCHANGED <<mu, job, serials, draft, reply, requests, acks>>

AdvancedCrlNumberLost(t) == crlnumber
AdvancedCrlNumber(t) ==
    [crlnumber EXCEPT ![CaKind(job[t].kind)] = draft[t].number + 1]

\* The last rename.  A revocation goes on to its manifest; an issuance is done.
ReplaceNumberRevoke(t) ==
    /\ pc[t] = "number"
    /\ job[t].op = "revoke"
    /\ crlnumber' = AdvancedCrlNumber(t)
    /\ ReleaseEngine
    /\ Goto(t, "mark")
    /\ UNCHANGED <<nextSerial, bundle, manifest, index, crl>>
    /\ UNCHANGED <<job, serials, draft, reply, requests, acks>>

ReplaceNumberIssue(t) ==
    /\ pc[t] = "number"
    /\ job[t].op = "issue"
    /\ crlnumber' = AdvancedCrlNumber(t)
    /\ ackIssued' = ackIssued \cup {job[t].id}
    /\ Return(t, "ok")
    /\ UNCHANGED <<nextSerial, bundle, manifest, index, crl, ackRevoked>>

\* crlnumber was replaced, but its chmod or syncing the crl directory failed.
NumberSyncFails(t) ==
    /\ "disk" \in Faults
    /\ pc[t] = "number"
    /\ crlnumber' = AdvancedCrlNumber(t)
    /\ Return(t, "crypto")
    /\ UNCHANGED <<nextSerial, bundle, manifest, index, crl, acks>>

-----------------------------------------------------------------------------
(* OCSP: PKIService.OCSP and Engine.RespondOCSP *)

Ocsp(t) ==
    /\ Arrive(t, "ocspEngine", [op |-> "ocsp", id |-> Nobody, kind |-> "rsa"])
    /\ UNCHANGED requests

OcspLockEngine(t) == Acquire(t, "engine", "ocspEngine", "respond")

\* The answer is OcspStatus of the moment; the engine mutex keeps a half
\* replaced database out of sight.
OcspRespond(t) ==
    /\ pc[t] = "respond"
    /\ Return(t, "ok")
    /\ UNCHANGED <<disk, acks>>

-----------------------------------------------------------------------------
(* Failures *)

\* A command failed, timed out or lost its client; nothing left the
\* temporary directory, which is removed.
CryptoFailsLate(t) ==
    /\ "crypto" \in Faults
    /\ pc[t] \in {"sign", "manifest", "build", "respond"}
    /\ Return(t, "crypto")
    /\ UNCHANGED <<disk, acks>>
CryptoFails(t) ==
    /\ "crypto" \in Faults
    /\ pc[t] \in {"sign", "build", "respond"}
    /\ Return(t, "crypto")
    /\ UNCHANGED <<disk, acks>>

\* A file operation failed and left the data directory as it was.  Errors of
\* the engine are reported as crypto failures, errors of writeManifest and
\* ReadDir as internal ones, an unreadable target as an unknown one.
DiskFails(t) ==
    /\ "disk" \in Faults
    /\ \/ /\ pc[t] \in EngineLabels
          /\ Return(t, "crypto")
       \/ /\ pc[t] \in {"manifest", "collect", "mark"}
          /\ Return(t, "internal")
       \/ /\ pc[t] = "target"
          /\ Return(t, "not_found")
    /\ UNCHANGED <<disk, acks>>

\* The process dies between two steps and systemd starts it again.
Crash ==
    /\ "crash" \in Faults
    /\ \E t \in Threads : pc[t] # "idle"
    /\ mu' = [l \in Locks |-> Nobody]
    /\ pc' = [t \in Threads |-> "idle"]
    /\ job' = [t \in Threads |-> NoJob]
    /\ serials' = [t \in Threads |-> {}]
    /\ draft' = [t \in Threads |-> NoDraft]
    /\ reply' = [t \in Threads |-> "none"]
    /\ UNCHANGED <<disk, requests, acks>>

-----------------------------------------------------------------------------
(* Specification *)

\* The state Store.Initialize and Engine.InitializeAuthorities leave behind.
Init ==
    /\ nextSerial = 1
    /\ bundle = [n \in Names |-> [kind |-> Absent, certs |-> {}]]
    /\ manifest = [n \in Names |->
                      [state |-> Absent, kind |-> Absent, serials |-> {}]]
    /\ index = [c \in CAs |-> [valid |-> {}, revoked |-> {}]]
    /\ crl = [c \in CAs |-> [number |-> 0, revoked |-> {}]]
    /\ crlnumber = [c \in CAs |-> FirstCrlNumber]
    /\ mu = [l \in Locks |-> Nobody]
    /\ pc = [t \in Threads |-> "idle"]
    /\ job = [t \in Threads |-> NoJob]
    /\ serials = [t \in Threads |-> {}]
    /\ draft = [t \in Threads |-> NoDraft]
    /\ reply = [t \in Threads |-> "none"]
    /\ requests = 0
    /\ ackIssued = {}
    /\ ackRevoked = {}

Request(t) ==
    \/ \E n \in Names, k \in Kinds : Issue(t, n, k)
    \/ \E n \in Names : Revoke(t, n)
    \/ Ocsp(t)

Lock(t) ==
    \/ IssueLockService(t)
    \/ IssueLockEngine(t)
    \/ RevokeLockService(t)
    \/ CrlLockEngine(t)
    \/ OcspLockEngine(t)

Work(t) ==
    \/ BeginBundle(t) \/ RejectName(t)
    \/ NextSerial(t) \/ SerialExhausted(t)
    \/ Sign(t) \/ PublishBundle(t) \/ WriteManifest(t)
    \/ TargetMissing(t) \/ TargetRevoked(t) \/ TargetValid(t) \/ MarkRevoked(t)
    \/ CollectInventory(t) \/ BuildCrl(t) \/ ReplaceCrl(t) \/ ReplaceIndex(t)
    \/ ReplaceNumberRevoke(t) \/ ReplaceNumberIssue(t)
    \/ OcspRespond(t)

Fail(t) ==
    \/ CryptoFails(t) \/ DiskFails(t)
    \/ SerialSyncFails(t) \/ PublishSyncFails(t) \/ NumberSyncFails(t)

Next ==
    \/ \E t \in Threads : Request(t) \/ Lock(t) \/ Work(t) \/ Fail(t)
    \/ Crash

Spec == Init /\ [][Next]_vars

\* A handler goroutine is scheduled, every command it runs is bounded by the
\* crypto timeout, and sync.Mutex hands a waiter the lock after 1ms of
\* starvation.  Nothing makes a client send a request.
Fairness == \A t \in Threads : WF_vars(Work(t)) /\ SF_vars(Lock(t))

FairSpec == Spec /\ Fairness

-----------------------------------------------------------------------------
(* Properties.  A definition such as AdvancedSerialLost, named like the one *)
(* that follows it with a fault added, is a broken variant the properties   *)
(* are tried against; the specification does not use it.                    *)

\* The shape of the data directory and of the process.
DiskTypeOK ==
    /\ nextSerial \in 1 .. MaxSerial
    /\ bundle \in [Names -> [kind : Kinds \cup {Absent}, certs : SUBSET Serials]]
    /\ manifest \in [Names -> [state : {Absent, "valid", "revoked"},
                               kind : Kinds \cup {Absent},
                               serials : SUBSET Serials]]
    /\ index \in [CAs -> [valid : SUBSET Serials, revoked : SUBSET Serials]]
    /\ crl \in [CAs -> [number : Nat, revoked : SUBSET Serials]]
    /\ crlnumber \in [CAs -> Nat]

Jobs == [op : {"none", "issue", "revoke", "ocsp"},
         id : Names \cup {Nobody}, kind : Kinds]

Drafts == [valid : SUBSET Serials, revoked : SUBSET Serials, number : Nat]

ProcessTypeOK ==
    /\ mu \in [Locks -> Threads \cup {Nobody}]
    /\ pc \in [Threads -> Labels]
    /\ job \in [Threads -> Jobs]
    /\ serials \in [Threads -> SUBSET Serials]
    /\ draft \in [Threads -> Drafts]
    /\ reply \in [Threads -> Replies]

\* Every part of the state keeps its shape: in particular the counter of
\* Store.NextSerial never wraps and never hands out the largest serial.
TypeOK ==
    /\ DiskTypeOK
    /\ ProcessTypeOK
    /\ requests \in Nat
    /\ ackIssued \subseteq Names
    /\ ackRevoked \subseteq Names

\* SPEC-web-issuance: concurrent requests never reuse serials.  Whatever fails
\* or dies on the way, a serial on disk or in the hands of a handler is in no
\* other bundle and in no other handler's hands, and the counter is past it.
SerialsUnique ==
    /\ \A n \in Names : \A x \in bundle[n].certs : x < nextSerial
    /\ \A t \in Threads : \A x \in serials[t] : x < nextSerial
    /\ \A m, n \in Names : m # n => bundle[m].certs \cap bundle[n].certs = {}
    /\ \A t, u \in Threads : t # u => serials[t] \cap serials[u] = {}
    /\ \A t \in Threads, n \in Names :
          serials[t] \cap bundle[n].certs # {} => n = job[t].id

\* Certificates of a bundle, seen from the authority that signed them.
Authority(n) == CaKind(bundle[n].kind)

\* SPEC-ocsp: the index is refreshed before a bundle is reported as revoked.
\* A bundle the inventory shows as revoked, or whose revocation a client was
\* told of, is on the published CRL and revoked for OCSP with all its
\* certificates, also while another request rebuilds both and after a crash
\* anywhere in between.
RevokedIsPublished ==
    \A n \in Names :
        manifest[n].state = "revoked" \/ n \in ackRevoked =>
            /\ manifest[n].state = "revoked"
            /\ bundle[n].certs # {}
            /\ bundle[n].certs \subseteq crl[Authority(n)].revoked
            /\ \A x \in bundle[n].certs : OcspStatus(Authority(n), x) = "revoked"

\* SPEC-ocsp: a successful issuance refreshes the index, so OCSP knows the
\* new certificates; no later rebuild by another request loses them.
AckedIssueKnown ==
    \A n \in ackIssued : \A x \in bundle[n].certs :
        OcspStatus(Authority(n), x) # "unknown"

\* SPEC-revocation-crl: both certificates of a TLCP bundle change status
\* together, and no certificate is valid and revoked in one index.
PairsTogether ==
    /\ \A n \in Names : \A c \in CAs :
          \A S \in {crl[c].revoked, index[c].valid, index[c].revoked} :
             bundle[n].certs \subseteq S \/ bundle[n].certs \cap S = {}
    /\ \A c \in CAs : index[c].valid \cap index[c].revoked = {}

\* The inventory never shows a bundle that is not there, or other serials and
\* another kind than its directory holds: the record and the certificates are
\* written by different steps, the serials handed over in between.
ManifestDescribesBundle ==
    \A n \in Names : Listed(n) =>
        /\ manifest[n].kind = bundle[n].kind
        /\ manifest[n].serials = bundle[n].certs
        /\ Cardinality(bundle[n].certs) = IF bundle[n].kind = "tlcp" THEN 2 ELSE 1

\* Whenever no handler is inside the service mutex, the inventory, the CRL and
\* the OCSP index agree on which bundles are revoked.
QuiescentAgreement ==
    mu["service"] = Nobody =>
        \A n \in Names : Listed(n) =>
            \A S \in {crl[Authority(n)].revoked, index[Authority(n)].revoked} :
                manifest[n].state = "revoked" <=> bundle[n].certs \subseteq S

\* A name is refused by beginBundle because of its directory and shown by List
\* because of its manifest.  As long as only commands fail, a failed issuance
\* never leaves a name that is taken and in no inventory, whatever step of the
\* issuance a command or its client gave up at.
TakenNamesAreListed ==
    mu["service"] = Nobody => \A n \in Names : NameTaken(n) => Listed(n)

\* SPEC-revocation-crl: a revoked certificate is never reported as valid again,
\* neither by the published CRL nor by OCSP.
RevocationIsFinal ==
    [][\A c \in CAs : /\ crl[c].revoked \subseteq crl'[c].revoked
                      /\ index[c].revoked \subseteq index'[c].revoked]_vars

\* SPEC-revocation-crl: a CRL that replaces another has a larger number.
CrlNumbersIncrease ==
    [][\A c \in CAs : crl'[c] # crl[c] => crl'[c].number > crl[c].number]_vars

\* SPEC-web-issuance: a crypto failure or timeout publishes no bundle.  The
\* step that answers an issuance with 502 or 504 leaves nothing in the
\* inventory under the requested name.
FailedIssueLeavesNothing ==
    [][\A t \in Threads :
          job[t].op = "issue" /\ pc[t] # "idle" /\ reply'[t] = "crypto"
              => manifest'[job[t].id].state = Absent]_vars

\* What a handler waits for, when it waits.
WaitsFor(t, lock) ==
    \/ lock = "service" /\ pc[t] \in {"issue", "revoke"}
    \/ lock = "engine" /\ pc[t] \in {"issueEngine", "crlEngine", "ocspEngine"}

\* Handlers never wait for each other in a circle, nor for a mutex that a
\* returned handler kept: whenever a request is in the service, one of them
\* does not wait or can have what it waits for.
SomebodyProceeds ==
    (\E t \in Threads : pc[t] # "idle") =>
        \E t \in Threads :
            pc[t] # "idle" /\ \A l \in Locks : WaitsFor(t, l) => mu[l] = Nobody

\* Every request is answered: no handler waits forever for a mutex that is
\* taken in the order service, engine and released on every path.
RequestsComplete ==
    \A t \in Threads : pc[t] # "idle" ~> pc[t] = "idle"

\* What clients may rely on, whatever fails: StatusAuthority, read off the
\* manifests and off the index the OCSP responder answers from.
Promise == INSTANCE StatusAuthority WITH
    Issuers <- CAs,
    NoIssuer <- Absent,
    issuer <- [n \in Names |-> IF Listed(n) THEN CaKind(manifest[n].kind) ELSE Absent],
    record <- [n \in Names |-> manifest[n].state],
    answer <- [n \in Names |->
                  IF bundle[n].certs = {} THEN "unknown"
                  ELSE IF bundle[n].certs \subseteq index[Authority(n)].revoked
                       THEN "revoked"
                  ELSE IF bundle[n].certs \subseteq index[Authority(n)].valid
                       THEN "good" ELSE "unknown"]

\* SPEC-ocsp, SPEC-revocation-crl: every step of the service is a step of
\* StatusAuthority or changes nothing a client sees.
KeepsPromise == Promise!Spec
=============================================================================
