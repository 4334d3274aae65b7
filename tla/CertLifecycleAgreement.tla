----------------------- MODULE CertLifecycleAgreement -----------------------
(***************************************************************************)
(* Proofs of what holds as long as only commands fail: CRL numbers         *)
(* increase, a revocation is final, and the inventory, the CRLs and the    *)
(* OCSP databases agree whenever no handler is at work.                    *)
(***************************************************************************)
EXTENDS CertLifecycleProofs

-----------------------------------------------------------------------------
(* CRL numbers *)

\* Between two runs of PublishCRL the stored number is larger than that of the
\* published CRL.  Once a handler has renamed its CRL into place, they are equal
\* until it replaces the number, which nobody else can see or draw meanwhile.
NumberOK(t) ==
    LET ca == CaKind(job[t].kind)
    IN  /\ pc[t] \in {"crl", "index", "number"} =>
              draft[t].number = crlnumber[ca]
        /\ pc[t] \in {"index", "number"} => crl[ca].number = draft[t].number

Publishing(c) ==
    \E t \in Threads :
        pc[t] \in {"index", "number"} /\ CaKind(job[t].kind) = c

NumbersInv ==
    /\ \A t \in Threads : NumberOK(t)
    /\ \A c \in CAs : Publishing(c) \/ crl[c].number < crlnumber[c]

\* Only PublishCRL writes the CRLs, the databases and the stored numbers.
LEMMA PublishedKept ==
    ASSUME "disk" \notin Faults, TypeOK, NEW t \in Threads, Step(t),
           pc[t] \notin {"crl", "index", "number"}
    PROVE  UNCHANGED <<index, crl, crlnumber>>
<1>1. CASE Request(t) \/ Lock(t)
  BY <1>1 DEF Request, Issue, Revoke, Ocsp, Arrive, Lock, IssueLockService,
     IssueLockEngine, RevokeLockService, CrlLockEngine, OcspLockEngine,
     Acquire, disk
<1>2. CASE Work(t)
  BY <1>2 DEF Work, BeginBundle, RejectName, NextSerial, SerialExhausted, Sign,
     PublishBundle, WriteManifest, TargetMissing, TargetRevoked, TargetValid,
     MarkRevoked, CollectInventory, BuildCrl, ReplaceCrl, ReplaceIndex,
     ReplaceNumberRevoke, ReplaceNumberIssue, OcspRespond, disk
<1>3. CASE Fail(t)
  BY <1>3 DEF Fail, CryptoFails, DiskFails, SerialSyncFails, PublishSyncFails,
     NumberSyncFails, disk
<1>4. QED BY <1>1, <1>2, <1>3 DEF Step

\* What a handler does at the steps of PublishCRL that rename a result into
\* place, when files can be written.
LEMMA PublishingStep ==
    ASSUME "disk" \notin Faults, TypeOK, JobOK, NEW t \in Threads, Step(t),
           pc[t] \in {"crl", "index", "number"}
    PROVE  \/ pc[t] = "crl" /\ ReplaceCrl(t)
           \/ pc[t] = "index" /\ ReplaceIndex(t)
           \/ pc[t] = "number" /\ (ReplaceNumberRevoke(t) \/ ReplaceNumberIssue(t))
<1>1. ~Request(t) /\ ~Lock(t)
  BY DEF Request, Issue, Revoke, Ocsp, Arrive, Lock, IssueLockService,
     IssueLockEngine, RevokeLockService, CrlLockEngine, OcspLockEngine, Acquire
<1>2. ~Fail(t)
  BY DEF Fail, CryptoFails, DiskFails, SerialSyncFails, PublishSyncFails,
     NumberSyncFails
<1>3. CASE Work(t)
  BY <1>3 DEF Work, BeginBundle, RejectName, NextSerial, SerialExhausted, Sign,
     PublishBundle, WriteManifest, TargetMissing, TargetRevoked, TargetValid,
     MarkRevoked, CollectInventory, BuildCrl, ReplaceCrl, ReplaceIndex,
     ReplaceNumberRevoke, ReplaceNumberIssue, OcspRespond
<1>4. QED BY <1>1, <1>2, <1>3 DEF Step

\* How a handler gets to those steps: it has just read the stored number.
LEMMA PublishingEntry ==
    ASSUME "disk" \notin Faults, TypeOK, NEW t \in Threads, Step(t),
           pc[t] \notin {"crl", "index", "number"},
           pc'[t] \in {"crl", "index", "number"}
    PROVE  BuildCrl(t) /\ pc'[t] = "crl"
<1> USE DEF TypeOK, ProcessTypeOK
<1>1. ASSUME NEW r, Return(t, r) PROVE FALSE
  BY <1>1 DEF Return, Goto
<1>2. ~Request(t) /\ ~Lock(t)
  BY DEF Request, Issue, Revoke, Ocsp, Arrive, Lock, IssueLockService,
     IssueLockEngine, RevokeLockService, CrlLockEngine, OcspLockEngine,
     Acquire, Goto
<1>3. ~Fail(t)
  BY <1>1 DEF Fail, CryptoFails, DiskFails, SerialSyncFails, PublishSyncFails,
     NumberSyncFails
<1>4. CASE Work(t)
  BY <1>1, <1>4 DEF Work, BeginBundle, RejectName, NextSerial, SerialExhausted,
     Sign, PublishBundle, WriteManifest, TargetMissing, TargetRevoked,
     TargetValid, MarkRevoked, CollectInventory, BuildCrl, ReplaceCrl,
     ReplaceIndex, ReplaceNumberRevoke, ReplaceNumberIssue, OcspRespond, Goto
<1>5. QED BY <1>2, <1>3, <1>4 DEF Step

LEMMA NumbersStep ==
    ASSUME "disk" \notin Faults, "crash" \notin Faults,
           TypeOK, JobOK, MutexOK, NumbersInv, [Next]_vars
    PROVE  /\ NumbersInv'
           /\ \A c \in CAs : crl'[c] # crl[c] => crl'[c].number > crl[c].number
<1> USE DEF TypeOK, ProcessTypeOK, DiskTypeOK
<1> DEFINE Increase ==
              \A c \in CAs : crl'[c] # crl[c] => crl'[c].number > crl[c].number
<1>1. ASSUME NEW t \in Threads, Step(t), pc[t] \notin {"crl", "index", "number"}
      PROVE  NumbersInv' /\ Increase
  <2>1. UNCHANGED <<crl, crlnumber>>
    BY <1>1, PublishedKept
  <2>2. NumberOK(t)'
    <3>1. CASE pc'[t] \in {"crl", "index", "number"}
      <4>1. BuildCrl(t) /\ pc'[t] = "crl"
        BY <1>1, <3>1, PublishingEntry
      <4>2. job' = job /\ draft'[t].number = crlnumber[CaKind(job[t].kind)]
        BY <4>1 DEF BuildCrl, Drafts
      <4>3. QED BY <2>1, <4>1, <4>2 DEF NumberOK
    <3>2. CASE pc'[t] \notin {"crl", "index", "number"}
      BY <3>2 DEF NumberOK
    <3>3. QED BY <3>1, <3>2
  <2>3. ASSUME NEW u \in Threads, u # t PROVE NumberOK(u)'
    BY <1>1, <2>1, <2>3, OtherLocals DEF SameLocals, NumberOK, NumbersInv
  <2>4. \A c \in CAs : Publishing(c) => Publishing(c)'
    BY <1>1, OtherLocals DEF SameLocals, Publishing
  <2>5. QED BY <2>1, <2>2, <2>3, <2>4 DEF NumbersInv
<1>2. ASSUME NEW t \in Threads, Step(t), pc[t] \in {"crl", "index", "number"}
      PROVE  NumbersInv' /\ Increase
  <2>1. PICK ca \in CAs : ca = CaKind(job[t].kind)
    BY DEF CaKind, CAs
  <2>2. ASSUME NEW u \in Threads, u # t
        PROVE  /\ SameLocals(u)
               /\ pc[u] \notin {"crl", "index", "number"}
    BY <1>2, <2>2, OtherLocals DEF MutexOK, EngineLabels
  <2>3. \A u \in Threads : u # t => NumberOK(u)'
    BY <2>2 DEF SameLocals, NumberOK
  <2>4. \A c \in CAs : c # ca => ~Publishing(c)
    BY <2>1, <2>2 DEF Publishing
  <2>5. CASE pc[t] = "crl" /\ ReplaceCrl(t)
    <3>1. /\ crl'[ca].number = draft[t].number
          /\ \A c \in CAs : c # ca => crl'[c] = crl[c]
          /\ UNCHANGED <<crlnumber, job, draft>> /\ pc'[t] = "index"
      BY <2>1, <2>5 DEF ReplaceCrl, Goto
    <3>2. draft[t].number = crlnumber[ca] /\ crl[ca].number < crlnumber[ca]
      <4>1. ~Publishing(ca)
        BY <2>2, <2>5 DEF Publishing
      <4>2. QED BY <2>1, <2>5, <4>1 DEF NumbersInv, NumberOK
    <3>3. NumberOK(t)' /\ Publishing(ca)'
      BY <2>1, <3>1, <3>2 DEF NumberOK, Publishing
    <3>4. Increase
      BY <3>1, <3>2
    <3>5. QED BY <2>3, <2>4, <3>1, <3>3, <3>4 DEF NumbersInv
  <2>6. CASE pc[t] = "index" /\ ReplaceIndex(t)
    <3>1. UNCHANGED <<crl, crlnumber, job, draft>> /\ pc'[t] = "number"
      BY <2>6 DEF ReplaceIndex, Goto
    <3>2. NumberOK(t)' /\ Publishing(ca)'
      BY <2>1, <2>6, <3>1 DEF NumbersInv, NumberOK, Publishing
    <3>3. QED BY <2>3, <2>4, <3>1, <3>2 DEF NumbersInv
  <2>7. CASE /\ pc[t] = "number"
             /\ ReplaceNumberRevoke(t) \/ ReplaceNumberIssue(t)
    <3>1. /\ crlnumber'[ca] = draft[t].number + 1
          /\ \A c \in CAs : c # ca => crlnumber'[c] = crlnumber[c]
          /\ crl' = crl /\ pc'[t] \in {"idle", "mark"}
      BY <2>1, <2>7 DEF ReplaceNumberRevoke, ReplaceNumberIssue,
         AdvancedCrlNumber, Return, Goto
    <3>2. crl[ca].number = draft[t].number /\ draft[t].number \in Nat
      BY <2>1, <2>7 DEF NumbersInv, NumberOK, Drafts
    <3>3. crl'[ca].number < crlnumber'[ca]
      BY <3>1, <3>2
    <3>4. NumberOK(t)'
      BY <3>1 DEF NumberOK
    <3>5. QED BY <2>3, <2>4, <3>1, <3>3, <3>4 DEF NumbersInv
  <2>8. QED BY <1>2, <2>5, <2>6, <2>7, PublishingStep
<1>3. CASE UNCHANGED vars
  BY <1>3 DEF vars, disk, NumbersInv, NumberOK, Publishing
<1>4. QED BY <1>1, <1>2, <1>3 DEF Next, Step, Crash

LEMMA NumbersInit == Init => NumbersInv
BY DEF Init, NumbersInv, NumberOK, FirstCrlNumber

\* Engine.PublishCRL gives every CRL that replaces another a larger number,
\* whatever commands fail or manifests cannot be read.  A rename that fails, or
\* a crash, after the CRL and before crlnumber would have it used again.
THEOREM NumbersIncrease ==
    ASSUME "disk" \notin Faults, "crash" \notin Faults
    PROVE  Spec => CrlNumbersIncrease
<1>1. TypeOK /\ JobOK /\ MutexOK /\ NumbersInv /\ [Next]_vars
         => [\A c \in CAs : crl'[c] # crl[c] => crl'[c].number > crl[c].number]_vars
  BY NumbersStep
<1>2. TypeOK /\ JobOK /\ MutexOK /\ NumbersInv /\ [Next]_vars => NumbersInv'
  BY NumbersStep
<1>3. QED
  BY <1>1, <1>2, TypeCorrect, MutexInit, MutexStep, NumbersInit, PTL
  DEF Spec, CrlNumbersIncrease

-----------------------------------------------------------------------------
(* Taken names *)

\* A directory without a record belongs to a handler about to write it.
TakenInv ==
    \A n \in Names : NameTaken(n) /\ ~Listed(n) =>
        \E t \in Threads : pc[t] = "manifest" /\ job[t].id = n

\* The steps that make a directory or a record, when files can be written.
LEMMA TakenStep ==
    ASSUME "disk" \notin Faults, "crash" \notin Faults,
           TypeOK, JobOK, TakenInv, [Next]_vars
    PROVE  TakenInv'
<1> USE DEF TypeOK, ProcessTypeOK, DiskTypeOK
<1>1. ASSUME NEW t \in Threads, Step(t),
             UNCHANGED <<bundle, manifest>>, pc[t] # "manifest"
      PROVE  TakenInv'
  <2>1. \A n \in Names :
           \A u \in Threads : pc[u] = "manifest" /\ job[u].id = n =>
              pc'[u] = "manifest" /\ job'[u].id = n
    BY <1>1, OtherLocals DEF SameLocals
  <2>2. \A n \in Names : NameTaken(n)' = NameTaken(n) /\ Listed(n)' = Listed(n)
    BY <1>1 DEF NameTaken, Listed
  <2>3. QED BY <2>1, <2>2 DEF TakenInv
<1>2. ASSUME NEW t \in Threads, PublishBundle(t) PROVE TakenInv'
  <2>1. /\ \A n \in Names : n # job[t].id => bundle'[n] = bundle[n]
        /\ UNCHANGED <<manifest, job>>
        /\ pc[t] = "publish" /\ pc'[t] = "manifest"
        /\ \A u \in Threads : u # t => pc'[u] = pc[u]
    BY <1>2 DEF PublishBundle, NewBundle, Goto
  <2>2. ASSUME NEW n \in Names, NameTaken(n)', ~Listed(n)'
        PROVE  \E u \in Threads : pc'[u] = "manifest" /\ job'[u].id = n
    <3>1. CASE n = job[t].id
      BY <2>1, <3>1
    <3>2. CASE n # job[t].id
      <4>1. NameTaken(n) /\ ~Listed(n)
        BY <2>1, <2>2, <3>2 DEF NameTaken, Listed
      <4>2. PICK u \in Threads : pc[u] = "manifest" /\ job[u].id = n
        BY <4>1 DEF TakenInv
      <4>3. QED BY <2>1, <4>2
    <3>3. QED BY <3>1, <3>2
  <2>3. QED BY <2>2 DEF TakenInv
<1>3. ASSUME NEW t \in Threads, WriteManifest(t) PROVE TakenInv'
  <2>1. /\ \A n \in Names : n # job[t].id => manifest'[n] = manifest[n]
        /\ job[t].id \in Names
        /\ manifest'[job[t].id].state = "valid"
        /\ UNCHANGED <<bundle, job>>
        /\ \A u \in Threads : u # t => pc'[u] = pc[u]
    BY <1>3 DEF WriteManifest, Goto, JobOK, IdLabels, IssueLabels
  <2>2. ASSUME NEW n \in Names, NameTaken(n)', ~Listed(n)'
        PROVE  \E u \in Threads : pc'[u] = "manifest" /\ job'[u].id = n
    <3>1. n # job[t].id
      BY <2>1, <2>2 DEF Listed, Absent
    <3>2. NameTaken(n) /\ ~Listed(n)
      BY <2>1, <2>2, <3>1 DEF NameTaken, Listed
    <3>3. PICK u \in Threads : pc[u] = "manifest" /\ job[u].id = n
      BY <3>2 DEF TakenInv
    <3>4. QED BY <2>1, <3>1, <3>3
  <2>3. QED BY <2>2 DEF TakenInv
<1>4. ASSUME NEW t \in Threads, MarkRevoked(t) PROVE TakenInv'
  <2>1. /\ \A n \in Names : Listed(n) => Listed(n)'
        /\ bundle' = bundle /\ pc[t] = "mark"
    BY <1>4 DEF MarkRevoked, Listed, Absent
  <2>2. \A u \in Threads : u # t => pc'[u] = pc[u] /\ job'[u] = job[u]
    BY <1>4 DEF MarkRevoked, Return, Goto
  <2>3. ASSUME NEW n \in Names, NameTaken(n)', ~Listed(n)'
        PROVE  \E u \in Threads : pc'[u] = "manifest" /\ job'[u].id = n
    <3>1. NameTaken(n) /\ ~Listed(n)
      BY <2>1, <2>3 DEF NameTaken
    <3>2. PICK u \in Threads : pc[u] = "manifest" /\ job[u].id = n
      BY <3>1 DEF TakenInv
    <3>3. QED BY <2>1, <2>2, <3>2
  <2>4. QED BY <2>3 DEF TakenInv
<1>5. ASSUME NEW t \in Threads, Request(t) \/ Lock(t) PROVE TakenInv'
  BY <1>1, <1>5 DEF Step, Request, Issue, Revoke, Ocsp, Arrive, Lock,
     IssueLockService, IssueLockEngine, RevokeLockService, CrlLockEngine,
     OcspLockEngine, Acquire, disk
<1>6. ASSUME NEW t \in Threads, Work(t), ~PublishBundle(t), ~WriteManifest(t),
             ~MarkRevoked(t)
      PROVE  TakenInv'
  <2>1. UNCHANGED <<bundle, manifest>> /\ pc[t] # "manifest"
    BY <1>6 DEF Work, BeginBundle, RejectName, NextSerial, SerialExhausted,
       Sign, TargetMissing, TargetRevoked, TargetValid, CollectInventory,
       BuildCrl, ReplaceCrl, ReplaceIndex, ReplaceNumberRevoke,
       ReplaceNumberIssue, OcspRespond, disk
  <2>2. QED BY <1>1, <1>6, <2>1 DEF Step
<1>7. ASSUME NEW t \in Threads, Fail(t) PROVE TakenInv'
  BY <1>1, <1>7 DEF Step, Fail, CryptoFails, DiskFails, SerialSyncFails,
     PublishSyncFails, NumberSyncFails, disk
<1>8. CASE UNCHANGED vars
  BY <1>8 DEF vars, disk, TakenInv, NameTaken, Listed
<1>9. QED
  BY <1>2, <1>3, <1>4, <1>5, <1>6, <1>7, <1>8 DEF Next, Crash

LEMMA TakenInit == Init => TakenInv
BY DEF Init, TakenInv, NameTaken

\* Whatever command of an issuance fails or is given up, the name is free again
\* or its bundle is in the inventory once Issue has left the service mutex.
THEOREM NamesAreListed ==
    ASSUME "disk" \notin Faults, "crash" \notin Faults
    PROVE  Spec => []TakenNamesAreListed
<1>1. MutexOK /\ TakenInv => TakenNamesAreListed
  BY ConstantsAssumption
  DEF MutexOK, TakenInv, TakenNamesAreListed, ServiceLabels
<1>2. TypeOK /\ JobOK /\ TakenInv /\ [Next]_vars => TakenInv'
  BY TakenStep
<1>3. QED
  BY <1>1, <1>2, TypeCorrect, MutexInit, MutexStep, TakenInit, PTL DEF Spec

-----------------------------------------------------------------------------
(* Agreement *)

\* A bundle is on the CRL when it is recorded as revoked, or when the handler
\* that revokes it has renamed the CRL into place; likewise for the OCSP index,
\* which follows one step later.
RevokedAhead(n, labels) ==
    \/ manifest[n].state = "revoked"
    \/ \E t \in Threads :
          pc[t] \in labels /\ job[t].op = "revoke" /\ job[t].id = n

RevokedOf(c, labels) ==
    CertsOf({n \in Names : /\ Listed(n)
                           /\ CaKind(manifest[n].kind) = c
                           /\ RevokedAhead(n, labels)})

CrlLabels == {"index", "number", "mark"}
IndexLabels == {"number", "mark"}

AgreementInv ==
    \A c \in CAs :
        /\ crl[c].revoked = RevokedOf(c, CrlLabels)
        /\ index[c].revoked = RevokedOf(c, IndexLabels)

\* The same certificates, when no step changes which bundles are concerned.
LEMMA RevokedOfKept ==
    ASSUME NEW c, NEW labels,
           \A n \in Names : Listed(n) => Listed(n)' /\ bundle'[n] = bundle[n]
                                         /\ manifest'[n].kind = manifest[n].kind,
           \A n \in Names : Listed(n)' /\ ~Listed(n) => ~RevokedAhead(n, labels)',
           \A n \in Names : Listed(n) =>
              (RevokedAhead(n, labels)' <=> RevokedAhead(n, labels))
    PROVE  RevokedOf(c, labels)' = RevokedOf(c, labels)
<1>1. {n \in Names : /\ Listed(n)
                     /\ CaKind(manifest[n].kind) = c
                     /\ RevokedAhead(n, labels)}'
         = {n \in Names : /\ Listed(n)
                          /\ CaKind(manifest[n].kind) = c
                          /\ RevokedAhead(n, labels)}
  BY DEF CaKind
<1>2. QED BY <1>1 DEF RevokedOf, CertsOf

\* Who revokes ahead of the records: at most the handler inside the service
\* mutex.
LEMMA AheadAlone ==
    ASSUME MutexOK, NEW t \in Threads, pc[t] \in ServiceLabels, NEW n \in Names,
           NEW labels \in {CrlLabels, IndexLabels}
    PROVE  RevokedAhead(n, labels) <=>
              \/ manifest[n].state = "revoked"
              \/ pc[t] \in labels /\ job[t].op = "revoke" /\ job[t].id = n
BY DEF MutexOK, ServiceLabels, CrlLabels, IndexLabels, RevokedAhead

\* A handler's draft, in terms of the records.
LEMMA DraftRevoked ==
    ASSUME TypeOK, PublicationInv, NEW t \in Threads,
           pc[t] \in {"crl", "index", "number"}
    PROVE  draft[t].revoked =
              CertsOf({n \in Names :
                          /\ Listed(n)
                          /\ CaKind(manifest[n].kind) = CaKind(job[t].kind)
                          /\ \/ manifest[n].state = "revoked"
                             \/ job[t].op = "revoke" /\ job[t].id = n})
<1>1. draft[t].revoked = RevokedCerts(job[t].kind, RevokeID(t), {})
  BY DEF PublicationInv, RefreshOK, DraftLabels
<1>2. ASSUME NEW n \in Names, Listed(n)
      PROVE  manifest[n].kind = job[t].kind <=>
                CaKind(manifest[n].kind) = CaKind(job[t].kind)
  BY <1>2, AuthorityKind DEF PublicationInv, RecordInv, Described, TypeOK,
     ProcessTypeOK, Jobs
<1>3. ASSUME NEW n \in Names
      PROVE  Revoked(n, RevokeID(t)) <=>
                \/ manifest[n].state = "revoked"
                \/ job[t].op = "revoke" /\ job[t].id = n
  BY ConstantsAssumption DEF Revoked, RevokeID
<1>4. {n \in Inventory(job[t].kind, {}) : Revoked(n, RevokeID(t))}
         = {n \in Names :
               /\ Listed(n)
               /\ CaKind(manifest[n].kind) = CaKind(job[t].kind)
               /\ \/ manifest[n].state = "revoked"
                  \/ job[t].op = "revoke" /\ job[t].id = n}
  BY <1>2, <1>3 DEF Inventory
<1>5. QED BY <1>1, <1>4 DEF RevokedCerts

\* The steps before and after the renames of PublishCRL.
LEMMA AgreementQuiet ==
    ASSUME Faults \subseteq {"crypto"}, TypeOK, JobOK, MutexOK, PublicationInv,
           NEW t \in Threads, Step(t), pc[t] \notin {"crl", "index", "number"},
           NEW c \in CAs, NEW labels \in {CrlLabels, IndexLabels}
    PROVE  RevokedOf(c, labels)' = RevokedOf(c, labels)
<1> USE DEF TypeOK, ProcessTypeOK, DiskTypeOK
<1>1. "disk" \notin Faults
  OBVIOUS
<1>2. \A u \in Threads : u # t => pc'[u] = pc[u] /\ job'[u] = job[u]
  BY OtherLocals DEF SameLocals
<1>3. ASSUME UNCHANGED manifest, pc[t] \notin labels, pc'[t] \notin labels
      PROVE  \A n \in Names : RevokedAhead(n, labels)' <=> RevokedAhead(n, labels)
  BY <1>2, <1>3 DEF RevokedAhead
<1>4. ASSUME UNCHANGED <<bundle, manifest>>, pc[t] # "mark", pc'[t] # "mark"
      PROVE  RevokedOf(c, labels)' = RevokedOf(c, labels)
  <2>1. pc'[t] \notin {"index", "number"}
    BY <1>1, PublishingEntry
  <2>2. pc[t] \notin labels /\ pc'[t] \notin labels
    BY <1>4, <2>1 DEF CrlLabels, IndexLabels
  <2>3. QED
    BY <1>3, <1>4, <2>2, RevokedOfKept DEF Listed
<1>5. CASE WriteManifest(t)
  <2>1. PICK id \in Names : id = job[t].id
    BY <1>5 DEF WriteManifest, JobOK, IdLabels, IssueLabels
  <2>2. /\ bundle' = bundle
        /\ \A n \in Names : n # id => manifest'[n] = manifest[n]
        /\ manifest'[id].state = "valid" /\ ~Listed(id)
        /\ pc[t] = "manifest" /\ pc'[t] = "collect"
    BY <1>5, <2>1 DEF WriteManifest, Goto, PublicationInv, RecordInv, RecordOK
  <2>3. \A u \in Threads : pc[u] \notin labels /\ pc'[u] \notin labels
    <3>1. labels \subseteq {"index", "number", "mark"}
      BY DEF CrlLabels, IndexLabels
    <3>2. \A u \in Threads : u # t => pc[u] \notin {"index", "number", "mark"}
      BY <2>2 DEF MutexOK, ServiceLabels
    <3>3. QED BY <1>2, <2>2, <3>1, <3>2
  <2>4. ASSUME NEW n \in Names, Listed(n)
        PROVE  Listed(n)' /\ manifest'[n] = manifest[n]
    BY <2>2, <2>4 DEF Listed
  <2>5. ASSUME NEW n \in Names, Listed(n)', ~Listed(n)
        PROVE  ~RevokedAhead(n, labels)'
    <3>1. n = id
      BY <2>2, <2>5 DEF Listed
    <3>2. manifest'[n].state # "revoked"
      BY <2>2, <3>1
    <3>3. QED BY <2>3, <3>2 DEF RevokedAhead
  <2>6. ASSUME NEW n \in Names, Listed(n)
        PROVE  RevokedAhead(n, labels)' <=> RevokedAhead(n, labels)
    BY <2>3, <2>4, <2>6 DEF RevokedAhead
  <2>7. QED
    BY <2>2, <2>4, <2>5, <2>6, RevokedOfKept
<1>6. CASE MarkRevoked(t)
  <2>1. PICK id \in Names : id = job[t].id
    BY <1>6 DEF MarkRevoked, JobOK, IdLabels, RevokeLabels
  <2>2. /\ bundle' = bundle
        /\ \A n \in Names : n # id => manifest'[n] = manifest[n]
        /\ manifest'[id].state = "revoked" /\ manifest'[id].kind = manifest[id].kind
        /\ pc[t] = "mark" /\ pc'[t] = "idle" /\ job[t].op = "revoke"
        /\ Listed(id)
    BY <1>6, <2>1 DEF MarkRevoked, Return, Goto, JobOK, RevokeLabels,
       PublicationInv, RefreshOK, TargetOK
  <2>3. \A n \in Names : Listed(n) <=> Listed(n)'
    BY <2>2 DEF Listed, Absent
  <2>4. \A n \in Names : RevokedAhead(n, labels)' <=> RevokedAhead(n, labels)
    <3>1. RevokedAhead(id, labels) /\ RevokedAhead(id, labels)'
      BY <2>1, <2>2 DEF RevokedAhead, CrlLabels, IndexLabels
    <3>2. ASSUME NEW n \in Names, n # id
          PROVE  RevokedAhead(n, labels)' <=> RevokedAhead(n, labels)
      BY <1>2, <2>1, <2>2, <3>2 DEF RevokedAhead, CrlLabels, IndexLabels
    <3>3. QED BY <3>1, <3>2
  <2>5. QED
    BY <2>2, <2>3, <2>4, RevokedOfKept
<1>7. CASE PublishBundle(t)
  <2>1. PICK id \in Names : id = job[t].id
    BY <1>7 DEF PublishBundle, JobOK, IdLabels, IssueLabels
  <2>2. /\ manifest' = manifest
        /\ \A n \in Names : n # id => bundle'[n] = bundle[n]
        /\ ~Listed(id)
        /\ pc[t] = "publish" /\ pc'[t] = "manifest"
    BY <1>7, <2>1 DEF PublishBundle, NewBundle, Goto, PublicationInv, RecordInv,
       RecordOK, DrawingLabels, Described, Kinds, Absent
  <2>3. \A n \in Names : RevokedAhead(n, labels)' <=> RevokedAhead(n, labels)
    BY <1>3, <2>2 DEF CrlLabels, IndexLabels
  <2>4. QED
    BY <2>2, <2>3, RevokedOfKept DEF Listed
<1>8. ASSUME NEW r, Return(t, r) PROVE pc'[t] = "idle"
  BY <1>8 DEF Return, Goto
<1>9. CASE Request(t) \/ Lock(t)
  BY <1>4, <1>9 DEF Request, Issue, Revoke, Ocsp, Arrive, Lock,
     IssueLockService, IssueLockEngine, RevokeLockService, CrlLockEngine,
     OcspLockEngine, Acquire, Goto, disk
<1>10. CASE Work(t) /\ ~WriteManifest(t) /\ ~MarkRevoked(t) /\ ~PublishBundle(t)
  <2>1. /\ UNCHANGED <<bundle, manifest>> /\ pc[t] # "mark"
        /\ pc'[t] # "mark"
    BY <1>8, <1>10 DEF Work, BeginBundle, RejectName, NextSerial,
       SerialExhausted, Sign, TargetMissing, TargetRevoked, TargetValid,
       CollectInventory, BuildCrl, ReplaceCrl, ReplaceIndex,
       ReplaceNumberRevoke, ReplaceNumberIssue, OcspRespond, Goto, disk
  <2>2. QED BY <1>4, <2>1
<1>11. CASE Fail(t)
  BY <1>4, <1>8, <1>11 DEF Fail, CryptoFails, DiskFails, SerialSyncFails,
     PublishSyncFails, NumberSyncFails, disk
<1>12. QED
  BY <1>5, <1>6, <1>7, <1>9, <1>10, <1>11 DEF Step

\* At a rename of PublishCRL only the handler's own target is ahead of the
\* records, and it is a bundle of the authority being refreshed.
LEMMA AgreementPublishing ==
    ASSUME TypeOK, JobOK, MutexOK, PublicationInv, NEW t \in Threads, Step(t),
           UNCHANGED <<bundle, manifest>>, job'[t] = job[t],
           pc[t] \in {"crl", "index", "number"},
           pc'[t] \in ServiceLabels,
           NEW c \in CAs, NEW labels \in {CrlLabels, IndexLabels}
    PROVE  /\ pc[t] \notin labels /\ c = CaKind(job[t].kind) =>
                 RevokedOf(c, labels) \subseteq draft[t].revoked
           /\ pc'[t] \in labels /\ c = CaKind(job[t].kind) =>
                 RevokedOf(c, labels)' = draft[t].revoked
           /\ \/ pc[t] \in labels /\ pc'[t] \in labels
              \/ pc[t] \notin labels /\ pc'[t] \notin labels
              \/ c # CaKind(job[t].kind)
              => RevokedOf(c, labels)' = RevokedOf(c, labels)
<1> USE DEF TypeOK, ProcessTypeOK
<1>1. pc[t] \in ServiceLabels
  BY DEF ServiceLabels
<1>2. \A n \in Names : RevokedAhead(n, labels) <=>
         \/ manifest[n].state = "revoked"
         \/ pc[t] \in labels /\ job[t].op = "revoke" /\ job[t].id = n
  BY <1>1, AheadAlone
<1>3. \A n \in Names : RevokedAhead(n, labels)' <=>
         \/ manifest[n].state = "revoked"
         \/ pc'[t] \in labels /\ job[t].op = "revoke" /\ job[t].id = n
  <2>1. \A u \in Threads : u # t => pc'[u] = pc[u] /\ pc[u] \notin labels
    <3>1. labels \subseteq ServiceLabels
      BY DEF CrlLabels, IndexLabels, ServiceLabels
    <3>2. QED
      BY <1>1, <3>1, OtherLocals DEF SameLocals, MutexOK
  <2>2. QED BY <2>1 DEF RevokedAhead
<1>4. job[t].op = "revoke" =>
         CaKind(manifest[job[t].id].kind) = CaKind(job[t].kind)
  BY DEF PublicationInv, RefreshOK, TargetOK, RefreshLabels, CaKind
<1>5. draft[t].revoked =
         CertsOf({n \in Names :
                     /\ Listed(n)
                     /\ CaKind(manifest[n].kind) = CaKind(job[t].kind)
                     /\ \/ manifest[n].state = "revoked"
                        \/ job[t].op = "revoke" /\ job[t].id = n})
  BY DraftRevoked
<1>6. ASSUME pc[t] \notin labels, c = CaKind(job[t].kind)
      PROVE  RevokedOf(c, labels) \subseteq draft[t].revoked
  BY <1>2, <1>5, <1>6 DEF RevokedOf, CertsOf
<1>7. ASSUME pc'[t] \in labels, c = CaKind(job[t].kind)
      PROVE  RevokedOf(c, labels)' = draft[t].revoked
  <2>1. {n \in Names : /\ Listed(n)
                       /\ CaKind(manifest[n].kind) = c
                       /\ RevokedAhead(n, labels)}'
           = {n \in Names :
                 /\ Listed(n)
                 /\ CaKind(manifest[n].kind) = c
                 /\ \/ manifest[n].state = "revoked"
                    \/ job[t].op = "revoke" /\ job[t].id = n}
    BY <1>3, <1>7 DEF Listed, CaKind
  <2>2. QED BY <1>5, <1>7, <2>1 DEF RevokedOf, CertsOf
<1>8. ASSUME \/ pc[t] \in labels /\ pc'[t] \in labels
             \/ pc[t] \notin labels /\ pc'[t] \notin labels
             \/ c # CaKind(job[t].kind)
      PROVE  RevokedOf(c, labels)' = RevokedOf(c, labels)
  <2>1. {n \in Names : /\ Listed(n)
                       /\ CaKind(manifest[n].kind) = c
                       /\ RevokedAhead(n, labels)}'
           = {n \in Names : /\ Listed(n)
                            /\ CaKind(manifest[n].kind) = c
                            /\ RevokedAhead(n, labels)}
    BY <1>2, <1>3, <1>4, <1>8 DEF Listed, CaKind
  <2>2. QED BY <2>1 DEF RevokedOf, CertsOf
<1>9. QED BY <1>6, <1>7, <1>8

LEMMA AgreementStep ==
    ASSUME Faults \subseteq {"crypto"}, TypeOK, JobOK, MutexOK,
           PublicationInv, AgreementInv, [Next]_vars
    PROVE  /\ AgreementInv'
           /\ \A c \in CAs : /\ crl[c].revoked \subseteq crl'[c].revoked
                             /\ index[c].revoked \subseteq index'[c].revoked
<1> USE DEF TypeOK, ProcessTypeOK, DiskTypeOK
<1> DEFINE Final ==
              \A c \in CAs : /\ crl[c].revoked \subseteq crl'[c].revoked
                             /\ index[c].revoked \subseteq index'[c].revoked
<1>1. ASSUME NEW t \in Threads, Step(t), pc[t] \notin {"crl", "index", "number"}
      PROVE  AgreementInv' /\ Final
  <2>1. UNCHANGED <<index, crl>>
    BY <1>1, PublishedKept
  <2>2. QED BY <1>1, <2>1, AgreementQuiet DEF AgreementInv
<1>2. ASSUME NEW t \in Threads, Step(t), pc[t] = "crl", ReplaceCrl(t)
      PROVE  AgreementInv' /\ Final
  <2>1. PICK ca \in CAs : ca = CaKind(job[t].kind)
    BY DEF CaKind, CAs
  <2>2. /\ UNCHANGED <<bundle, manifest, index, job>>
        /\ pc'[t] = "index" /\ pc'[t] \in ServiceLabels
        /\ crl'[ca].revoked = draft[t].revoked
        /\ \A c \in CAs : c # ca => crl'[c] = crl[c]
    BY <1>2, <2>1 DEF ReplaceCrl, Goto, ServiceLabels
  <2>3. ASSUME NEW c \in CAs
        PROVE  /\ c = ca => /\ RevokedOf(c, CrlLabels) \subseteq draft[t].revoked
                            /\ RevokedOf(c, CrlLabels)' = draft[t].revoked
               /\ c # ca => RevokedOf(c, CrlLabels)' = RevokedOf(c, CrlLabels)
               /\ RevokedOf(c, IndexLabels)' = RevokedOf(c, IndexLabels)
    BY <1>2, <2>1, <2>2, AgreementPublishing DEF CrlLabels, IndexLabels
  <2>4. ASSUME NEW c \in CAs
        PROVE  /\ crl'[c].revoked = RevokedOf(c, CrlLabels)'
               /\ index'[c].revoked = RevokedOf(c, IndexLabels)'
               /\ crl[c].revoked \subseteq crl'[c].revoked
               /\ index[c].revoked \subseteq index'[c].revoked
    BY <2>2, <2>3 DEF AgreementInv
  <2>5. QED BY <2>4 DEF AgreementInv
<1>3. ASSUME NEW t \in Threads, Step(t), pc[t] = "index", ReplaceIndex(t)
      PROVE  AgreementInv' /\ Final
  <2>1. PICK ca \in CAs : ca = CaKind(job[t].kind)
    BY DEF CaKind, CAs
  <2>2. /\ UNCHANGED <<bundle, manifest, crl, job>>
        /\ pc'[t] = "number" /\ pc'[t] \in ServiceLabels
        /\ index'[ca].revoked = draft[t].revoked
        /\ \A c \in CAs : c # ca => index'[c] = index[c]
    BY <1>3, <2>1 DEF ReplaceIndex, Goto, ServiceLabels
  <2>3. ASSUME NEW c \in CAs
        PROVE  /\ c = ca => /\ RevokedOf(c, IndexLabels) \subseteq draft[t].revoked
                            /\ RevokedOf(c, IndexLabels)' = draft[t].revoked
               /\ c # ca => RevokedOf(c, IndexLabels)' = RevokedOf(c, IndexLabels)
               /\ RevokedOf(c, CrlLabels)' = RevokedOf(c, CrlLabels)
    BY <1>3, <2>1, <2>2, AgreementPublishing DEF CrlLabels, IndexLabels
  <2>4. ASSUME NEW c \in CAs
        PROVE  /\ crl'[c].revoked = RevokedOf(c, CrlLabels)'
               /\ index'[c].revoked = RevokedOf(c, IndexLabels)'
               /\ crl[c].revoked \subseteq crl'[c].revoked
               /\ index[c].revoked \subseteq index'[c].revoked
    BY <2>2, <2>3 DEF AgreementInv
  <2>5. QED BY <2>4 DEF AgreementInv
<1>4. ASSUME NEW t \in Threads, Step(t), pc[t] = "number", ReplaceNumberRevoke(t)
      PROVE  AgreementInv' /\ Final
  <2>1. /\ UNCHANGED <<bundle, manifest, index, crl, job>>
        /\ pc'[t] = "mark" /\ pc'[t] \in ServiceLabels
    BY <1>4 DEF ReplaceNumberRevoke, Goto, ServiceLabels
  <2>2. ASSUME NEW c \in CAs, NEW labels \in {CrlLabels, IndexLabels}
        PROVE  RevokedOf(c, labels)' = RevokedOf(c, labels)
    <3>1. pc[t] \in labels /\ pc'[t] \in labels
      BY <1>4, <2>1 DEF CrlLabels, IndexLabels
    <3>2. QED BY <1>4, <2>1, <3>1, AgreementPublishing
  <2>3. QED BY <2>1, <2>2 DEF AgreementInv
<1>5. ASSUME NEW t \in Threads, Step(t), pc[t] = "number", ReplaceNumberIssue(t)
      PROVE  AgreementInv' /\ Final
  <2>1. /\ UNCHANGED <<bundle, manifest, index, crl>>
        /\ job[t].op = "issue" /\ pc'[t] = "idle"
        /\ \A u \in Threads : u # t => pc'[u] = pc[u] /\ job'[u] = job[u]
    BY <1>5 DEF ReplaceNumberIssue, Return, Goto
  <2>2. ASSUME NEW n \in Names, NEW labels \in {CrlLabels, IndexLabels}
        PROVE  RevokedAhead(n, labels)' <=> RevokedAhead(n, labels)
    <3>1. labels \subseteq {"index", "number", "mark"}
      BY DEF CrlLabels, IndexLabels
    <3>2. QED BY <2>1, <3>1 DEF RevokedAhead
  <2>3. ASSUME NEW c \in CAs, NEW labels \in {CrlLabels, IndexLabels}
        PROVE  RevokedOf(c, labels)' = RevokedOf(c, labels)
    BY <2>1, <2>2, RevokedOfKept DEF Listed
  <2>4. QED BY <2>1, <2>3 DEF AgreementInv
<1>6. ~Crash
  BY DEF Crash
<1>7. CASE UNCHANGED vars
  BY <1>7 DEF vars, disk, AgreementInv, RevokedOf, RevokedAhead, CertsOf, Listed
<1>8. QED
  BY <1>1, <1>2, <1>3, <1>4, <1>5, <1>6, <1>7, PublishingStep DEF Next, Step

LEMMA AgreementInit == Init => AgreementInv
BY DEF Init, AgreementInv, RevokedOf, CertsOf, Listed, Absent

\* As long as only commands fail, neither the CRL that refreshIssuer publishes
\* nor the database OCSP answers from drops a revoked certificate.
THEOREM RevocationsAreFinal ==
    ASSUME Faults \subseteq {"crypto"}
    PROVE  Spec => RevocationIsFinal
<1>1. TypeOK /\ JobOK /\ MutexOK /\ PublicationInv /\ AgreementInv /\ [Next]_vars
         => [\A c \in CAs : /\ crl[c].revoked \subseteq crl'[c].revoked
                            /\ index[c].revoked \subseteq index'[c].revoked]_vars
  BY AgreementStep
<1>2. TypeOK /\ JobOK /\ MutexOK /\ PublicationInv /\ AgreementInv /\ [Next]_vars
         => AgreementInv'
  BY AgreementStep
<1>3. "read" \notin Faults
  OBVIOUS
<1>4. QED
  BY <1>1, <1>2, <1>3, TypeCorrect, MutexInit, MutexStep, PublicationInit,
     PublicationStep, AgreementInit, PTL DEF Spec, RevocationIsFinal

\* Whenever no handler is inside the service mutex, manifests, CRLs and OCSP
\* databases agree on every listed bundle, although three steps write them and
\* any command in between may fail.
THEOREM QuietAgreement ==
    ASSUME Faults \subseteq {"crypto"}
    PROVE  Spec => []QuiescentAgreement
<1>1. ASSUME TypeOK, MutexOK, PublicationInv, SerialsInv, AgreementInv
      PROVE  QuiescentAgreement
  <2> SUFFICES ASSUME mu["service"] = Nobody, NEW n \in Names, Listed(n),
                      NEW S \in {crl[Authority(n)].revoked,
                                 index[Authority(n)].revoked}
               PROVE  manifest[n].state = "revoked" <=> bundle[n].certs \subseteq S
    BY DEF QuiescentAgreement
  <2>1. \A t \in Threads : pc[t] \notin CrlLabels \cup IndexLabels
    BY <1>1, ConstantsAssumption
    DEF MutexOK, ServiceLabels, CrlLabels, IndexLabels
  <2>2. Authority(n) \in CAs
    BY DEF Authority, CaKind, CAs
  <2>3. Authority(n) = CaKind(manifest[n].kind) /\ bundle[n].certs # {}
    BY <1>1 DEF PublicationInv, RecordInv, Described, Authority
  <2>4. S = CertsOf({m \in Names : /\ Listed(m)
                                   /\ CaKind(manifest[m].kind) = Authority(n)
                                   /\ manifest[m].state = "revoked"})
    BY <1>1, <2>1, <2>2 DEF AgreementInv, RevokedOf, RevokedAhead
  <2>5. \A m \in Names : m # n => bundle[m].certs \cap bundle[n].certs = {}
    BY <1>1 DEF SerialsInv, SerialsUnique
  <2>6. ASSUME manifest[n].state = "revoked" PROVE bundle[n].certs \subseteq S
    BY <2>3, <2>4, <2>6 DEF CertsOf
  <2>7. ASSUME bundle[n].certs \subseteq S PROVE manifest[n].state = "revoked"
    BY <2>3, <2>4, <2>5, <2>7 DEF CertsOf
  <2>8. QED BY <2>6, <2>7
<1>2. Init => SerialsInv
  BY DEF Init, SerialsInv, SerialsUnique, UndrawnLabels, DrawingLabels
<1>3. TypeOK /\ JobOK /\ MutexOK /\ PublicationInv /\ AgreementInv /\ [Next]_vars
         => AgreementInv'
  BY AgreementStep
<1>4. "read" \notin Faults
  OBVIOUS
<1>5. QED
  BY <1>1, <1>2, <1>3, <1>4, TypeCorrect, MutexInit, MutexStep, SerialsStep,
     PublicationInit, PublicationStep, AgreementInit, PTL DEF Spec
=============================================================================
