---------------------- MODULE CertLifecycleRefinement ----------------------
(***************************************************************************)
(* Proofs that the inventory describes the bundles, that both certificates *)
(* of a TLCP pair change status together, and that CertLifecycle           *)
(* implements StatusAuthority.                                             *)
(***************************************************************************)
EXTENDS CertLifecycleProofs, FiniteSetTheorems

-----------------------------------------------------------------------------
(* Complete bundles *)

\* The certificates a bundle of a kind is made of.
Complete(kind, S) ==
    IF kind = "tlcp"
    THEN \E x, y \in Serials : x # y /\ S = {x, y}
    ELSE \E x \in Serials : S = {x}

\* A directory holds a complete bundle, and a handler has drawn what its label
\* says: nothing or the first of two serials, later all of them.
DrawnOK(t) ==
    /\ pc[t] = "serial" =>
          \/ serials[t] = {}
          \/ job[t].kind = "tlcp" /\ \E x \in Serials : serials[t] = {x}
    /\ pc[t] \in {"sign", "publish", "manifest"} =>
          Complete(job[t].kind, serials[t])

CompleteInv ==
    /\ \A n \in Names : NameTaken(n) => Complete(bundle[n].kind, bundle[n].certs)
    /\ \A n \in Names : ~NameTaken(n) => bundle[n].certs = {}
    /\ \A t \in Threads : DrawnOK(t)

LEMMA CompleteCardinality ==
    ASSUME NEW kind, NEW S, Complete(kind, S)
    PROVE  Cardinality(S) = IF kind = "tlcp" THEN 2 ELSE 1
<1>1. CASE kind = "tlcp"
  <2>1. PICK x, y \in Serials : x # y /\ S = {x, y}
    BY <1>1 DEF Complete
  <2>2. S = {x} \cup {y} /\ y \notin {x}
    BY <2>1
  <2>3. IsFiniteSet({x}) /\ Cardinality({x}) = 1
    BY FS_Singleton
  <2>4. Cardinality({x} \cup {y}) = 1 + 1
    BY <2>2, <2>3, FS_AddElement
  <2>5. QED BY <1>1, <2>2, <2>4
<1>2. CASE kind # "tlcp"
  BY <1>2, FS_Singleton DEF Complete
<1>3. QED BY <1>1, <1>2

\* A step of NextSerial moves a bundle from nothing to complete.
LEMMA DrawnNext ==
    ASSUME TypeOK, SerialsInv, NEW t \in Threads, DrawnOK(t), NextSerial(t)
    PROVE  DrawnOK(t)'
<1> USE DEF TypeOK, ProcessTypeOK
<1>1. nextSerial \in Serials /\ nextSerial \notin serials[t]
  <2>1. nextSerial \in Nat /\ MaxSerial \in Nat /\ nextSerial < MaxSerial
    BY ConstantsAssumption DEF NextSerial, SerialAvailable, DiskTypeOK
  <2>2. nextSerial \in Serials
    BY <2>1 DEF Serials, DiskTypeOK
  <2>3. \A x \in serials[t] : x # nextSerial
    BY <2>1 DEF SerialsInv, SerialsUnique
  <2>4. QED BY <2>2, <2>3
<1>2. /\ pc[t] = "serial" /\ job' = job
      /\ serials'[t] = serials[t] \cup {nextSerial}
      /\ pc'[t] = IF AllDrawn(t) THEN "sign" ELSE "serial"
      /\ job[t].kind \in Kinds
  BY DEF NextSerial, Goto, Jobs
<1>3. CASE serials[t] = {}
  BY <1>1, <1>2, <1>3 DEF DrawnOK, AllDrawn, Complete, Kinds
<1>4. CASE serials[t] # {}
  <2>1. job[t].kind = "tlcp"
    BY <1>2, <1>4 DEF DrawnOK
  <2>2. PICK x \in Serials : serials[t] = {x}
    BY <1>2, <1>4 DEF DrawnOK
  <2>3. serials'[t] = {x, nextSerial} /\ x # nextSerial
    BY <1>1, <1>2, <2>2
  <2>4. Complete(job'[t].kind, serials'[t])
    BY <1>1, <1>2, <2>1, <2>3 DEF Complete
  <2>5. QED BY <1>2, <1>4, <2>4 DEF DrawnOK, AllDrawn
<1>5. QED BY <1>3, <1>4

LEMMA DrawnOwn ==
    ASSUME TypeOK, SerialsInv, NEW t \in Threads, DrawnOK(t), Step(t)
    PROVE  DrawnOK(t)'
<1> USE DEF TypeOK, ProcessTypeOK
<1>1. ASSUME NEW r, Return(t, r) PROVE DrawnOK(t)'
  BY <1>1 DEF Return, Goto, DrawnOK
<1>2. CASE Request(t) \/ Lock(t)
  BY <1>2 DEF Request, Issue, Revoke, Ocsp, Arrive, Lock, IssueLockService,
     IssueLockEngine, RevokeLockService, CrlLockEngine, OcspLockEngine,
     Acquire, Goto, DrawnOK
<1>3. CASE \/ RejectName(t) \/ SerialExhausted(t) \/ TargetMissing(t)
           \/ TargetRevoked(t) \/ MarkRevoked(t) \/ ReplaceNumberIssue(t)
           \/ OcspRespond(t) \/ Fail(t)
  BY <1>1, <1>3 DEF RejectName, SerialExhausted, TargetMissing, TargetRevoked,
     MarkRevoked, ReplaceNumberIssue, OcspRespond, Fail, CryptoFails, DiskFails,
     SerialSyncFails, PublishSyncFails, NumberSyncFails
<1>4. CASE BeginBundle(t)
  BY <1>4 DEF BeginBundle, Goto, DrawnOK, SerialsInv, UndrawnLabels
<1>5. CASE NextSerial(t)
  BY <1>5, DrawnNext
<1>6. CASE Sign(t) \/ PublishBundle(t)
  BY <1>6 DEF Sign, PublishBundle, Goto, DrawnOK
<1>7. CASE \/ WriteManifest(t) \/ TargetValid(t) \/ CollectInventory(t)
           \/ BuildCrl(t) \/ ReplaceCrl(t) \/ ReplaceIndex(t)
           \/ ReplaceNumberRevoke(t)
  BY <1>7 DEF WriteManifest, TargetValid, CollectInventory, BuildCrl,
     ReplaceCrl, ReplaceIndex, ReplaceNumberRevoke, Goto, DrawnOK
<1>8. QED
  BY <1>2, <1>3, <1>4, <1>5, <1>6, <1>7 DEF Step, Work

\* The only steps that touch a directory of pki/issued publish a new one.
LEMMA BundleStep ==
    ASSUME TypeOK, NEW t \in Threads, Step(t)
    PROVE  \/ bundle' = bundle
           \/ /\ pc[t] = "publish"
              /\ bundle' = NewBundle(t)
              /\ UNCHANGED <<manifest, index, crl>>
<1>1. CASE Request(t) \/ Lock(t)
  BY <1>1 DEF Request, Issue, Revoke, Ocsp, Arrive, Lock, IssueLockService,
     IssueLockEngine, RevokeLockService, CrlLockEngine, OcspLockEngine,
     Acquire, disk
<1>2. CASE Work(t)
  BY <1>2 DEF Work, BeginBundle, RejectName, NextSerial, SerialExhausted, Sign,
     PublishBundle, WriteManifest, TargetMissing, TargetRevoked, TargetValid,
     MarkRevoked, CollectInventory, BuildCrl, ReplaceCrl, ReplaceIndex,
     ReplaceNumberRevoke, ReplaceNumberIssue, OcspRespond, disk
<1>3. CASE Fail(t)
  BY <1>3 DEF Fail, CryptoFails, DiskFails, SerialSyncFails, PublishSyncFails,
     NumberSyncFails, disk
<1>4. QED BY <1>1, <1>2, <1>3 DEF Step

LEMMA CompleteStep ==
    ASSUME TypeOK, JobOK, SerialsInv, CompleteInv, [Next]_vars
    PROVE  CompleteInv'
<1>1. ASSUME NEW u \in Threads, Step(u) PROVE CompleteInv'
  <2>1. ASSUME NEW t \in Threads PROVE DrawnOK(t)'
    <3>1. CASE t = u
      BY <1>1, <3>1, DrawnOwn DEF CompleteInv
    <3>2. CASE t # u
      BY <1>1, <3>2, OtherLocals DEF CompleteInv, SameLocals, DrawnOK
    <3>3. QED BY <3>1, <3>2
  <2>2. CASE bundle' = bundle
    BY <2>1, <2>2 DEF CompleteInv, NameTaken
  <2>3. CASE pc[u] = "publish" /\ bundle' = NewBundle(u)
    <3>1. Complete(job[u].kind, serials[u]) /\ job[u].kind # Absent
      BY <2>3 DEF CompleteInv, DrawnOK, TypeOK, ProcessTypeOK, Jobs, Kinds,
         Absent
    <3>2. \A n \in Names :
             bundle'[n] = IF n = job[u].id
                          THEN [kind |-> job[u].kind, certs |-> serials[u]]
                          ELSE bundle[n]
      BY <2>3 DEF NewBundle, TypeOK, DiskTypeOK
    <3>3. QED BY <2>1, <3>1, <3>2 DEF CompleteInv, NameTaken
  <2>4. QED BY <1>1, <2>2, <2>3, BundleStep
<1>2. CASE Crash
  BY <1>2 DEF Crash, disk, CompleteInv, NameTaken, DrawnOK
<1>3. CASE UNCHANGED vars
  BY <1>3 DEF vars, disk, CompleteInv, NameTaken, DrawnOK
<1>4. QED BY <1>1, <1>2, <1>3 DEF Next, Step

LEMMA CompleteInit == Init => CompleteInv
BY DEF Init, CompleteInv, NameTaken, DrawnOK

\* Whatever fails, List, Download and Bundle never show a record without its
\* bundle, with the serials of another one, or of half a TLCP pair.
THEOREM RecordsDescribeBundles == Spec => []ManifestDescribesBundle
<1>1. RecordsOK /\ CompleteInv => ManifestDescribesBundle
  <2> SUFFICES ASSUME RecordsOK, CompleteInv, NEW n \in Names, Listed(n)
               PROVE  /\ manifest[n].kind = bundle[n].kind
                      /\ manifest[n].serials = bundle[n].certs
                      /\ Cardinality(bundle[n].certs) =
                             IF bundle[n].kind = "tlcp" THEN 2 ELSE 1
    BY DEF ManifestDescribesBundle
  <2>1. Described(n)
    BY DEF RecordsOK, RecordInv
  <2>2. Complete(bundle[n].kind, bundle[n].certs)
    BY <2>1 DEF Described, CompleteInv, NameTaken, Kinds, Absent
  <2>3. QED BY <2>1, <2>2, CompleteCardinality DEF Described
<1>2. Init => SerialsInv
  BY DEF Init, SerialsInv, SerialsUnique, UndrawnLabels, DrawingLabels
<1>3. QED
  BY <1>1, <1>2, TypeCorrect, MutexInit, MutexStep, SerialsStep, RecordsInit,
     RecordsStep, CompleteInit, CompleteStep, PTL DEF Spec

-----------------------------------------------------------------------------
(* Pairs *)

\* A set of certificates that splits no bundle and holds listed bundles only.
Whole(S) ==
    /\ S \subseteq CertsOf({n \in Names : Listed(n)})
    /\ \A n \in Names :
          bundle[n].certs \subseteq S \/ bundle[n].certs \cap S = {}

\* A CA database, published or in the hands of a handler.
WholeDatabase(d) ==
    /\ Whole(d.valid)
    /\ Whole(d.revoked)
    /\ d.valid \cap d.revoked = {}

PairsInv ==
    /\ \A c \in CAs : Whole(crl[c].revoked) /\ WholeDatabase(index[c])
    /\ \A t \in Threads : WholeDatabase(draft[t])

\* Collecting bundles, which share no certificate, splits none of them.
LEMMA WholeCollection ==
    ASSUME SerialsUnique, NEW A, NEW B,
           A \subseteq {n \in Names : Listed(n)},
           B \subseteq {n \in Names : Listed(n)}, A \cap B = {}
    PROVE  /\ Whole(CertsOf(A))
           /\ CertsOf(A) \cap CertsOf(B) = {}
BY DEF SerialsUnique, Whole, CertsOf

LEMMA WholeEmpty == Whole({})
BY DEF Whole

\* Neither a new directory nor a new or a revoked record splits a bundle.
LEMMA WholeKept ==
    ASSUME TypeOK, JobOK, SerialsInv, RecordsOK, CompleteInv,
           NEW t \in Threads, Step(t)
    PROVE  \A S : Whole(S) => Whole(S)'
<1>1. \A n \in Names : Listed(n) => Listed(n)'
  <2>1. CASE Request(t) \/ Lock(t)
    BY <2>1 DEF Request, Issue, Revoke, Ocsp, Arrive, Lock, IssueLockService,
       IssueLockEngine, RevokeLockService, CrlLockEngine, OcspLockEngine,
       Acquire, disk, Listed
  <2>2. CASE WriteManifest(t) \/ MarkRevoked(t)
    BY <2>2 DEF WriteManifest, MarkRevoked, Listed, Absent, TypeOK, DiskTypeOK
  <2>3. CASE Work(t) /\ ~WriteManifest(t) /\ ~MarkRevoked(t)
    BY <2>3 DEF Work, BeginBundle, RejectName, NextSerial, SerialExhausted,
       Sign, PublishBundle, TargetMissing, TargetRevoked, TargetValid,
       CollectInventory, BuildCrl, ReplaceCrl, ReplaceIndex,
       ReplaceNumberRevoke, ReplaceNumberIssue, OcspRespond, disk, Listed
  <2>4. CASE Fail(t)
    BY <2>4 DEF Fail, CryptoFails, DiskFails, SerialSyncFails,
       PublishSyncFails, NumberSyncFails, disk, Listed
  <2>5. QED BY <2>1, <2>2, <2>3, <2>4 DEF Step
<1>2. CASE bundle' = bundle
  BY <1>1, <1>2 DEF Whole, CertsOf
<1>3. CASE pc[t] = "publish" /\ bundle' = NewBundle(t)
  <2>1. /\ job[t].id \in Names
        /\ ~Listed(job[t].id)
        /\ \A n \in Names : serials[t] \cap bundle[n].certs = {}
    BY <1>3 DEF JobOK, IdLabels, IssueLabels, RecordsOK, RecordInv, RecordOK,
       DrawingLabels, Described, Absent, Kinds, SerialsInv
  <2>2. \A n \in Names :
           bundle'[n].certs = IF n = job[t].id THEN serials[t]
                              ELSE bundle[n].certs
    BY <1>3 DEF NewBundle, TypeOK, DiskTypeOK
  <2>3. \A S : Whole(S) => serials[t] \cap S = {}
    BY <2>1 DEF Whole, CertsOf
  <2>4. CertsOf({n \in Names : Listed(n)})
           \subseteq CertsOf({n \in Names : Listed(n)})'
    BY <1>1, <2>1, <2>2 DEF CertsOf
  <2>5. QED BY <2>2, <2>3, <2>4 DEF Whole
<1>4. QED BY <1>2, <1>3, BundleStep

\* PublishCRL replaces the databases by its draft; nothing else writes them.
LEMMA PublishedStep ==
    ASSUME TypeOK, NEW t \in Threads, Step(t), NEW c \in CAs
    PROVE  /\ \/ index'[c] = index[c]
              \/ index'[c] = [valid |-> draft[t].valid,
                              revoked |-> draft[t].revoked]
           /\ \/ crl'[c] = crl[c]
              \/ crl'[c].revoked = draft[t].revoked
<1> USE DEF TypeOK, DiskTypeOK
<1>1. CASE Request(t) \/ Lock(t)
  BY <1>1 DEF Request, Issue, Revoke, Ocsp, Arrive, Lock, IssueLockService,
     IssueLockEngine, RevokeLockService, CrlLockEngine, OcspLockEngine,
     Acquire, disk
<1>2. CASE ReplaceCrl(t)
  BY <1>2 DEF ReplaceCrl
<1>3. CASE ReplaceIndex(t)
  BY <1>3 DEF ReplaceIndex
<1>4. CASE Work(t) /\ ~ReplaceCrl(t) /\ ~ReplaceIndex(t)
  BY <1>4 DEF Work, BeginBundle, RejectName, NextSerial, SerialExhausted, Sign,
     PublishBundle, WriteManifest, TargetMissing, TargetRevoked, TargetValid,
     MarkRevoked, CollectInventory, BuildCrl, ReplaceNumberRevoke,
     ReplaceNumberIssue, OcspRespond, disk
<1>5. CASE Fail(t)
  BY <1>5 DEF Fail, CryptoFails, DiskFails, SerialSyncFails, PublishSyncFails,
     NumberSyncFails, disk
<1>6. QED BY <1>1, <1>2, <1>3, <1>4, <1>5 DEF Step

\* A handler's draft is empty, kept, or collected from the inventory.
LEMMA DraftStep ==
    ASSUME TypeOK, NEW t \in Threads, Step(t)
    PROVE  \/ /\ draft'[t].valid = draft[t].valid
              /\ draft'[t].revoked = draft[t].revoked
           \/ draft'[t].valid = {} /\ draft'[t].revoked = {}
           \/ CollectInventory(t)
<1> USE DEF TypeOK, ProcessTypeOK
<1>1. ASSUME NEW r, Return(t, r)
      PROVE  draft'[t].valid = {} /\ draft'[t].revoked = {}
  BY <1>1 DEF Return, NoDraft
<1>2. CASE Request(t) \/ Lock(t)
  BY <1>2 DEF Request, Issue, Revoke, Ocsp, Arrive, Lock, IssueLockService,
     IssueLockEngine, RevokeLockService, CrlLockEngine, OcspLockEngine, Acquire
<1>3. CASE BuildCrl(t)
  BY <1>3 DEF BuildCrl, Drafts
<1>4. CASE \/ RejectName(t) \/ SerialExhausted(t) \/ TargetMissing(t)
           \/ TargetRevoked(t) \/ MarkRevoked(t) \/ ReplaceNumberIssue(t)
           \/ OcspRespond(t) \/ Fail(t)
  BY <1>1, <1>4 DEF RejectName, SerialExhausted, TargetMissing, TargetRevoked,
     MarkRevoked, ReplaceNumberIssue, OcspRespond, Fail, CryptoFails, DiskFails,
     SerialSyncFails, PublishSyncFails, NumberSyncFails
<1>5. CASE \/ BeginBundle(t) \/ NextSerial(t) \/ Sign(t) \/ PublishBundle(t)
           \/ WriteManifest(t) \/ TargetValid(t) \/ ReplaceCrl(t)
           \/ ReplaceIndex(t) \/ ReplaceNumberRevoke(t)
  BY <1>5 DEF BeginBundle, NextSerial, Sign, PublishBundle, WriteManifest,
     TargetValid, ReplaceCrl, ReplaceIndex, ReplaceNumberRevoke
<1>6. QED BY <1>2, <1>3, <1>4, <1>5 DEF Step, Work

\* Whatever manifests refreshIssuer could read, its draft splits no bundle.
LEMMA CollectedWhole ==
    ASSUME TypeOK, SerialsInv, NEW t \in Threads, CollectInventory(t)
    PROVE  WholeDatabase(draft[t])'
<1>1. PICK skip \in Unreadable :
         draft' = [draft EXCEPT ![t] =
                     [valid |-> ValidCerts(job[t].kind, RevokeID(t), skip),
                      revoked |-> RevokedCerts(job[t].kind, RevokeID(t), skip),
                      number |-> 0]]
  BY DEF CollectInventory
<1> DEFINE seen == Inventory(job[t].kind, skip)
           revoked == {n \in seen : Revoked(n, RevokeID(t))}
           valid == {n \in seen : ~Revoked(n, RevokeID(t))}
<1>2. draft'[t].valid = CertsOf(valid) /\ draft'[t].revoked = CertsOf(revoked)
  BY <1>1 DEF TypeOK, ProcessTypeOK, ValidCerts, RevokedCerts
<1>3. /\ valid \subseteq {n \in Names : Listed(n)}
      /\ revoked \subseteq {n \in Names : Listed(n)}
      /\ valid \cap revoked = {}
  BY DEF Inventory
<1>4. UNCHANGED <<bundle, manifest>>
  BY DEF CollectInventory, disk
<1>5. /\ Whole(CertsOf(valid)) /\ Whole(CertsOf(revoked))
      /\ CertsOf(valid) \cap CertsOf(revoked) = {}
  BY <1>3, WholeCollection DEF SerialsInv
<1>6. QED BY <1>2, <1>4, <1>5 DEF WholeDatabase, Whole, CertsOf, Listed

LEMMA PairsStep ==
    ASSUME TypeOK, JobOK, SerialsInv, RecordsOK, CompleteInv, PairsInv,
           [Next]_vars
    PROVE  PairsInv'
<1>1. ASSUME NEW t \in Threads, Step(t) PROVE PairsInv'
  <2>1. \A S : Whole(S) => Whole(S)'
    BY <1>1, WholeKept
  <2>2. ASSUME NEW u \in Threads PROVE WholeDatabase(draft[u])'
    <3>1. CASE /\ draft'[u].valid = draft[u].valid
               /\ draft'[u].revoked = draft[u].revoked
      BY <2>1, <3>1 DEF PairsInv, WholeDatabase, Whole
    <3>2. CASE draft'[u].valid = {} /\ draft'[u].revoked = {}
      BY <3>2 DEF WholeDatabase, Whole
    <3>3. CASE u = t /\ CollectInventory(t)
      BY <3>3, CollectedWhole
    <3>4. QED
      BY <1>1, <3>1, <3>2, <3>3, DraftStep, OtherLocals DEF SameLocals
  <2>3. ASSUME NEW c \in CAs PROVE Whole(crl[c].revoked)'
    <3>1. CASE crl'[c] = crl[c]
      BY <2>1, <3>1 DEF PairsInv, Whole
    <3>2. CASE crl'[c].revoked = draft[t].revoked
      BY <2>1, <3>2 DEF PairsInv, WholeDatabase, Whole
    <3>3. QED BY <1>1, <3>1, <3>2, PublishedStep
  <2>4. ASSUME NEW c \in CAs PROVE WholeDatabase(index[c])'
    <3>1. CASE index'[c] = index[c]
      BY <2>1, <3>1 DEF PairsInv, WholeDatabase, Whole
    <3>2. CASE /\ index'[c].valid = draft[t].valid
               /\ index'[c].revoked = draft[t].revoked
      BY <2>1, <3>2 DEF PairsInv, WholeDatabase, Whole
    <3>3. \/ index'[c] = index[c]
          \/ index'[c] = [valid |-> draft[t].valid, revoked |-> draft[t].revoked]
      BY <1>1, PublishedStep
    <3>4. QED BY <3>1, <3>2, <3>3
  <2>5. QED BY <2>2, <2>3, <2>4 DEF PairsInv
<1>2. CASE Crash
  BY <1>2 DEF Crash, disk, PairsInv, WholeDatabase, Whole, CertsOf, Listed,
     NoDraft
<1>3. CASE UNCHANGED vars
  BY <1>3 DEF vars, disk, PairsInv, WholeDatabase, Whole, CertsOf, Listed
<1>4. QED BY <1>1, <1>2, <1>3 DEF Next, Step

LEMMA PairsInit == Init => PairsInv
BY DEF Init, PairsInv, WholeDatabase, Whole, NoDraft

\* refreshIssuer registers and revokes both certificates of a TLCP bundle in
\* one database, and no failure, crash or unreadable manifest splits them or
\* leaves a certificate both valid and revoked.
THEOREM PairsStayTogether == Spec => []PairsTogether
<1>1. PairsInv => PairsTogether
  BY DEF PairsInv, PairsTogether, WholeDatabase, Whole
<1>2. Init => SerialsInv
  BY DEF Init, SerialsInv, SerialsUnique, UndrawnLabels, DrawingLabels
<1>3. QED
  BY <1>1, <1>2, TypeCorrect, MutexInit, MutexStep, SerialsStep, RecordsInit,
     RecordsStep, CompleteInit, CompleteStep, PairsInit, PairsStep, PTL DEF Spec

-----------------------------------------------------------------------------
(* CertLifecycle implements StatusAuthority *)

\* The variables of StatusAuthority, as KeepsPromise substitutes them.
IssuerSeen ==
    [n \in Names |-> IF Listed(n) THEN CaKind(manifest[n].kind) ELSE Absent]

RecordSeen == [n \in Names |-> manifest[n].state]

Answer(n) ==
    IF bundle[n].certs = {} THEN "unknown"
    ELSE IF bundle[n].certs \subseteq index[Authority(n)].revoked THEN "revoked"
    ELSE IF bundle[n].certs \subseteq index[Authority(n)].valid THEN "good"
    ELSE "unknown"

AnswerSeen == [n \in Names |-> Answer(n)]

\* The invariants the refinement rests on.
PromiseInv ==
    /\ TypeOK /\ JobOK /\ SerialsInv /\ CompleteInv /\ PairsInv
    /\ PublicationInv

LEMMA PromiseRecords == PromiseInv => RecordsOK
BY DEF PromiseInv, PublicationInv, RefreshOK, RecordsOK

\* A record of a bundle and its directory name one authority.
LEMMA ListedAuthority ==
    ASSUME PromiseInv, NEW n \in Names
    PROVE  /\ Authority(n) \in CAs
           /\ Listed(n) => /\ Authority(n) = CaKind(manifest[n].kind)
                           /\ bundle[n].certs # {}
                           /\ manifest[n].state \in {"valid", "revoked"}
BY DEF PromiseInv, PublicationInv, RecordInv, Described, Authority, CaKind, CAs,
   TypeOK, DiskTypeOK, Listed

\* Nothing is answered about a bundle that is in no inventory.
LEMMA UnlistedUnknown ==
    ASSUME PromiseInv, NEW n \in Names, ~Listed(n)
    PROVE  Answer(n) = "unknown"
<1>1. /\ Whole(index[Authority(n)].valid)
      /\ Whole(index[Authority(n)].revoked)
  BY ListedAuthority DEF PromiseInv, PairsInv, WholeDatabase
<1>2. \A m \in Names : m # n => bundle[m].certs \cap bundle[n].certs = {}
  BY DEF PromiseInv, SerialsInv, SerialsUnique
<1>3. CertsOf({m \in Names : Listed(m)}) \cap bundle[n].certs = {}
  BY <1>2 DEF CertsOf
<1>4. QED BY <1>1, <1>3 DEF Answer, Whole

\* The step that answers for a new bundle's directory changes nothing seen.
LEMMA PublishBundleSeen ==
    ASSUME PromiseInv, NEW t \in Threads, pc[t] = "publish",
           bundle' = NewBundle(t), UNCHANGED <<manifest, index>>
    PROVE  UNCHANGED <<IssuerSeen, RecordSeen, AnswerSeen>>
<1>1. PICK id \in Names : id = job[t].id
  BY DEF PromiseInv, JobOK, IdLabels, IssueLabels
<1>2. /\ job[t].kind \in Kinds
      /\ ~Listed(id)
      /\ \A n \in Names : serials[t] \cap bundle[n].certs = {}
  BY <1>1, PromiseRecords DEF PromiseInv, RecordsOK, RecordInv, RecordOK,
     DrawingLabels, Described, Absent, Kinds, SerialsInv, TypeOK,
     ProcessTypeOK, Jobs
<1>3. /\ bundle'[id] = [kind |-> job[t].kind, certs |-> serials[t]]
      /\ \A n \in Names : n # id => bundle'[n] = bundle[n]
  BY <1>1 DEF NewBundle, PromiseInv, TypeOK, DiskTypeOK
<1>4. Answer(id)' = "unknown"
  <2>1. CaKind(job[t].kind) \in CAs
    BY DEF CaKind, CAs
  <2>2. /\ Whole(index[CaKind(job[t].kind)].valid)
        /\ Whole(index[CaKind(job[t].kind)].revoked)
    BY <2>1 DEF PromiseInv, PairsInv, WholeDatabase
  <2>3. CertsOf({m \in Names : Listed(m)}) \cap serials[t] = {}
    BY <1>2 DEF CertsOf
  <2>4. bundle'[id].certs = serials[t] /\ bundle'[id].kind = job[t].kind
    BY <1>3
  <2>5. Authority(id)' = CaKind(job[t].kind)
    BY <2>4 DEF Authority, CaKind
  <2>6. QED BY <2>2, <2>3, <2>4, <2>5 DEF Answer, Whole
<1>5. \A n \in Names : Answer(n)' = Answer(n)
  <2>1. Answer(id)' = Answer(id)
    BY <1>2, <1>4, UnlistedUnknown
  <2>2. ASSUME NEW n \in Names, n # id PROVE Answer(n)' = Answer(n)
    BY <1>3, <2>2 DEF Answer, Authority
  <2>3. QED BY <2>1, <2>2
<1>6. QED BY <1>5 DEF IssuerSeen, RecordSeen, AnswerSeen, Listed

\* The same of every step that writes neither a directory, a record nor an
\* index.
LEMMA StutterSeen ==
    ASSUME UNCHANGED <<bundle, manifest, index>>
    PROVE  UNCHANGED <<IssuerSeen, RecordSeen, AnswerSeen>>
BY DEF IssuerSeen, RecordSeen, AnswerSeen, Answer, Listed, Authority

\* WriteManifest is the record of a new bundle.
LEMMA WriteManifestSeen ==
    ASSUME PromiseInv, NEW t \in Threads, WriteManifest(t)
    PROVE  \E n \in Names, c \in CAs :
              /\ RecordSeen[n] = "absent"
              /\ RecordSeen' = [RecordSeen EXCEPT ![n] = "valid"]
              /\ IssuerSeen' = [IssuerSeen EXCEPT ![n] = c]
              /\ UNCHANGED AnswerSeen
<1> DEFINE id == job[t].id
           ca == CaKind(job[t].kind)
<1>1. /\ id \in Names /\ ca \in CAs
      /\ ~Listed(id)
      /\ UNCHANGED <<bundle, index>>
  BY PromiseRecords DEF WriteManifest, PromiseInv, JobOK, IdLabels, IssueLabels,
     RecordsOK, RecordInv, RecordOK, CaKind, CAs
<1>2. /\ manifest'[id].state = "valid" /\ manifest'[id].kind = job[t].kind
      /\ \A n \in Names : n # id => manifest'[n] = manifest[n]
  BY <1>1 DEF WriteManifest, PromiseInv, TypeOK, DiskTypeOK
<1>3. RecordSeen[id] = "absent"
  BY <1>1 DEF RecordSeen, Listed, Absent
<1>4. RecordSeen' = [RecordSeen EXCEPT ![id] = "valid"]
  BY <1>1, <1>2 DEF RecordSeen
<1>5. IssuerSeen' = [IssuerSeen EXCEPT ![id] = ca]
  BY <1>1, <1>2 DEF IssuerSeen, Listed, Absent
<1>6. UNCHANGED AnswerSeen
  BY <1>1 DEF AnswerSeen, Answer, Authority
<1>7. QED BY <1>1, <1>3, <1>4, <1>5, <1>6

\* MarkRevoked is the confirmation of a published revocation.
LEMMA MarkRevokedSeen ==
    ASSUME PromiseInv, NEW t \in Threads, MarkRevoked(t)
    PROVE  \E n \in Names :
              /\ RecordSeen[n] = "valid"
              /\ AnswerSeen[n] = "revoked"
              /\ RecordSeen' = [RecordSeen EXCEPT ![n] = "revoked"]
              /\ UNCHANGED <<IssuerSeen, AnswerSeen>>
<1> DEFINE id == job[t].id
<1>1. /\ id \in Names
      /\ Listed(id) /\ manifest[id].state = "valid"
      /\ manifest[id].kind = job[t].kind
      /\ bundle[id].certs \subseteq index[CaKind(job[t].kind)].revoked
      /\ UNCHANGED <<bundle, index>>
  BY DEF MarkRevoked, PromiseInv, JobOK, IdLabels, RevokeLabels, PublicationInv,
     RefreshOK, TargetOK
<1>2. /\ manifest'[id] = [manifest[id] EXCEPT !.state = "revoked"]
      /\ \A n \in Names : n # id => manifest'[n] = manifest[n]
  BY <1>1 DEF MarkRevoked, PromiseInv, TypeOK, DiskTypeOK
<1>3. manifest'[id].state = "revoked" /\ manifest'[id].kind = manifest[id].kind
  BY <1>1, <1>2 DEF PromiseInv, TypeOK, DiskTypeOK
<1>4. RecordSeen[id] = "valid" /\ AnswerSeen[id] = "revoked"
  BY <1>1, ListedAuthority DEF RecordSeen, AnswerSeen, Answer
<1>5. RecordSeen' = [RecordSeen EXCEPT ![id] = "revoked"]
  BY <1>1, <1>2, <1>3 DEF RecordSeen
<1>6. UNCHANGED IssuerSeen
  BY <1>1, <1>2, <1>3 DEF IssuerSeen, Listed, Absent
<1>7. UNCHANGED AnswerSeen
  BY <1>1 DEF AnswerSeen, Answer, Authority
<1>8. QED BY <1>1, <1>4, <1>5, <1>6, <1>7

\* ReplaceIndex answers anew about every bundle of one authority, and about the
\* bundle being revoked ahead of its record.
LEMMA ReplaceIndexSeen ==
    ASSUME PromiseInv, NEW t \in Threads, ReplaceIndex(t)
    PROVE  \E c \in CAs, revoking \in {{}} \cup {{n} : n \in Names} :
              /\ AnswerSeen' =
                    [n \in Names |->
                       IF IssuerSeen[n] # c THEN AnswerSeen[n]
                       ELSE IF RecordSeen[n] = "revoked" \/ n \in revoking
                            THEN "revoked" ELSE "good"]
              /\ UNCHANGED <<IssuerSeen, RecordSeen>>
<1>1. PICK ca \in CAs : ca = CaKind(job[t].kind)
  BY DEF CaKind, CAs
<1>2. PICK revoking \in {{}} \cup {{n} : n \in Names} :
         \A n \in Names : n \in revoking <=> n = RevokeID(t)
  <2>1. CASE job[t].op = "revoke"
    <3>1. job[t].id \in Names
      BY DEF ReplaceIndex, PromiseInv, JobOK, IdLabels, RefreshLabels
    <3>2. \A n \in Names : n \in {job[t].id} <=> n = RevokeID(t)
      BY <2>1 DEF RevokeID
    <3>3. QED BY <3>1, <3>2
  <2>2. CASE job[t].op # "revoke"
    <3>1. \A n \in Names : ~(n = RevokeID(t))
      BY <2>2, ConstantsAssumption DEF RevokeID
    <3>2. PICK none \in {{}} \cup {{n} : n \in Names} : none = {}
      OBVIOUS
    <3>3. QED BY <3>1, <3>2
  <2>3. QED BY <2>1, <2>2
<1>3. /\ UNCHANGED <<bundle, manifest>>
      /\ \A c \in CAs : c # ca => index'[c] = index[c]
      /\ index'[ca].valid = draft[t].valid
      /\ index'[ca].revoked = draft[t].revoked
  BY <1>1 DEF ReplaceIndex, PromiseInv, TypeOK, DiskTypeOK
<1>4. /\ draft[t].revoked = RevokedCerts(job[t].kind, RevokeID(t), {})
      /\ draft[t].valid = ValidCerts(job[t].kind, RevokeID(t), {})
      /\ draft[t].valid \cap draft[t].revoked = {}
  BY DEF ReplaceIndex, PromiseInv, PublicationInv, RefreshOK, DraftLabels,
     PairsInv, WholeDatabase
<1>5. ASSUME NEW n \in Names
      PROVE  Answer(n)' =
                IF IssuerSeen[n] # ca THEN Answer(n)
                ELSE IF RecordSeen[n] = "revoked" \/ n \in revoking
                     THEN "revoked" ELSE "good"
  <2>1. CASE ~Listed(n)
    <3>1. IssuerSeen[n] # ca
      BY <2>1 DEF IssuerSeen, CAs, Absent
    <3>2. Whole(draft[t].valid) /\ Whole(draft[t].revoked)
      BY DEF PromiseInv, PairsInv, WholeDatabase
    <3>3. CertsOf({m \in Names : Listed(m)}) \cap bundle[n].certs = {}
      BY <2>1 DEF PromiseInv, SerialsInv, SerialsUnique, CertsOf
    <3>4. Answer(n) = "unknown"
      BY <2>1, UnlistedUnknown
    <3>5. CASE Authority(n) = ca
      BY <1>3, <3>1, <3>2, <3>3, <3>4, <3>5 DEF Answer, Authority, Whole
    <3>6. CASE Authority(n) # ca
      BY <1>3, <3>1, <3>6, ListedAuthority DEF Answer, Authority
    <3>7. QED BY <3>5, <3>6
  <2>2. CASE Listed(n) /\ Authority(n) # ca
    BY <1>3, <2>2, ListedAuthority DEF IssuerSeen, Answer, Authority
  <2>3. CASE Listed(n) /\ Authority(n) = ca
    <3>1. /\ IssuerSeen[n] = ca
          /\ bundle[n].certs # {}
      BY <2>3, ListedAuthority DEF IssuerSeen
    <3>2. manifest[n].kind = job[t].kind
      BY <1>1, <2>3, ListedAuthority, AuthorityKind
      DEF PromiseInv, PublicationInv, RecordInv, Described, TypeOK,
          ProcessTypeOK, Jobs
    <3>3. Revoked(n, RevokeID(t)) <=>
             RecordSeen[n] = "revoked" \/ n \in revoking
      BY <1>2 DEF Revoked, RecordSeen
    <3>4. /\ Revoked(n, RevokeID(t)) => bundle[n].certs \subseteq draft[t].revoked
          /\ ~Revoked(n, RevokeID(t)) => bundle[n].certs \subseteq draft[t].valid
      BY <1>4, <2>3, <3>2, Collected
    <3>5. Answer(n)' = IF Revoked(n, RevokeID(t)) THEN "revoked" ELSE "good"
      BY <1>3, <1>4, <2>3, <3>1, <3>4 DEF Answer, Authority
    <3>6. QED BY <3>1, <3>3, <3>5
  <2>4. QED BY <2>1, <2>2, <2>3
<1>6. UNCHANGED <<IssuerSeen, RecordSeen>>
  BY <1>3 DEF IssuerSeen, RecordSeen, Listed
<1>7. AnswerSeen' =
         [n \in Names |->
            IF IssuerSeen[n] # ca THEN AnswerSeen[n]
            ELSE IF RecordSeen[n] = "revoked" \/ n \in revoking
                 THEN "revoked" ELSE "good"]
  BY <1>5 DEF AnswerSeen
<1>8. QED BY <1>6, <1>7

\* Every step of the service is a step of StatusAuthority or stutters.
LEMMA PromiseStep ==
    ASSUME PromiseInv, [Next]_vars
    PROVE  [Promise!Next]_(Promise!vars)
<1> USE DEF IssuerSeen, RecordSeen, AnswerSeen, Answer
<1>1. ASSUME UNCHANGED <<IssuerSeen, RecordSeen, AnswerSeen>>
      PROVE  UNCHANGED Promise!vars
  BY <1>1 DEF Promise!vars
<1>2. ASSUME UNCHANGED <<bundle, manifest, index>>
      PROVE  UNCHANGED Promise!vars
  BY <1>1, <1>2, StutterSeen
<1>3. ASSUME NEW t \in Threads, WriteManifest(t) PROVE Promise!Next
  BY <1>3, WriteManifestSeen DEF Promise!Next, Promise!Record
<1>4. ASSUME NEW t \in Threads, MarkRevoked(t) PROVE Promise!Next
  BY <1>4, MarkRevokedSeen DEF Promise!Next, Promise!Confirm
<1>5. ASSUME NEW t \in Threads, ReplaceIndex(t) PROVE Promise!Next
  BY <1>5, ReplaceIndexSeen DEF Promise!Next, Promise!Publish, Promise!AtMostOne
<1>6. ASSUME NEW t \in Threads, PublishBundle(t) \/ PublishSyncFails(t)
      PROVE  UNCHANGED Promise!vars
  BY <1>1, <1>6, PublishBundleSeen DEF PublishBundle, PublishSyncFails
<1>7. ASSUME NEW t \in Threads, Request(t) \/ Lock(t)
      PROVE  UNCHANGED Promise!vars
  BY <1>2, <1>7 DEF Request, Issue, Revoke, Ocsp, Arrive, Lock,
     IssueLockService, IssueLockEngine, RevokeLockService, CrlLockEngine,
     OcspLockEngine, Acquire, disk
<1>8. ASSUME NEW t \in Threads,
             \/ BeginBundle(t) \/ RejectName(t) \/ NextSerial(t)
             \/ SerialExhausted(t) \/ Sign(t) \/ TargetMissing(t)
             \/ TargetRevoked(t) \/ TargetValid(t) \/ CollectInventory(t)
             \/ BuildCrl(t) \/ ReplaceCrl(t) \/ ReplaceNumberRevoke(t)
             \/ ReplaceNumberIssue(t) \/ OcspRespond(t) \/ CryptoFails(t)
             \/ DiskFails(t) \/ SerialSyncFails(t) \/ NumberSyncFails(t)
      PROVE  UNCHANGED Promise!vars
  BY <1>2, <1>8 DEF BeginBundle, RejectName, NextSerial, SerialExhausted, Sign,
     TargetMissing, TargetRevoked, TargetValid, CollectInventory, BuildCrl,
     ReplaceCrl, ReplaceNumberRevoke, ReplaceNumberIssue, OcspRespond,
     CryptoFails, DiskFails, SerialSyncFails, NumberSyncFails, disk
<1>9. CASE Crash
  BY <1>2, <1>9 DEF Crash, disk
<1>10. CASE UNCHANGED vars
  BY <1>2, <1>10 DEF vars, disk
<1>11. QED
  BY <1>3, <1>4, <1>5, <1>6, <1>7, <1>8, <1>9, <1>10 DEF Next, Work, Fail

LEMMA PromiseInit == Init => Promise!Init
BY DEF Init, Promise!Init, Listed, Absent

\* As long as manifests can be read, all a client sees of the inventory and of
\* the OCSP responder is a behaviour of StatusAuthority, whatever request,
\* failure or crash is interleaved with refreshIssuer and PublishCRL.
THEOREM PromiseKept ==
    ASSUME "read" \notin Faults
    PROVE  Spec => KeepsPromise
<1>1. Init => SerialsInv
  BY DEF Init, SerialsInv, SerialsUnique, UndrawnLabels, DrawingLabels
<1>2. PromiseInv /\ [Next]_vars => [Promise!Next]_(Promise!vars)
  BY PromiseStep
<1>3. Spec => []PromiseInv
  <2>1. TypeOK /\ JobOK /\ SerialsInv /\ CompleteInv /\ PairsInv
           /\ PublicationInv => PromiseInv
    BY DEF PromiseInv
  <2>2. QED
    BY <1>1, <2>1, TypeCorrect, MutexInit, MutexStep, SerialsStep, RecordsInit,
       RecordsStep, CompleteInit, CompleteStep, PairsInit, PairsStep,
       PublicationInit, PublicationStep, PTL DEF Spec
<1>4. QED
  BY <1>2, <1>3, PromiseInit, PTL DEF Spec, KeepsPromise, Promise!Spec
=============================================================================
