------------------------ MODULE CertLifecycleProofs ------------------------
(***************************************************************************)
(* Proofs about CertLifecycle, for any number of handlers, bundle names    *)
(* and requests.                                                           *)
(***************************************************************************)
EXTENDS CertLifecycle, TLAPS

-----------------------------------------------------------------------------
(* Type correctness *)

\* The serial after one below the largest is computed without wrapping.
LEMMA NoWrap ==
    ASSUME NEW x \in Nat, NEW m \in Nat, x < m
    PROVE  (x + 1) % (m + 1) = x + 1
OBVIOUS

\* The arguments of Return, Acquire and Arrive decide the type of their result.
LEMMA ReturnType ==
    ASSUME ProcessTypeOK, NEW t \in Threads, NEW r \in Replies, Return(t, r)
    PROVE  ProcessTypeOK' /\ requests' = requests
<1> USE DEF ProcessTypeOK, Return
<1>1. NoJob \in Jobs /\ NoDraft \in Drafts /\ "idle" \in Labels
  BY DEF NoJob, Jobs, Kinds, NoDraft, Drafts, Labels
<1>2. mu' \in [Locks -> Threads \cup {Nobody}]
  OBVIOUS
<1>3. QED BY <1>1, <1>2 DEF Goto

LEMMA AcquireType ==
    ASSUME ProcessTypeOK, NEW t \in Threads, NEW lock \in Locks,
           NEW from, NEW to \in Labels, Acquire(t, lock, from, to)
    PROVE  ProcessTypeOK'
BY DEF ProcessTypeOK, Acquire, Goto

LEMMA ArriveType ==
    ASSUME ProcessTypeOK, NEW t \in Threads, NEW label \in Labels,
           NEW newJob \in Jobs, Arrive(t, label, newJob)
    PROVE  ProcessTypeOK'
<1>1. "none" \in Replies
  BY DEF Replies
<1>2. QED BY <1>1 DEF ProcessTypeOK, Arrive, Goto

\* The certificates collected for a CRL carry serials.
LEMMA InventoryType ==
    ASSUME DiskTypeOK, NEW kind, NEW id, NEW skip
    PROVE  /\ RevokedCerts(kind, id, skip) \subseteq Serials
           /\ ValidCerts(kind, id, skip) \subseteq Serials
BY DEF DiskTypeOK, RevokedCerts, ValidCerts, CertsOf, Inventory

\* The advanced CRL numbers are numbers.
LEMMA AdvancedType ==
    ASSUME DiskTypeOK, ProcessTypeOK, NEW t \in Threads
    PROVE  AdvancedCrlNumber(t) \in [CAs -> Nat]
<1>1. draft[t].number + 1 \in Nat
  BY DEF ProcessTypeOK, Drafts
<1>2. QED BY <1>1 DEF AdvancedCrlNumber, DiskTypeOK

LEMMA RequestType ==
    ASSUME TypeOK, NEW t \in Threads, Request(t)
    PROVE  TypeOK'
<1> USE DEF TypeOK
<1>1. DiskTypeOK' /\ UNCHANGED acks /\ requests' \in Nat
  BY DEF Request, Issue, Revoke, Ocsp, Arrive, disk, DiskTypeOK
<1>2. ASSUME NEW n \in Names, NEW k \in Kinds, Issue(t, n, k)
      PROVE  ProcessTypeOK'
  <2>1. "issue" \in Labels /\ [op |-> "issue", id |-> n, kind |-> k] \in Jobs
    BY DEF Labels, Jobs
  <2>2. QED BY <1>2, <2>1, ArriveType DEF Issue
<1>3. ASSUME NEW n \in Names, Revoke(t, n)
      PROVE  ProcessTypeOK'
  <2>1. "revoke" \in Labels /\ [op |-> "revoke", id |-> n, kind |-> "rsa"] \in Jobs
    BY DEF Labels, Jobs, Kinds
  <2>2. QED BY <1>3, <2>1, ArriveType DEF Revoke
<1>4. CASE Ocsp(t)
  <2>1. "ocspEngine" \in Labels
        /\ [op |-> "ocsp", id |-> Nobody, kind |-> "rsa"] \in Jobs
    BY DEF Labels, Jobs, Kinds
  <2>2. QED BY <1>1, <1>4, <2>1, ArriveType DEF Ocsp, acks
<1>5. QED BY <1>1, <1>2, <1>3, <1>4 DEF Request, acks

LEMMA LockType ==
    ASSUME TypeOK, NEW t \in Threads, Lock(t)
    PROVE  TypeOK'
<1>1. UNCHANGED <<disk, requests, acks>>
  BY DEF Lock, IssueLockService, IssueLockEngine, RevokeLockService,
     CrlLockEngine, OcspLockEngine, Acquire
<1>2. ProcessTypeOK'
  <2>1. {"issueEngine", "begin", "target", "build", "respond"} \subseteq Labels
        /\ "service" \in Locks /\ "engine" \in Locks
    BY DEF Labels, EngineLabels, ServiceLabels, Locks
  <2>2. QED
    BY <2>1, AcquireType DEF TypeOK, Lock, IssueLockService, IssueLockEngine,
       RevokeLockService, CrlLockEngine, OcspLockEngine
<1>3. QED BY <1>1, <1>2 DEF TypeOK, DiskTypeOK, disk, acks

\* What a label says about the request: which operation it serves, and that it
\* names a bundle.
IssueLabels == {"issue", "issueEngine", "begin", "serial", "sign", "publish", "manifest"}
RevokeLabels == {"revoke", "target", "mark"}
RefreshLabels == {"collect", "crlEngine", "build", "crl", "index", "number"}
IdLabels == IssueLabels \cup RevokeLabels \cup RefreshLabels

JobOK ==
    \A t \in Threads :
        /\ pc[t] \in IssueLabels => job[t].op = "issue"
        /\ pc[t] \in RevokeLabels => job[t].op = "revoke"
        /\ pc[t] \in RefreshLabels => job[t].op \in {"issue", "revoke"}
        /\ pc[t] \in IdLabels => job[t].id \in Names

LEMMA WorkType ==
    ASSUME TypeOK, JobOK, NEW t \in Threads, Work(t)
    PROVE  TypeOK'
<1> USE DEF TypeOK
<1> DEFINE Same == UNCHANGED <<requests, acks>>
<1>0. /\ Labels = EngineLabels \cup ServiceLabels
                      \cup {"idle", "issue", "revoke", "ocspEngine"}
      /\ {"ok", "conflict", "not_found", "crypto", "internal"} \subseteq Replies
  BY DEF Labels, Replies
<1>1. CASE BeginBundle(t)
  BY <1>0, <1>1 DEF BeginBundle, Goto, disk, acks, DiskTypeOK, ProcessTypeOK,
     EngineLabels
<1>2. CASE RejectName(t)
  BY <1>0, <1>2, ReturnType DEF RejectName, disk, acks, DiskTypeOK
<1>3. CASE NextSerial(t)
  <2>1. nextSerial \in Serials /\ nextSerial' \in 1 .. MaxSerial
    <3>1. nextSerial \in Nat /\ MaxSerial \in Nat /\ nextSerial < MaxSerial
          /\ nextSerial \in Serials
      BY <1>3, ConstantsAssumption
      DEF NextSerial, SerialAvailable, DiskTypeOK, Serials
    <3>2. nextSerial' = nextSerial + 1
      BY <1>3, <3>1, NoWrap DEF NextSerial, AdvancedSerial
    <3>3. QED BY <3>1, <3>2
  <2>2. DiskTypeOK'
    BY <1>3, <2>1 DEF NextSerial, DiskTypeOK
  <2>3. ProcessTypeOK'
    BY <1>0, <1>3, <2>1 DEF NextSerial, ProcessTypeOK, Goto, EngineLabels
  <2>4. QED BY <1>3, <2>2, <2>3 DEF NextSerial, acks
<1>4. CASE SerialExhausted(t)
  BY <1>0, <1>4, ReturnType DEF SerialExhausted, disk, acks, DiskTypeOK
<1>5. CASE Sign(t)
  BY <1>0, <1>5 DEF Sign, Goto, disk, acks, DiskTypeOK, ProcessTypeOK,
     EngineLabels
<1>6. CASE PublishBundle(t)
  <2>1. DiskTypeOK'
    BY <1>6 DEF PublishBundle, NewBundle, DiskTypeOK, ProcessTypeOK, Jobs
  <2>2. ProcessTypeOK'
    BY <1>0, <1>6 DEF PublishBundle, ReleaseEngine, Goto, ProcessTypeOK,
       ServiceLabels
  <2>3. QED BY <1>6, <2>1, <2>2 DEF PublishBundle, acks
<1>7. CASE WriteManifest(t)
  <2>1. DiskTypeOK'
    BY <1>7 DEF WriteManifest, DiskTypeOK, ProcessTypeOK, Jobs
  <2>2. ProcessTypeOK'
    BY <1>0, <1>7 DEF WriteManifest, Goto, ProcessTypeOK, ServiceLabels
  <2>3. QED BY <1>7, <2>1, <2>2 DEF WriteManifest, acks
<1>8. CASE TargetMissing(t)
  BY <1>0, <1>8, ReturnType DEF TargetMissing, disk, acks, DiskTypeOK
<1>9. CASE TargetRevoked(t)
  <2>1. job[t].id \in Names
    BY <1>9 DEF TargetRevoked, JobOK, IdLabels, RevokeLabels
  <2>2. QED
    BY <1>0, <1>9, <2>1, ReturnType DEF TargetRevoked, disk, acks, DiskTypeOK
<1>10. CASE TargetValid(t)
  <2>1. manifest[job[t].id].kind \in Kinds
    BY <1>10 DEF TargetValid
  <2>2. ProcessTypeOK'
    BY <1>0, <1>10, <2>1 DEF TargetValid, Goto, ProcessTypeOK, ServiceLabels, Jobs
  <2>3. QED BY <1>10, <2>2 DEF TargetValid, disk, acks, DiskTypeOK
<1>11. CASE MarkRevoked(t)
  <2>1. job[t].id \in Names
    BY <1>11 DEF MarkRevoked, JobOK, IdLabels, RevokeLabels
  <2>2. DiskTypeOK'
    BY <1>11, <2>1 DEF MarkRevoked, DiskTypeOK
  <2>3. QED
    BY <1>0, <1>11, <2>1, <2>2, ReturnType DEF MarkRevoked, acks
<1>12. CASE CollectInventory(t)
  <2>1. ProcessTypeOK'
    BY <1>0, <1>12, InventoryType
    DEF CollectInventory, Goto, ProcessTypeOK, ServiceLabels, Drafts
  <2>2. QED BY <1>12, <2>1 DEF CollectInventory, disk, acks, DiskTypeOK
<1>13. CASE BuildCrl(t)
  <2>1. CaKind(job[t].kind) \in CAs
    BY DEF CaKind, CAs
  <2>2. ProcessTypeOK'
    BY <1>0, <1>13, <2>1
    DEF BuildCrl, Goto, ProcessTypeOK, DiskTypeOK, ServiceLabels, Drafts
  <2>3. QED BY <1>13, <2>2 DEF BuildCrl, disk, acks, DiskTypeOK
<1>14. CASE ReplaceCrl(t)
  <2>1. DiskTypeOK'
    BY <1>14 DEF ReplaceCrl, DiskTypeOK, ProcessTypeOK, Drafts
  <2>2. ProcessTypeOK'
    BY <1>0, <1>14 DEF ReplaceCrl, Goto, ProcessTypeOK, ServiceLabels
  <2>3. QED BY <1>14, <2>1, <2>2 DEF ReplaceCrl, acks
<1>15. CASE ReplaceIndex(t)
  <2>1. DiskTypeOK'
    BY <1>15 DEF ReplaceIndex, DiskTypeOK, ProcessTypeOK, Drafts
  <2>2. ProcessTypeOK'
    BY <1>0, <1>15 DEF ReplaceIndex, Goto, ProcessTypeOK, ServiceLabels
  <2>3. QED BY <1>15, <2>1, <2>2 DEF ReplaceIndex, acks
<1>16. CASE ReplaceNumberRevoke(t)
  <2>1. DiskTypeOK'
    BY <1>16, AdvancedType DEF ReplaceNumberRevoke, DiskTypeOK
  <2>2. ProcessTypeOK'
    BY <1>0, <1>16 DEF ReplaceNumberRevoke, ReleaseEngine, Goto, ProcessTypeOK,
       ServiceLabels
  <2>3. QED BY <1>16, <2>1, <2>2 DEF ReplaceNumberRevoke, acks
<1>17. CASE ReplaceNumberIssue(t)
  <2>1. DiskTypeOK'
    BY <1>17, AdvancedType DEF ReplaceNumberIssue, DiskTypeOK
  <2>2. job[t].id \in Names
    BY <1>17 DEF ReplaceNumberIssue, JobOK, IdLabels, RefreshLabels
  <2>3. QED
    BY <1>0, <1>17, <2>1, <2>2, ReturnType DEF ReplaceNumberIssue, acks
<1>18. CASE OcspRespond(t)
  BY <1>0, <1>18, ReturnType DEF OcspRespond, disk, acks, DiskTypeOK
<1>19. QED
  BY <1>1, <1>2, <1>3, <1>4, <1>5, <1>6, <1>7, <1>8, <1>9, <1>10, <1>11, <1>12,
     <1>13, <1>14, <1>15, <1>16, <1>17, <1>18 DEF Work

LEMMA FailType ==
    ASSUME TypeOK, NEW t \in Threads, Fail(t)
    PROVE  TypeOK'
<1> USE DEF TypeOK
<1>0. {"crypto", "internal", "not_found"} \subseteq Replies
  BY DEF Replies
<1>1. CASE CryptoFails(t)
  BY <1>0, <1>1, ReturnType DEF CryptoFails, disk, acks, DiskTypeOK
<1>2. CASE DiskFails(t)
  BY <1>0, <1>2, ReturnType DEF DiskFails, disk, acks, DiskTypeOK
<1>3. CASE SerialSyncFails(t)
  <2>1. nextSerial' \in 1 .. MaxSerial
    <3>1. nextSerial \in Nat /\ MaxSerial \in Nat /\ nextSerial < MaxSerial
      BY <1>3, ConstantsAssumption
      DEF SerialSyncFails, SerialAvailable, DiskTypeOK
    <3>2. nextSerial' = nextSerial + 1
      BY <1>3, <3>1, NoWrap DEF SerialSyncFails, AdvancedSerial
    <3>3. QED BY <3>1, <3>2
  <2>2. DiskTypeOK'
    BY <1>3, <2>1 DEF SerialSyncFails, DiskTypeOK
  <2>3. QED BY <1>0, <1>3, <2>2, ReturnType DEF SerialSyncFails, acks
<1>4. CASE PublishSyncFails(t)
  <2>1. DiskTypeOK'
    BY <1>4 DEF PublishSyncFails, NewBundle, DiskTypeOK, ProcessTypeOK, Jobs
  <2>2. QED BY <1>0, <1>4, <2>1, ReturnType DEF PublishSyncFails, acks
<1>5. CASE NumberSyncFails(t)
  <2>1. DiskTypeOK'
    BY <1>5, AdvancedType DEF NumberSyncFails, DiskTypeOK
  <2>2. QED BY <1>0, <1>5, <2>1, ReturnType DEF NumberSyncFails, acks
<1>6. QED BY <1>1, <1>2, <1>3, <1>4, <1>5 DEF Fail

LEMMA CrashType ==
    ASSUME TypeOK, Crash
    PROVE  TypeOK'
<1>1. NoJob \in Jobs /\ NoDraft \in Drafts /\ "idle" \in Labels /\ "none" \in Replies
  BY DEF NoJob, Jobs, Kinds, NoDraft, Drafts, Labels, Replies
<1>2. ProcessTypeOK'
  BY <1>1 DEF Crash, ProcessTypeOK
<1>3. QED BY <1>2 DEF Crash, TypeOK, DiskTypeOK, disk, acks

\* A handler's label and request change together, and only by its own steps.
LEMMA JobStep ==
    ASSUME TypeOK, JobOK, [Next]_vars
    PROVE  JobOK'
<1> USE DEF JobOK, IssueLabels, RevokeLabels, RefreshLabels, IdLabels
<1>0. pc \in [Threads -> Labels] /\ job \in [Threads -> Jobs]
  BY DEF TypeOK, ProcessTypeOK
<1>1. ASSUME NEW t \in Threads, NEW r, Return(t, r) PROVE JobOK'
  BY <1>0, <1>1 DEF Return, Goto
<1>2. ASSUME NEW t \in Threads, Request(t) PROVE JobOK'
  BY <1>0, <1>2 DEF Request, Issue, Revoke, Ocsp, Arrive, Goto
<1>3. ASSUME NEW t \in Threads, Lock(t) PROVE JobOK'
  BY <1>0, <1>3 DEF Lock, IssueLockService, IssueLockEngine, RevokeLockService,
     CrlLockEngine, OcspLockEngine, Acquire, Goto
<1>4. ASSUME NEW t \in Threads, Work(t) PROVE JobOK'
  <2>1. CASE \/ RejectName(t) \/ SerialExhausted(t) \/ TargetMissing(t)
             \/ TargetRevoked(t) \/ MarkRevoked(t) \/ ReplaceNumberIssue(t)
             \/ OcspRespond(t)
    BY <1>1, <2>1 DEF RejectName, SerialExhausted, TargetMissing, TargetRevoked,
       MarkRevoked, ReplaceNumberIssue, OcspRespond
  <2>2. CASE BeginBundle(t) \/ NextSerial(t) \/ Sign(t) \/ PublishBundle(t)
             \/ WriteManifest(t)
    BY <1>0, <2>2 DEF BeginBundle, NextSerial, Sign, PublishBundle,
       WriteManifest, Goto
  <2>3. CASE TargetValid(t)
    BY <1>0, <2>3 DEF TargetValid, Goto, Jobs
  <2>4. CASE CollectInventory(t) \/ BuildCrl(t) \/ ReplaceCrl(t)
             \/ ReplaceIndex(t) \/ ReplaceNumberRevoke(t)
    BY <1>0, <2>4 DEF CollectInventory, BuildCrl, ReplaceCrl, ReplaceIndex,
       ReplaceNumberRevoke, Goto
  <2>5. QED BY <1>4, <2>1, <2>2, <2>3, <2>4 DEF Work
<1>5. ASSUME NEW t \in Threads, Fail(t) PROVE JobOK'
  BY <1>1, <1>5 DEF Fail, CryptoFails, DiskFails, SerialSyncFails,
     PublishSyncFails, NumberSyncFails
<1>6. CASE Crash
  BY <1>6 DEF Crash
<1>7. CASE UNCHANGED vars
  BY <1>7 DEF vars
<1>8. QED BY <1>2, <1>3, <1>4, <1>5, <1>6, <1>7 DEF Next

LEMMA TypeStep ==
    ASSUME TypeOK, JobOK, [Next]_vars
    PROVE  TypeOK'
<1>1. CASE UNCHANGED vars
  BY <1>1 DEF vars, disk, acks, TypeOK, DiskTypeOK, ProcessTypeOK
<1>2. QED
  BY <1>1, RequestType, LockType, WorkType, FailType, CrashType DEF Next

\* In every reachable state the data directory and the process have their
\* shape: Store.NextSerial never wraps, whatever fails in between.
THEOREM TypeCorrect == Spec => [](TypeOK /\ JobOK)
<1>1. Init => TypeOK
  BY ConstantsAssumption DEF Init, TypeOK, DiskTypeOK, ProcessTypeOK,
     FirstCrlNumber, NoJob, NoDraft, Jobs, Drafts, CAs, Locks, Kinds, Labels,
     Replies, Absent, Serials
<1>2. Init => JobOK
  BY DEF Init, JobOK, IssueLabels, RevokeLabels, RefreshLabels, IdLabels
<1>3. QED BY <1>1, <1>2, TypeStep, JobStep, PTL DEF Spec

-----------------------------------------------------------------------------
(* Serial numbers *)

\* SerialsUnique is inductive together with where the drawn serials are: none
\* in the hands of a handler that has not drawn or has answered, and none on
\* disk before the bundle is published.
UndrawnLabels == {"idle", "issue", "issueEngine", "begin", "revoke", "target",
                  "ocspEngine", "respond"}
DrawingLabels == {"serial", "sign", "publish"}

SerialsInv ==
    /\ SerialsUnique
    /\ \A t \in Threads : pc[t] \in UndrawnLabels => serials[t] = {}
    /\ \A t \in Threads : pc[t] \in DrawingLabels =>
          \A n \in Names : serials[t] \cap bundle[n].certs = {}

LEMMA SerialsReturn ==
    ASSUME TypeOK, SerialsInv, NEW t \in Threads, NEW r, Return(t, r),
           UNCHANGED <<nextSerial, bundle>>
    PROVE  SerialsInv'
BY DEF TypeOK, ProcessTypeOK, SerialsInv, SerialsUnique, Return, Goto, NoJob,
   UndrawnLabels, DrawingLabels

LEMMA SerialsWork ==
    ASSUME TypeOK, SerialsInv, NEW t \in Threads, Work(t)
    PROVE  SerialsInv'
<1> USE DEF TypeOK, ProcessTypeOK, SerialsInv, SerialsUnique
<1> USE DEF UndrawnLabels, DrawingLabels
<1>1. CASE \/ RejectName(t) \/ SerialExhausted(t) \/ TargetMissing(t)
           \/ TargetRevoked(t) \/ MarkRevoked(t) \/ ReplaceNumberIssue(t)
           \/ OcspRespond(t)
  BY <1>1, SerialsReturn DEF RejectName, SerialExhausted, TargetMissing,
     TargetRevoked, MarkRevoked, ReplaceNumberIssue, OcspRespond, disk
<1>2. CASE BeginBundle(t)
  BY <1>2 DEF BeginBundle, Goto, disk
<1>3. CASE NextSerial(t)
  <2>1. /\ nextSerial \in Nat /\ nextSerial' = nextSerial + 1
        /\ \A n \in Names : bundle[n].certs \subseteq Nat
        /\ \A u \in Threads : serials[u] \subseteq Nat
    <3>1. nextSerial \in Nat /\ MaxSerial \in Nat /\ nextSerial < MaxSerial
      BY <1>3, ConstantsAssumption DEF NextSerial, SerialAvailable, DiskTypeOK
    <3>2. nextSerial' = nextSerial + 1
      BY <1>3, <3>1, NoWrap DEF NextSerial, AdvancedSerial
    <3>3. QED
      BY <3>1, <3>2 DEF DiskTypeOK, Serials
  <2>2. /\ bundle' = bundle /\ job' = job
        /\ serials' = [serials EXCEPT ![t] = serials[t] \cup {nextSerial}]
        /\ pc[t] = "serial" /\ pc' \in [Threads -> Labels]
        /\ pc'[t] \in {"serial", "sign"}
        /\ \A u \in Threads \ {t} : pc'[u] = pc[u]
    BY <1>3 DEF NextSerial, Goto, Labels, EngineLabels
  <2>3. nextSerial \notin serials[t]
        /\ \A n \in Names : nextSerial \notin bundle[n].certs
    BY <2>1
  <2>4. SerialsUnique'
    <3>1. \A n \in Names : \A x \in bundle'[n].certs : x < nextSerial'
      BY <2>1, <2>2
    <3>2. \A u \in Threads : \A x \in serials'[u] : x < nextSerial'
      BY <2>1, <2>2
    <3>3. \A u, v \in Threads : u # v => serials'[u] \cap serials'[v] = {}
      BY <2>1, <2>2
    <3>4. \A u \in Threads, n \in Names :
             serials'[u] \cap bundle'[n].certs # {} => n = job'[u].id
      BY <2>2, <2>3
    <3>5. QED BY <2>2, <3>1, <3>2, <3>3, <3>4
  <2>5. QED BY <2>2, <2>3, <2>4
<1>4. CASE Sign(t)
  BY <1>4 DEF Sign, Goto, disk
<1>5. CASE PublishBundle(t)
  BY <1>5 DEF PublishBundle, NewBundle, Goto, DiskTypeOK
<1>6. CASE WriteManifest(t)
  BY <1>6 DEF WriteManifest, Goto
<1>7. CASE TargetValid(t)
  BY <1>7 DEF TargetValid, Goto, disk, Jobs
<1>8. CASE CollectInventory(t) \/ BuildCrl(t) \/ ReplaceCrl(t)
           \/ ReplaceIndex(t) \/ ReplaceNumberRevoke(t)
  BY <1>8 DEF CollectInventory, BuildCrl, ReplaceCrl, ReplaceIndex,
     ReplaceNumberRevoke, Goto, disk
<1>9. QED BY <1>1, <1>2, <1>3, <1>4, <1>5, <1>6, <1>7, <1>8 DEF Work

LEMMA SerialsFail ==
    ASSUME TypeOK, SerialsInv, NEW t \in Threads, Fail(t)
    PROVE  SerialsInv'
<1> USE DEF TypeOK, ProcessTypeOK, SerialsInv, SerialsUnique
<1> USE DEF UndrawnLabels, DrawingLabels
<1>1. CASE CryptoFails(t) \/ DiskFails(t) \/ NumberSyncFails(t)
  BY <1>1, SerialsReturn DEF CryptoFails, DiskFails, NumberSyncFails, disk
<1>2. CASE SerialSyncFails(t)
  <2>1. nextSerial \in Nat /\ nextSerial' = nextSerial + 1
    <3>1. nextSerial \in Nat /\ MaxSerial \in Nat /\ nextSerial < MaxSerial
      BY <1>2, ConstantsAssumption
      DEF SerialSyncFails, SerialAvailable, DiskTypeOK
    <3>2. QED
      BY <1>2, <3>1, NoWrap DEF SerialSyncFails, AdvancedSerial
  <2>2. /\ \A n \in Names : bundle[n].certs \subseteq Nat
        /\ \A u \in Threads : serials[u] \subseteq Nat
    BY DEF DiskTypeOK, Serials
  <2>3. bundle' = bundle /\ Return(t, "crypto")
    BY <1>2 DEF SerialSyncFails
  <2>4. /\ \A n \in Names : \A x \in bundle'[n].certs : x < nextSerial'
        /\ \A u \in Threads : \A x \in serials'[u] : x < nextSerial'
    BY <2>1, <2>2, <2>3 DEF Return
  <2>5. QED BY <2>3, <2>4 DEF Return, Goto
<1>3. CASE PublishSyncFails(t)
  <2>1. /\ pc[t] = "publish" /\ Return(t, "crypto") /\ nextSerial' = nextSerial
        /\ \A n \in Names :
              bundle'[n].certs = IF n = job[t].id THEN serials[t]
                                 ELSE bundle[n].certs
    BY <1>3 DEF PublishSyncFails, NewBundle, DiskTypeOK
  <2>2. QED BY <2>1 DEF Return, Goto
<1>4. QED BY <1>1, <1>2, <1>3 DEF Fail

LEMMA SerialsStep ==
    ASSUME TypeOK, SerialsInv, [Next]_vars
    PROVE  SerialsInv'
<1> USE DEF TypeOK, ProcessTypeOK, SerialsInv, SerialsUnique
<1> USE DEF UndrawnLabels, DrawingLabels
<1>1. ASSUME NEW t \in Threads, Request(t) PROVE SerialsInv'
  BY <1>1 DEF Request, Issue, Revoke, Ocsp, Arrive, Goto, disk
<1>2. ASSUME NEW t \in Threads, Lock(t) PROVE SerialsInv'
  BY <1>2 DEF Lock, IssueLockService, IssueLockEngine, RevokeLockService,
     CrlLockEngine, OcspLockEngine, Acquire, Goto, disk
<1>3. CASE Crash
  BY <1>3 DEF Crash, disk, NoJob
<1>4. CASE UNCHANGED vars
  BY <1>4 DEF vars, disk
<1>5. QED BY <1>1, <1>2, <1>3, <1>4, SerialsWork, SerialsFail DEF Next

\* No interleaving of handlers, no failure and no crash makes Store.NextSerial
\* hand out a serial twice, or a serial reach two bundles.
THEOREM SerialsNeverReused == Spec => []SerialsUnique
<1>1. Init => SerialsInv
  BY DEF Init, SerialsInv, SerialsUnique, UndrawnLabels, DrawingLabels
<1>2. SerialsInv => SerialsUnique
  BY DEF SerialsInv
<1>3. QED BY <1>1, <1>2, TypeCorrect, SerialsStep, PTL DEF Spec

-----------------------------------------------------------------------------
(* Mutual exclusion *)

\* A step of one handler, and what it leaves alone in another.
Step(t) == Request(t) \/ Lock(t) \/ Work(t) \/ Fail(t)

SameLocals(t) ==
    /\ pc'[t] = pc[t]
    /\ job'[t] = job[t]
    /\ serials'[t] = serials[t]
    /\ draft'[t] = draft[t]

LEMMA OtherLocals ==
    ASSUME TypeOK, NEW t \in Threads, NEW u \in Threads, t # u, Step(u)
    PROVE  SameLocals(t)
<1> USE DEF TypeOK, ProcessTypeOK, SameLocals, Goto
<1>1. CASE Request(u)
  BY <1>1 DEF Request, Issue, Revoke, Ocsp, Arrive
<1>2. CASE Lock(u)
  BY <1>2 DEF Lock, IssueLockService, IssueLockEngine, RevokeLockService,
     CrlLockEngine, OcspLockEngine, Acquire
<1>3. CASE Work(u)
  BY <1>3 DEF Work, BeginBundle, RejectName, NextSerial, SerialExhausted, Sign,
     PublishBundle, WriteManifest, TargetMissing, TargetRevoked, TargetValid,
     MarkRevoked, CollectInventory, BuildCrl, ReplaceCrl, ReplaceIndex,
     ReplaceNumberRevoke, ReplaceNumberIssue, OcspRespond, Return
<1>4. CASE Fail(u)
  BY <1>4 DEF Fail, CryptoFails, DiskFails, SerialSyncFails, PublishSyncFails,
     NumberSyncFails, Return
<1>5. QED BY <1>1, <1>2, <1>3, <1>4 DEF Step

\* sync.Mutex: a handler between Lock and Unlock is the holder.
MutexOK ==
    \A t \in Threads :
        /\ pc[t] \in ServiceLabels => mu["service"] = t
        /\ pc[t] \in EngineLabels => mu["engine"] = t

LEMMA MutexInit == Init => MutexOK
BY DEF Init, MutexOK, ServiceLabels, EngineLabels

LEMMA MutexStep ==
    ASSUME TypeOK, MutexOK, [Next]_vars
    PROVE  MutexOK'
<1> USE DEF TypeOK, ProcessTypeOK, MutexOK, ServiceLabels, EngineLabels, Locks
<1>1. ASSUME NEW t \in Threads, NEW r, Return(t, r) PROVE MutexOK'
  BY <1>1 DEF Return, Goto
<1>2. ASSUME NEW t \in Threads, Request(t) PROVE MutexOK'
  BY <1>2 DEF Request, Issue, Revoke, Ocsp, Arrive, Goto
<1>3. ASSUME NEW t \in Threads, Lock(t) PROVE MutexOK'
  BY <1>3, ConstantsAssumption DEF Lock, IssueLockService, IssueLockEngine,
     RevokeLockService, CrlLockEngine, OcspLockEngine, Acquire, Goto
<1>4. ASSUME NEW t \in Threads, Work(t) PROVE MutexOK'
  <2>1. CASE \/ RejectName(t) \/ SerialExhausted(t) \/ TargetMissing(t)
             \/ TargetRevoked(t) \/ MarkRevoked(t) \/ ReplaceNumberIssue(t)
             \/ OcspRespond(t)
    BY <1>1, <2>1 DEF RejectName, SerialExhausted, TargetMissing, TargetRevoked,
       MarkRevoked, ReplaceNumberIssue, OcspRespond
  <2>2. CASE BeginBundle(t) \/ NextSerial(t) \/ Sign(t) \/ WriteManifest(t)
             \/ TargetValid(t) \/ CollectInventory(t)
    BY <2>2 DEF BeginBundle, NextSerial, Sign, WriteManifest, TargetValid,
       CollectInventory, Goto
  <2>3. CASE BuildCrl(t) \/ ReplaceCrl(t) \/ ReplaceIndex(t)
    BY <2>3 DEF BuildCrl, ReplaceCrl, ReplaceIndex, Goto
  <2>4. CASE PublishBundle(t) \/ ReplaceNumberRevoke(t)
    BY <2>4 DEF PublishBundle, ReplaceNumberRevoke, ReleaseEngine, Goto
  <2>5. QED BY <1>4, <2>1, <2>2, <2>3, <2>4 DEF Work
<1>5. ASSUME NEW t \in Threads, Fail(t) PROVE MutexOK'
  BY <1>1, <1>5 DEF Fail, CryptoFails, DiskFails, SerialSyncFails,
     PublishSyncFails, NumberSyncFails
<1>6. CASE Crash
  BY <1>6 DEF Crash
<1>7. CASE UNCHANGED vars
  BY <1>7 DEF vars
<1>8. QED BY <1>2, <1>3, <1>4, <1>5, <1>6, <1>7 DEF Next

\* The other direction: a mutex that is not free is held between Lock and
\* Unlock, so no handler that has returned, or is yet to lock, keeps one.
HoldersInside ==
    \A t \in Threads :
        /\ mu["service"] = t => pc[t] \in ServiceLabels
        /\ mu["engine"] = t => pc[t] \in EngineLabels

LEMMA HoldersInit == Init => HoldersInside
BY ConstantsAssumption DEF Init, HoldersInside, Locks

LEMMA HoldersStep ==
    ASSUME TypeOK, HoldersInside, [Next]_vars
    PROVE  HoldersInside'
<1> USE ConstantsAssumption
    DEF TypeOK, ProcessTypeOK, HoldersInside, ServiceLabels, EngineLabels, Locks
<1>1. ASSUME NEW t \in Threads, NEW r, Return(t, r) PROVE HoldersInside'
  BY <1>1 DEF Return, Goto
<1>2. ASSUME NEW t \in Threads, Request(t) PROVE HoldersInside'
  BY <1>2 DEF Request, Issue, Revoke, Ocsp, Arrive, Goto
<1>3. ASSUME NEW t \in Threads, Lock(t) PROVE HoldersInside'
  BY <1>3 DEF Lock, IssueLockService, IssueLockEngine, RevokeLockService,
     CrlLockEngine, OcspLockEngine, Acquire, Goto
<1>4. ASSUME NEW t \in Threads, Work(t) PROVE HoldersInside'
  <2>1. CASE \/ RejectName(t) \/ SerialExhausted(t) \/ TargetMissing(t)
             \/ TargetRevoked(t) \/ MarkRevoked(t) \/ ReplaceNumberIssue(t)
             \/ OcspRespond(t)
    BY <1>1, <2>1 DEF RejectName, SerialExhausted, TargetMissing, TargetRevoked,
       MarkRevoked, ReplaceNumberIssue, OcspRespond
  <2>2. CASE BeginBundle(t) \/ NextSerial(t) \/ Sign(t) \/ WriteManifest(t)
             \/ TargetValid(t) \/ CollectInventory(t)
    BY <2>2 DEF BeginBundle, NextSerial, Sign, WriteManifest, TargetValid,
       CollectInventory, Goto
  <2>3. CASE BuildCrl(t) \/ ReplaceCrl(t) \/ ReplaceIndex(t)
    BY <2>3 DEF BuildCrl, ReplaceCrl, ReplaceIndex, Goto
  <2>4. CASE PublishBundle(t) \/ ReplaceNumberRevoke(t)
    BY <2>4 DEF PublishBundle, ReplaceNumberRevoke, ReleaseEngine, Goto
  <2>5. QED BY <1>4, <2>1, <2>2, <2>3, <2>4 DEF Work
<1>5. ASSUME NEW t \in Threads, Fail(t) PROVE HoldersInside'
  BY <1>1, <1>5 DEF Fail, CryptoFails, DiskFails, SerialSyncFails,
     PublishSyncFails, NumberSyncFails
<1>6. CASE Crash
  BY <1>6 DEF Crash
<1>7. CASE UNCHANGED vars
  BY <1>7 DEF vars
<1>8. QED BY <1>2, <1>3, <1>4, <1>5, <1>6, <1>7 DEF Next

\* Locks nest service before engine, and every return path gives both back: for
\* any number of handlers some request in the service can go on.
THEOREM NoDeadlock == Spec => []SomebodyProceeds
<1>1. ASSUME TypeOK, HoldersInside PROVE SomebodyProceeds
  <2> SUFFICES ASSUME NEW t \in Threads, pc[t] # "idle"
               PROVE  \E u \in Threads :
                         /\ pc[u] # "idle"
                         /\ \A l \in Locks : WaitsFor(u, l) => mu[l] = Nobody
    BY DEF SomebodyProceeds
  <2>1. CASE mu["engine"] \in Threads
    <3>1. pc[mu["engine"]] \in EngineLabels
      BY <1>1, <2>1 DEF HoldersInside
    <3>2. QED BY <2>1, <3>1 DEF EngineLabels, WaitsFor
  <2>2. CASE mu["engine"] = Nobody /\ mu["service"] \in Threads
    <3>1. pc[mu["service"]] \in ServiceLabels
      BY <1>1, <2>2 DEF HoldersInside
    <3>2. QED BY <2>2, <3>1 DEF ServiceLabels, WaitsFor
  <2>3. CASE mu["engine"] = Nobody /\ mu["service"] = Nobody
    BY <2>3 DEF Locks
  <2>4. QED BY <1>1, <2>1, <2>2, <2>3 DEF TypeOK, ProcessTypeOK, Locks
<1>2. QED BY <1>1, TypeCorrect, HoldersInit, HoldersStep, PTL DEF Spec

\* Everything but the counter that the handlers share and the clients know.
Shared == <<bundle, manifest, index, crl, ackIssued, ackRevoked>>

\* While one handler is inside the service mutex, no step of another touches
\* what they share: refreshIssuer's inventory cannot go stale before its CRL.
LEMMA ServiceExcludes ==
    ASSUME TypeOK, MutexOK, NEW t \in Threads, NEW u \in Threads, t # u,
           pc[t] \in ServiceLabels, Step(u)
    PROVE  UNCHANGED Shared
<1>0. pc[u] \notin ServiceLabels
  BY DEF MutexOK
<1> USE <1>0 DEF Shared, disk, acks, ServiceLabels
<1>1. CASE Request(u)
  BY <1>1 DEF Request, Issue, Revoke, Ocsp, Arrive
<1>2. CASE Lock(u)
  BY <1>2 DEF Lock, IssueLockService, IssueLockEngine, RevokeLockService,
     CrlLockEngine, OcspLockEngine, Acquire
<1>3. CASE Work(u)
  BY <1>3 DEF Work, BeginBundle, RejectName, NextSerial, SerialExhausted, Sign,
     PublishBundle, WriteManifest, TargetMissing, TargetRevoked, TargetValid,
     MarkRevoked, CollectInventory, BuildCrl, ReplaceCrl, ReplaceIndex,
     ReplaceNumberRevoke, ReplaceNumberIssue, OcspRespond
<1>4. CASE Fail(u)
  BY <1>4 DEF Fail, CryptoFails, DiskFails, SerialSyncFails, PublishSyncFails,
     NumberSyncFails
<1>5. QED BY <1>1, <1>2, <1>3, <1>4 DEF Step

-----------------------------------------------------------------------------
(* Records *)

\* A listed bundle is the one on disk; a name beginBundle found free stays free
\* until the handler publishes it, and unlisted until it writes the manifest.
Described(n) ==
    /\ manifest[n].kind \in Kinds
    /\ manifest[n].kind = bundle[n].kind
    /\ manifest[n].serials = bundle[n].certs
    /\ bundle[n].certs # {}

RecordOK(t) ==
    /\ pc[t] \in DrawingLabels => bundle[job[t].id].kind = Absent
    /\ pc[t] \in {"sign", "publish"} => serials[t] # {}
    /\ pc[t] = "manifest" =>
          /\ ~Listed(job[t].id)
          /\ bundle[job[t].id] = [kind |-> job[t].kind, certs |-> serials[t]]
          /\ serials[t] # {}

RecordInv ==
    /\ \A n \in Names : Listed(n) => Described(n)
    /\ \A t \in Threads : RecordOK(t)

\* A handler that refreshes an authority does so for a listed bundle of its
\* kind, which is still valid when it is to be revoked.
TargetOK(t) ==
    LET id == job[t].id
    IN  pc[t] \in RefreshLabels \cup {"mark"} =>
            /\ Listed(id)
            /\ manifest[id].kind = job[t].kind
            /\ job[t].op = "revoke" => manifest[id].state = "valid"

\* The others' part of RecordInv, and their targets, are not disturbed.
LEMMA RecordOthers ==
    ASSUME TypeOK, MutexOK, NEW t \in Threads, NEW u \in Threads, t # u,
           Step(u), RecordOK(t)
    PROVE  RecordOK(t)'
<1>1. SameLocals(t)
  BY OtherLocals
<1>2. CASE pc[t] \in ServiceLabels
  BY <1>1, <1>2, ServiceExcludes DEF SameLocals, Shared, RecordOK, Listed
<1>3. CASE pc[t] \notin ServiceLabels
  BY <1>1, <1>3 DEF SameLocals, RecordOK, DrawingLabels, ServiceLabels
<1>4. QED BY <1>2, <1>3

LEMMA RecordOwn ==
    ASSUME TypeOK, JobOK, RecordInv, NEW t \in Threads, TargetOK(t), Step(t)
    PROVE  RecordOK(t)' /\ \A n \in Names : Listed(n)' => Described(n)'
<1> USE DEF TypeOK, ProcessTypeOK, RecordInv, RecordOK, DrawingLabels
<1>1. ASSUME UNCHANGED <<bundle, manifest>>
      PROVE  \A n \in Names : Listed(n)' => Described(n)'
  BY <1>1 DEF Listed, Described
<1>2. ASSUME NEW r, Return(t, r) PROVE RecordOK(t)'
  BY <1>2 DEF Return, Goto
<1>3. CASE Request(t)
  BY <1>1, <1>3 DEF Request, Issue, Revoke, Ocsp, Arrive, Goto, disk
<1>4. CASE Lock(t)
  BY <1>1, <1>4 DEF Lock, IssueLockService, IssueLockEngine, RevokeLockService,
     CrlLockEngine, OcspLockEngine, Acquire, Goto, disk
<1>5. CASE \/ RejectName(t) \/ SerialExhausted(t) \/ TargetMissing(t)
           \/ TargetRevoked(t) \/ ReplaceNumberIssue(t) \/ OcspRespond(t)
           \/ CryptoFails(t) \/ DiskFails(t) \/ SerialSyncFails(t)
           \/ NumberSyncFails(t)
  BY <1>1, <1>2, <1>5 DEF RejectName, SerialExhausted, TargetMissing,
     TargetRevoked, ReplaceNumberIssue, OcspRespond, CryptoFails, DiskFails,
     SerialSyncFails, NumberSyncFails, disk
<1>6. CASE BeginBundle(t)
  BY <1>1, <1>6 DEF BeginBundle, NameTaken, Goto, disk
<1>7. CASE NextSerial(t)
  <2>1. serials'[t] # {}
    BY <1>7 DEF NextSerial
  <2>2. pc'[t] \in {"serial", "sign"} /\ UNCHANGED <<bundle, manifest, job>>
        /\ pc[t] = "serial"
    BY <1>7 DEF NextSerial, Goto
  <2>3. QED BY <1>1, <2>1, <2>2
<1>8. CASE Sign(t)
  BY <1>1, <1>8 DEF Sign, Goto, disk
<1>9. ASSUME pc[t] = "publish", bundle' = NewBundle(t), manifest' = manifest
      PROVE  /\ job[t].id \in Names /\ ~Listed(job[t].id)
             /\ \A n \in Names : Listed(n)' => Described(n)'
             /\ bundle'[job[t].id] = [kind |-> job[t].kind, certs |-> serials[t]]
             /\ serials[t] # {}
  <2>1. job[t].id \in Names
    BY <1>9 DEF JobOK, IdLabels, IssueLabels
  <2>2. bundle[job[t].id].kind = Absent
    BY <1>9
  <2>3. ~Listed(job[t].id)
    BY <2>1, <2>2 DEF Described, Absent, Kinds
  <2>4. QED
    BY <1>9, <2>1, <2>3 DEF NewBundle, Listed, Described, DiskTypeOK
<1>10. CASE PublishBundle(t)
  BY <1>9, <1>10 DEF PublishBundle, Goto, Listed
<1>11. CASE PublishSyncFails(t)
  BY <1>2, <1>9, <1>11 DEF PublishSyncFails
<1>12. CASE WriteManifest(t)
  <2>1. job[t].id \in Names /\ job[t].kind \in Kinds
    BY <1>12 DEF WriteManifest, JobOK, IdLabels, IssueLabels, Jobs
  <2>2. bundle[job[t].id] = [kind |-> job[t].kind, certs |-> serials[t]]
        /\ serials[t] # {}
    BY <1>12 DEF WriteManifest
  <2>3. QED
    BY <1>12, <2>1, <2>2 DEF WriteManifest, Goto, Listed, Described, DiskTypeOK
<1>13. CASE MarkRevoked(t)
  <2>1. job[t].id \in Names
    BY <1>13 DEF MarkRevoked, JobOK, IdLabels, RevokeLabels
  <2>2. manifest[job[t].id].state # Absent
    BY <1>13 DEF MarkRevoked, TargetOK, Listed
  <2>3. QED
    BY <1>2, <1>13, <2>1, <2>2 DEF MarkRevoked, Listed, Described, DiskTypeOK
<1>14. CASE TargetValid(t)
  BY <1>1, <1>14 DEF TargetValid, Goto, disk
<1>15. CASE CollectInventory(t) \/ BuildCrl(t) \/ ReplaceCrl(t)
            \/ ReplaceIndex(t) \/ ReplaceNumberRevoke(t)
  BY <1>1, <1>15 DEF CollectInventory, BuildCrl, ReplaceCrl, ReplaceIndex,
     ReplaceNumberRevoke, Goto, disk
<1>16. QED
  BY <1>3, <1>4, <1>5, <1>6, <1>7, <1>8, <1>10, <1>11, <1>12, <1>13, <1>14,
     <1>15 DEF Step, Work, Fail

LEMMA TargetOthers ==
    ASSUME TypeOK, MutexOK, NEW t \in Threads, NEW u \in Threads, t # u,
           Step(u), TargetOK(t)
    PROVE  TargetOK(t)'
<1>1. SameLocals(t)
  BY OtherLocals
<1>2. CASE pc[t] \in ServiceLabels
  BY <1>1, <1>2, ServiceExcludes DEF SameLocals, Shared, TargetOK, Listed
<1>3. CASE pc[t] \notin ServiceLabels
  BY <1>1, <1>3 DEF SameLocals, TargetOK, RefreshLabels, ServiceLabels
<1>4. QED BY <1>2, <1>3

LEMMA TargetOwn ==
    ASSUME TypeOK, JobOK, NEW t \in Threads, TargetOK(t), Step(t)
    PROVE  TargetOK(t)'
<1> USE DEF TypeOK, ProcessTypeOK, RefreshLabels
<1>0. /\ job[t].kind \in Kinds
      /\ pc[t] \in {"target", "mark", "manifest"} => job[t].id \in Names
  BY DEF Jobs, JobOK, IdLabels, RevokeLabels, IssueLabels
<1>1. ASSUME NEW r, Return(t, r) PROVE TargetOK(t)'
  BY <1>1 DEF Return, Goto, TargetOK
<1>2. CASE Request(t)
  BY <1>2 DEF Request, Issue, Revoke, Ocsp, Arrive, Goto, TargetOK
<1>3. CASE \/ Lock(t) \/ BeginBundle(t) \/ NextSerial(t) \/ Sign(t)
           \/ PublishBundle(t)
  BY <1>3 DEF Lock, IssueLockService, IssueLockEngine, RevokeLockService,
     CrlLockEngine, OcspLockEngine, Acquire, BeginBundle, NextSerial, Sign,
     PublishBundle, Goto, TargetOK, Listed, disk
<1>4. CASE \/ RejectName(t) \/ SerialExhausted(t) \/ TargetMissing(t)
           \/ TargetRevoked(t) \/ MarkRevoked(t) \/ ReplaceNumberIssue(t)
           \/ OcspRespond(t) \/ Fail(t)
  BY <1>1, <1>4 DEF RejectName, SerialExhausted, TargetMissing, TargetRevoked,
     MarkRevoked, ReplaceNumberIssue, OcspRespond, Fail, CryptoFails, DiskFails,
     SerialSyncFails, PublishSyncFails, NumberSyncFails
<1>5. CASE WriteManifest(t)
  <2>1. /\ manifest'[job[t].id].state = "valid"
        /\ manifest'[job[t].id].kind = job[t].kind
        /\ job' = job
    BY <1>0, <1>5 DEF WriteManifest, DiskTypeOK
  <2>2. QED BY <2>1 DEF TargetOK, Listed, Absent
<1>6. CASE TargetValid(t)
  <2>1. /\ manifest' = manifest
        /\ job'[t].id = job[t].id
        /\ job'[t].kind = manifest[job[t].id].kind
        /\ manifest[job[t].id].state = "valid"
    BY <1>0, <1>6 DEF TargetValid, disk, Jobs
  <2>2. QED BY <2>1 DEF TargetOK, Listed, Absent
<1>7. CASE \/ CollectInventory(t) \/ BuildCrl(t) \/ ReplaceCrl(t)
           \/ ReplaceIndex(t) \/ ReplaceNumberRevoke(t)
  BY <1>7 DEF CollectInventory, BuildCrl, ReplaceCrl, ReplaceIndex,
     ReplaceNumberRevoke, Goto, TargetOK, Listed, disk
<1>8. QED
  BY <1>2, <1>3, <1>4, <1>5, <1>6, <1>7 DEF Step, Work

\* Records and targets together are inductive, whatever fails.
RecordsOK ==
    /\ RecordInv
    /\ \A t \in Threads : TargetOK(t)

LEMMA RecordsInit == Init => RecordsOK
BY DEF Init, RecordsOK, RecordInv, RecordOK, TargetOK, Listed, Absent,
   DrawingLabels, RefreshLabels

LEMMA RecordsStep ==
    ASSUME TypeOK, JobOK, MutexOK, RecordsOK, [Next]_vars
    PROVE  RecordsOK'
<1>1. ASSUME NEW u \in Threads, Step(u) PROVE RecordsOK'
  <2>1. RecordOK(u)' /\ \A n \in Names : Listed(n)' => Described(n)'
    BY <1>1, RecordOwn DEF RecordsOK
  <2>2. \A t \in Threads : RecordOK(t)'
    BY <1>1, <2>1, RecordOthers DEF RecordsOK, RecordInv
  <2>3. \A t \in Threads : TargetOK(t)'
    BY <1>1, TargetOwn, TargetOthers DEF RecordsOK
  <2>4. QED BY <2>1, <2>2, <2>3 DEF RecordsOK, RecordInv
<1>2. CASE Crash
  <2>1. UNCHANGED <<bundle, manifest>> /\ \A t \in Threads : pc'[t] = "idle"
    BY <1>2 DEF Crash, disk
  <2>2. QED
    BY <2>1 DEF RecordsOK, RecordInv, RecordOK, TargetOK, Listed, Described,
       DrawingLabels, RefreshLabels
<1>3. CASE UNCHANGED vars
  BY <1>3 DEF vars, disk, RecordsOK, RecordInv, RecordOK, TargetOK, Listed,
     Described
<1>4. QED BY <1>1, <1>2, <1>3 DEF Next, Step

-----------------------------------------------------------------------------
(* Publication *)

\* Its draft is what the manifests say, and what it has already renamed into
\* place is its draft.
DraftLabels == {"crlEngine", "build", "crl", "index", "number"}

RefreshOK(t) ==
    LET ca == CaKind(job[t].kind)
        id == job[t].id
    IN  /\ TargetOK(t)
        /\ pc[t] \in DraftLabels =>
              /\ draft[t].revoked = RevokedCerts(job[t].kind, RevokeID(t), {})
              /\ draft[t].valid = ValidCerts(job[t].kind, RevokeID(t), {})
        /\ pc[t] \in {"index", "number"} => crl[ca].revoked = draft[t].revoked
        /\ pc[t] = "number" =>
              /\ index[ca].revoked = draft[t].revoked
              /\ index[ca].valid = draft[t].valid
        /\ pc[t] = "mark" =>
              /\ bundle[id].certs \subseteq crl[ca].revoked
              /\ bundle[id].certs \subseteq index[ca].revoked

\* What a full inventory puts into the CA database.
LEMMA Collected ==
    ASSUME NEW n \in Names, NEW id, Listed(n)
    PROVE  LET k == manifest[n].kind
           IN  /\ Revoked(n, id) =>
                     bundle[n].certs \subseteq RevokedCerts(k, id, {})
               /\ ~Revoked(n, id) =>
                     bundle[n].certs \subseteq ValidCerts(k, id, {})
BY DEF RevokedCerts, ValidCerts, CertsOf, Inventory

LEMMA RefreshOthers ==
    ASSUME TypeOK, MutexOK, NEW t \in Threads, NEW u \in Threads, t # u,
           Step(u), RefreshOK(t)
    PROVE  RefreshOK(t)'
<1> USE DEF DraftLabels, RefreshLabels
<1>1. SameLocals(t)
  BY OtherLocals
<1>2. CASE pc[t] \in ServiceLabels
  BY <1>1, <1>2, ServiceExcludes
  DEF SameLocals, Shared, RefreshOK, TargetOK, Listed, RevokedCerts,
      ValidCerts, CertsOf, Inventory, Revoked, RevokeID
<1>3. CASE pc[t] \notin ServiceLabels
  BY <1>1, <1>3 DEF SameLocals, RefreshOK, TargetOK, ServiceLabels
<1>4. QED BY <1>2, <1>3

LEMMA RefreshOwn ==
    ASSUME "read" \notin Faults,
           TypeOK, JobOK, RecordInv, NEW t \in Threads, RefreshOK(t), Step(t)
    PROVE  RefreshOK(t)'
<1> USE DEF TypeOK, ProcessTypeOK, DraftLabels, RefreshLabels
<1> DEFINE ca == CaKind(job[t].kind)
<1>0. /\ job[t].kind \in Kinds
      /\ ca \in CAs
      /\ pc[t] \in RefreshLabels \cup {"target", "mark", "manifest"} =>
            job[t].id \in Names
  BY DEF Jobs, CaKind, CAs, JobOK, IdLabels, RevokeLabels, IssueLabels
<1>1. ASSUME NEW r, Return(t, r) PROVE RefreshOK(t)'
  BY <1>1 DEF Return, Goto, RefreshOK, TargetOK
<1>2. CASE Request(t)
  BY <1>2 DEF Request, Issue, Revoke, Ocsp, Arrive, Goto, RefreshOK, TargetOK
<1>3. ASSUME pc[t] \notin RefreshLabels, pc'[t] \notin RefreshLabels \cup {"mark"}
      PROVE  RefreshOK(t)'
  BY <1>3 DEF RefreshOK, TargetOK
<1>4. CASE \/ IssueLockService(t) \/ IssueLockEngine(t) \/ RevokeLockService(t)
           \/ OcspLockEngine(t) \/ BeginBundle(t) \/ NextSerial(t) \/ Sign(t)
           \/ PublishBundle(t)
  BY <1>3, <1>4 DEF IssueLockService, IssueLockEngine, RevokeLockService,
     OcspLockEngine, Acquire, BeginBundle, NextSerial, Sign, PublishBundle, Goto
<1>5. CASE CrlLockEngine(t) \/ BuildCrl(t)
  <2>1. /\ UNCHANGED <<bundle, manifest, job>>
        /\ pc[t] \in {"crlEngine", "build"} /\ pc'[t] \in {"build", "crl"}
        /\ draft'[t].revoked = draft[t].revoked
        /\ draft'[t].valid = draft[t].valid
    BY <1>5 DEF CrlLockEngine, Acquire, BuildCrl, Goto, disk, Drafts
  <2>2. QED
    BY <2>1 DEF RefreshOK, TargetOK, Listed, RevokedCerts, ValidCerts,
       CertsOf, Inventory, Revoked, RevokeID
<1>6. CASE \/ RejectName(t) \/ SerialExhausted(t) \/ TargetMissing(t)
           \/ TargetRevoked(t) \/ MarkRevoked(t) \/ ReplaceNumberIssue(t)
           \/ OcspRespond(t) \/ Fail(t)
  BY <1>1, <1>6 DEF RejectName, SerialExhausted, TargetMissing, TargetRevoked,
     MarkRevoked, ReplaceNumberIssue, OcspRespond, Fail, CryptoFails, DiskFails,
     SerialSyncFails, PublishSyncFails, NumberSyncFails
<1>7. CASE WriteManifest(t)
  <2>1. /\ manifest'[job[t].id].state = "valid"
        /\ manifest'[job[t].id].kind = job[t].kind
        /\ job' = job /\ pc'[t] = "collect"
    BY <1>0, <1>7 DEF WriteManifest, Goto, DiskTypeOK
  <2>2. QED BY <2>1 DEF RefreshOK, TargetOK, Listed, Absent
<1>8. CASE TargetValid(t)
  <2>1. /\ manifest' = manifest /\ pc'[t] = "collect"
        /\ job'[t].id = job[t].id
        /\ job'[t].kind = manifest[job[t].id].kind
        /\ manifest[job[t].id].state = "valid"
    BY <1>0, <1>8 DEF TargetValid, Goto, disk, Jobs
  <2>2. QED BY <2>1 DEF RefreshOK, TargetOK, Listed, Absent
<1>9. CASE CollectInventory(t)
  <2>1. PICK skip \in Unreadable :
           draft' = [draft EXCEPT ![t] =
                       [valid |-> ValidCerts(job[t].kind, RevokeID(t), skip),
                        revoked |-> RevokedCerts(job[t].kind, RevokeID(t), skip),
                        number |-> 0]]
    BY <1>9 DEF CollectInventory
  <2>2. skip = {}
    BY DEF Unreadable
  <2>3. /\ draft'[t].revoked = RevokedCerts(job[t].kind, RevokeID(t), {})
        /\ draft'[t].valid = ValidCerts(job[t].kind, RevokeID(t), {})
    BY <2>1, <2>2
  <2>4. UNCHANGED <<bundle, manifest, job>> /\ pc'[t] = "crlEngine"
        /\ pc[t] = "collect"
    BY <1>9 DEF CollectInventory, Goto, disk
  <2>5. QED
    BY <2>3, <2>4 DEF RefreshOK, TargetOK, Listed, RevokedCerts, ValidCerts,
       CertsOf, Inventory, Revoked, RevokeID
<1>10. CASE ReplaceCrl(t)
  <2>1. /\ UNCHANGED <<bundle, manifest, job, draft>>
        /\ pc[t] = "crl" /\ pc'[t] = "index"
        /\ crl'[ca].revoked = draft[t].revoked
    BY <1>0, <1>10 DEF ReplaceCrl, Goto, DiskTypeOK
  <2>2. QED
    BY <2>1 DEF RefreshOK, TargetOK, Listed, RevokedCerts, ValidCerts,
       CertsOf, Inventory, Revoked, RevokeID
<1>11. CASE ReplaceIndex(t)
  <2>1. /\ UNCHANGED <<bundle, manifest, crl, job, draft>>
        /\ pc[t] = "index" /\ pc'[t] = "number"
        /\ index'[ca].revoked = draft[t].revoked
        /\ index'[ca].valid = draft[t].valid
    BY <1>0, <1>11 DEF ReplaceIndex, Goto, DiskTypeOK
  <2>2. QED
    BY <2>1 DEF RefreshOK, TargetOK, Listed, RevokedCerts, ValidCerts,
       CertsOf, Inventory, Revoked, RevokeID
<1>12. CASE ReplaceNumberRevoke(t)
  <2>1. /\ UNCHANGED <<bundle, manifest, index, crl, job, draft>>
        /\ pc[t] = "number" /\ pc'[t] = "mark" /\ job[t].op = "revoke"
    BY <1>12 DEF ReplaceNumberRevoke, Goto
  <2>2. Listed(job[t].id) /\ manifest[job[t].id].kind = job[t].kind
        /\ Revoked(job[t].id, RevokeID(t))
    BY <2>1 DEF RefreshOK, TargetOK, Revoked, RevokeID
  <2>3. bundle[job[t].id].certs \subseteq draft[t].revoked
    BY <1>0, <2>1, <2>2, Collected DEF RefreshOK, TargetOK
  <2>4. QED BY <2>1, <2>2, <2>3 DEF RefreshOK, TargetOK, Listed
<1>13. QED
  BY <1>2, <1>4, <1>5, <1>6, <1>7, <1>8, <1>9, <1>10, <1>11, <1>12
  DEF Step, Lock, Work

\* What clients may rely on between any two steps.
StatusInv ==
    /\ RevokedIsPublished
    /\ AckedIssueKnown
    /\ \A n \in ackIssued : Listed(n)

\* Bundles of one authority are bundles of one kind.
LEMMA AuthorityKind ==
    ASSUME NEW j \in Kinds, NEW k \in Kinds, CaKind(j) = CaKind(k)
    PROVE  j = k
BY DEF Kinds, CaKind

\* A draft made of a full inventory keeps every recorded revocation and every
\* listed bundle of its authority.
LEMMA DraftComplete ==
    ASSUME TypeOK, RecordInv, NEW t \in Threads, RefreshOK(t),
           pc[t] \in {"crl", "index", "number"}, NEW n \in Names, Listed(n),
           Authority(n) = CaKind(job[t].kind)
    PROVE  /\ manifest[n].state = "revoked" =>
                 bundle[n].certs \subseteq draft[t].revoked
           /\ \/ bundle[n].certs \subseteq draft[t].revoked
              \/ bundle[n].certs \subseteq draft[t].valid
<1>1. manifest[n].kind = job[t].kind
  BY AuthorityKind
  DEF RecordInv, Described, Authority, TypeOK, ProcessTypeOK, Jobs
<1>2. /\ draft[t].revoked = RevokedCerts(job[t].kind, RevokeID(t), {})
      /\ draft[t].valid = ValidCerts(job[t].kind, RevokeID(t), {})
  BY DEF RefreshOK, TargetOK, DraftLabels
<1>3. manifest[n].state = "revoked" => Revoked(n, RevokeID(t))
  BY DEF Revoked
<1>4. QED BY <1>1, <1>2, <1>3, Collected

LEMMA StatusStep ==
    ASSUME TypeOK, JobOK, RecordInv, StatusInv, NEW t \in Threads,
           RefreshOK(t), Step(t)
    PROVE  StatusInv'
<1> USE DEF TypeOK, ProcessTypeOK
<1>1. ASSUME UNCHANGED Shared PROVE StatusInv'
  BY <1>1 DEF StatusInv, RevokedIsPublished, AckedIssueKnown, OcspStatus, Authority,
     Listed, Shared
<1>2. CASE Request(t) \/ Lock(t)
  BY <1>1, <1>2 DEF Request, Issue, Revoke, Ocsp, Arrive, Lock,
     IssueLockService, IssueLockEngine, RevokeLockService, CrlLockEngine,
     OcspLockEngine, Acquire, Shared, disk, acks
<1>3. CASE \/ BeginBundle(t) \/ RejectName(t) \/ NextSerial(t)
           \/ SerialExhausted(t) \/ Sign(t) \/ TargetMissing(t)
           \/ TargetValid(t) \/ CollectInventory(t) \/ BuildCrl(t)
           \/ ReplaceNumberRevoke(t) \/ OcspRespond(t) \/ CryptoFails(t)
           \/ DiskFails(t) \/ SerialSyncFails(t) \/ NumberSyncFails(t)
  BY <1>1, <1>3 DEF BeginBundle, RejectName, NextSerial, SerialExhausted, Sign,
     TargetMissing, TargetValid, CollectInventory, BuildCrl,
     ReplaceNumberRevoke, OcspRespond, CryptoFails, DiskFails, SerialSyncFails,
     NumberSyncFails, Shared, disk, acks
<1>4. CASE PublishBundle(t) \/ PublishSyncFails(t)
  <2>1. /\ bundle' = NewBundle(t)
        /\ UNCHANGED <<manifest, index, crl, ackIssued, ackRevoked>>
        /\ pc[t] = "publish"
    BY <1>4 DEF PublishBundle, PublishSyncFails, acks
  <2>2. job[t].id \in Names /\ ~Listed(job[t].id)
    BY <2>1 DEF JobOK, IdLabels, IssueLabels, RecordInv, RecordOK, Described,
       DrawingLabels, Absent, Kinds
  <2>3. \A n \in Names : Listed(n) => bundle'[n] = bundle[n]
    BY <2>1, <2>2 DEF NewBundle, DiskTypeOK
  <2>4. QED
    BY <2>1, <2>3 DEF StatusInv, RevokedIsPublished, AckedIssueKnown,
       OcspStatus, Authority, Listed, Absent
<1>5. CASE WriteManifest(t)
  <2>1. /\ UNCHANGED <<bundle, index, crl, ackIssued, ackRevoked>>
        /\ \A n \in Names : n # job[t].id => manifest'[n] = manifest[n]
        /\ manifest'[job[t].id].state = "valid"
        /\ ~Listed(job[t].id)
    BY <1>5 DEF WriteManifest, acks, DiskTypeOK, RecordInv, RecordOK,
       JobOK, IdLabels, IssueLabels
  <2>2. QED
    BY <2>1 DEF StatusInv, RevokedIsPublished, AckedIssueKnown, OcspStatus,
       Authority, Listed, Absent
<1>6. CASE TargetRevoked(t)
  BY <1>6 DEF TargetRevoked, disk, StatusInv, RevokedIsPublished,
     AckedIssueKnown, OcspStatus, Authority, Listed
<1>7. CASE MarkRevoked(t)
  <2>1. /\ UNCHANGED <<bundle, index, crl, ackIssued>>
        /\ ackRevoked' = ackRevoked \cup {job[t].id}
        /\ \A n \in Names : n # job[t].id => manifest'[n] = manifest[n]
        /\ job[t].id \in Names /\ manifest'[job[t].id].state = "revoked"
    BY <1>7 DEF MarkRevoked, DiskTypeOK, JobOK, IdLabels, RevokeLabels
  <2>2. /\ bundle[job[t].id].certs # {}
        /\ bundle[job[t].id].certs \subseteq crl[Authority(job[t].id)].revoked
        /\ bundle[job[t].id].certs \subseteq index[Authority(job[t].id)].revoked
    BY <1>7, <2>1 DEF MarkRevoked, RefreshOK, TargetOK, RecordInv, Described,
       Authority
  <2>3. QED
    BY <2>1, <2>2 DEF StatusInv, RevokedIsPublished, AckedIssueKnown,
       OcspStatus, Authority, Listed, Absent
<1>8. CASE ReplaceCrl(t)
  <2>1. /\ UNCHANGED <<bundle, manifest, index, ackIssued, ackRevoked>>
        /\ pc[t] = "crl"
        /\ \A c \in CAs : crl'[c].revoked =
              IF c = CaKind(job[t].kind) THEN draft[t].revoked ELSE crl[c].revoked
    BY <1>8 DEF ReplaceCrl, acks, DiskTypeOK
  <2>2. \A n \in Names : Authority(n) \in CAs
    BY DEF Authority, CaKind, CAs
  <2>3. \A n \in Names : manifest[n].state = "revoked" =>
           bundle[n].certs \subseteq crl'[Authority(n)].revoked
    BY <2>1, <2>2, DraftComplete DEF StatusInv, RevokedIsPublished, Listed, Absent
  <2>4. QED
    BY <2>1, <2>3 DEF StatusInv, RevokedIsPublished, AckedIssueKnown,
       OcspStatus, Authority, Listed
<1>9. CASE ReplaceIndex(t)
  <2>1. /\ UNCHANGED <<bundle, manifest, crl, ackIssued, ackRevoked>>
        /\ pc[t] = "index"
        /\ \A c \in CAs : c # CaKind(job[t].kind) => index'[c] = index[c]
        /\ index'[CaKind(job[t].kind)] =
              [valid |-> draft[t].valid, revoked |-> draft[t].revoked]
    BY <1>9 DEF ReplaceIndex, acks, DiskTypeOK, CaKind, CAs
  <2>2. \A n \in Names : Authority(n) \in CAs
    BY DEF Authority, CaKind, CAs
  <2>3. ASSUME NEW n \in Names, manifest[n].state = "revoked"
        PROVE  bundle[n].certs \subseteq index'[Authority(n)].revoked
    BY <2>1, <2>2, <2>3, DraftComplete
    DEF StatusInv, RevokedIsPublished, OcspStatus, Listed, Absent
  <2>4. ASSUME NEW n \in ackIssued, NEW x \in bundle[n].certs
        PROVE  x \in index'[Authority(n)].revoked \cup index'[Authority(n)].valid
    <3>1. CASE Authority(n) = CaKind(job[t].kind)
      BY <2>1, <2>4, <3>1, DraftComplete DEF StatusInv
    <3>2. CASE Authority(n) # CaKind(job[t].kind)
      BY <2>1, <2>2, <2>4, <3>2 DEF StatusInv, AckedIssueKnown, OcspStatus
    <3>3. QED BY <3>1, <3>2
  <2>5. QED
    BY <2>1, <2>3, <2>4 DEF StatusInv, RevokedIsPublished, AckedIssueKnown,
       OcspStatus, Authority, Listed
<1>10. CASE ReplaceNumberIssue(t)
  <2>1. /\ UNCHANGED <<bundle, manifest, index, crl, ackRevoked>>
        /\ ackIssued' = ackIssued \cup {job[t].id} /\ pc[t] = "number"
    BY <1>10 DEF ReplaceNumberIssue
  <2>2. /\ job[t].id \in Names /\ Listed(job[t].id)
        /\ Authority(job[t].id) = CaKind(job[t].kind)
    BY <2>1 DEF JobOK, IdLabels, RefreshLabels, RefreshOK, TargetOK, RecordInv,
       Described, Authority
  <2>3. \A x \in bundle[job[t].id].certs :
           OcspStatus(Authority(job[t].id), x) # "unknown"
    BY <2>1, <2>2, DraftComplete DEF RefreshOK, TargetOK, OcspStatus
  <2>4. QED
    BY <2>1, <2>2, <2>3 DEF StatusInv, RevokedIsPublished, AckedIssueKnown,
       OcspStatus, Authority, Listed
<1>11. QED
  BY <1>2, <1>3, <1>4, <1>5, <1>6, <1>7, <1>8, <1>9, <1>10
  DEF Step, Work, Fail

\* The inductive invariant of the certificate status.
PublicationInv ==
    /\ RecordInv
    /\ \A t \in Threads : RefreshOK(t)
    /\ StatusInv

LEMMA PublicationInit == Init => PublicationInv
BY DEF Init, PublicationInv, RecordInv, RecordOK, RefreshOK, TargetOK,
   StatusInv, RevokedIsPublished, AckedIssueKnown, Listed, Absent, DrawingLabels,
   DraftLabels, RefreshLabels

LEMMA PublicationStep ==
    ASSUME "read" \notin Faults, TypeOK, JobOK, MutexOK, PublicationInv,
           [Next]_vars
    PROVE  PublicationInv'
<1>1. ASSUME NEW u \in Threads, Step(u) PROVE PublicationInv'
  <2>1. RecordOK(u)' /\ \A n \in Names : Listed(n)' => Described(n)'
    BY <1>1, RecordOwn DEF PublicationInv, RefreshOK
  <2>2. \A t \in Threads : RecordOK(t)'
    BY <1>1, <2>1, RecordOthers DEF PublicationInv, RecordInv
  <2>3. \A t \in Threads : RefreshOK(t)'
    BY <1>1, RefreshOwn, RefreshOthers DEF PublicationInv
  <2>4. StatusInv'
    BY <1>1, StatusStep DEF PublicationInv
  <2>5. QED BY <2>1, <2>2, <2>3, <2>4 DEF PublicationInv, RecordInv
<1>2. CASE Crash
  <2>1. /\ UNCHANGED <<bundle, manifest, index, crl, ackIssued, ackRevoked>>
        /\ \A t \in Threads : pc'[t] = "idle"
    BY <1>2 DEF Crash, disk, acks
  <2>2. QED
    BY <2>1 DEF PublicationInv, RecordInv, RecordOK, RefreshOK, TargetOK,
       StatusInv,
       RevokedIsPublished, AckedIssueKnown, OcspStatus, Authority, Listed,
       Described, DrawingLabels, DraftLabels, RefreshLabels
<1>3. CASE UNCHANGED vars
  BY <1>3 DEF vars, disk, acks, PublicationInv, RecordInv, RecordOK, RefreshOK,
     TargetOK, StatusInv, RevokedIsPublished, AckedIssueKnown, OcspStatus, Authority,
     Listed, Described, RevokedCerts, ValidCerts, CertsOf, Inventory, Revoked,
     RevokeID
<1>4. QED BY <1>1, <1>2, <1>3 DEF Next, Step

\* refreshIssuer publishes a bundle's revocation before Revoke records or
\* reports it, and no later rebuild on behalf of another request, failed file
\* operation or crash takes it back, as long as manifests can be read.
THEOREM RevocationsStayPublished ==
    ASSUME "read" \notin Faults
    PROVE  Spec => []RevokedIsPublished
<1>1. PublicationInv => RevokedIsPublished
  BY DEF PublicationInv, StatusInv
<1>2. QED
  BY <1>1, TypeCorrect, MutexInit, MutexStep, PublicationInit, PublicationStep,
     PTL DEF Spec

\* A bundle whose issuance was answered with 201 is never unknown to OCSP.
THEOREM IssuancesStayKnown ==
    ASSUME "read" \notin Faults
    PROVE  Spec => []AckedIssueKnown
<1>1. PublicationInv => AckedIssueKnown
  BY DEF PublicationInv, StatusInv
<1>2. QED
  BY <1>1, TypeCorrect, MutexInit, MutexStep, PublicationInit, PublicationStep,
     PTL DEF Spec
=============================================================================
