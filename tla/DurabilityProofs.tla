-------------------------- MODULE DurabilityProofs --------------------------
(***************************************************************************)
(* What a power loss can leave of the data directory, for any set of       *)
(* bundles and any number of serials and losses, with failures and deaths  *)
(* between any two file operations.                                        *)
(***************************************************************************)
EXTENDS Durability, TLAPS

Records == [serial : Nat, state : {"valid", "revoked"}]
DrawLabels == {"serial", "stateSync", "publish"}
BundleLabels == {"bundleSync", "manifest"}
RefreshLabels == {"crl", "index", "number", "sync", "mark"}

TypeOK ==
    /\ DOMAIN cache = Files /\ DOMAIN maybe = Files
    /\ cache[State] \in Nat /\ maybe[State] \subseteq Nat
    /\ \A n \in Names :
          /\ cache[Bundle(n)] \in Nat \cup {Missing}
          /\ maybe[Manifest(n)] \subseteq Records \cup {Missing}
    /\ pc \in {"idle", "off"} \cup DrawLabels \cup BundleLabels \cup RefreshLabels
    /\ job \in [op : {"none", "issue", "revoke"}, id : Names \cup {Missing}, serial : Nat]
    /\ losses \in Nat
    /\ drawn \subseteq Nat
    /\ ackIssued \subseteq Names \X Nat
    /\ ackRevoked \subseteq Names

\* What every program sees is what the disk may hold.
Seen ==
    /\ cache[State] \in maybe[State]
    /\ \A n \in Names :
          /\ cache[Manifest(n)] \in maybe[Manifest(n)]
          /\ cache[Bundle(n)] \in maybe[Bundle(n)]

\* A bundle directory is where it is seen, or its rename was not synced.
BundlesOnce == \A n \in Names : maybe[Bundle(n)] \subseteq {Missing, cache[Bundle(n)]}

\* A serial that NextSerial is about to return was never returned before, and
\* the counter every program sees is past it.
DrawFresh ==
    pc = "stateSync" => /\ cache[State] = job.serial + 1
                        /\ \A s \in drawn : s < job.serial

\* The handler works on the bundle it found free, or on the one it published
\* or found listed; once the directory is synced a power loss cannot take it.
JobOK ==
    /\ pc \in DrawLabels \cup BundleLabels => job.op = "issue"
    /\ pc = "mark" => job.op = "revoke"
    /\ pc \in DrawLabels \cup BundleLabels \cup RefreshLabels => job.id \in Names
    /\ pc \in DrawLabels => cache[Bundle(job.id)] = Missing
    /\ pc = "bundleSync" => cache[Bundle(job.id)] = job.serial
    /\ pc \in {"manifest"} \cup RefreshLabels => maybe[Bundle(job.id)] = {job.serial}
    /\ pc \in RefreshLabels => cache[Manifest(job.id)] # Missing

\* Every bundle has a serial of its own, which was drawn for it.
SerialsOwn ==
    /\ \A n \in Names : cache[Bundle(n)] \in drawn \cup {Missing}
    /\ \A n, m \in Names :
          n # m /\ cache[Bundle(n)] # Missing => cache[Bundle(n)] # cache[Bundle(m)]
    /\ pc = "publish" =>
          /\ job.serial \in drawn
          /\ \A n \in Names : cache[Bundle(n)] # job.serial

\* A refresh that came past the commands has left the list and the database of
\* the inventory, and until it is acknowledged nothing is said to agree.
Refreshing ==
    /\ refreshed => pc = "idle"
    /\ pc \in RefreshLabels \ {"crl"} => cache[Crl] = NewIndex.revoked
    /\ pc \in {"number", "sync", "mark"} => cache[Index] = NewIndex

Durable ==
    /\ SerialsSurvive
    /\ Seen
    /\ BundlesOnce
    /\ DrawFresh
    /\ JobOK
    /\ NamesSurvive
    /\ SerialsOwn
    /\ Refreshing
    /\ RefreshHeals

-----------------------------------------------------------------------------
(* Paths and file operations *)

\* No two files of the data directory have the same path.
LEMMA Paths ==
    /\ State \in Files /\ Crl \in Files /\ Index \in Files /\ CrlNumber \in Files
    /\ State # Crl /\ State # Index /\ State # CrlNumber
    /\ Crl # Index /\ Crl # CrlNumber /\ Index # CrlNumber
    /\ \A n \in Names :
          /\ Bundle(n) \in Files /\ Cert(n) \in Files /\ Manifest(n) \in Files
          /\ \A p \in {State, Crl, Index, CrlNumber} :
                Bundle(n) # p /\ Cert(n) # p /\ Manifest(n) # p
          /\ \A k \in Names :
                /\ Bundle(n) # Cert(k) /\ Bundle(n) # Manifest(k) /\ Cert(n) # Manifest(k)
                /\ Bundle(n) = Bundle(k) => n = k
                /\ Cert(n) = Cert(k) => n = k
                /\ Manifest(n) = Manifest(k) => n = k
BY DurabilityAssumption DEF Files, State, Crl, Index, CrlNumber, Bundle, Cert, Manifest

\* What a sync of each directory reaches.
LEMMA Directories ==
    /\ State[1] = "pki" /\ Crl[1] = "crl"
    /\ \A n \in Names :
          /\ Bundle(n)[1] = "issued"
          /\ Cert(n)[1] \notin {"pki", "crl", "issued"}
          /\ Manifest(n)[1] \notin {"pki", "crl", "issued"}
    /\ State[1] \notin {"crl", "issued"}
    /\ \A n \in Names : Bundle(n)[1] \notin {"pki", "crl"}
    /\ Crl[1] \notin {"pki", "issued"}
BY DurabilityAssumption DEF State, Crl, Bundle, Cert, Manifest

\* Neither the counter nor a bundle directory is in a bundle directory.
LEMMA Below ==
    ASSUME NEW p \in Files
    PROVE  /\ p # Bundle(State[1])
           /\ \A n \in Names : p # Bundle(Bundle(n)[1])
BY DurabilityAssumption DEF Files, State, Crl, Index, CrlNumber, Bundle, Cert, Manifest

\* The rename of the counter adds a possible content, and touches nothing else.
LEMMA CounterRenamed ==
    ASSUME TypeOK, RenameState
    PROVE  /\ DOMAIN cache' = Files /\ DOMAIN maybe' = Files
           /\ cache'[State] = cache[State] + 1
           /\ maybe'[State] = maybe[State] \cup {cache[State] + 1}
           /\ \A p \in Files \ {State} : cache'[p] = cache[p] /\ maybe'[p] = maybe[p]
BY Paths DEF TypeOK, RenameState, ReplaceIn

\* Syncing its directory leaves the counter that every program sees.
LEMMA CounterSynced ==
    ASSUME TypeOK, SyncState
    PROVE  /\ cache' = cache /\ DOMAIN maybe' = Files
           /\ maybe'[State] = {cache[State]}
           /\ \A n \in Names :
                 maybe'[Bundle(n)] = maybe[Bundle(n)] /\ maybe'[Manifest(n)] = maybe[Manifest(n)]
<1>1. cache' = cache /\ maybe' = SyncedIn(maybe, "pki")
  BY DEF SyncState, SyncThen
<1>2. maybe[State] \cap {Damaged} = {}
  BY DurabilityAssumption DEF TypeOK, Contents
<1>3. maybe'[State] = {cache[State]}
  BY <1>1, <1>2, Paths, Directories DEF SyncedIn
<1>4. QED BY <1>1, <1>3, Paths, Directories DEF SyncedIn

\* The rename of a bundle directory adds it to what the disk may hold.
LEMMA BundleRenamed ==
    ASSUME TypeOK, JobOK, PublishBundle
    PROVE  /\ DOMAIN cache' = Files /\ DOMAIN maybe' = Files
           /\ cache'[Bundle(job.id)] = job.serial
           /\ maybe'[Bundle(job.id)] = maybe[Bundle(job.id)] \cup {job.serial}
           /\ \A p \in Files \ {Bundle(job.id), Cert(job.id)} :
                 cache'[p] = cache[p] /\ maybe'[p] = maybe[p]
<1>1. job.id \in Names
  BY DEF JobOK, DrawLabels, PublishBundle
<1>2. /\ DOMAIN cache' = Files /\ cache'[Bundle(job.id)] = job.serial
      /\ \A p \in Files \ {Bundle(job.id), Cert(job.id)} : cache'[p] = cache[p]
  BY <1>1, Paths DEF TypeOK, PublishBundle
<1>3. /\ DOMAIN maybe' = Files
      /\ maybe'[Bundle(job.id)] = maybe[Bundle(job.id)] \cup {job.serial}
      /\ \A p \in Files \ {Bundle(job.id), Cert(job.id)} : maybe'[p] = maybe[p]
  BY <1>1, Paths DEF TypeOK, PublishBundle, ReplaceIn
<1>4. QED BY <1>2, <1>3

\* Syncing the issued directory leaves every bundle directory that is seen.
LEMMA BundlesSynced ==
    ASSUME TypeOK, BundlesOnce, SyncBundle
    PROVE  /\ cache' = cache /\ DOMAIN maybe' = Files
           /\ maybe'[State] = maybe[State]
           /\ \A n \in Names :
                 maybe'[Bundle(n)] = {cache[Bundle(n)]} /\ maybe'[Manifest(n)] = maybe[Manifest(n)]
<1>1. cache' = cache /\ maybe' = SyncedIn(maybe, "issued")
  BY DEF SyncBundle, SyncThen
<1>2. \A n \in Names : maybe[Bundle(n)] \cap {Damaged} = {}
  BY DurabilityAssumption DEF TypeOK, BundlesOnce, Contents
<1>3. \A n \in Names : maybe'[Bundle(n)] = {cache[Bundle(n)]}
  BY <1>1, <1>2, Paths, Directories DEF SyncedIn
<1>4. QED BY <1>1, <1>3, Paths, Directories DEF SyncedIn

\* writeManifest leaves the old manifest or the new one, never a damaged one.
LEMMA ManifestWritten ==
    ASSUME TypeOK, job.id \in Names, NEW state \in {"valid", "revoked"},
           WriteManifest(state)
    PROVE  /\ DOMAIN cache' = Files /\ DOMAIN maybe' = Files
           /\ cache'[Manifest(job.id)] = [serial |-> job.serial, state |-> state]
           /\ cache'[Manifest(job.id)] \in Records
           /\ cache'[Manifest(job.id)] # Missing
           /\ \A p \in Files \ {Manifest(job.id)} :
                 cache'[p] = cache[p] /\ maybe'[p] = maybe[p]
           /\ maybe'[Manifest(job.id)] = maybe[Manifest(job.id)] \cup {cache'[Manifest(job.id)]}
<1>1. [serial |-> job.serial, state |-> state] \in Records
  BY DEF TypeOK, Records
<1>2. Missing \notin Records
  BY DurabilityAssumption DEF Contents, Records
<1>3. /\ DOMAIN cache' = Files
      /\ cache'[Manifest(job.id)] = [serial |-> job.serial, state |-> state]
      /\ \A p \in Files \ {Manifest(job.id)} : cache'[p] = cache[p]
  BY Paths DEF TypeOK, WriteManifest
<1>4. /\ DOMAIN maybe' = Files
      /\ \A p \in Files \ {Manifest(job.id)} : maybe'[p] = maybe[p]
      /\ maybe'[Manifest(job.id)] = maybe[Manifest(job.id)] \cup {cache'[Manifest(job.id)]}
  BY Paths DEF TypeOK, WriteManifest, ReplaceIn
<1>5. QED BY <1>1, <1>2, <1>3, <1>4

\* The files of the refresh are replaced one at a time, beside everything else.
LEMMA FileReplaced ==
    ASSUME TypeOK, NEW p \in Files, NEW value, NEW from, NEW to,
           Replace(p, value, from, to)
    PROVE  /\ DOMAIN cache' = Files /\ DOMAIN maybe' = Files
           /\ cache'[p] = value
           /\ \A q \in Files \ {p} : cache'[q] = cache[q] /\ maybe'[q] = maybe[q]
BY DEF TypeOK, Replace, ReplaceIn

\* Syncing the directory of the list settles the list at most.
LEMMA CrlSynced ==
    ASSUME TypeOK, SyncCrl
    PROVE  /\ cache' = cache /\ DOMAIN maybe' = Files
           /\ maybe'[State] = maybe[State]
           /\ \A n \in Names :
                 maybe'[Bundle(n)] = maybe[Bundle(n)] /\ maybe'[Manifest(n)] = maybe[Manifest(n)]
BY Paths, Directories DEF TypeOK, SyncCrl, SyncedIn

\* A power loss decides for one of the contents a file may have, and takes the
\* manifest away with the bundle directory it is in.
LEMMA FileSettled ==
    ASSUME TypeOK, Seen, BundlesOnce, Settle
    PROVE  /\ DOMAIN cache' = Files /\ DOMAIN maybe' = Files
           /\ maybe'[State] \subseteq maybe[State] /\ cache'[State] \in maybe'[State]
           /\ \A n \in Names :
                 /\ \/ cache'[Bundle(n)] = cache[Bundle(n)] /\ maybe'[Bundle(n)] = maybe[Bundle(n)]
                    \/ /\ cache'[Bundle(n)] \in maybe[Bundle(n)]
                       /\ maybe'[Bundle(n)] = {cache'[Bundle(n)]}
                 /\ maybe[Bundle(n)] = {cache[Bundle(n)]} => cache'[Bundle(n)] = cache[Bundle(n)]
                 /\ maybe'[Manifest(n)] \subseteq maybe[Manifest(n)] \cup {Missing}
                 /\ cache'[Manifest(n)] \in maybe'[Manifest(n)]
<1> DEFINE p == CHOOSE q \in Unsettled : TRUE
<1>1. p \in Files
  BY DEF Settle, Unsettled
<1>2. PICK found \in maybe[p] :
         LET gone == {p} \cup {q \in Files : found = Missing /\ p = Bundle(q[1])}
         IN  /\ cache' = [q \in Files |-> IF q \in gone THEN found ELSE cache[q]]
             /\ maybe' = [q \in Files |-> IF q \in gone THEN {found} ELSE maybe[q]]
  BY DEF Settle
<1> DEFINE gone == {p} \cup {q \in Files : found = Missing /\ p = Bundle(q[1])}
<1> HIDE DEF p
<1>3. /\ DOMAIN cache' = Files /\ DOMAIN maybe' = Files
      /\ \A q \in Files : q \in gone => cache'[q] = found /\ maybe'[q] = {found}
      /\ \A q \in Files : q \notin gone => cache'[q] = cache[q] /\ maybe'[q] = maybe[q]
  BY <1>2
<1>4. State \in gone => State = p
  BY <1>1, Below
<1>5. \A n \in Names : Bundle(n) \in gone => Bundle(n) = p
  BY <1>1, Below
<1>6. \A n \in Names : Manifest(n) \in gone => Manifest(n) = p \/ found = Missing
  OBVIOUS
<1> HIDE DEF gone
<1>7. maybe'[State] \subseteq maybe[State] /\ cache'[State] \in maybe'[State]
  BY <1>2, <1>3, <1>4, Paths DEF Seen
<1>8. ASSUME NEW n \in Names
      PROVE  /\ \/ cache'[Bundle(n)] = cache[Bundle(n)] /\ maybe'[Bundle(n)] = maybe[Bundle(n)]
                \/ /\ cache'[Bundle(n)] \in maybe[Bundle(n)]
                   /\ maybe'[Bundle(n)] = {cache'[Bundle(n)]}
             /\ maybe[Bundle(n)] = {cache[Bundle(n)]} => cache'[Bundle(n)] = cache[Bundle(n)]
  BY <1>2, <1>3, <1>5, Paths
<1>9. ASSUME NEW n \in Names
      PROVE  /\ maybe'[Manifest(n)] \subseteq maybe[Manifest(n)] \cup {Missing}
             /\ cache'[Manifest(n)] \in maybe'[Manifest(n)]
  BY <1>2, <1>3, <1>6, Paths DEF Seen
<1>10. QED BY <1>3, <1>7, <1>8, <1>9

-----------------------------------------------------------------------------
(* Durable is inductive *)

LEMMA DurableInit == Init => TypeOK /\ Durable
<1> SUFFICES ASSUME Init
             PROVE  TypeOK /\ Durable
  OBVIOUS
<1>1. /\ DOMAIN cache = Files /\ DOMAIN maybe = Files
      /\ cache[State] = 1
      /\ \A n \in Names : cache[Bundle(n)] = Missing /\ cache[Manifest(n)] = Missing
      /\ \A p \in Files : maybe[p] = {cache[p]}
  BY Paths DEF Init
<1>2. TypeOK
  BY <1>1, Paths DEF Init, TypeOK, NoJob
<1>3. SerialsSurvive /\ Seen /\ BundlesOnce /\ DrawFresh
  BY <1>1, Paths, DurabilityAssumption
     DEF Init, SerialsSurvive, Seen, BundlesOnce, DrawFresh, Contents
<1>4. JobOK /\ NamesSurvive /\ SerialsOwn
  BY <1>1, Paths
     DEF Init, JobOK, NamesSurvive, SerialsOwn, DrawLabels, BundleLabels, RefreshLabels
<1>5. Refreshing /\ RefreshHeals
  BY <1>1 DEF Init, Refreshing, RefreshHeals, RefreshLabels
<1>6. QED BY <1>2, <1>3, <1>4, <1>5 DEF Durable

\* A manifest that is seen names the serial of its bundle, which is durable.
LEMMA ListedDurable ==
    ASSUME TypeOK, Seen, NamesSurvive, NEW n \in Names, cache[Manifest(n)] # Missing
    PROVE  /\ cache[Manifest(n)] \in Records
           /\ cache[Manifest(n)].serial \in Nat
           /\ cache[Bundle(n)] = cache[Manifest(n)].serial
           /\ maybe[Bundle(n)] = {cache[Manifest(n)].serial}
BY DEF TypeOK, Seen, NamesSurvive, Records

\* Steps that write nothing: requests, failures, interruptions and the start.
Quiet ==
    \/ \E n \in Names : Issue(n) \/ Revoke(n) \/ RevokeAgain(n)
    \/ IssueFails \/ MarkFails \/ RefreshFails \/ Crash \/ PowerLoss \/ Boot

LEMMA DurableQuiet ==
    ASSUME TypeOK, Durable, Quiet
    PROVE  TypeOK' /\ Durable'
<1> USE DEF Durable, DrawLabels, BundleLabels, RefreshLabels, Goto
<1>1. /\ UNCHANGED <<cache, maybe, drawn, ackIssued>>
      /\ losses' \in {losses, losses + 1}
      /\ ackRevoked' \subseteq ackRevoked \cup Names
  BY DEF Quiet, Issue, Revoke, RevokeAgain, Begin, IssueFails, MarkFails, RefreshFails, Fails,
         Finish, Crash, PowerLoss, Boot, Continue, files, acks
<1>2. CASE \E n \in Names : Issue(n)
  <2>1. PICK n \in Names : Issue(n)
    BY <1>2
  <2>2. /\ job' = [op |-> "issue", id |-> n, serial |-> 0] /\ pc' = "serial"
        /\ refreshed' = FALSE /\ cache[Bundle(n)] = Missing
    BY <2>1 DEF Issue, Begin
  <2>3. TypeOK' /\ JobOK' /\ SerialsOwn' /\ DrawFresh' /\ Refreshing' /\ RefreshHeals'
    BY <1>1, <2>2 DEF TypeOK, JobOK, SerialsOwn, DrawFresh, Refreshing, RefreshHeals
  <2>4. QED
    BY <1>1, <2>3 DEF SerialsSurvive, Seen, BundlesOnce, NamesSurvive
<1>3. CASE \E n \in Names : Revoke(n)
  <2>1. PICK n \in Names : Revoke(n)
    BY <1>3
  <2>2. /\ job' = [op |-> "revoke", id |-> n, serial |-> cache[Manifest(n)].serial]
        /\ pc' = "crl" /\ refreshed' = FALSE /\ cache[Manifest(n)] # Missing
    BY <2>1 DEF Revoke, Begin, Listed
  <2>3. /\ cache[Manifest(n)].serial \in Nat
        /\ maybe[Bundle(n)] = {cache[Manifest(n)].serial}
    BY <2>2, ListedDurable
  <2>4. TypeOK' /\ JobOK' /\ SerialsOwn' /\ DrawFresh' /\ Refreshing' /\ RefreshHeals'
    BY <1>1, <2>2, <2>3 DEF TypeOK, JobOK, SerialsOwn, DrawFresh, Refreshing, RefreshHeals
  <2>5. QED
    BY <1>1, <2>4 DEF SerialsSurvive, Seen, BundlesOnce, NamesSurvive
<1>4. CASE \/ \E n \in Names : RevokeAgain(n)
           \/ IssueFails \/ MarkFails \/ RefreshFails \/ Crash \/ PowerLoss \/ Boot
  <2>1. /\ pc' \in {"idle", "off"}
        /\ job' \in {job, NoJob}
        /\ refreshed' => refreshed /\ pc' = "idle"
    BY <1>4 DEF RevokeAgain, IssueFails, MarkFails, RefreshFails, Fails, Finish, Crash,
                PowerLoss, Boot, Continue, acks, Refreshing
  <2>2. TypeOK' /\ JobOK' /\ SerialsOwn' /\ DrawFresh' /\ Refreshing'
    BY <1>1, <2>1 DEF TypeOK, NoJob, JobOK, SerialsOwn, DrawFresh, Refreshing
  <2>3. RefreshHeals'
    BY <1>1, <2>1 DEF Refreshing, RefreshHeals, Serials, Inventory, Listed
  <2>4. QED
    BY <1>1, <2>2, <2>3 DEF SerialsSurvive, Seen, BundlesOnce, NamesSurvive
<1>5. QED BY <1>2, <1>3, <1>4 DEF Quiet

\* The rename of the counter leaves every content it may have past the serials
\* that were returned; the one being drawn is not among them.
LEMMA DurableDraw ==
    ASSUME TypeOK, Durable, RenameState
    PROVE  TypeOK' /\ Durable'
<1> USE DEF Durable, DrawLabels, BundleLabels, RefreshLabels, Goto, acks
<1>1. /\ pc = "serial" /\ pc' = "stateSync"
      /\ job' = [job EXCEPT !.serial = cache[State]]
      /\ UNCHANGED <<losses, drawn, ackIssued, ackRevoked, refreshed>>
  BY DEF RenameState
<1>2. /\ DOMAIN cache' = Files /\ DOMAIN maybe' = Files
      /\ cache'[State] = cache[State] + 1
      /\ maybe'[State] = maybe[State] \cup {cache[State] + 1}
      /\ \A n \in Names :
            /\ cache'[Bundle(n)] = cache[Bundle(n)] /\ maybe'[Bundle(n)] = maybe[Bundle(n)]
            /\ cache'[Manifest(n)] = cache[Manifest(n)]
            /\ maybe'[Manifest(n)] = maybe[Manifest(n)]
  BY CounterRenamed, Paths
<1>3. \A s \in drawn : s < cache[State]
  BY DEF SerialsSurvive, Seen
<1>4. TypeOK'
  BY <1>1, <1>2 DEF TypeOK
<1>5. SerialsSurvive'
  BY <1>1, <1>2, <1>3, DurabilityAssumption DEF TypeOK, SerialsSurvive, Contents
<1>6. Seen' /\ BundlesOnce' /\ NamesSurvive'
  BY <1>1, <1>2 DEF TypeOK, Seen, BundlesOnce, NamesSurvive
<1>7. DrawFresh' /\ JobOK' /\ SerialsOwn'
  BY <1>1, <1>2, <1>3 DEF TypeOK, DrawFresh, JobOK, SerialsOwn
<1>8. Refreshing' /\ RefreshHeals'
  BY <1>1 DEF Refreshing, RefreshHeals
<1>9. QED BY <1>4, <1>5, <1>6, <1>7, <1>8

\* NextSerial returns a number no bundle has, with the counter durably past it.
LEMMA DurableSerial ==
    ASSUME TypeOK, Durable, SyncState
    PROVE  TypeOK' /\ Durable'
<1> USE DEF Durable, DrawLabels, BundleLabels, RefreshLabels, Goto, acks
<1>1. /\ pc = "stateSync" /\ pc' = "publish" /\ drawn' = drawn \cup {job.serial}
      /\ UNCHANGED <<job, losses, ackIssued, ackRevoked, refreshed>>
  BY DEF SyncState, SyncThen
<1>2. /\ cache' = cache /\ DOMAIN maybe' = Files
      /\ maybe'[State] = {cache[State]}
      /\ \A n \in Names :
            maybe'[Bundle(n)] = maybe[Bundle(n)] /\ maybe'[Manifest(n)] = maybe[Manifest(n)]
  BY CounterSynced
<1>3. /\ cache[State] = job.serial + 1 /\ job.serial \in Nat
      /\ \A s \in drawn : s < job.serial
  BY <1>1 DEF DrawFresh, TypeOK
<1>4. TypeOK'
  BY <1>1, <1>2, <1>3 DEF TypeOK
<1>5. SerialsSurvive'
  BY <1>1, <1>2, <1>3, DurabilityAssumption DEF TypeOK, SerialsSurvive, Contents
<1>6. Seen' /\ BundlesOnce' /\ NamesSurvive' /\ DrawFresh' /\ JobOK'
  BY <1>1, <1>2 DEF TypeOK, Seen, BundlesOnce, NamesSurvive, DrawFresh, JobOK
<1>7. SerialsOwn'
  <2>1. job.serial \notin drawn /\ job.serial # Missing
    BY <1>3, DurabilityAssumption DEF TypeOK, Contents
  <2>2. QED BY <1>1, <1>2, <2>1 DEF SerialsOwn
<1>8. Refreshing' /\ RefreshHeals'
  BY <1>1 DEF Refreshing, RefreshHeals
<1>9. QED BY <1>4, <1>5, <1>6, <1>7, <1>8

\* publishBundle takes a free name.
LEMMA DurableBundle ==
    ASSUME TypeOK, Durable, PublishBundle
    PROVE  TypeOK' /\ Durable'
<1> USE DEF Durable, DrawLabels, BundleLabels, RefreshLabels, Goto, acks
<1>1. /\ pc = "publish" /\ pc' = "bundleSync"
      /\ UNCHANGED <<job, losses, drawn, ackIssued, ackRevoked, refreshed>>
  BY DEF PublishBundle, Continue
<1>2. job.id \in Names /\ cache[Bundle(job.id)] = Missing /\ job.serial \in Nat
  BY <1>1 DEF JobOK, TypeOK
<1>3. /\ DOMAIN cache' = Files /\ DOMAIN maybe' = Files
      /\ cache'[Bundle(job.id)] = job.serial
      /\ maybe'[Bundle(job.id)] = maybe[Bundle(job.id)] \cup {job.serial}
      /\ \A n \in Names :
            /\ cache'[Manifest(n)] = cache[Manifest(n)]
            /\ maybe'[Manifest(n)] = maybe[Manifest(n)]
            /\ n # job.id => /\ cache'[Bundle(n)] = cache[Bundle(n)]
                             /\ maybe'[Bundle(n)] = maybe[Bundle(n)]
      /\ cache'[State] = cache[State] /\ maybe'[State] = maybe[State]
  BY <1>2, BundleRenamed, Paths
<1>4. Missing \notin Nat /\ maybe[Bundle(job.id)] = {Missing}
  BY <1>2, DurabilityAssumption DEF Contents, Seen, BundlesOnce
<1>5. \A m \in maybe[Manifest(job.id)] : m = Missing
  BY <1>2, <1>4 DEF TypeOK, NamesSurvive, Records
<1>6. \A a \in ackIssued : a[1] \in Names /\ a[1] # job.id
  BY <1>2, <1>4 DEF NamesSurvive, TypeOK
<1>7. TypeOK'
  BY <1>1, <1>2, <1>3 DEF TypeOK
<1>8. SerialsSurvive' /\ Seen' /\ BundlesOnce' /\ DrawFresh'
  BY <1>1, <1>2, <1>3, <1>4 DEF SerialsSurvive, Seen, BundlesOnce, DrawFresh
<1>9. NamesSurvive'
  BY <1>1, <1>3, <1>5, <1>6 DEF NamesSurvive
<1>10. JobOK' /\ SerialsOwn'
  BY <1>1, <1>2, <1>3 DEF JobOK, SerialsOwn
<1>11. Refreshing' /\ RefreshHeals'
  BY <1>1 DEF Refreshing, RefreshHeals
<1>12. QED BY <1>7, <1>8, <1>9, <1>10, <1>11

\* Syncing the issued directory makes this bundle durable, and those whose own
\* sync failed.
LEMMA DurableBundleSync ==
    ASSUME TypeOK, Durable, SyncBundle
    PROVE  TypeOK' /\ Durable'
<1> USE DEF Durable, DrawLabels, BundleLabels, RefreshLabels, Goto, acks
<1>1. /\ pc = "bundleSync" /\ pc' = "manifest"
      /\ UNCHANGED <<job, losses, drawn, ackIssued, ackRevoked, refreshed>>
  BY DEF SyncBundle, SyncThen
<1>2. /\ cache' = cache /\ DOMAIN maybe' = Files
      /\ maybe'[State] = maybe[State]
      /\ \A n \in Names :
            maybe'[Bundle(n)] = {cache[Bundle(n)]} /\ maybe'[Manifest(n)] = maybe[Manifest(n)]
  BY BundlesSynced
<1>3. TypeOK' /\ SerialsSurvive' /\ Seen' /\ BundlesOnce' /\ DrawFresh'
  BY <1>1, <1>2 DEF TypeOK, SerialsSurvive, Seen, BundlesOnce, DrawFresh
<1>4. NamesSurvive'
  <2>1. \A n \in Names : cache[Bundle(n)] \in maybe[Bundle(n)]
    BY DEF Seen
  <2>2. QED BY <1>1, <1>2, <2>1 DEF TypeOK, NamesSurvive
<1>5. JobOK' /\ SerialsOwn'
  BY <1>1, <1>2 DEF JobOK, SerialsOwn
<1>6. Refreshing' /\ RefreshHeals'
  BY <1>1 DEF Refreshing, RefreshHeals
<1>7. QED BY <1>3, <1>4, <1>5, <1>6

\* A manifest names the serial of its bundle, whichever state it records.
LEMMA RecordWritten ==
    ASSUME TypeOK, Durable, pc \in {"manifest", "mark"},
           NEW state \in {"valid", "revoked"}, WriteManifest(state),
           UNCHANGED <<losses, drawn, ackIssued>>
    PROVE  /\ SerialsSurvive' /\ Seen' /\ BundlesOnce' /\ NamesSurvive'
           /\ \A n \in Names : maybe'[Manifest(n)] \subseteq Records \cup {Missing}
<1> USE DEF Durable, DrawLabels, BundleLabels, RefreshLabels
<1>1. job.id \in Names /\ maybe[Bundle(job.id)] = {job.serial}
  BY DEF JobOK
<1>2. /\ cache'[Manifest(job.id)] = [serial |-> job.serial, state |-> state]
      /\ cache'[Manifest(job.id)] \in Records
      /\ \A p \in Files \ {Manifest(job.id)} : cache'[p] = cache[p] /\ maybe'[p] = maybe[p]
      /\ maybe'[Manifest(job.id)] = maybe[Manifest(job.id)] \cup {cache'[Manifest(job.id)]}
  BY <1>1, ManifestWritten
<1>3. /\ \A n \in Names : cache'[Bundle(n)] = cache[Bundle(n)]
      /\ \A n \in Names : maybe'[Bundle(n)] = maybe[Bundle(n)]
      /\ \A n \in Names \ {job.id} :
            cache'[Manifest(n)] = cache[Manifest(n)] /\ maybe'[Manifest(n)] = maybe[Manifest(n)]
      /\ cache'[State] = cache[State] /\ maybe'[State] = maybe[State]
  BY <1>1, <1>2, Paths
<1>4. SerialsSurvive' /\ Seen' /\ BundlesOnce'
  BY <1>2, <1>3 DEF SerialsSurvive, Seen, BundlesOnce
<1>5. NamesSurvive'
  <2>1. \A a \in ackIssued : maybe'[Bundle(a[1])] = {a[2]}
    BY <1>3 DEF NamesSurvive, TypeOK
  <2>2. \A n \in Names : \A m \in maybe'[Manifest(n)] \ {Missing} : maybe'[Bundle(n)] = {m.serial}
    BY <1>1, <1>2, <1>3 DEF NamesSurvive
  <2>3. QED BY <2>1, <2>2 DEF NamesSurvive
<1>6. \A n \in Names : maybe'[Manifest(n)] \subseteq Records \cup {Missing}
  BY <1>2, <1>3 DEF TypeOK
<1>7. QED BY <1>4, <1>5, <1>6

\* The manifest of a new bundle lists it.
LEMMA DurableManifest ==
    ASSUME TypeOK, Durable, WriteNewManifest
    PROVE  TypeOK' /\ Durable'
<1> USE DEF Durable, DrawLabels, BundleLabels, RefreshLabels, Goto, acks
<1>1. /\ pc = "manifest" /\ pc' = "crl" /\ WriteManifest("valid")
      /\ UNCHANGED <<job, losses, drawn, ackIssued, ackRevoked, refreshed>>
  BY DEF WriteNewManifest, Continue
<1>2. job.id \in Names /\ job.serial \in Nat
  BY <1>1 DEF JobOK, TypeOK
<1>3. /\ DOMAIN cache' = Files /\ DOMAIN maybe' = Files
      /\ cache'[Manifest(job.id)] # Missing
      /\ \A p \in Files \ {Manifest(job.id)} : cache'[p] = cache[p] /\ maybe'[p] = maybe[p]
  BY <1>1, <1>2, ManifestWritten
<1>4. /\ \A n \in Names :
            /\ cache'[Bundle(n)] = cache[Bundle(n)] /\ maybe'[Bundle(n)] = maybe[Bundle(n)]
            /\ n # job.id => cache'[Manifest(n)] = cache[Manifest(n)]
      /\ cache'[State] = cache[State] /\ maybe'[State] = maybe[State]
  BY <1>2, <1>3, Paths
<1>5. /\ SerialsSurvive' /\ Seen' /\ BundlesOnce' /\ NamesSurvive'
      /\ \A n \in Names : maybe'[Manifest(n)] \subseteq Records \cup {Missing}
  BY <1>1, RecordWritten
<1>6. TypeOK'
  BY <1>1, <1>3, <1>4, <1>5 DEF TypeOK
<1>7. DrawFresh' /\ JobOK' /\ SerialsOwn'
  BY <1>1, <1>2, <1>3, <1>4 DEF DrawFresh, JobOK, SerialsOwn
<1>8. Refreshing' /\ RefreshHeals'
  BY <1>1 DEF Refreshing, RefreshHeals
<1>9. QED BY <1>5, <1>6, <1>7, <1>8

\* The database names every serial of the inventory on one side only.
LEMMA IndexSplit ==
    ASSUME TypeOK, Durable
    PROVE  /\ NewIndex.revoked = Serials(RevokedBundles)
           /\ NewIndex.valid = Serials(Inventory) \ NewIndex.revoked
<1>1. \A n, m \in Inventory : n # m => cache[Manifest(n)].serial # cache[Manifest(m)].serial
  BY ListedDurable DEF Durable, SerialsOwn, Inventory, Listed
<1>2. Serials(Inventory \ RevokedBundles) = Serials(Inventory) \ Serials(RevokedBundles)
  BY <1>1 DEF Serials, RevokedBundles
<1>3. QED BY <1>2 DEF NewIndex

\* MarkRevoked records what the refresh before it has published.
LEMMA DurableMark ==
    ASSUME TypeOK, Durable, MarkRevoked
    PROVE  TypeOK' /\ Durable'
<1> USE DEF Durable, DrawLabels, BundleLabels, RefreshLabels, Goto
<1>1. /\ pc = "mark" /\ pc' = "idle" /\ WriteManifest("revoked") /\ job' = NoJob
      /\ ackRevoked' = ackRevoked \cup {job.id}
      /\ UNCHANGED <<losses, drawn, ackIssued>>
  BY DEF MarkRevoked, Finish
<1>2. /\ job.id \in Names /\ job.op = "revoke" /\ job.serial \in Nat
      /\ cache[Manifest(job.id)] # Missing /\ maybe[Bundle(job.id)] = {job.serial}
  BY <1>1 DEF JobOK, TypeOK
<1>3. /\ DOMAIN cache' = Files /\ DOMAIN maybe' = Files
      /\ cache'[Manifest(job.id)] = [serial |-> job.serial, state |-> "revoked"]
      /\ cache'[Manifest(job.id)] # Missing
      /\ \A p \in Files \ {Manifest(job.id)} : cache'[p] = cache[p] /\ maybe'[p] = maybe[p]
  BY <1>1, <1>2, ManifestWritten
<1>4. /\ \A n \in Names :
            /\ cache'[Bundle(n)] = cache[Bundle(n)] /\ maybe'[Bundle(n)] = maybe[Bundle(n)]
            /\ n # job.id => cache'[Manifest(n)] = cache[Manifest(n)]
      /\ cache'[State] = cache[State] /\ maybe'[State] = maybe[State]
      /\ cache'[Crl] = cache[Crl] /\ cache'[Index] = cache[Index]
  BY <1>2, <1>3, Paths
<1>5. /\ SerialsSurvive' /\ Seen' /\ BundlesOnce' /\ NamesSurvive'
      /\ \A n \in Names : maybe'[Manifest(n)] \subseteq Records \cup {Missing}
  BY <1>1, RecordWritten
<1>6. TypeOK'
  BY <1>1, <1>2, <1>3, <1>4, <1>5 DEF TypeOK, NoJob
<1>7. DrawFresh' /\ JobOK' /\ SerialsOwn' /\ Refreshing'
  BY <1>1, <1>4 DEF DrawFresh, JobOK, SerialsOwn, Refreshing
<1>8. Inventory' = Inventory
  BY <1>2, <1>3, <1>4 DEF Inventory, Listed
<1>9. RefreshHeals'
  <2>1. cache[Crl] = NewIndex.revoked /\ cache[Index] = NewIndex
    BY <1>1 DEF Refreshing
  <2>2. \A n \in Inventory : cache'[Manifest(n)].serial = cache[Manifest(n)].serial
    BY <1>2, <1>3, <1>4, ListedDurable DEF Inventory, Listed
  <2>3. \A S \in SUBSET Inventory : Serials(S)' = Serials(S)
    BY <2>2 DEF Serials
  <2>4. RevokedBundles = {n \in Inventory : cache'[Manifest(n)].state = "revoked"}
    BY <1>2, <1>3, <1>4 DEF RevokedBundles, Revoked, Inventory
  <2>5. Serials({n \in Inventory : cache[Manifest(n)].state = "revoked"})'
           = Serials(RevokedBundles)
    BY <1>8, <2>3, <2>4 DEF RevokedBundles
  <2>6. Serials(Inventory)' = Serials(Inventory)
    BY <1>8, <2>3
  <2>7. QED BY <1>4, <2>1, <2>5, <2>6, IndexSplit DEF RefreshHeals
<1>10. QED BY <1>5, <1>6, <1>7, <1>9

\* Replacing a file of the refresh touches no bundle and no manifest.
LEMMA DurableReplace ==
    ASSUME TypeOK, Durable, NEW p \in {Crl, Index, CrlNumber}, NEW value,
           NEW from \in {"crl", "index", "number"}, NEW to \in {"index", "number", "sync"},
           Replace(p, value, from, to)
    PROVE  /\ TypeOK'
           /\ SerialsSurvive' /\ Seen' /\ BundlesOnce' /\ DrawFresh'
           /\ NamesSurvive' /\ JobOK' /\ SerialsOwn' /\ RefreshHeals'
           /\ NewIndex' = NewIndex
           /\ cache'[p] = value
           /\ \A q \in {Crl, Index, CrlNumber} \ {p} : cache'[q] = cache[q]
           /\ pc = from /\ pc' = to /\ refreshed' = refreshed
<1> USE DEF Durable, DrawLabels, BundleLabels, RefreshLabels
<1>1. /\ pc = from /\ pc' = to
      /\ UNCHANGED <<job, losses, drawn, ackIssued, ackRevoked, refreshed>>
  BY DEF Replace, Continue, Goto, acks
<1>2. /\ DOMAIN cache' = Files /\ DOMAIN maybe' = Files
      /\ cache'[p] = value
      /\ \A q \in Files \ {p} : cache'[q] = cache[q] /\ maybe'[q] = maybe[q]
  BY Paths, FileReplaced
<1>3. /\ \A n \in Names :
            /\ cache'[Bundle(n)] = cache[Bundle(n)] /\ maybe'[Bundle(n)] = maybe[Bundle(n)]
            /\ cache'[Manifest(n)] = cache[Manifest(n)]
            /\ maybe'[Manifest(n)] = maybe[Manifest(n)]
      /\ cache'[State] = cache[State] /\ maybe'[State] = maybe[State]
      /\ \A q \in {Crl, Index, CrlNumber} \ {p} : cache'[q] = cache[q]
  BY <1>2, Paths
<1>4. TypeOK'
  BY <1>1, <1>2, <1>3 DEF TypeOK
<1>5. SerialsSurvive' /\ Seen' /\ BundlesOnce' /\ NamesSurvive'
  BY <1>1, <1>3 DEF TypeOK, SerialsSurvive, Seen, BundlesOnce, NamesSurvive
<1>6. DrawFresh' /\ JobOK' /\ SerialsOwn' /\ RefreshHeals'
  BY <1>1, <1>3 DEF DrawFresh, JobOK, SerialsOwn, RefreshHeals
<1>7. Inventory' = Inventory
  BY <1>3 DEF Inventory, Listed
<1>8. RevokedBundles' = RevokedBundles
  BY <1>1, <1>3, <1>7 DEF RevokedBundles, Revoked, Inventory
<1>9. \A S \in SUBSET Inventory : Serials(S)' = Serials(S)
  BY <1>3 DEF Serials, Inventory
<1>10. NewIndex' = NewIndex
  BY <1>7, <1>8, <1>9 DEF NewIndex, RevokedBundles
<1>11. QED BY <1>1, <1>2, <1>3, <1>4, <1>5, <1>6, <1>10

LEMMA DurableRefresh ==
    ASSUME TypeOK, Durable, ReplaceCrl \/ ReplaceIndex \/ ReplaceNumber
    PROVE  TypeOK' /\ Durable'
<1> USE DEF RefreshLabels
<1>1. CASE ReplaceCrl
  <2>1. Replace(Crl, NewIndex.revoked, "crl", "index")
    BY <1>1 DEF ReplaceCrl
  <2>2. Refreshing'
    BY <2>1, DurableReplace, Paths DEF Durable, Refreshing
  <2>3. QED BY <2>1, <2>2, DurableReplace DEF Durable
<1>2. CASE ReplaceIndex
  <2>1. Replace(Index, NewIndex, "index", "number")
    BY <1>2 DEF ReplaceIndex
  <2>2. Refreshing'
    BY <2>1, DurableReplace, Paths DEF Durable, Refreshing
  <2>3. QED BY <2>1, <2>2, DurableReplace DEF Durable
<1>3. CASE ReplaceNumber
  <2>1. Replace(CrlNumber, "number", "number", "sync")
    BY <1>3 DEF ReplaceNumber
  <2>2. Refreshing'
    BY <2>1, DurableReplace, Paths DEF Durable, Refreshing
  <2>3. QED BY <2>1, <2>2, DurableReplace DEF Durable
<1>4. QED BY <1>1, <1>2, <1>3

\* Syncing the list ends the refresh; an issuance is acknowledged with a serial
\* that is durable.
LEMMA DurableSync ==
    ASSUME TypeOK, Durable, SyncCrl
    PROVE  TypeOK' /\ Durable'
<1> USE DEF Durable, DrawLabels, BundleLabels, RefreshLabels, Goto
<1>1. /\ pc = "sync" /\ UNCHANGED <<losses, drawn, ackRevoked>>
      /\ job.op = "revoke" => pc' = "mark" /\ UNCHANGED <<job, ackIssued, refreshed>>
      /\ job.op # "revoke" => /\ pc' = "idle" /\ refreshed' = TRUE /\ job' = NoJob
                              /\ ackIssued' = ackIssued \cup {<<job.id, job.serial>>}
  BY DEF SyncCrl, Continue, Finish, acks
<1>2. /\ cache' = cache /\ DOMAIN maybe' = Files
      /\ maybe'[State] = maybe[State]
      /\ \A n \in Names :
            maybe'[Bundle(n)] = maybe[Bundle(n)] /\ maybe'[Manifest(n)] = maybe[Manifest(n)]
  BY CrlSynced
<1>3. job.id \in Names /\ maybe[Bundle(job.id)] = {job.serial} /\ job.serial \in Nat
  BY <1>1 DEF JobOK, TypeOK
<1>4. ackIssued' \subseteq ackIssued \cup {<<job.id, job.serial>>} /\ job' \in {job, NoJob}
  BY <1>1
<1>5. TypeOK'
  BY <1>1, <1>2, <1>3, <1>4 DEF TypeOK, NoJob
<1>6. SerialsSurvive' /\ Seen' /\ BundlesOnce'
  BY <1>1, <1>2 DEF SerialsSurvive, Seen, BundlesOnce
<1>7. NamesSurvive'
  <2>1. \A a \in ackIssued' : maybe'[Bundle(a[1])] = {a[2]}
    BY <1>2, <1>3, <1>4 DEF TypeOK, NamesSurvive
  <2>2. QED BY <1>2, <2>1 DEF NamesSurvive
<1>8. DrawFresh' /\ JobOK' /\ SerialsOwn'
  BY <1>1, <1>2 DEF DrawFresh, JobOK, SerialsOwn
<1>9. CASE job.op = "revoke"
  <2>1. NewIndex' = NewIndex
    BY <1>1, <1>2, <1>9 DEF NewIndex, Serials, RevokedBundles, Revoked, Inventory, Listed
  <2>2. Refreshing' /\ RefreshHeals'
    BY <1>1, <1>2, <1>9, <2>1 DEF Refreshing, RefreshHeals
  <2>3. QED BY <1>5, <1>6, <1>7, <1>8, <2>2
<1>10. CASE job.op # "revoke"
  <2>1. RevokedBundles = {n \in Inventory : cache[Manifest(n)].state = "revoked"}
    BY <1>10 DEF RevokedBundles, Revoked
  <2>2. cache[Crl] = NewIndex.revoked /\ cache[Index] = NewIndex
    BY <1>1 DEF Refreshing
  <2>3. /\ cache[Crl] = Serials({n \in Inventory : cache[Manifest(n)].state = "revoked"})
        /\ cache[Index].revoked = cache[Crl]
        /\ cache[Index].valid = Serials(Inventory) \ cache[Crl]
    BY <2>1, <2>2, IndexSplit
  <2>4. RefreshHeals'
    BY <1>2, <2>3 DEF RefreshHeals, Serials, Inventory, Listed
  <2>5. Refreshing'
    BY <1>1, <1>10 DEF Refreshing
  <2>6. QED BY <1>5, <1>6, <1>7, <1>8, <2>4, <2>5
<1>11. QED BY <1>9, <1>10

\* Whatever a power loss decides was allowed before it.
LEMMA DurableSettle ==
    ASSUME TypeOK, Durable, Settle
    PROVE  TypeOK' /\ Durable'
<1> USE DEF Durable, DrawLabels, BundleLabels, RefreshLabels
<1>1. pc = "off" /\ UNCHANGED <<pc, job, losses, drawn, ackIssued, ackRevoked, refreshed>>
  BY DEF Settle, acks
<1>2. /\ DOMAIN cache' = Files /\ DOMAIN maybe' = Files
      /\ maybe'[State] \subseteq maybe[State] /\ cache'[State] \in maybe'[State]
      /\ \A n \in Names :
            /\ \/ cache'[Bundle(n)] = cache[Bundle(n)] /\ maybe'[Bundle(n)] = maybe[Bundle(n)]
               \/ /\ cache'[Bundle(n)] \in maybe[Bundle(n)]
                  /\ maybe'[Bundle(n)] = {cache'[Bundle(n)]}
            /\ maybe[Bundle(n)] = {cache[Bundle(n)]} => cache'[Bundle(n)] = cache[Bundle(n)]
            /\ maybe'[Manifest(n)] \subseteq maybe[Manifest(n)] \cup {Missing}
            /\ cache'[Manifest(n)] \in maybe'[Manifest(n)]
  BY FileSettled
<1>3. \A n \in Names : cache'[Bundle(n)] \in {Missing, cache[Bundle(n)]}
  BY <1>2 DEF BundlesOnce
<1>4. TypeOK'
  BY <1>1, <1>2, <1>3 DEF TypeOK
<1>5. SerialsSurvive' /\ Seen' /\ BundlesOnce'
  BY <1>1, <1>2 DEF SerialsSurvive, Seen, BundlesOnce
<1>6. \A n \in Names : \A v : maybe[Bundle(n)] = {v} => maybe'[Bundle(n)] = {v}
  BY <1>2
<1>7. NamesSurvive'
  BY <1>1, <1>2, <1>6 DEF TypeOK, NamesSurvive
<1>8. DrawFresh' /\ JobOK' /\ SerialsOwn'
  BY <1>1, <1>3 DEF DrawFresh, JobOK, SerialsOwn
<1>9. Refreshing' /\ RefreshHeals'
  BY <1>1 DEF Refreshing, RefreshHeals
<1>10. QED BY <1>4, <1>5, <1>7, <1>8, <1>9

LEMMA DurableStep ==
    ASSUME TypeOK, Durable, [Next]_vars
    PROVE  TypeOK' /\ Durable'
<1>1. CASE UNCHANGED vars
  <2> USE <1>1 DEF vars, files, acks
  <2>1. TypeOK' /\ SerialsSurvive' /\ Seen' /\ BundlesOnce' /\ DrawFresh'
    BY DEF TypeOK, Durable, SerialsSurvive, Seen, BundlesOnce, DrawFresh
  <2>2. JobOK' /\ NamesSurvive' /\ SerialsOwn'
    BY DEF Durable, JobOK, NamesSurvive, SerialsOwn
  <2>3. Refreshing' /\ RefreshHeals'
    BY DEF Durable, Refreshing, RefreshHeals, NewIndex, Serials,
           RevokedBundles, Revoked, Inventory, Listed
  <2>4. QED BY <2>1, <2>2, <2>3 DEF Durable
<1>2. QED
  BY <1>1, DurableQuiet, DurableDraw, DurableSerial, DurableBundle, DurableBundleSync,
     DurableManifest, DurableMark, DurableRefresh, DurableSync, DurableSettle DEF Next, Quiet

\* The files have contents of their kinds and, with failures, deaths and power
\* losses between any two file operations: what every program sees is what the
\* disk may hold, a bundle directory is where it is seen or not there at all, a
\* bundle with a manifest is durable and has a serial of its own, the counter is
\* past what was returned and what is about to be, and a refresh that went
\* through leaves list and database of the inventory.
THEOREM DurableAlways == Spec => [](TypeOK /\ Durable)
<1>1. TypeOK /\ Durable /\ [Next]_vars => (TypeOK /\ Durable)'
  BY DurableStep
<1>2. QED BY DurableInit, <1>1, PTL DEF Spec

\* NextSerial returns a serial only when its write survives: whatever renames
\* were not synced, the counter found after a power loss is past every serial
\* ever returned (SerialsSurvive).
THEOREM SerialsDurable == Spec => []SerialsSurvive
<1>1. Durable => SerialsSurvive
  BY DEF Durable
<1>2. QED BY <1>1, DurableAlways, PTL

\* An issuance that was answered survives: its bundle stays taken by the same
\* serial, and no manifest is found without its bundle (NamesSurvive).
THEOREM NamesDurable == Spec => []NamesSurvive
<1>1. Durable => NamesSurvive
  BY DEF Durable
<1>2. QED BY <1>1, DurableAlways, PTL

\* A mutation that is acknowledged leaves inventory, list and database agreeing,
\* whatever power losses, deaths and failed refreshes have left of them
\* (RefreshHeals).
THEOREM RefreshHealsAlways == Spec => []RefreshHeals
<1>1. Durable => RefreshHeals
  BY DEF Durable
<1>2. QED BY <1>1, DurableAlways, PTL
=============================================================================
