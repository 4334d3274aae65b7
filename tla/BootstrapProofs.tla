-------------------------- MODULE BootstrapProofs --------------------------
(***************************************************************************)
(* Proofs about Bootstrap, for any number of threads, any bound on the     *)
(* requests and any conditions.                                            *)
(*                                                                         *)
(* No mutex covers the rollback, so none can be the reason why the roots   *)
(* stay.  The reason is that the counter passes a right on: only the       *)
(* handler that created it may make authorities or remove anything with    *)
(* it, and as long as that handler can, the counter is there and keeps     *)
(* every other one at the inspection.                                      *)
(***************************************************************************)
EXTENDS Bootstrap, TLAPS

-----------------------------------------------------------------------------
(* The inductive invariant *)

Labels == {"idle", "init", "inspect", "createTemp", "createState", "initEngine",
           "inspectCa", "roots", "rollback", "remove", "issue", "begin",
           "serial", "read", "nextTemp", "nextState", "sign"}

Entries == {"pki", "state", "ca", "issued"} \X (Threads \cup {Nobody})

TypeOK ==
    /\ tree \subseteq Entries
    /\ mu \in [Locks -> Threads \cup {Nobody}]
    /\ pc \in [Threads -> Labels]
    /\ listing \in [Threads -> SUBSET Entries]
    /\ calls \in 0 .. MaxCalls
    /\ setting \in Settings
    /\ created \in Nat

\* Between Lock and Unlock of Store.mu, where os.RemoveAll has a listing, and
\* whose requests are for a certificate.
HolderOK(t) ==
    /\ pc[t] \in {"inspect", "createTemp", "createState", "read", "nextTemp", "nextState"}
          => mu["store"] = t
    /\ listing[t] # {} => pc[t] = "remove"
    /\ pc[t] \in {"issue", "begin", "serial", "read", "nextTemp", "nextState", "sign"}
          => "issuance" \in setting

Held == \A t \in Threads : HolderOK(t)

\* What Store.Initialize saw stays true until it has written the counter: the
\* guard of CreateState holds wherever the handler gets to it.
CounterAbsent(t) == pc[t] \in {"createTemp", "createState"} => State \notin tree

\* Created the counter, and has neither given up nor removed it.
Owns(t) ==
    \/ pc[t] \in {"initEngine", "inspectCa", "roots", "rollback"}
    \/ State \in listing[t]

OwnerOK ==
    /\ \A t \in Threads : CounterAbsent(t)
    /\ \A t \in Threads : Owns(t) => State \in tree
    /\ \A t, u \in Threads : Owns(t) /\ Owns(u) => t = u

\* Authorities appear once, and from then on nobody owns the counter any more.
CreatedOK ==
    \/ /\ created = 0
       /\ Authorities \notin tree
       /\ \A t \in Threads : Authorities \notin listing[t]
    \/ /\ created = 1
       /\ Initialized
       /\ \A t \in Threads : ~Owns(t) /\ Authorities \notin listing[t]

\* A counter without authorities is one a handler will remove or use.
RemovableOK ==
    State \in tree /\ Authorities \notin tree => \E t \in Threads : Owns(t)

BootInv ==
    /\ TypeOK
    /\ Held
    /\ OwnerOK
    /\ "sync" \notin setting => CreatedOK
    /\ setting \subseteq {"crypto"} => RemovableOK

-----------------------------------------------------------------------------
(* Types and mutexes *)

\* Nobody's names are not those of a handler's temporary files.
LEMMA Names ==
    /\ State # Authorities /\ State # Directory /\ State # Issued
    /\ Authorities # Directory /\ Authorities # Issued
    /\ \A t \in Threads : {TempState(t), TempAuthorities(t)}
                            \cap {Directory, State, Authorities, Issued} = {}
BY BootstrapAssumption
DEF Directory, State, Authorities, Issued, TempState, TempAuthorities

LEMMA NamesType ==
    /\ {Directory, State, Authorities, Issued} \subseteq Entries
    /\ \A t \in Threads : {TempState(t), TempAuthorities(t)} \subseteq Entries
BY DEF Entries, Directory, State, Authorities, Issued, TempState, TempAuthorities

LEMMA TypeInit == Init => TypeOK
BY BootstrapAssumption DEF Init, TypeOK, Labels

LEMMA TypeStep ==
    ASSUME TypeOK, [Next]_vars
    PROVE  TypeOK'
<1> USE DEF TypeOK, Labels
<1>1. ASSUME NEW t \in Threads, Begin(t) PROVE TypeOK'
  BY <1>1, BootstrapAssumption DEF Begin, Initialize, Issue, Arrive, Goto, inputs
<1>2. ASSUME NEW t \in Threads, Lock(t) PROVE TypeOK'
  BY <1>2 DEF Lock, InitLockStore, InitLockEngine, IssueLockEngine,
     SerialLockStore, Acquire, Goto, inputs
<1>3. ASSUME NEW t \in Threads,
             \/ AlreadyInitialized(t) \/ CreateDirectory(t) \/ CreateTempState(t)
             \/ DirectoryGone(t) \/ CreateState(t) \/ StateLost(t)
             \/ CreateStateSyncFails(t)
      PROVE  TypeOK'
  BY <1>3, NamesType DEF AlreadyInitialized, CreateDirectory, CreateTempState,
     DirectoryGone, CreateState, CreateStateHolding, StateLost,
     CreateStateSyncFails, RenameState, Return, Locks, Goto, inputs
<1>4. ASSUME NEW t \in Threads,
             \/ InspectAuthorities(t) \/ PublishAuthorities(t)
             \/ AuthoritiesFail(t) \/ AuthoritiesSyncFails(t)
      PROVE  TypeOK'
  BY <1>4, NamesType DEF InspectAuthorities, PublishAuthorities,
     AuthoritiesFail, AuthoritiesSyncFails, Leave, Return, Locks, Goto, inputs
<1>5. ASSUME NEW t \in Threads,
             RollbackList(t) \/ RollbackRemove(t) \/ RollbackDirectory(t)
      PROVE  TypeOK'
  BY <1>5, NamesType DEF RollbackList, RollbackRemove, RollbackDirectory, Return,
     Locks, Goto, inputs
<1>6. ASSUME NEW t \in Threads, IssueStep(t) PROVE TypeOK'
  BY <1>6, NamesType DEF IssueStep, BeginBundle, ReadState, NextState, Sign,
     RenameState, Return, Locks, Goto, inputs
<1>7. CASE Crash
  BY <1>7 DEF Crash, Locks, inputs
<1>8. CASE UNCHANGED vars
  BY <1>8 DEF vars, inputs
<1>9. QED
  BY <1>1, <1>2, <1>3, <1>4, <1>5, <1>6, <1>7, <1>8 DEF Next, Step, InitializeStep

LEMMA HolderInit == Init => Held
BY DEF Init, Held, HolderOK

LEMMA HolderStep ==
    ASSUME TypeOK, Held, [Next]_vars
    PROVE  Held'
<1> USE BootstrapAssumption DEF TypeOK, Held, HolderOK
<1>1. ASSUME NEW t \in Threads, Begin(t) PROVE Held'
  BY <1>1 DEF Begin, Initialize, Issue, Arrive, Goto, inputs
<1>2. ASSUME NEW t \in Threads, Lock(t) PROVE Held'
  BY <1>2 DEF Lock, InitLockStore, InitLockEngine, IssueLockEngine,
     SerialLockStore, Acquire, Locks, Goto, inputs
<1>3. ASSUME NEW t \in Threads,
             \/ AlreadyInitialized(t) \/ CreateDirectory(t) \/ CreateTempState(t)
             \/ DirectoryGone(t) \/ CreateState(t) \/ StateLost(t)
             \/ CreateStateSyncFails(t)
      PROVE  Held'
  BY <1>3 DEF AlreadyInitialized, CreateDirectory, CreateTempState,
     DirectoryGone, CreateState, CreateStateHolding, StateLost,
     CreateStateSyncFails, Return, Locks, Goto, inputs
<1>4. ASSUME NEW t \in Threads,
             \/ InspectAuthorities(t) \/ PublishAuthorities(t)
             \/ AuthoritiesFail(t) \/ AuthoritiesSyncFails(t)
      PROVE  Held'
  BY <1>4 DEF InspectAuthorities, PublishAuthorities, AuthoritiesFail,
     AuthoritiesSyncFails, Leave, Return, Locks, Goto, inputs
<1>5. ASSUME NEW t \in Threads,
             RollbackList(t) \/ RollbackRemove(t) \/ RollbackDirectory(t)
      PROVE  Held'
  BY <1>5 DEF RollbackList, RollbackRemove, RollbackDirectory, Return, Locks, Goto, inputs
<1>6. ASSUME NEW t \in Threads, IssueStep(t) PROVE Held'
  BY <1>6 DEF IssueStep, BeginBundle, ReadState, NextState, Sign, Return, Locks,
     Goto, inputs
<1>7. CASE Crash
  BY <1>7 DEF Crash, inputs
<1>8. CASE UNCHANGED vars
  BY <1>8 DEF vars, inputs
<1>9. QED
  BY <1>1, <1>2, <1>3, <1>4, <1>5, <1>6, <1>7, <1>8 DEF Next, Step, InitializeStep

-----------------------------------------------------------------------------
(* What a step does to the counter, the authorities and their owner *)

\* The steps that leave counter, authorities and ownership alone.
Quiet(t) ==
    \/ Begin(t) \/ Lock(t) \/ AlreadyInitialized(t) \/ CreateDirectory(t)
    \/ CreateTempState(t) \/ DirectoryGone(t) \/ StateLost(t)
    \/ InspectAuthorities(t) \/ AuthoritiesFail(t) \/ RollbackDirectory(t)
    \/ BeginBundle(t) \/ ReadState(t) \/ Sign(t)

LEMMA StepSplit ==
    ASSUME NEW t \in Threads, Begin(t) \/ Step(t)
    PROVE  \/ Quiet(t) \/ CreateState(t) \/ CreateStateSyncFails(t) \/ NextState(t)
           \/ PublishAuthorities(t) \/ AuthoritiesSyncFails(t)
           \/ RollbackList(t) \/ RollbackRemove(t)
BY DEF Step, InitializeStep, IssueStep, Quiet

LEMMA QuietEffect ==
    ASSUME TypeOK, NEW t \in Threads, Quiet(t)
    PROVE  /\ UNCHANGED <<listing, created, setting>>
           /\ \A u \in Threads : u # t => pc'[u] = pc[u]
           /\ State \in tree' <=> State \in tree
           /\ Authorities \in tree' <=> Authorities \in tree
           /\ pc'[t] \in {"initEngine", "inspectCa", "roots", "rollback"} <=>
                 pc[t] \in {"initEngine", "inspectCa", "roots", "rollback"}
           /\ pc'[t] \in {"createTemp", "createState"} =>
                 State \notin tree \/ pc[t] = "createTemp"
<1> USE Names DEF TypeOK
<1>1. CASE Begin(t)
  BY <1>1 DEF Begin, Initialize, Issue, Arrive, Goto
<1>2. CASE Lock(t)
  BY <1>2 DEF Lock, InitLockStore, InitLockEngine, IssueLockEngine,
     SerialLockStore, Acquire, Goto, inputs
<1>3. CASE \/ AlreadyInitialized(t) \/ CreateDirectory(t) \/ CreateTempState(t)
           \/ DirectoryGone(t) \/ StateLost(t)
  BY <1>3 DEF AlreadyInitialized, CreateDirectory, CreateTempState, DirectoryGone,
     StateLost, Return, Goto, inputs
<1>4. CASE InspectAuthorities(t)
  BY <1>4 DEF InspectAuthorities, Leave, Goto, inputs
<1>5. CASE AuthoritiesFail(t)
  BY <1>5 DEF AuthoritiesFail, Leave, Goto, inputs
<1>6. CASE RollbackDirectory(t)
  BY <1>6 DEF RollbackDirectory, Return, Goto, inputs
<1>7. CASE BeginBundle(t) \/ ReadState(t) \/ Sign(t)
  BY <1>7 DEF BeginBundle, ReadState, Sign, Return, Goto, inputs
<1>8. QED BY <1>1, <1>2, <1>3, <1>4, <1>5, <1>6, <1>7 DEF Quiet

LEMMA QuietMoves ==
    ASSUME TypeOK, NEW t \in Threads, Quiet(t)
    PROVE  pc'[t] # "remove"
<1> USE DEF TypeOK, Goto
<1>1. CASE Begin(t)
  BY <1>1 DEF Begin, Initialize, Issue, Arrive
<1>2. CASE Lock(t)
  BY <1>2 DEF Lock, InitLockStore, InitLockEngine, IssueLockEngine,
     SerialLockStore, Acquire
<1>3. CASE \/ AlreadyInitialized(t) \/ CreateDirectory(t) \/ CreateTempState(t)
           \/ DirectoryGone(t) \/ StateLost(t) \/ RollbackDirectory(t)
  BY <1>3 DEF AlreadyInitialized, CreateDirectory, CreateTempState, DirectoryGone,
     StateLost, RollbackDirectory, Return
<1>4. CASE InspectAuthorities(t) \/ AuthoritiesFail(t)
  BY <1>4 DEF InspectAuthorities, AuthoritiesFail, Leave
<1>5. CASE BeginBundle(t) \/ ReadState(t) \/ Sign(t)
  BY <1>5 DEF BeginBundle, ReadState, Sign, Return
<1>6. QED BY <1>1, <1>2, <1>3, <1>4, <1>5 DEF Quiet

\* The counter appears, by an initialization or an issuance.
LEMMA CounterEffect ==
    ASSUME TypeOK, NEW t \in Threads,
           CreateState(t) \/ CreateStateSyncFails(t) \/ NextState(t)
    PROVE  /\ UNCHANGED <<listing, created, setting>>
           /\ \A u \in Threads : u # t => pc'[u] = pc[u]
           /\ State \in tree'
           /\ Authorities \in tree' <=> Authorities \in tree
           /\ pc[t] \in {"createState", "nextState"}
           /\ pc'[t] \in {"initEngine", "idle", "sign"}
           /\ pc'[t] = "initEngine" => State \notin tree
           /\ CreateState(t) => pc'[t] = "initEngine"
           /\ CreateStateSyncFails(t) => "sync" \in setting
           /\ NextState(t) => pc[t] = "nextState"
<1> USE Names DEF TypeOK
<1>1. CASE CreateState(t)
  BY <1>1 DEF CreateState, CreateStateHolding, RenameState, Goto, inputs,
     CreateStateSyncFails, NextState
<1>2. CASE CreateStateSyncFails(t)
  BY <1>2 DEF CreateState, CreateStateHolding, RenameState, Goto, inputs,
     CreateStateSyncFails, NextState, Return
<1>3. CASE NextState(t)
  BY <1>3 DEF CreateState, CreateStateHolding, RenameState, Goto, inputs,
     CreateStateSyncFails, NextState
<1>4. QED BY <1>1, <1>2, <1>3

\* The authorities appear.
LEMMA AuthoritiesEffect ==
    ASSUME TypeOK, NEW t \in Threads,
           PublishAuthorities(t) \/ AuthoritiesSyncFails(t)
    PROVE  /\ UNCHANGED <<listing, setting>>
           /\ \A u \in Threads : u # t => pc'[u] = pc[u]
           /\ State \in tree' <=> State \in tree
           /\ Authorities \in tree'
           /\ pc[t] = "roots"
           /\ PublishAuthorities(t) => pc'[t] = "idle" /\ created' = created + 1
           /\ AuthoritiesSyncFails(t) =>
                 pc'[t] = "rollback" /\ created' = created /\ "sync" \in setting
<1> USE Names DEF TypeOK
<1>1. CASE PublishAuthorities(t)
  BY <1>1 DEF PublishAuthorities, AuthoritiesSyncFails, Return, Goto, inputs
<1>2. CASE AuthoritiesSyncFails(t)
  <2>1. ~PublishAuthorities(t)
    <3>1. pc'[t] = "rollback"
      BY <1>2 DEF AuthoritiesSyncFails, Goto
    <3>2. PublishAuthorities(t) => pc'[t] = "idle"
      BY DEF PublishAuthorities, Return, Goto
    <3>3. QED BY <3>1, <3>2
  <2>2. QED BY <1>2, <2>1 DEF AuthoritiesSyncFails, Goto, inputs
<1>3. QED BY <1>1, <1>2

\* os.RemoveAll removes only what it has listed, and lists only what was there.
LEMMA RollbackEffect ==
    ASSUME TypeOK, NEW t \in Threads, RollbackList(t) \/ RollbackRemove(t)
    PROVE  /\ UNCHANGED <<created, setting>>
           /\ \A u \in Threads :
                 u # t => pc'[u] = pc[u] /\ listing'[u] = listing[u]
           /\ pc'[t] = "remove"
           /\ RollbackList(t) =>
                 /\ tree' = tree /\ pc[t] = "rollback"
                 /\ listing'[t] = tree \ {Directory}
           /\ RollbackRemove(t) =>
                 /\ pc' = pc
                 /\ \E e \in listing[t] :
                       tree' = tree \ {e} /\ listing'[t] = listing[t] \ {e}
BY DEF TypeOK, RollbackList, RollbackRemove, Goto, inputs

LEMMA CrashEffect ==
    ASSUME TypeOK, Crash
    PROVE  /\ UNCHANGED <<created, setting>>
           /\ \A u \in Threads : pc'[u] = "idle" /\ listing'[u] = {}
           /\ State \in tree' <=> State \in tree
           /\ Authorities \in tree' <=> Authorities \in tree
           /\ "crash" \in setting
BY DEF Crash, inputs

-----------------------------------------------------------------------------
(* The counter and its owner *)

LEMMA OwnerStep ==
    ASSUME TypeOK, Held, OwnerOK, [Next]_vars
    PROVE  OwnerOK'
<1> USE DEF OwnerOK, Owns, CounterAbsent
<1>1. ASSUME NEW t \in Threads, Quiet(t) PROVE OwnerOK'
  BY <1>1, QuietEffect
<1>2. ASSUME NEW t \in Threads,
             CreateState(t) \/ CreateStateSyncFails(t) \/ NextState(t)
      PROVE  OwnerOK'
  <2>1. \A u \in Threads : u # t => pc[u] \notin {"createTemp", "createState"}
    BY <1>2, CounterEffect DEF Held, HolderOK
  <2>2. \A u \in Threads : pc'[u] \notin {"createTemp", "createState"}
    BY <1>2, <2>1, CounterEffect
  <2>3. QED BY <1>2, <2>2, CounterEffect
<1>3. ASSUME NEW t \in Threads, PublishAuthorities(t) \/ AuthoritiesSyncFails(t)
      PROVE  OwnerOK'
  BY <1>3, AuthoritiesEffect
<1>4. ASSUME NEW t \in Threads, RollbackList(t) PROVE OwnerOK'
  BY <1>4, RollbackEffect
<1>5. ASSUME NEW t \in Threads, RollbackRemove(t) PROVE OwnerOK'
  <2>1. PICK e \in listing[t] : tree' = tree \ {e} /\ listing'[t] = listing[t] \ {e}
    BY <1>5, RollbackEffect
  <2>2. /\ \A u \in Threads : u # t => listing'[u] = listing[u]
        /\ \A u \in Threads : pc'[u] = pc[u]
    BY <1>5, RollbackEffect
  <2>3. CASE e = State
    BY <2>1, <2>2, <2>3 DEF Held, HolderOK
  <2>4. CASE e # State
    BY <2>1, <2>2, <2>4
  <2>5. QED BY <2>3, <2>4
<1>6. CASE Crash
  BY <1>6, CrashEffect
<1>7. CASE UNCHANGED vars
  BY <1>7 DEF vars
<1>8. QED
  BY <1>1, <1>2, <1>3, <1>4, <1>5, <1>6, <1>7, StepSplit DEF Next

LEMMA CreatedStep ==
    ASSUME TypeOK, Held, OwnerOK, CreatedOK, "sync" \notin setting, [Next]_vars
    PROVE  CreatedOK'
<1> USE DEF CreatedOK, OwnerOK, Owns, Initialized
<1>1. ASSUME NEW t \in Threads, Quiet(t) PROVE CreatedOK'
  BY <1>1, QuietEffect
<1>2. ASSUME NEW t \in Threads,
             CreateState(t) \/ CreateStateSyncFails(t) \/ NextState(t)
      PROVE  CreatedOK'
  BY <1>2, CounterEffect
<1>3. ASSUME NEW t \in Threads, PublishAuthorities(t) \/ AuthoritiesSyncFails(t)
      PROVE  CreatedOK'
  <2>1. /\ pc[t] = "roots" /\ created' = created + 1 /\ pc'[t] = "idle"
        /\ listing' = listing /\ Authorities \in tree'
        /\ \A u \in Threads : u # t => pc'[u] = pc[u]
        /\ State \in tree' <=> State \in tree
    BY <1>3, AuthoritiesEffect
  <2>2. created = 0 /\ \A u \in Threads : Authorities \notin listing[u]
    BY <2>1
  <2>3. \A u \in Threads : State \notin listing[u]
    BY <2>1 DEF Held, HolderOK
  <2>4. \A u \in Threads : u # t => ~Owns(u)
    BY <2>1
  <2>5. QED BY <2>1, <2>2, <2>3, <2>4
<1>4. ASSUME NEW t \in Threads, RollbackList(t) PROVE CreatedOK'
  BY <1>4, RollbackEffect
<1>5. ASSUME NEW t \in Threads, RollbackRemove(t) PROVE CreatedOK'
  BY <1>5, RollbackEffect
<1>6. CASE Crash
  BY <1>6, CrashEffect
<1>7. CASE UNCHANGED vars
  BY <1>7 DEF vars, inputs
<1>8. QED
  BY <1>1, <1>2, <1>3, <1>4, <1>5, <1>6, <1>7, StepSplit DEF Next

LEMMA RemovableStep ==
    ASSUME TypeOK, Held, OwnerOK, CreatedOK, RemovableOK,
           setting \subseteq {"crypto"}, [Next]_vars
    PROVE  RemovableOK'
<1> USE DEF RemovableOK, Owns
<1>1. ASSUME NEW t \in Threads, Quiet(t) PROVE RemovableOK'
  BY <1>1, QuietEffect
<1>2. ASSUME NEW t \in Threads,
             CreateState(t) \/ CreateStateSyncFails(t) \/ NextState(t)
      PROVE  RemovableOK'
  BY <1>2, CounterEffect DEF Held, HolderOK
<1>3. ASSUME NEW t \in Threads, PublishAuthorities(t) \/ AuthoritiesSyncFails(t)
      PROVE  RemovableOK'
  BY <1>3, AuthoritiesEffect
<1>4. ASSUME NEW t \in Threads, RollbackList(t) PROVE RemovableOK'
  <2>1. State \in tree'=> State \in listing'[t]
    BY <1>4, RollbackEffect, Names
  <2>2. QED BY <2>1
<1>5. ASSUME NEW t \in Threads, RollbackRemove(t) PROVE RemovableOK'
  <2>1. PICK e \in listing[t] : tree' = tree \ {e} /\ listing'[t] = listing[t] \ {e}
    BY <1>5, RollbackEffect
  <2>2. /\ \A u \in Threads : u # t => listing'[u] = listing[u]
        /\ \A u \in Threads : pc'[u] = pc[u]
    BY <1>5, RollbackEffect
  <2>3. e # Authorities
    BY <2>1 DEF CreatedOK
  <2>4. State \in tree' /\ Authorities \notin tree'
           => \E u \in Threads : Owns(u) /\ e # State
    BY <2>1, <2>3
  <2>5. QED BY <2>1, <2>2, <2>4
<1>6. CASE Crash
  BY <1>6, CrashEffect
<1>7. CASE UNCHANGED vars
  BY <1>7 DEF vars
<1>8. QED
  BY <1>1, <1>2, <1>3, <1>4, <1>5, <1>6, <1>7, StepSplit DEF Next

LEMMA SettingFixed ==
    ASSUME TypeOK, [Next]_vars
    PROVE  setting' = setting
<1>1. CASE UNCHANGED vars
  BY <1>1 DEF vars, inputs
<1>2. QED
  BY <1>1, StepSplit, QuietEffect, CounterEffect, AuthoritiesEffect,
     RollbackEffect, CrashEffect DEF Next

-----------------------------------------------------------------------------
(* Theorems *)

LEMMA BootInit == Init => BootInv
<1> SUFFICES ASSUME Init PROVE BootInv
  OBVIOUS
<1>1. TypeOK /\ Held
  BY TypeInit, HolderInit
<1>2. /\ tree = {} /\ created = 0
      /\ \A t \in Threads : pc[t] = "idle" /\ listing[t] = {}
  BY DEF Init
<1>3. OwnerOK /\ CreatedOK /\ RemovableOK
  BY <1>2 DEF OwnerOK, CounterAbsent, Owns, CreatedOK, RemovableOK
<1>4. QED BY <1>1, <1>3 DEF BootInv

LEMMA BootStep ==
    ASSUME BootInv, [Next]_vars
    PROVE  BootInv'
<1>1. TypeOK' /\ Held' /\ OwnerOK'
  BY TypeStep, HolderStep, OwnerStep DEF BootInv
<1>2. setting' = setting
  BY SettingFixed DEF BootInv
<1>3. "sync" \notin setting' => CreatedOK'
  BY <1>2, CreatedStep DEF BootInv
<1>4. setting' \subseteq {"crypto"} => RemovableOK'
  BY <1>2, CreatedStep, RemovableStep DEF BootInv
<1>5. QED BY <1>1, <1>3, <1>4 DEF BootInv

\* Types and mutexes, and the right to make or remove authorities: at most one
\* handler has it, and as long as it does the counter is there.
THEOREM OneOwner == Spec => []BootInv
BY BootInit, BootStep, PTL DEF Spec

\* The guard of CreateState excludes no behavior of the code, which renames
\* without looking again: Store.mu is held since the counter was found absent.
THEOREM CreatesWhereAbsent == Spec => [](\A t \in Threads : CounterAbsent(t))
<1>1. BootInv => \A t \in Threads : CounterAbsent(t)
  BY DEF BootInv, OwnerOK
<1>2. QED BY <1>1, OneOwner, PTL

\* A mutex that is not free is held by a handler inside it.
StoreLabels == {"inspect", "createTemp", "createState", "read", "nextTemp", "nextState"}
EngineLabels == {"inspectCa", "roots", "begin", "serial", "read", "nextTemp",
                 "nextState", "sign"}
HoldersInside ==
    \A t \in Threads :
        /\ mu["store"] = t => pc[t] \in StoreLabels
        /\ mu["engine"] = t => pc[t] \in EngineLabels

LEMMA HoldersStep ==
    ASSUME TypeOK, HoldersInside, [Next]_vars
    PROVE  HoldersInside'
<1> USE BootstrapAssumption
    DEF TypeOK, HoldersInside, StoreLabels, EngineLabels, Locks, Goto
<1>1. ASSUME NEW t \in Threads, Return(t) PROVE HoldersInside'
  BY <1>1 DEF Return
<1>2. ASSUME NEW t \in Threads, NEW temp, NEW label,
             Leave(t, "engine", temp, label), pc[t] \in {"inspectCa", "roots"}
      PROVE  HoldersInside'
  BY <1>2 DEF Leave
<1>3. ASSUME NEW t \in Threads, Begin(t) PROVE HoldersInside'
  BY <1>3 DEF Begin, Initialize, Issue, Arrive
<1>4. ASSUME NEW t \in Threads, Lock(t) PROVE HoldersInside'
  BY <1>4 DEF Lock, InitLockStore, InitLockEngine, IssueLockEngine,
     SerialLockStore, Acquire
<1>5. ASSUME NEW t \in Threads, InitializeStep(t) PROVE HoldersInside'
  <2>1. CASE \/ AlreadyInitialized(t) \/ DirectoryGone(t) \/ StateLost(t)
             \/ CreateStateSyncFails(t) \/ PublishAuthorities(t)
             \/ RollbackDirectory(t)
    BY <1>1, <2>1 DEF AlreadyInitialized, DirectoryGone, StateLost,
       CreateStateSyncFails, PublishAuthorities, RollbackDirectory
  <2>2. CASE CreateDirectory(t) \/ CreateTempState(t) \/ CreateState(t)
    BY <2>2 DEF CreateDirectory, CreateTempState, CreateState, CreateStateHolding
  <2>3. CASE InspectAuthorities(t)
    BY <1>2, <2>3 DEF InspectAuthorities
  <2>4. CASE AuthoritiesFail(t)
    BY <1>2, <2>4 DEF AuthoritiesFail
  <2>5. CASE AuthoritiesSyncFails(t) \/ RollbackList(t) \/ RollbackRemove(t)
    BY <2>5 DEF AuthoritiesSyncFails, RollbackList, RollbackRemove
  <2>6. QED BY <1>5, <2>1, <2>2, <2>3, <2>4, <2>5 DEF InitializeStep
<1>6. ASSUME NEW t \in Threads, IssueStep(t) PROVE HoldersInside'
  BY <1>1, <1>6 DEF IssueStep, BeginBundle, ReadState, NextState, Sign
<1>7. CASE Crash
  BY <1>7 DEF Crash
<1>8. CASE UNCHANGED vars
  BY <1>8 DEF vars
<1>9. QED BY <1>3, <1>4, <1>5, <1>6, <1>7, <1>8 DEF Next, Step

\* Store.Initialize gives the store mutex back on every path before the engine
\* mutex is taken: for any number of handlers some request can go on.
THEOREM NoDeadlock == Spec => []SomebodyProceeds
<1>1. ASSUME TypeOK, HoldersInside PROVE SomebodyProceeds
  <2> SUFFICES ASSUME NEW t \in Threads, pc[t] # "idle"
               PROVE  \E u \in Threads :
                         /\ pc[u] # "idle"
                         /\ \A l \in Locks : WaitsFor(u, l) => mu[l] = Nobody
    BY DEF SomebodyProceeds
  <2>1. CASE mu["store"] \in Threads
    <3>1. pc[mu["store"]] \in StoreLabels
      BY <1>1, <2>1 DEF HoldersInside
    <3>2. QED BY <2>1, <3>1 DEF StoreLabels, WaitsFor
  <2>2. CASE mu["store"] = Nobody /\ mu["engine"] \in Threads
    <3>1. pc[mu["engine"]] \in EngineLabels
      BY <1>1, <2>2 DEF HoldersInside
    <3>2. QED BY <2>2, <3>1 DEF EngineLabels, WaitsFor
  <2>3. CASE mu["store"] = Nobody /\ mu["engine"] = Nobody
    BY <2>3 DEF Locks
  <2>4. QED BY <1>1, <2>1, <2>2, <2>3 DEF TypeOK, Locks
<1>2. Init => HoldersInside
  BY BootstrapAssumption DEF Init, HoldersInside, Locks
<1>3. BootInv /\ HoldersInside /\ [Next]_vars => HoldersInside'
  BY HoldersStep DEF BootInv
<1>4. BootInv /\ HoldersInside => SomebodyProceeds
  BY <1>1 DEF BootInv
<1>5. QED BY <1>2, <1>3, <1>4, OneOwner, PTL DEF Spec

\* Whatever initializations, issuances, rollbacks and restarts do, a 201 is
\* given once and what it announced stays.
THEOREM RootsStay == Spec => []RootsCreatedOnce
<1>1. BootInv => RootsCreatedOnce
  BY DEF BootInv, CreatedOK, RootsCreatedOnce
<1>2. QED BY <1>1, OneOwner, PTL

\* Where only commands fail, every initialization rolls back far enough for the
\* next one to find no counter.
THEOREM RollbackSuffices == Spec => []CanBeInitialized
<1>1. ASSUME BootInv PROVE CanBeInitialized
  <2> SUFFICES ASSUME setting \subseteq {"crypto"},
                      \A t \in Threads : pc[t] = "idle", ~Initialized
               PROVE  State \notin tree
    BY DEF CanBeInitialized, AlwaysInitializable
  <2>1. \A t \in Threads : ~Owns(t)
    BY <1>1 DEF BootInv, Held, HolderOK, Owns
  <2>2. QED BY <1>1, <2>1 DEF BootInv, RemovableOK, Initialized
<1>2. QED BY <1>1, OneOwner, PTL

\* Store.Initialize inspects before it writes anything: with counter and
\* authorities in place, and nobody past that inspection, no step of anybody
\* gets past it or removes either.
THEOREM MaterialStays == Spec => ReinitializationChangesNothing
<1>1. ASSUME BootInv, Initialized, \A t \in Threads : ~Initializing(t), [Next]_vars
      PROVE  Initialized' /\ \A t \in Threads : ~Initializing(t)'
  <2> USE DEF BootInv, Initialized, Initializing
  <2>1. TypeOK /\ State \in tree /\ Authorities \in tree
    BY <1>1
  <2>2. ASSUME NEW t \in Threads, Quiet(t)
        PROVE  Initialized' /\ \A u \in Threads : ~Initializing(u)'
    <3>1. pc'[t] \notin {"initEngine", "inspectCa", "roots", "rollback", "createTemp",
                       "createState"}
      BY <1>1, <2>1, <2>2, QuietEffect
    <3>2. pc'[t] = "remove" => pc[t] = "remove"
      BY <2>1, <2>2, QuietMoves
    <3>3. QED BY <1>1, <2>1, <2>2, <3>1, <3>2, QuietEffect
  <2>3. ASSUME NEW t \in Threads,
               CreateState(t) \/ CreateStateSyncFails(t) \/ NextState(t)
        PROVE  Initialized' /\ \A u \in Threads : ~Initializing(u)'
    BY <1>1, <2>1, <2>3, CounterEffect
  <2>4. ASSUME NEW t \in Threads
        PROVE  ~PublishAuthorities(t) /\ ~AuthoritiesSyncFails(t)
               /\ ~RollbackList(t) /\ ~RollbackRemove(t)
    BY <1>1 DEF PublishAuthorities, AuthoritiesSyncFails, RollbackList, RollbackRemove
  <2>5. CASE Crash
    BY <2>1, <2>5, CrashEffect
  <2>6. CASE UNCHANGED vars
    BY <1>1, <2>6 DEF vars
  <2>7. QED BY <1>1, <2>2, <2>3, <2>4, <2>5, <2>6, StepSplit DEF Next
<1>2. BootInv /\ [Next]_vars =>
         [Initialized /\ (\A t \in Threads : ~Initializing(t))
            => Initialized' /\ (\A t \in Threads : ~Initializing(t)')]_vars
  BY <1>1
<1>3. QED BY <1>2, OneOwner, PTL DEF Spec, ReinitializationChangesNothing

=============================================================================
