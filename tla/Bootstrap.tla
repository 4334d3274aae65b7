----------------------------- MODULE Bootstrap -----------------------------
(***************************************************************************)
(* First-run initialization: PKIService.Initialize around Store.Initialize *)
(* and Engine.InitializeAuthorities, with the rollback that removes the    *)
(* whole PKI directory when no authorities could be made, next to other    *)
(* initializations and to issuances that draw a serial number meanwhile.   *)
(*                                                                         *)
(* PKIService.Initialize takes no lock of its own; Store.mu guards the     *)
(* counter, Engine.mu the authorities, and nothing guards the rollback.    *)
(***************************************************************************)
EXTENDS Naturals, FiniteSets

CONSTANTS
    Threads,    \* the handler goroutines
    Nobody,     \* the holder of a free mutex
    MaxCalls,   \* bound on the requests a run admits
    Settings    \* the sets of conditions the service may run under

\* Clients also request certificates; a command fails or times out, or the
\* engine refuses the organization; syncing a directory fails after the rename;
\* the process dies.
Conditions == {"issuance", "crypto", "sync", "crash"}

ASSUME BootstrapAssumption ==
    /\ Nobody \notin Threads
    /\ MaxCalls \in Nat
    /\ Settings \subseteq SUBSET Conditions

VARIABLES
    tree,      \* the PKI directory and its entries
    mu,        \* Store.mu ("store") and Engine.mu ("engine")
    pc,        \* what each handler does next
    listing,   \* the entries a handler's os.RemoveAll has still to remove
    calls,     \* requests so far
    setting,   \* what may happen in this behavior; never changes
    created    \* initializations answered with 201, for the properties only

inputs == <<calls, setting>>
vars == <<tree, mu, pc, listing, inputs, created>>

\* The directory, state.json, the ca directory (both roots are published by one
\* rename), the issued directory, and the temporary files of each handler.
Directory == <<"pki", Nobody>>
State == <<"state", Nobody>>
Authorities == <<"ca", Nobody>>
Issued == <<"issued", Nobody>>
TempState(t) == <<"state", t>>
TempAuthorities(t) == <<"ca", t>>

Locks == {"store", "engine"}

\* PKIService.Status: state.json and both root certificates are there.
Initialized == {State, Authorities} \subseteq tree

-----------------------------------------------------------------------------
(* Control flow *)

Goto(t, label) == pc' = [pc EXCEPT ![t] = label]

Acquire(t, lock, from, to) ==
    /\ pc[t] = from
    /\ mu[lock] = Nobody
    /\ mu' = [mu EXCEPT ![lock] = t]
    /\ Goto(t, to)
    /\ UNCHANGED <<tree, listing, inputs, created>>

\* Return of an inner call: its deferred unlock and removal of its own
\* temporary file run.
Leave(t, lock, temp, label) ==
    /\ mu' = [mu EXCEPT ![lock] = Nobody]
    /\ tree' = tree \ {temp}
    /\ Goto(t, label)
    /\ UNCHANGED <<listing, inputs, created>>

\* Respond; whatever mutex is held is released.
Return(t) ==
    /\ mu' = [l \in Locks |-> IF mu[l] = t THEN Nobody ELSE mu[l]]
    /\ Goto(t, "idle")
    /\ UNCHANGED <<listing, inputs>>

Arrive(t, label) ==
    /\ pc[t] = "idle"
    /\ calls < MaxCalls
    /\ calls' = calls + 1
    /\ Goto(t, label)
    /\ UNCHANGED <<tree, mu, listing, setting, created>>

-----------------------------------------------------------------------------
(* Store.Initialize *)

Initialize(t) == Arrive(t, "init")

InitLockStore(t) == Acquire(t, "store", "init", "inspect")

AlreadyInitializedRollsBack(t) ==
    /\ pc[t] = "inspect"
    /\ State \in tree
    /\ Leave(t, "store", TempState(t), "rollback")
AlreadyInitialized(t) ==
    /\ pc[t] = "inspect"
    /\ State \in tree
    /\ Return(t)
    /\ UNCHANGED <<tree, created>>

CreateDirectory(t) ==
    /\ pc[t] = "inspect"
    /\ State \notin tree
    /\ tree' = tree \cup {Directory}
    /\ Goto(t, "createTemp")
    /\ UNCHANGED <<mu, listing, inputs, created>>

\* writeStateAtomic creates its temporary file; a rollback may just have taken
\* the directory away.
CreateTempState(t) ==
    /\ pc[t] \in {"createTemp", "nextTemp"}
    /\ Directory \in tree
    /\ tree' = tree \cup {TempState(t)}
    /\ Goto(t, IF pc[t] = "createTemp" THEN "createState" ELSE "nextState")
    /\ UNCHANGED <<mu, listing, inputs, created>>

DirectoryGone(t) ==
    /\ pc[t] \in {"createTemp", "nextTemp"}
    /\ Directory \notin tree
    /\ Return(t)
    /\ UNCHANGED <<tree, created>>

\* ... and renames it into place; a rollback may have removed it.  The counter
\* starts only where there is none.
RenameState(t) == tree' = (tree \ {TempState(t)}) \cup {State}

CreateStateHolding(t, holder) ==
    /\ pc[t] = "createState"
    /\ TempState(t) \in tree
    /\ State \notin tree
    /\ RenameState(t)
    /\ mu' = [mu EXCEPT !["store"] = holder]
    /\ Goto(t, "initEngine")
    /\ UNCHANGED <<listing, inputs, created>>
CreateStateKeepsLock(t) == CreateStateHolding(t, t)
CreateState(t) == CreateStateHolding(t, Nobody)

StateLost(t) ==
    /\ pc[t] \in {"createState", "nextState"}
    /\ TempState(t) \notin tree
    /\ Return(t)
    /\ UNCHANGED <<tree, created>>

\* state.json is in place, but syncing its directory failed: Initialize
\* returns before its rollback.
CreateStateSyncFails(t) ==
    /\ "sync" \in setting
    /\ pc[t] = "createState"
    /\ TempState(t) \in tree
    /\ State \notin tree
    /\ RenameState(t)
    /\ Return(t)
    /\ UNCHANGED created

-----------------------------------------------------------------------------
(* Engine.InitializeAuthorities *)

InitLockEngine(t) == Acquire(t, "engine", "initEngine", "inspectCa")

\* An organization the engine does not accept ends here as well.
InspectAuthorities(t) ==
    /\ pc[t] = "inspectCa"
    /\ \/ /\ State \in tree /\ Authorities \notin tree
          /\ tree' = tree \cup {TempAuthorities(t)}
          /\ Goto(t, "roots")
          /\ UNCHANGED <<mu, listing, inputs, created>>
       \/ /\ State \notin tree \/ Authorities \in tree \/ "crypto" \in setting
          /\ Leave(t, "engine", TempAuthorities(t), "rollback")

\* Both keys and both certificates are made and verified in the temporary
\* directory, which is renamed as a whole.
PublishAuthorities(t) ==
    /\ pc[t] = "roots"
    /\ TempAuthorities(t) \in tree
    /\ tree' = (tree \ {TempAuthorities(t)}) \cup {Authorities}
    /\ created' = created + 1
    /\ Return(t)

\* A command failed, or the rename did because a rollback took the directory.
AuthoritiesFailNoRollback(t) ==
    /\ "crypto" \in setting
    /\ pc[t] = "roots"
    /\ tree' = tree \ {TempAuthorities(t)}
    /\ Return(t)
    /\ UNCHANGED created
AuthoritiesFail(t) ==
    /\ pc[t] = "roots"
    /\ TempAuthorities(t) \in tree => "crypto" \in setting
    /\ Leave(t, "engine", TempAuthorities(t), "rollback")

AuthoritiesSyncFails(t) ==
    /\ "sync" \in setting
    /\ pc[t] = "roots"
    /\ TempAuthorities(t) \in tree
    /\ mu' = [mu EXCEPT !["engine"] = Nobody]
    /\ tree' = (tree \ {TempAuthorities(t)}) \cup {Authorities}
    /\ Goto(t, "rollback")
    /\ UNCHANGED <<listing, inputs, created>>

-----------------------------------------------------------------------------
(* The rollback: os.RemoveAll reads the directory once, removes every entry *)
(* it saw and then the directory itself, if it is empty.  No mutex is held. *)

RollbackList(t) ==
    /\ pc[t] = "rollback"
    /\ listing' = [listing EXCEPT ![t] = tree \ {Directory}]
    /\ Goto(t, "remove")
    /\ UNCHANGED <<tree, mu, inputs, created>>

RollbackRemove(t) ==
    /\ pc[t] = "remove"
    /\ \E e \in listing[t] :
          /\ tree' = tree \ {e}
          /\ listing' = [listing EXCEPT ![t] = @ \ {e}]
    /\ UNCHANGED <<mu, pc, inputs, created>>

RollbackDirectory(t) ==
    /\ pc[t] = "remove"
    /\ listing[t] = {}
    /\ tree' = IF tree = {Directory} THEN {} ELSE tree
    /\ Return(t)
    /\ UNCHANGED created

-----------------------------------------------------------------------------
(* Issue as far as it touches the PKI directory: Engine.beginBundle makes   *)
(* the issued directory, Store.NextSerial replaces state.json.              *)

Issue(t) ==
    /\ "issuance" \in setting
    /\ Arrive(t, "issue")

IssueLockEngine(t) == Acquire(t, "engine", "issue", "begin")

BeginBundle(t) ==
    /\ pc[t] = "begin"
    /\ tree' = tree \cup {Directory, Issued}
    /\ Goto(t, "serial")
    /\ UNCHANGED <<mu, listing, inputs, created>>

SerialLockStore(t) == Acquire(t, "store", "serial", "read")

ReadState(t) ==
    /\ pc[t] = "read"
    /\ \/ /\ State \in tree
          /\ Goto(t, "nextTemp")
          /\ UNCHANGED <<tree, mu, listing, inputs, created>>
       \/ /\ State \notin tree
          /\ Return(t)
          /\ UNCHANGED <<tree, created>>

NextState(t) ==
    /\ pc[t] = "nextState"
    /\ TempState(t) \in tree
    /\ RenameState(t)
    /\ mu' = [mu EXCEPT !["store"] = Nobody]
    /\ Goto(t, "sign")
    /\ UNCHANGED <<listing, inputs, created>>

\* Certified or, without an authority, refused by the commands.
Sign(t) ==
    /\ pc[t] = "sign"
    /\ Return(t)
    /\ UNCHANGED <<tree, created>>

-----------------------------------------------------------------------------
(* Specification *)

\* The process dies and is started again; temporary files stay behind and are
\* never looked at again, so they are forgotten here.
Crash ==
    /\ "crash" \in setting
    /\ \E t \in Threads : pc[t] # "idle"
    /\ tree' = tree \cap {Directory, State, Authorities, Issued}
    /\ mu' = [l \in Locks |-> Nobody]
    /\ pc' = [t \in Threads |-> "idle"]
    /\ listing' = [t \in Threads |-> {}]
    /\ UNCHANGED <<inputs, created>>

Init ==
    /\ tree = {}
    /\ mu = [l \in Locks |-> Nobody]
    /\ pc = [t \in Threads |-> "idle"]
    /\ listing = [t \in Threads |-> {}]
    /\ calls = 0
    /\ setting \in Settings
    /\ created = 0

Begin(t) == Initialize(t) \/ Issue(t)

Lock(t) ==
    \/ InitLockStore(t) \/ InitLockEngine(t)
    \/ IssueLockEngine(t) \/ SerialLockStore(t)

InitializeStep(t) ==
    \/ AlreadyInitialized(t) \/ CreateDirectory(t) \/ CreateTempState(t)
    \/ DirectoryGone(t) \/ CreateState(t) \/ StateLost(t)
    \/ CreateStateSyncFails(t) \/ InspectAuthorities(t)
    \/ PublishAuthorities(t) \/ AuthoritiesFail(t) \/ AuthoritiesSyncFails(t)
    \/ RollbackList(t) \/ RollbackRemove(t) \/ RollbackDirectory(t)

IssueStep(t) == BeginBundle(t) \/ ReadState(t) \/ NextState(t) \/ Sign(t)

Step(t) == Lock(t) \/ InitializeStep(t) \/ IssueStep(t)

Next ==
    \/ \E t \in Threads : Begin(t) \/ Step(t)
    \/ Crash

Spec == Init /\ [][Next]_vars

\* As in CertLifecycle: handlers are scheduled, their commands are bounded by
\* the crypto timeout, and sync.Mutex does not starve a waiter.
Fairness == \A t \in Threads :
    /\ WF_vars(Step(t))
    /\ SF_vars(Lock(t))

FairSpec == Spec /\ Fairness

-----------------------------------------------------------------------------
(* Properties.  AlreadyInitializedRollsBack, AuthoritiesFailNoRollback and  *)
(* CreateStateKeepsLock are broken variants the properties are tried        *)
(* against; the specification does not use them.                            *)

\* SPEC-web-issuance: the two roots are created once.  After an initialization
\* was answered with 201 the counter and the authorities are there and stay,
\* whatever other initializations, issuances, rollbacks and restarts do, as long
\* as syncing a directory does not fail.
RootsCreatedOnce ==
    "sync" \notin setting =>
        /\ created <= 1
        /\ created = 1 => Initialized

\* SPEC-pki-core, SPEC-web-issuance: an installation that is not initialized
\* can be.  When every request is answered and the status is uninitialized, no
\* counter is left that would turn every later initialization into a conflict.
AlwaysInitializable ==
    (\A t \in Threads : pc[t] = "idle") /\ ~Initialized => State \notin tree

\* The same where only commands fail and nobody asks for a certificate before
\* the installation is initialized: every interleaving of failing, conflicting
\* and succeeding initializations rolls back far enough.
CanBeInitialized == setting \subseteq {"crypto"} => AlwaysInitializable

\* What a handler waits for, when it waits.
WaitsFor(t, lock) ==
    \/ lock = "store" /\ pc[t] \in {"init", "serial"}
    \/ lock = "engine" /\ pc[t] \in {"initEngine", "issue"}

\* Initialize takes the store mutex and then the engine mutex, Issue the store
\* mutex inside the engine mutex, and still they never wait for each other in a
\* circle: one handler in the service does not wait, or for a free mutex.
SomebodyProceeds ==
    (\E t \in Threads : pc[t] # "idle") =>
        \E t \in Threads :
            pc[t] # "idle" /\ \A l \in Locks : WaitsFor(t, l) => mu[l] = Nobody

\* Every request is answered: Initialize takes the store mutex and then the
\* engine mutex, Issue holds the engine mutex while it takes the store mutex,
\* and neither ever waits for the other forever.
RequestsAnswered == \A t \in Threads : pc[t] # "idle" ~> pc[t] = "idle"

\* Handlers that found no counter and may still create or remove something.
Initializing(t) ==
    pc[t] \in {"createTemp", "createState", "initEngine", "inspectCa", "roots",
              "rollback", "remove"}

\* SPEC-pki-core: reinitialization fails and does not alter existing material.
\* Once an installation is initialized and no initialization is under way, none
\* ever gets past its inspection, and counter and authorities stay.
ReinitializationChangesNothing ==
    [][Initialized /\ (\A t \in Threads : ~Initializing(t))
         => Initialized' /\ (\A t \in Threads : ~Initializing(t)')]_vars
=============================================================================
