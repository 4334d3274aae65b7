\* Initializations alone with failing commands; with issuances, failing
\* commands and crashes; with every failure.
SPECIFICATION FairSpec
CONSTANTS
    Threads = {t1, t2, t3}
    Nobody = Nobody
    MaxCalls = 4
    Settings = {{"crypto"}, {"issuance", "crypto", "crash"}, {"issuance", "crypto", "sync", "crash"}}
INVARIANTS
    RootsCreatedOnce
    CanBeInitialized
    SomebodyProceeds
PROPERTIES
    ReinitializationChangesNothing
    RequestsAnswered
CHECK_DEADLOCK FALSE
