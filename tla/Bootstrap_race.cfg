\* An issuance between a failed initialization and the end of its rollback.
SPECIFICATION Spec
CONSTANTS
    Threads = {t1, t2, t3}
    Nobody = Nobody
    MaxCalls = 3
    Settings = {{"issuance", "crypto"}}
INVARIANTS
    AlwaysInitializable
CHECK_DEADLOCK FALSE
