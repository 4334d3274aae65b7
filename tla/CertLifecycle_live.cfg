\* Commands may fail; files and the process do not.  No symmetry: it is not
\* sound for liveness.
CONSTANTS
    Threads = {t1, t2}
    Names = {n1, n2}
    Nobody = Nobody
    MaxSerial = 5
    MaxRequests = 4
    Faults = {"crypto"}
SPECIFICATION FairSpec
INVARIANTS
    QuiescentAgreement
    TakenNamesAreListed
    SomebodyProceeds
PROPERTIES
    RequestsComplete
    RevocationIsFinal
    CrlNumbersIncrease
