\* Every failure but an unreadable manifest, at every step.
CONSTANTS
    Threads = {t1, t2}
    Names = {n1, n2}
    Nobody = Nobody
    MaxSerial = 5
    MaxRequests = 5
    Faults = {"crypto", "disk", "crash"}
SPECIFICATION Spec
SYMMETRY Symmetry
INVARIANTS
    TypeOK
    SerialsUnique
    RevokedIsPublished
    AckedIssueKnown
    PairsTogether
    ManifestDescribesBundle
PROPERTIES
    KeepsPromise
