\* A power loss after an acknowledged revocation.
SPECIFICATION Spec
CONSTANTS
    Names = {n1, n2}
    Missing = Missing
    Damaged = Damaged
    MaxSerial = 4
    MaxLosses = 1
INVARIANTS
    RevocationSurvives
CHECK_DEADLOCK FALSE
