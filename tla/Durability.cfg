\* Two bundles, three serials, a power loss, and failures and deaths at any step.
SPECIFICATION Spec
CONSTANTS
    Names = {n1, n2}
    Missing = Missing
    Damaged = Damaged
    MaxSerial = 4
    MaxLosses = 1
INVARIANTS
    SerialsSurvive
    NamesSurvive
    RefreshHeals
CHECK_DEADLOCK FALSE
