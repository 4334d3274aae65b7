\* The destination goes away between Ready and Append.
SPECIFICATION Spec
CONSTANTS
    Callers = {r1, r2}
    Nobody = Nobody
    Settings = {{"unavailable"}}
INVARIANTS
    FailsClosed
CHECK_DEADLOCK FALSE
