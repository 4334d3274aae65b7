\* One handler whose commands may fail.
CONSTANTS
    Threads = {t1}
    Names = {n1, n2}
    Nobody = Nobody
    MaxSerial = 5
    MaxRequests = 4
    Faults = {"crypto"}
SPECIFICATION Spec
PROPERTIES
    FailedIssueLeavesNothing
