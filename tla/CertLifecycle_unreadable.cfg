\* One handler; any manifest may be unreadable while the inventory is collected.
CONSTANTS
    Threads = {t1}
    Names = {n1, n2}
    Nobody = Nobody
    MaxSerial = 5
    MaxRequests = 4
    Faults = {"read"}
SPECIFICATION Spec
INVARIANTS
    RevokedIsPublished
