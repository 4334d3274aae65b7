\* A crash between the CRL and the manifest of a revocation.
CONSTANTS
    Threads = {t1, t2}
    Names = {n1, n2}
    Nobody = Nobody
    MaxSerial = 5
    MaxRequests = 4
    Faults = {"crash"}
SPECIFICATION Spec
PROPERTIES
    RevocationIsFinal
