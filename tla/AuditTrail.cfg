\* Short writes and clients that hang up; everything but a torn record; a log
\* that works while clients hang up and answers come too late.
SPECIFICATION FairSpec
CONSTANTS
    Callers = {r1, r2}
    Nobody = Nobody
    Settings = {{"unavailable", "short", "sync", "hangup"}, {"unavailable", "full", "sync", "crash", "hangup", "late"}, {"short", "hangup", "late"}}
INVARIANTS
    RecordsParse
    AcknowledgedIsRecorded
    CarriedOutIsRecorded
    NoOrphans
    SomebodyProceeds
PROPERTIES
    RequestsAnswered
CHECK_DEADLOCK FALSE
