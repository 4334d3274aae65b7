\* Backups, restores, failures and crashes, with the service running in between.
SPECIFICATION Spec
CONSTANTS
    MaxRuns = 4
    MaxFaults = 2
    MaxVersion = 2
    MaxBackupSize = 3
    Overhead = 1
    Sizes = {2, 3, 4}
INVARIANTS
    StateNeverLost
    FailedRestoreRollsBack
    RestoreComplete
    BackupSurvives
    BackupsAreAccepted
    CounterNotRewound
CHECK_DEADLOCK FALSE
