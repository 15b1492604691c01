SPECIFICATION Spec
CONSTANTS
    MaxRuns = 2
    MaxOther = 1
    MaxFailed = 1
INVARIANTS
    EntriesDeployed
    WiredToDeployed
    KeysKept
    UpgradesForward
PROPERTY RunsEnd
CHECK_DEADLOCK FALSE
