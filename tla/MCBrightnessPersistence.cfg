SPECIFICATION Spec
CONSTANTS
    Full = 4
    Earliest = 2
    Absent = Absent
    Invalid = Invalid
    NoState = NoState
    SafeCeiling = 2
    Targets = {0, 4}
    Durations = {0, 2}
    PeerStates <- MCPeerStates
    MaxGateRevision = 2
    Ahead = 1
    MaxClock = 3
    Windows <- MCWindows
    GateRevisions = {0, 2}
    Budgets <- MCBudgets
INVARIANTS
    SkippedWriteIsOnDisk
    PublishedChangeIsWritten
    GateNeverForgotten
PROPERTIES
    RestartNotBrighter
CHECK_DEADLOCK FALSE
