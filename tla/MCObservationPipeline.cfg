SPECIFICATION FairSpec
CONSTANTS
    Absent = Absent
    Invalid = Invalid
    NoEntry = NoEntry
    e1 = e1
    e2 = e2
    Entries = {e1, e2}
    Callbacks <- MCCallbacks
    Capacity = 2
    MaxOffers = 3
    MaxCrashes = 1
    MaxFailures = 1
    MaxCorruptions = 1
INVARIANTS
    GapEvidenceConserved
    CleanStopSurvivesOneCorruption
    NumberBeingDeliveredIsFresh
PROPERTIES
    NoRunEndSwallowed
    EveryCallbackLeavesTheQueue
    StopCompletes
CHECK_DEADLOCK FALSE
