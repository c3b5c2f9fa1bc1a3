SPECIFICATION FairSpec
CONSTANTS
    None = None
    NoCopy = NoCopy
    Serials = {1}
    Budget <- MCBudget
    Starts <- MCStarts
INVARIANTS
    PairedHasCredential
PROPERTIES
    KeepsThePromise
    WaitEnds
    EndsUpEnrolled
    OwedIsSettled
CHECK_DEADLOCK FALSE
