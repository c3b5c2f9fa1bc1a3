SPECIFICATION Spec
CONSTANTS
    Slots = {h1, h2}
    Macros = {m1}
    NoAttempt = NoAttempt
    MaxBuffered = 1
    MaxAge = 0
    Budget <- MCBudget
INVARIANTS
    FailuresAreAccounted
    OkIsConfirmed
    CacheFollowsRuns
SYMMETRY Symmetry
CHECK_DEADLOCK FALSE
