SPECIFICATION Spec
CONSTANTS
    Slots = {h1, h2}
    Macros = {m1}
    NoAttempt = NoAttempt
    MaxBuffered = 2
    MaxAge = 1
    Budget <- MCOverlapBudget
INVARIANTS
    FlushedWasReported
SYMMETRY Symmetry
CHECK_DEADLOCK FALSE
