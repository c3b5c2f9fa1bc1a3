CONSTANTS
    n1 = n1
    n2 = n2
    k1 = k1
    NoKey = NoKey
    NoProgram = NoProgram
    NoFacts = NoFacts
    Nodes <- MCNodes
    Keys <- MCKeys
    Programs <- MCPrograms
    MaxClock = 1
    MaxEntries = 2
    Starts <- MCStarts
    TransientAttemptLimit = 3
SPECIFICATION FairSpec
INVARIANTS
    StartedOnce
    AccountIsTrue
    ToldAsItIs
PROPERTY
    ServingEnds
CHECK_DEADLOCK FALSE
