SPECIFICATION FairSpec
CONSTANTS
    p1 = p1
    p2 = p2
    e1 = e1
    e2 = e2
    NoPlaylist = NoPlaylist
    NoEntry = NoEntry
    NoCopy = NoCopy
    NoState = NoState
    Playlists = {p1, p2}
    Entries = {e1, e2}
    Callbacks <- MCCallbacks
    Preinstalled = {1}
    Copies = {1, 2}
    Expiry <- MCExpiry
    Mapped <- MCMapped
    Confirm = 1
    MaxAttempts = 1
    MaxClock = 1
    Budget <- MCSafetyBudget
PROPERTIES
    EntersOnlyWhileLost
