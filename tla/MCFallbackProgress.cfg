SPECIFICATION FairSpec
CONSTANTS
    p1 = p1
    p2 = p2
    e1 = e1
    e2 = e2
    NoPlaylist = NoPlaylist
    NoEntry = NoEntry
    NoCopy = NoCopy
    NoState = NoState
    Playlists = {p1, p2}
    Entries = {e1, e2}
    Callbacks <- MCFewCallbacks
    Preinstalled = {NoCopy, 1}
    Copies = {1}
    Expiry <- MCOneExpiry
    Mapped <- MCOneMapped
    Confirm = 1
    MaxAttempts = 1
    MaxClock = 1
    Budget <- MCProgressBudget
PROPERTIES
    HandBackFetchCompletes
    PostsResume
