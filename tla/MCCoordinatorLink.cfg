SPECIFICATION FairSpec
CONSTANTS
    NoUrl = NoUrl
    Urls = {u1}
    Hashes = {1, 2}
    NoText = NoText
    Texts = {t1}
    MaxAttempts = 2
    Playlists = {p1}
    Budget <- MCBudget
INVARIANTS
    NoticesAreTrue
    RepublishServed
PROPERTIES
    DefinitionComesFirst
    RequestedSweepCompletes
    EveryDefinitionIsOffered
    FollowsTheConfig
CHECK_DEADLOCK FALSE
