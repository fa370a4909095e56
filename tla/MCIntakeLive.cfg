\* Posts and recent edits arrive
SPECIFICATION FairSpec
CONSTANTS
    LastPost = 3
    Text <- TwoTexts
    Route <- OneRoute
    Track <- Tracks
    TrackOf <- OneRouteTrack
    CopyOf <- OneRouteCopy
    Curation <- OneCuration
    Lookback = 2
    Keep = 2
    OldPosts = 0
    Scopes <- AllTracks
    Damageable <- NoDamage
    MaxChanges = 1
    MaxFaults = 1
    None = None
INVARIANTS NothingSkipped
PROPERTIES PostsArrive
