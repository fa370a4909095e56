\* A crash while retained inputs are rewritten in place
SPECIFICATION Spec
CONSTANTS
    LastPost = 2
    Text <- OneText
    Route <- AllRoutes
    Track <- Tracks
    TrackOf <- AllRoutesTrack
    CopyOf <- AllRoutesCopy
    Curation <- OneCuration
    Lookback = 1
    Keep = 1
    OldPosts = 0
    Scopes <- AllTracks
    Damageable <- NoDamage
    MaxChanges = 1
    MaxFaults = 1
    None = None
INVARIANTS RetainedInputsIntact
