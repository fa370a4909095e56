\* A rebuild with one unreadable payload
SPECIFICATION Spec
CONSTANTS
    LastPost = 2
    Text <- OneText
    Route <- OneRoute
    Track <- Tracks
    TrackOf <- OneRouteTrack
    CopyOf <- OneRouteCopy
    Curation <- OneCuration
    Lookback = 1
    Keep = 1
    OldPosts = 0
    Scopes <- AllTracks
    Damageable <- AnyDamage
    MaxChanges = 1
    MaxFaults = 1
    None = None
PROPERTIES IndependentWorkContinues
