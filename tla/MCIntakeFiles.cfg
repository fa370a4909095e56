\* Catalog and files of a post that an older version stored, with damage and
\* configuration changes
SPECIFICATION Spec
CONSTANTS
    LastPost = 1
    Text <- TwoTexts
    Route <- AllRoutes
    Track <- Tracks
    TrackOf <- AllRoutesTrack
    CopyOf <- AllRoutesCopy
    Curation <- TwoCurations
    Lookback = 1
    Keep = 1
    OldPosts = 1
    Scopes <- EachTrack
    Damageable <- AnyDamage
    MaxChanges = 2
    MaxFaults = 2
    None = None
INVARIANTS ArtMatchesRelease CataloguedReadable RepeatIsQuiet
PROPERTIES OutputKept
