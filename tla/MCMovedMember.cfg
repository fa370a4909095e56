\* A member of a frozen volume moves to another series
SPECIFICATION Spec
CONSTANTS
    Release <- MCRelease
    Source <- MCSource
    Series <- MCSeries
    Book <- MCBook
    Text <- MCText
    SourceOf <- MCSourceOf
    Configs <- Moves
    LegacyReleases <- NoRelease
    Scopes <- FullScope
    Filters <- FullFilter
    MaxChanges = 1
    MaxFaults = 0
    None = None
INVARIANTS FrozenMembersNotRebundled
