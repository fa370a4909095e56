\* A rebuild of one source takes over the range of another
SPECIFICATION Spec
CONSTANTS
    Release <- MCRelease
    Source <- MCSource
    Series <- MCSeries
    Book <- MCBook
    Text <- MCText
    SourceOf <- MCSourceOf
    Configs <- Renumberings
    LegacyReleases <- NoRelease
    Scopes <- AllScopes
    Filters <- FullFilter
    MaxChanges = 1
    MaxFaults = 0
    None = None
PROPERTIES RebuildStaysInScope
