\* Regroupings of a small library under restricted runs, corrections and failures
SPECIFICATION Spec
CONSTANTS
    Release <- MCRelease
    Source <- MCSource
    Series <- MCSeries
    Book <- MCBook
    Text <- MCText
    SourceOf <- MCSourceOf
    Configs <- Regroupings
    LegacyReleases <- OldFirst
    Scopes <- AllScopes
    Filters <- AllFilters
    MaxChanges = 1
    MaxFaults = 1
    None = None
INVARIANTS VolumesSound RebuildSettles
PROPERTIES NormalRunsFreeze
