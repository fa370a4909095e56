\* Two chapters trade their file names
SPECIFICATION Spec
CONSTANTS
    Release <- MCRelease
    Artifact <- MCArtifact
    Volume <- MCVolume
    Path <- MCPath
    Source <- MCSource
    Covers <- MCCovers
    PathOf <- MCPathOf
    SourceOf <- MCSourceOf
    Libraries <- Swap
    Delivered0 <- FromSingles
    OlderPlans <- NoLibrary
    Scopes <- AllSources
    Editable <- NoPath
    HasLifecycle = FALSE
    MaxFaults = 1
    Absent = Absent
    Foreign = Foreign
    Nothing = Nothing
INVARIANTS PublishedStaysReadable
