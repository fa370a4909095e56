\* A corrected volume that keeps its path, interrupted
SPECIFICATION FairSpec
CONSTANTS
    Release <- MCRelease
    Artifact <- MCArtifact
    Volume <- MCVolume
    Path <- MCPath
    Source <- MCSource
    Covers <- MCCovers
    PathOf <- MCPathOf
    SourceOf <- MCSourceOf
    Libraries <- InPlace12
    Delivered0 <- FromVolume
    OlderPlans <- NoLibrary
    Scopes <- AllSources
    Editable <- NoPath
    HasLifecycle = FALSE
    MaxFaults = 1
    Absent = Absent
    Foreign = Foreign
    Nothing = Nothing
PROPERTIES PendingDeliveryCompletes
