\* Saved plans complete and the library arrives, whatever fails a few times
SPECIFICATION FairSpec
CONSTANTS
    Release <- MCRelease
    Artifact <- MCArtifact
    Volume <- MCVolume
    Path <- MCPath
    Source <- MCSource
    Covers <- MCCovers
    PathOf <- MCPathOf
    SourceOf <- MCSourceOf
    Libraries <- Corrections
    Delivered0 <- FromSingles
    OlderPlans <- NoLibrary
    Scopes <- AllSources
    Editable <- NoPath
    HasLifecycle = TRUE
    MaxFaults = 2
    Absent = Absent
    Foreign = Foreign
    Nothing = Nothing
PROPERTIES PendingDeliveryCompletes LibraryDelivered
