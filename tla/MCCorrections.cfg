\* Corrections, bundling and a retitled volume, with a meddling user
SPECIFICATION Spec
CONSTANTS
    Release <- MCRelease
    Artifact <- MCArtifact
    Volume <- MCVolume
    Path <- MCPath
    Source <- MCSource
    Covers <- MCCovers
    PathOf <- MCPathOf
    SourceOf <- MCSourceOf
    Libraries <- Corrections
    Delivered0 <- FromSingles
    OlderPlans <- NoLibrary
    Scopes <- AllSources
    Editable <- SomePaths
    HasLifecycle = FALSE
    MaxFaults = 1
    Absent = Absent
    Foreign = Foreign
    Nothing = Nothing

PROPERTIES OnlyOwnedBytesGo SuccessMeansDelivered
