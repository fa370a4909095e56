\* Regroupings that overwrite an old volume, runs restricted to one source
SPECIFICATION Spec
CONSTANTS
    Release <- MCRelease
    Artifact <- MCArtifact
    Volume <- MCVolume
    Path <- MCPath
    Source <- MCSource
    Covers <- MCCovers
    PathOf <- MCPathOf
    SourceOf <- MCSourceOf
    Libraries <- Regroups
    Delivered0 <- FromBundled
    OlderPlans <- Cycles
    Scopes <- EachSource
    Editable <- NoPath
    HasLifecycle = TRUE
    MaxFaults = 2
    Absent = Absent
    Foreign = Foreign
    Nothing = Nothing
INVARIANTS LedgerInPlan CatalogBelievable
PROPERTIES ReleasesStayReadable ScopeRespected ImplementsReplacement
