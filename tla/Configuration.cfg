SPECIFICATION Spec
CONSTANTS
    Files <- MCFiles
    Clusters <- MCClusters
    Selectors <- MCSelectors
    Required <- MCRequired
    OverrideOrder <- MCOverrideOrder
    ZipOrder <- MCZipOrder
    Digit <- MCDigit
    NoCluster <- MCNoCluster
    DefaultNginx <- MCDefaultNginx
INVARIANTS
    MergeByPath
    ZipColumns
    SelectorsAgree
    SubmittedAsExpanded
    SweepCoversGrid
