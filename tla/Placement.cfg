SPECIFICATION Spec
CONSTANTS
    None = None
    GpuCounts = {2, 4}
    NodeCounts = {None, 0, 1, 2, 3}
    WorkerCounts = {None, 1, 2, 3, 4}
    ExplicitCounts = {None, 1, 3}
    DataParallel = {{}, {"prefill", "decode", "agg"}}
    Resources <- MCResources
    Layouts <- MCLayouts
INVARIANTS
    SharedGpuOnlyOnLastNode
    EvenSplitPlaced
    EveryWorkerAccountedFor
    ListenersDistinct
    EveryPathArrives
    TelemetryIsFaithful
