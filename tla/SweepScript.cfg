SPECIFICATION FairSpec
CONSTANTS
    infra = infra
    worker1 = worker1
    worker2 = worker2
    frontend = frontend
    exporter = exporter
    bench = bench
    download = download
    nInfra = nInfra
    nWorker1 = nWorker1
    nWorker2 = nWorker2
    nFrontend = nFrontend
    nExporter = nExporter
    nOther = nOther
    NoProc = NoProc
    Bench = bench
    Download = download
    Thread <- MCThread
    Proc <- MCProc
    Name <- MCName
    Critical <- MCProc
    NameOf <- DistinctNames
    Infra = {infra}
    Workers = {worker1}
    Frontends = {}
    Telemetry = {}
    Manual = FALSE
    PreDownload = TRUE
    Uploads = FALSE
    MaxPolls = 1
    MaxSignals = 0
    LateSignals = FALSE
INVARIANTS
    SuccessMeansBenchmarkPassed
    BenchmarkNotAbandoned
PROPERTIES
    FailureBeforeStopIsGenuine
    LifecycleSpec
    FailureEndsRun
