SPECIFICATION FairSpec
CONSTANTS
    r1 = r1
    r2 = r2
    r3 = r3
    f1 = f1
    f2 = f2
    Rank <- MCRank
    Frontend <- MCFrontend
    Stacks <- MCStacks
    Occupied = {{}, {"nats"}}
    MaxPolls = 2
    MaxFaults = 1
INVARIANTS
    ReadyMeansEveryWorker
    WorkersHaveInfra
    EtcdAdvertisesReachable
PROPERTIES
    ServersAskedToStop
    InfraDeathStopsRun
