SPECIFICATION Spec
CONSTANTS
    t1 = t1
    t2 = t2
    t3 = t3
    Scalars <- MCScalars
    Lower <- MCLower
    Recipes <- MCRecipes
    Variants <- MCVariants
    Environments <- MCEnvironments
    Captures <- MCCaptures
    Tasks <- MCTasks
    WorkerOf <- MCWorkerOf
    Serves <- MCServes
    Expected = 2
    Replaced <- MCReplaced
    Identity <- MCIdentity
    Cuts <- MCCuts
    LateAt <- MCLateAt
    Configured = {1}
    LateJobs = {2}
    MaxJobs = 2
CHECK_DEADLOCK FALSE
INVARIANTS
    LockIsOfThisJob
    RecipeSurvives
    IntegrityMeansWhole
    PointerMeansUploaded
    ComparisonsAreExact
PROPERTY
    PostprocessEnds
