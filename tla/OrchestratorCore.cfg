\* One process at a time, a crash between any two writes, three launches.
SPECIFICATION Spec
CONSTANTS
    None = None
    Backends = {b1}
    Procs = {p1}
    Structured = {b1}
    Resumable = {}
    Sessions = {}
    Workflow = TRUE
    Collections <- MCCollections
    Analyses <- MCAnalyses
    Outputs <- CryptoOutputs
    MaxRepairs = 0
    MaxIterations = 2
    MaxLaunches = 3
INVARIANTS
    TypeOK
    CompletedVerified
    StateTracksStage
    ResearchBounded
    VerifiedSupported
PROPERTIES
    CheckpointsAppended
    ImplementsLifecycle
\* The user may stop resuming the run.
CHECK_DEADLOCK FALSE
