\* Two processes on one run.
SPECIFICATION Spec
CONSTANTS
    None = None
    Backends = {b1}
    Procs = {p1, p2}
    Structured = {b1}
    Resumable = {}
    Sessions = {}
    Workflow = TRUE
    Collections <- OneCollection
    Analyses <- OneAnalysis
    Outputs <- CryptoOutputs
    MaxRepairs = 0
    MaxIterations = 2
    MaxLaunches = 2
INVARIANTS
    CheckpointsSaved
    CompletedSaved
    LoopProceeds
\* The user may stop resuming the run.
CHECK_DEADLOCK FALSE
