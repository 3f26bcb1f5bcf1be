\* A crash between the last checkpoint and the completed state.
SPECIFICATION Spec
CONSTANTS
    None = None
    Backends = {b1}
    Procs = {p1}
    Structured = {b1}
    Resumable = {}
    Sessions = {}
    Workflow = TRUE
    Collections <- PlainCollections
    Analyses <- PlainAnalyses
    Outputs <- CryptoOutputs
    MaxRepairs = 0
    MaxIterations = 2
    MaxLaunches = 2
INVARIANTS
    ReturnedSettled
\* The user may stop resuming the run.
CHECK_DEADLOCK FALSE
