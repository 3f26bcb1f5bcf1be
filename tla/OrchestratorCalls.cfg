\* Every call ends, with repairs and two backends of which one has no structured output.
SPECIFICATION FairSpec
CONSTANTS
    None = None
    Backends = {b1, b2}
    Procs = {p1}
    Structured = {b1}
    Resumable = {}
    Sessions = {}
    Workflow = TRUE
    Collections <- PlainCollections
    Analyses <- PlainAnalyses
    Outputs <- CryptoOutputs
    MaxRepairs = 1
    MaxIterations = 2
    MaxLaunches = 2
INVARIANTS
    AttemptsBounded
    EndingsExplained
PROPERTIES
    CallsEnd
\* The user may stop resuming the run.
CHECK_DEADLOCK FALSE
