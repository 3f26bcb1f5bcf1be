\* Both adapters, every agent, two cancellations.
SPECIFICATION FairSpec
CONSTANTS
    None = None
    Abilities = {"structured_output"}
    Instructions <- ShortAndLong
    Window = 1
    PipeSize = 1
    MaxCancels = 2
INVARIANTS
    TypeOK
    ReturnedMeansQuiet
    CompletedEarned
    OutlivesOnly
PROPERTIES
    CallEndsUnless
    ImplementsCall
\* A call that has ended stays so.
CHECK_DEADLOCK FALSE
