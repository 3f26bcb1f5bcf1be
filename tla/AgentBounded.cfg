\* Both adapters, every agent, one cancellation.
SPECIFICATION FairSpec
CONSTANTS
    None = None
    Abilities = {"structured_output"}
    Instructions <- ShortAndLong
    Window = 1
    PipeSize = 1
    MaxCancels = 1
PROPERTIES
  CallBounded
\* A call that has ended stays so.
CHECK_DEADLOCK FALSE
