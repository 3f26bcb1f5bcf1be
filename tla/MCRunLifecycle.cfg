\* Up to 17 stages: a plan, five rounds and a synthesis.
SPECIFICATION BoundedSpec
CONSTANTS
    None = None
    Backends = {}
    MaxStages = 17
INVARIANTS
    CompletedMeans
    SynthesisEarned
\* A completed run stays as it is.
CHECK_DEADLOCK FALSE
