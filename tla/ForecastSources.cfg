\* Every kind of request, with a cutoff before and after the clock; stops, resumes and refreshes.
SPECIFICATION Spec
CONSTANTS
    Procs = {p1}
    Requests <- MixedRequests
    Scale = 2
    Probabilities = {1}
    HorizonDays = 1
    LastNumbered = 9
    None = None
    MaxTime = 2
    MaxLaunches = 3
INVARIANTS
    NoLookAhead
\* The user may stop running commands.
CHECK_DEADLOCK FALSE
