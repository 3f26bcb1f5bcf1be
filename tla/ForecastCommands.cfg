\* Two processes monitor, refresh and resolve one forecast until it is due.
SPECIFICATION Spec
CONSTANTS
    Procs = {p1, p2}
    Requests <- VintageRequest
    Scale = 2
    Probabilities = {1, 2}
    HorizonDays = 1
    LastNumbered = 2
    None = None
    MaxTime = 1
    MaxLaunches = 4
SYMMETRY Symmetry
INVARIANTS
    TypeOK
    VersionsOrdered
    OutcomesJustified
    ScoresRecompute
    ReportedPersisted
\* The user may stop running commands.
CHECK_DEADLOCK FALSE
