\* A reader watches the files of a forecast, on a clock that goes past the horizon.
SPECIFICATION Spec
CONSTANTS
    Procs = {p1, p2}
    Requests <- VintageRequest
    Scale = 2
    Probabilities = {1, 2}
    HorizonDays = 1
    LastNumbered = 2
    None = None
    MaxTime = 3
    MaxLaunches = 3
SYMMETRY Symmetry
PROPERTIES
    ImplementsLedger
\* The user may stop running commands.
CHECK_DEADLOCK FALSE
