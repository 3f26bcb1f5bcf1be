\* Two calls and one workspace command on one aggregate of any kind.
SPECIFICATION WorkspaceSpec
CONSTANTS
  None = None
  Procs = {p1, p2}
  MaxVersion = 2
  Marks = {0, 1}
  Old <- OldContents
  MaxOld = 1
  MaxCalls = 2
  Syncs = TRUE
  MaxActs = 2
  Shadowed <- Open
INVARIANTS TypeOK OneWriter FilesClosed ExportFaithful MigrationComplete IndexesAgree
PROPERTIES ImplementsRepository
SYMMETRY Alike
CHECK_DEADLOCK FALSE
