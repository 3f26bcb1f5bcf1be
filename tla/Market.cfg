\* Two commands: a run of either workflow, its resumption, checks of sources.
SPECIFICATION Spec
CONSTANTS
  None = None
  Providers <- Three
  Checkers = {c1, c2}
  Targets <- OneOrAll
  FailureKinds = {"quota_exceeded"}
  Registries <- SomeRegistries
  Series <- SomeSeries
  Requests <- SomeRequests
  StaleAfter = 2
  MaxClock = 1
  MaxCommands = 2
INVARIANTS CrossChecksIndependent FallbackSpent CryptoCutoffSound CapsKept ChecksNewest
SYMMETRY Alike
CHECK_DEADLOCK FALSE
