SPECIFICATION Spec
CONSTANTS
  None = None
  Parts = {"engine", "setup", "find", "fetch", "progress"}
  ConcurrentSetups = FALSE
  Pullers = {p1}
  MaxVersion = 2
  MaxPulls = 3
INVARIANT
  FindSound
PROPERTIES
  PullSound PullTerminates SummarySound RequestsAnswered ProgressShown
