SPECIFICATION FairSpec
CONSTANTS
  l1 = l1
  LibThreads = {l1}
  AppThreads = {a1}
  Closers = {c1}
  CallbackCloses <- ClosesFromSignal
  Paths = {"pollfd", "signal"}
  MaxNotes = 1
  None = None
INVARIANTS SleepersWoken NoSleepOnClosedFd
PROPERTIES CloseReturns CompletionReturns
CHECK_DEADLOCK FALSE
