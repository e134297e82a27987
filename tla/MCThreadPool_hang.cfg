\* An initializer fails while shutdown(wait=True) waits.
CONSTANTS
  w1 = w1
  w2 = w2
  f1 = f1
  f2 = f2
  r1 = r1
  v1 = v1
  NoOne = NoOne
  Job <- TwoJobs
  Reader = {}
  Waiter = {}
  Watched = {}
  Worker <- TwoWorkers
  BadStart = {w2}
  MaxShutdowns = 1
  CancelFutures = FALSE
  Cancels = {}
  Ends = {"shutdown"}
SPECIFICATION FairSpec
PROPERTY ShutdownReturns
CHECK_DEADLOCK FALSE
