\* Two workers without clients of the futures, or one worker and a thread in
\* result() or wait().  The initializer of one worker may fail; the pool is
\* shut down, left or lost at any time, futures are cancelled.
CONSTANTS
  w1 = w1
  w2 = w2
  f1 = f1
  f2 = f2
  r1 = r1
  v1 = v1
  NoOne = NoOne
  Job <- TwoJobs
  Reader = {r1}
  Waiter = {v1}
  Watched = {f1}
  Worker <- TwoWorkers
  BadStart = {w2}
  MaxShutdowns = 1
  CancelFutures = TRUE
  Cancels = {f1}
  Ends = {"shutdown", "exit", "collected"}
SPECIFICATION MCSpec
INVARIANTS OnePlace GrowsWhenBusy ClientsAnswered WaitCorrect
PROPERTIES DoneIsFinal JobsEnd WorkersEnd
CHECK_DEADLOCK FALSE
