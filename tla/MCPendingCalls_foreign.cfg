\* A thread that adds without the GIL.
CONSTANTS
  main = main
  t2 = t2
  t3 = t3
  NoThread = NoThread
  Main = main
  Thread <- TwoThreads
  Foreign = {t2}
  NPENDINGCALLS = 3
  MaxCalls = 1
SPECIFICATION FairSpec
PROPERTY EventuallyCalled
CHECK_DEADLOCK FALSE
