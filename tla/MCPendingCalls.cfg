\* A thread with the GIL, one without it, a ring for two calls.
CONSTANTS
  main = main
  t2 = t2
  t3 = t3
  NoThread = NoThread
  Main = main
  Thread <- ThreeThreads
  Foreign = {t3}
  NPENDINGCALLS = 3
  MaxCalls = 3
SPECIFICATION FairSpec
INVARIANTS InOrder NoCallForgotten MainSeesCalls
PROPERTY CalledWithGil
