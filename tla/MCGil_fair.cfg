\* Three CPU-bound threads: nobody ever gives the GIL up unasked.
CONSTANTS
  t1 = t1
  t2 = t2
  t3 = t3
  Thread <- AllThreads
  Main = t1
  NoThread = NoThread
  SwitchModulo = 2
  Blocking = {}
  Finalizes = FALSE
  Spurious = FALSE
SPECIFICATION FairSpec
PROPERTIES ImplementsAbstractGil HolderYields SwitchWaitEnds
