\* Three threads, two of which may block; Main may finalize the interpreter
\* and condition variables may wake up spuriously.
CONSTANTS
  t1 = t1
  t2 = t2
  t3 = t3
  Thread <- AllThreads
  Main = t1
  NoThread = NoThread
  SwitchModulo = 2
  Blocking = {t1, t2}
  Finalizes = TRUE
  Spurious = TRUE
SPECIFICATION Spec
INVARIANTS OneHolder OneSwitchWaiter SwitchHasTaker OnlyFinalizerRuns
