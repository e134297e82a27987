CONSTANTS
  f1 = f1
  f2 = f2
  f3 = f3
  p1 = p1
  p2 = p2
  Job = {f1, f2, f3}
  Orders <- Programs
  Reader = {}
  Waiter = {}
  Watched = {}
  Process = {p1, p2}
  Unpicklable = {f2}
  Mishaps = {{"crash", "unpickle"}, {"cancel", "drain"}, {"pickle", "drain"},
             {"crash", "cancel", "pickle"}}
SPECIFICATION MCSpec
INVARIANTS CallsAccounted NothingLeft
PROPERTIES FuturesEnd PoolShutdownEnds
CHECK_DEADLOCK FALSE
