\* A worker dies; futures may be cancelled.
CONSTANTS
  f1 = f1
  f2 = f2
  f3 = f3
  p1 = p1
  p2 = p2
  Job = {f1, f2, f3}
  Orders <- Programs
  Reader = {}
  Waiter = {}
  Watched = {}
  Process = {p1, p2}
  Unpicklable = {f2}
  Mishaps = {{"crash", "cancel"}}
SPECIFICATION MCSpec
PROPERTY FuturesAnswered
CHECK_DEADLOCK FALSE
