\* C code calls PyErr_CheckSignals() and a Python handler raises.
CONSTANTS
  NSIG = 3
  MaxArrivals = 2
  MaxFrames = 4
  Elsewhere = FALSE
  Direct = TRUE
  Recomputes = FALSE
SPECIFICATION Spec
INVARIANT AllRescheduled
CHECK_DEADLOCK FALSE
