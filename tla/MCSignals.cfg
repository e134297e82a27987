\* Two signals, three deliveries to any thread; nested Python handlers, C code
\* that calls PyErr_CheckSignals(); the main thread releases the GIL and takes
\* it again now and then.
CONSTANTS
  NSIG = 3
  MaxArrivals = 3
  MaxFrames = 5
  Elsewhere = TRUE
  Direct = TRUE
  Recomputes = TRUE
SPECIFICATION FairSpec
INVARIANTS NoTripForgotten NoSignalForgotten Rescheduled
PROPERTY EventuallyHandled
CHECK_DEADLOCK FALSE
