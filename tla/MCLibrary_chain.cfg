\* Three modules that do not import each other in a circle.
CONSTANTS
  p1 = p1
  p2 = p2
  c1 = c1
  c2 = c2
  c3 = c3
  j1 = j1
  j2 = j2
  s1 = s1
  s2 = s2
  s3 = s3
  s4 = s4
  a = a
  b = b
  m0 = m0
  k = k
  A = A
  B = B
  C = C
  t1 = t1
  t2 = t2
  t3 = t3
  x1 = x1
  x2 = x2
  x3 = x3
  x4 = x4
  Thread <- Threads
  Conditions <- AllConditions
  Producer = {p1, p2}
  Consumer = {c1, c2, c3}
  Joiner = {j1, j2}
  Client = {s1, s2, s3, s4}
  Timed = {p1, c1, s1, s2}
  maxsize = 1
  MaxItems = 3
  MaxValue = 2
  parties = 3
  Child = {a, b}
  Parent <- ParentOf
  Daemon = {}
  Main = m0
  Caller = {m0, k}
  Interrupts = TRUE
  Importer = {t1, t2, t3}
  Module = {A, B, C}
  Imports <- Chain
  Failing = {}
  Task = {x1, x2, x3, x4}
  Limit = 2
  MaxCancels <- CancelsOf
SPECIFICATION ImportSpec
INVARIANT NoFalseDeadlock
CHECK_DEADLOCK FALSE
