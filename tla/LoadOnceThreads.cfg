\* Three threads: what survives every interleaving.
CONSTANTS
  t1 = t1
  t2 = t2
  t3 = t3
  None = None
  Threads <- ThreeThreads
  MaxObjects = 3
SPECIFICATION Spec
\* The number of calls is bounded.
CHECK_DEADLOCK FALSE
INVARIANTS
  ExplicitStaysPrivate
  SuccessIsRemembered
