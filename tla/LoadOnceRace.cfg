\* Two threads race: the docstring does not hold.
CONSTANTS
  t1 = t1
  t2 = t2
  t3 = t3
  None = None
  Threads <- TwoThreads
  MaxObjects = 3
SPECIFICATION Spec
INVARIANTS
  LoadedOnce
\* The number of calls is bounded.
CHECK_DEADLOCK FALSE
