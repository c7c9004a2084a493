SPECIFICATION Spec
CONSTANTS
  m1 = m1
  m2 = m2
  m3 = m3
  t1 = t1
  t2 = t2
  t3 = t3
  c1 = c1
  c2 = c2
  c3 = c3
  c4 = c4
  Macro <- SomeMacros
  Typedef <- SomeTypedefs
  Class <- SomeClasses
  Sorted <- SomeSorted
  Worlds <- SomeWorlds
  Passes <- SomePasses
INVARIANTS
  ImportsCleanly
  SizesKnown
  GivenUpForCause
PROPERTIES
  Finishes
CHECK_DEADLOCK FALSE
