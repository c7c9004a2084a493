\* Four files, every dependency graph on them, and every naming of a symlink.
CONSTANTS
  alias = alias
  f1 = f1
  s1 = s1
  w1 = w1
  absent = absent
  NoName = NoName
  Files <- MCFiles
  Names <- MCNames
  Base  <- MCBase
  Place <- MCPlace
  Kind  <- MCKind
  Infos <- MCInfos
SPECIFICATION Spec
INVARIANTS
  TypeOK
  DependenciesFirst
  EveryFileOnce
  RankUnlessNeeded
  StackIsChain
PROPERTIES
  ImplementsTopoOrder
  Terminates
\* The function returns: the last state has no successor.
CHECK_DEADLOCK FALSE
