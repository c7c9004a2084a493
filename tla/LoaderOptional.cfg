CONSTANTS
  c1 = c1
  f0 = f0
  f1 = f1
  r1 = r1
  s1 = s1
  w1 = w1
  wname = wname
  absent = absent
  NoName = NoName
  NoFile = NoFile
  Files <- MCFiles
  Names <- MCNames
  Base  <- MCBase
  Place <- MCPlace
  Kind  <- MCKind
  Real  <- MCReal
  Libraries  <- MCLibraries
  Optional   <- MCOptional
  Functions  <- MCFunctions
  Prototypes <- MCPrototypes
  Worlds     <- MCWorlds
  Infos      <- MCInfos
SPECIFICATION LoaderSpec
INVARIANT OptionalNotRequired
CHECK_DEADLOCK FALSE
