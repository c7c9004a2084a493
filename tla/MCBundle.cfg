SPECIFICATION Spec
CONSTANTS
  core = core
  codec = codec
  util = util
  ssl = ssl
  tool = tool
  Names <- AllNames
  SystemDlls <- Runtime
  Worlds <- SomeWorlds
INVARIANTS
  TypeOK
  PackageClosed
PROPERTIES
  ImplementsClosure
  WalksEnd
