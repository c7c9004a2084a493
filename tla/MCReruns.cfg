SPECIFICATION RerunsSpec
CONSTANTS
  MaxTries = 3
  Configs <- AnyConfig
  Torn = Torn
  MaxBuilds = 3
  LibCount = 3
  Own <- WinPR
  Graphs <- AllGraphs
  Stagings <- AnyPart
  MaxRewrites = 2
  linux = linux
  android = android
  Tags <- AllTags
  Mobile <- Phones
  Worlds <- SomeWorlds
  MaxRuns = 2
INVARIANTS
  RerunCompletes
  RetryCompletes
  Relocatable
  BuiltIsFresh
  NoBrowserBundled
  RunUniquifies
  NothingLeftOver
  BestVariantShipped
  LostToArchivesOnly
PROPERTIES
  StaysComplete
  ConvertedOnce
CHECK_DEADLOCK FALSE
