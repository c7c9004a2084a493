SPECIFICATION Spec
CONSTANTS
  linux = linux
  android = android
  Tags <- AllTags
  Mobile <- Phones
  Worlds <- SomeWorlds
  MaxRuns = 1
INVARIANT EveryVariantShipped
CHECK_DEADLOCK FALSE
