SPECIFICATION Spec
CONSTANTS
  Table <- MCTable
  CommandLines <- MCCommandLines
  Machines <- MCMachines
INVARIANTS
  ChannelsAsAsked
  RefusedForCause
  ConfigureGoesThrough
  OneScaler
  IncompleteForCause
CHECK_DEADLOCK FALSE
