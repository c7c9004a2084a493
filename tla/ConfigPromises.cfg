SPECIFICATION Spec
CONSTANTS
  Table <- MCTable
  CommandLines <- MCCommandLines
  Machines <- MCMachines
INVARIANT ProfilesCanBeBuilt
CHECK_DEADLOCK FALSE
