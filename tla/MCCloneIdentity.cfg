CONSTANTS
  Names <- MCNames
  Programs <- Identity
  MaxInstances = 2
SPECIFICATION DumpSpec
INVARIANT ParametersReached
