CONSTANTS
  Names <- MCNames
  Programs <- MCPrograms
  MaxInstances = 2
SPECIFICATION DumpSpec
INVARIANTS
  DumpTypeOK
  InstancesAreSeparate
  MeaningKept
  ThrowsBehindCaptures
  NamedBeforeUse
  CopyPrintsTheSame
