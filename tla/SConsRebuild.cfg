SPECIFICATION Spec
CONSTANTS
  None = None
  Files <- MCFiles
  Kids <- MCKids
  IncludesOf <- MCIncludesOf
  Make <- MCMake
  Fails <- MCFails
  Versions <- MCVersions
  Commands <- MCCommands
  Order <- MCOrder
  Plans <- MCPlans
INVARIANTS
  NothingStale
  RecordDescribesTarget
  NullBuild
CHECK_DEADLOCK FALSE
