SPECIFICATION FairSpec
CONSTANTS
  MaxFaults = 2  MaxRemovals = 2  MaxPasses = 1
INVARIANTS TypeOK DeployedAfterDependencies SomeDeployment
PROPERTIES EventuallyRolledOut
CHECK_DEADLOCK FALSE
