CONSTANTS
    Latest = 57
    Deployed <- MCDeployed
    Instances <- MCInstances
    Edits <- MCEdits
    Group <- MCGroup
    MaxFaults = 1
    MaxEvents = 1
SPECIFICATION Spec
CONSTRAINT MCPairs
CHECK_DEADLOCK FALSE
INVARIANTS TypeOK QuietMeansNormalized FlagsMigrated ChoicesKept
PROPERTIES EventuallyDetected EventuallyQuiet
