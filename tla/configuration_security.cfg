CONSTANTS
    Latest = 57
    Deployed <- MCDeployed
    Instances <- MCInstances
    Edits <- MCEdits
    Group <- MCGroup
    MaxFaults = 1
    MaxEvents = 0
SPECIFICATION Spec
CHECK_DEADLOCK FALSE
INVARIANT ExposedMeansProtected
