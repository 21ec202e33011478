CONSTANTS
    Latest = 57
    Deployed <- MCDeployed
    Instances <- MCNested
    Edits <- MCEdits
    Group <- MCGroup
    MaxFaults = 0
    MaxEvents = 1
SPECIFICATION Spec
CHECK_DEADLOCK FALSE
INVARIANTS StorageKept
