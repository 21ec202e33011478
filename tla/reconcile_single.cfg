SPECIFICATION FairSpec
CONSTANTS
  p1 = p1  p2 = p2  p3 = p3  opA = opA  opB = opB
  NoOwner = NoOwner  Absent = Absent
  Pods = {p1}
  Identity <- OnePod
  Stages <- FourStages
  OnError <- FourErrors
  NeedsCerts = TRUE
  BadEdits = {1}
  Binaries = {1, 2}
  MaxVersion = 2  StartUpdates = 1  Steps = {2}
  MaxEdits = 2  MaxCreates = 2  MaxFaults = 2  MaxRestarts = 1
INVARIANTS TypeOK RunningMeansDeployed QuietMeansConverged
PROPERTIES EventuallySettled
CHECK_DEADLOCK FALSE
