SPECIFICATION Spec
CONSTANTS
  p1 = p1  p2 = p2  p3 = p3  opA = opA  opB = opB
  NoOwner = NoOwner  Absent = Absent
  Pods = {p1, p2, p3}
  Identity <- TwoOperators
  Stages <- OneStage
  OnError <- OneError
  NeedsCerts = FALSE
  BadEdits = {}
  Binaries = {1, 2}
  MaxVersion = 2  StartUpdates = 1  Steps = {2}
  MaxEdits = 2  MaxCreates = 2  MaxFaults = 1  MaxRestarts = 1
CONSTRAINT TwoAtWork
SYMMETRY SameOperator
INVARIANTS SingleManager VersionImpliesMigrated
PROPERTIES OwnerNeverStolen EditNeverLost ImplementsManagement
CHECK_DEADLOCK FALSE
