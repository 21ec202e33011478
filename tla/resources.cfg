SPECIFICATION FairSpec
CONSTANTS
  i1 = i1  i2 = i2  ns1 = ns1  ns2 = ns2  a = a
  None = None  Absent = Absent
  Instances = {i1, i2}
  NamespaceOf <- TwoNamespaces
  NameOf <- SameName
  Components = {"c1", "c2"}
  Cases <- MCCases
  Values = {1, 2}
  Labels = {"l1"}
  MaxEdits = 2  MaxMeddles = 1  MaxFaults = 1
INVARIANTS TypeOK AppliedMeansDesired
PROPERTIES ForeignUntouched AssignedKept EventuallyApplied
CHECK_DEADLOCK FALSE
