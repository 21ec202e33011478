SPECIFICATION Spec
CONSTANTS
  i1 = i1  i2 = i2  ns1 = ns1  ns2 = ns2  a = a
  None = None  Absent = Absent
  Instances = {i1, i2}
  NamespaceOf <- TwoNamespaces
  NameOf <- SameName
  Components = {"c1", "c2"}
  Cases <- Bindings
  Values = {1, 2}
  Labels = {"l1"}
  MaxEdits = 0  MaxMeddles = 0  MaxFaults = 0
PROPERTIES ForeignUntouched
CHECK_DEADLOCK FALSE
