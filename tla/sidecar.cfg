SPECIFICATION FairSpec
CONSTANTS
  i1 = i1  ns1 = ns1  ns2 = ns2  d1 = d1
  None = None  Own = Own
  Instances = {i1}
  NameOf <- OneName
  NamespaceOf <- OneNamespace
  Deployments = {d1}
  HomeOf <- OneHome
  KindOf <- OneKind
  Words = {"none", "false"}
  MaxEdits = 2  MaxFaults = 1
INVARIANTS TypeOK
PROPERTIES OwnAgentUntouched SidecarKept EventuallyClean EventuallyHandled
CHECK_DEADLOCK FALSE
