SPECIFICATION Spec
CONSTANTS
  Scenarios <- MCScenarios
  Counts = {1, 5}
  MaxEvents = 2  MaxFaults = 1
INVARIANTS TypeOK SecretsAgree NodeCountsAgree
PROPERTIES AuthorityKept
CHECK_DEADLOCK FALSE
