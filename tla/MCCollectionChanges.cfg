\* Lists and queries that are observed.
CONSTANTS
  Scenarios <- MCScenarios
  MaxRows = 5
  MaxEntries = 4
  MaxDepth = 4
SPECIFICATION Spec
INVARIANTS
  ListsAndTableAreExact
  QueryIsExact
  ModificationsAreTold
