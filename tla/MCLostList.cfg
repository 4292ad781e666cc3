\* Two lists that are observed, in a table from which rows are deleted.
CONSTANTS
  Scenarios <- MCTwoLists
  MaxRows = 5
  MaxEntries = 4
  MaxDepth = 4
SPECIFICATION Spec
INVARIANT ChangesAreTold
