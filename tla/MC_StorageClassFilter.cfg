CONSTANTS
  ClassTables <- MCClassTables
  Filters <- MCFilters
  NoClass = MCNoClass
  MCNoClass = MCNoClass
SPECIFICATION Spec
INVARIANT NamedClassSelected
CHECK_DEADLOCK FALSE
