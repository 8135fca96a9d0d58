SPECIFICATION Spec
CONSTANTS
  MaxEntries = 2
  MaxPicks = 2
  MaxFailures = 1
INVARIANTS OneResolverEach TagsStayPut
PROPERTIES  TagsAreResolved
CHECK_DEADLOCK FALSE
