CONSTANTS
  Calls <- MCCalls
SPECIFICATION CallSpec
INVARIANTS
  DocLongDouble
CHECK_DEADLOCK FALSE
