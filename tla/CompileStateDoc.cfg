CONSTANTS
  Thread = {t1, t2}
  None = None
  MaxJobs = 2
  MaxWork = 2
SPECIFICATION Spec
INVARIANTS
  OwnMacroStack
CHECK_DEADLOCK FALSE
