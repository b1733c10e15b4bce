CONSTANTS
  NbTemps = 2
  AtomicTarget = "any"
  MaxDepth = 3
  MaxLoc = 7
  MaxCond = 0
  MaxArm = 0
  Names = {"#1", "#2", "#3"}
SPECIFICATION Spec
INVARIANTS
  RegistersKept
