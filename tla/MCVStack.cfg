CONSTANTS
  NbTemps = 2
  AtomicTarget = "global"
  MaxDepth = 4
  MaxLoc = 7
  MaxCond = 1
  MaxArm = 2
  Names = {"#1", "#2", "#3", "#4"}
SPECIFICATION Spec
INVARIANTS
  SlotsDisjoint
  Faithful
