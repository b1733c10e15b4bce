CONSTANTS
  Value = {0, 1, 2, 3, 4, 5, 6, 7, 8, 9, 10, 11, 12, 13, 14, 15, 16, 17, 18, 19, 20}
  Section = {"text", "bss", "common", "once"}
  BssSection = {"bss", "common"}
  UNDEF = "undef"
  None = None
  DynTable = FALSE
  Name = {"f", "g"}
  Decl = {}
  Item <- MCItem
  MaxFiles = 4
  MaxLoads = 8
SPECIFICATION LSpec
INVARIANTS
  StrongWins
  NoSilentLoss
  DefinedIffClaimed
  PlacedRight
  ClosureLoaded
PROPERTY
  ScanEnds
CHECK_DEADLOCK FALSE
