CONSTANTS
  Value = {"v1", "v2"}
  Section = {"text", "bss"}
  BssSection = {"bss"}
  UNDEF = "undef"
  DynTable = FALSE
  foo = foo
  bar = bar
  Name <- Names
  NoName = NoName
  Decl <- FewDecl
  NoDecl = NoDecl
  None = None
  MaxSyms = 3
  MaxRelocs = 1
SPECIFICATION Spec
INVARIANTS
  UniqueNames
  StagedIntact
  RelocAim
PROPERTIES
  RefinesLinkTable
SYMMETRY SwapNames
CHECK_DEADLOCK FALSE
