CONSTANTS
  File = {"main", "h"}
  Main = "main"
  Macro = {"G"}
  NoMacro = "none"
  Contents <- Headers
  MainContents <- Mains
  IFDEF_STACK_SIZE = 8
  INCLUDE_STACK_SIZE = 3
  Sources <- Programs
  Inputs <- Texts
  Operators = {"(", ")", ",", "#", "##", "EOF", "NL", "placeholder"}
  Numbers = {"0", "1", "2"}
  SourceTexts <- LexTexts
  IO_BUF_SIZE = 3
  Numerals <- MCSpellings
  Contents1 <- MCContents
  IntWidth = 4
  LLongWidth = 8
  BnWidth = 8
SPECIFICATION MCSpec
INVARIANTS
  MatchesReference
  PopsItsOwn
  LineEndsWhereMeant
  MatchesMeaning
  LexesWhole
  LiteralsMean
PROPERTIES
  IncluderUntouched
  Terminates
CHECK_DEADLOCK FALSE
