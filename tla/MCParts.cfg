CONSTANTS
  Name <- MCNames
  ElfHashOf <- MCHash
  MaxSyms = 5
  Macro = {"M", "__LINE__"}
  Body = {"1", "2"}
  NoBody = "null"
  Builtin = {"__LINE__"}
  Align = {1}
  PACK_STACK_SIZE = 2
  MaxDefines = 4
  MaxPushes = 2
  Ident = {"x", "y"}
  KeepScopes = TRUE
  MaxPool = 4
  MaxScope = 3
  Owner = {"a", "b", "c"}
  Request = {0, 1, 4}
  ArenaSize = 4
  MaxArenas = 3
  Func = {"f", "g"}
  FnBody <- MCFnBody
  MaxDecls = 4
  Program <- MCProgram
  DllOf <- MCDllOf
  NoImport = "none"
  SectAlign = 8
  FileAlign = 4
  PageSize = 8
  HeaderSize = 9
  Member <- MCMember
  Layout <- MCLayoutModes
  Bits <- MCBits
  Operands <- MCOperands
  Items <- MCItems
  MaxItems = 3
  MaxMembers = 3
  Calls <- MCCalls
SPECIFICATION Spec
INVARIANTS
  FindExact
  FindIsSound
  BlocksKept
  InlineClosure
  ImageSound
  ImportsBound
  MembersApart
  LayoutIsAbi
  ComputesC
  LastWins
  CallDelivers
PROPERTIES
  PopsRestore
  RedeclarationExact
CHECK_DEADLOCK FALSE
