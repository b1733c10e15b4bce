CONSTANTS
  Member <- MCMember
  Layout <- MCLayoutModes
  MaxMembers = 3
SPECIFICATION LayoutSpec
INVARIANTS
  DocMsBitFields
CHECK_DEADLOCK FALSE
