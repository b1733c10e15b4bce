------------------------------ MODULE MCSymTab ------------------------------
(***************************************************************************)
(* SymTab with two names and a few shapes of symbol.                       *)
(***************************************************************************)
EXTENDS SymTab, TLC

CONSTANTS foo, bar

Names == {foo, bar}

SwapNames == Permutations(Names)

Shape(bind, shndx, val) ==
  [bind |-> bind, vis |-> Default, aset |-> FALSE, shndx |-> shndx, val |-> val]

\* A reference, two strong definitions, which clash, and a static one.
FewDecl ==
  { Shape(GLOBAL, "undef", "v1"),
    Shape(GLOBAL, "text", "v1"),
    Shape(GLOBAL, "text", "v2"),
    Shape(LOCALB, "text", "v1") }
=============================================================================
