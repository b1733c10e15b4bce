---------------------------- MODULE MCStatements ----------------------------
(***************************************************************************)
(* Statements with programs of six kinds, each with its own few tokens.   *)
(***************************************************************************)
EXTENDS Statements, TLC

CONSTANTS L, K

TwoLabels == {L, K}
SwapLabels == Permutations(TwoLabels)

Const(v) == [k |-> "const", v |-> v]
Atom(id) == [k |-> "atom", id |-> id]
Not(c) == [k |-> "not", of |-> c]
And(x, y) == [k |-> "and", args |-> <<x, y>>]
Or(x, y) == [k |-> "or", args |-> <<x, y>>]

A == Atom(1)
B == Atom(2)
C == Atom(3)
Simples == {A, Const(0), Const(1)}
Pairs == {And(x, y) : x \in Simples, y \in {B, Const(0), Const(1)}}
          \cup {Or(x, y) : x \in Simples, y \in {B, Const(0), Const(1)}}
Nested ==
  { And(A, Or(B, C)), Or(A, And(B, C)), And(Or(A, B), C), Or(And(A, B), C),
    And(A, And(B, C)), Or(Not(And(A, B)), C), And(And(A, Const(1)), C),
    [k |-> "and", args |-> <<A, And(B, Const(1)), C>>],
    [k |-> "or", args |-> <<A, Or(B, Const(0)), Not(C)>>] }

Kinds(ops, conds, ranges, size) ==
  [ops |-> ops, conds |-> conds, ranges |-> ranges, size |-> size]

\* Gotos and cleanups
Gotos == Kinds({"if", "block", "var", "goto", "label"}, {A}, {}, 7)

\* Loops, with and without cleanups
Loops == Kinds({"while", "do", "forvar", "for", "break", "continue", "block", "var", "if"},
               {A}, {}, 5)

\* Code that is never reached
Dead == Kinds({"if", "else", "while", "do", "goto", "label", "return", "exit", "expr", "block"},
              {A, Const(0), Const(1)}, {}, 4)

\* Cases and ranges
Switches == Kinds({"switch", "block", "case", "default", "break", "expr"},
                  {}, {<<1, 1>>, <<2, 2>>, <<3, 3>>, <<2, 3>>}, 7)

\* Switches in loops, with cleanups
Nests == Kinds({"switch", "while", "block", "case", "break", "continue", "var"},
               {A}, {<<1, 1>>}, 7)

\* Conditions
Conds == Kinds({"if", "while", "do", "expr"},
               Simples \cup Pairs \cup Nested \cup {Not(c) : c \in Pairs \cup Nested}, {}, 2)

MCKits == {Gotos, Loops, Dead, Switches, Nests, Conds}
MCGotos == {Gotos}
=============================================================================
