------------------------------- MODULE MCLayout -------------------------------
(***************************************************************************)
(* Three members of every type, with widths that fill, cross and exceed    *)
(* units, under every packing; an object of three members of twenty kinds  *)
(* has every pair of neighbours and every pair apart.                      *)
(***************************************************************************)
EXTENDS StructLayout

Mem(bt, width) ==
  [bt |-> bt, width |-> width, anon |-> width = 0, packed |-> FALSE, aligned |-> 0]
MCMember ==
  {Mem("char", Plain), Mem("int", Plain), Mem("llong", Plain), Mem("bool", 1), Mem("char", 3),
   Mem("char", 0), Mem("short", 9), Mem("int", 5), Mem("int", 17), Mem("int", 31),
   Mem("int", 32), Mem("int", 0), Mem("llong", 20), Mem("llong", 40), Mem("llong", 64),
   Mem("llong", 0), [Mem("int", 7) EXCEPT !.anon = TRUE], [Mem("int", 13) EXCEPT !.packed = TRUE],
   [Mem("int", 13) EXCEPT !.aligned = 2], [Mem("short", Plain) EXCEPT !.aligned = 8]}

How(pcc, un, pack, packed, al) ==
  [pcc |-> pcc, union |-> un, pack |-> pack, packed |-> packed, aligned |-> al]
MCLayoutModes ==
  {How(TRUE, FALSE, pk, p, 0) : pk \in {0, 1, 2, 4}, p \in {"no", "before", "after"}}
  \cup {How(FALSE, FALSE, pk, "no", 0) : pk \in {0, 1, 2}}
  \cup {How(b, TRUE, pk, p, 0) : pk \in {0, 1}, p \in {"no", "before"}, b \in BOOLEAN}
  \cup {How(b, FALSE, 2, "no", 16) : b \in BOOLEAN}

=============================================================================
