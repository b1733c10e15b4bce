------------------------------ MODULE TinyAlloc ------------------------------
(***************************************************************************)
(* The allocator of token strings and token symbols: a list of arenas, the *)
(* first the one to try first; blocks are cut off an arena's free end and  *)
(* counted, an arena is emptied when its count falls to zero, and only the *)
(* last block of an arena can be given back or grown in place.             *)
(*                                                                         *)
(* The unit is a size_t: a block is one word of header and its data.  An   *)
(* owner writes all of its data, and the words are what is checked.        *)
(***************************************************************************)
EXTENDS Naturals, Sequences, FiniteSets, SequencesExt

CONSTANTS
  Owner,      \* who holds blocks, one at a time each
  Request,    \* the sizes asked for
  ArenaSize,  \* TOKSYM_TAL_SIZE, TOKSTR_TAL_SIZE
  MaxArenas   \* bound: arenas ever made

ASSUME TalAssumption ==
  /\ IsFiniteSet(Owner)
  /\ Request \subseteq Nat /\ IsFiniteSet(Request)
  /\ ArenaSize \in Nat \ {0} /\ MaxArenas \in Nat

VARIABLES
  list,   \* the arenas, [id, cap, p, count, size, mem], in list order
  held,   \* what each owner has: [id, at, size], or nothing
  made    \* arenas made so far, for their identity

talvars == <<list, held, made>>

Garbage == <<"garbage", 0>>
Header(n) == <<"header", n>>
Cell(o, k) == <<o, k>>
Nothing == [id |-> 0, at |-> 0, size |-> 0]

AdjSize(n) == n + 1

Arena(id, cap, size) ==
  [id |-> id, cap |-> cap, p |-> 0, count |-> 0, size |-> size,
   mem |-> [k \in 0 .. cap - 1 |-> Garbage]]

\* tal_new(): in front of the others, of which it takes the nominal size.
TalNew(arenas, cap) ==
  <<Arena(made + 1, cap, IF arenas = << >> THEN cap ELSE arenas[1].size)>> \o arenas

TalInit ==
  /\ made = 1
  /\ list = <<Arena(1, ArenaSize, ArenaSize)>>
  /\ held = [o \in Owner |-> Nothing]

\* The arena a data address lies in, its end included for blocks of no size.
ArenaOf(arenas, b) == CHOOSE i \in DOMAIN arenas : arenas[i].id = b.id

Fits(al, n) == al.p + AdjSize(n) <= al.cap

\* Cut a block of n words off an arena; the header is written, data is not.
Cut(al, n) ==
  [al EXCEPT !.p = @ + AdjSize(n), !.mem[al.p] = Header(n)]

\* The owner writes words `from' to the end of its block.
Filled(al, o, at, from, n) ==
  [al EXCEPT !.mem = [k \in DOMAIN @ |->
     IF k \in at + from .. at + n - 1 THEN Cell(o, k - at) ELSE @[k]]]

\* memcpy of one block to another, perhaps of another arena.
Copied(al, at, source, from, n) ==
  [al EXCEPT !.mem = [k \in DOMAIN @ |->
     IF k \in at .. at + n - 1 THEN source[from + k - at] ELSE @[k]]]

\* The list with an arena that has room for n words, and where that is.
WithRoom(arenas, n) ==
  IF \E i \in DOMAIN arenas : Fits(arenas[i], n)
  THEN [list |-> arenas, fresh |-> 0, at |-> SelectInSeq(arenas, LAMBDA al : Fits(al, n))]
  ELSE [list |-> TalNew(arenas, IF AdjSize(n) > arenas[1].size THEN AdjSize(n) ELSE arenas[1].size),
        fresh |-> 1, at |-> 1]

\* tal_realloc(pal, NULL, n)
Allocate(o, n) ==
  /\ held[o] = Nothing
  /\ LET w == WithRoom(list, n)
         al == w.list[w.at]
     IN /\ made + w.fresh <= MaxArenas
        /\ made' = made + w.fresh
        /\ list' = [w.list EXCEPT ![w.at] =
                     Filled(Cut([al EXCEPT !.count = @ + 1], n), o, al.p + 1, 0, n)]
        /\ held' = [held EXCEPT ![o] = [id |-> al.id, at |-> al.p + 1, size |-> n]]

\* Seeded bug: the free end goes back to any block that is given up.
Rewound_Always(al, b) == [al EXCEPT !.p = b.at - 1]

\* The arena without the block's space, if nothing was cut off after it.
Rewound(al, b) == IF b.at + b.size = al.p THEN [al EXCEPT !.p = b.at - 1] ELSE al

\* The words of a block nobody holds any more: nothing reads them, so what they
\* are is forgotten, with them those of whoever else thinks they are his.
Dead(al, b) ==
  [al EXCEPT !.mem = [k \in DOMAIN @ |->
     IF k \in b.at - 1 .. b.at + b.size - 1 THEN Garbage ELSE @[k]]]

\* tal_free_impl()
Freed(arenas, b) ==
  LET i == ArenaOf(arenas, b)
      al == [Dead(arenas[i], b) EXCEPT !.count = @ - 1]
      others == RemoveAt(arenas, i)
  IN IF al.count = 0
     THEN IF al.cap > al.size THEN others ELSE <<[al EXCEPT !.p = 0]>> \o others
     ELSE [arenas EXCEPT ![i] = Rewound(al, b)]

Free(o) ==
  /\ held[o] # Nothing
  /\ list' = Freed(list, held[o])
  /\ held' = [held EXCEPT ![o] = Nothing]
  /\ UNCHANGED made

\* tal_realloc(pal, p, n) where the block's arena, rewound if it was its last,
\* has room: in place or at the free end, the count of the arena unchanged.
GrowInside(o, n) ==
  /\ held[o] # Nothing /\ n >= held[o].size
  /\ LET b == held[o]
         i == ArenaOf(list, b)
         al == Rewound(list[i], b)
     IN /\ Fits(al, n)
        /\ list' = [list EXCEPT ![i] =
             Filled(Copied(Cut(Dead(al, b), n), al.p + 1, al.mem, b.at, b.size),
                     o, al.p + 1, b.size, n)]
        /\ held' = [held EXCEPT ![o] = [id |-> al.id, at |-> al.p + 1, size |-> n]]
  /\ UNCHANGED made

\* Where it has not: a new block, and the old one freed after the copy.
GrowElsewhere(o, n) ==
  /\ held[o] # Nothing /\ n >= held[o].size
  /\ LET b == held[o]
         i == ArenaOf(list, b)
         old == Rewound(list[i], b)
         w == WithRoom([list EXCEPT ![i] = old], n)
         al == w.list[w.at]
         copy == Copied(Cut([al EXCEPT !.count = @ + 1], n), al.p + 1, old.mem, b.at, b.size)
     IN /\ ~ Fits(old, n)
        /\ made + w.fresh <= MaxArenas
        /\ made' = made + w.fresh
        /\ list' = Freed([w.list EXCEPT ![w.at] = Filled(copy, o, al.p + 1, b.size, n)], b)
        /\ held' = [held EXCEPT ![o] = [id |-> al.id, at |-> al.p + 1, size |-> n]]

TalNext ==
  \E o \in Owner :
    \/ Free(o)
    \/ \E n \in Request : Allocate(o, n) \/ GrowInside(o, n) \/ GrowElsewhere(o, n)

TalSpec == TalInit /\ [][TalNext]_talvars
-----------------------------------------------------------------------------
\* Every block holds what its owner wrote, whatever was allocated, grown and
\* freed around it and wherever it was moved.
ContentsKept ==
  \A o \in Owner : held[o] # Nothing =>
    \E i \in DOMAIN list :
      LET b == held[o]
          al == list[i]
      IN /\ al.id = b.id
         /\ b.at + b.size <= al.p /\ al.p <= al.cap
         /\ al.mem[b.at - 1] = Header(b.size)
         /\ \A k \in 0 .. b.size - 1 : al.mem[b.at + k] = Cell(o, k)

\* An arena counts its blocks; without any it is empty, and of the nominal
\* size: what one large token string took is given back.
ArenasRecycled ==
  /\ list # << >>
  /\ \A i \in DOMAIN list :
       /\ list[i].count = Cardinality({o \in Owner : held[o].id = list[i].id})
       /\ list[i].count = 0 => list[i].p = 0 /\ list[i].cap <= list[i].size

BlocksKept == ContentsKept /\ ArenasRecycled
=============================================================================
