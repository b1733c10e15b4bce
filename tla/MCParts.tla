------------------------------- MODULE MCParts -------------------------------
(***************************************************************************)
(* The components that keep to themselves, side by side: in each behaviour *)
(* one of them, `piece', takes all the steps and the others stay as they   *)
(* are at the start.                                                       *)
(***************************************************************************)
EXTENDS ElfHash, Pragmas, SymScope, TinyAlloc, InlineFns, PEImage, MCLayout, Conversions,
  InitReference, MCCallConv

VARIABLE piece

(* ElfHash: all names share the only bucket at first, two stay together at *)
(* two buckets, none at four.  The third hashed symbol makes the table     *)
(* grow, the fifth makes it grow again.                                    *)
MCNames == {"a", "b", "c"}
MCHash == [n \in MCNames |-> CASE n = "a" -> 0 [] n = "b" -> 1 [] n = "c" -> 2]

(* InlineFns: a body does nothing, or uses g, after declaring it or not.   *)
MCFnBody ==
  {[uses |-> {}, blocks |-> {}]} \cup {[uses |-> {"g"}, blocks |-> b] : b \in {{}, {"g"}}}

(* PEImage: the sections every image has, with the sizes and relocations   *)
(* that decide on padding and pages, others of every class around them,    *)
(* and symbols that are called, pointed to, missing or defined.            *)
Sect(name, type, flags, size, align, rels) ==
  [name |-> name, type |-> type, flags |-> flags, size |-> size, align |-> align,
   rels |-> [k \in DOMAIN rels |-> [off |-> rels[k][1], kind |-> rels[k][2], sym |-> 0]],
   addr |-> 0]

Base(text, ro, dr) ==
  <<Sect("text", "progbits", {"alloc", "exec"}, text, 4,
         IF text = 0 THEN << >> ELSE <<<<3, "abs">>, <<2, "pc">>>>),
    Sect("data", "progbits", {"alloc", "write"}, IF dr = << >> THEN 0 ELSE 12, 4, dr),
    Sect("bss", "nobits", {"alloc", "write"}, 3, 4, << >>),
    Sect("rodata", "progbits", {"alloc"}, ro, 4, IF ro = 0 THEN << >> ELSE <<<<1, "abs">>>>),
    Sect("symtab", "other", {}, 6, 4, << >>)>>

Extra ==
  { << >>,
    <<Sect("bss2", "nobits", {"alloc", "write"}, 5, 8, << >>),
      Sect("data2", "progbits", {"alloc", "write"}, 3, 2, <<<<1, "abs">>>>)>>,
    <<Sect("tbss", "nobits", {"alloc", "write", "tls"}, 2, 4, << >>),
      Sect("pdata", "progbits", {"alloc"}, 3, 4, << >>),
      Sect("tdata", "progbits", {"alloc", "write", "tls"}, 5, 4, << >>)>>,
    <<Sect("debug1", "progbits", {"debug"}, 3, 1, <<<<1, "abs">>>>),
      Sect("rsrc", "progbits", {"alloc"}, 5, 4, << >>),
      Sect("debug2", "progbits", {"debug"}, 2, 1, << >>),
      Sect("note", "other", {"alloc", "write"}, 4, 4, << >>),
      Sect("empty", "progbits", {"alloc", "write"}, 0, 4, << >>),
      Sect("ro2", "progbits", {"alloc"}, 3, 8, << >>)>> }

MCDllOf == [a |-> "x", b |-> "y", c |-> "x"]

Symbol(use, im) ==
  [use |-> use, import |-> im, val |-> 0,
   shndx |-> IF use = "defined" THEN "text" ELSE "undef"]
Uses ==
  {Symbol("call", "a"), Symbol("call", "b"), Symbol("pointer", "a"), Symbol("pointer", "c"),
   Symbol("plain", "a"), Symbol("call", "none"), Symbol("defined", "none")}

MCProgram ==
  {[secs |-> Base(t, r, d) \o e, syms |-> s, exports |-> x, reloc |-> b] :
     t \in {0, 5}, r \in {0, 3}, d \in {<< >>, <<<<0, "abs">>, <<8, "abs">>, <<3, "abs">>>>},
     e \in Extra, x \in {0, 2}, b \in BOOLEAN,
     s \in {<< >>, <<Symbol("call", "a"), Symbol("pointer", "c"), Symbol("call", "b")>>}}
  \cup
  {[secs |-> Base(t, 3, << >>), syms |-> s, exports |-> 0, reloc |-> FALSE] :
     t \in {0, 5}, s \in UNION {[1 .. n -> Uses] : n \in 1 .. 3}}

NoImage ==
  /\ stage = "none" /\ next = 0 /\ errors = FALSE
  /\ secs = << >> /\ esyms = << >> /\ exports = 0 /\ imports = << >> /\ order = << >>
  /\ infos = << >> /\ image = << >> /\ blocks = << >> /\ iat = << >> /\ tls = << >>
  /\ file = << >>

(* Conversions: four widths that keep their order, the numbers at which a  *)
(* width or a simplification changes its mind, as constants of the types a *)
(* constant can have and as variables of every type.                       *)
MCBits == [char |-> 2, short |-> 3, int |-> 4, llong |-> 6]

Variable(t, n) == [e |-> Entry("mem", t, Low(Convert(n, t), W(t))), num |-> Convert(n, t)]
Constant(t, n) == [e |-> Entry("const", t, Low(Convert(n, t), L)), num |-> Convert(n, t)]

MCOperands ==
  {Constant(t, n) : t \in {x \in IntType : ~ Small(x)}, n \in {0, 1, 8, 15, -1, -32}}
  \cup {Variable(t, -1) : t \in IntType}
  \cup {Variable(t, -8) : t \in {x \in IntType : ~ Small(x)}}

(* Initializers: objects of every shape, two levels deep, and for each a   *)
(* handful of items that go forwards and back, into parts and over them,   *)
(* with 0 and with other numbers; a list has up to MaxItems of them in any *)
(* order.                                                                  *)
Int1 == [k |-> "int"]
Char1 == [k |-> "char"]
ArrayOf(n, t) == [k |-> "array", n |-> n, elem |-> t]
StructOf(ms) == [k |-> "struct", members |-> ms]

TwoInts == StructOf(<<Int1, Int1>>)
Mixed == StructOf(<<Int1, TwoInts, ArrayOf(2, Int1)>>)
Trailing == StructOf(<<Int1, ArrayOf(NoLength, Int1)>>)
Words == StructOf(<<ArrayOf(3, Char1), Int1>>)
Either == StructOf(<<[k |-> "union", members |-> <<TwoInts, Int1>>], Int1>>)

N(n) == [t |-> "val", v |-> n]
Address == [t |-> "addr", v |-> 50]
Str(cs) == [t |-> "str", v |-> cs]
Whole == [t |-> "obj", type |-> TwoInts, v |-> <<4, 5>>]
Item(p, x) == [path |-> p, x |-> x]
Braced(items) == [t |-> "list", items |-> items]
Values(xs) == Braced([k \in DOMAIN xs |-> Item(<< >>, xs[k])])

Dot(i) == <<[t |-> ".", i |-> i, j |-> i]>>
From(i, j) == <<[t |-> "[", i |-> i, j |-> j]>>
Ix(i) == From(i, i)

Each(paths, xs) == {Item(p, x) : p \in paths, x \in xs}

MCItems ==
  (Int1 :> {Item(<< >>, N(7)), Item(<< >>, Str(<<1, 0>>)), Item(<< >>, Values(<<N(8)>>)), Item(Ix(0), N(9))})
  @@ (TwoInts :> {Item(<< >>, N(7)), Item(<< >>, Whole), Item(Dot(1), N(8))})
  @@ (Mixed :> Each({<< >>, Dot(0), Dot(1), Dot(1) \o Dot(1), Dot(2) \o Ix(0)}, {N(0), N(7)})
       \cup Each({<< >>, Dot(1)}, {Whole, Values(<<N(8)>>)}) \cup {Item(Dot(2) \o From(0, 1), N(9))})
  @@ (ArrayOf(2, TwoInts) :> Each({<< >>, Ix(0), Ix(1), Ix(0) \o Dot(1)}, {N(0), N(7)})
       \cup {Item(From(0, 1), Values(<<N(8), N(9)>>)), Item(Ix(0), Values(<< >>)),
             Item(Ix(1), Braced(<<Item(Dot(1), N(6))>>))})
  @@ (ArrayOf(NoLength, TwoInts) :> Each({<< >>}, {N(0), N(7), Whole, Values(<< >>)})
       \cup {Item(Ix(1), N(3)), Item(Ix(2) \o Dot(1), N(4)), Item(From(1, 3), Values(<<N(5), N(6)>>))})
  @@ (ArrayOf(2, Int1) :> Each({<< >>, Ix(0), From(0, 1)}, {N(0), N(7), Address}))
  @@ (ArrayOf(NoLength, Char1) :> {Item(<< >>, N(7)), Item(Ix(4), N(8)), Item(<< >>, Str(<<1, 2, 0>>))})
  @@ (Words :> Each({<< >>, Dot(0)}, {N(0), N(7), Str(<<1, 2, 0>>), Str(<<3, 0>>), Str(<<4, 5, 6, 0>>),
                                     Values(<<Str(<<8, 0>>)>>)})
       \cup Each({Dot(0) \o Ix(1)}, {N(0), N(9)}) \cup {Item(Dot(1), N(6))})
  @@ (Trailing :> Each({<< >>}, {N(7), Values(<<N(1), N(2)>>)}) \cup Each({Dot(1)}, {Values(<<N(3)>>),
         Braced(<<Item(Ix(2), N(4)), Item(Ix(0), N(5)), Item(<< >>, N(6))>>)}) \cup {Item(Dot(0), N(0))})
  @@ (Either :> Each({<< >>}, {N(0), N(7)}) \cup Each({Dot(0)}, {N(8), Values(<<N(5)>>)})
       \cup {Item(Dot(0) \o Dot(0) \o Dot(1), N(4)), Item(Dot(1), N(6))})

NoCall ==
  /\ call = ACall(<< >>, 0, FALSE, In("int", "const"), In("int", "const"))
  /\ cpu = Idle /\ entry = Junk /\ step = "none"

Init ==
  /\ piece \in {"hash", "pragmas", "scopes", "blocks", "inline", "image", "layout", "arith", "init",
               "calls"}
  /\ HashInit /\ PragmaInit /\ ScopeInit /\ TalInit /\ FInit /\ LayoutInit
  /\ piece # "inline" => ~ gnu89
  /\ piece # "layout" => how = How(TRUE, FALSE, 0, "no", 0)
  /\ IF piece = "image" THEN PInit ELSE NoImage
  /\ IF piece = "init" THEN InitializerInit ELSE decl = << >> /\ tree = << >> /\ object = NotYet
  /\ IF piece = "calls" THEN CallInit ELSE NoCall
  /\ IF piece = "arith" THEN ConvInit ELSE top = Entry("const", IntT, 0) /\ num = 0 /\ written = NoStore

Next ==
  /\ UNCHANGED piece
  /\ IF piece = "hash" THEN HashNext ELSE UNCHANGED hash_vars
  /\ IF piece = "pragmas" THEN PragmaNext ELSE UNCHANGED pragma_vars
  /\ IF piece = "scopes" THEN ScopeNext ELSE UNCHANGED scope_vars
  /\ IF piece = "blocks" THEN TalNext ELSE UNCHANGED talvars
  /\ IF piece = "inline" THEN FNext ELSE UNCHANGED fvars
  /\ IF piece = "image" THEN PNext ELSE UNCHANGED pvars
  /\ IF piece = "layout" THEN LayoutNext ELSE UNCHANGED layout_vars
  /\ IF piece = "arith" THEN ConvNext ELSE UNCHANGED conv_vars
  /\ IF piece = "init" THEN InitializerNext ELSE UNCHANGED decl_vars
  /\ IF piece = "calls" THEN CallNext ELSE UNCHANGED call_vars

Spec ==
  Init /\ [][Next]_<<piece, hash_vars, pragma_vars, scope_vars, talvars, fvars, pvars,
                     layout_vars, conv_vars, decl_vars, call_vars>>
=============================================================================
