---------------------------- MODULE Initializers ----------------------------
(***************************************************************************)
(* Initializers in tccgen.c.  decl_initializer_alloc() has them read twice *)
(* if the size of the object depends on them; decl_initializer() descends  *)
(* into the type while it reads, decl_designator() goes to a place in it.  *)
(* An initialized section starts as zeros, and addresses in it are         *)
(* relocations; a local variable is cleared and filled by code, and a store*)
(* of 0 to cleared memory is left out.                                     *)
(*                                                                         *)
(* A type is "int" (as wide as an address), "char", an array, a struct or  *)
(* a union; a scalar takes one unit.  Tokens are records.  Wide strings, bit-fields, variable      *)
(* length arrays and a flexible array without braces are left out.         *)
(***************************************************************************)
EXTENDS Integers, Sequences, FiniteSets, SequencesExt

VARIABLES
  decl,   \* the declaration: [type, local, toks]
  object  \* [size, mem, rel, err] once it is read: the memory, with the
          \* addresses to be added to it, or "none" of it if there is an error

init_vars == <<decl, object>>

NoLength == -1   \* the length of an array that has none yet
Unset == 99   \* in the memory of a local variable
StringAt == 60   \* the address of a string constant

-----------------------------------------------------------------------------
(* Types.                                                                  *)

Aggregate(t) == t.k \in {"array", "struct", "union"}
Comp(t, i) == IF t.k = "array" THEN t.elem ELSE t.members[i + 1]

RECURSIVE SizeOf(_)
SizeOf(t) ==
  CASE ~ Aggregate(t) -> 1
    [] t.k = "array" -> IF t.n = NoLength THEN 0 ELSE t.n * SizeOf(t.elem)
    [] t.k = "struct" -> FoldLeft(LAMBDA n, m : n + SizeOf(m), 0, t.members)
    [] t.k = "union" -> FoldLeft(LAMBDA n, m : IF SizeOf(m) > n THEN SizeOf(m) ELSE n, 0, t.members)

Offset(t, i) ==
  CASE t.k = "array" -> i * SizeOf(t.elem)
    [] t.k = "struct" -> SizeOf([t EXCEPT !.members = SubSeq(@, 1, i)])
    [] t.k = "union" -> 0

-----------------------------------------------------------------------------
(* The state of the reader: toks, the value read ahead (top), memory,      *)
(* relocations, the length the array without one has so far (flex).        *)

Tok(s) == IF s.toks = << >> THEN "end" ELSE Head(s.toks).t
Read(s) == [s EXCEPT !.toks = Tail(@)]
Failed(s) == [s EXCEPT !.err = TRUE]
skip(s, t) == IF Tok(s) = t THEN Read(s) ELSE Failed(s)
Designates(s) == Tok(s) \in {"[", "."}

Length(s, t) == IF t.n = NoLength THEN s.flex ELSE t.n

decl_design_flex(s, t, index) ==
  IF t.n = NoLength /\ index >= s.flex THEN [s EXCEPT !.flex = index + 1] ELSE s

Cells(c, n) == c .. c + n - 1
With(s, c, cells) ==
  [s EXCEPT !.mem = [a \in DOMAIN @ |-> IF a \in Cells(c, Len(cells)) THEN cells[a - c + 1] ELSE @[a]]]

init_putz(s, c, n) == IF s.local THEN With(s, c, [k \in 1 .. n |-> 0]) ELSE s

\* An address in a section is left to the linker, which adds it to what is there.
\* It does not fit a char: that of a name is an error, that of a string becomes 0.
init_putv(s, t, c, v) ==
  LET linked == v.t = "addr" /\ ~ s.local IN
  CASE v.t = "obj" -> With(s, c, v.v)
    [] linked /\ t.k = "int" -> [s EXCEPT !.rel = @ \cup {<<c, v.v>>}]
    [] linked /\ t.k = "char" -> IF v.v = StringAt THEN With(s, c, <<0>>) ELSE Failed(s)
    [] v.t # "obj" /\ ~ linked -> With(s, c, <<v.v>>)

decl_design_delrels(s, c, n) == [s EXCEPT !.rel = {r \in @ : r[1] \notin Cells(c, n)}]

\* The first element of a range goes to the others, relocations too.
Repeated(s, c, n, times) ==
  LET from == [k \in 1 .. n |-> s.mem[c + k - 1]]
      more == {<<r[1] + n * i, r[2]>> : r \in {r \in s.rel : r[1] \in Cells(c, n)}, i \in 1 .. times - 1}
  IN [FoldLeft(LAMBDA x, i : With(x, c + n * i, from), s, [i \in 1 .. times - 1 |-> i])
        EXCEPT !.rel = @ \cup more]

\* Seeded bug: zeros are left out wherever memory was cleared once.
StillClear_Always(c, corig, al, flags) == flags

\* What is initialized again is no longer clear.
StillClear(c, corig, al, flags) ==
  IF c - corig < al \/ "again" \in flags THEN flags \ {"clear"} ELSE flags

\* A string for an array of n chars at c.
InitString(s, t, c, flags) ==
  LET str == Head(s.toks).v
      len == Len(str) - 1                                  \* without its 0
      s1  == decl_design_flex(Read(s), t, len)
      n   == Length(s, t)
      nb  == IF len < n THEN len ELSE n
      Put(x, i) ==                                         \* one char of a local array
        IF i < nb THEN init_putv(x, t.elem, c + i, [t |-> "val", v |-> str[i + 1]])
        ELSE IF "clear" \in flags THEN x
        ELSE init_putv(x, t.elem, c + i, [t |-> "val", v |-> 0])
  IN IF "size" \in flags THEN s1
     ELSE IF ~ s.local THEN With(s1, c, SubSeq(str, 1, nb))
     ELSE FoldLeft(Put, s1, [i \in 1 .. n |-> i - 1])

RECURSIVE decl_initializer(_, _, _, _), InitList(_, _, _, _, _, _, _), decl_designator(_, _, _, _, _, _)

\* One place of a list: [s, f, al], f the member or the index it was, al how far
\* the list has come.
decl_designator(s, t, c, f, flags, al) ==
  LET given == "elem" \notin flags /\ Designates(s)
      i == IF given THEN Head(s.toks).i ELSE f
      j == IF given /\ t.k = "array" THEN Head(s.toks).j ELSE i
      s1 == LET r == IF given THEN Read(s) ELSE s
            IN IF t.k = "array" THEN decl_design_flex(r, t, j) ELSE r
      bad == \/ given /\ Tok(s) # IF t.k = "array" THEN "[" ELSE "."
             \/ t.k = "array" /\ (j >= Length(s1, t) \/ j < i)
             \/ t.k # "array" /\ i >= Len(t.members)
      u  == Comp(t, i)
      c1 == c + Offset(t, i)
      n  == SizeOf(u)
      times == j - i + 1
      Reach(k) == IF c1 + k - c > al THEN c1 + k - c ELSE al
      back == "size" \notin flags /\ c1 - c < al
  IN IF s.err \/ ~ Aggregate(t) \/ bad THEN [s |-> Failed(s), f |-> f, al |-> al]
     ELSE IF given /\ times = 1 /\ Designates(s1)
     THEN LET fl == IF back THEN (flags \ {"clear"}) \cup {"again"} ELSE flags
          IN [s |-> decl_initializer(s1, u, c1, fl \ {"first"}), f |-> i, al |-> Reach(n)]
     ELSE LET over == "size" \notin flags /\ (c1 - c < al \/ "again" \in flags)
              Value(x) == IF given /\ Tok(x) = "=" THEN Read(x) ELSE x
              Free(x) == IF over THEN decl_design_delrels(x, c1, n * times) ELSE x
              Ranged(x) == IF times > 1 /\ "size" \notin flags THEN Repeated(x, c1, n, times) ELSE x
              fl == StillClear(c1, c, al, flags) \ {"first", "again"}
          IN [s |-> Ranged(decl_initializer(Free(Value(s1)), u, c1, fl)), f |-> j, al |-> Reach(n * times)]

\* The list of an aggregate, in braces or not, from member or index f.
InitList(s, t, c, flags, braced, f, len) ==
  LET Full(d) == IF t.k = "array" THEN d.al >= Length(d.s, t) * SizeOf(t.elem)
                 ELSE t.k = "union" \/ d.f + 1 = Len(t.members)
      Field(d) == IF t.k = "union" THEN Len(t.members) ELSE d.f + 1
      After(d) ==
        IF d.s.err \/ (~ braced /\ Full(d)) \/ Tok(d.s) = "}" THEN d.s
        ELSE IF ~ braced /\ Tok(d.s) = "," /\ Designates(Read(d.s)) THEN d.s
        ELSE InitList(skip(d.s, ","), t, c, flags \ {"elem"}, braced, Field(d), d.al)
  IN IF s.err \/ (Tok(s) = "}" /\ "elem" \notin flags) THEN s
     ELSE After(decl_designator(s, t, c, f, flags, len))

decl_initializer(s, t, c, flags) ==
  LET ahead == /\ "elem" \notin flags
               /\ Tok(s) \notin {"{", "str", "[", "."}
               /\ "size" \notin flags \/ t.k \in {"struct", "union"}
      isval == Tok(s) \in {"val", "obj", "addr"}
      s0 == IF ahead THEN IF isval THEN [Read(s) EXCEPT !.top = Head(s.toks)] ELSE Failed(s) ELSE s
      fl == IF ahead THEN flags \cup {"elem"} ELSE flags
      braced == \/ Tok(s0) = "{"
                \/ "first" \in fl /\ ~ (t.k = "array" /\ Tok(s0) = "str")
      s1 == IF braced THEN skip(s0, "{") ELSE s0
      Close(x) == IF braced THEN skip(x, "}") ELSE x
      Clear(x) == IF fl \cap {"clear", "size", "again"} = {}
                  THEN init_putz(x, c, IF t.k = "array" THEN Length(x, t) * SizeOf(t.elem) ELSE SizeOf(t))
                  ELSE x
      List(x) == InitList(IF t.k = "array" THEN decl_design_flex(Clear(x), t, -1) ELSE Clear(x), t, c,
                          IF fl \cap {"size", "again"} = {} THEN fl \cup {"clear"} ELSE fl, braced, 0, 0)
  IN IF s0.err THEN s0 ELSE
     CASE t.k = "array" ->
            IF s1.err THEN s1
            ELSE IF Tok(s1) = "str" /\ t.elem.k = "char"
            THEN LET x == InitString(s1, t, c, fl)
                 IN Close(IF Tok(x) = "," /\ braced THEN Read(x) ELSE x)
            ELSE Close(List(s1))
       [] t.k \in {"struct", "union"} ->
            IF "elem" \in fl /\ s0.top.t = "obj" /\ s0.top.type = t
            THEN IF "size" \in fl THEN s0 ELSE init_putv(s0, t, c, s0.top)
            ELSE IF s1.err THEN s1 ELSE Close(List(s1))
       [] ~ Aggregate(t) ->
            IF Tok(s0) = "{"
            THEN IF "elem" \in fl THEN Failed(s0)
                 ELSE skip(decl_initializer(Read(s0), t, c, fl), "}")
            ELSE IF "size" \in fl
            THEN IF "elem" \in fl \/ Tok(s0) \in {",", "}", "end"} THEN s0 ELSE Read(s0)
            ELSE IF "elem" \notin fl
            THEN IF Tok(s0) = "str" THEN init_putv(Read(s0), t, c, [t |-> "addr", v |-> StringAt])
                 ELSE Failed(s0)
            ELSE IF s0.top.t = "obj" THEN Failed(s0)
            ELSE IF s.local /\ "clear" \in fl /\ s0.top = [t |-> "val", v |-> 0] THEN s0
            ELSE init_putv(s0, t, c, s0.top)

-----------------------------------------------------------------------------
(* decl_initializer_alloc()                                                *)

\* The array whose length the initializer gives: the object or its last member.
Open(t) == t.k = "array" /\ t.n = NoLength
Flexible(t) == t.k = "struct" /\ t.members # << >> /\ Open(Last(t.members))
Known(t, n) ==
  CASE Open(t) -> [t EXCEPT !.n = n]
    [] Flexible(t) /\ n # NoLength -> [t EXCEPT !.members[Len(t.members)].n = n]
    [] OTHER -> t

Start(d, mem, flex) ==
  [toks |-> d.toks, local |-> d.local, top |-> [t |-> "none"], mem |-> mem, rel |-> {}, flex |-> flex,
   err |-> FALSE]

decl_initializer_alloc(d) ==
  LET Error == [err |-> TRUE, size |-> 0, mem |-> << >>, rel |-> {}]
      Memory(t) == [a \in 0 .. SizeOf(t) - 1 |-> IF d.local THEN Unset ELSE 0]
      Result(t, x) ==
        [err |-> x.err \/ Tok(x) # "end", size |-> SizeOf(t), mem |-> x.mem, rel |-> x.rel]
      Second(t, flex) == Result(t, decl_initializer(Start(d, Memory(t), flex), t, 0, {"first"}))
      Sized(x) == IF x.err \/ (Open(d.type) /\ x.flex = NoLength) THEN Error
                  ELSE Second(Known(d.type, x.flex), x.flex)
  IN IF Open(d.type) \/ Flexible(d.type)
     THEN Sized(decl_initializer(Start(d, << >>, NoLength), d.type, 0, {"first", "size"}))
     ELSE Second(d.type, NoLength)

NotYet == [err |-> FALSE, size |-> NoLength, mem |-> << >>, rel |-> {}]

ReadInitializer ==
  /\ object = NotYet
  /\ object' = decl_initializer_alloc(decl)
  /\ UNCHANGED decl
=============================================================================
