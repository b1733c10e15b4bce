--------------------------- MODULE InitReference ---------------------------
(***************************************************************************)
(* What C says an initializer means (C11 6.7.9), read from its tree: a list*)
(* in braces makes all of its object zero and then gives values to places. *)
(* A place is a path, from a designator or the one that follows the last;  *)
(* a value that does not fit goes to the first part of the place it fits.  *)
(* The last value given to a place is its value.                           *)
(***************************************************************************)
EXTENDS Initializers

CONSTANTS
  Items,      \* for each type, what may stand in a list for it
  MaxItems    \* bound: length of the outer list

VARIABLE tree   \* the initializer

decl_vars == <<init_vars, tree>>

Room == 16      \* bound: units of memory of an object

\* The tree: [t "val" | "addr" | "obj" | "str", v] or [t "list", items], items of
\* [path, x], the path of designators [t, i, j], j the end of a range.

-----------------------------------------------------------------------------
(* The tokens it is written in.                                            *)

RECURSIVE Spelled(_)
Spelled(x) ==
  IF x.t # "list" THEN <<x>>
  ELSE LET Item(i) == i.path \o (IF i.path = << >> THEN << >> ELSE <<[t |-> "="]>>) \o Spelled(i.x)
           Join(ts, i) == (IF ts = << >> THEN ts ELSE Append(ts, [t |-> ","])) \o Item(i)
       IN <<[t |-> "{"]>> \o FoldLeft(Join, << >>, x.items) \o <<[t |-> "}"]>>

-----------------------------------------------------------------------------
(* Places.                                                                 *)

RECURSIVE Part(_, _), Distance(_, _), Following(_, _)
Part(t, p) == IF p = << >> THEN t ELSE Part(Comp(t, p[1]), Tail(p))
Distance(t, p) == IF p = << >> THEN 0 ELSE Offset(t, p[1]) + Distance(Comp(t, p[1]), Tail(p))

Parts(t) == CASE t.k = "array" -> IF t.n = NoLength THEN Room ELSE t.n
              [] t.k = "struct" -> Len(t.members)
              [] t.k = "union" -> 1

\* The place after p, << >> if p is the last.
Following(t, p) ==
  LET up == Front(p)
      of == Part(t, up)
  IN IF p = << >> THEN << >>
     ELSE IF Last(p) + 1 < Parts(of) THEN Append(up, Last(p) + 1)
     ELSE Following(t, up)

\* The designators lead to a part of t; only the last may be a range.
RECURSIVE Names(_, _)
Names(t, path) ==
  path # << >> =>
    LET d == Head(path) IN
    /\ Aggregate(t)
    /\ d.t = (IF t.k = "array" THEN "[" ELSE ".")
    /\ d.i <= d.j /\ (Len(path) > 1 => d.i = d.j)
    /\ d.j < IF t.k = "array" THEN Parts(t) ELSE Len(t.members)
    /\ Names(Comp(t, d.i), Tail(path))

Suits(t, x) ==
  CASE x.t = "list" -> TRUE
    [] x.t = "str" -> ~ Aggregate(t) \/ (t.k = "array" /\ t.elem.k = "char")
    [] x.t = "obj" -> t = x.type
    [] OTHER -> ~ Aggregate(t)

\* From place p to the first part x fits.
RECURSIVE Descent(_, _, _)
Descent(t, p, x) ==
  IF Suits(Part(t, p), x) \/ ~ Aggregate(Part(t, p)) THEN p ELSE Descent(t, Append(p, 0), x)

-----------------------------------------------------------------------------
(* Values: [mem, n, err, given, seen], n the length of an open array, given*)
(* the places a number other than 0 was put, seen what the passing runs    *)
(* leave out.                                                              *)

Set(m, c, v) ==
  [m EXCEPT !.mem[c] = v, !.given = IF v = <<0, 0>> THEN @ \ {c} ELSE @ \cup {c}]

RECURSIVE Denoted(_, _, _, _), Given(_, _, _, _, _)
Denoted(m, t, c, x) ==
  LET size == IF Open(t) THEN Room - c ELSE IF Flexible(t) THEN Room ELSE SizeOf(t)
      zero == [m EXCEPT !.mem = [a \in DOMAIN @ |-> IF a \in Cells(c, size) THEN <<0, 0>> ELSE @[a]],
                        !.seen = IF Cells(c, size) \cap m.given = {} THEN @ ELSE @ \cup {"cleared again"}]
      \* A list that is only braces around one value.
      begun == x.t = "list" /\ x.items # << >> /\ x.items[1].path = << >>
      alone == begun /\ (~ Aggregate(t) \/ (x.items[1].x.t = "str" /\ Suits(t, x.items[1].x)))
  IN CASE alone /\ Len(x.items) = 1 -> Denoted(m, t, c, x.items[1].x)
       [] x.t = "list" /\ Aggregate(t) /\ ~ alone -> Given(zero, t, c, x.items, <<0>>)
       [] x.t \in {"val", "addr"} /\ ~ Aggregate(t) ->
            [Set(m, c, IF x.t = "val" THEN <<x.v, 0>> ELSE <<0, x.v>>)
               EXCEPT !.seen = IF x.t = "addr" /\ c \in m.given THEN @ \cup {"number under address"} ELSE @]
       [] x.t = "obj" /\ Suits(t, x) ->
            FoldLeft(LAMBDA y, k : Set(y, c + k - 1, <<x.v[k], 0>>), m, [k \in DOMAIN x.v |-> k])
       [] x.t = "str" /\ ~ Aggregate(t) ->
            [Denoted(m, t, c, [t |-> "addr", v |-> StringAt])
               EXCEPT !.seen = IF t.k = "char" THEN @ \cup {"string for a char"} ELSE @]
       [] x.t = "str" /\ Aggregate(t) /\ Suits(t, x) ->
            LET len == IF Len(x.v) <= Parts(t) THEN Len(x.v) ELSE Parts(t)
                y == FoldLeft(LAMBDA y, k : Set(y, c + k - 1, <<x.v[k], 0>>), zero, [k \in 1 .. len |-> k])
            IN IF Open(t) THEN [y EXCEPT !.n = Len(x.v)] ELSE y
       [] OTHER -> [m EXCEPT !.err = TRUE]

\* Items given to an aggregate, the next of them to place `next' if it names none.
Given(m, t, c, items, next) ==
  IF m.err \/ items = << >> THEN m
  ELSE LET it == Head(items)
           named == it.path # << >>
           d == Last(it.path)
           from == IF named THEN [k \in DOMAIN it.path |-> it.path[k].i] ELSE next
           p == Descent(t, from, it.x)
           to == IF named /\ p = from THEN Append(Front(p), d.j) ELSE p
           Put(y, i) == LET q == Append(Front(p), i) IN Denoted(y, Part(t, q), c + Distance(t, q), it.x)
           Region == Cells(c + Distance(t, from), SizeOf(Part(t, from)))
           Noted(y) == [y EXCEPT
                    !.n = IF Open(t) /\ to[1] >= @ THEN to[1] + 1 ELSE @,
                    !.seen = @ \cup (IF p # from /\ Region \cap m.given # {} THEN {"begun again"} ELSE {})
                               \cup {"open" : k \in {k \in 1 .. Len(to) - 1 : Open(Part(t, SubSeq(to, 1, k)))}}]
       IN IF (named /\ ~ Names(t, it.path)) \/ from = << >> \/ (~ named /\ Parts(t) = 0)
          THEN [m EXCEPT !.err = TRUE]
          ELSE Given(Noted(FoldLeft(Put, m, [k \in 1 .. Last(to) - Last(p) + 1 |-> Last(p) + k - 1])), t, c,
                     Tail(items), Following(t, to))

Blank(local) ==
  [mem |-> [a \in 0 .. Room - 1 |-> <<IF local THEN Unset ELSE 0, 0>>], n |-> NoLength, err |-> FALSE,
   given |-> {}, seen |-> {}]

Reference(d) ==
  LET Length0(m) == IF Open(d.type) /\ tree.t = "list" /\ m.n = NoLength THEN 0 ELSE m.n
      Sized(m) == [m EXCEPT !.n = SizeOf(Known(d.type, Length0(m)))]
  IN Sized(Denoted(Blank(d.local), d.type, 0, tree))

-----------------------------------------------------------------------------
\* An empty list, or a value that fits the object as it is.
InitializerInit ==
  /\ \E type \in DOMAIN Items, local \in BOOLEAN :
       /\ tree \in {[t |-> "list", items |-> << >>]}
                    \cup {x \in {i.x : i \in Items[type]} : x.t # "list" /\ Suits(type, x)}
       /\ decl = [type |-> type, local |-> local, toks |-> Spelled(tree)]
  /\ object = NotYet

\* The programmer writes one more item of the list.
Write ==
  /\ object = NotYet /\ tree.t = "list" /\ Len(tree.items) < MaxItems
  /\ \E i \in Items[decl.type] : tree' = [tree EXCEPT !.items = Append(@, i)]
  /\ decl' = [decl EXCEPT !.toks = Spelled(tree')]
  /\ UNCHANGED object

InitializerNext == Write \/ (ReadInitializer /\ UNCHANGED tree)

\* What tcc does otherwise: a list in braces clears nothing in a section; the parts of
\* a local aggregate are cleared when it is begun again without braces; an address is
\* added to the number the section has there; a string for a char, which calls for
\* a message and gets one, stores 0 in a section.
LeftOut(d, m) ==
  \/ "open" \in m.seen
  \/ ~ d.local /\ m.seen \cap {"cleared again", "number under address", "string for a char"} # {}
  \/ d.local /\ "begun again" \in m.seen

Agrees(m) ==
  /\ object.err <=> m.err
  /\ ~ m.err =>
       /\ object.size = m.n
       /\ \A a \in 0 .. object.size - 1 :
            LET r == {x \in object.rel : x[1] = a} IN
            /\ Cardinality(r) <= 1
            /\ <<object.mem[a], IF r = {} THEN 0 ELSE (CHOOSE x \in r : TRUE)[2]>> =
                 (IF decl.local /\ m.mem[a][2] # 0 THEN <<m.mem[a][2], 0>> ELSE m.mem[a])

\* An object is as long as its initializer makes it and every part has the last value
\* given to it, or 0, in a section as in a local variable, whatever order places are
\* named in, however deep, with or without braces, in ranges or one by one.
LastWins ==
  object # NotYet => \A m \in {Reference(decl)} : LeftOut(decl, m) \/ Agrees(m)
=============================================================================
