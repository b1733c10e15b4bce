------------------------------ MODULE MCLoading ------------------------------
(***************************************************************************)
(* Loading with two names.  The objects with the single symbol `f' have,   *)
(* between them, the shapes that reach each case of set_elf_sym(); the     *)
(* others have alignments, relocations, local symbols, link-once and       *)
(* skipped sections; the archives need their members in and against the    *)
(* order of the index.                                                     *)
(***************************************************************************)
EXTENDS Loading

Sec(name, size, align, rels) ==
  [name |-> name, type |-> IF name = "bss" THEN "nobits" ELSE "progbits",
   skip |-> name = "debug", once |-> name = "once",
   size |-> size, align |-> align, rels |-> rels]
Rel(off, sym) == [off |-> off, sym |-> sym]

Shape(n, bind, vis, aset, sec, shndx, val) ==
  [name |-> n, bind |-> bind, vis |-> vis, aset |-> aset,
   sec |-> sec, shndx |-> shndx, val |-> val]
Def(n, sec, val) == Shape(n, GLOBAL, Default, FALSE, sec, "section", val)
Ref(n) == Shape(n, GLOBAL, Default, FALSE, 0, UNDEF, 0)
LocalSym(sec, val) == Shape("local", LOCALB, Default, FALSE, sec, "section", val)

Object(s, y) == [secs |-> s, syms |-> y]
Text == <<Sec("text", 2, 2, << >>)>>

\* A reference, a weak one, strong, weak, hidden, protected and .set
\* definitions, BSS and COMMON ones.
OneSymbol ==
  { Object(<< >>, <<Ref("f")>>),
    Object(<< >>, <<Shape("f", WEAK, Hidden, FALSE, 0, UNDEF, 0)>>),
    Object(Text, <<Def("f", 1, 0)>>),
    Object(Text, <<Shape("f", WEAK, Default, FALSE, 1, "section", 1)>>),
    Object(Text, <<Shape("f", GLOBAL, Hidden, FALSE, 1, "section", 1)>>),
    Object(Text, <<Shape("f", GLOBAL, 3, FALSE, 1, "section", 1)>>),
    Object(Text, <<Shape("f", GLOBAL, Default, TRUE, 1, "section", 0)>>),
    Object(<<Sec("bss", 1, 1, << >>)>>, <<Def("f", 1, 0)>>),
    Object(<< >>, <<Shape("f", GLOBAL, Internal, FALSE, 0, "common", 1)>>) }

\* Uses f and g from an odd place, next to a symbol of its own.
Main ==
  Object(<<Sec("text", 3, 1, <<Rel(0, 1), Rel(1, 2), Rel(2, 3)>>), Sec("bss", 1, 2, << >>)>>,
         <<Ref("f"), LocalSym(2, 0), Ref("g")>>)
Pair ==
  Object(<<Sec("bss", 2, 2, << >>), Sec("text", 1, 2, <<Rel(0, 2), Rel(0, 1)>>)>>,
         <<LocalSym(2, 0), Def("g", 1, 1)>>)
Once(local) ==
  Object(<<Sec("once", 2, 1, <<Rel(1, 1), Rel(0, 2)>>), Sec("text", 1, 1, <<Rel(0, 2)>>)>>,
         <<LocalSym(local, 0), Shape("g", WEAK, Default, FALSE, 1, "section", 1)>>)
Skipping ==
  Object(<<Sec("debug", 1, 1, <<Rel(0, 1)>>), Sec("text", 1, 1, << >>)>>,
         <<LocalSym(1, 0), Def("g", 2, 0)>>)
Dangling ==
  Object(<<Sec("debug", 1, 1, << >>), Sec("text", 1, 1, <<Rel(0, 1)>>)>>, <<LocalSym(1, 0)>>)
Conflict ==
  Object(<<Sec("text", 1, 1, << >>), [Sec("bss", 1, 1, << >>) EXCEPT !.type = "progbits"]>>,
         << >>)

F == Object(Text, <<Def("f", 1, 0)>>)
FNeedsG == Object(<<Sec("text", 1, 1, <<Rel(0, 2)>>)>>, <<Def("f", 1, 0), Ref("g")>>)
GNeedsF == Object(<<Sec("text", 2, 2, <<Rel(1, 2)>>)>>, <<Def("g", 1, 1), Ref("f")>>)
Hides == Object(<<Sec("debug", 1, 1, << >>)>>, <<Def("f", 1, 0)>>)

Entry(n, m) == [name |-> n, member |-> m]
Archive(kind, o, ix) == [kind |-> kind, objs |-> o, index |-> ix]

MCItem ==
  {Archive("object", <<o>>, << >>) :
     o \in OneSymbol \cup {Main, Pair, Once(1), Once(2), Skipping, Dangling, Conflict}}
  \cup { Archive("archive", <<FNeedsG, GNeedsF>>, <<Entry("g", 2), Entry("f", 1)>>),
         Archive("archive", <<GNeedsF, F>>, <<Entry("f", 2), Entry("g", 1)>>),
         Archive("archive", <<F, FNeedsG>>, <<Entry("f", 1), Entry("f", 2)>>),
         Archive("archive", <<Hides>>, <<Entry("f", 1)>>),
         Archive("whole", <<Pair, FNeedsG>>, << >>) }
=============================================================================
