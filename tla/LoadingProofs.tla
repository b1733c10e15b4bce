---------------------------- MODULE LoadingProofs ----------------------------
(***************************************************************************)
(* Proofs about the resolution rule (LinkHistory) and about loading        *)
(* (Loading).                                                              *)
(***************************************************************************)
EXTENDS Loading, SequenceTheorems, WellFoundedInduction, TLAPS

\* Symbols with values in V.
Entry(V) == [bind : Bind, vis : Vis, aset : BOOLEAN, shndx : Shndx, val : V]

Typed(V) ==
  /\ table \in [Name -> Entry(V) \cup {None}]
  /\ claims \subseteq Name \X Entry(V)
  /\ clashed \in BOOLEAN

\* The table holds no local symbol, and a symbol is replaceable only if one
\* entered under its name was.
TableSound ==
  \A n \in Name : table[n] # None =>
    /\ table[n].bind # LOCALB
    /\ table[n].aset => \E c \in claims : c[1] = n /\ c[2].aset

\* What makes the promises inductive.
LinkInv(V) ==
  Typed(V) /\ TableSound /\ DefinedIffClaimed /\ StrongWins /\ NoSilentLoss
-----------------------------------------------------------------------------
\* set_elf_sym's outcome is again a symbol, and a symbol, once known, is never
\* made local by entering another.
LEMMA MergeType ==
  ASSUME NEW V, NEW old \in Entry(V), NEW new \in Entry(V)
  PROVE  /\ Merge(old, new) \in Entry(V)
         /\ old.bind # LOCALB /\ new.bind # LOCALB => Merge(old, new).bind # LOCALB
         /\ Merge(old, new).aset => old.aset \/ new.aset
         /\ Defined(Merge(old, new)) <=> Defined(old) \/ Defined(new)
<1> DEFINE seen == [old EXCEPT !.vis = MergeVis(old.vis, new.vis)]
<1>1. seen \in Entry(V)
  BY DEF Entry, MergeVis, Default
<1>2. CASE old = new
  BY <1>2 DEF Merge
<1>3. CASE old # new /\ ~ Defined(old)
  BY <1>3 DEF Merge, Overrides, Contest
<1>4. CASE old # new /\ Defined(old) /\ Overrides(old, new)
  <2>1. Merge(old, new) = Patch(seen, new)
    BY <1>4 DEF Merge
  <2>2. Defined(new)
    BY <1>4 DEF Overrides, Contest
  <2> QED
    BY <1>1, <1>4, <2>1, <2>2 DEF Patch, Entry, Defined
<1>5. CASE old # new /\ Defined(old) /\ ~ Overrides(old, new)
  <2>1. Merge(old, new) = seen
    BY <1>5 DEF Merge
  <2> QED
    BY <1>1, <1>5, <2>1 DEF Entry, Defined
<1> QED
  BY <1>2, <1>3, <1>4, <1>5

\* Entering a strong definition leaves a global definition with contents in the
\* table, and a global definition with contents stays one whatever is entered.
LEMMA MergeStrong ==
  ASSUME NEW V, NEW old \in Entry(V), NEW new \in Entry(V), ~ DynTable,
         old.bind # LOCALB, new.bind # LOCALB,
         \/ Strong(new)
         \/ Defined(old) /\ old.bind = GLOBAL /\ ~ IsBss(old)
  PROVE  LET m == Merge(old, new) IN
         Defined(m) /\ m.bind = GLOBAL /\ ~ IsBss(m)
<1> DEFINE seen == [old EXCEPT !.vis = MergeVis(old.vis, new.vis)]
<1>0. seen \in Entry(V) /\ seen.bind = old.bind /\ seen.shndx = old.shndx
  BY DEF Entry, MergeVis, Default
<1>1. CASE old = new
  BY <1>1 DEF Merge, Strong
<1>2. CASE old # new /\ ~ Defined(old)
  BY <1>2 DEF Merge, Strong, Overrides, Contest
<1>3. CASE old # new /\ Defined(old) /\ Overrides(old, new)
  <2>1. Merge(old, new) = Patch(seen, new)
    BY <1>3 DEF Merge
  <2>2. Defined(new) /\ new.bind = GLOBAL /\ (old.bind = WEAK \/ ~ IsBss(new))
    BY <1>3 DEF Overrides, Contest
  <2>3. ~ IsBss(new)
    BY <2>2 DEF Strong, GLOBAL, WEAK
  <2> QED
    BY <1>0, <2>1, <2>2, <2>3 DEF Patch, Entry, Defined, IsBss
<1>4. CASE old # new /\ Defined(old) /\ ~ Overrides(old, new)
  <2>1. Merge(old, new) = seen
    BY <1>4 DEF Merge
  <2>2. old.bind = GLOBAL /\ ~ IsBss(old)
    BY <1>4 DEF Strong, Overrides, Contest, Entry, Bind, GLOBAL, WEAK, LOCALB
  <2> QED
    BY <1>0, <1>4, <2>1, <2>2 DEF Defined, IsBss
<1> QED
  BY <1>1, <1>2, <1>3, <1>4

\* Without .set symbols and without a clash, a strong definition is the outcome
\* of the step that enters it and of every later one.
LEMMA MergeKeepsStrong ==
  ASSUME NEW V, NEW old \in Entry(V), NEW new \in Entry(V), ~ DynTable,
         old.bind # LOCALB, new.bind # LOCALB, ~ old.aset, ~ Clash(old, new)
  PROVE  LET m == Merge(old, new) IN
         /\ Strong(new) => m.val = new.val /\ m.shndx = new.shndx
         /\ Defined(old) /\ old.bind = GLOBAL /\ ~ IsBss(old)
              => m.val = old.val /\ m.shndx = old.shndx
<1> DEFINE seen == [old EXCEPT !.vis = MergeVis(old.vis, new.vis)]
<1>0. /\ seen \in Entry(V) /\ seen.bind = old.bind /\ seen.shndx = old.shndx
      /\ seen.val = old.val
  BY DEF Entry, MergeVis, Default
<1>1. CASE old = new
  BY <1>1 DEF Merge
<1>2. CASE old # new /\ ~ Defined(old)
  BY <1>2 DEF Merge, Overrides, Contest
<1>3. CASE old # new /\ Defined(old) /\ Overrides(old, new)
  <2>1. Merge(old, new) = Patch(seen, new)
    BY <1>3 DEF Merge
  <2>2. ~ (old.bind = GLOBAL /\ ~ IsBss(old))
    BY <1>3 DEF Overrides, Contest, GLOBAL, WEAK
  <2>3. Merge(old, new).val = new.val /\ Merge(old, new).shndx = new.shndx
    BY <1>0, <2>1 DEF Patch, Entry
  <2> QED
    BY <2>2, <2>3
<1>4. CASE old # new /\ Defined(old) /\ ~ Overrides(old, new)
  <2>1. Merge(old, new) = seen
    BY <1>4 DEF Merge
  <2>2. ~ Strong(new)
    BY <1>4 DEF Strong, Overrides, Contest, Clash, Entry, Bind, GLOBAL, WEAK, LOCALB
  <2> QED
    BY <1>0, <2>1, <2>2
<1> QED
  BY <1>1, <1>2, <1>3, <1>4
-----------------------------------------------------------------------------
\* Initially nothing is known and nothing was entered.
LEMMA LinkStart == ASSUME NEW V, HInit PROVE LinkInv(V)
BY DEF HInit, Init, LinkInv, Typed, TableSound, DefinedIffClaimed, StrongWins,
       NoSilentLoss

\* Entering a symbol preserves every part of the invariant.
LEMMA EnterInv ==
  ASSUME NEW V, None \notin Entry(V), LinkInv(V), NEW n \in Name, NEW a \in Entry(V), HEnter(n, a)
  PROVE  LinkInv(V)'
<1> DEFINE old == table[n]
           new == IF old = None THEN a ELSE Merge(old, a)
<1>1. a \in Entry(V) /\ a.bind # LOCALB
  BY DEF HEnter, Enter
<1>2. old # None => old \in Entry(V) /\ old.bind # LOCALB
  BY DEF LinkInv, Typed, TableSound
<1>3. /\ table' = [table EXCEPT ![n] = new]
      /\ claims' = claims \cup {<<n, a>>}
      /\ clashed' = (clashed \/ (old # None /\ Clash(old, a)))
  BY DEF HEnter, Enter
<1>4. /\ new \in Entry(V) /\ new # None /\ new.bind # LOCALB
      /\ new.aset => a.aset \/ (old # None /\ old.aset)
      /\ Defined(new) <=> Defined(a) \/ (old # None /\ Defined(old))
  BY <1>1, <1>2, MergeType
<1>5. table' \in [Name -> Entry(V) \cup {None}] /\ table'[n] = new
  BY <1>3, <1>4 DEF LinkInv, Typed
<1>6. \A m \in Name \ {n} :
        /\ table'[m] = table[m]
        /\ \A c \in claims' : c[1] = m => c \in claims
  BY <1>3 DEF LinkInv, Typed
<1>7. Typed(V)'
  BY <1>1, <1>3, <1>5 DEF LinkInv, Typed, Clash, Contest
<1>8. TableSound'
  <2>1. ASSUME NEW m \in Name \ {n}, table'[m] # None
        PROVE  /\ table'[m].bind # LOCALB
               /\ table'[m].aset => \E c \in claims' : c[1] = m /\ c[2].aset
    BY <1>3, <1>6, <2>1 DEF LinkInv, TableSound
  <2>2. new.aset => \E c \in claims' : c[1] = n /\ c[2].aset
    <3>1. CASE a.aset
      <4>1. <<n, a>> \in claims' /\ <<n, a>>[1] = n /\ <<n, a>>[2].aset
        BY <1>3, <3>1
      <4> QED
        BY <4>1
    <3>2. CASE old # None /\ old.aset
      BY <1>3, <3>2 DEF LinkInv, TableSound
    <3> QED
      BY <1>4, <3>1, <3>2
  <2> QED
    BY <1>4, <1>5, <2>1, <2>2 DEF TableSound
<1>9. DefinedIffClaimed'
  <2>1. ASSUME NEW m \in Name \ {n}
        PROVE  /\ table'[m] = None <=> \A c \in claims' : c[1] # m
               /\ table'[m] # None => (Defined(table'[m]) <=>
                    \E c \in claims' : c[1] = m /\ Defined(c[2]))
    BY <1>3, <1>6 DEF LinkInv, DefinedIffClaimed
  <2>2. /\ table'[n] # None /\ \E c \in claims' : c[1] = n
        /\ Defined(table'[n]) <=> \E c \in claims' : c[1] = n /\ Defined(c[2])
    <3>1. <<n, a>> \in claims' /\ <<n, a>>[1] = n /\ <<n, a>>[2] = a
      BY <1>3
    <3>2. CASE old = None
      <4>1. \A c \in claims' : c[1] = n => c[2] = a
        BY <1>3, <3>2 DEF LinkInv, DefinedIffClaimed
      <4> QED
        BY <1>4, <1>5, <3>1, <3>2, <4>1
    <3>3. CASE old # None
      <4>1. Defined(old) <=> \E c \in claims : c[1] = n /\ Defined(c[2])
        BY <3>3 DEF LinkInv, DefinedIffClaimed
      <4> QED
        BY <1>3, <1>4, <1>5, <3>1, <3>3, <4>1
    <3> QED
      BY <3>2, <3>3
  <2> QED
    BY <2>1, <2>2 DEF DefinedIffClaimed
<1>10. StrongWins'
  <2> SUFFICES ASSUME ~ DynTable, NEW m \in Name, NEW c \in claims',
                      c[1] = m, Strong(c[2])
               PROVE  /\ table'[m] # None
                      /\ Defined(table'[m]) /\ table'[m].bind = GLOBAL
                      /\ ~ IsBss(table'[m])
    BY DEF StrongWins
  <2>1. CASE m # n
    BY <1>6, <2>1 DEF LinkInv, StrongWins
  <2>2. CASE m = n /\ old = None
    <3>1. c[2] = a
      BY <1>3, <2>2 DEF LinkInv, DefinedIffClaimed
    <3> QED
      BY <1>4, <1>5, <2>2, <3>1 DEF Strong
  <2>3. CASE m = n /\ old # None
    <3>1. Strong(a) \/ (Defined(old) /\ old.bind = GLOBAL /\ ~ IsBss(old))
      BY <1>3, <2>3 DEF LinkInv, StrongWins
    <3>2. Defined(new) /\ new.bind = GLOBAL /\ ~ IsBss(new)
      BY <1>1, <1>2, <2>3, <3>1, MergeStrong
    <3> QED
      BY <1>4, <1>5, <2>3, <3>2
  <2> QED
    BY <2>1, <2>2, <2>3
<1>11. NoSilentLoss'
  <2> SUFFICES ASSUME ~ clashed', ~ DynTable, NEW c \in claims', Strong(c[2]),
                      \A d \in claims' : d[1] = c[1] => ~ d[2].aset
               PROVE  /\ table'[c[1]].val = c[2].val
                      /\ table'[c[1]].shndx = c[2].shndx
    BY DEF NoSilentLoss
  <2>0. c[1] \in Name
    BY <1>1, <1>3 DEF LinkInv, Typed
  <2>1. CASE c[1] # n
    BY <1>3, <1>6, <2>0, <2>1 DEF LinkInv, NoSilentLoss
  <2>2. CASE c[1] = n /\ old = None
    <3>1. c[2] = a
      BY <1>3, <2>2 DEF LinkInv, DefinedIffClaimed
    <3> QED
      BY <1>5, <2>2, <3>1
  <2>3. CASE c[1] = n /\ old # None
    <3>1. ~ old.aset /\ ~ Clash(old, a)
      BY <1>3, <2>3 DEF LinkInv, TableSound
    <3>2. /\ Strong(a) => new.val = a.val /\ new.shndx = a.shndx
          /\ Defined(old) /\ old.bind = GLOBAL /\ ~ IsBss(old)
                => new.val = old.val /\ new.shndx = old.shndx
      BY <1>1, <1>2, <2>3, <3>1, MergeKeepsStrong
    <3>3. CASE c \in claims
      <4>1. Defined(old) /\ old.bind = GLOBAL /\ ~ IsBss(old)
        BY <2>3, <3>3 DEF LinkInv, StrongWins
      <4>2. old.val = c[2].val /\ old.shndx = c[2].shndx
        BY <1>3, <2>3, <3>3 DEF LinkInv, NoSilentLoss
      <4> QED
        BY <1>5, <2>3, <3>2, <4>1, <4>2
    <3>4. CASE c = <<n, a>>
      BY <1>5, <2>3, <3>2, <3>4
    <3> QED
      BY <1>3, <3>3, <3>4
  <2> QED
    BY <2>1, <2>2, <2>3
<1> QED
  BY <1>7, <1>8, <1>9, <1>10, <1>11 DEF LinkInv

\* What enters no symbol preserves it.
LEMMA LinkSame == ASSUME NEW V, LinkInv(V), UNCHANGED hvars PROVE LinkInv(V)'
BY DEF hvars, LinkInv, Typed, TableSound, DefinedIffClaimed, StrongWins, NoSilentLoss

\* So does every step of the history of a table, stuttering included.
LEMMA HistoryNext == LinkInv(Value) /\ [HNext]_hvars => LinkInv(Value)'
<1> SUFFICES ASSUME LinkInv(Value), [HNext]_hvars PROVE LinkInv(Value)'
  OBVIOUS
<1>1. CASE HNext
  BY <1>1, EnterInv, TableAssumption DEF HNext, Entry, Attr
<1>2. CASE UNCHANGED hvars
  BY <1>2, LinkSame
<1> QED
  BY <1>1, <1>2

\* The whole invariant, of which the theorems below are parts.
THEOREM LinkInvariant == HSpec => []LinkInv(Value)
<1>1. HInit => LinkInv(Value)
  BY LinkStart
<1> QED
  BY <1>1, HistoryNext, PTL DEF HSpec

\* Types: the table is a map from names to symbols (set_elf_sym).
THEOREM LinkTypes == HSpec => []TypeOK
BY LinkInvariant, PTL DEF LinkInv, Typed, TypeOK, Entry, Attr

\* Strong definitions win over weak, BSS and COMMON ones in every order of
\* entry, for any number of names, sections and files.
THEOREM StrongDefinitionsWin == HSpec => []StrongWins
BY LinkInvariant, PTL DEF LinkInv

\* No strong definition is dropped without "defined twice" being reported.
THEOREM StrongDefinitionsAreNotLost == HSpec => []NoSilentLoss
BY LinkInvariant, PTL DEF LinkInv

\* The table knows exactly the names entered, and as defined exactly those
\* some definition was entered for.
THEOREM NothingForgotten == HSpec => []DefinedIffClaimed
BY LinkInvariant, PTL DEF LinkInv
-----------------------------------------------------------------------------
(* Loading: where things are put.                                          *)

CellType == Nat \X Nat \X Nat
SmType == [how : {"none", "once", "here"}, off : Nat]
MapType == {NoSym} \cup [local : {FALSE}, name : Name]
                   \cup [local : {TRUE}, shndx : Shndx, val : Nat]
RelType == [off : Nat, sym : MapType, from : CellType]

SectionTypes == UNION {{s.type : s \in Range(o.secs)} : o \in Objects}
SectionType == [type : SectionTypes, cells : Seq(CellType), rels : Seq(RelType)]
Linkable == Section \cap SectionNames

\* What s1->sections may be.
Linked == UNION {[D -> SectionType] : D \in SUBSET Linkable}

\* The state of the loop over the sections of an object.
AccType == [secs : Linked, sm : Seq(SmType), ok : BOOLEAN]

\* A section that some object has.
SectionHere(s) ==
  /\ s.name \in SectionNames /\ s.type \in SectionTypes
  /\ s.skip \in BOOLEAN /\ s.once \in BOOLEAN /\ s.size \in Nat /\ s.align \in Nat \ {0}
  /\ s.skip \/ s.name \in Section

\* The objects on the command line are as LoadingAssumption says.
LEMMA ObjectFacts ==
  ASSUME NEW o \in Objects
  PROVE  /\ o.secs \in Seq(Range(o.secs)) /\ o.syms \in Seq(Range(o.syms))
         /\ \A i \in DOMAIN o.secs : SectionHere(o.secs[i]) /\ SectionOK(o, o.secs[i])
         /\ \A j \in DOMAIN o.syms : SymbolOK(o, o.syms[j])
<1>1. /\ o.secs \in Seq(Range(o.secs)) /\ o.syms \in Seq(Range(o.syms))
      /\ \A s \in Range(o.secs) : SectionOK(o, s)
      /\ \A y \in Range(o.syms) : SymbolOK(o, y)
  BY LoadingAssumption
<1>2. \A j \in DOMAIN o.syms : o.syms[j] \in Range(o.syms)
  BY DEF Range
<1>3. ASSUME NEW i \in DOMAIN o.secs
      PROVE  SectionHere(o.secs[i]) /\ SectionOK(o, o.secs[i])
  <2>1. o.secs[i] \in Range(o.secs)
    BY DEF Range
  <2>2. o.secs[i].name \in SectionNames
    BY <2>1 DEF SectionNames
  <2>3. o.secs[i].type \in SectionTypes
    BY <2>1 DEF SectionTypes
  <2> QED
    BY <1>1, <2>1, <2>2, <2>3 DEF SectionOK, SectionHere
<1> QED
  BY <1>1, <1>2, <1>3

\* section_add() aligns upwards.
LEMMA AlignUpFacts ==
  ASSUME NEW n \in Nat, NEW a \in Nat \ {0}
  PROVE  AlignUp(n, a) \in Nat /\ AlignUp(n, a) >= n /\ (n = 0 => AlignUp(n, a) = 0)
<1> DEFINE x == n + a - 1
           q == x \div a
           r == x % a
<1>1. x \in Nat /\ q \in Nat /\ r \in 0 .. a - 1 /\ x = a * q + r
  OBVIOUS
<1>2. n = 0 => q = 0
  OBVIOUS
<1> HIDE DEF q, r
<1>3. q * a = x - r /\ q * a \in Nat
  BY <1>1
<1> QED
  BY <1>1, <1>2, <1>3 DEF AlignUp, q
\* Cells are only ever appended.
Longer(c, d) == Len(c) <= Len(d) /\ \A k \in 1 .. Len(c) : d[k] = c[k]

\* What is appended to the cells or relocations of a section leaves the others
\* where they are.
Cat(d, b, e) == e = d \o b

\* The concatenation of two sequences, element by element.
LEMMA CatFacts ==
  ASSUME NEW X, NEW d \in Seq(X), NEW b \in Seq(X), NEW e, Cat(d, b, e)
  PROVE  /\ e \in Seq(X) /\ Len(e) = Len(d) + Len(b)
         /\ DOMAIN e = 1 .. Len(d) + Len(b)
         /\ \A k \in 1 .. Len(d) : e[k] = d[k]
         /\ \A k \in 1 .. Len(b) : e[Len(d) + k] = b[k]
<1>0. e = d \o b
  BY DEF Cat
<1>1. /\ e \in Seq(X) /\ Len(e) = Len(d) + Len(b)
      /\ \A i \in 1 .. Len(d) + Len(b) : e[i] = IF i <= Len(d) THEN d[i] ELSE b[i - Len(d)]
  BY <1>0, ConcatProperties
<1>2. Len(d) \in Nat /\ Len(b) \in Nat
  OBVIOUS
<1>3. ASSUME NEW k \in 1 .. Len(b) PROVE e[Len(d) + k] = b[k]
  <2> DEFINE j == Len(d) + k
  <2>1. j \in 1 .. Len(d) + Len(b) /\ ~ (j <= Len(d)) /\ j - Len(d) = k
    BY <1>2
  <2> HIDE DEF j
  <2>2. e[j] = b[k]
    BY <1>1, <2>1
  <2> QED
    BY <2>2 DEF j
<1>4. ASSUME NEW k \in 1 .. Len(d) PROVE e[k] = d[k]
  BY <1>1, <1>2
<1> QED
  BY <1>1, <1>3, <1>4

\* section_add() puts the bytes of the section at the aligned offset.
LEMMA GrownFacts ==
  ASSUME NEW c \in Seq(CellType), NEW s, SectionHere(s), NEW n \in Nat, NEW i \in Nat
  PROVE  LET off == AlignUp(Len(c), s.align) IN
         /\ Grown(c, s, n, i) \in Seq(CellType)
         /\ Longer(c, Grown(c, s, n, i))
         /\ Len(Grown(c, s, n, i)) = off + s.size
         /\ \A k \in 0 .. s.size - 1 : Grown(c, s, n, i)[off + k + 1] = <<n, i, k>>
<1> DEFINE off == AlignUp(Len(c), s.align)
           gap == off - Len(c)
           p == [k \in 1 .. gap |-> <<0, 0, 0>>]
           b == [k \in 1 .. s.size |-> <<n, i, k - 1>>]
<1>1. off \in Nat /\ gap \in Nat /\ Len(c) \in Nat /\ s.size \in Nat /\ off = Len(c) + gap
  <2>1. Len(c) \in Nat /\ s.align \in Nat \ {0} /\ s.size \in Nat
    BY DEF SectionHere
  <2>2. off \in Nat /\ off >= Len(c)
    BY <2>1, AlignUpFacts
  <2> HIDE DEF off
  <2> QED
    BY <2>1, <2>2
<1> HIDE DEF off, gap
<1>2. p \in Seq(CellType) /\ Len(p) = gap
  <2>1. p \in [1 .. gap -> CellType]
    BY DEF CellType
  <2> QED
    BY <1>1, <2>1
<1>3. b \in Seq(CellType) /\ Len(b) = s.size /\ \A k \in 0 .. s.size - 1 : b[k + 1] = <<n, i, k>>
  <2>1. b \in [1 .. s.size -> CellType]
    BY <1>1 DEF CellType
  <2>2. \A k \in 0 .. s.size - 1 : k + 1 \in 1 .. s.size /\ k + 1 - 1 = k
    BY <1>1
  <2>3. \A k \in 1 .. s.size : b[k] = <<n, i, k - 1>>
    OBVIOUS
  <2>4. DOMAIN b = 1 .. s.size
    OBVIOUS
  <2> HIDE DEF b
  <2>5. b \in Seq(CellType) /\ Len(b) = s.size
    BY <1>1, <2>1, <2>4
  <2>6. \A k \in 0 .. s.size - 1 : b[k + 1] = <<n, i, k>>
    BY <2>2, <2>3
  <2> QED
    BY <2>5, <2>6
<1>4. Grown(c, s, n, i) = (c \o p) \o b
  BY DEF Grown, off, gap
<1> HIDE DEF p, b
<1> DEFINE d == c \o p
<1>5. d \in Seq(CellType) /\ Len(d) = off /\ \A k \in 1 .. Len(c) : d[k] = c[k]
  BY <1>1, <1>2
<1> HIDE DEF d
<1> DEFINE e == d \o b
<1>6. /\ e \in Seq(CellType) /\ Len(e) = off + s.size
      /\ \A k \in 1 .. off : e[k] = d[k]
      /\ \A k \in 1 .. s.size : e[off + k] = b[k]
  <2>1. Cat(d, b, e)
    BY DEF Cat
  <2> HIDE DEF e
  <2>2. /\ e \in Seq(CellType) /\ Len(e) = Len(d) + Len(b)
        /\ \A k \in 1 .. Len(d) : e[k] = d[k]
        /\ \A k \in 1 .. Len(b) : e[Len(d) + k] = b[k]
    BY <1>3, <1>5, <2>1, CatFacts
  <2> QED
    BY <2>2, <1>3, <1>5
<1> HIDE DEF e
<1>7. \A k \in 0 .. s.size - 1 : e[off + k + 1] = <<n, i, k>>
  <2> TAKE k \in 0 .. s.size - 1
  <2>1. k + 1 \in 1 .. s.size /\ off + (k + 1) = off + k + 1
    BY <1>1
  <2> QED
    BY <1>3, <1>6, <2>1
<1>8. Longer(c, e)
  BY <1>1, <1>5, <1>6 DEF Longer
<1> QED
  BY <1>4, <1>6, <1>7, <1>8 DEF d, e, off

\* What a section added to S may have changed: cells appended, sections added.
Grew(S, T) ==
  /\ DOMAIN S \subseteq DOMAIN T
  /\ \A x \in DOMAIN S : T[x].rels = S[x].rels /\ Longer(S[x].cells, T[x].cells)
  /\ \A x \in DOMAIN T \ DOMAIN S : T[x].rels = << >>

\* An element of Linked is a function on names of sections.
LEMMA LinkedIs ==
  \A S : S \in Linked <=> /\ DOMAIN S \subseteq Linkable
                          /\ S = [x \in DOMAIN S |-> S[x]]
                          /\ \A x \in DOMAIN S : S[x] \in SectionType
<1> TAKE S
<1>1. ASSUME S \in Linked
      PROVE  /\ DOMAIN S \subseteq Linkable /\ S = [x \in DOMAIN S |-> S[x]]
             /\ \A x \in DOMAIN S : S[x] \in SectionType
  <2>1. PICK D \in SUBSET Linkable : S \in [D -> SectionType]
    BY <1>1 DEF Linked
  <2> QED
    BY <2>1
<1>2. ASSUME DOMAIN S \subseteq Linkable, S = [x \in DOMAIN S |-> S[x]],
             \A x \in DOMAIN S : S[x] \in SectionType
      PROVE  S \in Linked
  <2>1. S \in [DOMAIN S -> SectionType]
    BY <1>2
  <2> QED
    BY <1>2, <2>1 DEF Linked
<1> QED
  BY <1>1, <1>2

\* Growing twice is growing.
LEMMA GrewTwice ==
  ASSUME NEW S \in Linked, NEW T \in Linked, NEW U \in Linked, Grew(S, T), Grew(T, U)
  PROVE  Grew(S, U)
<1>1. ASSUME NEW x \in DOMAIN S
      PROVE  U[x].rels = S[x].rels /\ Longer(S[x].cells, U[x].cells)
  <2>1. x \in DOMAIN T /\ T[x].rels = S[x].rels /\ U[x].rels = T[x].rels
        /\ Longer(S[x].cells, T[x].cells) /\ Longer(T[x].cells, U[x].cells)
    BY DEF Grew
  <2>2. S[x].cells \in Seq(CellType) /\ T[x].cells \in Seq(CellType) /\ U[x].cells \in Seq(CellType)
    <3>1. x \in DOMAIN U
      BY <2>1 DEF Grew
    <3> QED
      BY <2>1, <3>1, LinkedIs DEF SectionType
  <2>3. Len(S[x].cells) \in Nat /\ Len(T[x].cells) \in Nat /\ Len(U[x].cells) \in Nat
    BY <2>2
  <2> QED
    BY <2>1, <2>3 DEF Longer
<1>2. ASSUME NEW x \in DOMAIN U \ DOMAIN S PROVE U[x].rels = << >>
  BY DEF Grew
<1> QED
  BY <1>1, <1>2 DEF Grew

\* new_section() adds an empty section, unless there is one of the name.
LEMMA WithSectionFacts ==
  ASSUME NEW S \in Linked, NEW s, SectionHere(s), ~ s.skip
  PROVE  /\ WithSection(S, s) \in Linked /\ Grew(S, WithSection(S, s))
         /\ DOMAIN WithSection(S, s) = DOMAIN S \cup {s.name}
         /\ s.name \notin DOMAIN S => WithSection(S, s)[s.name].cells = << >>
<1> DEFINE W == WithSection(S, s)
           fresh == [type |-> s.type, cells |-> << >>, rels |-> << >>]
<1>1. W = [x \in DOMAIN S \cup {s.name} |-> IF x \in DOMAIN S THEN S[x] ELSE fresh]
  BY DEF WithSection
<1>2. fresh \in SectionType /\ fresh.cells = << >> /\ fresh.rels = << >>
  BY DEF SectionType, SectionHere
<1> HIDE DEF fresh, W
<1>3. DOMAIN W = DOMAIN S \cup {s.name} /\ W = [x \in DOMAIN W |-> W[x]]
  BY <1>1
<1>4. \A x \in DOMAIN S : W[x] = S[x]
  BY <1>1
<1>5. \A x \in DOMAIN W \ DOMAIN S : W[x] = fresh /\ x = s.name
  BY <1>1, <1>3
<1>6. DOMAIN W \subseteq Linkable /\ \A x \in DOMAIN W : W[x] \in SectionType
  BY <1>2, <1>3, <1>4, <1>5, LinkedIs DEF SectionHere, Linkable
<1>7. W \in Linked
  BY <1>3, <1>6, LinkedIs
<1>8. ASSUME NEW x \in DOMAIN S PROVE W[x].rels = S[x].rels /\ Longer(S[x].cells, W[x].cells)
  <2>1. S[x].cells \in Seq(CellType)
    BY LinkedIs DEF SectionType
  <2> QED
    BY <1>4, <2>1 DEF Longer
<1>9. Grew(S, W)
  BY <1>2, <1>3, <1>5, <1>8 DEF Grew
<1> QED
  BY <1>2, <1>3, <1>5, <1>7, <1>9 DEF W

\* Section s, the i-th of the n-th object, lies at offset off.
Holds(S, n, i, s, off) ==
  /\ s.name \in DOMAIN S /\ off + s.size <= Len(S[s.name].cells)
  /\ \A k \in 0 .. s.size - 1 : S[s.name].cells[off + k + 1] = <<n, i, k>>

\* What has been put somewhere stays there.
LEMMA HoldsOn ==
  ASSUME NEW S \in Linked, NEW T \in Linked, Grew(S, T), NEW n, NEW i, NEW s, NEW off \in Nat,
         s.size \in Nat, Holds(S, n, i, s, off)
  PROVE  Holds(T, n, i, s, off)
<1> DEFINE c == S[s.name].cells
           d == T[s.name].cells
<1>1. s.name \in DOMAIN T /\ Longer(c, d)
  BY DEF Holds, Grew
<1>2. Len(c) \in Nat /\ Len(d) \in Nat
  <2>1. c \in Seq(CellType) /\ d \in Seq(CellType)
    BY <1>1, LinkedIs DEF Holds, SectionType
  <2> QED
    BY <2>1
<1>3. off + s.size <= Len(c) /\ \A k \in 0 .. s.size - 1 : c[off + k + 1] = <<n, i, k>>
  BY DEF Holds
<1> HIDE DEF c, d
<1>4. Len(c) <= Len(d) /\ \A k \in 0 .. s.size - 1 : off + k + 1 \in 1 .. Len(c)
  BY <1>1, <1>2, <1>3 DEF Longer
<1>5. off + s.size <= Len(d)
  BY <1>2, <1>3, <1>4
<1>6. \A k \in 0 .. s.size - 1 : d[off + k + 1] = <<n, i, k>>
  BY <1>1, <1>3, <1>4 DEF Longer
<1> QED
  BY <1>1, <1>5, <1>6 DEF Holds, d

\* Cells appended to one section.
LEMMA CellsAppended ==
  ASSUME NEW W \in Linked, NEW x \in DOMAIN W, NEW g \in Seq(CellType), Longer(W[x].cells, g)
  PROVE  LET T == [W EXCEPT ![x].cells = g] IN
         T \in Linked /\ Grew(W, T) /\ DOMAIN T = DOMAIN W /\ T[x].cells = g
<1> DEFINE T == [W EXCEPT ![x].cells = g]
<1>1. /\ DOMAIN W \subseteq Linkable /\ W = [y \in DOMAIN W |-> W[y]]
      /\ \A y \in DOMAIN W : W[y] \in SectionType
  BY LinkedIs
<1>2. /\ DOMAIN T = DOMAIN W /\ T = [y \in DOMAIN T |-> T[y]]
      /\ \A y \in DOMAIN W : y # x => T[y] = W[y]
      /\ T[x] = [W[x] EXCEPT !.cells = g]
  BY <1>1
<1>3. T[x] \in SectionType /\ T[x].cells = g /\ T[x].rels = W[x].rels
  BY <1>1, <1>2 DEF SectionType
<1> HIDE DEF T
<1>4. T \in Linked
  BY <1>1, <1>2, <1>3, LinkedIs
<1>5. ASSUME NEW y \in DOMAIN W PROVE T[y].rels = W[y].rels /\ Longer(W[y].cells, T[y].cells)
  <2>1. W[y].cells \in Seq(CellType)
    BY <1>1 DEF SectionType
  <2>2. Longer(W[y].cells, W[y].cells)
    BY <2>1 DEF Longer
  <2> QED
    BY <2>2, <1>2, <1>3
<1>6. Grew(W, T)
  BY <1>2, <1>5 DEF Grew
<1> QED
  BY <1>2, <1>3, <1>4, <1>6 DEF T

\* What one section of an object becomes, S before and T after it.
TookSection(S, T, e, s, n, i) ==
  /\ Grew(S, T) /\ DOMAIN T = DOMAIN S \cup (IF e.how = "none" THEN {} ELSE {s.name})
  /\ e \in SmType /\ (e.how = "none" <=> s.skip)
  /\ e.how = "once" => s.once /\ e.off = 0 /\ s.name \in DOMAIN S
  /\ e.how = "here" =>
       /\ Holds(T, n, i, s, e.off)
       /\ IF s.name \in DOMAIN S THEN ~ s.once ELSE e.off = 0

\* One round of the loop over the sections.
LEMMA MergeOneFacts ==
  ASSUME NEW a \in AccType, NEW s, SectionHere(s), NEW n \in Nat, NEW i \in Nat
  PROVE  LET m == MergeOne(a, s, n, i) IN
         /\ m \in AccType
         /\ m.ok => a.ok /\ \E e \in SmType :
                              m.sm = Append(a.sm, e) /\ TookSection(a.secs, m.secs, e, s, n, i)
<1> DEFINE m == MergeOne(a, s, n, i)
           W == WithSection(a.secs, s)
           c == W[s.name].cells
           off == AlignUp(Len(c), s.align)
           found == s.name \in DOMAIN a.secs
           g == Grown(c, s, n, i)
           T == [W EXCEPT ![s.name].cells = g]
           Took(S, e) == [secs |-> S, sm |-> Append(a.sm, e), ok |-> a.ok]
<1>0. /\ a.secs \in Linked /\ a.sm \in Seq(SmType) /\ a.ok \in BOOLEAN
      /\ a = [secs |-> a.secs, sm |-> a.sm, ok |-> a.ok]
  BY DEF AccType
<1>1. \A how \in {"none", "once", "here"}, x \in Nat :
        Sm(how, x) \in SmType /\ Sm(how, x).how = how /\ Sm(how, x).off = x
  BY DEF Sm, SmType
<1>2. ASSUME NEW S \in Linked, NEW e \in SmType, NEW m1, m1 = Took(S, e)
      PROVE  m1 \in AccType /\ m1.ok = a.ok /\ m1.secs = S /\ m1.sm = Append(a.sm, e)
  <2> DEFINE q == Append(a.sm, e)
  <2>1. q \in Seq(SmType)
    BY <1>0
  <2> HIDE DEF q
  <2> QED
    BY <1>0, <1>2, <2>1 DEF AccType, q
<1>3. Grew(a.secs, a.secs)
  <2> SUFFICES ASSUME NEW x \in DOMAIN a.secs PROVE Longer(a.secs[x].cells, a.secs[x].cells)
    BY DEF Grew
  <2>1. a.secs[x].cells \in Seq(CellType)
    BY <1>0, LinkedIs DEF SectionType
  <2> QED
    BY <2>1 DEF Longer
<1> SUFFICES /\ m \in AccType
             /\ m.ok => a.ok /\ \E e \in SmType :
                              m.sm = Append(a.sm, e) /\ TookSection(a.secs, m.secs, e, s, n, i)
  OBVIOUS
<1>4. CASE ~ a.ok
  BY <1>4 DEF MergeOne
<1>5. CASE a.ok /\ s.skip
  <2> DEFINE e == Sm("none", 0)
  <2>1. m = Took(a.secs, e)
    BY <1>0, <1>5 DEF MergeOne
  <2>2. e \in SmType /\ e.how = "none"
    BY <1>1
  <2> HIDE DEF e, m
  <2>3. m \in AccType /\ m.secs = a.secs /\ m.sm = Append(a.sm, e)
    BY <1>0, <1>2, <2>1, <2>2
  <2>4. TookSection(a.secs, m.secs, e, s, n, i)
    BY <1>3, <1>5, <2>2, <2>3 DEF TookSection
  <2> QED
    BY <1>5, <2>2, <2>3, <2>4
<1>6. CASE a.ok /\ ~ s.skip /\ found /\ W[s.name].type # s.type
  <2>1. m = [a EXCEPT !.ok = FALSE]
    BY <1>6 DEF MergeOne
  <2> QED
    BY <1>0, <2>1 DEF AccType
<1>7. CASE a.ok /\ ~ s.skip /\ found /\ W[s.name].type = s.type /\ s.once
  <2> DEFINE e == Sm("once", 0)
  <2>1. m = Took(a.secs, e)
    BY <1>0, <1>7 DEF MergeOne
  <2>2. e \in SmType /\ e.how = "once" /\ e.off = 0
    BY <1>1
  <2> HIDE DEF e, m
  <2>3. m \in AccType /\ m.secs = a.secs /\ m.sm = Append(a.sm, e)
    BY <1>0, <1>2, <2>1, <2>2
  <2>4. TookSection(a.secs, m.secs, e, s, n, i)
    BY <1>3, <1>7, <2>2, <2>3 DEF TookSection
  <2> QED
    BY <1>7, <2>2, <2>3, <2>4
<1>8. CASE a.ok /\ ~ s.skip /\ ~ (found /\ W[s.name].type # s.type) /\ ~ (found /\ s.once)
  <2> DEFINE e == Sm("here", off)
  <2>1. m = Took(T, e)
    BY <1>0, <1>8 DEF MergeOne
  <2>2. /\ W \in Linked /\ Grew(a.secs, W) /\ DOMAIN W = DOMAIN a.secs \cup {s.name}
        /\ ~ found => c = << >>
    BY <1>0, <1>8, WithSectionFacts
  <2>3. c \in Seq(CellType) /\ Len(c) \in Nat /\ s.align \in Nat \ {0} /\ s.size \in Nat
    BY <2>2, LinkedIs DEF SectionType, SectionHere
  <2>4. off \in Nat /\ (~ found => off = 0)
    BY <2>2, <2>3, AlignUpFacts
  <2>5. /\ g \in Seq(CellType) /\ Longer(c, g) /\ Len(g) = off + s.size
        /\ \A k \in 0 .. s.size - 1 : g[off + k + 1] = <<n, i, k>>
    <3>1. LET p == AlignUp(Len(c), s.align) IN
          /\ Grown(c, s, n, i) \in Seq(CellType)
          /\ Longer(c, Grown(c, s, n, i))
          /\ Len(Grown(c, s, n, i)) = p + s.size
          /\ \A k \in 0 .. s.size - 1 : Grown(c, s, n, i)[p + k + 1] = <<n, i, k>>
      <4> HIDE DEF c, m, T, W, found, e
      <4>1. c \in Seq(CellType)
        BY <2>3
      <4> QED
        BY ZenonT(40), <4>1, GrownFacts
    <3> QED
      BY <3>1
  <2>6. e \in SmType /\ e.how = "here" /\ e.off = off
    BY <1>1, <2>4
  <2> HIDE DEF e, m, g, off
  <2>7. T \in Linked /\ Grew(W, T) /\ DOMAIN T = DOMAIN W /\ T[s.name].cells = g
    BY <2>2, <2>5, CellsAppended
  <2> HIDE DEF W, T
  <2>8. m \in AccType /\ m.secs = T /\ m.sm = Append(a.sm, e)
    BY <1>2, <2>1, <2>6, <2>7
  <2>9. Grew(a.secs, T)
    BY <1>0, <2>2, <2>7, GrewTwice
  <2>10. Holds(T, n, i, s, off)
    BY SMTT(30), <2>2, <2>3, <2>4, <2>5, <2>7 DEF Holds
  <2>11. TookSection(a.secs, T, e, s, n, i)
    BY <1>8, <2>2, <2>4, <2>6, <2>7, <2>9, <2>10 DEF TookSection
  <2> QED
    BY <1>8, <2>6, <2>8, <2>11
<1> QED
  BY <1>0, <1>4, <1>5, <1>6, <1>7, <1>8

-----------------------------------------------------------------------------
(* Loops.                                                                  *)

\* A set of numbers that holds 0 and, up to n, the successors of its members,
\* holds all up to n.
LEMMA UpTo ==
  ASSUME NEW n \in Nat, NEW S, 0 \in S, \A k \in 0 .. n : k \in S /\ k < n => k + 1 \in S
  PROVE  \A k \in 0 .. n : k \in S
<1> DEFINE F == {k \in 0 .. n : k \notin S}
<1>1. SUFFICES ASSUME F # {} PROVE FALSE
  OBVIOUS
<1>2. F \subseteq Nat
  OBVIOUS
<1>3. PICK x \in F : \A y \in F : ~ (<<y, x>> \in OpToRel(<, Nat))
  BY <1>1, <1>2, NatLessThanWellFounded, WFMin
<1>4. x # 0 /\ x - 1 \in 0 .. n /\ x - 1 < x /\ x - 1 \in Nat
  OBVIOUS
<1>5. x - 1 \notin F
  BY <1>2, <1>3, <1>4 DEF OpToRel
<1>6. x - 1 \in S /\ x - 1 < n /\ x - 1 + 1 = x
  BY <1>4, <1>5
<1> QED
  BY <1>3, <1>4, <1>6

\* c is what n rounds of a loop make of a, round k applying f[k].
Rounds(c, n, a, f) == c[0] = a /\ \A k \in 1 .. n : c[k] = f[k][c[k - 1]]

\* A loop can go round as often as it likes.
LEMMA RoundsExist ==
  ASSUME NEW n \in Nat, NEW X, NEW a \in X, NEW f \in [1 .. n -> [X -> X]]
  PROVE  \E c \in [0 .. n -> X] : Rounds(c, n, a, f)
<1> DEFINE J == 0 .. n
           S == {m \in J : \E c \in [J -> X] : Rounds(c, m, a, f)}
<1>1. 0 \in S
  <2> DEFINE c == [k \in J |-> a]
  <2>1. c \in [J -> X] /\ c[0] = a
    OBVIOUS
  <2> HIDE DEF c
  <2>2. Rounds(c, 0, a, f)
    BY <2>1 DEF Rounds
  <2> QED
    BY <2>1, <2>2
<1>2. ASSUME NEW m \in 0 .. n, m \in S, m < n PROVE m + 1 \in S
  <2>1. PICK c \in [J -> X] : Rounds(c, m, a, f)
    BY <1>2
  <2> DEFINE x == f[m + 1][c[m]]
             d == [c EXCEPT ![m + 1] = x]
  <2>2. x \in X /\ m + 1 \in J
    BY <1>2
  <2> HIDE DEF x
  <2>3. d \in [J -> X] /\ d[m + 1] = x /\ \A k \in 0 .. m : d[k] = c[k]
    BY <2>2, <1>2
  <2> HIDE DEF d
  <2>4. ASSUME NEW k \in 1 .. m + 1 PROVE d[k] = f[k][d[k - 1]]
    <3>1. k - 1 \in 0 .. m /\ d[k - 1] = c[k - 1]
      BY <2>3
    <3>2. CASE k = m + 1
      <4>1. k - 1 = m
        BY <3>2
      <4> QED
        BY <3>1, <3>2, <4>1, <2>3 DEF x
    <3>3. CASE k # m + 1
      <4>1. k \in 1 .. m /\ k \in 0 .. m
        BY <3>3
      <4> QED
        BY <3>1, <4>1, <2>1, <2>3 DEF Rounds
    <3> QED
      BY <3>2, <3>3
  <2>5. d[0] = a
    BY <2>1, <2>3 DEF Rounds
  <2>6. Rounds(d, m + 1, a, f)
    BY <2>4, <2>5 DEF Rounds
  <2> QED
    BY <2>2, <2>3, <2>6
<1>3. n \in S
  <2> HIDE DEF S
  <2>1. \A k \in 0 .. n : k \in S
    BY <1>1, <1>2, UpTo
  <2> QED
    BY <2>1
<1> QED
  BY <1>3

\* The loop over the sections is as many rounds as there are sections.
LEMMA MergedIs ==
  ASSUME secs \in Linked, NEW o \in Objects, NEW n \in Nat
  PROVE  \E c \in [0 .. Len(o.secs) -> AccType] :
           /\ c[0] = [secs |-> secs, sm |-> << >>, ok |-> TRUE]
           /\ \A k \in 1 .. Len(o.secs) : c[k] = MergeOne(c[k - 1], o.secs[k], n, k)
           /\ Merged(o, n) = c[Len(o.secs)]
<1> DEFINE L == Len(o.secs)
           a == [secs |-> secs, sm |-> << >>, ok |-> TRUE]
           f == [k \in 1 .. L |-> [x \in AccType |-> MergeOne(x, o.secs[k], n, k)]]
           Rec(c) == c = [k \in 0 .. L |-> IF k = 0 THEN a ELSE MergeOne(c[k - 1], o.secs[k], n, k)]
           c == CHOOSE c : Rec(c)
<1>1. L \in Nat /\ \A k \in 1 .. L : SectionHere(o.secs[k])
  BY ObjectFacts
<1> HIDE DEF L
<1>2. f \in [1 .. L -> [AccType -> AccType]]
  <2> SUFFICES ASSUME NEW k \in 1 .. L, NEW x \in AccType PROVE MergeOne(x, o.secs[k], n, k) \in AccType
    OBVIOUS
  <2> QED
    BY <1>1, MergeOneFacts
<1>3. a \in AccType
  BY DEF AccType
<1> HIDE DEF a
<1>4. \E d : Rec(d)
  <2>1. \A k \in 1 .. L, x \in AccType : f[k][x] = MergeOne(x, o.secs[k], n, k)
    OBVIOUS
  <2> HIDE DEF f
  <2>2. PICK d \in [0 .. L -> AccType] : Rounds(d, L, a, f)
    BY <1>1, <1>2, <1>3, RoundsExist
  <2>3. d = [k \in 0 .. L |-> d[k]]
    BY <2>2
  <2>4. ASSUME NEW k \in 0 .. L
        PROVE  d[k] = IF k = 0 THEN a ELSE MergeOne(d[k - 1], o.secs[k], n, k)
    <3>1. CASE k = 0
      BY <3>1, <2>2 DEF Rounds
    <3>2. CASE k # 0
      <4>1. k \in 1 .. L /\ k - 1 \in 0 .. L
        BY <1>1, <3>2
      <4>2. d[k] = f[k][d[k - 1]] /\ d[k - 1] \in AccType
        BY <4>1, <2>2 DEF Rounds
      <4> QED
        BY <3>2, <4>1, <4>2, <2>1
    <3> QED
      BY <3>1, <3>2
  <2>5. Rec(d)
    BY <2>3, <2>4
  <2> QED
    BY <2>5
<1>5. Rec(c)
  BY <1>4, Zenon
<1>6. Merged(o, n) = c[L]
  BY DEF Merged, L, a
<1> HIDE DEF c
<1>7. \A k \in 0 .. L : c[k] = IF k = 0 THEN a ELSE MergeOne(c[k - 1], o.secs[k], n, k)
  BY <1>5
<1>8. c[0] = a /\ \A k \in 1 .. L : c[k] = MergeOne(c[k - 1], o.secs[k], n, k)
  <2>1. 0 \in 0 .. L /\ \A k \in 1 .. L : k \in 0 .. L /\ k # 0
    BY <1>1
  <2> QED
    BY <2>1, <1>7
<1>9. c \in [0 .. L -> AccType]
  <2> DEFINE S == {k \in 0 .. L : c[k] \in AccType}
  <2>1. 0 \in S
    BY <1>1, <1>3, <1>8
  <2>2. ASSUME NEW k \in 0 .. L, k \in S, k < L PROVE k + 1 \in S
    <3>1. k + 1 \in 1 .. L /\ k + 1 - 1 = k
      BY <1>1, <2>2
    <3>2. c[k + 1] = MergeOne(c[k], o.secs[k + 1], n, k + 1)
      BY <3>1, <1>8
    <3>3. SectionHere(o.secs[k + 1]) /\ k + 1 \in Nat /\ c[k] \in AccType
      BY <3>1, <1>1, <2>2
    <3>4. c[k + 1] \in AccType
      BY <3>2, <3>3, MergeOneFacts
    <3> QED
      BY <1>1, <3>1, <3>4
  <2> HIDE DEF S
  <2>3. \A k \in 0 .. L : k \in S
    BY <1>1, <2>1, <2>2, UpTo
  <2>4. \A k \in 0 .. L : c[k] \in AccType
    BY <2>3 DEF S
  <2> QED
    BY <2>4, <1>5
<1> QED
  BY <1>6, <1>8, <1>9 DEF L, a
-----------------------------------------------------------------------------
(* What BeginLoad leaves.  O is the sequence of the objects begun.         *)

OnceName(x) == \E o \in Objects : \E s \in Range(o.secs) : s.name = x /\ s.once

\* The n-th object has a section x, and it lies at the start of section x.
Holder(S, O, n, x) ==
  \E j \in DOMAIN O[n].secs : O[n].secs[j].name = x /\ Holds(S, n, j, O[n].secs[j], 0)

\* Every link-once section there is came from some object.
OnceHeld(S, O) == \A x \in DOMAIN S : OnceName(x) => \E n \in DOMAIN O : Holder(S, O, n, x)

\* Section i of the n-th object went where m says.
PutAt(S, O, n, i, m) ==
  /\ m \in SmType /\ (m.how = "none" <=> O[n].secs[i].skip)
  /\ m.how = "here" => Holds(S, n, i, O[n].secs[i], m.off)
  /\ m.how = "once" => /\ m.off = 0 /\ O[n].secs[i].once
                       /\ \E h \in 1 .. n : Holder(S, O, h, O[n].secs[i].name)

\* Both stay true when sections grow.
LEMMA HolderOn ==
  ASSUME NEW S \in Linked, NEW T \in Linked, Grew(S, T), NEW O \in Seq(Objects),
         NEW n \in DOMAIN O, NEW x, Holder(S, O, n, x)
  PROVE  Holder(T, O, n, x)
<1>1. PICK j \in DOMAIN O[n].secs : O[n].secs[j].name = x /\ Holds(S, n, j, O[n].secs[j], 0)
  BY DEF Holder
<1>2. O[n] \in Objects
  OBVIOUS
<1>3. O[n].secs[j].size \in Nat
  BY <1>2, ObjectFacts DEF SectionHere
<1>4. Holds(T, n, j, O[n].secs[j], 0)
  <2> DEFINE z == 0
  <2>1. z \in Nat /\ Holds(S, n, j, O[n].secs[j], z)
    BY <1>1
  <2> HIDE DEF z
  <2>2. Holds(T, n, j, O[n].secs[j], z)
    BY <1>3, <2>1, HoldsOn
  <2> QED
    BY <2>2 DEF z
<1> QED
  BY <1>1, <1>4 DEF Holder

\* A section of an object is still where it was put when sections have grown.
LEMMA PutOn ==
  ASSUME NEW S \in Linked, NEW T \in Linked, Grew(S, T), NEW O \in Seq(Objects),
         NEW n \in DOMAIN O, NEW i \in DOMAIN O[n].secs, NEW m, PutAt(S, O, n, i, m)
  PROVE  PutAt(T, O, n, i, m)
<1>1. O[n] \in Objects /\ \A h \in 1 .. n : h \in DOMAIN O
  OBVIOUS
<1>2. O[n].secs[i].size \in Nat
  BY <1>1, ObjectFacts DEF SectionHere
<1>3. m \in SmType /\ m.off \in Nat
  BY DEF PutAt, SmType
<1>4. ASSUME m.how = "here" PROVE Holds(T, n, i, O[n].secs[i], m.off)
  BY <1>2, <1>3, <1>4, HoldsOn DEF PutAt
<1>5. ASSUME m.how = "once" PROVE \E h \in 1 .. n : Holder(T, O, h, O[n].secs[i].name)
  <2>1. PICK h \in 1 .. n : Holder(S, O, h, O[n].secs[i].name)
    BY <1>5 DEF PutAt
  <2>2. Holder(T, O, h, O[n].secs[i].name)
    BY <1>1, <2>1, HolderOn
  <2> QED
    BY <2>2
<1> QED
  BY <1>4, <1>5 DEF PutAt

\* What the sections of the last object in O became.
LEMMA MergedFacts ==
  ASSUME secs \in Linked, NEW O \in Seq(Objects), NEW n \in DOMAIN O, n = Len(O),
         OnceHeld(secs, O), Merged(O[n], n).ok
  PROVE  LET m == Merged(O[n], n) IN
         /\ m.secs \in Linked /\ m.sm \in Seq(SmType) /\ Grew(secs, m.secs)
         /\ Len(m.sm) = Len(O[n].secs)
         /\ \A i \in DOMAIN O[n].secs : PutAt(m.secs, O, n, i, m.sm[i])
         /\ OnceHeld(m.secs, O)
<1> DEFINE o == O[n]
           L == Len(o.secs)
<1>1. o \in Objects /\ n \in Nat
  OBVIOUS
<1>2. /\ L \in Nat /\ DOMAIN o.secs = 1 .. L
      /\ \A k \in 1 .. L : SectionHere(o.secs[k])
  BY <1>1, ObjectFacts
<1>3. PICK c \in [0 .. L -> AccType] :
        /\ c[0] = [secs |-> secs, sm |-> << >>, ok |-> TRUE]
        /\ \A k \in 1 .. L : c[k] = MergeOne(c[k - 1], o.secs[k], n, k)
        /\ Merged(o, n) = c[L]
  BY <1>1, MergedIs
<1> HIDE DEF L
<1> DEFINE Loop(a, k) == /\ Grew(secs, a.secs) /\ Len(a.sm) = k
                         /\ \A i \in 1 .. k : PutAt(a.secs, O, n, i, a.sm[i])
                         /\ OnceHeld(a.secs, O)
           R == {k \in 0 .. L : c[k].ok => Loop(c[k], k)}
<1>4. 0 \in R
  <2>1. Grew(secs, secs)
    <3> SUFFICES ASSUME NEW x \in DOMAIN secs PROVE Longer(secs[x].cells, secs[x].cells)
      BY DEF Grew
    <3>1. secs[x].cells \in Seq(CellType)
      BY LinkedIs DEF SectionType
    <3> QED
      BY <3>1 DEF Longer
  <2>2. c[0].secs = secs /\ c[0].sm = << >>
    BY <1>3
  <2>3. Loop(c[0], 0)
    BY <2>1, <2>2
  <2> QED
    BY <1>2, <2>3
<1>5. ASSUME NEW k \in 0 .. L, k \in R, k < L PROVE k + 1 \in R
  <2> DEFINE a == c[k]
             p == k + 1
             b == c[p]
             s == o.secs[p]
  <2>1. p \in 1 .. L /\ p \in 0 .. L /\ p - 1 = k /\ p \in Nat
    BY <1>2, <1>5
  <2>2. a \in AccType /\ b \in AccType /\ b = MergeOne(a, s, n, p) /\ SectionHere(s)
    BY <1>2, <1>3, <2>1
  <2>3. a.secs \in Linked /\ b.secs \in Linked /\ a.sm \in Seq(SmType)
    BY <2>2 DEF AccType
  <2> SUFFICES ASSUME b.ok PROVE Loop(b, p)
    BY <2>1
  <2> HIDE DEF a, b, s, p
  <2>4. a.ok /\ \E e \in SmType : b.sm = Append(a.sm, e) /\ TookSection(a.secs, b.secs, e, s, n, p)
    BY <1>1, <2>1, <2>2, MergeOneFacts
  <2> USE DEF a, b, s, p
  <2>5. Loop(a, k)
    BY <1>5, <2>4
  <2>6. PICK e \in SmType : b.sm = Append(a.sm, e) /\ TookSection(a.secs, b.secs, e, s, n, p)
    BY <2>4
  <2> HIDE DEF a, b
  <2>7. Grew(a.secs, b.secs) /\ Grew(secs, a.secs)
    BY <2>5, <2>6 DEF TookSection
  <2>8. Grew(secs, b.secs)
    BY <2>3, <2>7, GrewTwice
  <2>9. Len(b.sm) = p /\ b.sm[p] = e /\ \A i \in 1 .. k : b.sm[i] = a.sm[i]
    BY <2>3, <2>5, <2>6, <2>1
  <2>10. ASSUME NEW x \in DOMAIN a.secs, OnceName(x)
         PROVE  \E h \in 1 .. n : Holder(b.secs, O, h, x)
    <3>1. PICK h \in DOMAIN O : Holder(a.secs, O, h, x)
      BY <2>5, <2>10 DEF OnceHeld
    <3>2. Holder(b.secs, O, h, x)
      BY <2>3, <2>7, <3>1, HolderOn
    <3> QED
      BY <3>2
  <2>11. s.once => OnceName(s.name)
    <3>1. s \in Range(o.secs)
      BY <1>2, <2>1 DEF Range
    <3> QED
      BY <1>1, <3>1 DEF OnceName
  <2>12. PutAt(b.secs, O, n, p, e)
    <3>1. /\ (e.how = "none" <=> s.skip)
          /\ e.how = "here" => Holds(b.secs, n, p, s, e.off)
          /\ e.how = "once" => s.once /\ e.off = 0 /\ s.name \in DOMAIN a.secs
      BY <2>6 DEF TookSection
    <3> QED
      BY <2>10, <2>11, <3>1 DEF PutAt
  <2>13. ASSUME NEW i \in 1 .. p PROVE PutAt(b.secs, O, n, i, b.sm[i])
    <3>1. CASE i = p
      BY <2>9, <2>12, <3>1
    <3>2. CASE i # p
      <4>1. i \in 1 .. k /\ i \in DOMAIN o.secs
        BY <1>2, <2>1, <3>2
      <4>2. PutAt(a.secs, O, n, i, a.sm[i])
        BY <2>5, <4>1
      <4>3. PutAt(b.secs, O, n, i, a.sm[i])
        BY <2>3, <2>7, <4>1, <4>2, PutOn
      <4> QED
        BY <2>9, <4>1, <4>3
    <3> QED
      BY <3>1, <3>2
  <2>14. ASSUME NEW x \in DOMAIN b.secs, OnceName(x)
         PROVE  \E h \in DOMAIN O : Holder(b.secs, O, h, x)
    <3>1. CASE x \in DOMAIN a.secs
      BY <2>10, <2>14, <3>1
    <3>2. CASE x \notin DOMAIN a.secs
      <4>1. e.how = "here" /\ x = s.name /\ Holds(b.secs, n, p, s, e.off) /\ e.off = 0
        BY <2>6, <3>2 DEF TookSection, SmType
      <4>2. Holder(b.secs, O, n, x)
        BY <1>2, <2>1, <4>1 DEF Holder
      <4> QED
        BY <4>2
    <3> QED
      BY <3>1, <3>2
  <2>15. OnceHeld(b.secs, O)
    BY <2>14 DEF OnceHeld
  <2> QED
    BY <2>8, <2>9, <2>13, <2>15
<1> HIDE DEF R
<1>6. L \in R
  <2>1. \A k \in 0 .. L : k \in R
    BY <1>2, <1>4, <1>5, UpTo
  <2> QED
    BY <1>2, <2>1
<1>7. Loop(c[L], L) /\ c[L] \in AccType
  BY <1>2, <1>3, <1>6 DEF R
<1> QED
  BY <1>2, <1>3, <1>7 DEF L, AccType
-----------------------------------------------------------------------------
(* What EndLoad appends.                                                   *)

\* An object whose symbols have all been entered.
WorkType == [obj : Objects, sm : Seq(SmType), map : Seq(MapType)]
Complete(w) == w \in WorkType /\ Len(w.sm) = Len(w.obj.secs) /\ Len(w.map) = Len(w.obj.syms)

\* The sections of an object whose relocations go to section x.
SourcesOf(w, x) == {i \in RelocatedSections(w) : w.obj.secs[i].name = x}

\* The relocations of one section, renumbered.
LEMMA NewRelsFacts ==
  ASSUME NEW w, Complete(w), NEW i \in DOMAIN w.obj.secs, Len(loads) \in Nat
  PROVE  /\ NewRels(w, i) \in Seq(RelType)
         /\ DOMAIN NewRels(w, i) = DOMAIN w.obj.secs[i].rels
         /\ \A r \in DOMAIN w.obj.secs[i].rels :
              NewRels(w, i)[r] = [off |-> w.obj.secs[i].rels[r].off + w.sm[i].off,
                                  sym |-> w.map[w.obj.secs[i].rels[r].sym],
                                  from |-> <<Len(loads) + 1, i, r>>]
<1> DEFINE rels == w.obj.secs[i].rels
           q == NewRels(w, i)
           off == w.sm[i].off
<1>1. /\ w.obj \in Objects /\ w.sm \in Seq(SmType) /\ w.map \in Seq(MapType)
      /\ Len(w.sm) = Len(w.obj.secs) /\ Len(w.map) = Len(w.obj.syms)
  BY DEF Complete, WorkType
<1>2. /\ w.obj.secs \in Seq(Range(w.obj.secs)) /\ w.obj.syms \in Seq(Range(w.obj.syms))
      /\ rels \in Seq([off : 0 .. w.obj.secs[i].size - 1, sym : DOMAIN w.obj.syms])
      /\ w.obj.secs[i].size \in Nat
  BY <1>1, ObjectFacts DEF SectionOK
<1>3. off \in Nat /\ i \in Nat
  <2>1. i \in 1 .. Len(w.sm)
    BY <1>1, <1>2
  <2>2. w.sm[i] \in SmType
    BY <1>1, <2>1
  <2> QED
    BY <2>1, <2>2 DEF SmType
<1>4. DOMAIN w.obj.syms = 1 .. Len(w.map)
  BY <1>1, <1>2
<1>5. q = [r \in DOMAIN rels |-> [off |-> rels[r].off + off, sym |-> w.map[rels[r].sym],
                                  from |-> <<Len(loads) + 1, i, r>>]]
  BY DEF NewRels
<1> HIDE DEF rels, q, off
<1>6. Len(rels) \in Nat /\ DOMAIN rels = 1 .. Len(rels)
  BY <1>2
<1>7. ASSUME NEW r \in 1 .. Len(rels) PROVE q[r] \in RelType
  <2> DEFINE D == [off : 0 .. w.obj.secs[i].size - 1, sym : DOMAIN w.obj.syms]
  <2>0. rels[r] \in D
    <3>1. rels \in Seq(D)
      BY <1>2
    <3> HIDE DEF D
    <3> QED
      BY <3>1
  <2>1. rels[r].off \in Nat /\ rels[r].sym \in 1 .. Len(w.map)
    BY <1>2, <1>4, <2>0
  <2>2. w.map[rels[r].sym] \in MapType
    BY <1>1, <2>1
  <2>3. <<Len(loads) + 1, i, r>> \in CellType
    BY <1>3, <1>6 DEF CellType
  <2>4. rels[r].off + off \in Nat
    BY <1>3, <2>1
  <2> QED
    BY <1>5, <1>6, <2>2, <2>3, <2>4 DEF RelType
<1>8. q \in [1 .. Len(rels) -> RelType]
  BY <1>5, <1>6, <1>7
<1>9. q \in Seq(RelType)
  BY <1>6, <1>8
<1> QED
  BY <1>5, <1>9 DEF q, rels, off

\* The loop over the sections of relocations.
LEMMA MovedToIs ==
  ASSUME NEW w, Complete(w), NEW x, Len(loads) \in Nat
  PROVE  \E c \in [0 .. Len(w.obj.secs) -> Seq(RelType)] :
           /\ c[0] = << >>
           /\ \A k \in 1 .. Len(w.obj.secs) :
                c[k] = IF k \in SourcesOf(w, x) THEN c[k - 1] \o NewRels(w, k) ELSE c[k - 1]
           /\ MovedTo(w, x) = c[Len(w.obj.secs)]
<1> DEFINE L == Len(w.obj.secs)
           X == Seq(RelType)
           a == << >>
           f == [k \in 1 .. L |-> [q \in X |-> IF k \in SourcesOf(w, x) THEN q \o NewRels(w, k) ELSE q]]
           Rec(c) == c = [k \in 0 .. L |->
                            CASE k = 0 -> << >>
                              [] k \in RelocatedSections(w) /\ w.obj.secs[k].name = x ->
                                   c[k - 1] \o NewRels(w, k)
                              [] OTHER -> c[k - 1]]
           c == CHOOSE c : Rec(c)
<1>1. L \in Nat /\ DOMAIN w.obj.secs = 1 .. L
  BY ObjectFacts DEF Complete, WorkType
<1>2. \A k \in 1 .. L : NewRels(w, k) \in X
  BY <1>1, NewRelsFacts
<1>3. f \in [1 .. L -> [X -> X]]
  <2> SUFFICES ASSUME NEW k \in 1 .. L, NEW q \in X
               PROVE  (IF k \in SourcesOf(w, x) THEN q \o NewRels(w, k) ELSE q) \in X
    OBVIOUS
  <2> DEFINE d == NewRels(w, k)
  <2>1. d \in X
    BY <1>2
  <2> HIDE DEF d
  <2>2. q \o d \in X
    BY <2>1
  <2> QED
    BY <2>2 DEF d
<1>4. a \in X
  OBVIOUS
<1>5. \A k : k \in SourcesOf(w, x) <=> k \in RelocatedSections(w) /\ w.obj.secs[k].name = x
  BY DEF SourcesOf
<1> HIDE DEF a, L, X
<1>6. \E d : Rec(d)
  <2>1. \A k \in 1 .. L, q \in X : f[k][q] = IF k \in SourcesOf(w, x) THEN q \o NewRels(w, k) ELSE q
    OBVIOUS
  <2> HIDE DEF f
  <2>2. PICK d \in [0 .. L -> X] : Rounds(d, L, a, f)
    BY <1>1, <1>3, <1>4, RoundsExist
  <2>3. d = [k \in 0 .. L |-> d[k]]
    BY <2>2
  <2>4. ASSUME NEW k \in 0 .. L
        PROVE  d[k] = CASE k = 0 -> << >>
                        [] k \in RelocatedSections(w) /\ w.obj.secs[k].name = x ->
                             d[k - 1] \o NewRels(w, k)
                        [] OTHER -> d[k - 1]
    <3>1. CASE k = 0
      <4>1. k \notin RelocatedSections(w)
        BY <1>1, <3>1 DEF RelocatedSections
      <4>2. d[k] = << >>
        BY <3>1, <2>2 DEF Rounds, a
      <4> QED
        BY <3>1, <4>1, <4>2
    <3>2. CASE k # 0
      <4>1. k \in 1 .. L /\ k - 1 \in 0 .. L
        BY <1>1, <3>2
      <4>2. d[k] = f[k][d[k - 1]] /\ d[k - 1] \in X
        BY <4>1, <2>2 DEF Rounds
      <4>3. d[k] = IF k \in SourcesOf(w, x) THEN d[k - 1] \o NewRels(w, k) ELSE d[k - 1]
        BY <4>1, <4>2, <2>1
      <4> QED
        BY <3>2, <4>3, <1>5
    <3> QED
      BY <3>1, <3>2
  <2>5. Rec(d)
    BY <2>3, <2>4, Zenon
  <2> QED
    BY <2>5
<1>7. Rec(c)
  BY <1>6, Zenon
<1>8. MovedTo(w, x) = c[L]
  BY DEF MovedTo, L
<1> HIDE DEF c
<1>9. ASSUME NEW k \in 1 .. L
      PROVE  c[k] = IF k \in SourcesOf(w, x) THEN c[k - 1] \o NewRels(w, k) ELSE c[k - 1]
  <2>1. k \in 0 .. L /\ k # 0
    BY <1>1
  <2>2. c[k] = CASE k = 0 -> << >>
                 [] k \in RelocatedSections(w) /\ w.obj.secs[k].name = x ->
                      c[k - 1] \o NewRels(w, k)
                 [] OTHER -> c[k - 1]
    BY <1>7, <2>1
  <2> QED
    BY <1>5, <2>1, <2>2
<1>10. c[0] = a
  <2>1. 0 \in 0 .. L /\ 0 \notin RelocatedSections(w)
    BY <1>1 DEF RelocatedSections
  <2> QED
    BY <1>7, <2>1 DEF a
<1>11. c \in [0 .. L -> X]
  <2> DEFINE S == {k \in 0 .. L : c[k] \in X}
  <2>1. 0 \in S
    BY <1>1, <1>4, <1>10
  <2>2. ASSUME NEW k \in 0 .. L, k \in S, k < L PROVE k + 1 \in S
    <3> DEFINE p == k + 1
               d == NewRels(w, p)
               q == c[k]
    <3>1. p \in 1 .. L /\ p - 1 = k /\ p \in 0 .. L
      BY <1>1, <2>2
    <3>2. c[p] = IF p \in SourcesOf(w, x) THEN q \o d ELSE q
      BY <3>1, <1>9
    <3>3. d \in X /\ q \in X
      BY <3>1, <1>2, <2>2
    <3> HIDE DEF d, q
    <3>4. q \o d \in X
      BY <3>3 DEF X
    <3>5. c[p] \in X
      BY <3>2, <3>3, <3>4
    <3> QED
      BY <3>1, <3>5
  <2> HIDE DEF S
  <2>3. \A k \in 0 .. L : k \in S
    BY <1>1, <2>1, <2>2, UpTo
  <2>4. \A k \in 0 .. L : c[k] \in X
    BY <2>3 DEF S
  <2>5. c = [k \in 0 .. L |-> c[k]]
    BY <1>7
  <2> QED
    BY <2>4, <2>5
<1> QED
  BY <1>8, <1>9, <1>10, <1>11 DEF L, X, a

\* No two relocations of the sequence come from one.
Distinct(q) == \A j, k \in DOMAIN q : q[j].from = q[k].from => j = k

\* Each relocation of the sections in question is there once, and no other is.
LEMMA MovedToFacts ==
  ASSUME NEW w, Complete(w), NEW x, Len(loads) \in Nat
  PROVE  LET q == MovedTo(w, x) IN
         /\ q \in Seq(RelType) /\ Distinct(q)
         /\ \A k \in DOMAIN q : q[k].from[1] = Len(loads) + 1
         /\ \A i \in SourcesOf(w, x) : \A r \in DOMAIN w.obj.secs[i].rels :
              \E k \in DOMAIN q : q[k] = NewRels(w, i)[r]
<1> DEFINE L == Len(w.obj.secs)
           n == Len(loads) + 1
           Q == Seq(RelType)
<1>1. L \in Nat /\ DOMAIN w.obj.secs = 1 .. L /\ n \in Nat
  BY ObjectFacts DEF Complete, WorkType
<1>2. PICK c \in [0 .. L -> Q] :
        /\ c[0] = << >>
        /\ \A k \in 1 .. L :
             c[k] = IF k \in SourcesOf(w, x) THEN c[k - 1] \o NewRels(w, k) ELSE c[k - 1]
        /\ MovedTo(w, x) = c[L]
  BY MovedToIs
<1> HIDE DEF L
<1> DEFINE Loop(q, p) ==
             /\ Distinct(q)
             /\ \A k \in DOMAIN q : q[k].from[1] = n /\ q[k].from[2] <= p
             /\ \A i \in SourcesOf(w, x) : i <= p => \A r \in DOMAIN w.obj.secs[i].rels :
                  \E k \in DOMAIN q : q[k] = NewRels(w, i)[r]
           S == {p \in 0 .. L : Loop(c[p], p)}
<1>3. 0 \in S
  <2>1. \A i \in SourcesOf(w, x) : ~ (i <= 0)
    BY <1>1 DEF SourcesOf, RelocatedSections
  <2> QED
    BY <1>1, <1>2, <2>1 DEF Distinct
<1>4. ASSUME NEW p \in 0 .. L, p \in S, p < L PROVE p + 1 \in S
  <2> DEFINE m == p + 1
             q == c[p]
             d == NewRels(w, m)
  <2>1. m \in 1 .. L /\ m \in 0 .. L /\ m - 1 = p /\ p \in Nat /\ m \in Nat
    BY <1>1, <1>4
  <2>2. q \in Q /\ c[m] \in Q /\ Len(q) \in Nat /\ DOMAIN q = 1 .. Len(q)
    BY <1>2, <2>1
  <2>3. c[m] = IF m \in SourcesOf(w, x) THEN q \o d ELSE q
    BY <1>2, <2>1
  <2>4. Loop(q, p)
    BY <1>4
  <2>5. \A i \in SourcesOf(w, x) : i <= m => i = m \/ i <= p
    BY <1>1, <2>1 DEF SourcesOf, RelocatedSections
  <2>6. CASE m \notin SourcesOf(w, x)
    <3>1. c[m] = q
      BY <2>3, <2>6
    <3>2. \A k \in DOMAIN q : q[k].from[2] <= p => q[k].from[2] <= m
      <4> TAKE k \in DOMAIN q
      <4>1. q[k] \in RelType
        BY <2>2
      <4>2. q[k].from[2] \in Nat
        BY <4>1 DEF RelType, CellType
      <4> QED
        BY <2>1, <4>2
    <3>3. Loop(c[m], m)
      BY <2>4, <2>5, <2>6, <3>1, <3>2
    <3> QED
      BY <2>1, <3>3
  <2>7. CASE m \in SourcesOf(w, x)
    <3>1. /\ d \in Q /\ DOMAIN d = DOMAIN w.obj.secs[m].rels
          /\ \A r \in DOMAIN d : d[r].from = <<n, m, r>>
          /\ Len(d) \in Nat /\ DOMAIN d = 1 .. Len(d)
      <4>1. m \in DOMAIN w.obj.secs
        BY <1>1, <2>1
      <4> HIDE DEF m
      <4>2. /\ d \in Q /\ DOMAIN d = DOMAIN w.obj.secs[m].rels
            /\ \A r \in DOMAIN w.obj.secs[m].rels :
                 d[r] = [off |-> w.obj.secs[m].rels[r].off + w.sm[m].off,
                         sym |-> w.map[w.obj.secs[m].rels[r].sym], from |-> <<n, m, r>>]
        BY <4>1, NewRelsFacts
      <4> HIDE DEF d, n
      <4>3. ASSUME NEW r \in DOMAIN d PROVE d[r].from = <<n, m, r>>
        <5>1. d[r] = [off |-> w.obj.secs[m].rels[r].off + w.sm[m].off,
                      sym |-> w.map[w.obj.secs[m].rels[r].sym], from |-> <<n, m, r>>]
          BY <4>2
        <5> QED
          BY <5>1
      <4>4. Len(d) \in Nat /\ DOMAIN d = 1 .. Len(d)
        BY <4>2
      <4> QED
        BY <4>2, <4>3, <4>4
    <3> HIDE DEF d, q, m
    <3> DEFINE e == q \o d
    <3>2. c[m] = e
      BY <2>3, <2>7
    <3>3. /\ e \in Q /\ Len(e) = Len(q) + Len(d) /\ DOMAIN e = 1 .. Len(e)
          /\ \A k \in 1 .. Len(q) : e[k] = q[k]
          /\ \A r \in 1 .. Len(d) : e[Len(q) + r] = d[r]
      BY <2>2, <3>1
    <3> HIDE DEF e
    <3>4. \A k \in DOMAIN e : \/ k \in DOMAIN q /\ e[k] = q[k]
                              \/ k - Len(q) \in DOMAIN d /\ e[k] = d[k - Len(q)]
      <4> TAKE k \in DOMAIN e
      <4>1. CASE k <= Len(q)
        BY <2>2, <3>3, <4>1
      <4>2. CASE k > Len(q)
        <5>1. k - Len(q) \in 1 .. Len(d) /\ Len(q) + (k - Len(q)) = k
          BY <2>2, <3>1, <3>3, <4>2
        <5> QED
          BY <3>1, <3>3, <5>1
      <4> QED
        BY <2>2, <3>3, <4>1, <4>2
    <3>5. \A k \in DOMAIN q : q[k].from[1] = n /\ q[k].from[2] <= p /\ q[k].from[2] \in Nat
      <4> TAKE k \in DOMAIN q
      <4>1. q[k] \in RelType
        BY <2>2
      <4> QED
        BY <4>1, <2>4 DEF RelType, CellType
    <3>6. \A r \in DOMAIN d : d[r].from[1] = n /\ d[r].from[2] = m /\ d[r].from[3] = r
      BY <3>1
    <3>7. m = p + 1 /\ p \in Nat /\ m \in Nat
      BY <2>1 DEF m
    <3>8. \A k \in DOMAIN e : e[k].from[1] = n /\ e[k].from[2] <= m
      BY <3>4, <3>5, <3>6, <3>7
    <3>9. Distinct(e)
      <4> SUFFICES ASSUME NEW j \in DOMAIN e, NEW k \in DOMAIN e, e[j].from = e[k].from PROVE j = k
        BY DEF Distinct
      <4>1. CASE j \in DOMAIN q /\ e[j] = q[j] /\ k \in DOMAIN q /\ e[k] = q[k]
        BY <2>4, <4>1 DEF Distinct
      <4>2. CASE j \in DOMAIN q /\ e[j] = q[j] /\ k - Len(q) \in DOMAIN d /\ e[k] = d[k - Len(q)]
        BY <3>5, <3>6, <3>7, <4>2
      <4>3. CASE k \in DOMAIN q /\ e[k] = q[k] /\ j - Len(q) \in DOMAIN d /\ e[j] = d[j - Len(q)]
        BY <3>5, <3>6, <3>7, <4>3
      <4>4. CASE /\ j - Len(q) \in DOMAIN d /\ e[j] = d[j - Len(q)]
                 /\ k - Len(q) \in DOMAIN d /\ e[k] = d[k - Len(q)]
        <5>1. j - Len(q) = k - Len(q)
          BY <3>6, <4>4
        <5>2. j \in Int /\ k \in Int /\ Len(q) \in Int
          BY <3>3, <2>2
        <5> QED
          BY <5>1, <5>2
      <4> QED
        BY <3>4, <4>1, <4>2, <4>3, <4>4
    <3>10. ASSUME NEW i \in SourcesOf(w, x), i <= m, NEW r \in DOMAIN w.obj.secs[i].rels
           PROVE  \E k \in DOMAIN e : e[k] = NewRels(w, i)[r]
      <4>1. CASE i = m
        <5>1. r \in DOMAIN d /\ r \in 1 .. Len(d)
          BY <3>1, <4>1
        <5>2. Len(q) + r \in DOMAIN e /\ e[Len(q) + r] = d[r]
          BY <5>1, <3>3, <2>2
        <5> QED
          BY <4>1, <5>2 DEF d
      <4>2. CASE i <= p
        <5>1. PICK k \in DOMAIN q : q[k] = NewRels(w, i)[r]
          BY <2>4, <4>2, <3>10
        <5>2. k \in DOMAIN e /\ e[k] = q[k]
          BY <2>2, <3>1, <3>3
        <5> QED
          BY <5>1, <5>2
      <4> QED
        BY <2>5, <3>10, <4>1, <4>2
    <3>11. Loop(e, m)
      BY <3>8, <3>9, <3>10
    <3> QED
      BY <2>1, <3>2, <3>11 DEF m
  <2> QED
    BY <2>6, <2>7
<1> HIDE DEF S
<1>5. L \in S
  <2>1. \A k \in 0 .. L : k \in S
    BY <1>1, <1>3, <1>4, UpTo
  <2> QED
    BY <1>1, <2>1
<1>6. Loop(c[L], L) /\ c[L] \in Q
  BY <1>1, <1>2, <1>5 DEF S
<1>7. \A i \in SourcesOf(w, x) : i <= L
  BY <1>1 DEF SourcesOf, RelocatedSections
<1> QED
  BY <1>2, <1>6, <1>7
-----------------------------------------------------------------------------
(* The invariant of loading.                                               *)

\* The objects begun, in order, and what became of their sections, when those
\* in L have been loaded and W is in work.
ObjsOf(L, W) == [n \in 1 .. Len(L) + Len(W) |-> IF n <= Len(L) THEN L[n].obj ELSE W[1].obj]
SmsOf(L, W) == [n \in 1 .. Len(L) + Len(W) |-> IF n <= Len(L) THEN L[n].sm ELSE W[1].sm]
Objs == ObjsOf(loads, work)
Sms == SmsOf(loads, work)

LoadsType == Seq([obj : Objects, sm : Seq(SmType)])
WorkOK(W) ==
  \/ W = << >>
  \/ W = <<W[1]>> /\ W[1] \in WorkType /\ Len(W[1].map) <= Len(W[1].obj.syms)

Shapes == secs \in Linked /\ loads \in LoadsType /\ WorkOK(work)

\* Every section of every object is where its SectionMergeInfo says.
Placed(S, O, M) ==
  /\ OnceHeld(S, O)
  /\ \A n \in DOMAIN O : /\ Len(M[n]) = Len(O[n].secs)
                         /\ \A i \in DOMAIN O[n].secs : PutAt(S, O, n, i, M[n][i])

\* What symbol y of object o may have become, its sections having become sm.
Renamed(o, sm, y, m) ==
  m # NoSym =>
    IF y.bind # LOCALB THEN m = Global(y.name)
    ELSE y.sec # 0 => /\ sm[y.sec].how = "here"
                      /\ m = Local(o.secs[y.sec].name, y.val + sm[y.sec].off)

\* The symbols of the object in work have become what old_to_new says.
MapRight ==
  work # << >> => \A j \in DOMAIN work[1].map :
                    Renamed(work[1].obj, work[1].sm, work[1].obj.syms[j], work[1].map[j])

\* Relocation r of section i of the n-th object has been appended.
Appended(S, O, M, n, i, r) ==
  LET old == O[n].secs[i].rels[r]
      x == O[n].secs[i].name
  IN /\ x \in DOMAIN S
     /\ \E k \in DOMAIN S[x].rels :
          /\ S[x].rels[k].from = <<n, i, r>>
          /\ S[x].rels[k].off = old.off + M[n][i].off
          /\ Renamed(O[n], M[n], O[n].syms[old.sym], S[x].rels[k].sym)

\* So have all those of the first d objects, once, and no others.
AppendedAll(S, O, M, d) ==
  /\ \A x \in DOMAIN S : /\ Distinct(S[x].rels)
                         /\ \A k \in DOMAIN S[x].rels : S[x].rels[k].from[1] <= d
  /\ \A n \in 1 .. d : \A i \in DOMAIN O[n].secs : M[n][i].how # "none" =>
       \A r \in DOMAIN O[n].secs[i].rels : Appended(S, O, M, n, i, r)

\* What was entered as defined in a section comes from an object.
Origin(O, M, c) ==
  \E n \in DOMAIN O : \E y \in Range(O[n].syms) :
    /\ y.name = c[1] /\ y.bind # LOCALB /\ y.sec # 0
    /\ O[n].secs[y.sec].name = c[2].shndx
    /\ M[n][y.sec].how = "here" /\ c[2].val = y.val + M[n][y.sec].off
Origins(O, M) == \A c \in claims : c[2].shndx \in SectionNames => Origin(O, M, c)

\* The address the table has for a name is one it was entered with.
TableFrom ==
  \A f \in Name : table[f] # None =>
    \E c \in claims : c[1] = f /\ c[2].shndx = table[f].shndx /\ c[2].val = table[f].val

Seen == {n \in Name : table[n] # None}
DefsOf(a) == UNION {Defs(a.it.objs[m]) : m \in Range(a.got)}
RefsOf(a) == UNION {Refs(a.it.objs[m]) : m \in Range(a.got)}

ScanType == [it : Item, pos : Nat \ {0}, bound : Nat, undef : SUBSET Name,
             known : SUBSET Name, got : Seq(Nat)]

\* What is known of the symbols of a member, and of those entered so far of the
\* member in work.
Entered(y) == y.bind # LOCALB => y.name \in Seen /\ (y.shndx # UNDEF => y.name \in Known)
MembersEntered(a) ==
  /\ \A m \in Range(a.got) : (work = << >> \/ m # a.got[Len(a.got)]) =>
       \A y \in Range(a.it.objs[m].syms) : Entered(y)
  /\ work # << >> => /\ a.got # << >> /\ work[1].obj = a.it.objs[a.got[Len(a.got)]]
                     /\ \A j \in DOMAIN work[1].map : Entered(work[1].obj.syms[j])

\* The table knows what it knew and what the members taken say, and undefined
\* names come from the start or from them.
KnownFrom(a) ==
  /\ a.known \subseteq Known /\ a.undef \subseteq Seen
  /\ Known \subseteq a.known \cup DefsOf(a)
  /\ Undefined \subseteq a.undef \cup RefsOf(a)

\* No more was taken than had to be.
Minimal(a) == \A S \in SUBSET DOMAIN a.it.objs : Closed(a, S) => Range(a.got) \subseteq S

\* While nothing is taken from a pass, its entries are of no use.
PassIdle(a) ==
  a.bound = 0 =>
    work = << >> /\ \A i \in DOMAIN a.it.index : i < a.pos => a.it.index[i].name \notin Undefined

Scans(a) ==
  /\ a \in ScanType /\ a.it.kind \in {"archive", "whole"}
  /\ Range(a.got) \subseteq DOMAIN a.it.objs
  /\ a.it.kind = "whole" => a.got = [k \in 1 .. a.pos - 1 |-> k]
  /\ a.it.kind = "archive" /\ Truthful(a.it) =>
       IsInjective(a.got) /\ MembersEntered(a) /\ KnownFrom(a) /\ Minimal(a) /\ PassIdle(a)
ScanRight == scan # << >> => scan = <<scan[1]>> /\ Scans(scan[1])

\* What loading has made of the sections, symbols and relocations.
Placement ==
  /\ Shapes /\ MapRight /\ TableFrom
  /\ Placed(secs, Objs, Sms) /\ AppendedAll(secs, Objs, Sms, Len(loads)) /\ Origins(Objs, Sms)

LoadInv == Placement /\ ScanRight

LInv == LinkInv(Nat) /\ ClosureLoaded /\ (~ failed => LoadInv)
-----------------------------------------------------------------------------
(* The objects begun.                                                      *)

\* The objects begun are those loaded and the one in work, with their merge infos.
LEMMA ObjsAre ==
  ASSUME NEW L \in LoadsType, NEW W, WorkOK(W)
  PROVE  /\ ObjsOf(L, W) \in Seq(Objects) /\ Len(ObjsOf(L, W)) = Len(L) + Len(W)
         /\ SmsOf(L, W) \in Seq(Seq(SmType)) /\ Len(SmsOf(L, W)) = Len(L) + Len(W)
         /\ Len(L) \in Nat /\ Len(W) \in {0, 1} /\ (W = << >> <=> Len(W) = 0)
         /\ \A n \in 1 .. Len(L) : ObjsOf(L, W)[n] = L[n].obj /\ SmsOf(L, W)[n] = L[n].sm
         /\ W # << >> => /\ ObjsOf(L, W)[Len(L) + 1] = W[1].obj
                         /\ SmsOf(L, W)[Len(L) + 1] = W[1].sm
                         /\ W = <<W[1]>> /\ W[1] \in WorkType
<1> DEFINE D == [obj : Objects, sm : Seq(SmType)]
           N == Len(L) + Len(W)
           O == ObjsOf(L, W)
           M == SmsOf(L, W)
<1>1. \A n \in 1 .. Len(L) : L[n] \in D
  <2>1. L \in Seq(D)
    BY DEF LoadsType
  <2> HIDE DEF D
  <2> QED
    BY <2>1
<1>2. Len(L) \in Nat
  BY DEF LoadsType
<1>3. /\ Len(W) \in {0, 1} /\ (W = << >> <=> Len(W) = 0)
      /\ W # << >> => W = <<W[1]>> /\ W[1] \in WorkType
  BY DEF WorkOK
<1>4. N \in Nat
  BY <1>2, <1>3
<1>5. /\ O = [n \in 1 .. N |-> IF n <= Len(L) THEN L[n].obj ELSE W[1].obj]
      /\ M = [n \in 1 .. N |-> IF n <= Len(L) THEN L[n].sm ELSE W[1].sm]
  BY DEF ObjsOf, SmsOf
<1> HIDE DEF O, M
<1>6. ASSUME NEW n \in 1 .. N PROVE O[n] \in Objects /\ M[n] \in Seq(SmType)
  <2>1. CASE n <= Len(L)
    BY <1>1, <1>2, <1>4, <1>5, <2>1
  <2>2. CASE ~ (n <= Len(L))
    <3>1. W[1] \in WorkType
      BY <1>2, <1>3, <2>2
    <3>2. W[1].obj \in Objects /\ W[1].sm \in Seq(SmType)
      BY <3>1 DEF WorkType
    <3> QED
      BY <1>5, <2>2, <3>2
  <2> QED
    BY <2>1, <2>2
<1>7. O \in [1 .. N -> Objects] /\ M \in [1 .. N -> Seq(SmType)]
  BY <1>5, <1>6
<1>8. O \in Seq(Objects) /\ Len(O) = N
  BY <1>4, <1>7
<1>9. M \in Seq(Seq(SmType)) /\ Len(M) = N
  <2> DEFINE T == Seq(SmType)
  <2>1. M \in [1 .. N -> T]
    BY <1>7
  <2> HIDE DEF T
  <2>2. M \in Seq(T) /\ Len(M) = N
    BY <1>4, <2>1
  <2> QED
    BY <2>2 DEF T
<1>10. \A n \in 1 .. Len(L) : n \in 1 .. N /\ n <= Len(L)
  BY <1>2, <1>3
<1>11. W # << >> => Len(L) + 1 \in 1 .. N /\ ~ (Len(L) + 1 <= Len(L))
  BY <1>2, <1>3
<1> QED
  BY <1>2, <1>3, <1>5, <1>8, <1>9, <1>10, <1>11 DEF O, M

\* Q goes on where P ends.
GoesOn(P, Q) == \A n \in DOMAIN P : n \in DOMAIN Q /\ Q[n] = P[n]

\* One more object is begun.
LEMMA OneMore ==
  ASSUME NEW L \in LoadsType, NEW w \in WorkType, WorkOK(<<w>>)
  PROVE  /\ GoesOn(ObjsOf(L, << >>), ObjsOf(L, <<w>>))
         /\ GoesOn(SmsOf(L, << >>), SmsOf(L, <<w>>))
<1> DEFINE W == <<w>>
           E == << >>
<1>1. WorkOK(E) /\ WorkOK(W) /\ Len(E) = 0 /\ Len(W) = 1
  BY DEF WorkOK
<1> HIDE DEF W, E
<1>2. \A n \in 1 .. Len(L) : /\ ObjsOf(L, E)[n] = L[n].obj /\ ObjsOf(L, W)[n] = L[n].obj
                             /\ SmsOf(L, E)[n] = L[n].sm /\ SmsOf(L, W)[n] = L[n].sm
  <2>1. \A n \in 1 .. Len(L) : ObjsOf(L, E)[n] = L[n].obj /\ SmsOf(L, E)[n] = L[n].sm
    BY <1>1, ObjsAre, Zenon
  <2>2. \A n \in 1 .. Len(L) : ObjsOf(L, W)[n] = L[n].obj /\ SmsOf(L, W)[n] = L[n].sm
    BY <1>1, ObjsAre, Zenon
  <2> QED
    BY <2>1, <2>2
<1>3. Len(L) \in Nat
  BY DEF LoadsType
<1>4. /\ DOMAIN ObjsOf(L, E) = 1 .. Len(L) /\ DOMAIN ObjsOf(L, W) = 1 .. Len(L) + 1
      /\ DOMAIN SmsOf(L, E) = 1 .. Len(L) /\ DOMAIN SmsOf(L, W) = 1 .. Len(L) + 1
  BY <1>1, <1>3 DEF ObjsOf, SmsOf
<1> QED
  BY <1>2, <1>3, <1>4 DEF GoesOn, W, E

\* Entering symbols changes neither list.
LEMMA SameBegun ==
  ASSUME NEW L, NEW v, NEW w, w.obj = v.obj, w.sm = v.sm
  PROVE  ObjsOf(L, <<w>>) = ObjsOf(L, <<v>>) /\ SmsOf(L, <<w>>) = SmsOf(L, <<v>>)
BY DEF ObjsOf, SmsOf

\* Nor does the end of an object.
LEMMA SameEnded ==
  ASSUME NEW L \in LoadsType, NEW w \in WorkType,
         NEW K, K = Append(L, [obj |-> w.obj, sm |-> w.sm])
  PROVE  ObjsOf(K, << >>) = ObjsOf(L, <<w>>) /\ SmsOf(K, << >>) = SmsOf(L, <<w>>)
         /\ K \in LoadsType /\ Len(K) = Len(L) + 1
<1> DEFINE D == [obj : Objects, sm : Seq(SmType)]
           e == [obj |-> w.obj, sm |-> w.sm]
<1>1. e \in D /\ e.obj = w.obj /\ e.sm = w.sm
  BY DEF WorkType
<1> HIDE DEF D, e
<1>2. L \in Seq(D)
  BY DEF LoadsType, D
<1>3. /\ K \in Seq(D) /\ Len(K) = Len(L) + 1 /\ Len(L) \in Nat
      /\ \A n \in 1 .. Len(L) : K[n] = L[n]
      /\ K[Len(L) + 1] = e
  BY <1>1, <1>2 DEF e
<1>4. Len(<< >>) = 0 /\ Len(<<w>>) = 1 /\ <<w>>[1] = w
  OBVIOUS
<1>5. Len(K) + 0 = Len(L) + 1
  BY <1>3
<1>6. \A n \in 1 .. Len(L) + 1 :
        /\ n <= Len(K)
        /\ n <= Len(L) => K[n] = L[n]
        /\ ~ (n <= Len(L)) => K[n] = e
  BY <1>3
<1>7. ObjsOf(K, << >>) = ObjsOf(L, <<w>>)
  BY <1>1, <1>4, <1>5, <1>6 DEF ObjsOf
<1>8. SmsOf(K, << >>) = SmsOf(L, <<w>>)
  BY <1>1, <1>4, <1>5, <1>6 DEF SmsOf
<1> QED
  BY <1>3, <1>7, <1>8 DEF LoadsType, D
-----------------------------------------------------------------------------
(* Beginning an object.                                                    *)

\* Sections grow and objects are added, and what was there is still there.
LEMMA PutMore ==
  ASSUME NEW S \in Linked, NEW T \in Linked, Grew(S, T),
         NEW O \in Seq(Objects), NEW P \in Seq(Objects), GoesOn(O, P),
         NEW n \in DOMAIN O, NEW i \in DOMAIN O[n].secs, NEW m, PutAt(S, O, n, i, m)
  PROVE  PutAt(T, P, n, i, m)
<1>1. n \in DOMAIN P /\ P[n] = O[n] /\ \A h \in 1 .. n : h \in DOMAIN O /\ P[h] = O[h]
  BY DEF GoesOn
<1>2. \A h \in 1 .. n : \A x : Holder(S, O, h, x) => Holder(S, P, h, x)
  BY <1>1 DEF Holder
<1>3. PutAt(S, P, n, i, m)
  BY <1>1, <1>2 DEF PutAt
<1> QED
  BY <1>1, <1>3, PutOn

\* A link-once section that some object holds is still held when objects are added.
LEMMA HeldMore ==
  ASSUME NEW S, NEW O, NEW P, GoesOn(O, P), OnceHeld(S, O) PROVE OnceHeld(S, P)
<1> SUFFICES ASSUME NEW x \in DOMAIN S, OnceName(x) PROVE \E n \in DOMAIN P : Holder(S, P, n, x)
  BY DEF OnceHeld
<1>1. PICK n \in DOMAIN O : Holder(S, O, n, x)
  BY DEF OnceHeld
<1>2. n \in DOMAIN P /\ P[n] = O[n]
  BY DEF GoesOn
<1> QED
  BY <1>1, <1>2 DEF Holder

\* The relocations that were there are still there.
LEMMA AppendedMore ==
  ASSUME NEW S, NEW T, Grew(S, T), NEW O, NEW P, GoesOn(O, P), NEW M, NEW Q, GoesOn(M, Q),
         DOMAIN M = DOMAIN O, NEW d \in Nat, 1 .. d \subseteq DOMAIN O, AppendedAll(S, O, M, d)
  PROVE  AppendedAll(T, P, Q, d)
<1>1. ASSUME NEW x \in DOMAIN T
      PROVE  Distinct(T[x].rels) /\ \A k \in DOMAIN T[x].rels : T[x].rels[k].from[1] <= d
  <2>1. CASE x \in DOMAIN S
    BY <2>1 DEF Grew, AppendedAll
  <2>2. CASE x \notin DOMAIN S
    <3>1. T[x].rels = << >>
      BY <2>2 DEF Grew
    <3> QED
      BY <3>1 DEF Distinct
  <2> QED
    BY <2>1, <2>2
<1>2. ASSUME NEW n \in 1 .. d, NEW i \in DOMAIN P[n].secs, Q[n][i].how # "none",
             NEW r \in DOMAIN P[n].secs[i].rels
      PROVE  Appended(T, P, Q, n, i, r)
  <2>1. P[n] = O[n] /\ Q[n] = M[n]
    BY DEF GoesOn
  <2>2. Appended(S, O, M, n, i, r)
    BY <1>2, <2>1 DEF AppendedAll
  <2>3. P[n].secs[i].name \in DOMAIN S
    BY <2>1, <2>2 DEF Appended
  <2>4. /\ P[n].secs[i].name \in DOMAIN T
        /\ T[P[n].secs[i].name].rels = S[P[n].secs[i].name].rels
    BY <2>3 DEF Grew
  <2> QED
    BY <2>1, <2>2, <2>4 DEF Appended
<1> QED
  BY <1>1, <1>2 DEF AppendedAll

\* A claim keeps its origin.
LEMMA OriginMore ==
  ASSUME NEW O, NEW P, GoesOn(O, P), NEW M, NEW Q, GoesOn(M, Q), DOMAIN M = DOMAIN O,
         NEW c, Origin(O, M, c)
  PROVE  Origin(P, Q, c)
BY DEF GoesOn, Origin

\* What BeginLoad leaves of an object that it could merge.
LEMMA BeginPlaced ==
  ASSUME Shapes, work = << >>, Placed(secs, Objs, Sms), AppendedAll(secs, Objs, Sms, Len(loads)),
         Origins(Objs, Sms), NEW o \in Objects, BeginLoad(o), ~ failed',
         UNCHANGED <<loads, claims>>
  PROVE  /\ Shapes' /\ MapRight' /\ Placed(secs, Objs, Sms)'
         /\ AppendedAll(secs, Objs, Sms, Len(loads))' /\ Origins(Objs, Sms)'
         /\ work' # << >> /\ work'[1].obj = o /\ work'[1].map = << >>
<1> DEFINE n == Len(loads) + 1
           m == Merged(o, n)
           w == [obj |-> o, sm |-> m.sm, map |-> << >>]
           W == <<w>>
           O == ObjsOf(loads, << >>)
           M == SmsOf(loads, << >>)
           P == ObjsOf(loads, W)
           Q == SmsOf(loads, W)
<1>1. m.ok /\ secs' = m.secs /\ work' = W
  BY DEF BeginLoad
<1>2. secs \in Linked /\ loads \in LoadsType /\ WorkOK(<< >>)
  BY DEF Shapes, WorkOK
<1>3. n \in Nat /\ Len(loads) \in Nat /\ n = Len(loads) + 1
  BY <1>2 DEF LoadsType
<1> HIDE DEF n
<1>4. m \in AccType
  <2>1. Len(o.secs) \in Nat
    BY ObjectFacts
  <2> QED
    BY <1>2, <1>3, <2>1, MergedIs
<1> HIDE DEF m
<1>5. w \in WorkType /\ WorkOK(W) /\ w.obj = o /\ w.sm = m.sm /\ w.map = << >>
  <2>1. m.sm \in Seq(SmType) /\ << >> \in Seq(MapType)
    BY <1>4 DEF AccType
  <2>2. w \in WorkType
    BY <2>1 DEF WorkType
  <2>3. Len(o.syms) \in Nat
    BY ObjectFacts
  <2> QED
    BY <2>2, <2>3 DEF WorkOK
<1> HIDE DEF w
<1>6. /\ P \in Seq(Objects) /\ Len(P) = n /\ Q \in Seq(Seq(SmType)) /\ Len(Q) = n
      /\ P[n] = o /\ Q[n] = m.sm
  <2>1. W # << >> /\ Len(W) = 1 /\ W[1] = w
    OBVIOUS
  <2> HIDE DEF W
  <2> QED
    BY <1>2, <1>3, <1>5, <2>1, ObjsAre
<1>7. GoesOn(O, P) /\ GoesOn(M, Q)
  BY <1>2, <1>5, OneMore
<1>8. O \in Seq(Objects) /\ Len(O) = Len(loads) /\ M \in Seq(Seq(SmType)) /\ Len(M) = Len(loads)
  <2>1. Len(<< >>) = 0
    OBVIOUS
  <2> QED
    BY <1>2, <1>3, <2>1, ObjsAre
<1>9. /\ Placed(secs, O, M) /\ AppendedAll(secs, O, M, Len(loads)) /\ Origins(O, M)
  BY DEF Objs, Sms
<1> HIDE DEF O, M, P, Q, W
<1>10. OnceHeld(secs, P)
  BY <1>7, <1>9, HeldMore DEF Placed
<1>11. n \in DOMAIN P /\ DOMAIN P = 1 .. n /\ DOMAIN Q = 1 .. n
       /\ DOMAIN O = 1 .. n - 1 /\ DOMAIN M = 1 .. n - 1
  BY <1>3, <1>6, <1>8
<1>12. /\ m.secs \in Linked /\ Grew(secs, m.secs) /\ Len(m.sm) = Len(o.secs)
       /\ \A i \in DOMAIN o.secs : PutAt(m.secs, P, n, i, m.sm[i])
       /\ OnceHeld(m.secs, P)
  <2>1. Merged(P[n], n) = m
    BY <1>6 DEF m
  <2> QED
    BY <1>1, <1>2, <1>6, <1>10, <1>11, <2>1, MergedFacts
<1>13. Placed(m.secs, P, Q)
  <2>1. ASSUME NEW k \in DOMAIN P
        PROVE  /\ Len(Q[k]) = Len(P[k].secs)
               /\ \A i \in DOMAIN P[k].secs : PutAt(m.secs, P, k, i, Q[k][i])
    <3>1. CASE k = n
      BY <1>6, <1>12, <3>1
    <3>2. CASE k # n
      <4>1. k \in DOMAIN O /\ P[k] = O[k] /\ Q[k] = M[k]
        BY <1>3, <1>7, <1>11, <3>2 DEF GoesOn
      <4>2. Len(M[k]) = Len(O[k].secs) /\ \A i \in DOMAIN O[k].secs : PutAt(secs, O, k, i, M[k][i])
        BY <1>9, <4>1 DEF Placed
      <4> QED
        BY <1>2, <1>6, <1>7, <1>8, <1>12, <4>1, <4>2, PutMore
    <3> QED
      BY <3>1, <3>2
  <2> QED
    BY <1>12, <2>1 DEF Placed
<1>14. AppendedAll(m.secs, P, Q, Len(loads))
  <2>1. 1 .. Len(loads) \subseteq DOMAIN O /\ DOMAIN M = DOMAIN O
    BY <1>3, <1>11
  <2> QED
    BY <1>3, <1>7, <1>9, <1>12, <2>1, AppendedMore
<1>15. Origins(P, Q)
  BY <1>7, <1>9, <1>11, OriginMore DEF Origins
<1>16. Objs' = P /\ Sms' = Q
  BY <1>1 DEF Objs, Sms, P, Q
<1>17. Placed(secs, Objs, Sms)' /\ AppendedAll(secs, Objs, Sms, Len(loads))' /\ Origins(Objs, Sms)'
  <2>1. Placed(secs, Objs, Sms)'
    BY <1>1, <1>13, <1>16
  <2>2. AppendedAll(secs, Objs, Sms, Len(loads))'
    BY <1>1, <1>14, <1>16
  <2>3. Origins(Objs, Sms)'
    BY <1>15, <1>16 DEF Origins
  <2> QED
    BY <2>1, <2>2, <2>3
<1>18. work' = <<w>>
  BY <1>1 DEF W
<1>19. Shapes'
  BY <1>1, <1>2, <1>5, <1>12 DEF Shapes
<1>20. MapRight'
  BY <1>5, <1>18 DEF MapRight
<1> QED
  BY <1>5, <1>17, <1>18, <1>19, <1>20
-----------------------------------------------------------------------------
(* Ending an object.                                                       *)

\* The relocations q of a new object after those of the first d.
LEMMA RelsMore ==
  ASSUME NEW p \in Seq(RelType), NEW q \in Seq(RelType), Distinct(p), Distinct(q), NEW d \in Nat,
         \A k \in DOMAIN p : p[k].from[1] <= d, \A k \in DOMAIN q : q[k].from[1] = d + 1,
         NEW e, Cat(p, q, e)
  PROVE  /\ e \in Seq(RelType) /\ Distinct(e) /\ \A k \in DOMAIN e : e[k].from[1] <= d + 1
         /\ \A k \in DOMAIN p : \E j \in DOMAIN e : e[j] = p[k]
         /\ \A k \in DOMAIN q : \E j \in DOMAIN e : e[j] = q[k]
<1>1. /\ e \in Seq(RelType) /\ Len(e) = Len(p) + Len(q) /\ DOMAIN e = 1 .. Len(p) + Len(q)
      /\ \A k \in 1 .. Len(p) : e[k] = p[k]
      /\ \A k \in 1 .. Len(q) : e[Len(p) + k] = q[k]
  BY CatFacts
<1>2. /\ Len(p) \in Nat /\ Len(q) \in Nat
      /\ DOMAIN p = 1 .. Len(p) /\ DOMAIN q = 1 .. Len(q)
  OBVIOUS
<1>3. \A k \in DOMAIN p : p[k].from[1] \in Nat
  <2> TAKE k \in DOMAIN p
  <2>1. p[k] \in RelType
    OBVIOUS
  <2> QED
    BY <2>1 DEF RelType, CellType
<1>4. ASSUME NEW k \in DOMAIN e
      PROVE  \/ k \in DOMAIN p /\ e[k] = p[k]
             \/ k - Len(p) \in DOMAIN q /\ e[k] = q[k - Len(p)]
  <2>1. CASE k <= Len(p)
    BY <1>1, <1>2, <2>1
  <2>2. CASE k > Len(p)
    <3>1. k - Len(p) \in 1 .. Len(q) /\ Len(p) + (k - Len(p)) = k
      BY <1>1, <1>2, <2>2
    <3> QED
      BY <1>1, <1>2, <3>1
  <2> QED
    BY <1>1, <1>2, <2>1, <2>2
<1>5. \A k \in DOMAIN e : e[k].from[1] <= d + 1
  BY <1>3, <1>4
<1>6. ASSUME NEW j \in DOMAIN e, NEW k \in DOMAIN e, e[j].from = e[k].from PROVE j = k
  <2>1. CASE j \in DOMAIN p /\ e[j] = p[j] /\ k \in DOMAIN p /\ e[k] = p[k]
    BY <1>6, <2>1 DEF Distinct
  <2>2. CASE j \in DOMAIN p /\ e[j] = p[j] /\ k - Len(p) \in DOMAIN q /\ e[k] = q[k - Len(p)]
    BY <1>3, <1>6, <2>2
  <2>3. CASE k \in DOMAIN p /\ e[k] = p[k] /\ j - Len(p) \in DOMAIN q /\ e[j] = q[j - Len(p)]
    BY <1>3, <1>6, <2>3
  <2>4. CASE /\ j - Len(p) \in DOMAIN q /\ e[j] = q[j - Len(p)]
             /\ k - Len(p) \in DOMAIN q /\ e[k] = q[k - Len(p)]
    <3>1. j - Len(p) = k - Len(p)
      BY <1>6, <2>4 DEF Distinct
    <3> QED
      BY <1>1, <1>2, <3>1
  <2> QED
    BY <1>4, <2>1, <2>2, <2>3, <2>4
<1>7. ASSUME NEW k \in DOMAIN p PROVE \E j \in DOMAIN e : e[j] = p[k]
  <2>1. k \in DOMAIN e
    BY <1>1, <1>2
  <2> QED
    BY <1>1, <1>2, <2>1
<1>8. ASSUME NEW k \in DOMAIN q PROVE \E j \in DOMAIN e : e[j] = q[k]
  <2>1. Len(p) + k \in DOMAIN e
    BY <1>1, <1>2
  <2> QED
    BY <1>1, <1>2, <2>1
<1> QED
  BY <1>1, <1>5, <1>6, <1>7, <1>8 DEF Distinct

\* Relocations are appended and the cells left alone: sections are where they were.
LEMMA SameCells ==
  ASSUME NEW S, NEW T, DOMAIN T = DOMAIN S, \A x \in DOMAIN S : T[x].cells = S[x].cells,
         NEW O, NEW M, Placed(S, O, M)
  PROVE  Placed(T, O, M)
<1>1. \A n, i, s, off : Holds(S, n, i, s, off) => Holds(T, n, i, s, off)
  BY DEF Holds
<1>2. \A n, x : Holder(S, O, n, x) => Holder(T, O, n, x)
  BY <1>1 DEF Holder
<1>3. \A n, i, m : PutAt(S, O, n, i, m) => PutAt(T, O, n, i, m)
  BY <1>1, <1>2 DEF PutAt
<1> QED
  BY <1>2, <1>3 DEF Placed, OnceHeld

\* What EndLoad leaves of an object it could relocate.
LEMMA EndPlaced ==
  ASSUME Shapes, MapRight, Placed(secs, Objs, Sms), AppendedAll(secs, Objs, Sms, Len(loads)),
         Origins(Objs, Sms), EndLoad, ~ failed'
  PROVE  /\ Shapes' /\ MapRight' /\ Placed(secs, Objs, Sms)'
         /\ AppendedAll(secs, Objs, Sms, Len(loads))' /\ Origins(Objs, Sms)'
         /\ work' = << >>
<1> DEFINE w == work[1]
           W == <<w>>
           d == Len(loads)
           n == d + 1
           O == ObjsOf(loads, W)
           M == SmsOf(loads, W)
           q(x) == MovedTo(w, x)
           T == [x \in DOMAIN secs |-> [secs[x] EXCEPT !.rels = @ \o q(x)]]
           e == [obj |-> w.obj, sm |-> w.sm]
           K == Append(loads, e)
<1>1. /\ work # << >> /\ Len(w.map) = Len(w.obj.syms)
      /\ secs' = T /\ loads' = K /\ work' = << >> /\ claims' = claims
  BY DEF EndLoad, hvars
<1>2. secs \in Linked /\ loads \in LoadsType /\ WorkOK(W) /\ w \in WorkType /\ work = W
  BY <1>1 DEF Shapes, WorkOK
<1> HIDE DEF w
<1>3. d \in Nat /\ n \in Nat /\ n \in 1 .. n
  BY <1>2 DEF LoadsType
<1>4. /\ O \in Seq(Objects) /\ Len(O) = n /\ M \in Seq(Seq(SmType)) /\ Len(M) = n
      /\ O[n] = w.obj /\ M[n] = w.sm
  <2>1. W # << >> /\ Len(W) = 1 /\ W[1] = w
    OBVIOUS
  <2> HIDE DEF W
  <2> QED
    BY <1>2, <1>3, <2>1, ObjsAre
<1>5. Placed(secs, O, M) /\ AppendedAll(secs, O, M, d) /\ Origins(O, M)
  BY <1>2 DEF Objs, Sms
<1>6. /\ ObjsOf(K, << >>) = O /\ SmsOf(K, << >>) = M
      /\ K \in LoadsType /\ Len(K) = n
  BY <1>2, SameEnded
<1> HIDE DEF O, M, K, W, e
<1>7. DOMAIN O = 1 .. n /\ DOMAIN M = 1 .. n
  BY <1>3, <1>4
<1>8. Complete(w)
  BY <1>1, <1>2, <1>3, <1>4, <1>5, <1>7 DEF Placed, Complete
<1>9. ASSUME NEW x
      PROVE  /\ q(x) \in Seq(RelType) /\ Distinct(q(x))
             /\ \A k \in DOMAIN q(x) : q(x)[k].from[1] = d + 1
             /\ \A i \in SourcesOf(w, x) : \A r \in DOMAIN w.obj.secs[i].rels :
                  \E k \in DOMAIN q(x) : q(x)[k] = NewRels(w, i)[r]
  BY <1>3, <1>8, MovedToFacts
<1>10. ASSUME NEW x \in DOMAIN secs
       PROVE  /\ T[x] \in SectionType /\ T[x].cells = secs[x].cells
              /\ Distinct(T[x].rels) /\ \A k \in DOMAIN T[x].rels : T[x].rels[k].from[1] <= n
              /\ \A k \in DOMAIN secs[x].rels : \E j \in DOMAIN T[x].rels : T[x].rels[j] = secs[x].rels[k]
              /\ \A k \in DOMAIN q(x) : \E j \in DOMAIN T[x].rels : T[x].rels[j] = q(x)[k]
  <2> DEFINE p == secs[x].rels
             z == q(x)
             f == p \o z
  <2>1. secs[x] \in SectionType
    BY <1>2, LinkedIs
  <2>2. p \in Seq(RelType) /\ Distinct(p) /\ \A k \in DOMAIN p : p[k].from[1] <= d
    BY <1>5, <2>1 DEF SectionType, AppendedAll
  <2>3. z \in Seq(RelType) /\ Distinct(z) /\ \A k \in DOMAIN z : z[k].from[1] = d + 1
    BY <1>9
  <2>4. Cat(p, z, f)
    BY DEF Cat
  <2>5. T[x] = [secs[x] EXCEPT !.rels = f]
    OBVIOUS
  <2> HIDE DEF p, z, f, T
  <2>6. /\ f \in Seq(RelType) /\ Distinct(f) /\ \A k \in DOMAIN f : f[k].from[1] <= d + 1
        /\ \A k \in DOMAIN p : \E j \in DOMAIN f : f[j] = p[k]
        /\ \A k \in DOMAIN z : \E j \in DOMAIN f : f[j] = z[k]
    BY SMTT(30), <1>3, <2>2, <2>3, <2>4, RelsMore
  <2>7. T[x] \in SectionType /\ T[x].cells = secs[x].cells /\ T[x].rels = f
    <3>1. f \in Seq(RelType)
      BY <2>6
    <3> QED
      BY <2>1, <2>5, <3>1 DEF SectionType
  <2> QED
    BY <2>6, <2>7 DEF p, z
<1>11. DOMAIN T = DOMAIN secs /\ T = [x \in DOMAIN T |-> T[x]]
  OBVIOUS
<1> HIDE DEF T, q, n
<1>12. T \in Linked
  BY <1>2, <1>10, <1>11, LinkedIs
<1>13. Placed(T, O, M)
  BY <1>5, <1>10, <1>11, SameCells
<1>14. ASSUME NEW m \in 1 .. n, NEW i \in DOMAIN O[m].secs, M[m][i].how # "none",
              NEW r \in DOMAIN O[m].secs[i].rels
       PROVE  Appended(T, O, M, m, i, r)
  <2> DEFINE x == O[m].secs[i].name
             old == O[m].secs[i].rels[r]
  <2>1. CASE m \in 1 .. d
    <3>1. Appended(secs, O, M, m, i, r)
      BY <1>5, <1>14, <2>1 DEF AppendedAll
    <3>2. x \in DOMAIN secs
      BY <3>1 DEF Appended
    <3>3. PICK k \in DOMAIN secs[x].rels :
            /\ secs[x].rels[k].from = <<m, i, r>>
            /\ secs[x].rels[k].off = old.off + M[m][i].off
            /\ Renamed(O[m], M[m], O[m].syms[old.sym], secs[x].rels[k].sym)
      BY <3>1 DEF Appended
    <3>4. x \in DOMAIN T /\ \E j \in DOMAIN T[x].rels : T[x].rels[j] = secs[x].rels[k]
      BY <1>10, <1>11, <3>2
    <3> QED
      BY <3>3, <3>4 DEF Appended
  <2>2. CASE m = n
    <3>1. O[m] = w.obj /\ M[m] = w.sm
      BY <1>4, <2>2
    <3>2. i \in SourcesOf(w, x)
      BY <1>14, <3>1 DEF SourcesOf, RelocatedSections
    <3>3. x \in DOMAIN secs
      <4>1. PutAt(secs, O, m, i, M[m][i])
        BY <1>5, <1>7 DEF Placed
      <4>2. M[m][i].how \in {"here", "once"}
        BY <1>14, <4>1 DEF PutAt, SmType
      <4> QED
        BY <4>1, <4>2 DEF PutAt, Holder, Holds
    <3>4. PICK k \in DOMAIN q(x) : q(x)[k] = NewRels(w, i)[r]
      BY <1>9, <3>1, <3>2
    <3>5. x \in DOMAIN T /\ \E j \in DOMAIN T[x].rels : T[x].rels[j] = NewRels(w, i)[r]
      BY <1>10, <1>11, <3>3, <3>4
    <3>6. NewRels(w, i)[r] = [off |-> old.off + M[m][i].off, sym |-> w.map[old.sym],
                              from |-> <<m, i, r>>]
      <4>1. /\ \A s \in DOMAIN w.obj.secs[i].rels :
                 NewRels(w, i)[s] = [off |-> w.obj.secs[i].rels[s].off + w.sm[i].off,
                                     sym |-> w.map[w.obj.secs[i].rels[s].sym],
                                     from |-> <<Len(loads) + 1, i, s>>]
        BY ZenonT(40), <1>3, <1>8, <3>1, NewRelsFacts
      <4> QED
        BY <2>2, <3>1, <4>1 DEF n
    <3>7. Renamed(O[m], M[m], O[m].syms[old.sym], w.map[old.sym])
      <4>1. old.sym \in DOMAIN w.obj.syms
        <5> DEFINE D == [off : 0 .. O[m].secs[i].size - 1, sym : DOMAIN w.obj.syms]
        <5>1. O[m].secs[i].rels \in Seq(D)
          BY <1>2, <3>1, ObjectFacts DEF WorkType, SectionOK
        <5>2. old \in D
          <6> HIDE DEF D
          <6> QED
            BY <5>1
        <5> QED
          BY <5>2
      <4>2. DOMAIN w.map = DOMAIN w.obj.syms
        <5>1. w.map \in Seq(MapType) /\ w.obj \in Objects
          BY <1>2 DEF WorkType
        <5>2. w.obj.syms \in Seq(Range(w.obj.syms))
          BY <5>1, ObjectFacts
        <5> QED
          BY <1>1, <5>1, <5>2
      <4> QED
        BY <1>1, <3>1, <4>1, <4>2 DEF MapRight, w
    <3> HIDE DEF x, old
    <3>8. \E j \in DOMAIN T[x].rels :
            /\ T[x].rels[j].from = <<m, i, r>>
            /\ T[x].rels[j].off = old.off + M[m][i].off
            /\ Renamed(O[m], M[m], O[m].syms[old.sym], T[x].rels[j].sym)
      <4>1. PICK j \in DOMAIN T[x].rels : T[x].rels[j] = NewRels(w, i)[r]
        BY <3>5
      <4>2. /\ T[x].rels[j].from = <<m, i, r>> /\ T[x].rels[j].sym = w.map[old.sym]
            /\ T[x].rels[j].off = old.off + M[m][i].off
        BY <3>6, <4>1
      <4> QED
        BY <3>7, <4>2
    <3> QED
      BY <3>5, <3>8 DEF Appended, x, old
  <2> QED
    BY <1>3, <2>1, <2>2 DEF n
<1>15. AppendedAll(T, O, M, n)
  BY <1>10, <1>11, <1>14 DEF AppendedAll
<1>16. Objs' = O /\ Sms' = M
  BY <1>1, <1>6 DEF Objs, Sms
<1>17. Placed(secs, Objs, Sms)' /\ AppendedAll(secs, Objs, Sms, Len(loads))' /\ Origins(Objs, Sms)'
  <2>1. Placed(secs, Objs, Sms)'
    BY <1>1, <1>13, <1>16
  <2>2. AppendedAll(secs, Objs, Sms, Len(loads))'
    BY <1>1, <1>6, <1>15, <1>16
  <2>3. Origins(Objs, Sms)'
    BY <1>1, <1>5, <1>16 DEF Origins
  <2> QED
    BY <2>1, <2>2, <2>3
<1>18. Shapes' /\ MapRight'
  BY <1>1, <1>6, <1>12 DEF Shapes, MapRight, WorkOK
<1> QED
  BY <1>1, <1>17, <1>18
-----------------------------------------------------------------------------
(* Entering a symbol.                                                      *)

\* What symbol y of the object of w is entered with.
AttrOf(w, y) ==
  [bind |-> y.bind, vis |-> y.vis, aset |-> y.aset,
   shndx |-> IF y.sec = 0 THEN y.shndx ELSE w.obj.secs[y.sec].name,
   val |-> IF y.sec = 0 THEN y.val ELSE y.val + w.sm[y.sec].off]

\* A symbol is entered unless it is local or its section is left out.
Enters(w, y) == y.bind # LOCALB /\ (y.sec # 0 => w.sm[y.sec].how = "here")

\* The object in work, and its next symbol.
WorkNow(w, y, m) ==
  /\ work = <<w>> /\ w \in WorkType /\ Len(w.map) + 1 \in DOMAIN w.obj.syms
  /\ y = w.obj.syms[Len(w.map) + 1] /\ SymbolOK(w.obj, y)
  /\ m \in MapType /\ Renamed(w.obj, w.sm, y, m)
  /\ work' = <<[w EXCEPT !.map = Append(@, m)]>>

\* The round of the loop over the symbols, whatever the case.
LEMMA SymbolStep ==
  ASSUME Shapes, Placed(secs, Objs, Sms), LoadSymbol
  PROVE  \E w, y, m :
           /\ WorkNow(w, y, m)
           /\ IF Enters(w, y)
              THEN y.name \in Name /\ AttrOf(w, y) \in FileAttr /\ HEnter(y.name, AttrOf(w, y))
              ELSE UNCHANGED hvars
<1> DEFINE w == work[1]
           i == Len(w.map) + 1
           y == w.obj.syms[i]
           sm == w.sm[y.sec]
           attr == AttrOf(w, y)
           To(m) == work' = <<[w EXCEPT !.map = Append(@, m)]>>
           Goal(m) == /\ WorkNow(w, y, m)
                      /\ IF Enters(w, y)
                         THEN y.name \in Name /\ attr \in FileAttr /\ HEnter(y.name, attr)
                         ELSE UNCHANGED hvars
<1>1. /\ work # << >> /\ i <= Len(w.obj.syms)
      /\ CASE y.sec # 0 /\ sm.how = "none" -> To(NoSym) /\ UNCHANGED hvars
           [] y.sec # 0 /\ sm.how = "once" ->
                /\ To(IF y.bind # LOCALB /\ table[y.name] # None THEN Global(y.name) ELSE NoSym)
                /\ UNCHANGED hvars
           [] OTHER -> IF y.bind = LOCALB
                       THEN To(Local(attr.shndx, attr.val)) /\ UNCHANGED hvars
                       ELSE To(Global(y.name)) /\ HEnter(y.name, attr)
  BY DEF LoadSymbol, AttrOf
<1>2. work = <<w>> /\ w \in WorkType /\ loads \in LoadsType /\ WorkOK(work)
  BY <1>1 DEF Shapes, WorkOK
<1>3. w.obj \in Objects /\ w.sm \in Seq(SmType) /\ w.map \in Seq(MapType)
  BY <1>2 DEF WorkType
<1>4. i \in DOMAIN w.obj.syms /\ SymbolOK(w.obj, y)
  <2>1. w.obj.syms \in Seq(Range(w.obj.syms))
    BY <1>3, ObjectFacts
  <2>2. Len(w.map) \in Nat /\ Len(w.obj.syms) \in Nat /\ DOMAIN w.obj.syms = 1 .. Len(w.obj.syms)
    BY <1>3, <2>1
  <2>3. i \in DOMAIN w.obj.syms
    <3>1. i <= Len(w.obj.syms)
      BY <1>1
    <3> HIDE DEF w
    <3> QED
      BY <2>2, <3>1
  <2> QED
    BY <1>3, <2>3, ObjectFacts
<1>5. ASSUME y.sec # 0
      PROVE  /\ sm \in SmType /\ y.sec \in DOMAIN w.obj.secs
             /\ sm.how # "none" => w.obj.secs[y.sec].name \in Section
             /\ y.shndx # UNDEF
  <2> DEFINE n == Len(loads) + 1
  <2>1. y.sec \in DOMAIN w.obj.secs /\ y.shndx # UNDEF
    BY <1>4, <1>5 DEF SymbolOK
  <2>2. /\ Objs[n] = w.obj /\ Sms[n] = w.sm /\ n \in DOMAIN Objs
    <3> DEFINE O == ObjsOf(loads, work)
               M == SmsOf(loads, work)
    <3>1. /\ O \in Seq(Objects) /\ Len(O) = Len(loads) + Len(work)
          /\ Len(loads) \in Nat /\ Len(work) \in {0, 1} /\ (work = << >> <=> Len(work) = 0)
          /\ O[n] = work[1].obj /\ M[n] = work[1].sm
      BY <1>1, <1>2, ObjsAre
    <3>2. Len(work) = 1
      BY <1>1, <3>1
    <3> HIDE DEF O, M, n
    <3>3. O \in Seq(Objects) /\ Len(O) = n /\ n \in Nat /\ n # 0
      BY <3>1, <3>2 DEF n
    <3>4. n \in DOMAIN O
      <4> HIDE DEF w, y
      <4> QED
        BY <3>3
    <3> USE DEF n
    <3> QED
      BY <3>1, <3>4 DEF Objs, Sms, O, M
  <2>3. PutAt(secs, Objs, n, y.sec, sm)
    BY <2>1, <2>2 DEF Placed
  <2>4. sm \in SmType /\ (sm.how = "none" <=> w.obj.secs[y.sec].skip)
    BY <2>2, <2>3 DEF PutAt
  <2>5. SectionHere(w.obj.secs[y.sec])
    BY <1>3, <2>1, ObjectFacts
  <2> QED
    BY <2>1, <2>4, <2>5 DEF SectionHere
<1>6. y.bind \in Bind /\ y.vis \in Vis /\ y.aset \in BOOLEAN /\ y.val \in Nat
      /\ (y.bind # LOCALB => y.name \in Name) /\ (y.sec = 0 => y.shndx \in Shndx)
  BY <1>4 DEF SymbolOK
<1>7. ASSUME y.sec = 0 \/ sm.how = "here"
      PROVE  attr \in FileAttr /\ attr.shndx \in Shndx /\ attr.val \in Nat
  <2>1. CASE y.sec = 0
    BY <1>6, <2>1 DEF AttrOf, FileAttr
  <2>2. CASE y.sec # 0
    <3>1. sm.off \in Nat /\ w.obj.secs[y.sec].name \in Shndx
      BY <1>5, <1>7, <2>2 DEF SmType, Shndx
    <3>2. attr = [bind |-> y.bind, vis |-> y.vis, aset |-> y.aset,
                  shndx |-> w.obj.secs[y.sec].name, val |-> y.val + sm.off]
      BY <2>2 DEF AttrOf
    <3> HIDE DEF y, sm, attr, w, i
    <3>3. y.val + sm.off \in Nat
      BY <1>6, <3>1
    <3> QED
      BY <1>6, <3>1, <3>2, <3>3 DEF FileAttr
  <2> QED
    BY <2>1, <2>2
<1>8. NoSym \in MapType /\ (y.bind # LOCALB => Global(y.name) \in MapType)
  BY <1>6 DEF MapType, NoSym, Global
<1> SUFFICES \E m : Goal(m)
  OBVIOUS
<1>9. CASE y.sec # 0 /\ sm.how = "none"
  <2>1. To(NoSym) /\ UNCHANGED hvars
    BY <1>1, <1>9
  <2>2. ~ Enters(w, y)
    BY <1>9 DEF Enters
  <2>3. Renamed(w.obj, w.sm, y, NoSym)
    BY DEF Renamed
  <2>4. WorkNow(w, y, NoSym)
    BY <1>2, <1>4, <1>8, <2>1, <2>3 DEF WorkNow
  <2> QED
    BY <2>1, <2>2, <2>4
<1>10. CASE y.sec # 0 /\ sm.how = "once"
  <2> DEFINE m == IF y.bind # LOCALB /\ table[y.name] # None THEN Global(y.name) ELSE NoSym
  <2>1. To(m) /\ UNCHANGED hvars
    BY <1>1, <1>10
  <2>2. ~ Enters(w, y)
    BY <1>10 DEF Enters
  <2>3. m \in MapType /\ Renamed(w.obj, w.sm, y, m)
    BY <1>8 DEF Renamed
  <2> HIDE DEF m
  <2>4. WorkNow(w, y, m)
    BY <1>2, <1>4, <2>1, <2>3 DEF WorkNow
  <2> QED
    BY <2>1, <2>2, <2>4
<1>11. CASE (y.sec = 0 \/ sm.how = "here") /\ y.bind = LOCALB
  <2> DEFINE m == Local(attr.shndx, attr.val)
  <2>1. To(m) /\ UNCHANGED hvars
    BY <1>1, <1>11
  <2>2. ~ Enters(w, y)
    BY <1>11 DEF Enters
  <2>3. m \in MapType
    BY <1>7, <1>11 DEF MapType, Local
  <2>4. Renamed(w.obj, w.sm, y, m)
    <3>1. y.sec # 0 => attr.shndx = w.obj.secs[y.sec].name /\ attr.val = y.val + sm.off
      BY DEF AttrOf
    <3> QED
      BY <1>11, <3>1 DEF Renamed
  <2> HIDE DEF m
  <2>5. WorkNow(w, y, m)
    BY <1>2, <1>4, <2>1, <2>3, <2>4 DEF WorkNow
  <2> QED
    BY <2>1, <2>2, <2>5
<1>12. CASE (y.sec = 0 \/ sm.how = "here") /\ y.bind # LOCALB
  <2> DEFINE m == Global(y.name)
  <2>1. To(m) /\ HEnter(y.name, attr)
    BY <1>1, <1>12
  <2>2. Enters(w, y)
    BY <1>12 DEF Enters
  <2>3. m \in MapType /\ Renamed(w.obj, w.sm, y, m)
    BY <1>8, <1>12 DEF Renamed
  <2> HIDE DEF m
  <2>4. WorkNow(w, y, m)
    BY <1>2, <1>4, <2>1, <2>3 DEF WorkNow
  <2> QED
    BY <1>6, <1>7, <1>12, <2>1, <2>2, <2>4
<1> QED
  <2>1. y.sec # 0 => sm.how \in {"none", "once", "here"}
    BY <1>5 DEF SmType
  <2> QED
    BY <1>9, <1>10, <1>11, <1>12, <2>1

\* set_elf_sym() takes section and value from one of the two symbols.
LEMMA MergeFrom ==
  ASSUME NEW V, NEW old \in Entry(V), NEW new \in Entry(V)
  PROVE  \/ Merge(old, new).shndx = old.shndx /\ Merge(old, new).val = old.val
         \/ Merge(old, new).shndx = new.shndx /\ Merge(old, new).val = new.val
<1> DEFINE seen == [old EXCEPT !.vis = MergeVis(old.vis, new.vis)]
<1>1. seen \in Entry(V) /\ seen.shndx = old.shndx /\ seen.val = old.val
  BY DEF Entry, MergeVis, Default
<1>2. /\ Patch(seen, new).shndx = new.shndx /\ Patch(seen, new).val = new.val
  BY <1>1 DEF Patch, Entry
<1>3. Merge(old, new) \in {old, new, seen, Patch(seen, new)}
  BY DEF Merge
<1> QED
  BY <1>1, <1>2, <1>3

\* Whatever set_elf_sym decides, the table keeps values some symbol was entered with.
LEMMA EnterFrom ==
  ASSUME NEW V, LinkInv(V), NEW n \in Name, NEW a \in Entry(V), HEnter(n, a), TableFrom
  PROVE  TableFrom'
<1> DEFINE old == table[n]
           new == IF old = None THEN a ELSE Merge(old, a)
<1>1. table' = [table EXCEPT ![n] = new] /\ claims' = claims \cup {<<n, a>>}
  BY DEF HEnter, Enter
<1>2. old # None => old \in Entry(V)
  BY DEF LinkInv, Typed
<1>3. \/ new.shndx = a.shndx /\ new.val = a.val
      \/ old # None /\ new.shndx = old.shndx /\ new.val = old.val
  BY <1>2, MergeFrom
<1>4. DOMAIN table = Name
  BY DEF LinkInv, Typed
<1> HIDE DEF new
<1> SUFFICES ASSUME NEW f \in Name, table'[f] # None
             PROVE  \E c \in claims' : c[1] = f /\ c[2].shndx = table'[f].shndx /\ c[2].val = table'[f].val
  BY DEF TableFrom
<1>5. CASE f # n
  BY <1>1, <1>4, <1>5 DEF TableFrom
<1>6. CASE f = n
  <2>1. table'[f] = new
    BY <1>1, <1>4, <1>6
  <2>2. CASE new.shndx = a.shndx /\ new.val = a.val
    <3>1. <<n, a>> \in claims' /\ <<n, a>>[1] = n /\ <<n, a>>[2] = a
      BY <1>1
    <3> QED
      BY <1>6, <2>1, <2>2, <3>1
  <2>3. CASE old # None /\ new.shndx = old.shndx /\ new.val = old.val
    BY <1>1, <1>6, <2>1, <2>3 DEF TableFrom
  <2> QED
    BY <1>3, <2>2, <2>3
<1> QED
  BY <1>5, <1>6

\* What LoadSymbol leaves.
LEMMA SymbolPlaced ==
  ASSUME LinkInv(Nat), Shapes, MapRight, TableFrom, Placed(secs, Objs, Sms),
         AppendedAll(secs, Objs, Sms, Len(loads)), Origins(Objs, Sms), LoadSymbol
  PROVE  /\ LinkInv(Nat)' /\ Shapes' /\ MapRight' /\ TableFrom' /\ Placed(secs, Objs, Sms)'
         /\ AppendedAll(secs, Objs, Sms, Len(loads))' /\ Origins(Objs, Sms)'
<1>1. PICK w, y, m :
        /\ WorkNow(w, y, m)
        /\ IF Enters(w, y)
           THEN y.name \in Name /\ AttrOf(w, y) \in FileAttr /\ HEnter(y.name, AttrOf(w, y))
           ELSE UNCHANGED hvars
  BY SymbolStep
<1> DEFINE a == AttrOf(w, y)
           v == [w EXCEPT !.map = Append(@, m)]
           j == Len(w.map) + 1
           n == Len(loads) + 1
           O == ObjsOf(loads, work)
           M == SmsOf(loads, work)
<1>2. /\ work = <<w>> /\ w \in WorkType /\ j \in DOMAIN w.obj.syms
      /\ y = w.obj.syms[j] /\ SymbolOK(w.obj, y) /\ m \in MapType
      /\ Renamed(w.obj, w.sm, y, m) /\ work' = <<v>>
  BY <1>1 DEF WorkNow
<1>3. UNCHANGED <<secs, loads>>
  BY DEF LoadSymbol
<1>4. secs \in Linked /\ loads \in LoadsType /\ WorkOK(work)
  BY DEF Shapes
<1>5. w.obj \in Objects /\ w.sm \in Seq(SmType) /\ w.map \in Seq(MapType)
      /\ w = [obj |-> w.obj, sm |-> w.sm, map |-> w.map]
  BY <1>2 DEF WorkType
<1>6. Nat # {} /\ None \notin FileAttr /\ FileAttr = Entry(Nat)
  BY LoadingAssumption DEF FileAttr, Entry
<1>7. LinkInv(Nat)' /\ TableFrom'
  <2>1. CASE Enters(w, y)
    <3>1. y.name \in Name /\ a \in Entry(Nat) /\ HEnter(y.name, a)
      BY <1>1, <1>6, <2>1
    <3> HIDE DEF a
    <3> QED
      BY <1>6, <3>1, EnterInv, EnterFrom
  <2>2. CASE ~ Enters(w, y)
    <3>1. UNCHANGED hvars
      BY <1>1, <2>2
    <3> QED
      BY <3>1, LinkSame DEF TableFrom, hvars
  <2> QED
    BY <2>1, <2>2
<1>8. v \in WorkType /\ v.obj = w.obj /\ v.sm = w.sm /\ v.map = Append(w.map, m)
  <2> DEFINE q == Append(w.map, m)
  <2>1. q \in Seq(MapType)
    BY <1>2, <1>5
  <2>2. v = [w EXCEPT !.map = q]
    OBVIOUS
  <2> HIDE DEF q, v
  <2>3. v \in WorkType /\ v.obj = w.obj /\ v.sm = w.sm /\ v.map = q
    <3> DEFINE X == Seq(SmType)
               Y == Seq(MapType)
    <3>1. w \in [obj : Objects, sm : X, map : Y] /\ q \in Y
      BY <1>2, <2>1 DEF WorkType
    <3> HIDE DEF X, Y
    <3>2. v \in [obj : Objects, sm : X, map : Y] /\ v.obj = w.obj /\ v.sm = w.sm /\ v.map = q
      BY <2>2, <3>1
    <3> QED
      BY <3>2 DEF WorkType, X, Y
  <2> QED
    BY <2>3 DEF q
<1> HIDE DEF v
<1>9. /\ Len(v.map) = j /\ DOMAIN v.map = 1 .. j /\ v.map[j] = m
      /\ \A k \in 1 .. Len(w.map) : v.map[k] = w.map[k] /\ k \in DOMAIN w.map
      /\ Len(w.map) \in Nat
  BY <1>2, <1>5, <1>8
<1>10. WorkOK(<<v>>)
  <2>1. w.obj.syms \in Seq(Range(w.obj.syms))
    BY <1>5, ObjectFacts
  <2>2. j <= Len(w.obj.syms)
    BY <1>2, <2>1
  <2> QED
    BY <1>8, <1>9, <2>2 DEF WorkOK
<1>11. Shapes'
  BY <1>2, <1>3, <1>4, <1>10 DEF Shapes
<1>12. MapRight'
  <2> SUFFICES ASSUME NEW k \in 1 .. j
               PROVE  Renamed(v.obj, v.sm, v.obj.syms[k], v.map[k])
    BY <1>2, <1>9 DEF MapRight
  <2>1. CASE k = j
    BY <1>2, <1>8, <1>9, <2>1
  <2>2. CASE k # j
    <3>1. k \in 1 .. Len(w.map)
      BY <1>9, <2>2
    <3>2. Renamed(w.obj, w.sm, w.obj.syms[k], w.map[k])
      BY <1>2, <1>9, <3>1 DEF MapRight
    <3> QED
      BY <1>8, <1>9, <3>1, <3>2
  <2> QED
    BY <2>1, <2>2
<1>13. Objs' = O /\ Sms' = M
  <2>1. ObjsOf(loads, <<v>>) = ObjsOf(loads, <<w>>) /\ SmsOf(loads, <<v>>) = SmsOf(loads, <<w>>)
    BY <1>8, SameBegun
  <2> QED
    BY <1>2, <1>3, <2>1 DEF Objs, Sms
<1>14. Placed(secs, Objs, Sms)' /\ AppendedAll(secs, Objs, Sms, Len(loads))'
  BY <1>3, <1>13 DEF Objs, Sms
<1>15. Origins(O, M) /\ O[n] = w.obj /\ M[n] = w.sm /\ n \in DOMAIN O
  <2>1. /\ O \in Seq(Objects) /\ Len(O) = Len(loads) + Len(work) /\ Len(loads) \in Nat
        /\ O[n] = work[1].obj /\ M[n] = work[1].sm
    <3>1. work # << >>
      BY <1>2
    <3> QED
      BY <1>4, <3>1, ObjsAre
  <2>2. Len(work) = 1 /\ work[1] = w
    BY <1>2
  <2> HIDE DEF O, M
  <2>3. n \in DOMAIN O
    BY <2>1, <2>2
  <2> QED
    BY <2>1, <2>2, <2>3 DEF Objs, Sms, O, M
<1> HIDE DEF O, M, n
<1>16. Origins(Objs, Sms)'
  <2> SUFFICES ASSUME NEW c \in claims', c[2].shndx \in SectionNames PROVE Origin(O, M, c)
    BY <1>13 DEF Origins
  <2>1. CASE c \in claims
    BY <1>15, <2>1 DEF Origins
  <2>2. CASE c \notin claims
    <3>1. Enters(w, y)
      BY <1>1, <2>2 DEF hvars
    <3>2. c = <<y.name, a>>
      BY <1>1, <2>2, <3>1 DEF HEnter
    <3>3. c[1] = y.name /\ c[2] = a
      BY <3>2
    <3>4. y.sec # 0
      <4>1. y.sec = 0 => a.shndx = y.shndx /\ y.shndx \notin SectionNames
        BY <1>2 DEF SymbolOK, AttrOf
      <4> QED
        BY <3>3, <4>1
    <3>5. /\ a.shndx = w.obj.secs[y.sec].name /\ a.val = y.val + w.sm[y.sec].off
          /\ w.sm[y.sec].how = "here" /\ y.bind # LOCALB
      BY <3>1, <3>4 DEF AttrOf, Enters
    <3>6. y \in Range(w.obj.syms)
      BY <1>2 DEF Range
    <3> QED
      BY <1>15, <3>3, <3>4, <3>5, <3>6 DEF Origin
  <2> QED
    BY <2>1, <2>2
<1> QED
  BY <1>7, <1>11, <1>12, <1>14, <1>16
-----------------------------------------------------------------------------
(* Sections and symbols have moved together.                               *)

\* A symbol of a section that was appended stands where its section went.
LEMMA StandsThere ==
  ASSUME NEW O, NEW n \in DOMAIN O, O[n] \in Objects, NEW y, SymbolOK(O[n], y), y.sec # 0,
         NEW m, PutAt(secs, O, n, y.sec, m), m.how = "here"
  PROVE  StandsFor(O[n].secs[y.sec].name, y.val + m.off, O[n], n, y)
<1> DEFINE s == O[n].secs[y.sec]
<1>1. Holds(secs, n, y.sec, s, m.off) /\ m.off \in Nat
  BY DEF PutAt, SmType
<1>2. y.val \in Nat /\ y.sec \in DOMAIN O[n].secs
  BY DEF SymbolOK
<1>3. s.size \in Nat
  BY <1>2, ObjectFacts DEF SectionHere
<1>4. ASSUME y.val < s.size PROVE CellAt(s.name, y.val + m.off) = <<n, y.sec, y.val>>
  <2>1. y.val \in 0 .. s.size - 1 /\ m.off + y.val + 1 = y.val + m.off + 1
    BY <1>1, <1>2, <1>3, <1>4
  <2>2. secs[s.name].cells[m.off + y.val + 1] = <<n, y.sec, y.val>>
    BY <1>1, <2>1 DEF Holds
  <2> QED
    BY <2>1, <2>2 DEF CellAt
<1> QED
  BY <1>4 DEF StandsFor

\* The objects DefinitionsFollow goes through.
LEMMA ObjectsBegun ==
  ASSUME Shapes
  PROVE  [n \in DOMAIN loads |-> loads[n].obj] \o [n \in DOMAIN work |-> work[n].obj] = Objs
<1> DEFINE p == [n \in DOMAIN loads |-> loads[n].obj]
           q == [n \in DOMAIN work |-> work[n].obj]
           e == p \o q
           D == [obj : Objects, sm : Seq(SmType)]
<1>1. loads \in LoadsType /\ WorkOK(work)
  BY DEF Shapes
<1>2. loads \in Seq(D)
  BY <1>1 DEF LoadsType
<1>3. /\ Objs \in Seq(Objects) /\ Len(Objs) = Len(loads) + Len(work)
      /\ Len(loads) \in Nat /\ Len(work) \in {0, 1} /\ (work = << >> <=> Len(work) = 0)
      /\ \A n \in 1 .. Len(loads) : Objs[n] = loads[n].obj
      /\ work # << >> => /\ Objs[Len(loads) + 1] = work[1].obj
                         /\ work = <<work[1]>> /\ work[1] \in WorkType
  BY <1>1, ObjsAre DEF Objs
<1>4. \A n \in 1 .. Len(loads) : loads[n] \in D
  <2> HIDE DEF D
  <2> QED
    BY <1>2
<1>5. DOMAIN loads = 1 .. Len(loads)
  <2> HIDE DEF D
  <2> QED
    BY <1>2
<1>6. p \in Seq(Objects) /\ Len(p) = Len(loads) /\ \A n \in 1 .. Len(loads) : p[n] = loads[n].obj
  <2>1. p \in [1 .. Len(loads) -> Objects]
    BY <1>4, <1>5
  <2> QED
    BY <1>3, <1>5, <2>1
<1>7. q \in Seq(Objects) /\ Len(q) = Len(work) /\ \A n \in 1 .. Len(work) : q[n] = work[1].obj
  <2>1. CASE work = << >>
    BY <2>1
  <2>2. CASE work # << >>
    <3>1. DOMAIN work = 1 .. 1 /\ Len(work) = 1
      BY <1>3, <2>2
    <3>2. work[1].obj \in Objects
      BY <1>3, <2>2 DEF WorkType
    <3>3. q = [n \in 1 .. 1 |-> work[1].obj]
      BY <3>1
    <3> HIDE DEF q
    <3> DEFINE N == Len(work)
    <3>4. N = 1 /\ N \in Nat
      BY <3>1
    <3>5. q \in [1 .. N -> Objects]
      BY <3>2, <3>3, <3>4
    <3>7. N \in Nat
      BY <3>4
    <3> HIDE DEF N
    <3>6. q \in Seq(Objects) /\ Len(q) = N
      BY <3>5, <3>7
    <3> QED
      BY <3>1, <3>3, <3>6 DEF N
  <2> QED
    BY <2>1, <2>2
<1> HIDE DEF p, q, D
<1>8. Cat(p, q, e)
  BY DEF Cat
<1> HIDE DEF e
<1>9. /\ e \in Seq(Objects) /\ Len(e) = Len(loads) + Len(work)
      /\ \A k \in 1 .. Len(loads) : e[k] = p[k]
      /\ \A k \in 1 .. Len(work) : e[Len(loads) + k] = q[k]
  BY <1>6, <1>7, <1>8, CatFacts
<1>10. ASSUME NEW k \in 1 .. Len(loads) + Len(work) PROVE e[k] = Objs[k]
  <2>1. CASE k <= Len(loads)
    BY <1>3, <1>6, <1>9, <2>1
  <2>2. CASE k > Len(loads)
    <3> DEFINE a == Len(loads)
               b == Len(work)
    <3>4. a \in Nat /\ b \in {0, 1} /\ k \in 1 .. a + b /\ k > a
      BY <1>3, <2>2
    <3> HIDE DEF a, b
    <3>5. k = a + 1 /\ b = 1 /\ 1 \in 1 .. b
      BY <3>4
    <3>1. k = Len(loads) + 1 /\ Len(work) = 1 /\ work # << >> /\ 1 \in 1 .. Len(work)
      BY <1>3, <3>5 DEF a, b
    <3>2. e[Len(loads) + 1] = q[1]
      BY <1>9, <3>1
    <3> QED
      BY <1>3, <1>7, <3>1, <3>2
  <2> QED
    BY <1>3, <2>1, <2>2
<1>11. e = Objs
  <2>1. DOMAIN e = 1 .. Len(loads) + Len(work) /\ DOMAIN Objs = 1 .. Len(loads) + Len(work)
    BY <1>3, <1>9
  <2>2. e = [k \in DOMAIN e |-> e[k]] /\ Objs = [k \in DOMAIN Objs |-> Objs[k]]
    BY <1>3, <1>9
  <2> QED
    BY <1>10, <2>1, <2>2
<1> QED
  BY <1>11 DEF e, p, q

\* Byte k of a section that is not left out is there, of this copy or another.
LEMMA ByteThere ==
  ASSUME NEW O \in Seq(Objects), NEW n \in DOMAIN O, NEW i \in DOMAIN O[n].secs,
         NEW m, PutAt(secs, O, n, i, m), m.how # "none",
         NEW k \in 0 .. O[n].secs[i].size - 1
  PROVE  \E h \in 1 .. n : \E j \in DOMAIN O[h].secs :
           /\ O[h].secs[j].name = O[n].secs[i].name
           /\ m.how = "here" => h = n /\ j = i
           /\ CellAt(O[n].secs[i].name, k + m.off) = <<h, j, k>>
<1> DEFINE s == O[n].secs[i]
           x == s.name
<1>1. O[n] \in Objects /\ n \in 1 .. n
  OBVIOUS
<1>2. SectionHere(s)
  BY <1>1, ObjectFacts
<1>3. k \in Nat /\ m.off \in Nat /\ m.how \in {"here", "once"}
  BY <1>2 DEF PutAt, SmType, SectionHere
<1>4. m.off + k + 1 = k + m.off + 1 /\ 0 + k + 1 = k + 0 + 1
  BY <1>3
<1>5. CASE m.how = "here"
  <2>1. Holds(secs, n, i, s, m.off)
    BY <1>5 DEF PutAt
  <2>2. secs[x].cells[m.off + k + 1] = <<n, i, k>>
    BY <2>1 DEF Holds
  <2>3. CellAt(x, k + m.off) = <<n, i, k>>
    BY <1>4, <2>2 DEF CellAt
  <2> QED
    BY <1>1, <2>3
<1>6. CASE m.how = "once"
  <2>1. m.off = 0 /\ s.once
    BY <1>6 DEF PutAt
  <2>2. PICK h \in 1 .. n : Holder(secs, O, h, x)
    BY <1>6 DEF PutAt
  <2>3. PICK j \in DOMAIN O[h].secs : O[h].secs[j].name = x /\ Holds(secs, h, j, O[h].secs[j], 0)
    BY <2>2 DEF Holder
  <2>4. O[h] \in Objects
    BY <2>2
  <2> DEFINE t == O[h].secs[j]
  <2>5. t.size = s.size
    <3>1. s \in Range(O[n].secs) /\ t \in Range(O[h].secs) /\ s.name = t.name
      BY <2>3 DEF Range
    <3> HIDE DEF s, t
    <3>2. s.once => s.size = t.size
      BY <1>1, <2>4, <3>1, LoadingAssumption
    <3> QED
      BY <2>1, <3>2
  <2>6. secs[x].cells[0 + k + 1] = <<h, j, k>>
    BY <2>3, <2>5 DEF Holds
  <2>7. CellAt(x, k + m.off) = <<h, j, k>>
    BY <1>4, <2>1, <2>6 DEF CellAt
  <2> QED
    BY <1>6, <2>3, <2>7
<1> QED
  BY <1>3, <1>5, <1>6

\* The invariant gives the half of PlacedRight about relocations: each is there
\* once, at the byte it patched and naming its symbol (tcc_load_object_file).
LEMMA RelocationsHold == ASSUME LoadInv PROVE RelocationsFollow
<1> DEFINE O == Objs
           M == Sms
<1>1. /\ Shapes /\ loads \in LoadsType /\ WorkOK(work) /\ Placed(secs, O, M)
      /\ AppendedAll(secs, O, M, Len(loads))
  BY DEF LoadInv, Placement, Shapes
<1>2. /\ O \in Seq(Objects) /\ Len(O) = Len(loads) + Len(work)
      /\ Len(loads) \in Nat /\ Len(work) \in {0, 1}
      /\ \A n \in 1 .. Len(loads) : O[n] = loads[n].obj /\ M[n] = loads[n].sm
  BY <1>1, ObjsAre DEF Objs, Sms
<1> HIDE DEF O, M
<1>3. DOMAIN loads = 1 .. Len(loads)
  BY <1>1 DEF LoadsType
<1> SUFFICES ASSUME NEW n \in DOMAIN loads, NEW i \in DOMAIN loads[n].obj.secs,
                    loads[n].sm[i].how # "none", NEW r \in DOMAIN loads[n].obj.secs[i].rels
             PROVE  \E k \in Became(n, i, r) :
               LET o == loads[n].obj
                   sm == loads[n].sm
                   x == o.secs[i].name
                   new == secs[x].rels[k]
                   old == o.secs[i].rels[r]
                   s == o.syms[old.sym]
                   hit == CellAt(x, new.off)
               IN /\ Became(n, i, r) = {k}
                  /\ hit[3] = old.off
                  /\ sm[i].how = "here" => (hit[1] = n /\ hit[2] = i)
                  /\ sm[i].how = "once" => loads[hit[1]].obj.secs[hit[2]].name = x
                  /\ (s.bind # LOCALB /\ new.sym # NoSym) => new.sym = Global(s.name)
                  /\ (s.bind = LOCALB /\ s.sec # 0 /\ new.sym # NoSym) =>
                       StandsFor(new.sym.shndx, new.sym.val, o, n, s)
  BY DEF RelocationsFollow
<1> DEFINE o == loads[n].obj
           sm == loads[n].sm
           sec == o.secs[i]
           x == sec.name
           old == sec.rels[r]
           s == o.syms[old.sym]
           m == sm[i]
<1>4. n \in DOMAIN O /\ o \in Objects /\ o = O[n] /\ sm = M[n] /\ n \in 1 .. Len(loads)
  BY <1>2, <1>3
<1> HIDE DEF o, sm
<1>5. PutAt(secs, O, n, i, m) /\ i \in DOMAIN o.secs /\ m.how # "none"
  BY <1>1, <1>4 DEF Placed, o, sm
<1>6. SectionHere(sec) /\ SectionOK(o, sec) /\ \A j \in DOMAIN o.syms : SymbolOK(o, o.syms[j])
  BY <1>4, <1>5, ObjectFacts
<1>7. old.off \in 0 .. sec.size - 1 /\ old.sym \in DOMAIN o.syms /\ r \in DOMAIN sec.rels
  <2> DEFINE D == [off : 0 .. sec.size - 1, sym : DOMAIN o.syms]
  <2>1. sec.rels \in Seq(D) /\ r \in DOMAIN sec.rels
    BY <1>6 DEF SectionOK, o
  <2>2. old \in D
    <3> HIDE DEF D, sec
    <3> QED
      BY <2>1
  <2> QED
    BY <2>1, <2>2
<1>8. Appended(secs, O, M, n, i, r)
  BY <1>1, <1>4, <1>5, <1>7 DEF AppendedAll
<1>9. x \in DOMAIN secs
  BY <1>4, <1>8 DEF Appended
<1>10. PICK k \in DOMAIN secs[x].rels :
         /\ secs[x].rels[k].from = <<n, i, r>>
         /\ secs[x].rels[k].off = old.off + m.off
         /\ Renamed(o, sm, s, secs[x].rels[k].sym)
  BY <1>4, <1>8 DEF Appended
<1> DEFINE new == secs[x].rels[k]
           hit == CellAt(x, new.off)
<1>11. Became(n, i, r) = {k}
  <2>1. Distinct(secs[x].rels)
    BY <1>1, <1>9 DEF AppendedAll
  <2>2. Became(n, i, r) = {j \in DOMAIN secs[x].rels : secs[x].rels[j].from = <<n, i, r>>}
    BY DEF Became, o
  <2> QED
    BY <1>10, <2>1, <2>2 DEF Distinct
<1>12. PICK h \in 1 .. n : \E j \in DOMAIN O[h].secs :
         /\ O[h].secs[j].name = x
         /\ m.how = "here" => h = n /\ j = i
         /\ hit = <<h, j, old.off>>
  <2> DEFINE b == old.off
  <2>1. b \in 0 .. O[n].secs[i].size - 1 /\ i \in DOMAIN O[n].secs /\ x = O[n].secs[i].name
    BY <1>4, <1>5, <1>7
  <2>2. hit = CellAt(O[n].secs[i].name, b + m.off)
    BY <1>10, <2>1
  <2> HIDE DEF b, m, hit, x
  <2>3. \E h \in 1 .. n : \E j \in DOMAIN O[h].secs :
           /\ O[h].secs[j].name = O[n].secs[i].name
           /\ m.how = "here" => h = n /\ j = i
           /\ CellAt(O[n].secs[i].name, b + m.off) = <<h, j, b>>
    BY <1>2, <1>4, <1>5, <2>1, ByteThere
  <2> QED
    BY <2>1, <2>2, <2>3 DEF b
<1>13. PICK j \in DOMAIN O[h].secs :
         /\ O[h].secs[j].name = x
         /\ m.how = "here" => h = n /\ j = i
         /\ hit = <<h, j, old.off>>
  BY <1>12
<1>14. loads[h].obj = O[h]
  BY <1>2, <1>4
<1>15. hit[3] = old.off /\ (m.how = "here" => hit[1] = n /\ hit[2] = i)
       /\ (m.how = "once" => loads[hit[1]].obj.secs[hit[2]].name = x)
  <2> HIDE DEF hit, m, x, old
  <2>1. hit[1] = h /\ hit[2] = j /\ hit[3] = old.off
    BY <1>13
  <2> QED
    BY <1>13, <1>14, <2>1
<1>16. (s.bind # LOCALB /\ new.sym # NoSym) => new.sym = Global(s.name)
  BY <1>10 DEF Renamed
<1>17. ASSUME s.bind = LOCALB, s.sec # 0, new.sym # NoSym
       PROVE  StandsFor(new.sym.shndx, new.sym.val, o, n, s)
  <2> DEFINE e == sm[s.sec]
  <2>1. e.how = "here" /\ new.sym = Local(o.secs[s.sec].name, s.val + e.off)
    BY <1>10, <1>17 DEF Renamed
  <2>2. SymbolOK(o, s)
    BY <1>6, <1>7
  <2>3. s.sec \in DOMAIN o.secs
    BY <1>17, <2>2 DEF SymbolOK
  <2>4. PutAt(secs, O, n, s.sec, e)
    BY <1>1, <1>4, <2>3 DEF Placed
  <2> HIDE DEF e, s
  <2>5. StandsFor(O[n].secs[s.sec].name, s.val + e.off, O[n], n, s)
    BY <1>4, <1>17, <2>1, <2>2, <2>4, StandsThere
  <2>6. new.sym.shndx = o.secs[s.sec].name /\ new.sym.val = s.val + e.off
    BY <2>1 DEF Local
  <2> QED
    BY <1>4, <2>5, <2>6
<1>18. k \in Became(n, i, r)
  BY <1>11
<1> QED
  BY <1>11, <1>15, <1>16, <1>17, <1>18 DEF o, sm

\* The invariant gives the half of PlacedRight about symbols: a definition is where
\* an object that makes it has it.
LEMMA DefinitionsHold == ASSUME LoadInv PROVE DefinitionsFollow
<1>1. Shapes /\ Placed(secs, Objs, Sms) /\ Origins(Objs, Sms) /\ TableFrom
  BY DEF LoadInv, Placement
<1> SUFFICES ASSUME NEW f \in Name, table[f] # None, table[f].shndx \in DOMAIN secs
             PROVE  \E n \in DOMAIN Objs : \E s \in Range(Objs[n].syms) :
                      /\ s.name = f /\ s.bind # LOCALB
                      /\ StandsFor(table[f].shndx, table[f].val, Objs[n], n, s)
  BY <1>1, ObjectsBegun DEF DefinitionsFollow
<1>2. PICK c \in claims : c[1] = f /\ c[2].shndx = table[f].shndx /\ c[2].val = table[f].val
  BY <1>1 DEF TableFrom
<1>3. c[2].shndx \in SectionNames
  BY <1>1, <1>2, LinkedIs DEF Shapes, Linkable
<1>4. Origin(Objs, Sms, c)
  BY <1>1, <1>3 DEF Origins
<1> DEFINE From(n, y) ==
             /\ y.name = c[1] /\ y.bind # LOCALB /\ y.sec # 0
             /\ Objs[n].secs[y.sec].name = c[2].shndx
             /\ Sms[n][y.sec].how = "here" /\ c[2].val = y.val + Sms[n][y.sec].off
<1>11. PICK n \in DOMAIN Objs : \E y \in Range(Objs[n].syms) : From(n, y)
  BY <1>4 DEF Origin
<1>5. PICK y \in Range(Objs[n].syms) : From(n, y)
  BY <1>11
<1>6. Objs[n] \in Objects
  <2>1. Objs \in Seq(Objects)
    BY <1>1, ObjsAre DEF Shapes, Objs
  <2> QED
    BY <2>1
<1>7. SymbolOK(Objs[n], y)
  BY <1>6, LoadingAssumption
<1>8. y.sec \in DOMAIN Objs[n].secs
  BY <1>5, <1>7 DEF SymbolOK
<1>9. PutAt(secs, Objs, n, y.sec, Sms[n][y.sec])
  BY <1>1, <1>8 DEF Placed
<1>10. StandsFor(c[2].shndx, c[2].val, Objs[n], n, y)
  <2> DEFINE m == Sms[n][y.sec]
  <2>1. PutAt(secs, Objs, n, y.sec, m) /\ m.how = "here"
    BY <1>5, <1>9
  <2> HIDE DEF m
  <2>2. StandsFor(Objs[n].secs[y.sec].name, y.val + m.off, Objs[n], n, y)
    BY <1>5, <1>6, <1>7, <2>1, StandsThere
  <2> QED
    BY <1>5, <2>2 DEF m
<1> QED
  BY <1>2, <1>5, <1>10
-----------------------------------------------------------------------------
(* What the table knows while an archive is read.                          *)

\* Entering a symbol makes its name known, and defined if it is a definition.
LEMMA KnownStep ==
  ASSUME NEW V, LinkInv(V), LinkInv(V)', NEW n \in Name, NEW a, HEnter(n, a)
  PROVE  Seen' = Seen \cup {n} /\ Known' = Known \cup (IF Defined(a) THEN {n} ELSE {})
<1>1. claims' = claims \cup {<<n, a>>}
  BY DEF HEnter
<1>2. \A f \in Name : f \in Seen <=> \E c \in claims : c[1] = f
  BY DEF LinkInv, DefinedIffClaimed, Seen
<1>3. \A f \in Name : f \in Seen' <=> \E c \in claims' : c[1] = f
  BY DEF LinkInv, DefinedIffClaimed, Seen
<1>4. \A f \in Name : f \in Known <=> \E c \in claims : c[1] = f /\ Defined(c[2])
  BY DEF LinkInv, DefinedIffClaimed, Known
<1>5. \A f \in Name : f \in Known' <=> \E c \in claims' : c[1] = f /\ Defined(c[2])
  BY DEF LinkInv, DefinedIffClaimed, Known
<1>6. <<n, a>>[1] = n /\ <<n, a>>[2] = a
  OBVIOUS
<1>7. Seen \subseteq Name /\ Seen' \subseteq Name /\ Known \subseteq Name /\ Known' \subseteq Name
  BY DEF Seen, Known
<1>8. ASSUME NEW f \in Name PROVE f \in Seen' <=> f \in Seen \/ f = n
  BY <1>1, <1>2, <1>3, <1>6
<1>9. ASSUME NEW f \in Name PROVE f \in Known' <=> f \in Known \/ (f = n /\ Defined(a))
  <2>1. ASSUME f \in Known' PROVE f \in Known \/ (f = n /\ Defined(a))
    <3>1. PICK c \in claims' : c[1] = f /\ Defined(c[2])
      BY <1>5, <2>1
    <3>2. CASE c \in claims
      BY <1>4, <3>1, <3>2
    <3>3. CASE c = <<n, a>>
      BY <1>6, <3>1, <3>3
    <3> QED
      BY <1>1, <3>2, <3>3
  <2>2. ASSUME f \in Known PROVE f \in Known'
    BY <1>1, <1>4, <1>5, <2>2
  <2>3. ASSUME f = n, Defined(a) PROVE f \in Known'
    <3>1. <<n, a>> \in claims' /\ <<n, a>>[1] = f /\ Defined(<<n, a>>[2])
      BY <1>1, <2>3
    <3> QED
      BY <1>5, <3>1
  <2> QED
    BY <2>1, <2>2, <2>3
<1> QED
  BY <1>7, <1>8, <1>9

\* Nothing else does.
LEMMA KnownSame ==
  ASSUME UNCHANGED hvars PROVE Seen' = Seen /\ Known' = Known /\ Undefined' = Undefined
BY DEF hvars, Seen, Known, Undefined

\* What is undefined is what is seen and not known.
LEMMA UndefinedIs == Undefined = Seen \ Known /\ Known \subseteq Seen
BY DEF Undefined, Seen, Known

Pushed(s, e, q) == q = Append(s, e)

\* One more member is taken.
LEMMA PushFacts ==
  ASSUME NEW X, NEW s \in Seq(X), NEW e \in X, NEW q, Pushed(s, e, q)
  PROVE  /\ q \in Seq(X) /\ q # << >> /\ q[Len(q)] = e /\ Range(q) = Range(s) \cup {e}
         /\ IsInjective(s) /\ e \notin Range(s) => IsInjective(q)
<1>1. /\ q \in Seq(X) /\ Len(q) = Len(s) + 1 /\ Len(s) \in Nat
      /\ DOMAIN q = 1 .. Len(s) + 1 /\ DOMAIN s = 1 .. Len(s)
      /\ q[Len(s) + 1] = e /\ \A k \in 1 .. Len(s) : q[k] = s[k]
  BY DEF Pushed
<1>2. \A k \in 1 .. Len(s) + 1 : k \in 1 .. Len(s) \/ k = Len(s) + 1
  BY <1>1
<1>3. Range(q) = Range(s) \cup {e}
  <2>1. ASSUME NEW k \in DOMAIN q PROVE q[k] \in Range(s) \cup {e}
    BY <1>1, <1>2 DEF Range
  <2>2. ASSUME NEW k \in DOMAIN s PROVE s[k] \in Range(q)
    <3>1. k \in DOMAIN q /\ q[k] = s[k]
      BY <1>1
    <3> QED
      BY <3>1 DEF Range
  <2>3. e \in Range(q)
    <3>1. Len(s) + 1 \in DOMAIN q
      BY <1>1
    <3> QED
      BY <1>1, <3>1 DEF Range
  <2> QED
    BY <2>1, <2>2, <2>3 DEF Range
<1>4. ASSUME IsInjective(s), e \notin Range(s), NEW j \in DOMAIN q, NEW k \in DOMAIN q, q[j] = q[k]
      PROVE  j = k
  <2>1. \A i \in 1 .. Len(s) : q[i] # e
    BY <1>1, <1>4 DEF Range
  <2> QED
    BY <1>1, <1>2, <1>4, <2>1 DEF IsInjective
<1>5. q # << >> /\ q[Len(q)] = e
  BY <1>1
<1> QED
  BY <1>1, <1>3, <1>4, <1>5 DEF IsInjective

\* A truthful archive has no section that would not be linked, so all the global
\* symbols of its members are entered, as definitions exactly if they are.
LEMMA TruthfulEnters ==
  ASSUME NEW w \in WorkType, NEW y, SymbolOK(w.obj, y), y.bind # LOCALB,
         \A i \in DOMAIN w.obj.secs :
           /\ ~ w.obj.secs[i].skip /\ ~ w.obj.secs[i].once
           /\ w.sm[i] \in SmType /\ (w.sm[i].how = "none" <=> w.obj.secs[i].skip)
           /\ w.sm[i].how = "once" => w.obj.secs[i].once
  PROVE  Enters(w, y) /\ (Defined(AttrOf(w, y)) <=> y.shndx # UNDEF)
<1>1. w.obj \in Objects
  BY DEF WorkType
<1>2. CASE y.sec = 0
  BY <1>2 DEF Enters, AttrOf, Defined
<1>3. CASE y.sec # 0
  <2>1. y.sec \in DOMAIN w.obj.secs /\ y.shndx # UNDEF
    BY <1>3 DEF SymbolOK
  <2>2. w.sm[y.sec].how = "here"
    BY <2>1 DEF SmType
  <2>3. w.obj.secs[y.sec].name \in Section
    BY <1>1, <2>1, ObjectFacts DEF SectionHere
  <2>4. AttrOf(w, y).shndx = w.obj.secs[y.sec].name
    BY <1>3 DEF AttrOf
  <2>5. Defined(AttrOf(w, y))
    BY <2>3, <2>4, SectionAssumption DEF Defined
  <2> QED
    BY <2>1, <2>2, <2>5 DEF Enters
<1> QED
  BY <1>2, <1>3

\* What ScanRight says of an archive that is searched through a truthful index.
Searched(a) ==
  IsInjective(a.got) /\ MembersEntered(a) /\ KnownFrom(a) /\ Minimal(a) /\ PassIdle(a)

\* What a scan satisfies, with the part about an index by name.
LEMMA ScanIs ==
  \A a : Scans(a) <=> /\ a \in ScanType /\ a.it.kind \in {"archive", "whole"}
                      /\ Range(a.got) \subseteq DOMAIN a.it.objs
                      /\ a.it.kind = "whole" => a.got = [k \in 1 .. a.pos - 1 |-> k]
                      /\ a.it.kind = "archive" /\ Truthful(a.it) => Searched(a)
BY DEF Scans, Searched

Moved(a, p, b, g, c) == c = [a EXCEPT !.pos = p, !.bound = b, !.got = g]

\* The fields a step through an archive changes.
LEMMA ScanUpdate ==
  ASSUME NEW a \in ScanType, NEW p \in Nat \ {0}, NEW b \in Nat, NEW g \in Seq(Nat),
         NEW c, Moved(a, p, b, g, c)
  PROVE  /\ c \in ScanType /\ c.it = a.it /\ c.undef = a.undef /\ c.known = a.known
         /\ c.pos = p /\ c.bound = b /\ c.got = g
<1> DEFINE X == Seq(Nat)
           D == [it : Item, pos : Nat \ {0}, bound : Nat, undef : SUBSET Name,
                 known : SUBSET Name, got : X]
<1>1. a \in D /\ g \in X
  BY DEF ScanType
<1> HIDE DEF X
<1>2. c \in D /\ c.it = a.it /\ c.undef = a.undef /\ c.known = a.known
      /\ c.pos = p /\ c.bound = b /\ c.got = g
  BY <1>1 DEF Moved
<1> QED
  BY <1>2 DEF ScanType, X

\* Closed looks at what the scan began with only.
LEMMA ClosedSame ==
  ASSUME NEW a, NEW c, c.it = a.it, c.undef = a.undef, c.known = a.known, NEW S
  PROVE  Closed(c, S) <=> Closed(a, S)
BY DEF Closed

\* The member in work is one of those taken.
LEMMA LastTaken ==
  ASSUME NEW g \in Seq(Nat), g # << >> PROVE g[Len(g)] \in Range(g)
<1>1. Len(g) \in DOMAIN g
  BY EmptySeq, LenProperties
<1> QED
  BY <1>1 DEF Range

\* OpenArchive.
LEMMA OpenScan ==
  ASSUME LoadInv, NEW it \in Item, OpenArchive(it)
  PROVE  ScanRight'
<1>0. PICK a : a = [it |-> it, pos |-> 1, bound |-> 0,
                    undef |-> Undefined, known |-> Known, got |-> << >>]
  OBVIOUS
<1>1. scan' = <<a>> /\ it.kind \in {"archive", "whole"} /\ UNCHANGED hvars /\ work' = << >>
  BY <1>0 DEF OpenArchive, Idle
<1>2. a \in ScanType
  <2> DEFINE X == Seq(Nat)
  <2>1. << >> \in X /\ Undefined \subseteq Name /\ Known \subseteq Name
    BY DEF Undefined, Known
  <2>2. a \in [it : Item, pos : Nat \ {0}, bound : Nat, undef : SUBSET Name,
               known : SUBSET Name, got : X]
    <3> HIDE DEF X
    <3> QED
      BY <1>0, <2>1
  <2> QED
    BY <2>2 DEF ScanType
<1>3. /\ a.it = it /\ a.pos = 1 /\ a.bound = 0 /\ a.undef = Undefined /\ a.known = Known
      /\ a.got = << >>
  BY <1>0
<1>4. Range(a.got) = {} /\ IsInjective(a.got) /\ a.got = [k \in 1 .. a.pos - 1 |-> k]
  BY <1>3 DEF Range, IsInjective
<1>5. Seen' = Seen /\ Known' = Known /\ Undefined' = Undefined
  BY <1>1, KnownSame
<1>6. MembersEntered(a)'
  BY <1>1, <1>4 DEF MembersEntered
<1>7. KnownFrom(a)'
  BY <1>3, <1>5, UndefinedIs DEF KnownFrom
<1>8. Minimal(a)'
  BY <1>4 DEF Minimal
<1>9. PassIdle(a)'
  <2>1. ASSUME NEW i \in DOMAIN it.index PROVE ~ (i < 1)
    <3>1. it.index \in Seq([name : Name, member : DOMAIN it.objs])
      BY LoadingAssumption
    <3> DEFINE D == [name : Name, member : DOMAIN it.objs]
    <3>2. it.index \in Seq(D)
      BY <3>1
    <3> HIDE DEF D
    <3>3. i \in 1 .. Len(it.index) /\ Len(it.index) \in Nat
      BY <3>2
    <3> QED
      BY <3>3
  <2> QED
    BY <1>1, <1>3, <2>1 DEF PassIdle
<1>10. Searched(a)'
  BY <1>4, <1>6, <1>7, <1>8, <1>9 DEF Searched
<1>11. Scans(a)'
  BY <1>1, <1>2, <1>3, <1>4, <1>10 DEF Scans, Searched
<1>12. scan'[1] = a
  BY <1>1
<1> QED
  BY <1>1, <1>11, <1>12 DEF ScanRight

\* What a symbol entered from a member of a truthful archive adds to the table.
LEMMA MemberSymbol ==
  ASSUME LinkInv(Nat), LinkInv(Nat)', LoadInv, LoadSymbol, NEW it, Truthful(it),
         NEW k \in DOMAIN it.objs, work[1].obj = it.objs[k]
  PROVE  \E w, y, m :
           /\ WorkNow(w, y, m)
           /\ Seen' = Seen \cup (IF y.bind = LOCALB THEN {} ELSE {y.name})
           /\ Known' = Known \cup (IF y.bind = LOCALB \/ y.shndx = UNDEF THEN {} ELSE {y.name})
<1>1. Shapes /\ Placed(secs, Objs, Sms)
  BY DEF LoadInv, Placement
<1>2. PICK w, y, m :
        /\ WorkNow(w, y, m)
        /\ IF Enters(w, y)
           THEN y.name \in Name /\ AttrOf(w, y) \in FileAttr /\ HEnter(y.name, AttrOf(w, y))
           ELSE UNCHANGED hvars
  BY <1>1, SymbolStep
<1>3. /\ work = <<w>> /\ work[1] = w /\ w \in WorkType /\ SymbolOK(w.obj, y)
      /\ w.obj = it.objs[k] /\ w.obj \in Objects
  BY <1>2 DEF WorkNow, WorkType
<1>4. CASE y.bind = LOCALB
  <2>1. UNCHANGED hvars
    BY <1>2, <1>4 DEF Enters
  <2> QED
    BY <1>2, <1>4, <2>1, KnownSame
<1>5. CASE y.bind # LOCALB
  <2> DEFINE n == Len(loads) + 1
             O == ObjsOf(loads, work)
             M == SmsOf(loads, work)
  <2>1. /\ O \in Seq(Objects) /\ Len(O) = Len(loads) + Len(work) /\ Len(loads) \in Nat
        /\ O[n] = work[1].obj /\ M[n] = work[1].sm
    <3>1. work # << >> /\ loads \in LoadsType /\ WorkOK(work)
      BY <1>1, <1>3 DEF Shapes
    <3> QED
      BY <3>1, ObjsAre
  <2>2. Len(work) = 1
    BY <1>3
  <2> HIDE DEF O, M
  <2>3. n \in DOMAIN O
    BY <2>1, <2>2
  <2>4. Placed(secs, O, M) /\ O[n] = w.obj /\ M[n] = w.sm
    BY <1>1, <1>3, <2>1 DEF Objs, Sms, O, M
  <2> HIDE DEF n
  <2>5. ASSUME NEW i \in DOMAIN w.obj.secs
        PROVE  /\ ~ w.obj.secs[i].skip /\ ~ w.obj.secs[i].once
               /\ w.sm[i] \in SmType /\ (w.sm[i].how = "none" <=> w.obj.secs[i].skip)
               /\ w.sm[i].how = "once" => w.obj.secs[i].once
    <3>1. PutAt(secs, O, n, i, w.sm[i])
      BY <2>3, <2>4 DEF Placed
    <3>2. ~ w.obj.secs[i].skip /\ ~ w.obj.secs[i].once
      BY <1>3 DEF Truthful
    <3> QED
      BY <2>4, <3>1, <3>2 DEF PutAt
  <2>6. Enters(w, y) /\ (Defined(AttrOf(w, y)) <=> y.shndx # UNDEF)
    BY <1>3, <1>5, <2>5, TruthfulEnters
  <2>7. y.name \in Name /\ HEnter(y.name, AttrOf(w, y))
    BY <1>2, <2>6
  <2>8. /\ Seen' = Seen \cup {y.name}
        /\ Known' = Known \cup (IF Defined(AttrOf(w, y)) THEN {y.name} ELSE {})
    BY <2>7, KnownStep
  <2> QED
    BY <1>2, <1>5, <2>6, <2>8
<1> QED
  BY <1>4, <1>5

\* LoadSymbol.
LEMMA SymbolScan ==
  ASSUME LinkInv(Nat), LinkInv(Nat)', LoadInv, LoadSymbol
  PROVE  ScanRight'
<1>1. scan' = scan /\ work # << >>
  BY DEF LoadSymbol
<1> SUFFICES ASSUME scan # << >> PROVE ScanRight'
  BY <1>1 DEF ScanRight
<1>2. PICK a : a = scan[1]
  OBVIOUS
<1>3. scan = <<a>> /\ Scans(a)
  BY <1>2 DEF LoadInv, Placement, ScanRight
<1>4. scan' # << >> /\ scan' = <<scan'[1]>> /\ scan'[1] = a
  BY <1>1, <1>3
<1> SUFFICES Scans(a)'
  BY <1>4 DEF ScanRight
<1> SUFFICES ASSUME a.it.kind = "archive", Truthful(a.it) PROVE Searched(a)'
  BY <1>3 DEF Scans, Searched
<1>5. /\ IsInjective(a.got) /\ MembersEntered(a) /\ KnownFrom(a) /\ Minimal(a) /\ PassIdle(a)
      /\ a \in ScanType /\ Range(a.got) \subseteq DOMAIN a.it.objs
  BY <1>3 DEF Scans
<1> DEFINE k == a.got[Len(a.got)]
<1>6. /\ a.got \in Seq(Nat) /\ a.got # << >> /\ work[1].obj = a.it.objs[k]
      /\ \A j \in DOMAIN work[1].map : Entered(work[1].obj.syms[j])
  BY <1>1, <1>5 DEF MembersEntered, ScanType
<1>7. k \in Range(a.got) /\ k \in DOMAIN a.it.objs
  BY <1>5, <1>6, LastTaken
<1> HIDE DEF k
<1>8. PICK w, y, m :
        /\ WorkNow(w, y, m)
        /\ Seen' = Seen \cup (IF y.bind = LOCALB THEN {} ELSE {y.name})
        /\ Known' = Known \cup (IF y.bind = LOCALB \/ y.shndx = UNDEF THEN {} ELSE {y.name})
  BY <1>6, <1>7, MemberSymbol
<1> DEFINE q == Append(w.map, m)
           v == [w EXCEPT !.map = q]
           j == Len(w.map) + 1
<1>9. /\ work[1] = w /\ w \in WorkType /\ j \in DOMAIN w.obj.syms /\ y = w.obj.syms[j]
      /\ work' = <<v>> /\ m \in MapType /\ SymbolOK(w.obj, y) /\ w.map \in Seq(MapType)
  BY <1>8 DEF WorkNow, WorkType
<1>10. DOMAIN q = DOMAIN w.map \cup {j}
  BY <1>9
<1> HIDE DEF q
<1>11. v.obj = w.obj /\ v.map = q
  BY <1>9 DEF WorkType
<1>12. work' # << >> /\ work'[1] = v
  BY <1>9
<1> HIDE DEF v, j
<1>13. y \in Range(w.obj.syms)
  BY <1>9 DEF Range
<1>14. \A z : Entered(z) => Entered(z)'
  BY <1>8 DEF Entered
<1>15. Entered(y)'
  BY <1>8 DEF Entered
<1>16. MembersEntered(a)'
  <2>1. ASSUME NEW i \in Range(a.got), i # k, NEW z \in Range(a.it.objs[i].syms)
        PROVE  Entered(z)'
    <3>1. Entered(z)
      BY <1>5, <2>1 DEF MembersEntered, k
    <3> QED
      BY <1>14, <3>1
  <2>2. ASSUME NEW i \in DOMAIN q PROVE Entered(w.obj.syms[i])'
    <3>1. CASE i = j
      BY <1>9, <1>15, <3>1
    <3>2. CASE i \in DOMAIN w.map
      BY <1>6, <1>9, <1>14, <3>2
    <3> QED
      BY <1>10, <3>1, <3>2
  <2> QED
    BY <1>6, <1>9, <1>11, <1>12, <2>1, <2>2 DEF MembersEntered, k
<1>17. KnownFrom(a)'
  <2>1. (IF y.bind = LOCALB \/ y.shndx = UNDEF THEN {} ELSE {y.name}) \subseteq Defs(w.obj)
    BY <1>13 DEF Defs
  <2>2. y.bind # LOCALB /\ y.shndx = UNDEF => y.name \in Refs(w.obj)
    BY <1>13 DEF Refs
  <2>3. Defs(w.obj) \subseteq DefsOf(a) /\ Refs(w.obj) \subseteq RefsOf(a)
    BY <1>6, <1>7, <1>9 DEF DefsOf, RefsOf
  <2>4. a.known \subseteq Known /\ a.undef \subseteq Seen /\ Known \subseteq a.known \cup DefsOf(a)
        /\ Undefined \subseteq a.undef \cup RefsOf(a)
    BY <1>5 DEF KnownFrom
  <2>5. Undefined = Seen \ Known /\ Undefined' = Seen' \ Known'
    BY DEF Undefined, Seen, Known
  <2>6. Known' \subseteq a.known \cup DefsOf(a)
    BY <1>8, <2>1, <2>3, <2>4
  <2>7. Undefined' \subseteq Undefined \cup RefsOf(a)
    BY <1>8, <2>2, <2>3, <2>5
  <2>8. a.known \subseteq Known' /\ a.undef \subseteq Seen'
    BY <1>8, <2>4
  <2> QED
    BY <2>4, <2>6, <2>7, <2>8 DEF KnownFrom, DefsOf, RefsOf
<1>18. PassIdle(a)' /\ Minimal(a)' /\ IsInjective(a.got)
  BY <1>1, <1>5, <1>12 DEF PassIdle, Minimal, Closed
<1> QED
  BY <1>16, <1>17, <1>18 DEF Searched

\* EndLoad.
LEMMA EndScan ==
  ASSUME LoadInv, EndLoad, ~ failed' PROVE ScanRight'
<1>1. /\ scan' = scan /\ work # << >> /\ work' = << >> /\ UNCHANGED hvars
      /\ Len(work[1].map) = Len(work[1].obj.syms)
  BY DEF EndLoad
<1> SUFFICES ASSUME scan # << >> PROVE ScanRight'
  BY <1>1 DEF ScanRight
<1>2. PICK a : a = scan[1]
  OBVIOUS
<1>3. scan = <<a>> /\ Scans(a)
  BY <1>2 DEF LoadInv, Placement, ScanRight
<1>4. scan' # << >> /\ scan' = <<scan'[1]>> /\ scan'[1] = a
  BY <1>1, <1>3
<1> SUFFICES Scans(a)'
  BY <1>4 DEF ScanRight
<1> SUFFICES ASSUME a.it.kind = "archive", Truthful(a.it) PROVE Searched(a)'
  BY <1>3 DEF Scans, Searched
<1>5. /\ IsInjective(a.got) /\ MembersEntered(a) /\ KnownFrom(a) /\ Minimal(a) /\ PassIdle(a)
      /\ a \in ScanType /\ Range(a.got) \subseteq DOMAIN a.it.objs
  BY <1>3 DEF Scans
<1>6. Seen' = Seen /\ Known' = Known /\ Undefined' = Undefined
  BY <1>1, KnownSame
<1> DEFINE k == a.got[Len(a.got)]
           w == work[1]
<1>7. /\ w.obj = a.it.objs[k] /\ \A j \in DOMAIN w.map : Entered(w.obj.syms[j])
  BY <1>1, <1>5 DEF MembersEntered
<1>8. DOMAIN w.map = DOMAIN w.obj.syms
  <2>1. w.map \in Seq(MapType) /\ w.obj \in Objects
    BY <1>1 DEF LoadInv, Placement, Shapes, WorkOK, WorkType
  <2>2. w.obj.syms \in Seq(Range(w.obj.syms))
    BY <2>1, ObjectFacts
  <2> QED
    BY <1>1, <2>1, <2>2
<1> HIDE DEF k, w
<1>9. ASSUME NEW i \in Range(a.got), NEW z \in Range(a.it.objs[i].syms)
      PROVE  Entered(z)
  <2>1. CASE i # k
    BY <1>5, <2>1 DEF MembersEntered, k
  <2>2. CASE i = k
    BY <1>7, <1>8, <2>2 DEF Range
  <2> QED
    BY <2>1, <2>2
<1>10. MembersEntered(a)'
  BY <1>1, <1>6, <1>9 DEF MembersEntered, Entered
<1>11. KnownFrom(a)'
  BY <1>5, <1>6 DEF KnownFrom, DefsOf, RefsOf
<1>12. PassIdle(a)' /\ Minimal(a)' /\ IsInjective(a.got)
  BY <1>1, <1>5, <1>6 DEF PassIdle, Minimal, Closed
<1> QED
  BY <1>10, <1>11, <1>12 DEF Searched

\* An entry of an index names a name and a member.
LEMMA IndexFacts ==
  ASSUME NEW it \in Item
  PROVE  /\ Len(it.index) \in Nat /\ DOMAIN it.index = 1 .. Len(it.index)
         /\ \A p \in DOMAIN it.index : /\ it.index[p].name \in Name
                                       /\ it.index[p].member \in DOMAIN it.objs
                                       /\ it.index[p] \in Range(it.index)
         /\ \A k \in DOMAIN it.objs : it.objs[k] \in Objects
         /\ DOMAIN it.objs = 1 .. Len(it.objs) /\ Len(it.objs) \in Nat
<1> DEFINE D == [name : Name, member : DOMAIN it.objs]
<1>1. it.index \in Seq(D) /\ it.objs \in Seq(Objects)
  BY LoadingAssumption
<1>2. \A d \in D : d.name \in Name /\ d.member \in DOMAIN it.objs
  OBVIOUS
<1> HIDE DEF D
<1>3. /\ Len(it.index) \in Nat /\ DOMAIN it.index = 1 .. Len(it.index)
      /\ \A p \in DOMAIN it.index : it.index[p] \in D /\ it.index[p] \in Range(it.index)
  BY <1>1 DEF Range
<1> QED
  BY <1>1, <1>2, <1>3

\* A member is taken for a name the table knows and no member taken defines:
\* it was not taken before, and nothing closed can do without it.
LEMMA TakenForNeed ==
  ASSUME NEW a, a \in ScanType, Truthful(a.it), Searched(a), work = << >>,
         NEW p \in DOMAIN a.it.index, a.it.index[p].name \in Undefined,
         Range(a.got) \subseteq DOMAIN a.it.objs
  PROVE  LET m == a.it.index[p].member IN
         /\ m \notin Range(a.got)
         /\ \A S \in SUBSET DOMAIN a.it.objs : Closed(a, S) => m \in S
<1> DEFINE e == a.it.index[p]
           m == e.member
           f == e.name
<1>1. a.it \in Item
  BY DEF ScanType
<1>2. e \in Range(a.it.index) /\ m \in DOMAIN a.it.objs /\ f \in Name
  BY <1>1, IndexFacts
<1>3. f \in Defs(a.it.objs[m])
  BY <1>2 DEF Truthful
<1>4. f \in Seen /\ f \notin Known
  BY UndefinedIs
<1>5. MembersEntered(a) /\ KnownFrom(a) /\ Minimal(a)
  BY DEF Searched
<1> HIDE DEF e, m, f
<1>6. m \notin Range(a.got)
  <2> SUFFICES ASSUME m \in Range(a.got) PROVE FALSE
    OBVIOUS
  <2>1. \A y \in Range(a.it.objs[m].syms) : Entered(y)
    BY <1>5 DEF MembersEntered
  <2>2. PICK y \in Range(a.it.objs[m].syms) : y.bind # LOCALB /\ y.shndx # UNDEF /\ y.name = f
    BY <1>3 DEF Defs
  <2>3. f \in Known
    BY <2>1, <2>2 DEF Entered
  <2> QED
    BY <1>4, <2>3
<1>7. ASSUME NEW S \in SUBSET DOMAIN a.it.objs, Closed(a, S) PROVE m \in S
  <2>1. Range(a.got) \subseteq S
    BY <1>5, <1>7 DEF Minimal
  <2>2. f \in a.undef \cup RefsOf(a) /\ f \notin a.known
    BY <1>4, <1>5, UndefinedIs DEF KnownFrom, f, e
  <2>3. RefsOf(a) \subseteq UNION {Refs(a.it.objs[k]) : k \in S}
    BY <2>1 DEF RefsOf
  <2>4. f \in (a.undef \cup UNION {Refs(a.it.objs[k]) : k \in S}) \ a.known
    BY <2>2, <2>3
  <2> QED
    BY <1>2, <1>3, <1>7, <2>4 DEF Closed
<1> QED
  BY <1>6, <1>7 DEF m, e

\* Taking it.
LEMMA TakenScan ==
  ASSUME NEW a, Scans(a), Truthful(a.it), Searched(a), work = << >>,
         NEW m \in DOMAIN a.it.objs, m \notin Range(a.got), m \in Nat,
         \A S \in SUBSET DOMAIN a.it.objs : Closed(a, S) => m \in S,
         NEW c, c.it = a.it, c.undef = a.undef, c.known = a.known, Pushed(a.got, m, c.got),
         c.bound # 0, UNCHANGED hvars,
         work' # << >>, work'[1].obj = a.it.objs[m], work'[1].map = << >>
  PROVE  Searched(c)'
<1>1. /\ IsInjective(a.got) /\ MembersEntered(a) /\ KnownFrom(a) /\ Minimal(a)
      /\ a.got \in Seq(Nat)
  BY DEF Searched, Scans, ScanType
<1>2. /\ c.got # << >> /\ c.got[Len(c.got)] = m /\ Range(c.got) = Range(a.got) \cup {m}
      /\ IsInjective(c.got)
  BY <1>1, PushFacts
<1>3. Seen' = Seen /\ Known' = Known /\ Undefined' = Undefined
  BY KnownSame
<1>4. ASSUME NEW i \in Range(a.got), NEW y \in Range(a.it.objs[i].syms) PROVE Entered(y)'
  <2>1. Entered(y)
    BY <1>1 DEF MembersEntered
  <2> QED
    BY <1>3, <2>1 DEF Entered
<1>5. DOMAIN work'[1].map = {}
  OBVIOUS
<1>6. MembersEntered(c)'
  BY <1>2, <1>4, <1>5 DEF MembersEntered
<1>7. KnownFrom(c)'
  <2>1. DefsOf(a) \subseteq DefsOf(c) /\ RefsOf(a) \subseteq RefsOf(c)
    BY <1>2 DEF DefsOf, RefsOf
  <2>2. /\ a.known \subseteq Known /\ a.undef \subseteq Seen
        /\ Known \subseteq a.known \cup DefsOf(a)
        /\ Undefined \subseteq a.undef \cup RefsOf(a)
    BY <1>1 DEF KnownFrom
  <2>3. /\ c.known \subseteq Known' /\ c.undef \subseteq Seen'
        /\ Known' \subseteq c.known \cup DefsOf(c)
        /\ Undefined' \subseteq c.undef \cup RefsOf(c)
    BY <1>3, <2>1, <2>2
  <2> QED
    BY <2>3 DEF KnownFrom, DefsOf, RefsOf
<1>8. Minimal(c)
  <2> SUFFICES ASSUME NEW S \in SUBSET DOMAIN c.it.objs, Closed(c, S) PROVE Range(c.got) \subseteq S
    BY DEF Minimal
  <2>1. Closed(a, S)
    BY ClosedSame
  <2> QED
    BY <1>1, <1>2, <2>1 DEF Minimal
<1>9. Minimal(c)'
  BY <1>8 DEF Minimal, Closed
<1>10. PassIdle(c)'
  BY DEF PassIdle
<1> QED
  BY <1>2, <1>6, <1>7, <1>9, <1>10 DEF Searched

\* A scan that goes on without having taken anything.
LEMMA IdleScan ==
  ASSUME NEW a, Searched(a), work = << >>, UNCHANGED <<hvars, work>>,
         NEW c, c.it = a.it, c.undef = a.undef, c.known = a.known, c.got = a.got, PassIdle(c)
  PROVE  Searched(c)'
<1>1. /\ IsInjective(a.got) /\ MembersEntered(a) /\ KnownFrom(a) /\ Minimal(a)
  BY DEF Searched
<1>2. Seen' = Seen /\ Known' = Known /\ Undefined' = Undefined
  BY KnownSame
<1>3. MembersEntered(c)'
  BY <1>1, <1>2 DEF MembersEntered, Entered
<1>4. KnownFrom(c)'
  BY <1>1, <1>2 DEF KnownFrom, DefsOf, RefsOf
<1>5. Minimal(c)'
  BY <1>1 DEF Minimal, Closed
<1>6. PassIdle(c)'
  BY <1>2 DEF PassIdle
<1> QED
  BY <1>1, <1>3, <1>4, <1>5, <1>6 DEF Searched
-----------------------------------------------------------------------------
(* The actions.                                                            *)

\* What leaves sections, symbols and objects alone.
LEMMA PlacementSame ==
  ASSUME Placement, UNCHANGED <<hvars, secs, loads, work>> PROVE Placement'
BY DEF Placement, hvars, Shapes, MapRight, TableFrom, Objs, Sms, Origins

\* Beginning an object.
LEMMA PlacementBegins ==
  ASSUME Placement, work = << >>, NEW o \in Objects, BeginLoad(o), ~ failed',
         UNCHANGED <<hvars, loads>>
  PROVE  Placement' /\ work' # << >> /\ work'[1].obj = o /\ work'[1].map = << >>
<1>1. /\ Shapes /\ Placed(secs, Objs, Sms) /\ AppendedAll(secs, Objs, Sms, Len(loads))
      /\ Origins(Objs, Sms) /\ TableFrom
  BY DEF Placement
<1>2. UNCHANGED <<loads, claims>> /\ UNCHANGED <<table, claims>>
  BY DEF hvars
<1>3. TableFrom'
  BY <1>1, <1>2 DEF TableFrom
<1> QED
  BY <1>1, <1>2, <1>3, BeginPlaced DEF Placement

\* An index gone through without use is closed.
LEMMA ClosedAtEnd ==
  ASSUME NEW a, Scans(a), Truthful(a.it), OneDefiner(a.it), Searched(a), work = << >>,
         a.bound = 0, a.pos > Len(a.it.index)
  PROVE  Closed(a, Range(a.got))
<1>1. MembersEntered(a) /\ KnownFrom(a) /\ PassIdle(a)
  BY DEF Searched
<1>2. a.it \in Item /\ a.pos \in Nat /\ Range(a.got) \subseteq DOMAIN a.it.objs
  BY DEF Scans, ScanType
<1> SUFFICES ASSUME NEW n \in (a.undef \cup RefsOf(a)) \ a.known,
                    NEW m \in DOMAIN a.it.objs, n \in Defs(a.it.objs[m])
             PROVE  m \in Range(a.got)
  BY DEF Closed, RefsOf
<1>3. n \in Seen
  <2>1. CASE n \in a.undef
    BY <1>1, <2>1 DEF KnownFrom
  <2>2. CASE n \in RefsOf(a)
    <3>1. PICK k \in Range(a.got) : n \in Refs(a.it.objs[k])
      BY <2>2 DEF RefsOf
    <3>2. PICK y \in Range(a.it.objs[k].syms) : y.bind # LOCALB /\ y.name = n
      BY <3>1 DEF Refs
    <3>3. Entered(y)
      BY <1>1, <3>1, <3>2 DEF MembersEntered
    <3> QED
      BY <3>2, <3>3 DEF Entered
  <2> QED
    BY <2>1, <2>2
<1>4. n \notin Undefined
  <2>1. PICK e \in Range(a.it.index) : e.name = n /\ e.member = m
    BY DEF Truthful
  <2>2. PICK i \in DOMAIN a.it.index : a.it.index[i] = e
    BY <2>1 DEF Range
  <2>3. i < a.pos
    BY <1>2, IndexFacts
  <2> QED
    BY <1>1, <2>1, <2>2, <2>3 DEF PassIdle
<1>5. n \in DefsOf(a)
  BY <1>1, <1>3, <1>4, UndefinedIs DEF KnownFrom
<1>6. PICK k \in Range(a.got) : n \in Defs(a.it.objs[k])
  BY <1>5 DEF DefsOf
<1>7. k = m
  BY <1>2, <1>6 DEF OneDefiner
<1> QED
  BY <1>6, <1>7

\* A scan that is over has loaded what it had to.
LEMMA CloseScan ==
  ASSUME NEW a, Scans(a), Close(a), work = << >>,
         a.it.kind = "archive" => a.bound = 0 /\ a.pos > Len(a.it.index)
  PROVE  ClosureLoaded' /\ scan' = << >>
<1>1. PICK b : b = [it |-> a.it, undef |-> a.undef, known |-> a.known, got |-> a.got]
  OBVIOUS
<1>2. b.it = a.it /\ b.undef = a.undef /\ b.known = a.known /\ b.got = a.got
  BY <1>1
<1>3. scan' = << >> /\ last' = <<b>>
  BY <1>1 DEF Close
<1>4. Range(last') = {b}
  BY <1>3 DEF Range
<1>5. a.it.kind \in {"archive", "whole"} /\ a.pos \in Nat
  BY DEF Scans, ScanType
<1>6. IsInjective(b.got) \/ ~ Truthful(b.it)
  <2>1. ASSUME a.it.kind = "whole" PROVE IsInjective(b.got)
    <3> DEFINE g == b.got
    <3>1. g = [k \in 1 .. a.pos - 1 |-> k]
      BY <1>2, <2>1 DEF Scans
    <3>2. DOMAIN g = 1 .. a.pos - 1 /\ \A k \in 1 .. a.pos - 1 : g[k] = k
      BY <3>1
    <3> HIDE DEF g
    <3>3. IsInjective(g)
      BY <3>2 DEF IsInjective
    <3> QED
      BY <3>3 DEF g
  <2>2. CASE a.it.kind = "archive"
    BY <1>2, <2>2, ScanIs DEF Searched
  <2> QED
    BY <1>5, <2>1, <2>2
<1>7. ASSUME b.it.kind = "archive", Truthful(b.it), OneDefiner(b.it)
      PROVE  /\ Closed(b, Range(b.got))
             /\ \A S \in SUBSET DOMAIN b.it.objs : Closed(b, S) => Range(b.got) \subseteq S
  <2>1. Searched(a) /\ Truthful(a.it) /\ OneDefiner(a.it) /\ a.it.kind = "archive"
    BY <1>2, <1>7, ScanIs
  <2>2. Closed(a, Range(a.got))
    BY <2>1, ClosedAtEnd
  <2>3. \A S : Closed(b, S) <=> Closed(a, S)
    BY <1>2, ClosedSame
  <2>4. Minimal(a)
    BY <2>1 DEF Searched
  <2> QED
    BY <1>2, <2>2, <2>3, <2>4 DEF Minimal
<1>8. ClosureLoaded'
  BY <1>4, <1>6, <1>7 DEF ClosureLoaded, Closed
<1> QED
  BY <1>3, <1>8

\* OpenObject leaves the invariant true: no scan is under way.
LEMMA OpenObjectStep ==
  ASSUME LInv, NEW it \in Item, OpenObject(it) PROVE LInv'
<1>1. ~ failed /\ work = << >> /\ scan = << >> /\ scan' = scan /\ last' = last
      /\ UNCHANGED hvars /\ UNCHANGED loads /\ it.kind = "object" /\ BeginLoad(it.objs[1])
  BY DEF OpenObject, Idle
<1>2. LinkInv(Nat)' /\ ClosureLoaded'
  BY <1>1, LinkSame DEF LInv, ClosureLoaded
<1>3. it.objs \in Seq(Objects) /\ it.objs # << >>
  BY <1>1, LoadingAssumption
<1>4. it.objs[1] \in Objects
  BY <1>3
<1>5. ASSUME ~ failed' PROVE Placement'
  BY <1>1, <1>4, <1>5, PlacementBegins DEF LInv, LoadInv
<1>6. ScanRight'
  BY <1>1 DEF ScanRight
<1> QED
  BY <1>2, <1>5, <1>6 DEF LInv, LoadInv

\* So does OpenArchive, with nothing taken from it yet.
LEMMA OpenArchiveStep ==
  ASSUME LInv, NEW it \in Item, OpenArchive(it) PROVE LInv'
<1>1. ~ failed /\ last' = last /\ UNCHANGED hvars /\ UNCHANGED <<hvars, secs, loads, work>>
  BY DEF OpenArchive, Idle
<1>2. LinkInv(Nat)' /\ ClosureLoaded'
  BY <1>1, LinkSame DEF LInv, ClosureLoaded
<1>3. Placement' /\ ScanRight'
  BY <1>1, PlacementSame, OpenScan DEF LInv, LoadInv
<1> QED
  BY <1>2, <1>3 DEF LInv, LoadInv

\* A symbol of the object in work.
LEMMA LoadSymbolStep ==
  ASSUME LInv, LoadSymbol PROVE LInv'
<1>1. ~ failed /\ last' = last
  BY DEF LoadSymbol
<1>2. LinkInv(Nat) /\ LoadInv /\ ClosureLoaded
  BY <1>1 DEF LInv
<1>3. LinkInv(Nat)' /\ Placement'
  BY <1>2, SymbolPlaced DEF LoadInv, Placement
<1>4. ScanRight'
  BY <1>2, <1>3, SymbolScan
<1>5. ClosureLoaded'
  BY <1>1, <1>2 DEF ClosureLoaded
<1> QED
  BY <1>3, <1>4, <1>5 DEF LInv, LoadInv

\* The relocations of the object in work, or an error.
LEMMA EndLoadStep ==
  ASSUME LInv, EndLoad PROVE LInv'
<1>1. ~ failed /\ last' = last /\ UNCHANGED hvars
  BY DEF EndLoad
<1>2. LoadInv
  BY <1>1 DEF LInv
<1>3. LinkInv(Nat)' /\ ClosureLoaded'
  BY <1>1, LinkSame DEF LInv, ClosureLoaded
<1>4. ASSUME ~ failed' PROVE Placement' /\ ScanRight'
  <2>1. TableFrom'
    BY <1>1, <1>2 DEF LoadInv, Placement, TableFrom, hvars
  <2>2. Placement'
    BY <1>2, <1>4, <2>1, EndPlaced DEF LoadInv, Placement
  <2> QED
    BY <1>2, <1>4, <2>2, EndScan
<1> QED
  BY <1>3, <1>4 DEF LInv, LoadInv

\* The scan under way, as a value that stays what it is.
LEMMA ScanNow ==
  ASSUME LoadInv, scan # << >>
  PROVE  \E a : a = scan[1] /\ scan = <<a>> /\ Scans(a)
BY DEF LoadInv, ScanRight

\* A stutter, for a scan.
LEMMA ScanSame ==
  ASSUME UNCHANGED hvars, UNCHANGED <<work, scan>>, ScanRight PROVE ScanRight'
<1>1. Seen' = Seen /\ Known' = Known /\ Undefined' = Undefined
  BY KnownSame
<1>2. CASE scan = << >>
  BY <1>2 DEF ScanRight
<1>3. CASE scan # << >>
  <2>1. PICK a : a = scan[1] /\ scan = <<a>> /\ Scans(a)
    BY <1>3 DEF ScanRight
  <2>2. ASSUME Searched(a) PROVE Searched(a)'
    BY <1>1, <2>2 DEF Searched, MembersEntered, Entered, KnownFrom, DefsOf, RefsOf,
                      Minimal, Closed, PassIdle
  <2>3. Scans(a)'
    BY <2>1, <2>2, ScanIs DEF Scans, Searched
  <2>4. scan' = <<a>> /\ scan'[1] = a
    BY <2>1
  <2> QED
    BY <2>3, <2>4 DEF ScanRight
<1> QED
  BY <1>2, <1>3

\* What the next scan has to be for the invariant.
LEMMA ScanNext ==
  ASSUME NEW c, scan' = <<c>>, Scans(c)' PROVE ScanRight'
<1>1. scan'[1] = c
  OBVIOUS
<1> QED
  BY <1>1 DEF ScanRight

\* The member numbers, with one more.
LEMMA TakeOne ==
  ASSUME NEW s \in Seq(Nat), NEW e \in Nat, NEW q, Pushed(s, e, q)
  PROVE  q \in Seq(Nat) /\ Range(q) = Range(s) \cup {e}
BY PushFacts

\* One entry of the index: its member is taken, or passed over.
LEMMA LookupStep ==
  ASSUME LInv, Lookup PROVE LInv'
<1>1. /\ ~ failed /\ work = << >> /\ scan # << >> /\ scan[1].it.kind = "archive"
      /\ last' = last /\ UNCHANGED hvars /\ UNCHANGED loads
  BY DEF Lookup, Scanning
<1>2. LoadInv /\ Placement
  BY <1>1 DEF LInv, LoadInv
<1>3. LinkInv(Nat)' /\ ClosureLoaded'
  BY <1>1, LinkSame DEF LInv, ClosureLoaded
<1>4. PICK a : a = scan[1] /\ scan = <<a>> /\ Scans(a)
  BY <1>1, <1>2, ScanNow
<1>5. /\ a \in ScanType /\ a.it.kind = "archive" /\ Range(a.got) \subseteq DOMAIN a.it.objs
      /\ Truthful(a.it) => Searched(a)
  BY <1>1, <1>4, ScanIs
<1>6. /\ a.it \in Item /\ a.pos \in Nat \ {0} /\ a.bound \in Nat /\ a.got \in Seq(Nat)
  BY <1>5 DEF ScanType
<1>7. a.pos <= Len(a.it.index)
  BY <1>1, <1>4 DEF Lookup
<1>8. a.pos \in DOMAIN a.it.index
  BY <1>6, <1>7, IndexFacts
<1> DEFINE e == a.it.index[a.pos]
<1>9. e.name \in Name /\ e.member \in DOMAIN a.it.objs /\ e.member \in Nat
  BY <1>6, <1>8, IndexFacts
<1>10. ASSUME e.name \in Undefined, ~ failed' PROVE LoadInv'
  <2>1. /\ BeginLoad(a.it.objs[e.member])
        /\ scan' = <<[a EXCEPT !.pos = @ + 1, !.bound = @ + 1, !.got = Append(@, e.member)]>>
    BY <1>4, <1>10 DEF Lookup
  <2>2. a.it.objs \in Seq(Objects)
    BY <1>6, LoadingAssumption
  <2>3. a.it.objs[e.member] \in Objects
    BY <1>9, <2>2
  <2>4. /\ Placement' /\ work' # << >> /\ work'[1].obj = a.it.objs[e.member]
        /\ work'[1].map = << >>
    BY <1>1, <1>2, <1>10, <2>1, <2>3, PlacementBegins
  <2>5. PICK p \in Nat \ {0}, b \in Nat : p = a.pos + 1 /\ b = a.bound + 1
    BY <1>6
  <2>6. b # 0
    BY <1>6, <2>5
  <2>7. PICK g : g = Append(a.got, e.member)
    OBVIOUS
  <2>8. Pushed(a.got, e.member, g)
    BY <2>7 DEF Pushed
  <2>9. /\ g \in Seq(Nat) /\ Range(g) = Range(a.got) \cup {e.member}
    BY <1>6, <1>9, <2>8, TakeOne
  <2>10. PICK c : Moved(a, p, b, g, c)
    BY DEF Moved
  <2>11. scan' = <<c>>
    BY <2>1, <2>5, <2>7, <2>10 DEF Moved
  <2>12. /\ c \in ScanType /\ c.it = a.it /\ c.undef = a.undef /\ c.known = a.known
         /\ c.bound = b /\ c.got = g
    BY <1>5, <2>9, <2>10, ScanUpdate
  <2>13. Range(c.got) \subseteq DOMAIN c.it.objs
    BY <1>5, <1>9, <2>9, <2>12
  <2>14. ASSUME Truthful(a.it) PROVE Searched(c)'
    <3>1. Searched(a)
      BY <1>5, <2>14
    <3>2. /\ e.member \notin Range(a.got)
          /\ \A S \in SUBSET DOMAIN a.it.objs : Closed(a, S) => e.member \in S
      BY <1>1, <1>5, <1>8, <1>10, <2>14, <3>1, TakenForNeed
    <3>3. Pushed(a.got, e.member, c.got) /\ c.bound # 0
      BY <2>6, <2>8, <2>12
    <3> QED
      BY <1>1, <1>4, <1>9, <2>4, <2>12, <2>14, <3>1, <3>2, <3>3, TakenScan
  <2>15. Scans(c)'
    BY <1>5, <2>12, <2>13, <2>14, ScanIs DEF Scans, Searched
  <2> QED
    BY <2>4, <2>11, <2>15, ScanNext DEF LoadInv
<1>11. ASSUME e.name \notin Undefined PROVE LoadInv'
  <2>1. scan' = <<[a EXCEPT !.pos = @ + 1]>> /\ UNCHANGED <<secs, work, failed>>
    BY <1>4, <1>11 DEF Lookup
  <2>2. Placement'
    BY <1>1, <1>2, <2>1, PlacementSame
  <2>3. PICK p \in Nat \ {0} : p = a.pos + 1
    BY <1>6
  <2>4. PICK c : Moved(a, p, a.bound, a.got, c)
    BY DEF Moved
  <2>5. scan' = <<c>>
    BY <1>5, <2>1, <2>3, <2>4 DEF ScanType, Moved
  <2>6. /\ c \in ScanType /\ c.it = a.it /\ c.undef = a.undef /\ c.known = a.known
        /\ c.bound = a.bound /\ c.got = a.got /\ c.pos = p
    BY <1>5, <1>6, <2>4, ScanUpdate
  <2>7. ASSUME Truthful(a.it) PROVE Searched(c)'
    <3>1. Searched(a)
      BY <1>5, <2>7
    <3>2. PassIdle(c)
      <4>1. PassIdle(a)
        BY <3>1 DEF Searched
      <4>2. \A i \in DOMAIN a.it.index : i < c.pos => i < a.pos \/ i = a.pos
        BY <1>6, <2>3, <2>6, IndexFacts
      <4> QED
        BY <1>1, <1>11, <2>6, <4>1, <4>2 DEF PassIdle
    <3> QED
      BY <1>1, <2>1, <2>6, <3>1, <3>2, IdleScan
  <2>8. Scans(c)'
    BY <1>5, <2>6, <2>7, ScanIs DEF Scans, Searched
  <2> QED
    BY <2>2, <2>5, <2>8, ScanNext DEF LoadInv
<1> QED
  BY <1>3, <1>10, <1>11 DEF LInv

\* The end of the index: another pass, or the end of the scan.
LEMMA EndOfIndexStep ==
  ASSUME LInv, EndOfIndex PROVE LInv'
<1>1. /\ ~ failed /\ work = << >> /\ scan # << >> /\ scan[1].it.kind = "archive"
      /\ UNCHANGED hvars /\ UNCHANGED <<hvars, secs, loads, work>> /\ failed' = failed
  BY DEF EndOfIndex, Scanning
<1>2. LoadInv /\ Placement /\ ClosureLoaded
  BY <1>1 DEF LInv, LoadInv
<1>3. LinkInv(Nat)' /\ Placement'
  BY <1>1, <1>2, LinkSame, PlacementSame DEF LInv
<1>4. PICK a : a = scan[1] /\ scan = <<a>> /\ Scans(a)
  BY <1>1, <1>2, ScanNow
<1>5. /\ a \in ScanType /\ a.it.kind = "archive" /\ Range(a.got) \subseteq DOMAIN a.it.objs
      /\ Truthful(a.it) => Searched(a)
  BY <1>1, <1>4, ScanIs
<1>6. /\ a.it \in Item /\ a.pos \in Nat \ {0} /\ a.bound \in Nat /\ a.got \in Seq(Nat)
  BY <1>5 DEF ScanType
<1>7. CASE a.bound > 0
  <2>1. scan' = <<[a EXCEPT !.pos = 1, !.bound = 0]>> /\ last' = last
    BY <1>4, <1>7 DEF EndOfIndex
  <2>2. PICK p \in Nat \ {0}, b \in Nat : p = 1 /\ b = 0
    OBVIOUS
  <2>3. PICK c : Moved(a, p, b, a.got, c)
    BY DEF Moved
  <2>4. scan' = <<c>>
    BY <1>5, <2>1, <2>2, <2>3 DEF ScanType, Moved
  <2>5. /\ c \in ScanType /\ c.it = a.it /\ c.undef = a.undef /\ c.known = a.known
        /\ c.got = a.got /\ c.pos = p
    BY <1>5, <1>6, <2>3, ScanUpdate
  <2>6. PassIdle(c)
    <3>1. \A i \in DOMAIN c.it.index : ~ i < c.pos
      BY <1>6, <2>2, <2>5, IndexFacts
    <3> QED
      BY <1>1, <3>1 DEF PassIdle
  <2>7. ASSUME Truthful(a.it) PROVE Searched(c)'
    <3>1. Searched(a)
      BY <1>5, <2>7
    <3> QED
      BY <1>1, <2>5, <2>6, <3>1, IdleScan
  <2>8. Scans(c)'
    BY <1>5, <2>5, <2>7, ScanIs DEF Scans, Searched
  <2>9. ScanRight'
    BY <2>4, <2>8, ScanNext
  <2> QED
    BY <1>2, <1>3, <2>1, <2>9 DEF LInv, LoadInv, ClosureLoaded
<1>8. CASE a.bound = 0
  <2>1. Close(a) /\ a.pos > Len(a.it.index)
    BY <1>4, <1>8 DEF EndOfIndex
  <2>2. ClosureLoaded' /\ scan' = << >>
    BY <1>1, <1>4, <1>8, <2>1, CloseScan
  <2> QED
    BY <1>3, <2>2 DEF LInv, LoadInv, ScanRight
<1> QED
  BY <1>6, <1>7, <1>8

\* The next member of an archive taken whole, or its end.
LEMMA NextMemberStep ==
  ASSUME LInv, NextMember PROVE LInv'
<1>1. /\ ~ failed /\ work = << >> /\ scan # << >> /\ scan[1].it.kind = "whole"
      /\ UNCHANGED hvars /\ UNCHANGED loads
  BY DEF NextMember, Scanning
<1>2. LoadInv /\ Placement /\ ClosureLoaded
  BY <1>1 DEF LInv, LoadInv
<1>3. LinkInv(Nat)'
  BY <1>1, LinkSame DEF LInv
<1>4. PICK a : a = scan[1] /\ scan = <<a>> /\ Scans(a)
  BY <1>1, <1>2, ScanNow
<1>5. /\ a \in ScanType /\ a.it.kind = "whole" /\ Range(a.got) \subseteq DOMAIN a.it.objs
      /\ a.got = [k \in 1 .. a.pos - 1 |-> k]
  BY <1>1, <1>4, ScanIs
<1>6. /\ a.it \in Item /\ a.pos \in Nat \ {0} /\ a.bound \in Nat /\ a.got \in Seq(Nat)
  BY <1>5 DEF ScanType
<1>7. a.it.objs \in Seq(Objects)
  BY <1>6, LoadingAssumption
<1>8. CASE a.pos > Len(a.it.objs)
  <2>1. Close(a) /\ UNCHANGED <<hvars, secs, loads, work>>
    BY <1>1, <1>4, <1>8 DEF NextMember
  <2>2. Placement'
    BY <1>2, <2>1, PlacementSame
  <2>3. a.it.kind = "archive" => a.bound = 0 /\ a.pos > Len(a.it.index)
    BY <1>5
  <2>4. ClosureLoaded' /\ scan' = << >>
    BY <1>1, <1>4, <2>1, <2>3, CloseScan
  <2> QED
    BY <1>3, <2>2, <2>4 DEF LInv, LoadInv, ScanRight
<1>9. CASE a.pos <= Len(a.it.objs)
  <2>1. /\ BeginLoad(a.it.objs[a.pos]) /\ last' = last
        /\ scan' = <<[a EXCEPT !.pos = @ + 1, !.got = Append(@, a.pos)]>>
    BY <1>4, <1>6, <1>7, <1>9 DEF NextMember
  <2>2. a.pos \in DOMAIN a.it.objs /\ a.it.objs[a.pos] \in Objects
    BY <1>6, <1>7, <1>9
  <2>3. ClosureLoaded'
    BY <1>2, <2>1 DEF ClosureLoaded
  <2>4. PICK p \in Nat \ {0} : p = a.pos + 1
    BY <1>6
  <2>5. PICK g : g = Append(a.got, a.pos)
    OBVIOUS
  <2>6. Pushed(a.got, a.pos, g)
    BY <2>5 DEF Pushed
  <2>7. g \in Seq(Nat) /\ Range(g) = Range(a.got) \cup {a.pos}
    BY <1>6, <2>6, TakeOne
  <2>8. PICK c : Moved(a, p, a.bound, g, c)
    BY DEF Moved
  <2>9. scan' = <<c>>
    BY <1>5, <2>1, <2>4, <2>5, <2>8 DEF ScanType, Moved
  <2>10. c \in ScanType /\ c.it = a.it /\ c.got = g /\ c.pos = p
    BY <1>5, <1>6, <2>7, <2>8, ScanUpdate
  <2>11. Range(c.got) \subseteq DOMAIN c.it.objs
    BY <1>5, <2>2, <2>7, <2>10
  <2>12. c.got = [k \in 1 .. c.pos - 1 |-> k]
    <3>1. Len(a.got) = a.pos - 1 /\ \A k \in 1 .. a.pos - 1 : a.got[k] = k
      BY <1>5, <1>6
    <3>2. Len(g) = a.pos /\ g[a.pos] = a.pos /\ \A k \in 1 .. a.pos - 1 : g[k] = k
      BY <1>6, <2>5, <3>1
    <3>3. g \in Seq(Nat) /\ DOMAIN g = 1 .. a.pos
      BY <2>7, <3>2
    <3>4. \A k \in 1 .. a.pos : k = a.pos \/ k \in 1 .. a.pos - 1
      BY <1>6
    <3>5. \A k \in 1 .. a.pos : g[k] = k
      BY <3>2, <3>4
    <3>6. g = [k \in 1 .. a.pos |-> k]
      BY <3>3, <3>5
    <3> QED
      BY <1>6, <2>4, <2>10, <3>6
  <2>13. Scans(c)'
    BY <1>5, <2>10, <2>11, <2>12 DEF Scans
  <2>14. ScanRight'
    BY <2>9, <2>13, ScanNext
  <2>15. ASSUME ~ failed' PROVE Placement'
    BY <1>1, <1>2, <2>1, <2>2, <2>15, PlacementBegins
  <2> QED
    BY <1>3, <2>3, <2>14, <2>15 DEF LInv, LoadInv
<1> QED
  <2>1. Len(a.it.objs) \in Nat
    BY <1>7
  <2> QED
    BY <1>6, <1>8, <1>9, <2>1

\* Nothing is loaded at the start.
LEMMA LoadStart == ASSUME LInit PROVE LInv
<1>1. HInit /\ secs = << >> /\ loads = << >> /\ work = << >> /\ scan = << >> /\ last = << >>
  BY DEF LInit
<1>2. LinkInv(Nat) /\ ClosureLoaded /\ ScanRight /\ MapRight
  BY <1>1, LinkStart DEF ClosureLoaded, ScanRight, MapRight, Range
<1>3. secs \in Linked
  <2>1. DOMAIN secs = {} /\ secs = [x \in {} |-> secs[x]]
    BY <1>1
  <2> QED
    BY <2>1, LinkedIs
<1>4. loads \in LoadsType /\ Len(loads) = 0
  BY <1>1 DEF LoadsType
<1>5. Shapes
  BY <1>1, <1>3, <1>4 DEF Shapes, WorkOK
<1>6. DOMAIN Objs = {} /\ Len(loads) = 0 /\ DOMAIN secs = {} /\ 1 .. Len(loads) = {}
  BY <1>1 DEF Objs, ObjsOf
<1>7. Placed(secs, Objs, Sms) /\ AppendedAll(secs, Objs, Sms, Len(loads))
  BY <1>6 DEF Placed, OnceHeld, AppendedAll
<1>8. claims = {} /\ \A f \in Name : table[f] = None
  BY <1>1 DEF HInit, Init
<1>9. TableFrom /\ Origins(Objs, Sms)
  BY <1>8 DEF TableFrom, Origins
<1> QED
  BY <1>2, <1>5, <1>7, <1>9 DEF LInv, LoadInv, Placement

\* Every step of the linker preserves the invariant.
LEMMA LoadStep == ASSUME LInv, [LNext]_avars PROVE LInv'
<1>1. CASE UNCHANGED avars
  <2>1. UNCHANGED hvars /\ UNCHANGED <<hvars, secs, loads, work>> /\ UNCHANGED <<work, scan>>
        /\ UNCHANGED <<last, failed>>
    BY <1>1 DEF avars, hvars, lvars
  <2>2. LinkInv(Nat)' /\ ClosureLoaded' /\ (Placement => Placement')
    BY <2>1, LinkSame, PlacementSame DEF LInv, ClosureLoaded
  <2>3. ScanRight => ScanRight'
    BY <2>1, ScanSame
  <2> QED
    BY <2>1, <2>2, <2>3 DEF LInv, LoadInv
<1> QED
  BY <1>1, OpenObjectStep, OpenArchiveStep, LoadSymbolStep, EndLoadStep, LookupStep,
     EndOfIndexStep, NextMemberStep DEF LNext

\* However many files and archives are linked, the whole invariant holds at
\* every step of tcc_load_object_file and tcc_load_archive.
THEOREM LoadingInvariant == LSpec => []LInv
<1>1. LInit => LInv
  BY LoadStart
<1>2. LInv /\ [LNext]_avars => LInv'
  BY LoadStep
<1> QED
  BY <1>1, <1>2, PTL DEF LSpec

\* Whatever files and archive members are loaded, and in whatever order, a name
\* with a strong definition among them is strongly defined (set_elf_sym).
THEOREM LinkedStrongWins == LSpec => []StrongWins
BY LoadingInvariant, PTL DEF LInv, LinkInv

\* No strong definition of the files linked is lost without an error, unless an
\* assembler .set made it replaceable (set_elf_sym, tcc_load_object_file).
THEOREM LinkedNoSilentLoss == LSpec => []NoSilentLoss
BY LoadingInvariant, PTL DEF LInv, LinkInv

\* The linker knows a name, and knows it defined, exactly if a symbol of some
\* file loaded made it so.
THEOREM LinkedNothingForgotten == LSpec => []DefinedIffClaimed
BY LoadingInvariant, PTL DEF LInv, LinkInv

\* Sections, symbols and relocations of any objects in any order move together
\* (tcc_load_object_file): PlacedRight is the invariant's two halves.
THEOREM PlacedRightAlways == LSpec => []PlacedRight
<1>1. LInv => PlacedRight
  BY RelocationsHold, DefinitionsHold DEF LInv, PlacedRight
<1> QED
  BY <1>1, LoadingInvariant, PTL

\* However an index is ordered, an archive gives exactly the members that are
\* needed, each once (tcc_load_alacarte).
THEOREM ClosureLoadedAlways == LSpec => []ClosureLoaded
BY LoadingInvariant, PTL DEF LInv
=============================================================================
