------------------------------- MODULE PEImage -------------------------------
(***************************************************************************)
(* The PE writer: symbols left undefined are bound to the import table     *)
(* (pe_check_symbols), the sections are ordered by class and get their     *)
(* addresses one after the other, the import table and the base            *)
(* relocations being built when their section is reached                   *)
(* (pe_assign_addresses), and the image is written (pe_write).             *)
(*                                                                         *)
(* Sizes are in units of a WORD.  Addresses count from the image base.     *)
(***************************************************************************)
EXTENDS Naturals, Sequences, FiniteSets, SequencesExt

CONSTANTS
  Program,     \* what may be linked: [secs, syms, exports, reloc]
  DllOf,       \* the library each import comes from
  NoImport,    \* a symbol no library has
  SectAlign,   \* section_align
  FileAlign,   \* file_align
  PageSize,    \* what a block of base relocations covers
  HeaderSize   \* the headers of the image, apart from its section table

ASSUME PEAssumption ==
  /\ SectAlign \in Nat \ {0} /\ FileAlign \in Nat \ {0} /\ PageSize \in Nat \ {0}
  /\ HeaderSize \in Nat /\ NoImport \notin DOMAIN DllOf

VARIABLES
  stage,    \* "check", "sort", "place", "relocate", "write", "written", "error"
  next,     \* the symbol, or the place in `order', that is next
  errors,   \* nb_errors # 0
  secs,     \* s1->sections: [name, type, flags, size, align, rels, addr]
  esyms,    \* the symbol table: [use, import, shndx, val]
  exports,  \* how many symbols are exported
  imports,  \* imp_info: what is imported, [import, iat, thk], by first use
  order,    \* sec_order
  infos,    \* sec_info: [cls, addr, size, data, list]
  image,    \* the loop over sections: [addr, open]
  blocks,   \* the contents of .reloc: [page, entries]
  iat,      \* what the slots of the import address table are for: [at, import]
  tls,      \* the range of the TLS directory, or nothing
  file      \* what pe_write put where: [sec, at]

pvars == <<stage, next, errors, secs, esyms, exports, imports, order, infos, image,
           blocks, iat, tls, file>>

\* In WORDs: a slot of the import table, its descriptor, the hint and name of
\* an import, a jump through a slot, the head of a block of relocations, the TLS
\* directory and index, the export directory and what an exported symbol adds.
SlotSize == 4
DescriptorSize == 10
NameSize == 2
ThunkSize == 4
BlockHeader == 4
TlsDirSize == 20
TlsIndexSize == 16
ExportDirSize == 20
ExportSize == 7

AlignTo(n, a) == ((n + a - 1) \div a) * a

Index(name) == CHOOSE i \in DOMAIN secs : secs[i].name = name
Thunk == Index("rodata")
Text == Index("text")

\* n more at an aligned offset: pe_align_section() and section_ptr_add(), or
\* section_add(), which asks for the alignment of the section as well.
Grow(s, n, a) == [s EXCEPT !.size = AlignTo(@, a) + n]
Added(s, n, a) == [Grow(s, n, a) EXCEPT !.align = IF a > @ THEN a ELSE @]

\* enum sec_text ... sec_last
Classes == <<"text", "rdata", "data", "bss", "idata", "pdata", "tdata", "tbss",
             "other", "rsrc", "debug", "reloc", "last">>
Rank(c) == CHOOSE k \in DOMAIN Classes : Classes[k] = c

\* pe_section_class()
Class(s) ==
  CASE "debug" \in s.flags -> "debug"
    [] "debug" \notin s.flags /\ "alloc" \notin s.flags ->
         IF s.name = "reloc" THEN "reloc" ELSE "last"
    [] OTHER ->
         IF "tls" \in s.flags THEN IF s.type = "nobits" THEN "tbss" ELSE "tdata"
         ELSE IF s.type = "nobits" THEN "bss"
         ELSE IF s.type # "progbits" THEN "other"
         ELSE IF "exec" \in s.flags THEN "text"
         ELSE IF "write" \in s.flags THEN "data"
         ELSE IF s.name \in {"rsrc", "idata", "pdata"} THEN s.name
         ELSE "rdata"

PInit ==
  /\ \E p \in Program :
       /\ secs = p.secs \o (IF p.reloc
                            THEN <<[name |-> "reloc", type |-> "progbits", flags |-> {},
                                    size |-> 0, align |-> 1, rels |-> << >>, addr |-> 0]>>
                            ELSE << >>)
       /\ esyms = p.syms /\ exports = p.exports
  /\ stage = "check" /\ next = 1 /\ errors = FALSE
  /\ imports = << >> /\ order = << >> /\ infos = << >> /\ blocks = << >>
  /\ iat = << >> /\ tls = << >> /\ file = << >>
  /\ image = [addr |-> 1, open |-> FALSE]

-----------------------------------------------------------------------------
(* pe_check_symbols()                                                      *)

Rel(off, kind, sym) == [off |-> off, kind |-> kind, sym |-> sym]
Undefined(i) == esyms[i].shndx = "undef"
SymEnd == Cardinality({i \in DOMAIN esyms : esyms[i].use # "helper"})

\* pe_add_import(): the table with the import in it, once, and its place.
WithImport(im) ==
  IF \E k \in DOMAIN imports : imports[k].import = im THEN imports
  ELSE Append(imports, [import |-> im, iat |-> 0, thk |-> 0])
PlaceOf(table, im) == SelectInSeq(table, LAMBDA x : x.import = im)

AlignText == [secs EXCEPT ![Text] = Grow(@, 0, ThunkSize)]

\* A function: a jump through the slot, made for the first symbol that needs
\* one, with a symbol of its own for the slot.
BindCall(i) ==
  LET table == WithImport(esyms[i].import)
      k == PlaceOf(table, esyms[i].import)
      at == secs[Text].size
      helper == [use |-> "helper", import |-> esyms[i].import, shndx |-> "undef", val |-> 0]
      bound(n) == [esyms EXCEPT ![i].shndx = "text", ![i].val = n]
  IN IF table[k].thk # 0
     THEN /\ esyms' = bound(table[k].thk)
          /\ imports' = table /\ UNCHANGED secs
     ELSE /\ esyms' = Append(bound(at), helper)
          /\ imports' = [table EXCEPT ![k].iat = Len(esyms) + 1, ![k].thk = at]
          /\ secs' = [secs EXCEPT ![Text].size = @ + ThunkSize,
                                  ![Text].rels = Append(@, Rel(at + 1, "pc", Len(esyms) + 1))]

\* Seeded bug: the symbol is not chained to those before it.
BindPointer_Unchained(i) ==
  LET table == WithImport(esyms[i].import)
  IN /\ imports' = [table EXCEPT ![PlaceOf(table, esyms[i].import)].iat = i]
     /\ UNCHANGED <<esyms, secs>>

\* A variable: the symbol becomes the slot itself; until then st_value chains
\* the symbols of one import.
BindPointer(i) ==
  LET table == WithImport(esyms[i].import)
      k == PlaceOf(table, esyms[i].import)
  IN /\ esyms' = [esyms EXCEPT ![i].val = table[k].iat]
     /\ imports' = [table EXCEPT ![k].iat = i]
     /\ UNCHANGED secs

AlignTextSection ==
  /\ stage = "check" /\ next = 1 /\ secs # AlignText
  /\ secs' = AlignText
  /\ UNCHANGED <<stage, next, errors, esyms, exports, imports, order, infos, image,
                 blocks, iat, tls, file>>

CheckSymbol ==
  /\ stage = "check" /\ secs = AlignText /\ next <= SymEnd
  /\ next' = next + 1
  /\ IF ~ Undefined(next) \/ esyms[next].import = NoImport
     THEN UNCHANGED <<esyms, imports, secs, errors>>
     ELSE /\ IF esyms[next].use = "call" THEN BindCall(next) ELSE BindPointer(next)
          /\ errors' = (errors \/ esyms[next].use = "plain")
  /\ UNCHANGED <<stage, exports, order, infos, image, blocks, iat, tls, file>>

EndCheck ==
  /\ stage = "check" /\ secs = AlignText /\ next > SymEnd
  /\ stage' = IF errors THEN "error" ELSE "sort"
  /\ UNCHANGED <<next, errors, secs, esyms, exports, imports, order, infos, image,
                 blocks, iat, tls, file>>

-----------------------------------------------------------------------------
(* pe_assign_addresses()                                                   *)

\* The order of the sections: an insertion sort by class.
Inserted(acc, i) ==
  LET upTo == Cardinality({k \in DOMAIN acc : Rank(Class(secs[acc[k]])) <= Rank(Class(secs[i]))})
  IN InsertAt(acc, upTo + 1, i)

\* pe_build_tls(pe, NULL): a directory with four addresses in it, and the index.
WithTls(table) ==
  LET dir == AlignTo(table[Thunk].size, 8) IN
  [table EXCEPT ![Thunk] = [Added(@, TlsDirSize, 8) EXCEPT
                              !.rels = @ \o [n \in 1 .. 4 |-> Rel(dir + 4 * (n - 1), "abs", 0)]],
                ![Index("data")] = Added(@, TlsIndexSize, 8)]

SortSections ==
  /\ stage = "sort"
  /\ order' = FoldLeft(Inserted, << >>, [i \in DOMAIN secs |-> i])
  /\ secs' = IF \E i \in DOMAIN secs : "tls" \in secs[i].flags THEN WithTls(secs) ELSE secs
  /\ stage' = "place" /\ next' = 1
  /\ UNCHANGED <<errors, esyms, exports, imports, infos, image, blocks, iat, tls, file>>

\* The imports, those of one library together, a slot without an import after
\* each library.
Dlls == FoldLeft(LAMBDA acc, x : IF DllOf[x.import] \in ToSet(acc) THEN acc
                                 ELSE Append(acc, DllOf[x.import]), << >>, imports)
SlotOrder ==
  FlattenSeq([d \in DOMAIN Dlls |->
    SelectSeq(imports, LAMBDA x : DllOf[x.import] = Dlls[d])
      \o <<[import |-> NoImport, iat |-> 0, thk |-> 0]>>])

\* The symbols chained from symbol i on.
Chain(i) ==
  LET c[n \in 0 .. Len(esyms)] ==
        IF n = 0 THEN {i} ELSE c[n - 1] \cup ({esyms[k].val : k \in c[n - 1]} \ {0})
  IN c[Len(esyms)]

\* pe_build_imports(): descriptors, slots twice, names; each chained symbol
\* becomes its slot.
ImportsBuilt(t) ==
  LET base == AlignTo(t.size, 8)
      first == base + (Len(Dlls) + 1) * DescriptorSize
      slots == SlotOrder
      at(k) == first + (k - 1) * SlotSize
  IN IF imports = << >> THEN [sec |-> t, iat |-> << >>, syms |-> esyms]
     ELSE [sec |-> Grow(t, (Len(Dlls) + 1) * DescriptorSize + 2 * Len(slots) * SlotSize
                             + (Len(Dlls) + Len(imports)) * NameSize, 8),
           iat |-> [k \in DOMAIN slots |-> [at |-> at(k), import |-> slots[k].import]],
           syms |-> [i \in DOMAIN esyms |->
                      IF \E k \in DOMAIN slots : slots[k].iat # 0 /\ i \in Chain(slots[k].iat)
                      THEN LET k == CHOOSE k \in DOMAIN slots :
                                      slots[k].iat # 0 /\ i \in Chain(slots[k].iat)
                           IN [esyms[i] EXCEPT !.shndx = "rodata", !.val = at(k)]
                      ELSE esyms[i]]]

\* pe_build_exports()
ExportsBuilt(t) ==
  IF exports = 0 THEN t
  ELSE [Grow(t, ExportDirSize + exports * ExportSize, 8) EXCEPT
          !.rels = @ \o [n \in 1 .. exports |->
                           Rel(AlignTo(t.size, 8) + ExportDirSize + 2 * (n - 1), "rva", 0)]]

\* The addresses pe_build_reloc() meets, section by section of the image.
Relocated ==
  FlattenSeq([n \in DOMAIN infos |->
    FlattenSeq([k \in DOMAIN infos[n].list |->
      LET s == secs[infos[n].list[k]]
          r == SelectSeq(s.rels, LAMBDA x : x.kind = "abs")
      IN [j \in DOMAIN r |-> r[j].off + s.addr]])])

\* Seeded bug: a block takes whatever follows its page.
BlockWith_NoLimit(acc, a) ==
  IF acc # << >> /\ a >= Last(acc).page
  THEN [acc EXCEPT ![Len(acc)].entries = Append(@, a - acc[Len(acc)].page)]
  ELSE Append(acc, [page |-> (a \div PageSize) * PageSize, entries |-> <<a % PageSize>>])

\* The block in work takes an address of its page, or a new one begins.
BlockWith(acc, a) ==
  IF acc # << >> /\ a >= Last(acc).page /\ a - Last(acc).page < PageSize
  THEN [acc EXCEPT ![Len(acc)].entries = Append(@, a - acc[Len(acc)].page)]
  ELSE Append(acc, [page |-> (a \div PageSize) * PageSize, entries |-> <<a % PageSize>>])

\* pe_build_reloc(); blocks have an even number of entries.
BlocksBuilt == FoldLeft(BlockWith, << >>, Relocated)
BlocksSize(b) ==
  FoldLeft(LAMBDA n, x : n + BlockHeader + AlignTo(Len(x.entries), 2), 0, b)

ImageClass(s) == CASE Class(s) = "bss" -> "data" [] Class(s) = "tbss" -> "tdata" [] OTHER -> Class(s)
Joins(s) == image.open /\ ImageClass(s) = Last(infos).cls /\ ImageClass(s) # "debug"

\* Where the section reached begins: next to the one before it in the image, or
\* on a boundary of its own.
AddressOf(s) ==
  IF Joins(s) THEN AlignTo(image.addr, s.align) ELSE AlignTo(image.addr, SectAlign)

\* The list of sections of the image, with section i, of what is now size n,
\* at address a; what has no contents only takes room.
WithSection(i, a, n) ==
  LET s == secs[i]
      list == IF Joins(s) THEN infos
              ELSE Append(infos, [cls |-> ImageClass(s), addr |-> a, size |-> 0,
                                  data |-> 0, list |-> << >>])
      l == Len(list)
      sized == [list EXCEPT ![l].size = a + n - list[l].addr]
  IN IF s.type = "nobits" THEN sized
     ELSE [sized EXCEPT ![l].data = sized[l].size, ![l].list = Append(@, i)]

\* One round of the loop that assigns addresses.
PlaceSection ==
  /\ stage = "place" /\ next <= Len(order)
  /\ Class(secs[order[next]]) # "last"
  /\ LET i == order[next]
         s == secs[i]
         a == AddressOf(s)
         built == IF i = Thunk THEN ImportsBuilt(s) ELSE [sec |-> s, iat |-> iat, syms |-> esyms]
         b == IF s.name = "reloc" THEN BlocksBuilt ELSE blocks
         t == IF i = Thunk THEN ExportsBuilt(built.sec)
              ELSE IF s.name = "reloc" THEN [s EXCEPT !.size = BlocksSize(b)] ELSE s
     IN /\ secs' = [secs EXCEPT ![i] = [t EXCEPT !.addr = a]]
        /\ iat' = built.iat /\ esyms' = built.syms /\ blocks' = b
        /\ infos' = IF t.size = 0 THEN infos ELSE WithSection(i, a, t.size)
        /\ image' = [addr |-> a + t.size, open |-> t.size # 0 \/ Joins(s)]
        /\ tls' = IF t.size # 0 /\ "tls" \in s.flags
                  THEN <<IF tls = << >> THEN a ELSE tls[1], a + t.size>> ELSE tls
  /\ next' = next + 1
  /\ UNCHANGED <<stage, errors, exports, imports, order, file>>

EndPlace ==
  /\ stage = "place"
  /\ Class(secs[order[next]]) = "last"
  /\ stage' = "relocate"
  /\ UNCHANGED <<next, errors, secs, esyms, exports, imports, order, infos, image,
                 blocks, iat, tls, file>>

-----------------------------------------------------------------------------
\* relocate_syms(): symbols get their section's address, or are unresolved; weak
\* references, which may stay so, are left out.
RelocateSyms ==
  /\ stage = "relocate"
  /\ stage' = IF \E i \in DOMAIN esyms : Undefined(i) THEN "error" ELSE "write"
  /\ esyms' = [i \in DOMAIN esyms |->
               IF Undefined(i) THEN esyms[i]
               ELSE [esyms[i] EXCEPT !.val = @ + secs[Index(esyms[i].shndx)].addr]]
  /\ UNCHANGED <<next, errors, secs, exports, imports, order, infos, image, blocks,
                 iat, tls, file>>

\* The file offsets of the sections of the image, after the headers.
RawStart ==
  LET p[n \in 0 .. Len(infos)] ==
        IF n = 0 THEN AlignTo(HeaderSize + Len(infos), FileAlign)
        ELSE IF infos[n].data = 0 THEN p[n - 1] ELSE AlignTo(p[n - 1] + infos[n].data, FileAlign)
  IN [n \in DOMAIN infos |-> p[n - 1]]

\* pe_write(): every section at the file offset its address asks for, unless
\* the file is already longer.
Pieces(n, from) ==
  LET list == infos[n].list
      want(k) == RawStart[n] + secs[list[k]].addr - secs[list[1]].addr
      end[k \in 0 .. Len(list)] ==
        IF k = 0 THEN from
        ELSE (IF end[k - 1] > want(k) THEN end[k - 1] ELSE want(k)) + secs[list[k]].size
  IN [k \in DOMAIN list |-> [sec |-> list[k], at |-> end[k] - secs[list[k]].size]]

WriteImage ==
  /\ stage = "write"
  /\ stage' = "written"
  /\ file' = FlattenSeq([n \in DOMAIN infos |-> Pieces(n, RawStart[n])])
  /\ UNCHANGED <<next, errors, secs, esyms, exports, imports, order, infos, image,
                 blocks, iat, tls>>

PNext ==
  \/ AlignTextSection \/ CheckSymbol \/ EndCheck
  \/ SortSections \/ PlaceSection \/ EndPlace
  \/ RelocateSyms \/ WriteImage

PSpec == PInit /\ [][PNext]_pvars
-----------------------------------------------------------------------------
Written == stage = "written"

Placed == {i \in DOMAIN secs : Class(secs[i]) # "last" /\ secs[i].size > 0}
WithContents == {i \in Placed : secs[i].type # "nobits"}
InfoOf(i) == CHOOSE n \in DOMAIN infos :
               infos[n].addr <= secs[i].addr /\ secs[i].addr < infos[n].addr + infos[n].size
Apart(a, n, b, m) == a + n <= b \/ b + m <= a

SectionsPlaced ==
  Written =>
    /\ \A i, j \in Placed : i # j => Apart(secs[i].addr, secs[i].size, secs[j].addr, secs[j].size)
    /\ \A n \in DOMAIN infos :
         /\ infos[n].addr % SectAlign = 0
         /\ n > 1 => Rank(infos[n - 1].cls) <= Rank(infos[n].cls)
         /\ \A m \in DOMAIN infos : m # n =>
              /\ Apart(infos[n].addr, infos[n].size, infos[m].addr, infos[m].size)
              /\ Apart(RawStart[n], infos[n].data, RawStart[m], infos[m].data)
    /\ \A i \in Placed :
         /\ secs[i].addr % secs[i].align = 0
         /\ \E n \in DOMAIN infos :
              /\ infos[n].cls = ImageClass(secs[i])
              /\ infos[n].addr <= secs[i].addr
              /\ secs[i].addr + secs[i].size <= infos[n].addr + infos[n].size
    /\ \A i \in WithContents :
         \E f \in ToSet(file) :
           /\ f.sec = i
           /\ f.at = RawStart[InfoOf(i)] + secs[i].addr - infos[InfoOf(i)].addr
           /\ secs[i].addr + secs[i].size <= infos[InfoOf(i)].addr + infos[InfoOf(i)].data
    /\ tls # << >> => \A i \in Placed : "tls" \in secs[i].flags =>
         tls[1] <= secs[i].addr /\ secs[i].addr + secs[i].size <= tls[2]

RelocsExact ==
  Written /\ (\E i \in DOMAIN secs : secs[i].name = "reloc") =>
    LET named == FlattenSeq([b \in DOMAIN blocks |->
                   [k \in DOMAIN blocks[b].entries |-> blocks[b].page + blocks[b].entries[k]]])
    IN /\ IsInjective(named)
       /\ ToSet(named) = {secs[i].addr + r.off : <<i, r>> \in
            {<<i, r>> \in Placed \X UNION {ToSet(s.rels) : s \in ToSet(secs)} :
               r \in ToSet(secs[i].rels) /\ r.kind = "abs"}}
       /\ \A b \in DOMAIN blocks : blocks[b].page % PageSize = 0
            /\ \A k \in DOMAIN blocks[b].entries : blocks[b].entries[k] \in 0 .. PageSize - 1

\* Whatever was built on the way, in the written image no two sections overlap,
\* each is aligned as it asked and lies in one image section of its class, image
\* sections begin on their own pages, and the file holds the contents of each
\* where the loader will look for the address the linker gave it.  The base
\* relocations name every absolute address in the image, once, whatever pages they
\* fall on, and nothing else.
ImageSound == SectionsPlaced /\ RelocsExact

\* Slot k of the import table stands for the import.
SlotAt(a, im) == \E k \in DOMAIN iat : iat[k].import = im /\ a = secs[Thunk].addr + iat[k].at

Reached(i) ==
  CASE esyms[i].use = "pointer" -> SlotAt(esyms[i].val, esyms[i].import)
    [] esyms[i].use = "call" ->
         \E r \in ToSet(secs[Text].rels) :
           /\ secs[Text].addr + r.off = esyms[i].val + 1
           /\ r.sym # 0 /\ SlotAt(esyms[r.sym].val, esyms[i].import)
    [] OTHER -> TRUE

\* A call made after a pointer to the same import was seen begins a new chain,
\* and so does a second one if the first jump is at the very start of .text:
\* what was chained is left undefined.
Unchained ==
  \E i, j \in DOMAIN esyms :
    /\ esyms[i].import = esyms[j].import /\ esyms[i].import # NoImport
    /\ esyms[j].use = "call"
    /\ i < j
    /\ \/ esyms[i].use = "pointer"
       \/ esyms[i].use = "call" /\ \E r \in ToSet(secs[Text].rels) : r.off = 1 /\ r.sym # 0

\* If the image is written, every call of an imported function goes through the
\* slot of that function and every imported variable is its slot; it is not
\* written only if something is missing, undeclared or `Unchained'.
ImportsBound ==
  /\ Written => \A i \in 1 .. SymEnd : esyms[i].import # NoImport => Reached(i)
  /\ stage = "error" =>
       \/ Unchained
       \/ \E i \in 1 .. SymEnd : esyms[i].use = "plain" \/ (esyms[i].shndx = "undef" /\ esyms[i].import = NoImport)
=============================================================================
