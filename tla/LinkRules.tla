------------------------------ MODULE LinkRules ------------------------------
(***************************************************************************)
(* The rule set_elf_sym() applies when a symbol is entered into an ELF     *)
(* symbol table that may already hold one of that name: which of the two   *)
(* survives and when the linker reports a clash.  Pure operators, no state.*)
(*                                                                         *)
(* A symbol record abstracts Elf64_Sym: `val' stands for st_value together *)
(* with st_size, `aset' for the ST_ASM_SET bit (0x04) of st_other, `vis'   *)
(* for its two low bits.  st_type never takes part in a decision of the    *)
(* linker except inside the identity test, where `val' carries it.         *)
(***************************************************************************)
EXTENDS Naturals

CONSTANTS
  Value,        \* what st_value/st_size/st_type may be, an opaque set
  Section,      \* the section numbers a symbol can be defined in
  BssSection,   \* those for which IS_BSS() holds (SHT_NOBITS or SHN_COMMON)
  UNDEF,        \* SHN_UNDEF
  DynTable      \* TRUE for .dynsymtab (flag 0x40000000), FALSE for .symtab

ASSUME SectionAssumption ==
  /\ BssSection \subseteq Section
  /\ UNDEF \notin Section
  /\ DynTable \in BOOLEAN

\* st_info >> 4
LOCALB == 0
GLOBAL == 1
WEAK == 2
Bind == {LOCALB, GLOBAL, WEAK}

\* st_other & 3
Default == 0
Internal == 1
Hidden == 2
Vis == 0 .. 3

Shndx == Section \cup {UNDEF}

\* The attributes of a symbol, its name apart.
Attr == [bind : Bind, vis : Vis, aset : BOOLEAN, shndx : Shndx, val : Value]

Defined(s) == s.shndx # UNDEF
IsBss(s) == s.shndx \in BssSection

\* The most constraining visibility wins; default constrains nothing.
MergeVis(old, new) ==
  IF old = Default THEN new
  ELSE IF new = Default THEN old
  ELSE IF old < new THEN old ELSE new

\* Both are global and default enough for the section rules to be reached.
Contest(old, new) ==
  /\ Defined(old) /\ Defined(new)
  /\ new.bind = GLOBAL /\ old.bind = GLOBAL
  /\ new.vis \notin {Internal, Hidden}
  /\ ~ DynTable

\* Seeded bug: the bindings are compared the wrong way round.
Overrides_Swapped(old, new) ==
  \/ Defined(old) /\ Defined(new) /\ new.bind = WEAK /\ old.bind = GLOBAL
  \/ Contest(old, new) /\ ~ IsBss(new) /\ (IsBss(old) \/ old.aset)

\* A defined symbol gives way to the new definition.
Overrides(old, new) ==
  \/ Defined(old) /\ Defined(new) /\ new.bind = GLOBAL /\ old.bind = WEAK
  \/ Contest(old, new) /\ ~ IsBss(new) /\ (IsBss(old) \/ old.aset)

\* Seeded bug: two definitions in one section are taken for the same one.
Clash_SameSection(old, new) ==
  /\ old # new
  /\ Contest(old, new)
  /\ ~ IsBss(old) /\ ~ IsBss(new) /\ ~ old.aset
  /\ old.shndx # new.shndx

\* "link symbol '%s' defined twice"
Clash(old, new) ==
  /\ old # new
  /\ Contest(old, new)
  /\ ~ IsBss(old) /\ ~ IsBss(new) /\ ~ old.aset

\* The do_patch label: everything but st_other is taken from the new symbol.
Patch(old, new) ==
  [old EXCEPT !.bind = new.bind, !.shndx = new.shndx, !.val = new.val]

\* Seeded bug: a definition does not replace a reference.
Merge_KeepsReference(old, new) ==
  LET seen == [old EXCEPT !.vis = MergeVis(old.vis, new.vis)] IN
  IF old # new /\ Overrides(old, new) THEN Patch(seen, new) ELSE seen

\* The attributes the table holds once `new' has been entered over `old'.
Merge(old, new) ==
  LET seen == [old EXCEPT !.vis = MergeVis(old.vis, new.vis)] IN
  CASE old = new            -> old
    [] old # new /\ ~ Defined(old)       -> new
    [] old # new /\ Overrides(old, new)  -> Patch(seen, new)
    [] OTHER                -> seen
=============================================================================
