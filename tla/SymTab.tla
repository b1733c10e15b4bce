------------------------------- MODULE SymTab -------------------------------
(***************************************************************************)
(* The linker's symbol table as tccelf.c keeps it: an array of symbols, a  *)
(* string table, relocations that refer to symbols by index, and the       *)
(* per-file protocol around it.                                            *)
(*                                                                         *)
(* While a file is being compiled the hash table is detached and put_elf_  *)
(* sym() only appends.  tccelf_end_file() then rewinds both the symbol and *)
(* the string section to where the file began and enters the file's        *)
(* symbols again, one by one, with set_elf_sym(): it reads from the very   *)
(* memory it writes to, so it is correct only while the write cursors stay *)
(* at or behind the read cursor.  At last the relocations made since are   *)
(* renumbered through the translation table tr.                            *)
(*                                                                         *)
(* Index 0 (the null symbol, the empty string) is not stored: symbol and   *)
(* string memory are indexed from 1.  A string takes one cell.  The hash   *)
(* lookup is the set of linked symbols here; ElfHash.tla models buckets    *)
(* and chains.                                                             *)
(***************************************************************************)
EXTENDS LinkRules, Sequences

CONSTANTS
  Name,       \* global names
  NoName,     \* the empty string
  Decl,       \* attributes of the symbols the program makes
  NoDecl,     \* what memory no symbol was written to holds
  None,       \* abstract table: a name nothing is known of
  MaxSyms,    \* bound: cells of symbol and of string memory
  MaxRelocs   \* bound: relocations

ASSUME SymTabAssumption ==
  /\ MaxSyms \in Nat /\ MaxRelocs \in Nat
  /\ Decl \subseteq Attr
  /\ NoName \notin Name
  /\ None \notin Attr
  /\ DynTable = FALSE

VARIABLES
  mem,      \* symtab_section->data: [str, attr] per cell
  nsyms,    \* symtab_section->data_offset, in symbols
  strs,     \* the string section's data
  nstrs,    \* its data_offset, in strings
  base,     \* sh_offset of both, set by tccelf_begin_file
  hash,     \* where the hash section hangs: s->hash ("on"), s->reloc
            \* ("kept") or nowhere ("lost")
  phase,    \* "idle" between files, "compile", "merge" (in tccelf_end_file)
  nstaged,  \* tccelf_end_file: nb_syms
  tr,       \* tccelf_end_file: old index - base -> new index, so far
  relocs,   \* symbol index of each relocation
  clashed,  \* nb_errors # 0 because of "defined twice"
  \* history variables
  emitted,  \* what the compiler made of the file's symbols: [name, attr]
  aim,      \* the name each relocation was made for
  broken    \* 0, or 1 + base at the first compile that ended in an error

store == <<mem, nsyms, strs, nstrs>>
vars == <<mem, nsyms, strs, nstrs, base, hash, phase, nstaged, tr, relocs,
          clashed, emitted, aim, broken>>

Cell == 1 .. MaxSyms
Phase == {"idle", "compile", "merge"}
Hash == {"on", "kept", "lost"}

NameOf(i) == IF mem[i].str = 0 THEN NoName ELSE strs[mem[i].str]
IsGlobal(i) == mem[i].attr.bind # LOCALB

\* find_elf_sym(): 0 without a hash table, else the symbol of that name that
\* was linked into it last.
Find(n) ==
  LET hits == {i \in 1 .. nsyms : IsGlobal(i) /\ NameOf(i) = n} IN
  IF hash # "on" \/ hits = {} THEN 0
  ELSE CHOOSE i \in hits : \A j \in hits : j <= i

Init ==
  /\ mem = [i \in Cell |-> [str |-> 0, attr |-> NoDecl]]
  /\ nsyms = 0
  /\ strs = [i \in Cell |-> NoName]
  /\ nstrs = 0
  /\ base = [sym |-> 0, str |-> 0]
  /\ hash = "on"
  /\ phase = "idle"
  /\ nstaged = 0
  /\ tr = << >>
  /\ relocs = << >>
  /\ clashed = FALSE
  /\ emitted = << >>
  /\ aim = << >>
  /\ broken = 0

\* put_elf_sym(): append a symbol and, if it has a name, its string.
PutElfSym(n, a) ==
  /\ nsyms < MaxSyms
  /\ nsyms' = nsyms + 1
  /\ IF n = NoName
     THEN /\ mem' = [mem EXCEPT ![nsyms + 1] = [str |-> 0, attr |-> a]]
          /\ UNCHANGED <<strs, nstrs>>
     ELSE /\ nstrs < MaxSyms
          /\ mem' = [mem EXCEPT ![nsyms + 1] = [str |-> nstrs + 1, attr |-> a]]
          /\ strs' = [strs EXCEPT ![nstrs + 1] = n]
          /\ nstrs' = nstrs + 1

\* Seeded bug: the existing symbol is always overwritten.
SetElfSym_Overwrite(n, a) ==
  LET f == Find(n) IN
  IF a.bind # LOCALB /\ f # 0
  THEN /\ mem' = [mem EXCEPT ![f].attr = a]
       /\ clashed' = (clashed \/ Clash(mem[f].attr, a))
       /\ UNCHANGED <<nsyms, strs, nstrs>>
  ELSE PutElfSym(n, a) /\ UNCHANGED clashed

\* set_elf_sym(): update the symbol of that name, or append one.
SetElfSym(n, a) ==
  LET f == Find(n) IN
  IF a.bind # LOCALB /\ f # 0
  THEN /\ mem' = [mem EXCEPT ![f].attr = Merge(@, a)]
       /\ clashed' = (clashed \/ Clash(mem[f].attr, a))
       /\ UNCHANGED <<nsyms, strs, nstrs>>
  ELSE PutElfSym(n, a) /\ UNCHANGED clashed

\* The index set_elf_sym() returns.
SetIndex(n, a) ==
  IF a.bind # LOCALB /\ Find(n) # 0 THEN Find(n) ELSE nsyms + 1
-----------------------------------------------------------------------------
\* tccelf_begin_file(): remember the offsets, detach the hash table.
BeginFile ==
  /\ phase = "idle"
  /\ phase' = "compile"
  /\ base' = [sym |-> nsyms, str |-> nstrs]
  /\ hash' = IF hash = "on" THEN "kept" ELSE "lost"
  /\ UNCHANGED <<mem, nsyms, strs, nstrs, nstaged, tr, relocs, clashed, emitted,
                 aim, broken>>

\* put_extern_sym2() for a symbol not yet in the table, and the section and
\* file symbols of the debug writer.
PutExternSym(n, a) ==
  /\ phase = "compile"
  /\ n = NoName => a.bind = LOCALB /\ Defined(a)
  /\ PutElfSym(n, a)
  /\ emitted' = Append(emitted, [name |-> n, attr |-> a])
  /\ UNCHANGED <<base, hash, phase, nstaged, tr, relocs, clashed, aim, broken>>

\* put_extern_sym2() for a symbol the file already referred to: value, size
\* and section are set, then update_storage() gives it the binding and the
\* visibility the declaration has by now.
DefineSym(i, a) ==
  LET was == mem[i].attr
      now == [was EXCEPT !.shndx = a.shndx, !.val = a.val, !.bind = a.bind,
                         !.vis = IF a.vis # Default THEN a.vis ELSE @]
  IN
  /\ phase = "compile"
  /\ i \in base.sym + 1 .. nsyms
  /\ mem[i].str # 0
  /\ ~ Defined(was) /\ Defined(a)
  /\ mem' = [mem EXCEPT ![i].attr = now]
  /\ emitted' = [emitted EXCEPT ![i - base.sym].attr = now]
  /\ UNCHANGED <<nsyms, strs, nstrs, base, hash, phase, nstaged, tr, relocs,
                 clashed, aim, broken>>

\* update_storage() alone: a later declaration, attribute or asm directive
\* changes binding and visibility of a symbol of the file.
UpdateStorage(i, a) ==
  LET was == mem[i].attr
      now == [was EXCEPT !.bind = a.bind,
                         !.vis = IF a.vis # Default THEN a.vis ELSE @]
  IN
  /\ phase = "compile"
  /\ i \in base.sym + 1 .. nsyms
  /\ mem[i].str # 0
  /\ mem' = [mem EXCEPT ![i].attr = now]
  /\ emitted' = [emitted EXCEPT ![i - base.sym].attr = now]
  /\ UNCHANGED <<nsyms, strs, nstrs, base, hash, phase, nstaged, tr, relocs,
                 clashed, aim, broken>>

\* put_elf_reloca(): code refers to a symbol of the file being compiled, or,
\* between files, the linker to any.
PutElfReloca(i) ==
  /\ Len(relocs) < MaxRelocs
  /\ \/ phase = "compile" /\ i \in base.sym + 1 .. nsyms
     \/ phase = "idle" /\ i \in 1 .. nsyms
  /\ relocs' = Append(relocs, i)
  /\ aim' = Append(aim, NameOf(i))
  /\ UNCHANGED <<mem, nsyms, strs, nstrs, base, hash, phase, nstaged, tr,
                 clashed, emitted, broken>>

\* tcc_compile() after an error: error1() has longjmp'ed past
\* tccelf_end_file().  The hash table stays detached, the file's symbols stay.
AbortFile ==
  /\ phase = "compile"
  /\ phase' = "idle"
  /\ broken' = IF broken = 0 THEN 1 + base.sym ELSE broken
  /\ emitted' = << >>
  /\ UNCHANGED <<mem, nsyms, strs, nstrs, base, hash, nstaged, tr, relocs,
                 clashed, aim>>

\* Seeded bug: the symbol section is rewound one symbol short.
EndFile_RewindShort ==
  /\ phase = "compile"
  /\ phase' = "merge"
  /\ nstaged' = nsyms - base.sym
  /\ nsyms' = IF nsyms > base.sym THEN base.sym + 1 ELSE base.sym
  /\ nstrs' = base.str
  /\ hash' = IF hash = "kept" THEN "on" ELSE "lost"
  /\ UNCHANGED <<mem, strs, base, tr, relocs, clashed, emitted, aim, broken>>

\* Seeded bug: the hash section is not attached again.
EndFile_NoHash ==
  /\ phase = "compile"
  /\ phase' = "merge"
  /\ nstaged' = nsyms - base.sym
  /\ nsyms' = base.sym
  /\ nstrs' = base.str
  /\ hash' = "lost"
  /\ UNCHANGED <<mem, strs, base, tr, relocs, clashed, emitted, aim, broken>>

\* tccelf_end_file() up to its loop.
EndFile ==
  /\ phase = "compile"
  /\ phase' = "merge"
  /\ nstaged' = nsyms - base.sym
  /\ nsyms' = base.sym
  /\ nstrs' = base.str
  /\ hash' = IF hash = "kept" THEN "on" ELSE "lost"
  /\ UNCHANGED <<mem, strs, base, tr, relocs, clashed, emitted, aim, broken>>

\* The symbol the loop of tccelf_end_file() is at, undefined locals promoted.
Staged(i) ==
  LET a == mem[i].attr IN
  IF ~ Defined(a) /\ a.bind = LOCALB THEN [a EXCEPT !.bind = GLOBAL] ELSE a

\* One round of that loop.  (The promotion is also written back to the cell
\* read, which set_elf_sym() may overwrite and nobody reads again.)
EndFileSym ==
  LET i == base.sym + Len(tr) + 1
      n == NameOf(i)
      a == Staged(i)
  IN
  /\ phase = "merge"
  /\ Len(tr) < nstaged
  /\ SetElfSym(n, a)
  /\ tr' = Append(tr, SetIndex(n, a))
  /\ UNCHANGED <<base, hash, phase, nstaged, relocs, emitted, aim, broken>>

\* Seeded bug: relocations against the file's first symbol are not renumbered.
UpdateRelocs_SkipFirst ==
  /\ phase = "merge"
  /\ Len(tr) = nstaged
  /\ phase' = "idle"
  /\ relocs' = [r \in 1 .. Len(relocs) |->
                  IF relocs[r] <= base.sym + 1 THEN relocs[r]
                  ELSE tr[relocs[r] - base.sym]]
  /\ nstaged' = 0 /\ tr' = << >>
  /\ emitted' = << >>
  /\ UNCHANGED <<mem, nsyms, strs, nstrs, base, hash, clashed, aim, broken>>

\* update_relocs(), and the end of tccelf_end_file().
UpdateRelocs ==
  /\ phase = "merge"
  /\ Len(tr) = nstaged
  /\ phase' = "idle"
  /\ relocs' = [r \in 1 .. Len(relocs) |->
                  IF relocs[r] <= base.sym THEN relocs[r]
                  ELSE tr[relocs[r] - base.sym]]
  /\ nstaged' = 0 /\ tr' = << >>
  /\ emitted' = << >>
  /\ UNCHANGED <<mem, nsyms, strs, nstrs, base, hash, clashed, aim, broken>>

\* set_global_sym(), pe_putimport(), tcc_load_object_file(): set_elf_sym()
\* between files.
LinkerSym(n, a) ==
  /\ phase = "idle"
  /\ a.bind = LOCALB => Defined(a)
  /\ SetElfSym(n, a)
  /\ UNCHANGED <<base, hash, phase, nstaged, tr, relocs, emitted, aim, broken>>

Next ==
  \/ BeginFile
  \/ \E n \in Name \cup {NoName}, a \in Decl : PutExternSym(n, a)
  \/ \E i \in Cell, a \in Decl : DefineSym(i, a) \/ UpdateStorage(i, a)
  \/ \E i \in Cell : PutElfReloca(i)
  \/ AbortFile
  \/ EndFile
  \/ EndFileSym
  \/ UpdateRelocs
  \/ \E n \in Name, a \in Decl : LinkerSym(n, a)

Spec == Init /\ [][Next]_vars
-----------------------------------------------------------------------------
\* The symbols the table has resolved: not those of the file being compiled,
\* and after an error none but those known when that file began.
Linked ==
  IF broken # 0 THEN broken - 1
  ELSE IF phase = "compile" THEN base.sym ELSE nsyms

\* No two linked symbols with a global binding have the same name, so that
\* references from different files meet at one symbol.  It takes the detached
\* hash, the rewind and the re-entry in tccelf_end_file to get there.
UniqueNames ==
  \A i, j \in 1 .. Linked :
    IsGlobal(i) /\ IsGlobal(j) /\ NameOf(i) = NameOf(j) => i = j

\* tccelf_end_file reads what the compiler wrote: re-entering the symbols read
\* so far has overwritten neither a symbol nor a string not read yet.
StagedIntact ==
  phase = "merge" =>
    \A k \in Len(tr) + 1 .. nstaged :
      /\ NameOf(base.sym + k) = emitted[k].name
      /\ mem[base.sym + k].attr = emitted[k].attr

\* A relocation always refers, directly or through tr while symbols move, to a
\* symbol of the name it was made for.
RelocAim ==
  \A r \in 1 .. Len(relocs) :
    LET i == relocs[r] IN
    IF phase = "merge" /\ i > base.sym
    THEN i - base.sym \in 1 .. Len(tr) => NameOf(tr[i - base.sym]) = aim[r]
    ELSE i <= nsyms /\ NameOf(i) = aim[r]

\* Files and linker together behave as symbols entered one by one into the
\* abstract table: compilation itself enters none, tccelf_end_file enters them
\* in order, an abandoned file enters none.
AbstractTable ==
  [n \in Name |->
     LET hits == {i \in 1 .. Linked : IsGlobal(i) /\ NameOf(i) = n} IN
     IF hits = {} THEN None
     ELSE mem[CHOOSE i \in hits : \A j \in hits : j <= i].attr]

Table == INSTANCE LinkTable
           WITH table <- AbstractTable, clashed <- clashed,
                Decl <- Attr
RefinesLinkTable == Table!Spec
=============================================================================
