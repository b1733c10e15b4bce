---------------------------- MODULE SymTabProofs ----------------------------
(***************************************************************************)
(* The symbol table in memory resolves names as promised, for any number   *)
(* of names, symbols, relocations and files: the inductive invariant       *)
(* behind UniqueNames, StagedIntact and RelocAim, and the proof that the   *)
(* table implements LinkTable.                                             *)
(***************************************************************************)
EXTENDS SymTab, SequenceTheorems, TLAPS

\* set_elf_sym's outcome is again a symbol, and a symbol, once known, is never
\* made local by entering another.
LEMMA MergeType ==
  ASSUME NEW old \in Attr, NEW new \in Attr
  PROVE  /\ Merge(old, new) \in Attr
         /\ old.bind # LOCALB /\ new.bind # LOCALB => Merge(old, new).bind # LOCALB
         /\ Merge(old, new).aset => old.aset \/ new.aset
         /\ Defined(Merge(old, new)) <=> Defined(old) \/ Defined(new)
<1> DEFINE seen == [old EXCEPT !.vis = MergeVis(old.vis, new.vis)]
<1>1. seen \in Attr
  BY DEF Attr, MergeVis, Default
<1>2. CASE old = new
  BY <1>2 DEF Merge
<1>3. CASE old # new /\ ~ Defined(old)
  BY <1>3 DEF Merge, Overrides, Contest
<1>4. CASE old # new /\ Defined(old) /\ Overrides(old, new)
  <2>1. Merge(old, new) = Patch(seen, new)
    BY <1>4 DEF Merge
  <2>2. Defined(new)
    BY <1>4 DEF Overrides, Contest
  <2> QED
    BY <1>1, <1>4, <2>1, <2>2 DEF Patch, Attr, Defined
<1>5. CASE old # new /\ Defined(old) /\ ~ Overrides(old, new)
  <2>1. Merge(old, new) = seen
    BY <1>5 DEF Merge
  <2> QED
    BY <1>1, <1>5, <2>1 DEF Attr, Defined
<1> QED
  BY <1>2, <1>3, <1>4, <1>5

\* What the variables may hold.  Memory no symbol was written to is NoDecl.
Types ==
  /\ mem \in [Cell -> [str : 0 .. MaxSyms, attr : Attr \cup {NoDecl}]]
  /\ strs \in [Cell -> Name \cup {NoName}]
  /\ nsyms \in 0 .. MaxSyms /\ nstrs \in 0 .. MaxSyms
  /\ base \in [sym : Nat, str : Nat]
  /\ hash \in Hash /\ phase \in Phase /\ clashed \in BOOLEAN
  /\ nstaged \in Nat /\ tr \in Seq(Nat)
  /\ relocs \in Seq(Nat \ {0}) /\ aim \in Seq(Name \cup {NoName})
  /\ Len(aim) = Len(relocs)
  /\ emitted \in Seq([name : Name \cup {NoName}, attr : Attr])

\* A cell that holds a symbol: its string is one, and only section and file
\* symbols, which are local and defined, have none.
IsSymbol(i) ==
  /\ mem[i].attr \in Attr
  /\ IF mem[i].str = 0 THEN mem[i].attr.bind = LOCALB /\ Defined(mem[i].attr)
     ELSE strs[mem[i].str] \in Name

\* The symbols of the table use strings of the table, those that were there
\* when the file began strings that were there too.
TableCells ==
  /\ base.sym <= nsyms /\ base.str <= nstrs
  /\ \A i \in 1 .. nsyms : IsSymbol(i) /\ mem[i].str <= nstrs
  /\ \A i \in 1 .. base.sym : mem[i].str <= base.str

\* The symbols of the file, by their place in it, that are not in the table.
Pending ==
  CASE phase = "idle" -> {}
    [] phase = "compile" -> 1 .. Len(emitted)
    [] phase = "merge" -> Len(tr) + 1 .. nstaged

\* Where the strings of pending symbols begin.
PendingStr == IF phase = "merge" THEN nstrs ELSE base.str

\* What the compiler wrote is what is read: cells and strings of the pending
\* symbols are as written, and their strings lie in the order of the symbols
\* at or past the place the next string is written to.
FileCells ==
  /\ \A k \in Pending :
       /\ base.sym + k \in Cell /\ k <= Len(emitted)
       /\ IsSymbol(base.sym + k)
       /\ NameOf(base.sym + k) = emitted[k].name
       /\ mem[base.sym + k].attr = emitted[k].attr
       /\ mem[base.sym + k].str # 0 => mem[base.sym + k].str > PendingStr
  /\ \A j, k \in Pending :
       j < k /\ mem[base.sym + j].str # 0 /\ mem[base.sym + k].str # 0
         => mem[base.sym + j].str < mem[base.sym + k].str

\* Where tccelf_end_file stands: the write cursor is at or behind the read
\* cursor, and tr leads to symbols of the names the file gave them.
Cursors ==
  /\ phase = "idle" => emitted = << >>
  /\ phase = "compile" => Len(emitted) = nsyms - base.sym
  /\ phase # "merge" => tr = << >>
  /\ phase = "merge" =>
       /\ nstaged = Len(emitted) /\ base.sym + nstaged <= MaxSyms
       /\ Len(tr) <= nstaged /\ nsyms <= base.sym + Len(tr)
       /\ \A k \in 1 .. Len(tr) :
            tr[k] \in 1 .. nsyms /\ NameOf(tr[k]) = emitted[k].name

\* The hash section hangs where the phase says, until a compilation ends in an
\* error: from then on no lookup finds anything.
HashPlace ==
  IF broken = 0 THEN hash = IF phase = "compile" THEN "kept" ELSE "on"
  ELSE /\ hash # "on" /\ (phase # "idle" => hash = "lost")
       /\ broken - 1 \in 0 .. base.sym

\* RelocAim, and what the relocations of the file will be aimed at.
RelocsAimed ==
  \A r \in 1 .. Len(relocs) :
    IF phase = "merge" /\ relocs[r] > base.sym
    THEN relocs[r] - base.sym \in 1 .. nstaged
         /\ emitted[relocs[r] - base.sym].name = aim[r]
    ELSE relocs[r] <= nsyms /\ NameOf(relocs[r]) = aim[r]

IInv ==
  /\ Types
  /\ TableCells
  /\ FileCells
  /\ Cursors
  /\ HashPlace
  /\ RelocsAimed
  /\ UniqueNames
-----------------------------------------------------------------------------
\* Before the first file the table is empty and the hash section attached.
LEMMA InitInv == Init => IInv
<1> SUFFICES ASSUME Init PROVE IInv
  OBVIOUS
<1>1. Types
  <2>1. mem \in [Cell -> [str : 0 .. MaxSyms, attr : Attr \cup {NoDecl}]]
    BY SymTabAssumption DEF Init
  <2>2. /\ strs \in [Cell -> Name \cup {NoName}]
        /\ base \in [sym : Nat, str : Nat]
        /\ nsyms \in 0 .. MaxSyms /\ nstrs \in 0 .. MaxSyms
    BY SymTabAssumption DEF Init
  <2>3. /\ tr = << >> /\ relocs = << >> /\ aim = << >> /\ emitted = << >>
        /\ hash \in Hash /\ phase \in Phase /\ clashed \in BOOLEAN
        /\ nstaged \in Nat
    BY DEF Init, Hash, Phase
  <2> QED
    BY <2>1, <2>2, <2>3 DEF Types
<1>2. TableCells /\ FileCells /\ Cursors /\ HashPlace /\ RelocsAimed /\ UniqueNames
  BY SymTabAssumption DEF Init, TableCells, FileCells, Cursors, HashPlace, RelocsAimed, UniqueNames, Pending, Linked
<1> QED
  BY <1>1, <1>2 DEF IInv

\* What follows from the invariant is what the runs check.
LEMMA InvImplies == IInv => UniqueNames /\ StagedIntact /\ RelocAim
<1> SUFFICES ASSUME IInv PROVE StagedIntact /\ RelocAim
  BY DEF IInv
<1>1. StagedIntact
  BY DEF IInv, StagedIntact, FileCells, Pending
<1>2. RelocAim
  <2> SUFFICES ASSUME NEW r \in 1 .. Len(relocs), phase = "merge", relocs[r] > base.sym,
                      relocs[r] - base.sym \in 1 .. Len(tr)
               PROVE  NameOf(tr[relocs[r] - base.sym]) = aim[r]
    BY DEF IInv, RelocsAimed, RelocAim
  <2> QED
    BY DEF IInv, RelocsAimed, Cursors
<1> QED
  BY <1>1, <1>2

\* put_elf_sym writes one cell behind the table and one string behind the
\* strings, and nothing before them changes.
LEMMA PutEffect ==
  ASSUME IInv, NEW n \in Name \cup {NoName}, NEW a \in Attr, PutElfSym(n, a),
         n = NoName => a.bind = LOCALB /\ Defined(a)
  PROVE  /\ nsyms' = nsyms + 1 /\ nsyms' \in 0 .. MaxSyms
         /\ nstrs' \in 0 .. MaxSyms
         /\ mem' \in [Cell -> [str : 0 .. MaxSyms, attr : Attr \cup {NoDecl}]]
         /\ strs' \in [Cell -> Name \cup {NoName}]
         /\ mem'[nsyms + 1].attr = a
         /\ IF n = NoName THEN mem'[nsyms + 1].str = 0 /\ nstrs' = nstrs /\ strs' = strs
            ELSE /\ nstrs' = nstrs + 1 /\ mem'[nsyms + 1].str = nstrs + 1
                 /\ strs'[nstrs + 1] = n
         /\ \A i \in Cell : i # nsyms + 1 => mem'[i] = mem[i]
         /\ \A i \in Cell : i # nstrs + 1 => strs'[i] = strs[i]
<1>0. /\ nsyms \in 0 .. MaxSyms /\ nstrs \in 0 .. MaxSyms /\ MaxSyms \in Nat
      /\ mem \in [Cell -> [str : 0 .. MaxSyms, attr : Attr \cup {NoDecl}]]
      /\ strs \in [Cell -> Name \cup {NoName}]
  BY SymTabAssumption DEF IInv, Types
<1>1. nsyms < MaxSyms /\ nsyms + 1 \in Cell /\ nsyms' = nsyms + 1
  BY <1>0 DEF PutElfSym, Cell
<1>2. CASE n = NoName
  <2>1. /\ mem' = [mem EXCEPT ![nsyms + 1] = [str |-> 0, attr |-> a]]
        /\ strs' = strs /\ nstrs' = nstrs
    BY <1>2 DEF PutElfSym
  <2>2. [str |-> 0, attr |-> a] \in [str : 0 .. MaxSyms, attr : Attr \cup {NoDecl}]
    BY <1>0
  <2> QED
    BY <1>0, <1>1, <1>2, <2>1, <2>2
<1>3. CASE n # NoName
  <2> DEFINE cell == [str |-> nstrs + 1, attr |-> a]
  <2>1. /\ mem' = [mem EXCEPT ![nsyms + 1] = cell]
        /\ strs' = [strs EXCEPT ![nstrs + 1] = n] /\ nstrs' = nstrs + 1
        /\ nstrs + 1 \in Cell
    BY <1>0, <1>3 DEF PutElfSym, Cell
  <2>2. cell \in [str : 0 .. MaxSyms, attr : Attr \cup {NoDecl}]
    BY <1>0, <2>1 DEF Cell
  <2>3. mem'[nsyms + 1] = cell /\ cell.str = nstrs + 1 /\ cell.attr = a
    BY <1>0, <1>1, <2>1
  <2> HIDE DEF cell
  <2> QED
    BY <1>0, <1>1, <1>3, <2>1, <2>2, <2>3 DEF Cell
<1> QED
  BY <1>2, <1>3

\* A symbol found in the table is a global one of that name; without one, or
\* without a hash section, nothing is found.
LEMMA FindEffect ==
  ASSUME IInv, NEW n
  PROVE  /\ Find(n) # 0 =>
              Find(n) \in 1 .. nsyms /\ IsGlobal(Find(n)) /\ NameOf(Find(n)) = n
         /\ Find(n) = 0 /\ hash = "on" =>
              \A i \in 1 .. nsyms : IsGlobal(i) => NameOf(i) # n
         /\ hash # "on" => Find(n) = 0
<1> DEFINE hits == {i \in 1 .. nsyms : IsGlobal(i) /\ NameOf(i) = n}
<1>1. CASE hash # "on" \/ hits = {}
  BY <1>1 DEF Find
<1>2. CASE hash = "on" /\ hits # {}
  <2>1. PICK i \in hits : TRUE
    BY <1>2
  <2>2. Linked = nsyms
    BY <1>2 DEF IInv, HashPlace, Linked
  <2>3. hits = {i}
    BY <2>1, <2>2 DEF IInv, UniqueNames
  <2>4. (CHOOSE h \in hits : \A j \in hits : j <= h) = i
    BY <2>3 DEF IInv, Types
  <2>5. Find(n) = i
    BY <1>2, <2>4 DEF Find
  <2>6. nsyms \in Nat
    BY DEF IInv, Types
  <2> QED
    BY <1>2, <2>1, <2>5, <2>6
<1> QED
  BY <1>1, <1>2

\* What put_elf_sym and set_elf_sym have in common: no symbol of the table
\* changes its name, its string or whether it is local, at most one symbol and
\* one string are added, behind the others, and nothing further on is touched.
Grows(n, a) ==
  /\ mem' \in [Cell -> [str : 0 .. MaxSyms, attr : Attr \cup {NoDecl}]]
  /\ strs' \in [Cell -> Name \cup {NoName}]
  /\ nsyms' \in {nsyms, nsyms + 1} /\ nsyms' <= MaxSyms
  /\ nstrs' \in {nstrs, nstrs + 1} /\ nstrs' <= MaxSyms
  /\ n = NoName \/ nsyms' = nsyms => nstrs' = nstrs
  /\ \A i \in Cell : i > nsyms + 1 => mem'[i] = mem[i]
  /\ \A i \in Cell : i <= nstrs \/ i > nstrs' => strs'[i] = strs[i]
  /\ \A i \in 1 .. nsyms :
       /\ mem'[i].str = mem[i].str /\ mem'[i].attr \in Attr
       /\ IF IsGlobal(i) THEN mem'[i].attr.bind # LOCALB ELSE mem'[i] = mem[i]
  /\ nsyms' = nsyms + 1 =>
       /\ mem'[nsyms'].attr = a
       /\ IF n = NoName THEN mem'[nsyms'].str = 0
          ELSE mem'[nsyms'].str = nstrs' /\ nstrs' = nstrs + 1 /\ strs'[nstrs'] = n

\* put_elf_sym is of that kind.
LEMMA PutGrows ==
  ASSUME IInv, NEW n \in Name \cup {NoName}, NEW a \in Attr, PutElfSym(n, a),
         n = NoName => a.bind = LOCALB /\ Defined(a)
  PROVE  Grows(n, a) /\ nsyms' = nsyms + 1
<1>1. nsyms \in 0 .. MaxSyms /\ nstrs \in 0 .. MaxSyms /\ MaxSyms \in Nat
  BY SymTabAssumption DEF IInv, Types
<1>2. \A i \in 1 .. nsyms : mem[i].attr \in Attr
  BY DEF IInv, TableCells, IsSymbol
<1>3. /\ nsyms' = nsyms + 1 /\ nsyms' \in 0 .. MaxSyms /\ nstrs' \in 0 .. MaxSyms
      /\ mem' \in [Cell -> [str : 0 .. MaxSyms, attr : Attr \cup {NoDecl}]]
      /\ strs' \in [Cell -> Name \cup {NoName}]
      /\ mem'[nsyms + 1].attr = a
      /\ IF n = NoName THEN mem'[nsyms + 1].str = 0 /\ nstrs' = nstrs /\ strs' = strs
         ELSE /\ nstrs' = nstrs + 1 /\ mem'[nsyms + 1].str = nstrs + 1
              /\ strs'[nstrs + 1] = n
      /\ \A i \in Cell : i # nsyms + 1 => mem'[i] = mem[i]
      /\ \A i \in Cell : i # nstrs + 1 => strs'[i] = strs[i]
  BY PutEffect
<1>4. \A i \in 1 .. nsyms : mem'[i] = mem[i]
  BY <1>1, <1>3 DEF Cell
<1>5. \A i \in Cell : i <= nstrs \/ i > nstrs' => strs'[i] = strs[i]
  BY <1>1, <1>3 DEF Cell
<1>6. \A i \in 1 .. nsyms :
       /\ mem'[i].str = mem[i].str /\ mem'[i].attr \in Attr
       /\ IF IsGlobal(i) THEN mem'[i].attr.bind # LOCALB ELSE mem'[i] = mem[i]
  BY <1>2, <1>4 DEF IsGlobal
<1> QED
  BY <1>1, <1>3, <1>5, <1>6 DEF Grows, Cell

\* So is set_elf_sym; the index it returns is that of a symbol of that name,
\* and with a hash section attached global names stay unique.
LEMMA SetGrows ==
  ASSUME IInv, NEW n \in Name \cup {NoName}, NEW a \in Attr, SetElfSym(n, a),
         n = NoName => a.bind = LOCALB /\ Defined(a)
  PROVE  /\ Grows(n, a)
         /\ SetIndex(n, a) \in 1 .. nsyms'
         /\ IF SetIndex(n, a) <= nsyms
            THEN /\ NameOf(SetIndex(n, a)) = n /\ IsGlobal(SetIndex(n, a))
                 /\ nsyms' = nsyms
            ELSE /\ nsyms' = nsyms + 1
                 /\ a.bind # LOCALB /\ hash = "on" =>
                      \A i \in 1 .. nsyms : IsGlobal(i) => NameOf(i) # n
         /\ clashed' \in BOOLEAN
<1>1. nsyms \in 0 .. MaxSyms /\ nstrs \in 0 .. MaxSyms /\ MaxSyms \in Nat
  BY SymTabAssumption DEF IInv, Types
<1>2. \A i \in 1 .. nsyms : mem[i].attr \in Attr
  BY DEF IInv, TableCells, IsSymbol
<1>3. clashed' \in BOOLEAN
  BY DEF SetElfSym, Clash, Contest, IInv, Types
<1>4. CASE a.bind # LOCALB /\ Find(n) # 0
  <2> DEFINE f == Find(n)
  <2>1. f \in 1 .. nsyms /\ IsGlobal(f) /\ NameOf(f) = n
    BY <1>4, FindEffect
  <2>2. /\ mem' = [mem EXCEPT ![f].attr = Merge(mem[f].attr, a)]
        /\ nsyms' = nsyms /\ strs' = strs /\ nstrs' = nstrs
    BY <1>4 DEF SetElfSym
  <2>3. SetIndex(n, a) = f
    BY <1>4 DEF SetIndex
  <2> HIDE DEF f
  <2>4. Merge(mem[f].attr, a) \in Attr /\ Merge(mem[f].attr, a).bind # LOCALB
    BY <1>2, <1>4, <2>1, MergeType DEF IsGlobal
  <2>5. mem' \in [Cell -> [str : 0 .. MaxSyms, attr : Attr \cup {NoDecl}]]
    BY <2>2, <2>4 DEF IInv, Types
  <2>6. \A i \in Cell : /\ i # f => mem'[i] = mem[i]
                        /\ i = f => mem'[i].str = mem[i].str
                                    /\ mem'[i].attr = Merge(mem[i].attr, a)
    BY <2>2 DEF IInv, Types
  <2>7. Grows(n, a)
    <3>1. \A i \in Cell : i > nsyms + 1 => mem'[i] = mem[i]
      BY <1>1, <2>1, <2>6 DEF Cell
    <3>2. \A i \in 1 .. nsyms :
            /\ mem'[i].str = mem[i].str /\ mem'[i].attr \in Attr
            /\ IF IsGlobal(i) THEN mem'[i].attr.bind # LOCALB ELSE mem'[i] = mem[i]
      BY <1>1, <1>2, <2>1, <2>4, <2>6 DEF Cell, IsGlobal
    <3>3. strs' \in [Cell -> Name \cup {NoName}]
      BY <2>2 DEF IInv, Types
    <3> QED
      BY <1>1, <2>2, <2>5, <3>1, <3>2, <3>3 DEF Grows
  <2> QED
    BY <1>1, <1>3, <2>1, <2>2, <2>3, <2>7
<1>5. CASE ~ (a.bind # LOCALB /\ Find(n) # 0)
  <2>1. PutElfSym(n, a)
    BY <1>5 DEF SetElfSym
  <2>2. SetIndex(n, a) = nsyms + 1
    BY <1>5 DEF SetIndex
  <2>3. a.bind # LOCALB /\ hash = "on" => \A i \in 1 .. nsyms : IsGlobal(i) => NameOf(i) # n
    BY <1>5, FindEffect
  <2> QED
    <3>1. Grows(n, a) /\ nsyms' = nsyms + 1
      BY <2>1, PutGrows
    <3>2. SetIndex(n, a) \in 1 .. nsyms' /\ ~ SetIndex(n, a) <= nsyms
      BY <1>1, <2>2, <3>1
    <3> QED
      BY <1>3, <2>3, <3>1, <3>2
<1> QED
  BY <1>4, <1>5

\* A growing table stays one of symbols with their strings, and no symbol in it
\* changes its name.
LEMMA GrowsTable ==
  ASSUME IInv, NEW n \in Name \cup {NoName}, NEW a \in Attr, Grows(n, a), base' = base,
         n = NoName => a.bind = LOCALB /\ Defined(a)
  PROVE  /\ TableCells'
         /\ \A i \in 1 .. nsyms : NameOf(i)' = NameOf(i)
         /\ \A i \in 1 .. nsyms' : i > nsyms => NameOf(i)' = n
<1>1. /\ nsyms \in 0 .. MaxSyms /\ nstrs \in 0 .. MaxSyms /\ MaxSyms \in Nat
      /\ base.sym \in Nat /\ base.str \in Nat /\ base.sym <= nsyms /\ base.str <= nstrs
      /\ mem \in [Cell -> [str : 0 .. MaxSyms, attr : Attr \cup {NoDecl}]]
  BY SymTabAssumption DEF IInv, Types, TableCells
<1>2. \A i \in 1 .. nsyms : IsSymbol(i) /\ mem[i].str \in 0 .. nstrs /\ i \in Cell
  BY <1>1 DEF IInv, TableCells, Cell
<1>3. ASSUME NEW i \in 1 .. nsyms
      PROVE  IsSymbol(i)' /\ mem'[i].str <= nstrs' /\ NameOf(i)' = NameOf(i)
  <2>1. mem'[i].str = mem[i].str /\ mem'[i].attr \in Attr
    BY DEF Grows
  <2>2. mem[i].str # 0 => strs'[mem[i].str] = strs[mem[i].str]
    BY <1>1, <1>2 DEF Grows, Cell
  <2>3. mem[i].str = 0 => mem'[i].attr.bind = LOCALB /\ Defined(mem'[i].attr)
    BY <1>2 DEF Grows, IsSymbol, IsGlobal
  <2>4. nstrs <= nstrs'
    BY <1>1 DEF Grows
  <2>5. mem[i].str # 0 => strs[mem[i].str] \in Name
    BY <1>2 DEF IsSymbol
  <2> QED
    <3>1. mem'[i].str <= nstrs'
      BY <1>1, <1>2, <2>1, <2>4 DEF Grows
    <3>2. NameOf(i)' = NameOf(i)
      BY <2>1, <2>2 DEF NameOf
    <3>3. IsSymbol(i)'
      BY <2>1, <2>2, <2>3, <2>5 DEF IsSymbol
    <3> QED
      BY <3>1, <3>2, <3>3
<1>4. ASSUME NEW i \in 1 .. nsyms', i > nsyms
      PROVE  IsSymbol(i)' /\ mem'[i].str <= nstrs' /\ NameOf(i)' = n
  <2>1. i = nsyms' /\ nsyms' = nsyms + 1
    BY <1>1, <1>4 DEF Grows
  <2>2. nstrs' \in 0 .. MaxSyms
    BY <1>1 DEF Grows
  <2> QED
    BY <1>1, <2>1, <2>2, SymTabAssumption DEF Grows, IsSymbol, NameOf
<1>5. nsyms' \in 0 .. MaxSyms /\ nsyms <= nsyms' /\ nstrs <= nstrs' /\ nstrs' \in 0 .. MaxSyms
  BY <1>1 DEF Grows
<1>6. \A i \in 1 .. base.sym : mem'[i].str <= base.str
  BY <1>1 DEF Grows, IInv, TableCells
<1> QED
  BY <1>1, <1>3, <1>4, <1>5, <1>6 DEF TableCells
-----------------------------------------------------------------------------
\* tccelf_begin_file: what is in the table now is what was there when the file
\* began, and the file has no symbols yet.
LEMMA BeginFileInv == IInv /\ BeginFile => IInv'
<1> SUFFICES ASSUME IInv, BeginFile PROVE IInv'
  OBVIOUS
<1> USE DEF BeginFile
<1>1. Types'
  BY DEF IInv, Types, Cell, Phase, Hash
<1>2. TableCells'
  BY DEF IInv, Types, TableCells, IsSymbol
<1>3. FileCells' /\ Cursors'
  BY DEF IInv, Types, FileCells, Cursors, Pending
<1>4. HashPlace'
  BY DEF IInv, Types, TableCells, HashPlace, Hash
<1>5. RelocsAimed'
  BY DEF IInv, Types, RelocsAimed, NameOf
<1>6. UniqueNames'
  BY DEF IInv, Types, UniqueNames, Linked, NameOf, IsGlobal
<1> QED
  BY <1>1, <1>2, <1>3, <1>4, <1>5, <1>6 DEF IInv

\* An error: the symbols of the file stay, as symbols nothing finds.
LEMMA AbortFileInv == IInv /\ AbortFile => IInv'
<1> SUFFICES ASSUME IInv, AbortFile PROVE IInv'
  OBVIOUS
<1> USE DEF AbortFile
<1>1. Types'
  BY DEF IInv, Types, Cell, Phase, Hash
<1>2. TableCells'
  BY DEF IInv, Types, TableCells, IsSymbol
<1>3. FileCells' /\ Cursors'
  BY DEF IInv, Types, FileCells, Cursors, Pending
<1>4. HashPlace'
  BY DEF IInv, Types, TableCells, HashPlace, Hash
<1>5. RelocsAimed'
  BY DEF IInv, Types, RelocsAimed, NameOf
<1>6. UniqueNames'
  BY DEF IInv, Types, HashPlace, UniqueNames, Linked, NameOf, IsGlobal
<1> QED
  BY <1>1, <1>2, <1>3, <1>4, <1>5, <1>6 DEF IInv

\* tccelf_end_file rewinds both sections: the symbols of the file become
\* pending, and no symbol that stays in the table loses its string.
LEMMA EndFileInv == IInv /\ EndFile => IInv'
<1> SUFFICES ASSUME IInv, EndFile PROVE IInv'
  OBVIOUS
<1> USE DEF EndFile
<1>0. /\ nsyms \in 0 .. MaxSyms /\ base.sym \in 0 .. nsyms /\ MaxSyms \in Nat
      /\ nstrs \in 0 .. MaxSyms /\ base.str \in 0 .. nstrs
      /\ Len(emitted) = nsyms - base.sym /\ tr = << >>
  BY SymTabAssumption DEF IInv, Types, TableCells, Cursors
<1>1. Types'
  BY <1>0 DEF IInv, Types, Cell, Phase, Hash
<1>2. TableCells'
  BY <1>0 DEF IInv, Types, TableCells, IsSymbol
<1>3. FileCells'
  <2>1. Pending' = Pending
    BY <1>0 DEF Pending
  <2>2. PendingStr' = PendingStr
    BY <1>0 DEF PendingStr
  <2> QED
    BY <2>1, <2>2 DEF IInv, FileCells, IsSymbol, NameOf, Cell
<1>4. Cursors'
  BY <1>0 DEF IInv, Cursors
<1>5. HashPlace'
  BY DEF IInv, Types, TableCells, HashPlace, Hash
<1>6. RelocsAimed'
  <2> SUFFICES ASSUME NEW r \in 1 .. Len(relocs)
               PROVE  IF relocs[r] > base.sym
                      THEN relocs[r] - base.sym \in 1 .. nstaged'
                           /\ emitted[relocs[r] - base.sym].name = aim[r]
                      ELSE relocs[r] <= nsyms' /\ NameOf(relocs[r]) = aim[r]
    BY DEF RelocsAimed, NameOf
  <2>1. relocs[r] \in Nat \ {0} /\ relocs[r] <= nsyms /\ NameOf(relocs[r]) = aim[r]
    BY DEF IInv, Types, RelocsAimed
  <2>2. CASE relocs[r] > base.sym
    <3> DEFINE k == relocs[r] - base.sym
    <3>1. k \in 1 .. Len(emitted) /\ base.sym + k = relocs[r]
      BY <1>0, <2>1, <2>2
    <3>2. NameOf(base.sym + k) = emitted[k].name
      BY <3>1 DEF IInv, FileCells, Pending
    <3> QED
      BY <1>0, <2>1, <2>2, <3>1, <3>2
  <2>3. CASE ~ relocs[r] > base.sym
    BY <1>0, <2>1, <2>3
  <2> QED
    BY <2>2, <2>3
<1>7. UniqueNames'
  BY <1>0 DEF IInv, Types, UniqueNames, Linked, NameOf, IsGlobal
<1> QED
  BY <1>1, <1>2, <1>3, <1>4, <1>5, <1>6, <1>7 DEF IInv

\* update_relocs: every relocation of the file goes through tr to a symbol of
\* the name it was made for.
LEMMA UpdateRelocsInv == IInv /\ UpdateRelocs => IInv'
<1> SUFFICES ASSUME IInv, UpdateRelocs PROVE IInv'
  OBVIOUS
<1> USE DEF UpdateRelocs
<1>0. /\ nsyms \in 0 .. MaxSyms /\ base.sym \in 0 .. nsyms /\ MaxSyms \in Nat
      /\ Len(tr) = nstaged /\ Len(relocs) \in Nat
      /\ relocs \in Seq(Nat \ {0}) /\ tr \in Seq(Nat)
  BY SymTabAssumption DEF IInv, Types, TableCells, Cursors
<1>1. ASSUME NEW r \in 1 .. Len(relocs)
      PROVE  /\ relocs'[r] \in Nat \ {0} /\ relocs'[r] <= nsyms
             /\ NameOf(relocs'[r]) = aim[r]
  <2>1. relocs[r] \in Nat \ {0}
    BY <1>0
  <2>2. CASE relocs[r] <= base.sym
    <3>1. relocs'[r] = relocs[r]
      BY <2>2
    <3>2. ~ relocs[r] > base.sym
      BY <1>0, <2>1, <2>2
    <3> QED
      BY <2>1, <3>1, <3>2 DEF IInv, RelocsAimed
  <2>3. CASE ~ relocs[r] <= base.sym
    <3> DEFINE k == relocs[r] - base.sym
    <3>1. relocs'[r] = tr[k] /\ relocs[r] > base.sym
      BY <1>0, <2>1, <2>3
    <3>2. k \in 1 .. Len(tr) /\ emitted[k].name = aim[r]
      BY <1>0, <3>1 DEF IInv, RelocsAimed
    <3>3. tr[k] \in 1 .. nsyms /\ NameOf(tr[k]) = emitted[k].name
      BY <3>2 DEF IInv, Cursors
    <3> QED
      BY <1>0, <3>1, <3>2, <3>3
  <2> QED
    BY <2>2, <2>3
<1>2. relocs' \in Seq(Nat \ {0}) /\ Len(relocs') = Len(relocs)
  <2>1. relocs' \in [1 .. Len(relocs) -> Nat \ {0}]
    BY <1>1
  <2>2. relocs' \in Seq(Nat \ {0})
    BY <1>0, <2>1, SeqDef
  <2>3. 1 .. Len(relocs') = 1 .. Len(relocs)
    BY <2>1, <2>2, LenProperties
  <2> QED
    BY <1>0, <2>2, <2>3, LenProperties
<1>3. Types'
  BY <1>2 DEF IInv, Types, Cell, Phase, Hash
<1>4. TableCells'
  BY DEF IInv, Types, TableCells, IsSymbol
<1>5. FileCells' /\ Cursors'
  BY DEF FileCells, Cursors, Pending
<1>6. HashPlace'
  BY DEF IInv, Types, TableCells, HashPlace, Hash
<1>7. RelocsAimed'
  BY <1>1, <1>2 DEF RelocsAimed, NameOf
<1>8. UniqueNames'
  BY DEF IInv, Types, UniqueNames, Linked, NameOf, IsGlobal
<1> QED
  BY <1>3, <1>4, <1>5, <1>6, <1>7, <1>8 DEF IInv

\* put_elf_reloca: the symbol referred to is one of the table.
LEMMA PutElfRelocaInv ==
  ASSUME IInv, NEW i \in Cell, PutElfReloca(i)
  PROVE  IInv'
<1> USE DEF PutElfReloca
<1>0. i \in Nat \ {0} /\ i <= nsyms /\ phase # "merge"
  BY DEF IInv, Types, Cell
<1>1. NameOf(i) \in Name \cup {NoName}
  BY <1>0 DEF IInv, Types, TableCells, IsSymbol, NameOf
<1>2. Types'
  BY <1>0, <1>1 DEF IInv, Types, Cell
<1>3. TableCells' /\ Cursors' /\ HashPlace'
  BY <1>0 DEF IInv, TableCells, IsSymbol, Cursors, HashPlace
<1>4. FileCells'
  BY DEF IInv, FileCells, IsSymbol, NameOf, Pending, PendingStr, Cell
<1>5. RelocsAimed'
  BY <1>0 DEF IInv, Types, RelocsAimed, NameOf
<1>6. UniqueNames'
  BY DEF IInv, UniqueNames, Linked, NameOf, IsGlobal
<1> QED
  BY <1>2, <1>3, <1>4, <1>5, <1>6 DEF IInv

\* Rewriting the attributes of a named symbol of the file being compiled, which
\* is what defining it and redeclaring it come to, changes no name.
LEMMA RewriteInv ==
  ASSUME IInv, phase = "compile", NEW i \in base.sym + 1 .. nsyms, mem[i].str # 0,
         NEW now \in Attr,
         mem' = [mem EXCEPT ![i].attr = now],
         emitted' = [emitted EXCEPT ![i - base.sym].attr = now],
         UNCHANGED <<nsyms, strs, nstrs, base, hash, phase, nstaged, tr, relocs,
                     clashed, aim, broken>>
  PROVE  IInv'
<1>0. /\ nsyms \in 0 .. MaxSyms /\ base.sym \in 0 .. nsyms /\ MaxSyms \in Nat
      /\ Len(emitted) = nsyms - base.sym /\ i \in Cell
      /\ i - base.sym \in 1 .. Len(emitted)
      /\ mem \in [Cell -> [str : 0 .. MaxSyms, attr : Attr \cup {NoDecl}]]
      /\ emitted \in Seq([name : Name \cup {NoName}, attr : Attr])
  BY SymTabAssumption DEF IInv, Types, TableCells, Cursors, Cell
<1>1. /\ mem' \in [Cell -> [str : 0 .. MaxSyms, attr : Attr \cup {NoDecl}]]
      /\ \A j \in Cell : mem'[j].str = mem[j].str
      /\ \A j \in Cell : j # i => mem'[j] = mem[j]
      /\ mem'[i].attr = now
  BY <1>0
<1>2. /\ emitted' \in Seq([name : Name \cup {NoName}, attr : Attr])
      /\ Len(emitted') = Len(emitted)
      /\ \A k \in 1 .. Len(emitted) :
           /\ emitted'[k].name = emitted[k].name
           /\ emitted'[k].attr = IF k = i - base.sym THEN now ELSE emitted[k].attr
  <2> DEFINE Rec == [name : Name \cup {NoName}, attr : Attr]
             k0 == i - base.sym
             e0 == [emitted[k0] EXCEPT !.attr = now]
             t == emitted'
  <2>1. emitted \in Seq(Rec) /\ k0 \in 1 .. Len(emitted)
    BY <1>0
  <2>2. e0 \in Rec /\ e0.name = emitted[k0].name /\ e0.attr = now
    <3> HIDE DEF k0, Rec
    <3>1. emitted[k0] \in Rec
      BY <2>1, ElementOfSeq
    <3> QED
      BY <3>1 DEF Rec
  <2>3. t = [emitted EXCEPT ![k0] = e0]
    OBVIOUS
  <2> HIDE DEF Rec, k0, e0, t
  <2>4. /\ t \in Seq(Rec) /\ Len(t) = Len(emitted)
        /\ \A k \in 1 .. Len(emitted) : t[k] = IF k = k0 THEN e0 ELSE emitted[k]
    BY <2>1, <2>2, <2>3, ExceptSeq
  <2>5. \A k \in 1 .. Len(emitted) :
          t[k].name = emitted[k].name /\ t[k].attr = IF k = k0 THEN now ELSE emitted[k].attr
    BY <2>2, <2>4
  <2> QED
    BY <2>4, <2>5 DEF Rec, k0, t
<1>3. Types'
  BY <1>1, <1>2 DEF IInv, Types, Cell
<1>4. \A j \in Cell : NameOf(j)' = NameOf(j) /\ (IsSymbol(j) => IsSymbol(j)')
  BY <1>1 DEF NameOf, IsSymbol
<1>5. TableCells'
  BY <1>0, <1>1, <1>4 DEF IInv, TableCells, Cell
<1>6. FileCells'
  <2>1. Pending' = Pending /\ Pending = 1 .. Len(emitted) /\ PendingStr' = PendingStr
    BY <1>0, <1>2 DEF Pending, PendingStr
  <2> SUFFICES ASSUME NEW k \in Pending
               PROVE  /\ k <= Len(emitted')
                      /\ IsSymbol(base.sym + k)'
                      /\ NameOf(base.sym + k)' = emitted'[k].name
                      /\ mem'[base.sym + k].attr = emitted'[k].attr
    BY <1>1, <2>1 DEF IInv, FileCells, Cell
  <2>2. /\ base.sym + k \in Cell /\ k \in 1 .. Len(emitted) /\ IsSymbol(base.sym + k)
        /\ NameOf(base.sym + k) = emitted[k].name
        /\ mem[base.sym + k].attr = emitted[k].attr
    BY <2>1 DEF IInv, FileCells
  <2>3. IsSymbol(base.sym + k)' /\ NameOf(base.sym + k)' = NameOf(base.sym + k)
    <3> DEFINE c == base.sym + k
    <3>1. mem'[c].str = mem[c].str
      BY <1>1, <2>2
    <3>2. c = i \/ mem'[c] = mem[c]
      BY <1>1, <2>2
    <3> QED
      BY <1>1, <2>2, <3>1, <3>2 DEF IsSymbol, NameOf
  <2>4. mem'[base.sym + k].attr = emitted'[k].attr
    <3>1. base.sym \in Int /\ i \in Int /\ k \in Int
      BY <1>0, <2>2
    <3>2. CASE k = i - base.sym
      BY <1>1, <1>2, <2>2, <3>1, <3>2
    <3>3. CASE k # i - base.sym
      <4>1. base.sym + k # i
        BY <3>1, <3>3
      <4> QED
        BY <1>1, <1>2, <2>2, <3>3, <4>1
    <3> QED
      BY <3>2, <3>3
  <2> QED
    BY <1>2, <2>2, <2>3, <2>4
<1>7. Cursors' /\ HashPlace'
  BY <1>2 DEF IInv, Cursors, HashPlace
<1>8. RelocsAimed'
  <2> SUFFICES ASSUME NEW r \in 1 .. Len(relocs)
               PROVE  relocs[r] <= nsyms /\ NameOf(relocs[r])' = aim[r]
    BY DEF RelocsAimed
  <2>1. relocs[r] \in Nat \ {0} /\ relocs[r] <= nsyms /\ NameOf(relocs[r]) = aim[r]
    BY DEF IInv, Types, RelocsAimed
  <2>2. relocs[r] \in Cell
    BY SMTT(30), <1>0, <2>1 DEF Cell
  <2> QED
    BY <1>1, <2>1, <2>2 DEF NameOf
<1>9. UniqueNames'
  <2>1. Linked' = Linked /\ Linked \in 0 .. base.sym
    BY <1>0 DEF Linked, IInv, HashPlace
  <2>2. \A j \in 1 .. Linked : IsGlobal(j)' = IsGlobal(j) /\ NameOf(j)' = NameOf(j)
    <3> TAKE j \in 1 .. Linked
    <3>1. j \in Cell /\ j # i
      BY SMTT(30), <1>0, <2>1 DEF Cell
    <3> QED
      BY <1>1, <1>4, <3>1 DEF IsGlobal
  <2> QED
    BY <2>1, <2>2 DEF IInv, UniqueNames
<1> QED
  BY <1>3, <1>5, <1>6, <1>7, <1>8, <1>9 DEF IInv

\* put_extern_sym2 for a symbol the file referred to before.
LEMMA DefineSymInv ==
  ASSUME IInv, NEW i \in Cell, NEW a \in Decl, DefineSym(i, a)
  PROVE  IInv'
<1> DEFINE now == [mem[i].attr EXCEPT !.shndx = a.shndx, !.val = a.val, !.bind = a.bind,
                     !.vis = IF a.vis # Default THEN a.vis ELSE @]
<1>1. a \in Attr /\ mem[i].attr \in Attr
  BY SymTabAssumption DEF DefineSym, IInv, Types, TableCells, IsSymbol
<1>2. now \in Attr
  BY <1>1 DEF Attr
<1> QED
  BY <1>2, RewriteInv DEF DefineSym

\* update_storage for a symbol of the file.
LEMMA UpdateStorageInv ==
  ASSUME IInv, NEW i \in Cell, NEW a \in Decl, UpdateStorage(i, a)
  PROVE  IInv'
<1> DEFINE now == [mem[i].attr EXCEPT !.bind = a.bind,
                     !.vis = IF a.vis # Default THEN a.vis ELSE @]
<1>1. a \in Attr /\ mem[i].attr \in Attr
  BY SymTabAssumption DEF UpdateStorage, IInv, Types, TableCells, IsSymbol
<1>2. now \in Attr
  BY <1>1 DEF Attr
<1> QED
  BY <1>2, RewriteInv DEF UpdateStorage

\* put_extern_sym2 for a new symbol: it is pending, behind the others.
LEMMA PutExternSymInv ==
  ASSUME IInv, NEW n \in Name \cup {NoName}, NEW a \in Decl, PutExternSym(n, a)
  PROVE  IInv'
<1>0. /\ nsyms \in 0 .. MaxSyms /\ nstrs \in 0 .. MaxSyms /\ MaxSyms \in Nat
      /\ base.sym \in 0 .. nsyms /\ base.str \in 0 .. nstrs
      /\ Len(emitted) = nsyms - base.sym /\ phase = "compile"
      /\ emitted \in Seq([name : Name \cup {NoName}, attr : Attr])
  BY SymTabAssumption DEF PutExternSym, IInv, Types, TableCells, Cursors
<1>1. a \in Attr /\ (n = NoName => a.bind = LOCALB /\ Defined(a))
  BY SymTabAssumption DEF PutExternSym
<1>2. Grows(n, a) /\ nsyms' = nsyms + 1 /\ UNCHANGED <<base, hash, phase, nstaged, tr,
         relocs, clashed, aim, broken>>
  BY <1>1, PutGrows DEF PutExternSym
<1>3. /\ TableCells'
      /\ \A i \in 1 .. nsyms : NameOf(i)' = NameOf(i)
      /\ \A i \in 1 .. nsyms' : i > nsyms => NameOf(i)' = n
  BY <1>1, <1>2, GrowsTable
<1>4. /\ \A i \in 1 .. nsyms : mem'[i] = mem[i]
      /\ mem'[nsyms + 1].attr = a
      /\ mem'[nsyms + 1].str # 0 => mem'[nsyms + 1].str = nstrs + 1
      /\ nsyms' <= MaxSyms
  <2>1. PutElfSym(n, a)
    BY DEF PutExternSym
  <2> QED
    <3>1. /\ mem'[nsyms + 1].attr = a /\ nsyms + 1 <= MaxSyms
          /\ IF n = NoName THEN mem'[nsyms + 1].str = 0
             ELSE mem'[nsyms + 1].str = nstrs + 1
          /\ \A i \in Cell : i # nsyms + 1 => mem'[i] = mem[i]
      BY <1>1, <2>1, PutEffect
    <3>2. \A i \in 1 .. nsyms : i \in Cell /\ i # nsyms + 1
      BY <1>0 DEF Cell
    <3> QED
      BY <1>2, <3>1, <3>2
<1>5. /\ emitted' \in Seq([name : Name \cup {NoName}, attr : Attr])
      /\ Len(emitted') = Len(emitted) + 1
      /\ \A k \in 1 .. Len(emitted) : emitted'[k] = emitted[k]
      /\ emitted'[Len(emitted) + 1].name = n /\ emitted'[Len(emitted) + 1].attr = a
  <2>1. emitted' = Append(emitted, [name |-> n, attr |-> a])
    BY DEF PutExternSym
  <2>2. [name |-> n, attr |-> a] \in [name : Name \cup {NoName}, attr : Attr]
    BY <1>1
  <2> QED
    BY <1>0, <2>1, <2>2
<1>6. Types'
  <2>1. /\ mem' \in [Cell -> [str : 0 .. MaxSyms, attr : Attr \cup {NoDecl}]]
        /\ strs' \in [Cell -> Name \cup {NoName}]
        /\ nsyms' \in 0 .. MaxSyms /\ nstrs' \in 0 .. MaxSyms
    BY <1>0, <1>2 DEF Grows
  <2> QED
    BY <1>2, <1>5, <2>1 DEF IInv, Types, Cell
<1>7. FileCells'
  <2>1. Pending' = 1 .. Len(emitted) + 1 /\ PendingStr' = base.str /\ PendingStr = base.str
        /\ Pending = 1 .. Len(emitted) /\ Len(emitted) \in Nat
    BY <1>0, <1>2, <1>5 DEF Pending, PendingStr
  <2>2. ASSUME NEW k \in 1 .. Len(emitted)
        PROVE  /\ base.sym + k \in Cell /\ base.sym + k \in 1 .. nsyms
               /\ IsSymbol(base.sym + k)'
               /\ NameOf(base.sym + k)' = emitted'[k].name
               /\ mem'[base.sym + k] = mem[base.sym + k]
               /\ mem[base.sym + k].attr = emitted'[k].attr
               /\ mem[base.sym + k].str # 0 => mem[base.sym + k].str > base.str
               /\ mem[base.sym + k].str <= nstrs
    <3>1. /\ base.sym + k \in Cell /\ NameOf(base.sym + k) = emitted[k].name
          /\ mem[base.sym + k].attr = emitted[k].attr
          /\ mem[base.sym + k].str # 0 => mem[base.sym + k].str > base.str
      BY <2>1 DEF IInv, FileCells
    <3>2. base.sym + k \in 1 .. nsyms
      BY <1>0
    <3>3. mem[base.sym + k].str <= nstrs
      BY <3>2 DEF IInv, TableCells
    <3>4. IsSymbol(base.sym + k)'
      <4>1. base.sym + k \in 1 .. nsyms'
        BY <1>0, <1>2, <3>2
      <4>2. \A i \in 1 .. nsyms' : IsSymbol(i)'
        BY <1>3 DEF TableCells
      <4> QED
        BY <1>2, <4>1, <4>2 DEF IsSymbol
    <3>5. NameOf(base.sym + k)' = NameOf(base.sym + k)
      BY <1>2, <1>3, <3>2
    <3> QED
      BY <1>4, <1>5, <3>1, <3>2, <3>3, <3>4, <3>5
  <2>3. ASSUME NEW k, k = Len(emitted) + 1
        PROVE  /\ base.sym + k = nsyms + 1 /\ base.sym + k \in Cell
               /\ IsSymbol(base.sym + k)' /\ NameOf(base.sym + k)' = n
               /\ mem'[base.sym + k].attr = a
               /\ mem'[base.sym + k].str # 0 => mem'[base.sym + k].str > nstrs
    <3> DEFINE c == base.sym + k
    <3>1. c = nsyms + 1 /\ c \in Cell
      BY <1>0, <1>4, <1>2, <2>3 DEF Cell
    <3>2. \A i \in 1 .. nsyms' : IsSymbol(i)' /\ (i > nsyms => NameOf(i)' = n)
      BY <1>3 DEF TableCells
    <3>3. c \in 1 .. nsyms' /\ c > nsyms
      BY <1>0, <1>2, <3>1
    <3>4. base' = base
      BY <1>2
    <3>5. IsSymbol(base.sym + k)' /\ NameOf(base.sym + k)' = n
      BY <3>2, <3>3, <3>4 DEF IsSymbol, NameOf
    <3> QED
      BY <1>0, <1>4, <3>1, <3>5
  <2>4. \A k \in Pending' : k \in 1 .. Len(emitted) \/ k = Len(emitted) + 1
    BY <2>1
  <2>5. ASSUME NEW k \in Pending'
        PROVE  /\ base.sym + k \in Cell /\ k <= Len(emitted')
               /\ IsSymbol(base.sym + k)'
               /\ NameOf(base.sym + k)' = emitted'[k].name
               /\ mem'[base.sym + k].attr = emitted'[k].attr
               /\ mem'[base.sym + k].str # 0 => mem'[base.sym + k].str > base.str
    <3>1. CASE k \in 1 .. Len(emitted)
      BY <1>5, <2>1, <2>2, <3>1
    <3>2. CASE k = Len(emitted) + 1
      BY SMTT(30), <1>0, <1>4, <1>5, <2>3, <3>2
    <3> QED
      BY <2>4, <3>1, <3>2
  <2>6. ASSUME NEW j \in Pending', NEW k \in Pending', j < k,
               mem'[base.sym + j].str # 0, mem'[base.sym + k].str # 0
        PROVE  mem'[base.sym + j].str < mem'[base.sym + k].str
    <3>1. j \in 1 .. Len(emitted)
      BY <2>1, <2>6
    <3>2. CASE k \in 1 .. Len(emitted)
      BY <2>1, <2>2, <2>6, <3>1, <3>2 DEF IInv, FileCells
    <3>3. CASE k = Len(emitted) + 1
      <4>1. mem'[base.sym + k].str = nstrs + 1
        BY <1>4, <2>3, <2>6, <3>3
      <4>2. mem'[base.sym + j].str \in 0 .. nstrs
        BY <1>0, <2>2, <3>1 DEF IInv, Types
      <4> QED
        BY <1>0, <4>1, <4>2
    <3> QED
      BY <2>4, <3>2, <3>3
  <2> QED
    BY <1>2, <2>1, <2>5, <2>6 DEF FileCells
<1>8. Cursors' /\ HashPlace'
  BY <1>0, <1>2, <1>5 DEF IInv, Cursors, HashPlace
<1>9. RelocsAimed'
  <2> SUFFICES ASSUME NEW r \in 1 .. Len(relocs)
               PROVE  relocs[r] <= nsyms' /\ NameOf(relocs[r])' = aim[r]
    BY <1>0, <1>2 DEF RelocsAimed
  <2>1. relocs[r] \in Nat \ {0} /\ relocs[r] <= nsyms /\ NameOf(relocs[r]) = aim[r]
    BY <1>0 DEF IInv, Types, RelocsAimed
  <2>2. relocs[r] \in 1 .. nsyms /\ relocs[r] <= nsyms'
    BY <1>0, <1>2, <2>1
  <2>3. relocs' = relocs
    BY <1>2
  <2> QED
    BY <1>3, <2>1, <2>2, <2>3 DEF NameOf
<1>10. UniqueNames'
  <2>1. Linked' = Linked /\ Linked \in 0 .. nsyms
    BY <1>0, <1>2 DEF Linked, IInv, HashPlace
  <2>2. \A j \in 1 .. Linked : IsGlobal(j)' = IsGlobal(j) /\ NameOf(j)' = NameOf(j)
    <3> TAKE j \in 1 .. Linked
    <3>1. j \in 1 .. nsyms
      BY <1>0, <2>1
    <3> QED
      BY <1>3, <1>4, <3>1 DEF IsGlobal
  <2> QED
    BY <2>1, <2>2 DEF IInv, UniqueNames
<1> QED
  BY <1>3, <1>6, <1>7, <1>8, <1>9, <1>10 DEF IInv

\* Entering a symbol by set_elf_sym keeps global names unique: it is appended
\* only when the lookup, which sees the whole table, found none of that name.
LEMMA SetUnique ==
  ASSUME IInv, phase # "compile", NEW n \in Name \cup {NoName}, NEW a \in Attr,
         SetElfSym(n, a), n = NoName => a.bind = LOCALB /\ Defined(a),
         UNCHANGED <<base, hash, phase, broken>>
  PROVE  UniqueNames'
<1>0. nsyms \in 0 .. MaxSyms /\ base.sym \in 0 .. nsyms /\ MaxSyms \in Nat
  BY SymTabAssumption DEF IInv, Types, TableCells
<1>1. Grows(n, a)
  BY SetGrows
<1>2. /\ \A i \in 1 .. nsyms : NameOf(i)' = NameOf(i)
      /\ \A i \in 1 .. nsyms' : i > nsyms => NameOf(i)' = n
  BY <1>1, GrowsTable
<1>3. \A i \in 1 .. nsyms : IsGlobal(i)' => IsGlobal(i)
  BY <1>1 DEF Grows, IsGlobal
<1>4. CASE broken # 0
  <2>1. Linked' = Linked /\ Linked \in 0 .. nsyms
    BY <1>0, <1>4 DEF Linked, IInv, HashPlace
  <2>2. \A j \in 1 .. Linked :
          (IsGlobal(j)' => IsGlobal(j)) /\ NameOf(j)' = NameOf(j)
    BY <1>0, <1>2, <1>3, <2>1
  <2> QED
    BY <2>1, <2>2 DEF IInv, UniqueNames
<1>5. CASE broken = 0
  <2>1. Linked = nsyms /\ Linked' = nsyms' /\ hash = "on"
    BY <1>5 DEF Linked, IInv, HashPlace
  <2>2. CASE nsyms' = nsyms
    BY <1>2, <1>3, <2>1, <2>2 DEF IInv, UniqueNames
  <2>3. CASE nsyms' = nsyms + 1
    <3>1. IsGlobal(nsyms + 1) \in BOOLEAN
      BY DEF IsGlobal
    <3>2. mem'[nsyms + 1].attr = a
      BY <1>1, <2>3 DEF Grows
    <3>3. ~ SetIndex(n, a) <= nsyms
      BY <1>0, <2>3, SetGrows
    <3>4. a.bind # LOCALB => \A i \in 1 .. nsyms : IsGlobal(i) => NameOf(i) # n
      BY <2>1, <3>3, SetGrows
    <3>5. ASSUME NEW i \in 1 .. nsyms', NEW j \in 1 .. nsyms', i > nsyms, j <= nsyms,
                 IsGlobal(i)', IsGlobal(j)'
          PROVE  NameOf(i)' # NameOf(j)'
      <4>1. i = nsyms + 1 /\ j \in 1 .. nsyms
        BY <1>0, <2>3, <3>5
      <4>2. a.bind # LOCALB
        BY <3>2, <3>5, <4>1 DEF IsGlobal
      <4> QED
        BY <1>2, <1>3, <3>4, <3>5, <4>1, <4>2
    <3>6. ASSUME NEW i \in 1 .. nsyms', NEW j \in 1 .. nsyms',
                 IsGlobal(i)', IsGlobal(j)', NameOf(i)' = NameOf(j)'
          PROVE  i = j
      <4>1. CASE i <= nsyms /\ j <= nsyms
        <5>1. i \in 1 .. nsyms /\ j \in 1 .. nsyms
          BY <1>0, <4>1
        <5> QED
          BY <1>2, <1>3, <2>1, <3>6, <5>1 DEF IInv, UniqueNames
      <4>2. CASE i > nsyms /\ j > nsyms
        BY <1>0, <2>3, <4>2
      <4>3. CASE i > nsyms /\ j <= nsyms
        BY <3>5, <3>6, <4>3
      <4>4. CASE i <= nsyms /\ j > nsyms
        BY <3>5, <3>6, <4>4
      <4> QED
        BY <1>0, <4>1, <4>2, <4>3, <4>4
    <3> QED
      BY <2>1, <3>6 DEF UniqueNames
  <2> QED
    BY <1>1, <2>2, <2>3 DEF Grows
<1> QED
  BY <1>4, <1>5

\* The linker enters a symbol between files.
LEMMA LinkerSymInv ==
  ASSUME IInv, NEW n \in Name, NEW a \in Decl, LinkerSym(n, a)
  PROVE  IInv'
<1>0. /\ nsyms \in 0 .. MaxSyms /\ MaxSyms \in Nat /\ nstrs \in 0 .. MaxSyms
      /\ a \in Attr /\ n # NoName /\ phase = "idle" /\ phase' = "idle"
      /\ UNCHANGED <<base, hash, phase, nstaged, tr, relocs, emitted, aim, broken>>
  BY SymTabAssumption DEF LinkerSym, IInv, Types
<1>1. SetElfSym(n, a)
  BY DEF LinkerSym
<1>2. Grows(n, a) /\ clashed' \in BOOLEAN
  BY <1>0, <1>1, SetGrows
<1>3. TableCells' /\ \A i \in 1 .. nsyms : NameOf(i)' = NameOf(i)
  BY <1>0, <1>2, GrowsTable
<1>4. Types'
  <2>1. /\ mem' \in [Cell -> [str : 0 .. MaxSyms, attr : Attr \cup {NoDecl}]]
        /\ strs' \in [Cell -> Name \cup {NoName}]
        /\ nsyms' \in 0 .. MaxSyms /\ nstrs' \in 0 .. MaxSyms
    BY <1>0, <1>2 DEF Grows
  <2> QED
    BY <1>0, <1>2, <2>1 DEF IInv, Types, Cell
<1>5. FileCells' /\ Cursors' /\ HashPlace'
  BY <1>0 DEF IInv, FileCells, Cursors, Pending, HashPlace
<1>6. RelocsAimed'
  <2> SUFFICES ASSUME NEW r \in 1 .. Len(relocs)
               PROVE  relocs[r] <= nsyms' /\ NameOf(relocs[r])' = aim[r]
    BY <1>0 DEF RelocsAimed
  <2>1. relocs[r] \in Nat \ {0} /\ relocs[r] <= nsyms /\ NameOf(relocs[r]) = aim[r]
    BY <1>0 DEF IInv, Types, RelocsAimed
  <2>2. relocs[r] \in 1 .. nsyms /\ relocs[r] <= nsyms'
    BY <1>0, <1>2, <2>1 DEF Grows
  <2> QED
    BY <1>0, <1>3, <2>1, <2>2 DEF NameOf
<1>7. UniqueNames'
  BY <1>0, <1>1, SetUnique
<1> QED
  BY <1>3, <1>4, <1>5, <1>6, <1>7 DEF IInv

\* What the loop of tccelf_end_file enters is the next symbol the file made,
\* under the name it gave it.
LEMMA StagedSymbol ==
  ASSUME IInv, phase = "merge", Len(tr) < nstaged, NEW i, i = base.sym + Len(tr) + 1
  PROVE  /\ i \in Cell /\ Len(tr) + 1 \in Pending /\ i > nsyms
         /\ NameOf(i) = emitted[Len(tr) + 1].name
         /\ NameOf(i) \in Name \cup {NoName} /\ Staged(i) \in Attr
         /\ NameOf(i) = NoName =>
              Staged(i).bind = LOCALB /\ Defined(Staged(i)) /\ mem[i].str = 0
<1>1. Len(tr) \in Nat /\ nstaged \in Nat /\ base.sym \in Nat /\ nsyms \in Nat
  BY DEF IInv, Types
<1>2. Len(tr) + 1 \in Pending /\ i = base.sym + (Len(tr) + 1)
  BY <1>1 DEF Pending
<1>3. i > nsyms
  BY <1>1 DEF IInv, Cursors
<1>4. i \in Cell /\ IsSymbol(i) /\ NameOf(i) = emitted[Len(tr) + 1].name
  BY <1>2 DEF IInv, FileCells
<1>5. NameOf(i) \in Name \cup {NoName} /\ (NameOf(i) = NoName => mem[i].str = 0)
  BY <1>4, SymTabAssumption DEF IsSymbol, NameOf
<1>6. Staged(i) \in Attr
  BY <1>4 DEF IsSymbol, Staged, Attr, Bind, GLOBAL
<1> QED
  BY <1>2, <1>3, <1>4, <1>5, <1>6 DEF IsSymbol, Staged

\* One round of that loop overwrites neither a symbol nor a string not read yet.
LEMMA EndFileSymInv == IInv /\ EndFileSym => IInv'
<1> SUFFICES ASSUME IInv, EndFileSym PROVE IInv'
  OBVIOUS
<1> DEFINE i == base.sym + Len(tr) + 1
           n == NameOf(i)
           a == Staged(i)
           c == SetIndex(n, a)
<1>0. /\ nsyms \in 0 .. MaxSyms /\ MaxSyms \in Nat /\ nstrs \in 0 .. MaxSyms
      /\ base.sym \in 0 .. nsyms /\ Len(tr) \in Nat /\ nstaged \in Nat
      /\ nsyms <= base.sym + Len(tr) /\ nstaged = Len(emitted) /\ tr \in Seq(Nat)
      /\ phase = "merge" /\ Len(tr) < nstaged
  BY SymTabAssumption DEF EndFileSym, IInv, Types, TableCells, Cursors
<1>1. /\ SetElfSym(n, a) /\ tr' = Append(tr, c)
      /\ UNCHANGED <<base, hash, phase, nstaged, relocs, emitted, aim, broken>>
  BY DEF EndFileSym
<1>2. /\ i \in Cell /\ Len(tr) + 1 \in Pending /\ i > nsyms
      /\ n = emitted[Len(tr) + 1].name
      /\ n \in Name \cup {NoName} /\ a \in Attr
      /\ n = NoName => a.bind = LOCALB /\ Defined(a) /\ mem[i].str = 0
  BY <1>0, StagedSymbol
<1> HIDE DEF n, a
<1>3. /\ Grows(n, a) /\ c \in 1 .. nsyms' /\ clashed' \in BOOLEAN
      /\ IF c <= nsyms THEN NameOf(c) = n ELSE TRUE
  BY <1>1, <1>2, SetGrows
<1>4. /\ TableCells'
      /\ \A j \in 1 .. nsyms : NameOf(j)' = NameOf(j)
      /\ \A j \in 1 .. nsyms' : j > nsyms => NameOf(j)' = n
  BY <1>1, <1>2, <1>3, GrowsTable
<1> HIDE DEF c
<1>5. /\ tr' \in Seq(Nat) /\ Len(tr') = Len(tr) + 1 /\ tr'[Len(tr) + 1] = c
      /\ \A k \in 1 .. Len(tr) : tr'[k] = tr[k]
  <2>1. c \in Nat
    BY <1>0, <1>3 DEF Grows
  <2> QED
    BY <1>0, <1>1, <2>1
<1>6. Types'
  <2>1. /\ mem' \in [Cell -> [str : 0 .. MaxSyms, attr : Attr \cup {NoDecl}]]
        /\ strs' \in [Cell -> Name \cup {NoName}]
        /\ nsyms' \in 0 .. MaxSyms /\ nstrs' \in 0 .. MaxSyms
    BY <1>0, <1>3 DEF Grows
  <2> QED
    BY <1>1, <1>3, <1>5, <2>1 DEF IInv, Types, Cell
<1>7. FileCells'
  <2>0. nstrs' \in {nstrs, nstrs + 1} /\ (n = NoName => nstrs' = nstrs)
    BY <1>3 DEF Grows
  <2>1. /\ Pending' = Len(tr) + 2 .. nstaged /\ Pending = Len(tr) + 1 .. nstaged
        /\ PendingStr' = nstrs' /\ PendingStr = nstrs
    BY <1>0, <1>1, <1>5 DEF Pending, PendingStr
  <2>2. ASSUME NEW k \in Pending'
        PROVE  /\ k \in Pending /\ base.sym + k \in Cell /\ k <= Len(emitted)
               /\ mem'[base.sym + k] = mem[base.sym + k]
               /\ mem[base.sym + k].str # 0 =>
                    /\ mem[base.sym + k].str > nstrs'
                    /\ strs'[mem[base.sym + k].str] = strs[mem[base.sym + k].str]
    <3>1. k \in Pending /\ k \in Nat /\ k > Len(tr) + 1 /\ Len(tr) + 1 < k
      BY <1>0, <2>1
    <3>2. base.sym + k \in Cell /\ k <= Len(emitted)
      BY <3>1 DEF IInv, FileCells
    <3>3. base.sym + k > nsyms + 1
      BY <1>0, <3>1
    <3>4. mem'[base.sym + k] = mem[base.sym + k]
      BY <1>3, <3>2, <3>3 DEF Grows
    <3>5. mem[base.sym + k].str \in 0 .. MaxSyms /\ mem[i].str \in 0 .. MaxSyms
      BY <1>2, <3>2 DEF IInv, Types
    <3>6. ASSUME mem[base.sym + k].str # 0
          PROVE  mem[base.sym + k].str > nstrs'
      <4>1. mem[base.sym + k].str > nstrs
        BY <2>1, <3>1, <3>6 DEF IInv, FileCells
      <4>2. CASE mem[i].str = 0
        <5>1. n = NoName
          BY <1>2, <4>2 DEF n, NameOf
        <5> QED
          BY <1>3, <4>1, <5>1 DEF Grows
      <4>3. CASE mem[i].str # 0
        <5>1. i = base.sym + (Len(tr) + 1)
          BY <1>0
        <5>2. mem[i].str > nstrs
          BY <1>2, <2>1, <4>3, <5>1 DEF IInv, FileCells
        <5>3. mem[i].str < mem[base.sym + k].str
          BY <1>2, <3>1, <3>6, <4>3, <5>1 DEF IInv, FileCells
        <5> QED
          BY <1>0, <2>0, <3>5, <5>2, <5>3
      <4> QED
        BY <4>2, <4>3
    <3>7. mem[base.sym + k].str # 0 =>
            strs'[mem[base.sym + k].str] = strs[mem[base.sym + k].str]
      <4>1. \A s \in Cell : s > nstrs' => strs'[s] = strs[s]
        BY <1>3 DEF Grows
      <4> QED
        BY <1>0, <3>5, <3>6, <4>1 DEF Cell
    <3> QED
      BY <3>1, <3>2, <3>4, <3>6, <3>7
  <2>3. ASSUME NEW k \in Pending'
        PROVE  IsSymbol(base.sym + k)' /\ NameOf(base.sym + k)' = NameOf(base.sym + k)
    <3>1. IsSymbol(base.sym + k)
      BY <2>2 DEF IInv, FileCells
    <3> QED
      BY <1>1, <2>2, <3>1 DEF IsSymbol, NameOf
  <2>4. ASSUME NEW k \in Pending'
        PROVE  /\ base.sym + k \in Cell /\ k <= Len(emitted)
               /\ IsSymbol(base.sym + k)'
               /\ NameOf(base.sym + k)' = emitted[k].name
               /\ mem'[base.sym + k].attr = emitted[k].attr
               /\ mem'[base.sym + k].str # 0 => mem'[base.sym + k].str > nstrs'
    BY <2>2, <2>3 DEF IInv, FileCells
  <2>5. ASSUME NEW j \in Pending', NEW k \in Pending', j < k,
               mem'[base.sym + j].str # 0, mem'[base.sym + k].str # 0
        PROVE  mem'[base.sym + j].str < mem'[base.sym + k].str
    BY <2>2, <2>5 DEF IInv, FileCells
  <2> QED
    BY <1>1, <2>1, <2>4, <2>5 DEF FileCells
<1>8. Cursors'
  <2>1. nsyms' <= base.sym + (Len(tr) + 1)
    BY <1>0, <1>3 DEF Grows
  <2>2. ASSUME NEW k \in 1 .. Len(tr') , NEW d, d = tr'[k]
        PROVE  d \in 1 .. nsyms' /\ NameOf(d)' = emitted[k].name
    <3>1. CASE k \in 1 .. Len(tr)
      <4>1. d = tr[k] /\ d \in 1 .. nsyms /\ NameOf(d) = emitted[k].name
        BY <1>0, <1>5, <2>2, <3>1 DEF IInv, Cursors
      <4>2. nsyms' \in {nsyms, nsyms + 1}
        BY <1>3 DEF Grows
      <4> QED
        BY <1>0, <1>4, <4>1, <4>2
    <3>2. CASE k = Len(tr) + 1
      <4>1. d = c /\ d \in 1 .. nsyms'
        BY <1>3, <1>5, <2>2, <3>2
      <4>2. CASE d <= nsyms
        <5>1. d \in 1 .. nsyms /\ NameOf(d) = n
          BY <1>0, <1>3, <4>1, <4>2
        <5> QED
          BY <1>2, <1>4, <3>2, <4>1, <5>1
      <4>3. CASE ~ d <= nsyms
        <5>1. d > nsyms
          BY <1>0, <4>1, <4>3
        <5> QED
          BY <1>2, <1>4, <3>2, <4>1, <5>1
      <4> QED
        BY <4>2, <4>3
    <3> QED
      BY <1>0, <1>5, <3>1, <3>2
  <2>3. \A k \in 1 .. Len(tr') : (tr[k] \in 1 .. nsyms)' /\ NameOf(tr[k])' = emitted[k].name
    BY <2>2 DEF NameOf
  <2>4. Len(tr') <= nstaged /\ base.sym + nstaged <= MaxSyms
    BY <1>0, <1>5 DEF IInv, Cursors
  <2> QED
    BY <1>0, <1>1, <1>5, <2>1, <2>3, <2>4 DEF Cursors
<1>9. HashPlace'
  BY <1>1 DEF IInv, HashPlace
<1>10. RelocsAimed'
  <2> SUFFICES ASSUME NEW r \in 1 .. Len(relocs)
               PROVE  IF relocs[r] > base.sym
                      THEN relocs[r] - base.sym \in 1 .. nstaged
                           /\ emitted[relocs[r] - base.sym].name = aim[r]
                      ELSE relocs[r] <= nsyms' /\ NameOf(relocs[r])' = aim[r]
    BY <1>0, <1>1 DEF RelocsAimed
  <2>1. relocs[r] \in Nat \ {0} /\ relocs' = relocs
    BY <1>1 DEF IInv, Types
  <2>2. CASE relocs[r] > base.sym
    BY <1>0, <2>2 DEF IInv, RelocsAimed
  <2>3. CASE ~ relocs[r] > base.sym
    <3>1. relocs[r] \in 1 .. nsyms /\ NameOf(relocs[r]) = aim[r]
      BY <1>0, <2>1, <2>3 DEF IInv, RelocsAimed
    <3>2. relocs[r] <= nsyms'
      BY <1>0, <1>3, <3>1 DEF Grows
    <3> QED
      BY <1>4, <2>1, <2>3, <3>1, <3>2 DEF NameOf
  <2> QED
    BY <2>2, <2>3
<1>11. UniqueNames'
  BY <1>0, <1>1, <1>2, SetUnique
<1> QED
  BY <1>4, <1>6, <1>7, <1>8, <1>9, <1>10, <1>11 DEF IInv

\* Every step of the program preserves the invariant.
LEMMA NextInv == IInv /\ [Next]_vars => IInv'
<1> SUFFICES ASSUME IInv, [Next]_vars PROVE IInv'
  OBVIOUS
<1>1. ASSUME NEW i \in Cell, NEW a \in Decl, DefineSym(i, a) \/ UpdateStorage(i, a)
      PROVE  IInv'
  BY <1>1, DefineSymInv, UpdateStorageInv
<1>2. CASE UNCHANGED vars
  <2>1. Types' /\ TableCells' /\ FileCells'
    BY <1>2 DEF vars, IInv, Types, TableCells, FileCells, IsSymbol, NameOf, Pending,
                PendingStr, Cell
  <2>2. Cursors' /\ HashPlace' /\ RelocsAimed' /\ UniqueNames'
    BY <1>2 DEF vars, IInv, Cursors, HashPlace, RelocsAimed, UniqueNames, Linked,
                NameOf, IsGlobal
  <2> QED
    BY <2>1, <2>2 DEF IInv
<1> QED
  BY <1>1, <1>2, BeginFileInv, PutExternSymInv, PutElfRelocaInv, AbortFileInv,
     EndFileInv, EndFileSymInv, UpdateRelocsInv, LinkerSymInv DEF Next

\* The whole invariant, of which the next three theorems are parts.
THEOREM SymTabInvariant == Spec => []IInv
BY InitInv, NextInv, PTL DEF Spec

\* However files, errors and the linker alternate, no two symbols the table has
\* resolved are global and of one name (set_elf_sym, tccelf_end_file).
THEOREM GlobalNamesAreUnique == Spec => []UniqueNames
BY SymTabInvariant, InvImplies, PTL

\* tccelf_end_file never reads a symbol or a string it has written over.
THEOREM StagedSymbolsAreIntact == Spec => []StagedIntact
BY SymTabInvariant, InvImplies, PTL

\* Every relocation ends up at a symbol of the name it was made for
\* (put_elf_reloca, update_relocs).
THEOREM RelocationsKeepTheirAim == Spec => []RelocAim
BY SymTabInvariant, InvImplies, PTL
-----------------------------------------------------------------------------
\* The abstract table is entered by the same rule (set_elf_sym).
LEMMA SameRule ==
  ASSUME NEW x, NEW y
  PROVE  /\ Table!Merge(x, y) = Merge(x, y)
         /\ Table!Clash(x, y) <=> Clash(x, y)
<1>1. /\ Table!Contest(x, y) <=> Contest(x, y)
      /\ Table!Overrides(x, y) <=> Overrides(x, y)
      /\ Table!Defined(x) <=> Defined(x)
  BY DEF Table!Contest, Contest, Table!Overrides, Overrides, Table!Defined, Defined,
         Table!IsBss, IsBss, Table!GLOBAL, GLOBAL, Table!WEAK, WEAK,
         Table!Internal, Internal, Table!Hidden, Hidden
<1>2. Table!Clash(x, y) <=> Clash(x, y)
  BY <1>1 DEF Table!Clash, Clash, Table!IsBss, IsBss
<1>3. \A u, v : Table!MergeVis(u, v) = MergeVis(u, v)
  BY DEF Table!MergeVis, MergeVis, Table!Default, Default
<1>4. \A u, v : Table!Patch(u, v) = Patch(u, v)
  BY DEF Table!Patch, Patch
<1>5. Table!Merge(x, y) = Merge(x, y)
  BY <1>1, <1>3, <1>4 DEF Table!Merge, Merge
<1> QED
  BY <1>2, <1>5

\* What the abstract table holds of a name is what the one global symbol of that
\* name holds, or nothing if there is none.
KnownEntry(n) ==
  /\ \A i \in 1 .. Linked : IsGlobal(i) /\ NameOf(i) = n =>
       AbstractTable[n] = mem[i].attr /\ AbstractTable[n] \in Attr
  /\ (\A i \in 1 .. Linked : IsGlobal(i) => NameOf(i) # n) => AbstractTable[n] = None

KnownEntries == \A n \in Name : KnownEntry(n)

\* Because global names are unique.
LEMMA Known == IInv => KnownEntries
<1> SUFFICES ASSUME IInv, NEW n \in Name PROVE KnownEntry(n)
  BY DEF KnownEntries
<1> DEFINE hits == {i \in 1 .. Linked : IsGlobal(i) /\ NameOf(i) = n}
<1>1. AbstractTable[n] = IF hits = {} THEN None
                         ELSE mem[CHOOSE i \in hits : \A j \in hits : j <= i].attr
  BY DEF AbstractTable
<1>2. Linked \in 0 .. nsyms /\ nsyms \in Nat
  BY DEF Linked, IInv, Types, TableCells, HashPlace
<1>3. ASSUME NEW i \in 1 .. Linked, IsGlobal(i), NameOf(i) = n
      PROVE  AbstractTable[n] = mem[i].attr /\ AbstractTable[n] \in Attr
  <2>1. hits = {i}
    BY <1>3 DEF IInv, UniqueNames
  <2>2. (CHOOSE h \in hits : \A j \in hits : j <= h) = i
    BY <1>2, <2>1
  <2>3. mem[i].attr \in Attr
    BY <1>2 DEF IInv, TableCells, IsSymbol
  <2> QED
    BY <1>1, <2>1, <2>2, <2>3
<1>4. ASSUME \A i \in 1 .. Linked : IsGlobal(i) => NameOf(i) # n
      PROVE  AbstractTable[n] = None
  <2>1. hits = {}
    BY <1>4
  <2> QED
    BY <1>1, <2>1
<1> QED
  BY <1>3, <1>4 DEF KnownEntry

\* In the next state as well.
LEMMA KnownNext == IInv' => KnownEntries'
BY Known, PTL

\* A name whose global symbol a step leaves alone is known as before.
LEMMA SameEntry ==
  ASSUME IInv, IInv', NEW n \in Name,
         \A i \in 1 .. Linked : IsGlobal(i) /\ NameOf(i) = n =>
           /\ i \in 1 .. Linked' /\ IsGlobal(i)' /\ NameOf(i)' = n
           /\ mem'[i].attr = mem[i].attr,
         \A i \in 1 .. Linked' : IsGlobal(i)' /\ NameOf(i)' = n =>
           i \in 1 .. Linked /\ IsGlobal(i) /\ NameOf(i) = n
  PROVE  AbstractTable'[n] = AbstractTable[n]
<1>1. /\ \A i \in 1 .. Linked' : IsGlobal(i)' /\ NameOf(i)' = n =>
           AbstractTable'[n] = mem'[i].attr
      /\ (\A i \in 1 .. Linked' : IsGlobal(i)' => NameOf(i)' # n) => AbstractTable'[n] = None
  BY KnownNext DEF KnownEntries, KnownEntry
<1>2. KnownEntry(n)
  BY Known DEF KnownEntries
<1>3. CASE \E i \in 1 .. Linked : IsGlobal(i) /\ NameOf(i) = n
  BY <1>1, <1>2, <1>3 DEF KnownEntry
<1>4. CASE ~ \E i \in 1 .. Linked : IsGlobal(i) /\ NameOf(i) = n
  BY <1>1, <1>2, <1>4 DEF KnownEntry
<1> QED
  BY <1>3, <1>4

\* A step that changes no resolved symbol, whatever it does to those of the
\* file being compiled, is a stutter of the abstract table.
LEMMA Stutters ==
  ASSUME IInv, IInv', Linked' = Linked, clashed' = clashed,
         \A i \in 1 .. Linked : mem'[i] = mem[i] /\ NameOf(i)' = NameOf(i)
  PROVE  UNCHANGED <<AbstractTable, clashed>>
<1>1. \A n \in Name : AbstractTable'[n] = AbstractTable[n]
  BY SameEntry DEF IsGlobal
<1>2. AbstractTable' = [n \in Name |-> AbstractTable'[n]]
      /\ AbstractTable = [n \in Name |-> AbstractTable[n]]
  BY DEF AbstractTable
<1>3. AbstractTable' = AbstractTable
  BY <1>1, <1>2
<1> QED
  BY <1>3

\* Entering a symbol by set_elf_sym is a step of the abstract table, or a stutter
\* if the symbol is local or an earlier compilation has lost the hash section.
LEMMA SetStep ==
  ASSUME IInv, IInv', phase # "compile", NEW n \in Name \cup {NoName}, NEW a \in Attr,
         SetElfSym(n, a), n = NoName => a.bind = LOCALB /\ Defined(a),
         UNCHANGED <<base, hash, phase, broken>>
  PROVE  [Table!Next]_<<AbstractTable, clashed>>
<1>0. nsyms \in 0 .. MaxSyms /\ base.sym \in 0 .. nsyms /\ MaxSyms \in Nat
  BY SymTabAssumption DEF IInv, Types, TableCells
<1>1. Grows(n, a)
  BY SetGrows
<1>2. /\ \A i \in 1 .. nsyms : NameOf(i)' = NameOf(i)
      /\ \A i \in 1 .. nsyms' : i > nsyms => NameOf(i)' = n
  BY <1>1, GrowsTable
<1>3. CASE broken # 0
  <2>1. Linked' = Linked /\ Linked \in 0 .. nsyms /\ Find(n) = 0
    BY <1>0, <1>3, FindEffect DEF Linked, IInv, HashPlace
  <2>2. PutElfSym(n, a) /\ clashed' = clashed
    BY <2>1 DEF SetElfSym
  <2>3. \A i \in 1 .. nsyms : mem'[i] = mem[i]
    BY <1>0, <2>2, PutEffect DEF Cell
  <2>4. \A i \in 1 .. Linked : mem'[i] = mem[i] /\ NameOf(i)' = NameOf(i)
    BY <1>0, <1>2, <2>1, <2>3
  <2> QED
    BY <2>1, <2>2, <2>4, Stutters
<1>4. CASE broken = 0
  <2>0. Linked = nsyms /\ Linked' = nsyms' /\ hash = "on"
    BY <1>4 DEF Linked, IInv, HashPlace
  <2>1. nsyms' \in {nsyms, nsyms + 1} /\ (nsyms' = nsyms + 1 => mem'[nsyms + 1].attr = a)
        /\ \A i \in 1 .. nsyms : IsGlobal(i)' <=> IsGlobal(i)
    BY <1>1 DEF Grows, IsGlobal
  <2>2. \A i \in 1 .. nsyms' : i \in 1 .. nsyms \/ (i > nsyms /\ i = nsyms + 1 /\ nsyms' = nsyms + 1)
    BY <1>0, <2>1
  <2>3. \A i \in 1 .. nsyms : i \in 1 .. nsyms'
    BY <1>0, <2>1
  <2>4. \A m \in Name : m # n /\ (\A i \in 1 .. nsyms : NameOf(i) = m => mem'[i].attr = mem[i].attr)
          => AbstractTable'[m] = AbstractTable[m]
    <3> SUFFICES ASSUME NEW m \in Name, m # n,
                        \A i \in 1 .. nsyms : NameOf(i) = m => mem'[i].attr = mem[i].attr
                 PROVE  AbstractTable'[m] = AbstractTable[m]
      OBVIOUS
    <3>1. ASSUME NEW i \in 1 .. nsyms', IsGlobal(i)', NameOf(i)' = m
          PROVE  i \in 1 .. nsyms /\ IsGlobal(i) /\ NameOf(i) = m
      BY <1>2, <2>1, <2>2, <3>1
    <3> QED
      BY <1>2, <2>0, <2>1, <2>3, <3>1, SameEntry
  <2>5. /\ AbstractTable' = [m \in Name |-> AbstractTable'[m]]
        /\ AbstractTable = [m \in Name |-> AbstractTable[m]]
    BY DEF AbstractTable
  <2>6. CASE a.bind = LOCALB
    <3>1. PutElfSym(n, a) /\ clashed' = clashed
      BY <2>6 DEF SetElfSym
    <3>2. \A i \in 1 .. nsyms : mem'[i] = mem[i]
      BY <1>0, <3>1, PutEffect DEF Cell
    <3>3. ASSUME NEW m \in Name
          PROVE  AbstractTable'[m] = AbstractTable[m]
      <4>1. ASSUME NEW i \in 1 .. nsyms', IsGlobal(i)', NameOf(i)' = m
            PROVE  i \in 1 .. nsyms /\ IsGlobal(i) /\ NameOf(i) = m
        <5>1. i \in 1 .. nsyms
          BY <2>1, <2>2, <2>6, <4>1 DEF IsGlobal
        <5> QED
          BY <1>2, <2>1, <4>1, <5>1
      <4> QED
        BY <1>2, <2>0, <2>1, <2>3, <3>2, <4>1, SameEntry
    <3>4. AbstractTable' = AbstractTable
      BY <2>5, <3>3
    <3> QED
      BY <3>1, <3>4
  <2>7. CASE a.bind # LOCALB
    <3>0. n \in Name
      BY <2>7
    <3>1. CASE Find(n) = 0
      <4>1. PutElfSym(n, a) /\ clashed' = clashed
        BY <3>1 DEF SetElfSym
      <4>2. nsyms' = nsyms + 1 /\ \A i \in 1 .. nsyms : mem'[i] = mem[i]
        BY <1>0, <4>1, PutEffect DEF Cell
      <4>3. \A m \in Name : m # n => AbstractTable'[m] = AbstractTable[m]
        BY <2>4, <4>2
      <4>4. AbstractTable[n] = None
        <5>1. \A i \in 1 .. nsyms : IsGlobal(i) => NameOf(i) # n
          BY <2>0, <3>1, FindEffect
        <5> QED
          BY <2>0, <3>0, <5>1, Known DEF KnownEntries, KnownEntry
      <4>5. AbstractTable'[n] = a
        <5>1. ASSUME NEW i, i = nsyms + 1
              PROVE  AbstractTable'[n] = mem'[i].attr
          <6>1. i \in 1 .. nsyms' /\ i > nsyms
            BY <1>0, <4>2, <5>1
          <6>2. NameOf(i)' = n /\ IsGlobal(i)'
            BY <1>2, <2>1, <2>7, <4>2, <5>1, <6>1 DEF IsGlobal
          <6> QED
            BY <2>0, <3>0, <6>1, <6>2, KnownNext DEF KnownEntries, KnownEntry
        <5> QED
          BY <2>1, <4>2, <5>1
      <4>6. AbstractTable' = [AbstractTable EXCEPT ![n] = a]
        <5> DEFINE G == [AbstractTable EXCEPT ![n] = a]
        <5>1. G = [m \in Name |-> IF m = n THEN a ELSE AbstractTable[m]]
          BY <2>5
        <5>2. \A m \in Name : AbstractTable'[m] = IF m = n THEN a ELSE AbstractTable[m]
          BY <4>3, <4>5
        <5> HIDE DEF G
        <5>3. AbstractTable' = G
          BY <2>5, <5>1, <5>2
        <5> QED
          BY <5>3 DEF G
      <4>7. Table!Enter(n, a)
        <5>1. AbstractTable' = [AbstractTable EXCEPT ![n] =
                IF AbstractTable[n] = None THEN a ELSE Table!Merge(AbstractTable[n], a)]
          BY <4>4, <4>6
        <5>2. clashed' = (clashed \/ (AbstractTable[n] # None
                                     /\ Table!Clash(AbstractTable[n], a)))
          BY <4>1, <4>4 DEF IInv, Types
        <5>3. a.bind # Table!LOCALB
          BY <2>7 DEF Table!LOCALB, LOCALB
        <5> QED
          BY <5>1, <5>2, <5>3 DEF Table!Enter
      <4> QED
        BY <3>0, <4>7 DEF Table!Next
    <3>2. CASE Find(n) # 0
      <4> DEFINE f == Find(n)
      <4>1. f \in 1 .. nsyms /\ IsGlobal(f) /\ NameOf(f) = n
        BY <3>2, FindEffect
      <4>2. /\ mem' = [mem EXCEPT ![f].attr = Merge(mem[f].attr, a)] /\ nsyms' = nsyms
            /\ clashed' = (clashed \/ Clash(mem[f].attr, a))
        BY <2>7, <3>2 DEF SetElfSym
      <4> HIDE DEF f
      <4>3. /\ mem'[f].attr = Merge(mem[f].attr, a)
            /\ \A i \in 1 .. nsyms : i # f => mem'[i] = mem[i]
        BY <1>0, <4>1, <4>2 DEF IInv, Types, Cell
      <4>4. \A m \in Name : m # n => AbstractTable'[m] = AbstractTable[m]
        BY <2>4, <4>1, <4>3
      <4>5. AbstractTable[n] = mem[f].attr /\ AbstractTable[n] \in Attr
        BY <2>0, <3>0, <4>1, Known DEF KnownEntries, KnownEntry
      <4>6. AbstractTable'[n] = Merge(mem[f].attr, a)
        <5>1. ASSUME NEW i, i = f
              PROVE  AbstractTable'[n] = mem'[i].attr
          <6>1. i \in 1 .. nsyms' /\ NameOf(i)' = n /\ IsGlobal(i)'
            BY <1>2, <2>1, <2>3, <4>1, <5>1
          <6> QED
            BY <2>0, <3>0, <6>1, KnownNext DEF KnownEntries, KnownEntry
        <5> QED
          BY <4>3, <5>1
      <4>7. AbstractTable' = [AbstractTable EXCEPT ![n] = Merge(mem[f].attr, a)]
        BY <2>5, <3>0, <4>4, <4>6
      <4>8. AbstractTable[n] # None
        BY <4>5, SymTabAssumption
      <4>9. Table!Enter(n, a)
        BY <2>7, <4>2, <4>5, <4>7, <4>8, SameRule DEF Table!Enter, Table!LOCALB, LOCALB
      <4> QED
        BY <3>0, <4>9 DEF Table!Next
    <3> QED
      BY <3>1, <3>2
  <2> QED
    BY <2>6, <2>7
<1> QED
  BY <1>3, <1>4

\* Every step is one of the abstract table or changes nothing it shows.
LEMMA NextStep ==
  IInv /\ IInv' /\ [Next]_vars => [Table!Next]_<<AbstractTable, clashed>>
<1> SUFFICES ASSUME IInv, IInv', [Next]_vars
             PROVE  [Table!Next]_<<AbstractTable, clashed>>
  OBVIOUS
<1>0. /\ nsyms \in 0 .. MaxSyms /\ base.sym \in 0 .. nsyms /\ MaxSyms \in Nat
      /\ Linked \in 0 .. nsyms /\ (phase = "compile" => Linked \in 0 .. base.sym)
  BY SymTabAssumption DEF IInv, Types, TableCells, Linked, HashPlace
<1>1. CASE BeginFile \/ AbortFile \/ EndFile \/ UpdateRelocs
  <2>1. Linked' = Linked /\ clashed' = clashed /\ mem' = mem /\ strs' = strs
    <3>1. CASE BeginFile
      BY <3>1 DEF BeginFile, Linked
    <3>2. CASE AbortFile
      BY <1>0, <3>2 DEF AbortFile, Linked
    <3>3. CASE EndFile
      BY <3>3 DEF EndFile, Linked
    <3>4. CASE UpdateRelocs
      BY <3>4 DEF UpdateRelocs, Linked
    <3> QED
      BY <1>1, <3>1, <3>2, <3>3, <3>4
  <2> QED
    BY <2>1, Stutters DEF NameOf
<1>2. CASE \E i \in Cell : PutElfReloca(i)
  <2>1. Linked' = Linked /\ clashed' = clashed /\ mem' = mem /\ strs' = strs
    BY <1>2 DEF PutElfReloca, Linked
  <2> QED
    BY <2>1, Stutters DEF NameOf
<1>3. CASE UNCHANGED vars
  <2>1. Linked' = Linked /\ clashed' = clashed /\ mem' = mem /\ strs' = strs
    BY <1>3 DEF vars, Linked
  <2> QED
    BY <2>1, Stutters DEF NameOf
<1>4. ASSUME NEW i \in Cell, NEW a \in Decl, DefineSym(i, a) \/ UpdateStorage(i, a)
      PROVE  UNCHANGED <<AbstractTable, clashed>>
  <2>1. /\ i \in base.sym + 1 .. nsyms /\ phase = "compile" /\ strs' = strs
        /\ UNCHANGED <<nsyms, base, phase, clashed, broken>>
        /\ \A j \in Cell : j # i => mem'[j] = mem[j]
    BY <1>4 DEF DefineSym, UpdateStorage, IInv, Types
  <2>2. Linked' = Linked
    BY <2>1 DEF Linked
  <2>3. \A j \in 1 .. Linked : j \in Cell /\ j # i
    BY <1>0, <2>1 DEF Cell
  <2>4. \A j \in 1 .. Linked : mem'[j] = mem[j] /\ NameOf(j)' = NameOf(j)
    BY <2>1, <2>3 DEF NameOf
  <2> QED
    BY <2>1, <2>2, <2>4, Stutters
<1>5. ASSUME NEW n \in Name \cup {NoName}, NEW a \in Decl, PutExternSym(n, a)
      PROVE  UNCHANGED <<AbstractTable, clashed>>
  <2>1. a \in Attr /\ PutElfSym(n, a) /\ (n = NoName => a.bind = LOCALB /\ Defined(a))
    BY <1>5, SymTabAssumption DEF PutExternSym
  <2>2. phase = "compile" /\ UNCHANGED <<base, phase, clashed, broken>>
    BY <1>5 DEF PutExternSym
  <2>3. Linked' = Linked
    BY <2>2 DEF Linked
  <2>4. \A j \in 1 .. nsyms : mem'[j] = mem[j]
    <3>1. \A j \in Cell : j # nsyms + 1 => mem'[j] = mem[j]
      BY <2>1, PutEffect
    <3> QED
      BY <1>0, <3>1 DEF Cell
  <2>5. \A j \in 1 .. nsyms : NameOf(j)' = NameOf(j)
    BY <2>1, <2>2, PutGrows, GrowsTable
  <2>6. \A j \in 1 .. Linked : mem'[j] = mem[j] /\ NameOf(j)' = NameOf(j)
    BY <1>0, <2>4, <2>5
  <2> QED
    BY <2>2, <2>3, <2>6, Stutters
<1>6. ASSUME NEW n \in Name, NEW a \in Decl, LinkerSym(n, a)
      PROVE  [Table!Next]_<<AbstractTable, clashed>>
  BY <1>6, SetStep, SymTabAssumption DEF LinkerSym
<1>7. CASE EndFileSym
  <2> DEFINE i == base.sym + Len(tr) + 1
             n == NameOf(i)
             a == Staged(i)
  <2>1. /\ SetElfSym(n, a) /\ phase = "merge" /\ Len(tr) < nstaged
        /\ UNCHANGED <<base, hash, phase, broken>>
    BY <1>7 DEF EndFileSym
  <2>2. /\ n \in Name \cup {NoName} /\ a \in Attr
        /\ n = NoName => a.bind = LOCALB /\ Defined(a)
    BY <2>1, StagedSymbol
  <2> HIDE DEF n, a
  <2> QED
    BY <2>1, <2>2, SetStep
<1> QED
  BY <1>1, <1>2, <1>3, <1>4, <1>5, <1>6, <1>7 DEF Next

\* The table in memory implements the abstract one: for any program of files,
\* errors and linker entries, compaction, renumbering and the detached hash
\* section amount to entering symbols one by one by the resolution rule.
THEOREM ImplementsLinkTable == Spec => RefinesLinkTable
<1>1. Init => Table!Init
  <2> SUFFICES ASSUME Init PROVE Table!Init
    OBVIOUS
  <2>1. Linked = 0
    BY DEF Init, Linked
  <2>2. \A n \in Name : {i \in 1 .. Linked : IsGlobal(i) /\ NameOf(i) = n} = {}
    BY <2>1
  <2>3. AbstractTable = [n \in Name |-> None]
    BY <2>2 DEF AbstractTable
  <2> QED
    BY <2>3 DEF Init, Table!Init
<1>2. IInv /\ IInv' /\ [Next]_vars => [Table!Next]_<<AbstractTable, clashed>>
  BY NextStep
<1> QED
  BY <1>1, <1>2, SymTabInvariant, PTL DEF Spec, RefinesLinkTable, Table!Spec, Table!vars
=============================================================================
