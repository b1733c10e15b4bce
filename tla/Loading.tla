------------------------------- MODULE Loading -------------------------------
(***************************************************************************)
(* Object files and archives on the command line: how the sections of each *)
(* file are appended to the sections of the same name, how its symbols go  *)
(* into the table of LinkHistory and its relocations are renumbered, and   *)
(* which members of an archive are taken.  A file is read to its end       *)
(* before the next, so at most one is in work, inside at most one archive. *)
(*                                                                         *)
(* An object is [secs, syms]; a section [name, type, skip, once, size,     *)
(* align, rels], `skip' for those not linked (debug, .eh_frame, unknown    *)
(* types), `once' for .gnu.linkonce; a relocation [off, sym]; a symbol     *)
(* [name, bind, vis, aset, sec, shndx, val], sec 0 when it belongs to no   *)
(* section of its object and shndx tells undefined from COMMON.            *)
(***************************************************************************)
EXTENDS LinkHistory, FiniteSetsExt, SequencesExt

CONSTANTS
  Item,       \* what a command line may hold: [kind, objs, index]
  MaxFiles,   \* bound: items on the command line
  MaxLoads    \* bound: objects loaded, members of archives included

Objects == UNION {Range(it.objs) : it \in Item}
SectionNames == UNION {{s.name : s \in Range(o.secs)} : o \in Objects}

\* What the symbols of files are entered with.
FileAttr == [bind : Bind, vis : Vis, aset : BOOLEAN, shndx : Shndx, val : Nat]

\* A relocation patches a byte of its section and names a symbol of its object.
SectionOK(o, s) ==
  /\ s.skip \in BOOLEAN /\ s.once \in BOOLEAN
  /\ s.skip \/ s.name \in Section
  /\ s.size \in Nat /\ s.align \in Nat \ {0}
  /\ s.rels \in Seq([off : 0 .. s.size - 1, sym : DOMAIN o.syms])

SymbolOK(o, y) ==
  /\ y.bind \in Bind /\ y.vis \in Vis /\ y.aset \in BOOLEAN /\ y.val \in Nat
  /\ y.bind # LOCALB => y.name \in Name
  /\ IF y.sec = 0 THEN y.shndx \in Shndx \ SectionNames
     ELSE y.sec \in DOMAIN o.secs /\ y.shndx # UNDEF

\* Files are as assemblers and compilers write them; a name says whether a
\* section is link-once, and then its copies are of one size.
ASSUME LoadingAssumption ==
  /\ MaxFiles \in Nat /\ MaxLoads \in Nat
  /\ None \notin FileAttr
  /\ \A it \in Item :
       /\ it.objs \in Seq(Objects)
       /\ it.kind = "object" => it.objs # << >>
       /\ it.index \in Seq([name : Name, member : DOMAIN it.objs])
  /\ \A o \in Objects :
       /\ o.secs \in Seq(Range(o.secs)) /\ \A s \in Range(o.secs) : SectionOK(o, s)
       /\ o.syms \in Seq(Range(o.syms)) /\ \A y \in Range(o.syms) : SymbolOK(o, y)
  /\ \A o, p \in Objects : \A s \in Range(o.secs), t \in Range(p.secs) :
       s.name = t.name => s.once = t.once /\ (s.once => s.size = t.size)

VARIABLES
  secs,      \* s1->sections: [type, cells, rels] by name
  loads,     \* history: the objects loaded, [obj, sm]
  work,      \* tcc_load_object_file in progress, or nothing
  scan,      \* tcc_load_archive in progress, or nothing
  nfiles,    \* items opened
  last,      \* history: the last archive read to its end, or nothing
  failed     \* the linker has returned with an error

lvars == <<secs, loads, work, scan, nfiles, last, failed>>
avars == <<table, clashed, claims, lvars>>

NoSym == [local |-> FALSE, name |-> "no symbol"]
Global(n) == [local |-> FALSE, name |-> n]
Local(shndx, val) == [local |-> TRUE, shndx |-> shndx, val |-> val]

Undefined == {n \in Name : table[n] # None /\ ~ Defined(table[n])}
Known == {n \in Name : table[n] # None /\ Defined(table[n])}

LInit ==
  /\ HInit
  /\ secs = << >> /\ loads = << >> /\ work = << >> /\ scan = << >>
  /\ nfiles = 0 /\ last = << >> /\ failed = FALSE

-----------------------------------------------------------------------------
(* tcc_load_object_file(): sections, then symbols, then relocations.       *)

\* Seeded bug: rounded down.
AlignUp_Down(n, a) == (n \div a) * a

AlignUp(n, a) == ((n + a - 1) \div a) * a

\* section_add(): the cells of section i of the n-th object, at an aligned offset.
Grown(cells, s, n, i) ==
  cells \o [k \in 1 .. AlignUp(Len(cells), s.align) - Len(cells) |-> <<0, 0, 0>>]
        \o [k \in 1 .. s.size |-> <<n, i, k - 1>>]

\* The SectionMergeInfo of one section: `how' is "none" for a section left out,
\* "once" for the second copy of a link-once section, "here" otherwise.
Sm(how, off) == [how |-> how, off |-> off]

\* The sections, with a new one if there is none of the name.
WithSection(S, s) ==
  [x \in DOMAIN S \cup {s.name} |->
     IF x \in DOMAIN S THEN S[x] ELSE [type |-> s.type, cells |-> << >>, rels |-> << >>]]

MergeOne(acc, s, n, i) ==
  LET found == s.name \in DOMAIN acc.secs
      S == WithSection(acc.secs, s)
      off == AlignUp(Len(S[s.name].cells), s.align)
      Takes(m) == [acc EXCEPT !.sm = Append(@, m)]
  IN  IF ~ acc.ok THEN acc
      ELSE IF s.skip THEN Takes(Sm("none", 0))
      ELSE IF found /\ S[s.name].type # s.type THEN [acc EXCEPT !.ok = FALSE]
      ELSE IF found /\ s.once THEN Takes(Sm("once", 0))
      ELSE [Takes(Sm("here", off)) EXCEPT
              !.secs = [S EXCEPT ![s.name].cells = Grown(@, s, n, i)]]

Merged(o, n) ==
  LET upto[i \in 0 .. Len(o.secs)] ==
        IF i = 0 THEN [secs |-> secs, sm |-> << >>, ok |-> TRUE]
        ELSE MergeOne(upto[i - 1], o.secs[i], n, i)
  IN  upto[Len(o.secs)]

\* Begin with object o: all its sections at once, or a section type conflict.
BeginLoad(o) ==
  LET m == Merged(o, Len(loads) + 1) IN
  /\ Len(loads) < MaxLoads
  /\ secs' = m.secs
  /\ IF m.ok
     THEN /\ work' = <<[obj |-> o, sm |-> m.sm, map |-> << >>]>>
          /\ UNCHANGED failed
     ELSE work' = << >> /\ failed' = TRUE

\* The next symbol of the object in work.
LoadSymbol ==
  /\ ~ failed /\ work # << >>
  /\ LET w == work[1]
         i == Len(w.map) + 1
         s == w.obj.syms[i]
         sm == w.sm[s.sec]
         Map(m) == work' = <<[w EXCEPT !.map = Append(@, m)]>>
         attr == [bind |-> s.bind, vis |-> s.vis, aset |-> s.aset,
                  shndx |-> IF s.sec = 0 THEN s.shndx ELSE w.obj.secs[s.sec].name,
                  val |-> IF s.sec = 0 THEN s.val ELSE s.val + sm.off]
     IN /\ i <= Len(w.obj.syms)
        /\ CASE s.sec # 0 /\ sm.how = "none" ->
                  Map(NoSym) /\ UNCHANGED hvars
             [] s.sec # 0 /\ sm.how = "once" ->
                  /\ Map(IF s.bind # LOCALB /\ table[s.name] # None
                         THEN Global(s.name) ELSE NoSym)
                  /\ UNCHANGED hvars
             [] OTHER ->
                  IF s.bind = LOCALB
                  THEN Map(Local(attr.shndx, attr.val)) /\ UNCHANGED hvars
                  ELSE Map(Global(s.name)) /\ HEnter(s.name, attr)
  /\ UNCHANGED <<secs, loads, scan, nfiles, last, failed>>

\* The relocations of section i of the object in work, as they are appended.
NewRels(w, i) ==
  [r \in DOMAIN w.obj.secs[i].rels |->
     [off |-> w.obj.secs[i].rels[r].off + w.sm[i].off,
      sym |-> w.map[w.obj.secs[i].rels[r].sym],
      from |-> <<Len(loads) + 1, i, r>>]]

\* Those of a section that is left out are left out too; a symbol that was not
\* entered may be named only by the second copy of a link-once section.
RelocatedSections(w) == {i \in DOMAIN w.obj.secs : w.sm[i].how # "none"}
BadReloc(w) ==
  \E i \in RelocatedSections(w) :
    w.sm[i].how # "once" /\ \E r \in DOMAIN w.obj.secs[i].rels :
                              w.map[w.obj.secs[i].rels[r].sym] = NoSym

\* What is appended to section x, one section of the object after the other.
MovedTo(w, x) ==
  LET upto[i \in 0 .. Len(w.obj.secs)] ==
        CASE i = 0 -> << >>
          [] i \in RelocatedSections(w) /\ w.obj.secs[i].name = x -> upto[i - 1] \o NewRels(w, i)
          [] OTHER -> upto[i - 1]
  IN  upto[Len(w.obj.secs)]

EndLoad ==
  /\ ~ failed /\ work # << >>
  /\ LET w == work[1] IN
     /\ Len(w.map) = Len(w.obj.syms)
     /\ IF BadReloc(w) \/ clashed
        THEN failed' = TRUE /\ UNCHANGED <<secs, loads>>
        ELSE /\ secs' = [x \in DOMAIN secs |-> [secs[x] EXCEPT !.rels = @ \o MovedTo(w, x)]]
             /\ loads' = Append(loads, [obj |-> w.obj, sm |-> w.sm])
             /\ UNCHANGED failed
     /\ work' = << >>
  /\ UNCHANGED <<hvars, scan, nfiles, last>>

-----------------------------------------------------------------------------
(* tcc_add_binary(): an object, an archive searched through its index, or  *)
(* one of which every member is loaded.                                    *)

Idle == ~ failed /\ work = << >> /\ scan = << >>

OpenObject(it) ==
  /\ Idle /\ nfiles < MaxFiles /\ it.kind = "object"
  /\ BeginLoad(it.objs[1])
  /\ nfiles' = nfiles + 1
  /\ UNCHANGED <<hvars, loads, scan, last>>

OpenArchive(it) ==
  /\ Idle /\ nfiles < MaxFiles /\ it.kind \in {"archive", "whole"}
  /\ scan' = <<[it |-> it, pos |-> 1, bound |-> 0,
                undef |-> Undefined, known |-> Known, got |-> << >>]>>
  /\ nfiles' = nfiles + 1
  /\ UNCHANGED <<hvars, secs, loads, work, last, failed>>

Scanning(kind) == ~ failed /\ work = << >> /\ scan # << >> /\ scan[1].it.kind = kind

Close(a) == /\ scan' = << >>
            /\ last' = <<[it |-> a.it, undef |-> a.undef, known |-> a.known, got |-> a.got]>>

\* One entry of the index in tcc_load_alacarte().
Lookup ==
  /\ Scanning("archive")
  /\ LET a == scan[1]
         e == a.it.index[a.pos]
     IN /\ a.pos <= Len(a.it.index)
        /\ IF e.name \in Undefined
           THEN /\ BeginLoad(a.it.objs[e.member])
                /\ scan' = <<[a EXCEPT !.pos = @ + 1, !.bound = @ + 1,
                                       !.got = Append(@, e.member)]>>
           ELSE scan' = <<[a EXCEPT !.pos = @ + 1]>> /\ UNCHANGED <<secs, work, failed>>
  /\ UNCHANGED <<hvars, loads, nfiles, last>>

\* Seeded bug: the index is gone through once.
EndOfIndex_OnePass ==
  /\ Scanning("archive")
  /\ scan[1].pos > Len(scan[1].it.index)
  /\ Close(scan[1])
  /\ UNCHANGED <<hvars, secs, loads, work, nfiles, failed>>

\* Seeded bug: the count of the pass before is not reset.
EndOfIndex_KeepsBound ==
  /\ Scanning("archive")
  /\ scan[1].pos > Len(scan[1].it.index)
  /\ IF scan[1].bound > 0
     THEN scan' = <<[scan[1] EXCEPT !.pos = 1]>> /\ UNCHANGED last
     ELSE Close(scan[1])
  /\ UNCHANGED <<hvars, secs, loads, work, nfiles, failed>>

\* while (bound)
EndOfIndex ==
  /\ Scanning("archive")
  /\ scan[1].pos > Len(scan[1].it.index)
  /\ IF scan[1].bound > 0
     THEN scan' = <<[scan[1] EXCEPT !.pos = 1, !.bound = 0]>> /\ UNCHANGED last
     ELSE Close(scan[1])
  /\ UNCHANGED <<hvars, secs, loads, work, nfiles, failed>>

\* The next member of an archive that is loaded whole.
NextMember ==
  /\ Scanning("whole")
  /\ LET a == scan[1] IN
     IF a.pos > Len(a.it.objs)
     THEN Close(a) /\ UNCHANGED <<secs, work, failed>>
     ELSE /\ BeginLoad(a.it.objs[a.pos])
          /\ scan' = <<[a EXCEPT !.pos = @ + 1, !.got = Append(@, a.pos)]>>
          /\ UNCHANGED last
  /\ UNCHANGED <<hvars, loads, nfiles>>

LNext ==
  \/ \E it \in Item : OpenObject(it) \/ OpenArchive(it)
  \/ LoadSymbol \/ EndLoad \/ Lookup \/ EndOfIndex \/ NextMember

\* The linker does not stop in the middle of a file.
LSpec == LInit /\ [][LNext]_avars
               /\ WF_avars(LoadSymbol) /\ WF_avars(EndLoad) /\ WF_avars(Lookup)
               /\ WF_avars(EndOfIndex) /\ WF_avars(NextMember)
-----------------------------------------------------------------------------
\* The cell a section-relative address falls on.
CellAt(x, off) == secs[x].cells[off + 1]

\* What relocation r of section i of the n-th object became.
Became(n, i, r) ==
  LET x == loads[n].obj.secs[i].name IN
  {k \in DOMAIN secs[x].rels : secs[x].rels[k].from = <<n, i, r>>}

\* Offset off of section x is where symbol s of the n-th object was: at the
\* same byte, or, for a label at the end of a section, in that section.
StandsFor(x, off, o, n, s) ==
  /\ s.sec # 0 /\ o.secs[s.sec].name = x
  /\ s.val < o.secs[s.sec].size => CellAt(x, off) = <<n, s.sec, s.val>>

\* Every relocation of every object is there once, patches the byte it patched
\* in its object wherever the section has gone, and still names its symbol: a
\* global one by name, a local one at the cell it stood for.  A relocation of
\* a link-once copy that was dropped patches the copy that was kept.
RelocationsFollow ==
  \A n \in DOMAIN loads :
    LET o == loads[n].obj
        sm == loads[n].sm
    IN \A i \in DOMAIN o.secs :
         sm[i].how # "none" =>
           \A r \in DOMAIN o.secs[i].rels :
             \E k \in Became(n, i, r) :
               LET x == o.secs[i].name
                   new == secs[x].rels[k]
                   old == o.secs[i].rels[r]
                   s == o.syms[old.sym]
                   hit == CellAt(x, new.off)
               IN /\ Became(n, i, r) = {k}
                  /\ hit[3] = old.off
                  /\ sm[i].how = "here" => (hit[1] = n /\ hit[2] = i)
                  /\ sm[i].how = "once" => loads[hit[1]].obj.secs[hit[2]].name = x
                  /\ (s.bind # LOCALB /\ new.sym # NoSym) => new.sym = Global(s.name)
                  /\ (s.bind = LOCALB /\ s.sec # 0 /\ new.sym # NoSym) =>
                       StandsFor(new.sym.shndx, new.sym.val, o, n, s)

\* A global symbol defined in a section is, in the linked sections, where some
\* object that defines it has it.
DefinitionsFollow ==
  LET objects == [n \in DOMAIN loads |-> loads[n].obj] \o [n \in DOMAIN work |-> work[n].obj]
  IN \A f \in Name :
       table[f] # None /\ table[f].shndx \in DOMAIN secs =>
         \E n \in DOMAIN objects : \E s \in Range(objects[n].syms) :
           /\ s.name = f /\ s.bind # LOCALB
           /\ StandsFor(table[f].shndx, table[f].val, objects[n], n, s)

\* However many objects were merged and whatever their alignments, sections and
\* symbols move together (tcc_load_object_file).
PlacedRight == ~ failed => RelocationsFollow /\ DefinitionsFollow

Defs(o) == {s.name : s \in {t \in Range(o.syms) : t.bind # LOCALB /\ t.shndx # UNDEF}}
Refs(o) == {s.name : s \in {t \in Range(o.syms) : t.bind # LOCALB /\ t.shndx = UNDEF}}

\* The index lists what the members define, in sections that are linked.
Truthful(it) ==
  /\ \A e \in Range(it.index) : e.name \in Defs(it.objs[e.member])
  /\ \A m \in DOMAIN it.objs : \A n \in Defs(it.objs[m]) :
       \E e \in Range(it.index) : e.name = n /\ e.member = m
  /\ \A m \in DOMAIN it.objs : \A i \in DOMAIN it.objs[m].secs :
       ~ it.objs[m].secs[i].skip /\ ~ it.objs[m].secs[i].once

OneDefiner(it) ==
  \A m, k \in DOMAIN it.objs : m # k => Defs(it.objs[m]) \cap Defs(it.objs[k]) = {}

\* Set S of members holds whatever the names undefined at the start need.
Closed(a, S) ==
  \A n \in (a.undef \cup UNION {Refs(a.it.objs[m]) : m \in S}) \ a.known :
    \A m \in DOMAIN a.it.objs : n \in Defs(a.it.objs[m]) => m \in S

\* From an archive with an index, exactly the members that what is undefined
\* needs, directly or through one another, are linked, each once, in whatever
\* order the index lists them (the repeated passes of tcc_load_alacarte).
ClosureLoaded ==
  \A a \in Range(last) :
    /\ IsInjective(a.got) \/ ~ Truthful(a.it)
    /\ a.it.kind = "archive" /\ Truthful(a.it) /\ OneDefiner(a.it) =>
         /\ Closed(a, Range(a.got))
         /\ \A S \in SUBSET DOMAIN a.it.objs : Closed(a, S) => Range(a.got) \subseteq S

\* The passes over an index come to an end (while (bound) in
\* tcc_load_alacarte), provided the index is truthful.
ScanEnds ==
  (scan # << >> /\ Truthful(scan[1].it)) ~> (scan = << >> \/ failed)
=============================================================================
