---------------------------- MODULE StructLayout ----------------------------
(***************************************************************************)
(* struct_decl() and struct_layout() in tccgen.c: where the members of a   *)
(* struct or union go, by gcc's rules or, with -mms-bitfields, by those of *)
(* MSVC; and vstore(), gv(), load_packed_bf(), store_packed_bf(): which    *)
(* bits of the object an access to a member touches.                       *)
(*                                                                         *)
(* One step lays out one member, as one round of struct_layout()'s first   *)
(* loop does; LayoutEnd rounds the size and chooses for every bit-field    *)
(* the unit it is accessed by.  A scalar type is as aligned as it is long. *)
(***************************************************************************)
EXTENDS Integers, Sequences, FiniteSets

CONSTANTS
  Member,     \* [bt, width, anon, packed, aligned]; width Plain: no bit-field
  Layout,     \* [pcc, union, pack, packed, aligned]
  MaxMembers

Plain == -1
TypeSize == [bool |-> 1, char |-> 1, short |-> 2, int |-> 4, llong |-> 8]

\* `aligned' and #pragma pack are powers of two, 0 if there is none; a width is
\* what fits six bits, or the 64 that is taken back again.
ASSUME LayoutAssumption ==
  /\ MaxMembers \in Nat
  /\ Member \subseteq [bt : DOMAIN TypeSize, width : Plain .. 64, anon : BOOLEAN,
                       packed : BOOLEAN, aligned : Nat]
  /\ Layout \subseteq [pcc : BOOLEAN, union : BOOLEAN, pack : {0, 1, 2, 4, 8, 16},
                       packed : {"no", "before", "after"}, aligned : Nat]

VARIABLES
  how,      \* the flags, #pragma pack and attributes in force
  members,  \* members laid out: the size of the type it has now, off in bytes, pos
            \* in bits from there, unit: auxtype, the size of the type it is
            \* accessed by instead of its own; 0: its own; 7: byte by byte
  lay,      \* locals of struct_layout(): c, bit_pos, prevbt, prev_bit_size, maxalign, offset
  extent    \* [size, align] of the type; size -1 while it is incomplete

layout_vars == <<how, members, lay, extent>>

MaxOf(a, b) == IF a < b THEN b ELSE a
MinOf(a, b) == IF a < b THEN a ELSE b
Up(n, a) == ((n + a - 1) \div a) * a
BytesOf(bits) == (bits + 7) \div 8

LayoutInit ==
  /\ how \in Layout
  /\ members = << >>
  /\ lay = [c |-> 0, bit_pos |-> 0, prevbt |-> "none", prev_bit_size |-> 0,
            maxalign |-> 1, offset |-> 0]
  /\ extent = [size |-> -1, align |-> 0]

-----------------------------------------------------------------------------
\* struct_decl(): the declarations it accepts.
Accepted(f) ==
  /\ f.width <= 8 * TypeSize[f.bt]
  /\ f.width = 0 => f.anon
  /\ f.anon => f.width # Plain
  /\ f.width = 64 => how.pack = 0 /\ how.packed # "before" /\ ~ f.packed

\* A bit-field as wide as its type is a plain member, unless something packs it
\* that was said before it.
AsDeclared(f) ==
  IF f.width = 8 * TypeSize[f.bt] /\ how.pack = 0 /\ how.packed # "before" /\ ~ f.packed
  THEN [f EXCEPT !.width = Plain] ELSE f

\* The member's alignment, and whether it may straddle: [align, packed].
Alignment(f) ==
  LET zero   == how.pcc /\ f.width = 0
      tight  == ~ zero /\ how.pcc /\ (f.packed \/ how.packed # "no")
      capped == ~ zero /\ how.pack # 0
      own    == IF tight THEN 1 ELSE TypeSize[f.bt]
      asked  == IF capped /\ how.pcc /\ how.pack < f.aligned THEN 0 ELSE f.aligned
  IN [align  |-> IF asked # 0 THEN asked ELSE IF capped THEN MinOf(how.pack, own) ELSE own,
      packed |-> tight \/ capped]

At(f, off, pos, size) ==
  [bt |-> f.bt, width |-> f.width, anon |-> f.anon, packed |-> f.packed,
   aligned |-> f.aligned, size |-> size, off |-> off, pos |-> pos, unit |-> 0]

\* Every member of a union is at its start.
InUnion(f, al) ==
  LET size == IF how.pcc /\ f.width >= 0 THEN BytesOf(f.width) ELSE TypeSize[f.bt] IN
  [lay |-> [lay EXCEPT !.c = MaxOf(@, size), !.offset = 0],
   f |-> At(f, 0, 0, TypeSize[f.bt]), align |-> al.align]

PlainMember(f, al) ==
  LET c == Up(lay.c + (IF how.pcc THEN BytesOf(lay.bit_pos) ELSE 0), al.align) IN
  [lay |-> [lay EXCEPT !.c = c + TypeSize[f.bt], !.offset = c, !.bit_pos = 0,
                       !.prevbt = "none", !.prev_bit_size = 0],
   f |-> At(f, c, 0, TypeSize[f.bt]), align |-> al.align]

\* Seeded bug: a bit-field that would straddle two units is left where it is.
PccFresh_Straddle(f, al) == f.width = 0 \/ f.aligned # 0

\* gcc: a bit-field begins a new unit if it is told to or would straddle two.
PccFresh(f, al) ==
  LET a8 == 8 * al.align IN
  \/ f.width = 0
  \/ f.aligned # 0
  \/ /\ ~ al.packed
     /\ (((lay.c * 8 + lay.bit_pos) % a8) + f.width + a8 - 1) \div a8
          > TypeSize[f.bt] \div al.align

PccBitField(f, al) ==
  LET fresh == PccFresh(f, al)
      c     == IF fresh THEN Up(lay.c + BytesOf(lay.bit_pos), al.align) ELSE lay.c
      pos   == IF fresh THEN 0 ELSE lay.bit_pos
      over  == (pos \div (8 * al.align)) * al.align
      size  == IF TypeSize[f.bt] = 8 /\ f.width <= 32 THEN 4 ELSE TypeSize[f.bt]
  IN [lay |-> [lay EXCEPT !.c = c + over, !.offset = c + over,
                          !.bit_pos = pos - 8 * over + f.width],
      f |-> At(f, c + over, pos - 8 * over, size),
      align |-> IF f.anon THEN 1 ELSE al.align]

\* MSVC: a run of bit-fields of one type shares units of that type.  A field
\* of no width ends a run, and is nothing where there is none.
MsBitField(f, al) ==
  LET fresh == \/ lay.bit_pos + f.width > 8 * TypeSize[f.bt]
               \/ (f.width > 0) = (f.bt # lay.prevbt)
      c     == IF fresh THEN Up(lay.c, al.align) ELSE lay.c
      off   == IF fresh THEN c ELSE lay.offset
      pos   == IF fresh THEN 0 ELSE lay.bit_pos
      takes == fresh /\ (f.width # 0 \/ lay.prev_bit_size # 0)
  IN [lay |-> [lay EXCEPT !.c = IF takes THEN c + TypeSize[f.bt] ELSE c, !.offset = off,
                          !.bit_pos = pos + f.width,
                          !.prevbt = f.bt, !.prev_bit_size = f.width],
      f |-> At(f, off, pos, TypeSize[f.bt]),
      align |-> IF f.width = 0 /\ lay.prevbt # f.bt THEN 1 ELSE al.align]

PlacedMember(f) ==
  LET al == Alignment(f) IN
  IF how.union THEN InUnion(f, al)
  ELSE IF f.width = Plain THEN PlainMember(f, al)
  ELSE IF how.pcc THEN PccBitField(f, al)
  ELSE MsBitField(f, al)

LayMember ==
  /\ extent.size = -1 /\ Len(members) < MaxMembers
  /\ \E d \in Member :
       /\ Accepted(d)
       /\ LET p == PlacedMember(AsDeclared(d)) IN
          /\ lay' = [p.lay EXCEPT !.maxalign = MaxOf(@, p.align)]
          /\ members' = Append(members, p.f)
  /\ UNCHANGED <<how, extent>>

-----------------------------------------------------------------------------
\* The smallest integer type of at least so many bits.
UnitFor(bits) ==
  CASE bits > 32 -> 8 [] bits \in 17 .. 32 -> 4 [] bits \in 9 .. 16 -> 2 [] OTHER -> 1

\* Looks for an aligned unit around the bits from `at' on: the one of size s,
\* then the one its size asks for, until the place stays the same.  The sizes only
\* grow, so it does within four rounds.
Search(at, width) ==
  LET place(s) == ((at \div 8) \div s) * s
      asked(s) == UnitFor(at - 8 * place(s) + width)
      s1 == asked(1)
      s2 == asked(s1)
      s3 == asked(s2)
      tried == <<1, s1, s2, s3, asked(s3)>>
      end == CHOOSE k \in 2 .. 5 :
               /\ place(tried[k]) = place(tried[k - 1])
               /\ \A j \in 2 .. k - 1 : place(tried[j]) # place(tried[j - 1])
  IN [off |-> place(tried[end]), pos |-> at - 8 * place(tried[end]), size |-> tried[end]]

\* Seeded bug: the unit found may reach beyond the end of the object.
Accessed_Beyond(f, size) ==
  IF f.width <= 0 \/ (f.pos + f.width <= 8 * f.size /\ f.off + f.size <= size)
  THEN f
  ELSE LET u == Search(8 * f.off + f.pos, f.width) IN
       IF u.pos + f.width <= 8 * u.size
       THEN [f EXCEPT !.off = u.off, !.pos = u.pos,
                      !.unit = IF u.size # f.size THEN u.size ELSE 0]
       ELSE [f EXCEPT !.unit = 7]

\* The member with the unit it is accessed by in an object of this size.
Accessed(f, size) ==
  IF f.width <= 0 \/ (f.pos + f.width <= 8 * f.size /\ f.off + f.size <= size)
  THEN f
  ELSE LET u == Search(8 * f.off + f.pos, f.width) IN
       IF u.pos + f.width <= 8 * u.size /\ u.off + u.size <= size
       THEN [f EXCEPT !.off = u.off, !.pos = u.pos,
                      !.unit = IF u.size # f.size THEN u.size ELSE 0]
       ELSE [f EXCEPT !.unit = 7]

LayoutEnd ==
  LET asked == MaxOf(how.aligned, 1)
      a     == MaxOf(asked, lay.maxalign)
      round == IF how.pack # 0 /\ how.pack < lay.maxalign /\ ~ how.pcc
               THEN MaxOf(how.pack, asked) ELSE a
      size  == Up(lay.c + (IF how.pcc THEN BytesOf(lay.bit_pos) ELSE 0), round)
  IN
  /\ extent.size = -1 /\ members # << >>
  /\ extent' = [size |-> size, align |-> a]
  /\ members' = [i \in DOMAIN members |-> Accessed(members[i], size)]
  /\ UNCHANGED <<how, lay>>

LayoutNext == LayMember \/ LayoutEnd

LayoutSpec == LayoutInit /\ [][LayoutNext]_layout_vars

-----------------------------------------------------------------------------
\* load_packed_bf() and store_packed_bf(): one byte after the other, as many bits
\* of each as are left, from bit `bit' of byte o on.
Bytewise(o, bit, width) ==
  LET from[k \in 0 .. width] ==
        IF k = 0 THEN [byte |-> o, bit |-> bit, n |-> MinOf(8 - bit, width), left |-> width]
        ELSE LET p == from[k - 1]
                 left == p.left - p.n
             IN
             [byte |-> o + k, bit |-> 0, n |-> MinOf(8, left), left |-> left]
  IN {from[k] : k \in {j \in 0 .. width : from[j].left > 0}}

\* The accesses by which gv() reads and vstore() writes a member: [at, bytes],
\* and `bits', the bits of the object its value is kept in.
Access(f) ==
  LET own == IF f.unit = 0 THEN f.size ELSE f.unit
      ps  == Bytewise(f.off + f.pos \div 8, f.pos % 8, f.width)
      B(first, n) == first .. first + n - 1
  IN CASE f.width = Plain ->
            [bytes |-> B(f.off, own), bits |-> B(8 * f.off, 8 * own)]
       [] f.width # Plain /\ f.unit = 7 ->
            [bytes |-> {p.byte : p \in ps}, bits |-> UNION {B(8 * p.byte + p.bit, p.n) : p \in ps}]
       [] f.width # Plain /\ f.unit # 7 ->
            [bytes |-> B(f.off, own),
             bits |-> B(8 * f.off + f.pos, MinOf(f.width, 8 * own - f.pos))]

Real == {i \in DOMAIN members : members[i].width # 0}

\* In MSVC's mode a bit-field of no width whose type is not that of a run going on,
\* or that follows another, makes a bit-field of its type behind it continue a run
\* that was never begun.
NeverBegun ==
  ~ how.pcc /\ ~ how.union /\
  \E i \in DOMAIN members :
     /\ members[i].width = 0
     /\ i = 1 \/ members[i - 1].width \in {Plain, 0} \/ members[i - 1].bt # members[i].bt

\* Whatever members are declared and however they are packed: no member shares
\* a bit with another, each has all its bits, is accessed only inside the object
\* and, if it is no bit-field, as aligned as it was asked to be.
NoOverlap ==
  LET acc == [i \in Real |-> Access(members[i])] IN
  /\ \A i \in Real :
       /\ acc[i].bytes \subseteq 0 .. extent.size - 1
       /\ members[i].width # Plain => Cardinality(acc[i].bits) = members[i].width
       /\ members[i].width = Plain => members[i].off % Alignment(members[i]).align = 0
  /\ ~ how.union => \A i, j \in Real : i # j => acc[i].bits \cap acc[j].bits = {}

MembersApart == extent.size # -1 /\ ~ NeverBegun => NoOverlap

-----------------------------------------------------------------------------
(* gcc's rule, on one counter of bits: a member goes to the next multiple  *)
(* of its alignment, except that a bit-field stays where the last member   *)
(* ended if it is packed or its bits lie within one unit of its type.      *)

AbiPacked(m) == m.packed \/ how.packed # "no" \/ how.pack # 0

\* Packing counts for less than `aligned', `aligned' for less than #pragma pack.
AbiAlign(m) ==
  LET natural == IF m.packed \/ how.packed # "no" THEN 1 ELSE TypeSize[m.bt]
      limits  == {8} \cup ({how.pack} \ {0})
  IN IF m.width = 0 THEN (IF m.aligned # 0 THEN m.aligned ELSE TypeSize[m.bt])
     ELSE IF m.aligned # 0 /\ (how.pack = 0 \/ m.aligned <= how.pack) THEN m.aligned
     ELSE CHOOSE a \in limits \cup {natural} : \A b \in limits \cup {natural} : a <= b

\* The first bit of a member declared when p bits are used.
AbiFirst(m, p) ==
  LET unit == 8 * TypeSize[m.bt]
      stays == m.width > 0 /\ m.aligned = 0
                 /\ (AbiPacked(m) \/ p \div unit = (p + m.width - 1) \div unit)
  IN IF stays THEN p ELSE Up(p, 8 * AbiAlign(m))

\* The bits used by the first k members.
AbiEnd(k) ==
  LET end[j \in 0 .. Len(members)] ==
        IF j = 0 THEN 0
        ELSE AbiFirst(members[j], end[j - 1])
               + (IF members[j].width = Plain THEN 8 * TypeSize[members[j].bt] ELSE members[j].width)
  IN end[k]

\* An unnamed bit-field as wide as its type counts for the alignment of the struct,
\* where gcc's does not.
UnnamedWhole == \E i \in DOMAIN members : members[i].anon /\ members[i].width = Plain

\* Without -mms-bitfields a struct is laid out as gcc does: the first bit of every
\* member, the size and the alignment, whatever way c, bit_pos and the unit found
\* for the access divide the position.
LayoutIsAbi ==
  extent.size # -1 /\ how.pcc /\ ~ how.union =>
    LET aligns == {MaxOf(how.aligned, 1)}
                    \cup {AbiAlign(members[i]) : i \in {k \in DOMAIN members : ~ members[k].anon}}
        a == CHOOSE x \in aligns : \A y \in aligns : y <= x
    IN /\ \A i \in Real :
            8 * members[i].off + members[i].pos = AbiFirst(members[i], AbiEnd(i - 1))
       /\ ~ UnnamedWhole =>
            extent = [size |-> Up(AbiEnd(Len(members)), 8 * a) \div 8, align |-> a]

\* doc/tcc-doc.texi:508: with -mms-bitfields the layout is MSVC's; there no member
\* lies on another.
DocMsBitFields == extent.size # -1 /\ ~ how.pcc => NoOverlap
=============================================================================
