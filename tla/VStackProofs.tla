---------------------------- MODULE VStackProofs ----------------------------
(***************************************************************************)
(* For any size of arr_temp_local_vars and any bounds: no two values that  *)
(* the value stack keeps on the frame overlap, unless they are copies of   *)
(* one another.                                                            *)
(*                                                                         *)
(* SlotsDisjoint alone says nothing of the slots that no entry refers to at*)
(* the moment, nor of entries in registers, which get one slot together    *)
(* when the register is saved: those of one register must then be copies.  *)
(* Sound says both.  Suppressed code saves nothing, so there entries in one*)
(* register need not be copies; what is sound again when code goes on is   *)
(* the stack below the suppressed arm (BackOk).  And two arms are joined   *)
(* without saving anything, which needs that all below them was saved when *)
(* they parted (SavedOk).  VInv is all this.                               *)
(*                                                                         *)
(* Every function of the compiler is shown to build a sound stack from one *)
(* and to keep the entries below its operands (Stay, Onto); then every     *)
(* action to preserve VInv.                                                *)
(***************************************************************************)
EXTENDS VStack, FiniteSetTheorems, SequenceTheorems, WellFoundedInduction, TLAPS
-----------------------------------------------------------------------------
(***************************************************************************)
(* What is always true of the entries, the slots and the registers.        *)
(***************************************************************************)
Types == {"int", "ptr"}
Kinds == Reg \cup {"const", "cmp", "local", "llocal"}
Contents == {"junk", "0", "3", "&g"}
Descriptor == [r : Kinds, lval : BOOLEAN, r2 : Nat, c : Nat, v : Contents, t : Types]

\* What is on the frame is an object; what is in the flags is a truth value.
Proper(e) ==
  /\ e.r \in {"local", "llocal"} => e.lval
  /\ e.r = "cmp" => ~ e.lval /\ e.t = "int"
Entries == {e \in Descriptor : Proper(e)}
Temps == [location : Nat, size : 1 .. 2]

\* The room an entry takes on the frame, and that two ranges have no cell in common.
Width(e) == IF e.r = "llocal" THEN 2 ELSE Size(e.t)
Apart(a, m, b, n) == a <= b - n \/ b <= a - m

\* The recorded slots lie apart from each other, between the variables and loc.
Laid(T, L) ==
  /\ \A i \in DOMAIN T : Locals + T[i].size <= T[i].location /\ T[i].location <= L
  /\ \A i, j \in DOMAIN T :
       i # j => Apart(T[i].location, T[i].size, T[j].location, T[j].size)

\* The entry is in the slot it refers to, or in one of its own that is not recorded.
Recorded(e, T) ==
  e.r2 \in DOMAIN T /\ e.c = T[e.r2].location /\ Width(e) <= T[e.r2].size
Unrecorded(e, T, L) ==
  /\ e.r2 = 0 /\ Locals + Width(e) <= e.c /\ e.c <= L
  /\ \A i \in DOMAIN T : Apart(e.c, Width(e), T[i].location, T[i].size)
Homed(e, T, L) == Recorded(e, T) \/ Unrecorded(e, T, L)
Beside(d, e) == d = e \/ Apart(d.c, Width(d), e.c, Width(e))
Slots(s, T, L) ==
  \A j \in DOMAIN s : InSlot(s[j]) =>
    /\ Homed(s[j], T, L)
    /\ \A k \in DOMAIN s : InSlot(s[k]) => Beside(s[j], s[k])

\* Entries in one register are copies of one place; the flags hold the top entry only.
Shared(s) ==
  /\ \A j, k \in DOMAIN s :
       j # k /\ s[j].r \in Reg /\ s[j].r = s[k].r => s[j] = s[k] /\ s[j].lval /\ s[j].t = "int"
  /\ \A k \in DOMAIN s : s[k].r = "cmp" => k = Len(s)

Sound(s, T, L, live) ==
  /\ s \in Seq(Entries) /\ T \in Seq(Temps) /\ L \in Nat /\ L >= Locals
  /\ Laid(T, L) /\ Slots(s, T, L)
  /\ live => Shared(s)

Live == nocode_wanted = 0
Rec(m) == m = [vs |-> m.vs, temps |-> m.temps, loc |-> m.loc, worlds |-> m.worlds]
Good(m) == Rec(m) /\ nocode_wanted \in Nat /\ Sound(m.vs, m.temps, m.loc, Live)

\* x is m with the stack s, whatever has been executed.
With(m, x, s) == Rec(x) /\ x.vs = s /\ x.temps = m.temps /\ x.loc = m.loc

\* The b lowest entries have kept their places, in suppressed code as they were and
\* otherwise but for what was in registers or the flags.
Low(m, x, b) ==
  /\ b \in Nat /\ b <= Len(m.vs) /\ b <= Len(x.vs)
  /\ \A k \in 1 .. b :
       (Live /\ m.vs[k].r \in Reg \cup {"cmp"}) \/ x.vs[k] = m.vs[k]
  /\ ~ Live => x.temps = m.temps /\ x.loc = m.loc
-----------------------------------------------------------------------------
(* Updates of entries.                                                     *)

\* Loaded into r; the register alone replaced; moved to the frame; the object an
\* address points to; a constant folded.
AsValue(e, r) == [e EXCEPT !.r = r, !.lval = FALSE]
InsteadIn(e, r) == [e EXCEPT !.r = r]
OnFrame(e, r, r2, c) == [e EXCEPT !.r = r, !.lval = TRUE, !.r2 = r2, !.c = c]
AsObject(e) == [e EXCEPT !.lval = TRUE, !.t = "int"]
Folded(e) == [e EXCEPT !.v = "3"]

\* gv(), LoadTop(): a loaded entry is a value in that register.
LEMMA Loading ==
  ASSUME NEW e \in Entries, NEW r \in Reg
  PROVE  /\ AsValue(e, r) \in Entries /\ AsValue(e, r).r = r /\ AsValue(e, r).lval = FALSE
         /\ AsValue(e, r).t = e.t /\ ~ InSlot(AsValue(e, r))
  BY DEF AsValue, Entries, Descriptor, Proper, Kinds, Reg, InSlot

\* get_reg() and load() of an address: only the register changes.
LEMMA Replacing ==
  ASSUME NEW e \in Entries, NEW r \in Reg
  PROVE  /\ InsteadIn(e, r) \in Entries /\ InsteadIn(e, r).r = r
         /\ InsteadIn(e, r).lval = e.lval /\ InsteadIn(e, r).t = e.t /\ ~ InSlot(InsteadIn(e, r))
  BY DEF InsteadIn, Entries, Descriptor, Proper, Kinds, Reg, InSlot

\* save_reg_upstack(): what is moved to the frame is an object there.
LEMMA Spilling ==
  ASSUME NEW e \in Entries, NEW r, r = "local" \/ r = "llocal", NEW r2 \in Nat, NEW c \in Nat
  PROVE  LET x == OnFrame(e, r, r2, c) IN
         /\ x \in Entries /\ x.r = r /\ x.r2 = r2 /\ x.c = c /\ x.t = e.t
         /\ (r = "llocal" => Width(x) = 2) /\ (r # "llocal" => Width(x) = Size(e.t))
<1> DEFINE x == OnFrame(e, r, r2, c)
<1>1. e.t \in Types /\ e \in Descriptor
  BY DEF Entries, Descriptor
<1>2. x \in Descriptor /\ x.r = r /\ x.lval = TRUE /\ x.r2 = r2 /\ x.c = c /\ x.t = e.t
  BY <1>1 DEF Descriptor, Kinds, OnFrame
<1> HIDE DEF x
<1>3. x \in Entries
  BY <1>2 DEF Entries, Proper
<1>4. (r = "llocal" => Width(x) = 2) /\ (r # "llocal" => Width(x) = Size(e.t))
  BY <1>2 DEF Width
<1> QED
  BY <1>2, <1>3, <1>4 DEF x

\* indir(): the object an address in a register or a constant points to.
LEMMA Pointing ==
  ASSUME NEW e \in Entries, e.r # "cmp", ~ InSlot(e), e.r # "local"
  PROVE  AsObject(e) \in Entries /\ AsObject(e).r = e.r /\ ~ InSlot(AsObject(e))
  BY DEF AsObject, Entries, Descriptor, Proper, Kinds, Reg, InSlot, Types

\* Forgetting unused fields changes nothing that counts, and twice is once.
LEMMA Tidying ==
  ASSUME NEW e \in Entries
  PROVE  LET x == Tidy(e) IN
         /\ x \in Entries /\ x.r = e.r /\ x.lval = e.lval /\ x.t = e.t
         /\ InSlot(x) <=> InSlot(e)
         /\ e.r \in {"local", "llocal"} => x = e
         /\ Tidy(x) = x
<1> DEFINE x == [e EXCEPT !.r2 = 0, !.c = 0, !.v = "junk"]
<1>1. e \in Descriptor /\ Proper(e)
  BY DEF Entries
<1>2. /\ x \in Descriptor /\ x.r = e.r /\ x.lval = e.lval /\ x.t = e.t
      /\ x.r2 = 0 /\ x.c = 0 /\ x.v = "junk"
  BY <1>1 DEF Descriptor, Contents
<1>3. [x EXCEPT !.r2 = 0, !.c = 0, !.v = "junk"] = x
  <2> HIDE DEF x
  <2> DEFINE y == [x EXCEPT !.r2 = 0, !.c = 0, !.v = "junk"]
  <2>1. y \in Descriptor /\ y.r = x.r /\ y.lval = x.lval /\ y.t = x.t /\ y.r2 = 0 /\ y.c = 0 /\ y.v = "junk"
    BY <1>2 DEF Descriptor, Contents
  <2> HIDE DEF y
  <2>2. y = x
    BY <1>2, <2>1 DEF Descriptor
  <2> QED
    BY <2>2 DEF y
<1>4. x \in Entries
  BY <1>1, <1>2 DEF Entries, Proper
<1>5. CASE e.r \in Reg \cup {"cmp"}
  <2>1. Tidy(e) = x
    BY <1>5 DEF Tidy
  <2> HIDE DEF x
  <2>2. Tidy(x) = [x EXCEPT !.r2 = 0, !.c = 0, !.v = "junk"]
    BY <1>5, <1>2 DEF Tidy
  <2>3. ~ InSlot(x) /\ ~ InSlot(e) /\ e.r \notin {"local", "llocal"}
    BY <1>5, <1>2 DEF InSlot, Reg
  <2> QED
    BY <1>2, <1>4, <2>1, <2>2, <2>3, <1>3 DEF x
<1>6. CASE e.r \notin Reg \cup {"cmp"}
  BY <1>6 DEF Tidy
<1> QED
  BY <1>5, <1>6

\* gen_opic(): a folded constant is a constant.
LEMMA Constants ==
  ASSUME NEW e \in Entries, e.r = "const"
  PROVE  Folded(e) \in Entries /\ Folded(e).r = "const"
  BY DEF Folded, Entries, Descriptor, Proper, Kinds, Contents

\* The entries the compiler pushes.
LEMMA Simple ==
  /\ \A t \in Types : Const("0", t) \in Entries /\ Const("3", t) \in Entries /\ Const("&g", t) \in Entries
                      /\ Const("0", t).r = "const" /\ Const("3", t).r = "const" /\ Const("&g", t).r = "const"
  /\ InReg("rax", "int") \in Entries /\ InReg("rax", "int").r = "rax"
  /\ InReg("cmp", "int") \in Entries /\ InReg("cmp", "int").r = "cmp"
  BY DEF Const, InReg, Entry, Entries, Descriptor, Proper, Kinds, Reg, Types, Contents
-----------------------------------------------------------------------------
(* Changes of the stack that keep it sound.                                *)

\* Slots of entries that were there before are laid out as they were.
LEMMA SlotsFrom ==
  ASSUME NEW s, NEW T, NEW L, Slots(s, T, L),
         NEW s2, \A k \in DOMAIN s2 : InSlot(s2[k]) => \E j \in DOMAIN s : s2[k] = s[j]
  PROVE  Slots(s2, T, L)
<1> SUFFICES ASSUME NEW j \in DOMAIN s2, InSlot(s2[j])
             PROVE  /\ Homed(s2[j], T, L)
                    /\ \A k \in DOMAIN s2 : InSlot(s2[k]) => Beside(s2[j], s2[k])
  BY DEF Slots
<1>1. PICK a \in DOMAIN s : s2[j] = s[a]
  OBVIOUS
<1>2. ASSUME NEW k \in DOMAIN s2, InSlot(s2[k]) PROVE Beside(s2[j], s2[k])
  <2>1. PICK b \in DOMAIN s : s2[k] = s[b]
    BY <1>2
  <2> QED
    BY <1>1, <1>2, <2>1 DEF Slots
<1> QED
  BY <1>1, <1>2 DEF Slots

\* Some of the entries, each once, in any order.
Picked(s, s2, f, live) ==
  /\ \A k \in DOMAIN s2 : f[k] \in DOMAIN s /\ s2[k] = s[f[k]]
  /\ \A j, k \in DOMAIN s2 : f[j] = f[k] => j = k
  /\ live => \A k \in DOMAIN s2 : s2[k].r = "cmp" => k = Len(s2)

\* A stack made of entries of a sound one, none taken twice, is sound.
LEMMA PickSound ==
  ASSUME NEW s, NEW T, NEW L, NEW live, Sound(s, T, L, live), NEW s2 \in Seq(Entries), NEW f,
         Picked(s, s2, f, live)
  PROVE  Sound(s2, T, L, live)
<1>0. /\ \A k \in DOMAIN s2 : f[k] \in DOMAIN s /\ s2[k] = s[f[k]]
      /\ \A j, k \in DOMAIN s2 : f[j] = f[k] => j = k
      /\ live => \A k \in DOMAIN s2 : s2[k].r = "cmp" => k = Len(s2)
  BY DEF Picked
<1>1. Slots(s2, T, L)
  <2>1. \A k \in DOMAIN s2 : \E j \in DOMAIN s : s2[k] = s[j]
    BY <1>0
  <2> QED
    BY <2>1, SlotsFrom DEF Sound
<1>2. ASSUME live PROVE Shared(s2)
  <2>1. ASSUME NEW j \in DOMAIN s2, NEW k \in DOMAIN s2, j # k, s2[j].r \in Reg, s2[j].r = s2[k].r
        PROVE  s2[j] = s2[k] /\ s2[j].lval /\ s2[j].t = "int"
    <3>1. f[j] # f[k] /\ f[j] \in DOMAIN s /\ f[k] \in DOMAIN s /\ s2[j] = s[f[j]] /\ s2[k] = s[f[k]]
      BY <1>0, <2>1
    <3>2. Shared(s)
      BY <1>2 DEF Sound
    <3> QED
      BY <2>1, <3>1, <3>2 DEF Shared
  <2> QED
    BY <1>0, <1>2, <2>1 DEF Shared
<1> QED
  BY <1>1, <1>2 DEF Sound

\* An entry outside the frame takes the place of another.
LEMMA PutSound ==
  ASSUME NEW s, NEW T, NEW L, NEW live, Sound(s, T, L, live),
         NEW i \in 1 .. Len(s), NEW e \in Entries, ~ InSlot(e),
         live => /\ e.r \in Reg => \A j \in 1 .. Len(s) : j # i => s[j].r # e.r
                 /\ e.r = "cmp" => i = Len(s)
  PROVE  LET x == [s EXCEPT ![i] = e] IN
         /\ Sound(x, T, L, live) /\ Len(x) = Len(s) /\ x[i] = e
         /\ \A k \in 1 .. Len(s) : k # i => x[k] = s[k]
<1> DEFINE x == [s EXCEPT ![i] = e]
<1>1. s \in Seq(Entries) /\ Slots(s, T, L)
  BY DEF Sound
<1>2. /\ x \in Seq(Entries) /\ Len(x) = Len(s) /\ x[i] = e
      /\ DOMAIN x = 1 .. Len(s) /\ DOMAIN s = 1 .. Len(s)
      /\ \A k \in 1 .. Len(s) : k # i => x[k] = s[k]
  BY <1>1
<1> HIDE DEF x
<1>3. Slots(x, T, L)
  <2>1. \A k \in DOMAIN x : InSlot(x[k]) => \E j \in DOMAIN s : x[k] = s[j]
    BY <1>2
  <2> QED
    BY <2>1, <1>1, SlotsFrom
<1>4. ASSUME live PROVE Shared(x)
  <2>1. Shared(s)
    BY <1>4 DEF Sound
  <2>2. ASSUME NEW j \in DOMAIN x, NEW k \in DOMAIN x, j # k, x[j].r \in Reg, x[j].r = x[k].r
        PROVE  x[j] = x[k] /\ x[j].lval /\ x[j].t = "int"
    <3>1. j # i
      BY <1>2, <1>4, <2>2
    <3>2. k # i
      BY <1>2, <1>4, <2>2
    <3>3. x[j] = s[j] /\ x[k] = s[k] /\ j \in DOMAIN s /\ k \in DOMAIN s
      BY <1>2, <3>1, <3>2
    <3>4. s[j] = s[k] /\ s[j].lval /\ s[j].t = "int"
      BY <2>1, <2>2, <3>3 DEF Shared
    <3> QED
      BY <3>3, <3>4
  <2>3. ASSUME NEW k \in DOMAIN x, x[k].r = "cmp" PROVE k = Len(x)
    BY <1>2, <1>4, <2>1, <2>3 DEF Shared
  <2> QED
    BY <2>2, <2>3 DEF Shared
<1> QED
  BY <1>2, <1>3, <1>4 DEF Sound, x

\* One is added.
LEMMA AddSound ==
  ASSUME NEW s, NEW T, NEW L, NEW live, Sound(s, T, L, live), NEW e \in Entries, ~ InSlot(e),
         live => /\ e.r \in Reg => \A j \in 1 .. Len(s) : s[j].r # e.r
                 /\ \A j \in 1 .. Len(s) : s[j].r # "cmp"
  PROVE  LET x == Append(s, e) IN
         /\ Sound(x, T, L, live) /\ Len(x) = Len(s) + 1 /\ x[Len(x)] = e
         /\ \A k \in 1 .. Len(s) : x[k] = s[k]
<1> DEFINE x == Append(s, e)  n == Len(s)
<1>1. s \in Seq(Entries) /\ Slots(s, T, L)
  BY DEF Sound
<1>2. /\ x \in Seq(Entries) /\ Len(x) = n + 1 /\ x[n + 1] = e
      /\ DOMAIN x = 1 .. n + 1 /\ DOMAIN s = 1 .. n /\ n \in Nat
      /\ \A k \in 1 .. n : x[k] = s[k]
      /\ \A k \in 1 .. n + 1 : k \in 1 .. n \/ k = n + 1
  BY <1>1
<1> HIDE DEF x
<1>3. Slots(x, T, L)
  <2>1. \A k \in DOMAIN x : InSlot(x[k]) => \E j \in DOMAIN s : x[k] = s[j]
    BY <1>2
  <2> QED
    BY <2>1, <1>1, SlotsFrom
<1>4. ASSUME live PROVE Shared(x)
  <2>1. Shared(s)
    BY <1>4 DEF Sound
  <2>2. ASSUME NEW j \in DOMAIN x, NEW k \in DOMAIN x, j # k, x[j].r \in Reg, x[j].r = x[k].r
        PROVE  x[j] = x[k] /\ x[j].lval /\ x[j].t = "int"
    <3>1. j \in 1 .. n /\ k \in 1 .. n
      BY <1>2, <1>4, <2>2
    <3> QED
      BY <1>2, <2>1, <2>2, <3>1 DEF Shared
  <2>3. ASSUME NEW k \in DOMAIN x, x[k].r = "cmp" PROVE k = Len(x)
    BY <1>2, <1>4, <2>3
  <2> QED
    BY <2>2, <2>3 DEF Shared
<1> QED
  BY <1>2, <1>3, <1>4 DEF Sound, x

\* The fields nobody reads are forgotten.
LEMMA TidySound ==
  ASSUME NEW s, NEW T, NEW L, NEW live, Sound(s, T, L, live)
  PROVE  LET x == [k \in DOMAIN s |-> Tidy(s[k])] IN
         Sound(x, T, L, live) /\ Len(x) = Len(s)
<1> DEFINE x == [k \in DOMAIN s |-> Tidy(s[k])]
<1>1. s \in Seq(Entries) /\ Slots(s, T, L) /\ DOMAIN s = 1 .. Len(s) /\ Len(s) \in Nat
  BY DEF Sound
<1>2. ASSUME NEW k \in DOMAIN s
      PROVE  /\ s[k] \in Entries /\ x[k] = Tidy(s[k]) /\ x[k] \in Entries
             /\ x[k].r = s[k].r /\ x[k].lval = s[k].lval /\ x[k].t = s[k].t
             /\ InSlot(x[k]) <=> InSlot(s[k])
             /\ InSlot(x[k]) => x[k] = s[k]
  <2>1. s[k] \in Entries /\ x[k] = Tidy(s[k])
    BY <1>1
  <2> QED
    BY <2>1, Tidying DEF InSlot
<1>3. x \in Seq(Entries) /\ Len(x) = Len(s) /\ DOMAIN x = DOMAIN s
  <2>1. x \in [1 .. Len(s) -> Entries]
    BY <1>1, <1>2
  <2> HIDE DEF x
  <2> QED
    BY <2>1, <1>1
<1> HIDE DEF x
<1>4. Slots(x, T, L)
  <2>1. \A k \in DOMAIN x : InSlot(x[k]) => \E j \in DOMAIN s : x[k] = s[j]
    BY <1>2, <1>3
  <2> QED
    BY <2>1, <1>1, SlotsFrom
<1>5. ASSUME live PROVE Shared(x)
  <2>1. Shared(s)
    BY <1>5 DEF Sound
  <2>2. ASSUME NEW j \in DOMAIN x, NEW k \in DOMAIN x, j # k, x[j].r \in Reg, x[j].r = x[k].r
        PROVE  x[j] = x[k] /\ x[j].lval /\ x[j].t = "int"
    <3>1. s[j].r \in Reg /\ s[j].r = s[k].r /\ j \in DOMAIN s /\ k \in DOMAIN s
      BY <1>2, <1>3, <2>2
    <3>2. s[j] = s[k] /\ s[j].lval /\ s[j].t = "int"
      BY <2>1, <2>2, <3>1 DEF Shared
    <3>3. x[j] = x[k]
      BY <1>2, <3>1, <3>2
    <3> QED
      BY <3>1, <3>2, <3>3, <1>2
  <2>3. ASSUME NEW k \in DOMAIN x, x[k].r = "cmp" PROVE k = Len(x)
    BY <1>2, <1>3, <2>1, <2>3 DEF Shared
  <2> QED
    BY <2>2, <2>3 DEF Shared
<1> QED
  BY <1>3, <1>4, <1>5 DEF Sound, x
-----------------------------------------------------------------------------
(* Numbers.                                                                *)

\* A set of numbers that holds 0 and, up to n, the successors of its members,
\* holds all up to n.
LEMMA UpTo ==
  ASSUME NEW n \in Nat, NEW S, 0 \in S, \A k \in 0 .. n : k \in S /\ k < n => k + 1 \in S
  PROVE  \A k \in 0 .. n : k \in S
<1> DEFINE F == {k \in 0 .. n : k \notin S}
<1>1. SUFFICES ASSUME F # {} PROVE FALSE
  OBVIOUS
<1>2. F \subseteq Nat
  OBVIOUS
<1>3. PICK x \in F : \A y \in F : ~ (<<y, x>> \in OpToRel(<, Nat))
  BY <1>1, <1>2, NatLessThanWellFounded, WFMin
<1>4. x # 0 /\ x - 1 \in 0 .. n /\ x - 1 < x /\ x - 1 \in Nat
  OBVIOUS
<1>5. x - 1 \notin F
  BY <1>2, <1>3, <1>4 DEF OpToRel
<1>6. x - 1 \in S /\ x - 1 < n /\ x - 1 + 1 = x
  BY <1>4, <1>5
<1> QED
  BY <1>3, <1>4, <1>6

\* The least of a set of numbers is one of them.
LEMMA MinIn ==
  ASSUME NEW S, S \subseteq Nat, S # {}
  PROVE  Min(S) \in S /\ \A x \in S : Min(S) <= x
<1>1. \E x \in S : \A y \in S : ~ (<<y, x>> \in OpToRel(<, Nat))
  BY NatLessThanWellFounded, WFMin
<1>2. \A x, y \in S : ~ (<<y, x>> \in OpToRel(<, Nat)) => x <= y
  BY DEF OpToRel
<1>3. PICK x \in S : \A y \in S : x <= y
  BY <1>1, <1>2
<1> QED
  BY <1>3 DEF Min
-----------------------------------------------------------------------------
(* Slots.                                                                  *)

\* A range of the given size that is the slot of no entry, known by this location
\* and number.
Takes(s, T, L, c, r2, size) ==
  /\ c \in Nat /\ r2 \in Nat /\ c > Locals
  /\ \A e \in Entries : e.c = c /\ e.r2 = r2 /\ Width(e) = size => Homed(e, T, L)
  /\ \A k \in DOMAIN s : InSlot(s[k]) => Apart(c, size, s[k].c, Width(s[k]))

\* One of the recorded slots.
LEMMA OneSlot ==
  ASSUME NEW T \in Seq(Temps), NEW i \in DOMAIN T
  PROVE  /\ T[i] \in Temps /\ T[i].location \in Nat /\ T[i].size \in 1 .. 2 /\ T[i].size \in Nat
         /\ \A L \in Nat : Laid(T, L) => Locals + T[i].size <= T[i].location /\ T[i].location <= L
<1>1. T[i] \in Temps
  OBVIOUS
<1> DEFINE x == T[i]
<1> HIDE DEF x
<1>2. x \in Temps => x.location \in Nat /\ x.size \in 1 .. 2 /\ x.size \in Nat
  BY DEF Temps
<1> QED
  BY <1>1, <1>2 DEF Laid, x

\* What lies below loc is not disturbed by what is reserved above.
LEMMA HomedStill ==
  ASSUME NEW T \in Seq(Temps), NEW L \in Nat, Laid(T, L), NEW U \in Seq(Temps), NEW N \in Nat, L <= N,
         Len(U) >= Len(T), \A i \in DOMAIN T : U[i] = T[i],
         \A i \in DOMAIN U : i \in DOMAIN T \/ L <= U[i].location - U[i].size,
         NEW e \in Entries, Homed(e, T, L)
  PROVE  Homed(e, U, N) /\ e.c <= L /\ e.c \in Nat /\ e.c >= Locals + Width(e)
<1>1. /\ DOMAIN T = 1 .. Len(T) /\ DOMAIN U = 1 .. Len(U) /\ Len(T) \in Nat /\ Len(U) \in Nat
      /\ \A i \in DOMAIN T : i \in DOMAIN U
  OBVIOUS
<1>2. e.c \in Nat /\ e.r2 \in Nat /\ e.t \in Types /\ Width(e) \in 1 .. 2
  BY DEF Entries, Descriptor, Width, Size, Types
<1>3. CASE Recorded(e, T)
  <2>1. e.r2 \in DOMAIN T /\ e.c = T[e.r2].location /\ Width(e) <= T[e.r2].size
    BY <1>3 DEF Recorded
  <2>2. Recorded(e, U)
    BY <1>1, <2>1 DEF Recorded
  <2>3. Locals + T[e.r2].size <= T[e.r2].location /\ T[e.r2].location <= L /\ T[e.r2] \in Temps
    BY <2>1 DEF Laid
  <2>4. e.c <= L /\ e.c >= Locals + Width(e)
    BY <1>2, <2>1, <2>3 DEF Temps, Locals
  <2> QED
    BY <1>2, <2>2, <2>4 DEF Homed
<1>4. CASE Unrecorded(e, T, L)
  <2>1. e.r2 = 0 /\ Locals + Width(e) <= e.c /\ e.c <= L
    BY <1>4 DEF Unrecorded
  <2>2. ASSUME NEW i \in DOMAIN U PROVE Apart(e.c, Width(e), U[i].location, U[i].size)
    <3>1. CASE i \in DOMAIN T
      BY <1>4, <3>1 DEF Unrecorded
    <3>2. CASE L <= U[i].location - U[i].size
      <4>1. U[i].location \in Nat /\ U[i].size \in 1 .. 2
        BY OneSlot
      <4> QED
        BY <1>2, <2>1, <3>2, <4>1 DEF Apart
    <3> QED
      BY <3>1, <3>2
  <2>3. e.c <= N
    BY <1>2, <2>1
  <2> QED
    BY <1>2, <2>1, <2>2, <2>3 DEF Homed, Unrecorded, Locals
<1> QED
  BY <1>3, <1>4 DEF Homed

\* A slot that is free is taken again.
LEMMA SlotAgain ==
  ASSUME NEW s, NEW T, NEW L, NEW live, Sound(s, T, L, live), NEW size \in 1 .. 2,
         NEW i \in DOMAIN T, T[i].size >= size,
         \A k \in DOMAIN s : s[k].r \in {"local", "llocal"} => s[k].r2 # i
  PROVE  Takes(s, T, L, T[i].location, i, size)
<1> DEFINE c == T[i].location
<1>1. /\ T \in Seq(Temps) /\ L \in Nat /\ Laid(T, L) /\ T[i] \in Temps
      /\ \A j \in DOMAIN T : T[j].location \in Nat /\ T[j].size \in 1 .. 2
  BY OneSlot DEF Sound
<1>2. i \in Nat /\ c \in Nat /\ c > Locals
  BY <1>1 DEF Laid, Locals
<1>3. \A e \in Entries : e.c = c /\ e.r2 = i /\ Width(e) = size => Homed(e, T, L)
  BY DEF Homed, Recorded
<1>4. ASSUME NEW k \in DOMAIN s, InSlot(s[k])
      PROVE  Apart(c, size, s[k].c, Width(s[k]))
  <2> DEFINE e == s[k]
  <2>1. Homed(e, T, L) /\ e.r2 # i /\ e \in Entries
    BY <1>4 DEF Sound, Slots, InSlot
  <2>2. e.c \in Nat /\ Width(e) \in 1 .. 2
    BY <2>1 DEF Entries, Descriptor, Width, Size, Types
  <2> HIDE DEF e
  <2>3. CASE Recorded(e, T)
    <3>1. e.r2 \in DOMAIN T /\ e.c = T[e.r2].location /\ Width(e) <= T[e.r2].size
      BY <2>3 DEF Recorded
    <3>2. Apart(T[i].location, T[i].size, T[e.r2].location, T[e.r2].size)
      BY <1>1, <2>1, <3>1 DEF Laid
    <3>3. T[e.r2].location \in Nat /\ T[e.r2].size \in 1 .. 2 /\ T[i].size \in 1 .. 2
      BY <1>1, <3>1
    <3> QED
      BY <1>2, <2>2, <3>1, <3>2, <3>3 DEF Apart, e
  <2>4. CASE Unrecorded(e, T, L)
    <3>1. Apart(e.c, Width(e), T[i].location, T[i].size)
      BY <2>4 DEF Unrecorded
    <3>2. T[i].size \in 1 .. 2
      BY <1>1
    <3> QED
      BY <1>2, <2>2, <3>1, <3>2 DEF Apart, e
  <2> QED
    BY <2>1, <2>3, <2>4 DEF Homed
<1> QED
  BY <1>2, <1>3, <1>4 DEF Takes

\* A slot beyond what the frame had is taken, whether it can be recorded or not.
LEMMA SlotBeyond ==
  ASSUME NEW s, NEW T, NEW L, NEW live, Sound(s, T, L, live), NEW size \in 1 .. 2,
         NEW c \in Nat, c >= L + size, NEW U, NEW r2,
         \/ U = Append(T, [location |-> c, size |-> size]) /\ r2 = Len(T) + 1
         \/ U = T /\ r2 = 0
  PROVE  Sound(s, U, c, live) /\ Takes(s, U, c, c, r2, size)
<1>1. /\ T \in Seq(Temps) /\ L \in Nat /\ Laid(T, L) /\ L >= Locals /\ s \in Seq(Entries)
      /\ DOMAIN T = 1 .. Len(T) /\ Len(T) \in Nat
  BY DEF Sound
<1> DEFINE Old(i) == /\ i \in DOMAIN T /\ U[i] = T[i]
                     /\ U[i].location \in Nat /\ U[i].size \in 1 .. 2
                     /\ Locals + U[i].size <= U[i].location /\ U[i].location <= L
           New(i) == /\ i \notin DOMAIN T /\ i = r2 /\ i = Len(T) + 1
                     /\ U[i].location = c /\ U[i].size = size
<1>2. /\ U \in Seq(Temps) /\ Len(U) >= Len(T) /\ DOMAIN U = 1 .. Len(U) /\ r2 \in Nat
      /\ \A i \in DOMAIN T : U[i] = T[i] /\ i \in DOMAIN U
      /\ \A i \in DOMAIN U : Old(i) \/ New(i)
      /\ (r2 = 0 /\ U = T) \/ (r2 \in DOMAIN U /\ U[r2].location = c /\ U[r2].size = size)
  <2> DEFINE n == [location |-> c, size |-> size]
  <2>1. n \in Temps /\ n.location = c /\ n.size = size
    BY DEF Temps
  <2> HIDE DEF n
  <2>2. ASSUME NEW i \in DOMAIN T, U[i] = T[i] PROVE Old(i)
    BY <1>1, <2>2, OneSlot
  <2>3. CASE U = Append(T, n) /\ r2 = Len(T) + 1
    <3>0. T \in Seq(Temps) /\ n \in Temps /\ U = Append(T, n)
      BY <1>1, <2>1, <2>3
    <3>1. /\ U \in Seq(Temps) /\ Len(U) = Len(T) + 1 /\ DOMAIN U = 1 .. Len(T) + 1
          /\ U[Len(T) + 1] = n /\ \A i \in DOMAIN T : U[i] = T[i] /\ i \in DOMAIN U
      <4>1. U \in Seq(Temps) /\ Len(U) = Len(T) + 1 /\ DOMAIN U = 1 .. Len(T) + 1
        BY <3>0
      <4>2. U[Len(T) + 1] = n /\ \A i \in 1 .. Len(T) : U[i] = T[i]
        BY <3>0
      <4> QED
        BY <1>1, <4>1, <4>2
    <3>2. ASSUME NEW i \in DOMAIN U, i \notin DOMAIN T PROVE New(i)
      <4>1. i = Len(T) + 1
        BY <1>1, <3>1, <3>2
      <4> QED
        BY <4>1, <3>1, <3>2, <2>1, <2>3
    <3> HIDE DEF Old, New
    <3>3. \A i \in DOMAIN U : Old(i) \/ New(i)
      BY <2>2, <3>1, <3>2
    <3>4. r2 \in DOMAIN U /\ U[r2].location = c /\ U[r2].size = size /\ r2 \in Nat
      <4>1. r2 = Len(T) + 1 /\ r2 \in Nat /\ r2 \in DOMAIN U
        <5>1. r2 = Len(T) + 1
          BY <2>3
        <5>2. Len(T) + 1 \in 1 .. Len(T) + 1 /\ Len(T) + 1 \in Nat
          BY <1>1
        <5> QED
          BY <5>1, <5>2, <3>1
      <4> QED
        BY <4>1, <2>1, <3>1
    <3> QED
      BY <1>1, <3>1, <3>3, <3>4
  <2>4. CASE U = T /\ r2 = 0
    <3>1. \A i \in DOMAIN U : Old(i)
      BY <2>2, <2>4
    <3> HIDE DEF Old, New
    <3> QED
      BY <1>1, <2>4, <3>1
  <2> QED
    BY <2>3, <2>4 DEF n
<1>3. c >= Locals /\ L <= c /\ c > Locals /\ L \in Nat
  BY <1>1 DEF Locals
<1>4. ASSUME NEW e \in Entries, Homed(e, T, L)
      PROVE  /\ Homed(e, U, c) /\ e.c <= L /\ e.c \in Nat /\ e.c >= Locals + Width(e)
             /\ Width(e) \in 1 .. 2 /\ Apart(c, size, e.c, Width(e))
  <2>1. \A i \in DOMAIN U : i \in DOMAIN T \/ L <= U[i].location - U[i].size
    <3> SUFFICES ASSUME NEW i \in DOMAIN U, New(i) PROVE L <= U[i].location - U[i].size
      BY <1>2
    <3> QED
      BY <1>1
  <2>2. Homed(e, U, c) /\ e.c <= L /\ e.c \in Nat /\ e.c >= Locals + Width(e)
    BY <1>1, <1>2, <1>3, <1>4, <2>1, HomedStill
  <2>3. Width(e) \in 1 .. 2
    BY DEF Entries, Descriptor, Width, Size, Types
  <2> QED
    BY <1>1, <1>3, <2>2, <2>3 DEF Apart
<1>5. Laid(U, c)
  <2>1. ASSUME NEW i \in DOMAIN U PROVE Locals + U[i].size <= U[i].location /\ U[i].location <= c
    <3>1. CASE Old(i)
      BY <1>1, <1>3, <3>1 DEF Locals
    <3>2. CASE New(i)
      BY <1>1, <1>3, <3>2 DEF Locals
    <3> QED
      BY <1>2, <3>1, <3>2
  <2>2. ASSUME NEW i \in DOMAIN U, NEW j \in DOMAIN U, i # j
        PROVE  Apart(U[i].location, U[i].size, U[j].location, U[j].size)
    <3>1. CASE Old(i) /\ Old(j)
      BY <1>1, <2>2, <3>1 DEF Laid
    <3>2. CASE New(i) /\ Old(j)
      BY <1>1, <3>2 DEF Apart
    <3>3. CASE Old(i) /\ New(j)
      BY <1>1, <3>3 DEF Apart
    <3>4. ~ (New(i) /\ New(j))
      BY <2>2
    <3> HIDE DEF Old, New
    <3> QED
      BY <1>2, <3>1, <3>2, <3>3, <3>4
  <2> QED
    BY <2>1, <2>2 DEF Laid
<1>6. Slots(s, U, c)
  <2> SUFFICES ASSUME NEW j \in DOMAIN s, InSlot(s[j])
               PROVE  /\ Homed(s[j], U, c)
                      /\ \A k \in DOMAIN s : InSlot(s[k]) => Beside(s[j], s[k])
    BY DEF Slots
  <2>1. Slots(s, T, L) /\ s[j] \in Entries
    BY <1>1 DEF Sound
  <2> QED
    BY <2>1, <1>4 DEF Slots
<1>7. \A e \in Entries : e.c = c /\ e.r2 = r2 /\ Width(e) = size => Homed(e, U, c)
  <2> SUFFICES ASSUME NEW e \in Entries, e.c = c, e.r2 = r2, Width(e) = size
               PROVE  Homed(e, U, c)
    OBVIOUS
  <2>1. CASE r2 \in DOMAIN U /\ U[r2].location = c /\ U[r2].size = size
    BY <2>1 DEF Homed, Recorded
  <2>2. CASE r2 = 0 /\ U = T
    <3>1. Locals + size <= c
      BY <1>1 DEF Locals
    <3>2. ASSUME NEW i \in DOMAIN T PROVE Apart(c, size, T[i].location, T[i].size)
      <4>1. Old(i)
        BY <1>2
      <4> QED
        BY <1>1, <4>1 DEF Apart
    <3> QED
      BY <2>2, <3>1, <3>2 DEF Homed, Unrecorded
  <2> QED
    BY <1>2, <2>1, <2>2
<1>8. \A k \in DOMAIN s : InSlot(s[k]) => Apart(c, size, s[k].c, Width(s[k]))
  <2>1. \A k \in DOMAIN s : s[k] \in Entries /\ (InSlot(s[k]) => Homed(s[k], T, L))
    BY <1>1 DEF Sound, Slots
  <2> QED
    BY <2>1, <1>4
<1> QED
  BY <1>1, <1>2, <1>3, <1>5, <1>6, <1>7, <1>8 DEF Sound, Takes

-----------------------------------------------------------------------------
(* What the functions of the compiler leave alone.                         *)

\* Code executed in the worlds leaves the rest of the compiler alone.
LEMMA WithIt ==
  ASSUME NEW m, Rec(m), NEW s, NEW W
  PROVE  With(m, [m EXCEPT !.vs = s, !.worlds = W], s) /\ With(m, [m EXCEPT !.worlds = W], m.vs)
<1> DEFINE a == m.vs  b == m.temps  c == m.loc  d == m.worlds
<1>1. m = [vs |-> a, temps |-> b, loc |-> c, worlds |-> d]
  BY DEF Rec
<1> HIDE DEF a, b, c, d
<1> DEFINE x == [m EXCEPT !.vs = s, !.worlds = W]  y == [m EXCEPT !.worlds = W]
<1>2. x = [vs |-> s, temps |-> b, loc |-> c, worlds |-> W]
  <2> DEFINE z == [m EXCEPT !.vs = s]
  <2>1. z = [vs |-> s, temps |-> b, loc |-> c, worlds |-> d]
    BY <1>1
  <2>2. x = [z EXCEPT !.worlds = W]
    BY Zenon
  <2> HIDE DEF z, x
  <2> QED
    BY <2>1, <2>2
<1>3. y = [vs |-> a, temps |-> b, loc |-> c, worlds |-> W]
  BY <1>1
<1> HIDE DEF x, y
<1>4. With(m, x, s)
  BY <1>1, <1>2 DEF Rec, With
<1>5. With(m, y, m.vs)
  BY <1>1, <1>3 DEF Rec, With
<1> QED
  BY <1>4, <1>5 DEF x, y

\* Executed code changes no entry.
LEMMA ValuedFrame == ASSUME NEW m, Rec(m) PROVE With(m, Valued(m), m.vs)
<1> DEFINE W == {Meaning(w, Depth(m), Val(Deref(w.means[Depth(m)]))) : w \in m.worlds}
<1>1. Valued(m) = [m EXCEPT !.worlds = W]
  BY DEF Valued, Run
<1> HIDE DEF W
<1> QED
  BY <1>1, WithIt

\* vpop() takes the top entry away and nothing else.
LEMMA DropFrame == ASSUME NEW m, Rec(m) PROVE With(m, Drop(m), Front(m.vs))
<1> DEFINE W == {[w EXCEPT !.means = Front(w.means)] : w \in m.worlds}
<1>1. Drop(m) = [m EXCEPT !.vs = Front(m.vs), !.worlds = W]
  BY DEF Drop, Reorder
<1> HIDE DEF W
<1> QED
  BY <1>1, WithIt

\* vdup() repeats the top entry and nothing else.
LEMMA DupFrame == ASSUME NEW m, Rec(m) PROVE With(m, vdup(m), Append(m.vs, Last(m.vs)))
<1> DEFINE W == {[w EXCEPT !.means = Append(w.means, Last(w.means))] : w \in m.worlds}
<1>1. vdup(m) = [m EXCEPT !.vs = Append(m.vs, Last(m.vs)), !.worlds = W]
  BY DEF vdup, Reorder
<1> HIDE DEF W
<1> QED
  BY <1>1, WithIt

\* An instruction that reads its operands changes no entry.
LEMMA UsedFrame == ASSUME NEW m, Rec(m), NEW cc PROVE With(m, Used(m, cc), m.vs)
<1> DEFINE n == Depth(m)
           used(w) == <<w.reg[m.vs[n - 1].r], IF cc THEN Top(m).v ELSE w.reg[Top(m).r]>>
           meant(w) == <<Deref(w.means[n - 1]), Deref(w.means[n])>>
           W == {Uses(w, used(w), meant(w)) : w \in m.worlds}
<1>1. Used(m, cc) = [m EXCEPT !.worlds = W]
  BY DEF Used, Check, Run
<1> HIDE DEF W
<1> QED
  BY <1>1, WithIt

\* Two operands that give way to a result leave one entry less.
LEMMA ReducedFrame == ASSUME NEW m, Rec(m), NEW v PROVE With(m, Reduced(m, v), Front(m.vs))
<1> DEFINE W == {[w EXCEPT !.means = Append(SubSeq(@, 1, Depth(m) - 2), Val(v))] : w \in m.worlds}
<1>1. Reduced(m, v) = [Drop(m) EXCEPT !.worlds = W]
  BY DEF Reduced
<1>2. With(m, Drop(m), Front(m.vs))
  BY DropFrame
<1> HIDE DEF W
<1>3. With(Drop(m), Reduced(m, v), Drop(m).vs)
  <2>1. Rec(Drop(m))
    BY <1>2 DEF With
  <2>2. With(Drop(m), [Drop(m) EXCEPT !.worlds = W], Drop(m).vs)
    BY <2>1, WithIt
  <2> QED
    BY <1>1, <2>2
<1> QED
  BY <1>2, <1>3 DEF With

\* get_temp_local_var() changes the frame and not the stack.
Grown(m, x, T, n) ==
  Rec(x) /\ x.vs = m.vs /\ x.temps = T /\ x.loc = n /\ x.worlds = m.worlds
\* Only the frame's fields change.
LEMMA LocIt ==
  ASSUME NEW m, Rec(m), NEW n, NEW T
  PROVE  /\ Grown(m, [m EXCEPT !.loc = n, !.temps = T], T, n)
         /\ Grown(m, [m EXCEPT !.loc = n], m.temps, n)
<1> DEFINE a == m.vs  b == m.temps  c == m.loc  d == m.worlds
<1>1. m = [vs |-> a, temps |-> b, loc |-> c, worlds |-> d]
  BY DEF Rec
<1> HIDE DEF a, b, c, d
<1> DEFINE x == [m EXCEPT !.loc = n, !.temps = T]  y == [m EXCEPT !.loc = n]
<1>2. y = [vs |-> a, temps |-> b, loc |-> n, worlds |-> d]
  BY <1>1
<1>3. x = [vs |-> a, temps |-> T, loc |-> n, worlds |-> d]
  <2>1. x = [y EXCEPT !.temps = T]
    BY Zenon
  <2> HIDE DEF x, y
  <2> QED
    BY <1>2, <2>1
<1> HIDE DEF x, y
<1>4. Rec(x) /\ x.vs = a /\ x.temps = T /\ x.loc = n /\ x.worlds = d
  BY <1>3 DEF Rec
<1>5. Rec(y) /\ y.vs = a /\ y.temps = b /\ y.loc = n /\ y.worlds = d
  BY <1>2 DEF Rec
<1>6. Grown(m, x, T, n) /\ Grown(m, y, m.temps, n)
  BY <1>4, <1>5 DEF Grown, a, b, d
<1> QED
  BY <1>6 DEF x, y

\* get_temp_local_var() leaves the entries alone and finds a slot that is free.
LEMMA Reserves ==
  ASSUME NEW m, NEW live, Rec(m), Sound(m.vs, m.temps, m.loc, live), NEW size \in 1 .. 2
  PROVE  LET tmp == get_temp_local_var(m, size) IN
         /\ Rec(tmp.m) /\ tmp.m.vs = m.vs /\ Sound(m.vs, tmp.m.temps, tmp.m.loc, live)
         /\ tmp.m.worlds = m.worlds
         /\ Takes(m.vs, tmp.m.temps, tmp.m.loc, tmp.l, tmp.r2, size)
<1> DEFINE tmp == get_temp_local_var(m, size)
           used == {m.vs[k].r2 : k \in {j \in 1 .. Depth(m) : m.vs[j].r \in {"local", "llocal"}}}
           fit == {i \in 1 .. Len(m.temps) : i \notin used /\ m.temps[i].size >= size}
           new == ((m.loc + size + size - 1) \div size) * size
           T2 == Append(m.temps, [location |-> new, size |-> size])
           more == [m EXCEPT !.loc = new, !.temps = T2]
           full == [m EXCEPT !.loc = new]
<1>1. /\ m.temps \in Seq(Temps) /\ m.loc \in Nat /\ m.vs \in Seq(Entries)
      /\ DOMAIN m.temps = 1 .. Len(m.temps) /\ DOMAIN m.vs = 1 .. Len(m.vs) /\ Len(m.temps) \in Nat
  BY DEF Sound
<1>2. new \in Nat /\ new >= m.loc + size
  <2>1. CASE size = 1
    BY <1>1, <2>1
  <2>2. CASE size = 2
    BY <1>1, <2>2
  <2> QED
    BY <2>1, <2>2
<1>3. tmp = IF fit # {} THEN [m |-> m, l |-> m.temps[Min(fit)].location, r2 |-> Min(fit)]
            ELSE IF Len(m.temps) < NbTemps THEN [m |-> more, l |-> new, r2 |-> Len(m.temps) + 1]
            ELSE [m |-> full, l |-> new, r2 |-> 0]
  BY DEF get_temp_local_var
<1>4. /\ Rec(more) /\ more.vs = m.vs /\ more.temps = T2 /\ more.loc = new
      /\ Rec(full) /\ full.vs = m.vs /\ full.temps = m.temps /\ full.loc = new
      /\ more.worlds = m.worlds /\ full.worlds = m.worlds
  <2>1. Grown(m, more, T2, new) /\ Grown(m, full, m.temps, new)
    BY LocIt
  <2> QED
    BY <2>1 DEF Grown
<1>5. \A k \in DOMAIN m.vs : m.vs[k].r \in {"local", "llocal"} => m.vs[k].r2 \in used
  BY <1>1 DEF Depth
<1>6. /\ fit \subseteq 1 .. Len(m.temps) /\ fit \subseteq Nat
      /\ \A i \in fit : i \notin used /\ m.temps[i].size >= size
  OBVIOUS
<1> HIDE DEF tmp, used, fit, new, more, full
<1>7. CASE fit # {}
  <2>1. Min(fit) \in fit
    BY <1>6, <1>7, MinIn
  <2> DEFINE i == Min(fit)
  <2> HIDE DEF i
  <2>2. /\ i \in DOMAIN m.temps /\ m.temps[i].size >= size
        /\ \A k \in DOMAIN m.vs : m.vs[k].r \in {"local", "llocal"} => m.vs[k].r2 # i
    BY <1>1, <1>5, <1>6, <2>1 DEF i
  <2>3. Takes(m.vs, m.temps, m.loc, m.temps[i].location, i, size)
    BY <2>2, SlotAgain
  <2>4. tmp = [m |-> m, l |-> m.temps[i].location, r2 |-> i]
    BY <1>3, <1>7 DEF i
  <2>5. tmp.m = m /\ tmp.l = m.temps[i].location /\ tmp.r2 = i
    BY <2>4
  <2> QED
    BY <2>3, <2>5 DEF tmp
<1>8. CASE fit = {} /\ Len(m.temps) < NbTemps
  <2>1. Sound(m.vs, T2, new, live) /\ Takes(m.vs, T2, new, new, Len(m.temps) + 1, size)
    BY <1>2, SlotBeyond
  <2>2. tmp = [m |-> more, l |-> new, r2 |-> Len(m.temps) + 1]
    BY <1>3, <1>8
  <2>3. tmp.m = more /\ tmp.l = new /\ tmp.r2 = Len(m.temps) + 1
    BY <2>2
  <2> HIDE DEF T2
  <2> QED
    BY <2>1, <2>3, <1>4 DEF tmp
<1>9. CASE fit = {} /\ ~ (Len(m.temps) < NbTemps)
  <2>1. Sound(m.vs, m.temps, new, live) /\ Takes(m.vs, m.temps, new, new, 0, size)
    BY <1>2, SlotBeyond
  <2>2. tmp = [m |-> full, l |-> new, r2 |-> 0]
    BY <1>3, <1>9
  <2>3. tmp.m = full /\ tmp.l = new /\ tmp.r2 = 0
    BY <2>2
  <2> QED
    BY <2>1, <2>3, <1>4 DEF tmp
<1> QED
  BY <1>7, <1>8, <1>9 DEF tmp

\* Copies of one entry move to a slot that is free.
LEMMA MoveSound ==
  ASSUME NEW s, NEW T, NEW L, Sound(s, T, L, TRUE), NEW d \in Entries, InSlot(d),
         Takes(s, T, L, d.c, d.r2, Width(d)), NEW hit, NEW x \in Seq(Entries), Len(x) = Len(s),
         \A k \in 1 .. Len(s) : x[k] = IF k \in hit THEN d ELSE s[k],
         \A k \in 1 .. Len(s) : k \in hit => s[k].r \in Reg
  PROVE  Sound(x, T, L, TRUE)
<1>1. /\ s \in Seq(Entries) /\ DOMAIN s = 1 .. Len(s) /\ DOMAIN x = 1 .. Len(s)
      /\ Slots(s, T, L) /\ Shared(s)
  BY DEF Sound
<1>2. Homed(d, T, L) /\ \A k \in DOMAIN s : InSlot(s[k]) => Beside(d, s[k]) /\ Beside(s[k], d)
  <2>1. d.c \in Nat /\ Width(d) \in Nat
    BY DEF Entries, Descriptor, Width, Size
  <2>2. \A k \in DOMAIN s : s[k].c \in Nat /\ Width(s[k]) \in Nat
    <3>1. \A e \in Entries : e.c \in Nat /\ Width(e) \in Nat
      BY DEF Entries, Descriptor, Width, Size
    <3> QED
      BY <1>1, <3>1
  <2> QED
    BY <2>1, <2>2 DEF Takes, Beside, Apart
<1>3. Slots(x, T, L)
  <2> SUFFICES ASSUME NEW j \in DOMAIN x, InSlot(x[j])
               PROVE  /\ Homed(x[j], T, L)
                      /\ \A k \in DOMAIN x : InSlot(x[k]) => Beside(x[j], x[k])
    BY DEF Slots
  <2>1. Beside(d, d)
    BY DEF Beside
  <2>2. CASE j \in hit
    BY <1>1, <1>2, <2>1, <2>2
  <2>3. CASE j \notin hit
    BY <1>1, <1>2, <2>3 DEF Slots
  <2> QED
    BY <2>2, <2>3
<1>4. Shared(x)
  <2>0. d.r \notin Reg /\ d.r # "cmp"
    BY DEF InSlot, Reg
  <2>1. ASSUME NEW j \in DOMAIN x, NEW k \in DOMAIN x, j # k, x[j].r \in Reg, x[j].r = x[k].r
        PROVE  x[j] = x[k] /\ x[j].lval /\ x[j].t = "int"
    <3>1. j \notin hit /\ k \notin hit
      BY <1>1, <2>0, <2>1
    <3> QED
      BY <1>1, <2>1, <3>1 DEF Shared
  <2>2. ASSUME NEW k \in DOMAIN x, x[k].r = "cmp" PROVE k = Len(x)
    BY <1>1, <2>0, <2>2 DEF Shared
  <2> QED
    BY <2>1, <2>2 DEF Shared
<1> QED
  BY <1>3, <1>4 DEF Sound

\* A new stack, and nothing else.
LEMMA VsIt ==
  ASSUME NEW m, Rec(m), NEW s
  PROVE  With(m, [m EXCEPT !.vs = s], s)
<1> DEFINE a == m.vs  b == m.temps  c == m.loc  d == m.worlds
<1>1. m = [vs |-> a, temps |-> b, loc |-> c, worlds |-> d]
  BY DEF Rec
<1> HIDE DEF a, b, c, d
<1> DEFINE x == [m EXCEPT !.vs = s]
<1>2. x = [vs |-> s, temps |-> b, loc |-> c, worlds |-> d]
  BY <1>1
<1> HIDE DEF x
<1>3. With(m, x, s)
  BY <1>1, <1>2 DEF Rec, With
<1> QED
  BY <1>3 DEF x

-----------------------------------------------------------------------------
(* Saving registers.                                                       *)

\* An entry has given up its register.
Evicted(e, f) == Live /\ e.r \in Reg /\ f.r \in {"local", "llocal"} /\ f.t = e.t

\* The compiler went from m to x, and the b lowest entries are where they were
\* or on the frame.
Stay(m, x, b) ==
  /\ Good(x) /\ b \in 0 .. Len(m.vs) /\ b <= Len(x.vs)
  /\ \A k \in 1 .. b : x.vs[k] = m.vs[k] \/ Evicted(m.vs[k], x.vs[k])
  /\ ~ Live => x.temps = m.temps /\ x.loc = m.loc
Spill(m, x) == Stay(m, x, Len(m.vs)) /\ Len(x.vs) = Len(m.vs) /\ (~ Live => x = m)

\* What Good says of the entries.
LEMMA GoodIs ==
  ASSUME NEW m, Good(m)
  PROVE  /\ Rec(m) /\ nocode_wanted \in Nat /\ m.vs \in Seq(Entries) /\ Len(m.vs) \in Nat
         /\ DOMAIN m.vs = 1 .. Len(m.vs) /\ \A k \in 1 .. Len(m.vs) : m.vs[k] \in Entries
         /\ Live => Shared(m.vs) /\ \A k \in 1 .. Len(m.vs) - 1 : m.vs[k].r # "cmp"
         /\ Sound(m.vs, m.temps, m.loc, Live)
<1>1. Rec(m) /\ nocode_wanted \in Nat /\ m.vs \in Seq(Entries) /\ (Live => Shared(m.vs))
      /\ Sound(m.vs, m.temps, m.loc, Live)
  BY DEF Good, Sound
<1>2. Len(m.vs) \in Nat /\ DOMAIN m.vs = 1 .. Len(m.vs) /\ \A k \in 1 .. Len(m.vs) : m.vs[k] \in Entries
  BY <1>1
<1>3. ASSUME Live, NEW k \in 1 .. Len(m.vs) - 1 PROVE m.vs[k].r # "cmp"
  BY <1>1, <1>2, <1>3 DEF Shared
<1> QED
  BY <1>1, <1>2, <1>3

\* What stays through two steps stays.
LEMMA StayTrans ==
  ASSUME NEW m, NEW x, NEW y, NEW b, NEW c, Stay(m, x, b), Stay(x, y, c), b <= c
  PROVE  Stay(m, y, b)
<1>1. b \in 0 .. Len(m.vs) /\ c \in 0 .. Len(x.vs) /\ Good(y) /\ c <= Len(y.vs)
  BY DEF Stay
<1>2. Len(y.vs) \in Nat /\ Len(m.vs) \in Nat /\ Len(x.vs) \in Nat
  <2>1. Len(y.vs) \in Nat /\ Len(x.vs) \in Nat
    BY GoodIs DEF Stay
  <2>2. b \in Int /\ b >= 0
    BY <1>1
  <2> QED
    BY <2>1, <1>1
<1>3. b <= Len(y.vs)
  BY <1>1, <1>2
<1>4. ASSUME NEW k \in 1 .. b PROVE y.vs[k] = m.vs[k] \/ Evicted(m.vs[k], y.vs[k])
  <2>1. k \in 1 .. c
    BY <1>1, <1>2
  <2>2. x.vs[k] = m.vs[k] \/ Evicted(m.vs[k], x.vs[k])
    BY DEF Stay
  <2>3. y.vs[k] = x.vs[k] \/ Evicted(x.vs[k], y.vs[k])
    BY <2>1 DEF Stay
  <2> QED
    BY <2>2, <2>3 DEF Evicted, Reg
<1>5. ~ Live => y.temps = m.temps /\ y.loc = m.loc
  BY DEF Stay
<1> QED
  BY <1>1, <1>3, <1>4, <1>5 DEF Stay

\* What stays up to c stays up to any b below it.
LEMMA StayLess ==
  ASSUME NEW m, NEW x, NEW b, NEW c \in Nat, Stay(m, x, b), c <= b
  PROVE  Stay(m, x, c)
<1>1. b \in 0 .. Len(m.vs) /\ Len(x.vs) \in Nat /\ b <= Len(x.vs)
  BY GoodIs DEF Stay
<1>2. c \in 0 .. b /\ b \in Nat
  BY <1>1
<1>3. c \in 0 .. Len(m.vs) /\ c <= Len(x.vs) /\ \A k \in 1 .. c : k \in 1 .. b
  BY <1>1, <1>2
<1> QED
  BY <1>3 DEF Stay

\* Another stack with the same slots.
LEMMA StayWith ==
  ASSUME NEW m, Good(m), NEW x, NEW s, With(m, x, s), Sound(s, m.temps, m.loc, Live),
         NEW b \in 0 .. Len(m.vs), b <= Len(s), \A k \in 1 .. b : s[k] = m.vs[k]
  PROVE  Stay(m, x, b)
  BY DEF Stay, Good, With

\* Nothing saved is a special case of saving.
LEMMA StaySame == ASSUME NEW m, Good(m) PROVE Spill(m, m)
<1>1. Len(m.vs) \in 0 .. Len(m.vs) /\ Len(m.vs) <= Len(m.vs)
  BY GoodIs
<1> QED
  BY <1>1 DEF Stay, Spill

\* Saving twice is saving.
LEMMA SpillTrans ==
  ASSUME NEW m, NEW x, NEW y, Spill(m, x), Spill(x, y)
  PROVE  Spill(m, y)
<1>1. Len(m.vs) = Len(x.vs) /\ Len(y.vs) = Len(m.vs) /\ (~ Live => y = m)
  BY DEF Spill
<1>2. Len(x.vs) <= Len(x.vs)
  BY GoodIs DEF Spill, Stay
<1>3. Stay(m, y, Len(m.vs))
  <2>1. Stay(m, x, Len(m.vs)) /\ Stay(x, y, Len(x.vs))
    BY DEF Spill
  <2> QED
    BY <2>1, <1>1, <1>2, StayTrans
<1> QED
  BY <1>1, <1>3 DEF Spill

\* An entry has moved from register r to location l.
Moved(e, f, r, l, size) ==
  /\ e.r = r /\ f.r = (IF e.lval THEN "llocal" ELSE "local") /\ f.lval
  /\ f.c = l /\ f.t = e.t /\ Width(f) = size

\* The code has copied register r to a free slot, and some entries went along.
Moves(m, x, r) ==
  \E l \in Nat, size \in 1 .. 2 :
    /\ l > Locals /\ x.worlds = {Copied(w, r, l, size) : w \in m.worlds}
    /\ \A k \in 1 .. Len(m.vs) : InSlot(m.vs[k]) => Apart(l, size, m.vs[k].c, Width(m.vs[k]))
    /\ \A k \in 1 .. Len(m.vs) : x.vs[k] = m.vs[k] \/ Moved(m.vs[k], x.vs[k], r, l, size)

\* save_reg_upstack() empties a register of all but the n topmost entries.
LEMMA SavesUpstack ==
  ASSUME NEW m, Good(m), NEW r, NEW n \in 0 .. Len(m.vs)
  PROVE  LET x == save_reg_upstack(m, r, n) IN
         /\ Spill(m, x)
         /\ Live /\ r \in Reg => \A k \in 1 .. Len(m.vs) - n : x.vs[k].r # r
         /\ \A k \in 1 .. Len(m.vs) : Len(m.vs) - n < k \/ m.vs[k].r # r => x.vs[k] = m.vs[k]
         /\ x = m \/ (r \in Reg /\ Moves(m, x, r))
<1> DEFINE x == save_reg_upstack(m, r, n)
           N == Len(m.vs)
           hit == {k \in 1 .. Depth(m) - n : m.vs[k].r = r}
           first == m.vs[Min(hit)]
           size == Size(IF first.lval THEN "ptr" ELSE first.t)
           tmp == get_temp_local_var(m, size)
           moved(e) == [e EXCEPT !.r = IF e.lval THEN "llocal" ELSE "local",
                                 !.lval = TRUE, !.r2 = tmp.r2, !.c = tmp.l]
<1>1. /\ Rec(m) /\ nocode_wanted \in Nat /\ m.vs \in Seq(Entries) /\ N \in Nat
      /\ DOMAIN m.vs = 1 .. N /\ \A k \in 1 .. N : m.vs[k] \in Entries
      /\ (Live => Shared(m.vs)) /\ Sound(m.vs, m.temps, m.loc, Live)
  BY GoodIs
<1>2. /\ hit \subseteq 1 .. N /\ hit \subseteq Nat
      /\ \A k \in 1 .. N : k \in hit <=> k <= N - n /\ m.vs[k].r = r
  BY <1>1 DEF Depth
<1>3. x = IF r \notin Reg \/ nocode_wanted > 0 \/ hit = {} THEN m ELSE MovedTo(tmp, r, hit, size)
  BY DEF save_reg_upstack, Spilled
<1>4. CASE r \notin Reg \/ nocode_wanted > 0 \/ hit = {}
  <2>1. x = m
    BY <1>3, <1>4
  <2>2. Live /\ r \in Reg => hit = {}
    BY <1>1, <1>4 DEF Live
  <2> HIDE DEF x, hit
  <2>3. Spill(m, x)
    BY <2>1, StaySame
  <2>4. \A k \in 1 .. N - n : k \in 1 .. N /\ k <= N - n
    BY <1>1
  <2> QED
    BY <1>2, <2>1, <2>2, <2>3, <2>4 DEF x
<1>5. CASE r \in Reg /\ ~ (nocode_wanted > 0) /\ hit # {}
  <2>1. Live /\ r \in Reg /\ x = MovedTo(tmp, r, hit, size) /\ Shared(m.vs)
    BY <1>1, <1>3, <1>5 DEF Live
  <2> HIDE DEF x
  <2>2. Min(hit) \in hit
    BY <1>2, <1>5, MinIn
  <2>3. first \in Entries /\ first.r = r /\ \A k \in hit : m.vs[k] = first
    <3> DEFINE i == Min(hit)
    <3>1. i \in hit
      BY <2>2
    <3> HIDE DEF i, hit
    <3>2. i \in 1 .. N /\ m.vs[i].r = r /\ m.vs[i] \in Entries
      BY <1>1, <1>2, <3>1
    <3>3. \A k \in hit : m.vs[k] = m.vs[i]
      BY <1>1, <1>2, <2>1, <3>2 DEF Shared
    <3> QED
      BY <3>2, <3>3 DEF i
  <2> HIDE DEF first, hit
  <2>4. size \in 1 .. 2
    BY <2>3 DEF Size
  <2>5. /\ Rec(tmp.m) /\ tmp.m.vs = m.vs /\ Sound(m.vs, tmp.m.temps, tmp.m.loc, TRUE)
        /\ tmp.m.worlds = m.worlds
        /\ Takes(m.vs, tmp.m.temps, tmp.m.loc, tmp.l, tmp.r2, size)
    <3>1. Sound(m.vs, m.temps, m.loc, TRUE)
      BY <1>1, <2>1 DEF Sound
    <3> HIDE DEF size
    <3> QED
      BY <1>1, <2>4, <3>1, Reserves
  <2> DEFINE d == moved(first)
             f == [k \in DOMAIN m.vs |-> IF k \in hit THEN moved(m.vs[k]) ELSE m.vs[k]]
             s == SubSeq(f, 1, Len(m.vs))
             W == {Copied(w, r, tmp.l, size) : w \in tmp.m.worlds}
             y == [tmp.m EXCEPT !.vs = s]
  <2>6. x = [y EXCEPT !.worlds = W]
    <3>1. x = Run([tmp.m EXCEPT !.vs = SubSeq([k \in DOMAIN tmp.m.vs |-> IF k \in hit THEN moved(tmp.m.vs[k]) ELSE tmp.m.vs[k]], 1, Len(tmp.m.vs))],
                  LAMBDA w : Copied(w, r, tmp.l, size))
      BY <2>1 DEF MovedTo
    <3>2. y.worlds = tmp.m.worlds
      <4> HIDE DEF s, tmp
      <4> QED
        BY <2>5, VsIt DEF Rec
    <3> HIDE DEF tmp, size
    <3> QED
      BY <2>5, <3>1, <3>2 DEF Run
  <2>7. /\ d \in Entries /\ d.r \in {"local", "llocal"} /\ d.r2 = tmp.r2 /\ d.c = tmp.l
        /\ d.t = first.t /\ Width(d) = size
        /\ d.r = (IF first.lval THEN "llocal" ELSE "local") /\ d.lval
    <3>1. tmp.r2 \in Nat /\ tmp.l \in Nat
      BY <2>5 DEF Takes
    <3> DEFINE p == tmp.r2  q == tmp.l
               h == IF first.lval THEN "llocal" ELSE "local"
               z == OnFrame(first, h, p, q)
    <3>2. d = z
      BY DEF OnFrame
    <3>3. h = "local" \/ h = "llocal"
      OBVIOUS
    <3>4. (h = "llocal" => size = 2) /\ (h # "llocal" => size = Size(first.t))
      BY <2>3 DEF Size
    <3>5. z = OnFrame(first, h, p, q)
      OBVIOUS
    <3> HIDE DEF p, q, d, size, tmp, h, z
    <3>7. z.lval
      <4>1. first \in Descriptor
        BY <2>3 DEF Entries
      <4> QED
        BY <3>5, <4>1 DEF OnFrame, Descriptor
    <3>6. /\ z \in Entries /\ z.r = h /\ z.r2 = p /\ z.c = q /\ z.t = first.t
          /\ (h = "llocal" => Width(z) = 2) /\ (h # "llocal" => Width(z) = Size(first.t))
      <4>1. p \in Nat /\ q \in Nat
        BY <3>1 DEF p, q
      <4> QED
        BY <2>3, <3>3, <3>5, <4>1, Spilling
    <3> QED
      BY <3>2, <3>3, <3>4, <3>6, <3>7 DEF p, q, h
  <2>8. s \in Seq(Entries) /\ Len(s) = N /\ \A k \in 1 .. N : s[k] = IF k \in hit THEN d ELSE m.vs[k]
    <3> DEFINE g == [k \in 1 .. N |-> IF k \in hit THEN d ELSE m.vs[k]]
    <3>1. f = g
      BY <1>1, <2>3
    <3> HIDE DEF d, f
    <3>2. g \in [1 .. N -> Entries]
      BY <1>1, <2>7
    <3>3. g \in Seq(Entries) /\ Len(g) = N /\ \A k \in 1 .. N : g[k] = IF k \in hit THEN d ELSE m.vs[k]
      BY <1>1, <3>2
    <3> HIDE DEF g
    <3>4. SubSeq(g, 1, N) \in Seq(Entries) /\ Len(SubSeq(g, 1, N)) = N
          /\ \A k \in 1 .. N : SubSeq(g, 1, N)[k] = g[k]
      BY <1>1, <3>3
    <3> QED
      BY <3>1, <3>3, <3>4
  <2> HIDE DEF tmp, size, d, f, s, W
  <2>9. With(tmp.m, x, s)
    <3>1. With(tmp.m, y, s)
      BY <2>5, VsIt
    <3> HIDE DEF y
    <3>2. With(y, [y EXCEPT !.worlds = W], y.vs)
      BY <3>1, WithIt DEF With
    <3> QED
      BY <3>1, <3>2, <2>6 DEF With
  <2>10. InSlot(d)
    BY <2>5, <2>7 DEF InSlot, Takes
  <2>11. Sound(s, tmp.m.temps, tmp.m.loc, TRUE)
    <3>1. Takes(m.vs, tmp.m.temps, tmp.m.loc, d.c, d.r2, Width(d))
      BY <2>5, <2>7
    <3>2. \A k \in 1 .. N : k \in hit => m.vs[k].r \in Reg
      BY <1>2, <2>1
    <3> QED
      BY <2>5, <2>7, <2>8, <2>10, <3>1, <3>2, MoveSound
  <2>12. Good(x) /\ x.vs = s
    BY <1>1, <2>1, <2>9, <2>11 DEF Good, With
  <2>13. \A k \in 1 .. N : s[k] = m.vs[k] \/ Evicted(m.vs[k], s[k])
    BY <1>2, <2>1, <2>3, <2>7, <2>8 DEF Evicted
  <2>14. Spill(m, x)
    BY <1>1, <2>1, <2>8, <2>12, <2>13 DEF Spill, Stay
  <2>15. \A k \in 1 .. N - n : s[k].r # r
    <3> SUFFICES ASSUME NEW k \in 1 .. N - n PROVE s[k].r # r
      OBVIOUS
    <3>1. k \in 1 .. N /\ k <= N - n
      BY <1>1
    <3>2. d.r \notin Reg
      BY <2>7 DEF Reg
    <3> QED
      BY <1>2, <2>1, <2>8, <3>1, <3>2
  <2>16. \A k \in 1 .. N : N - n < k \/ m.vs[k].r # r => s[k] = m.vs[k]
    BY <1>1, <1>2, <2>8
  <2>17. Moves(m, x, r)
    <3>1. tmp.l \in Nat /\ tmp.l > Locals
      BY <2>5 DEF Takes
    <3>2. x.worlds = {Copied(w, r, tmp.l, size) : w \in m.worlds}
      <4>1. x = [y EXCEPT !.worlds = W] /\ Rec(y)
        <5>1. With(tmp.m, y, s)
          BY <2>5, VsIt
        <5> QED
          BY <2>6, <5>1 DEF With
      <4> HIDE DEF y
      <4>2. x.worlds = W
        BY <4>1 DEF Rec
      <4> QED
        BY <4>2, <2>5 DEF W
    <3>3. \A k \in 1 .. N : InSlot(m.vs[k]) => Apart(tmp.l, size, m.vs[k].c, Width(m.vs[k]))
      BY <1>1, <2>5 DEF Takes
    <3>4. \A k \in 1 .. N : s[k] = m.vs[k] \/ Moved(m.vs[k], s[k], r, tmp.l, size)
      <4>1. Moved(first, d, r, tmp.l, size)
        BY <2>3, <2>7 DEF Moved
      <4> QED
        BY <2>3, <2>8, <4>1
    <3> QED
      BY <2>4, <2>12, <3>1, <3>2, <3>3, <3>4 DEF Moves
  <2> QED
    BY <2>1, <2>12, <2>14, <2>15, <2>16, <2>17 DEF x
<1> QED
  BY <1>4, <1>5

\* save_regs() goes through the entries, lowest first.
SaveRound(a, k) == save_reg(a, a.vs[k].r)
SaveRounds(c, m, j) == c[0] = m /\ \A k \in 1 .. j : c[k] = SaveRound(c[k - 1], k)

\* The rounds of save_regs() can be counted through.
LEMMA SaveRoundsExist ==
  ASSUME NEW m, NEW D \in Nat
  PROVE  \E c : SaveRounds(c, m, D)
<1> DEFINE S == {j \in 0 .. D : \E c : SaveRounds(c, m, j)}
<1>1. 0 \in S
  <2> DEFINE c == [k \in 0 .. D |-> m]
  <2>1. c[0] = m /\ \A k \in 1 .. 0 : c[k] = SaveRound(c[k - 1], k)
    OBVIOUS
  <2> HIDE DEF c
  <2>2. SaveRounds(c, m, 0)
    BY <2>1 DEF SaveRounds
  <2> QED
    BY <2>2
<1>2. ASSUME NEW j \in 0 .. D, j \in S, j < D PROVE j + 1 \in S
  <2>1. PICK c : SaveRounds(c, m, j)
    BY <1>2
  <2> DEFINE x == SaveRound(c[j], j + 1)
             d == [k \in 0 .. D |-> IF k = j + 1 THEN x ELSE c[k]]
  <2>2. j + 1 \in 0 .. D /\ d[j + 1] = x /\ \A k \in 0 .. j : d[k] = c[k]
    <3> HIDE DEF x
    <3> QED
      BY <1>2
  <2> HIDE DEF d
  <2>3. ASSUME NEW k \in 1 .. j + 1 PROVE d[k] = SaveRound(d[k - 1], k)
    <3>1. k - 1 \in 0 .. j /\ d[k - 1] = c[k - 1]
      BY <2>2
    <3>2. CASE k = j + 1
      BY <3>1, <3>2, <2>2
    <3>3. CASE k # j + 1
      <4>1. k \in 1 .. j /\ k \in 0 .. j
        BY <3>3
      <4> QED
        BY <3>1, <4>1, <2>1, <2>2 DEF SaveRounds
    <3> QED
      BY <3>2, <3>3
  <2>4. d[0] = m
    BY <2>1, <2>2 DEF SaveRounds
  <2>5. SaveRounds(d, m, j + 1)
    BY <2>3, <2>4 DEF SaveRounds
  <2> QED
    BY <2>2, <2>5
<1>3. D \in S
  <2> HIDE DEF S
  <2>1. \A k \in 0 .. D : k \in S
    BY <1>1, <1>2, UpTo
  <2> QED
    BY <2>1
<1> QED
  BY <1>3

\* save_regs() is its last round.
LEMMA SaveRoundsAre ==
  ASSUME NEW m, NEW n, Depth(m) - n \in Nat
  PROVE  \E c : SaveRounds(c, m, Depth(m) - n) /\ save_regs(m, n) = c[Depth(m) - n]
<1> DEFINE D == Depth(m) - n
           G(c) == [k \in 0 .. D |-> IF k = 0 THEN m ELSE SaveRound(c[k - 1], k)]
           f == CHOOSE c : c = G(c)
<1>1. \E c : c = G(c)
  <2> HIDE DEF D
  <2>1. PICK d : SaveRounds(d, m, D)
    BY SaveRoundsExist DEF D
  <2> DEFINE c == [k \in 0 .. D |-> d[k]]
  <2>2. ASSUME NEW k \in 0 .. D PROVE c[k] = IF k = 0 THEN m ELSE SaveRound(c[k - 1], k)
    <3>1. CASE k = 0
      BY <2>1, <3>1 DEF SaveRounds
    <3>2. CASE k # 0
      <4>0. D \in Nat
        BY DEF D
      <4>1. k \in 1 .. D /\ k - 1 \in 0 .. D
        BY <3>2, <4>0
      <4>2. c[k] = d[k] /\ c[k - 1] = d[k - 1]
        BY <4>1
      <4> HIDE DEF c
      <4> QED
        BY <2>1, <3>2, <4>1, <4>2 DEF SaveRounds
    <3> QED
      BY <3>1, <3>2
  <2>3. c = G(c)
    BY <2>2
  <2> QED
    BY <2>3
<1>2. f = G(f)
  BY <1>1
<1>3. save_regs(m, n) = f[D]
  BY DEF save_regs, SaveRound
<1> HIDE DEF f
<1>4. ASSUME NEW k \in 0 .. D PROVE f[k] = IF k = 0 THEN m ELSE SaveRound(f[k - 1], k)
  BY <1>2
<1>5. SaveRounds(f, m, D)
  <2>1. 0 \in 0 .. D /\ \A k \in 1 .. D : k \in 0 .. D /\ k # 0
    OBVIOUS
  <2> HIDE DEF D
  <2> QED
    BY <1>4, <2>1 DEF SaveRounds
<1> QED
  BY <1>3, <1>5

\* save_regs() leaves no entry but the n topmost in a register.
LEMMA SavesAll ==
  ASSUME NEW m, Good(m), NEW n \in 0 .. Len(m.vs)
  PROVE  LET x == save_regs(m, n) IN
         Spill(m, x) /\ (Live => \A k \in 1 .. Len(m.vs) - n : x.vs[k].r \notin Reg)
<1> DEFINE D == Len(m.vs) - n
<1>1. Depth(m) - n = D /\ D \in Nat /\ D <= Len(m.vs) /\ Len(m.vs) \in Nat
  BY GoodIs DEF Depth
<1>2. PICK c : SaveRounds(c, m, D) /\ save_regs(m, n) = c[D]
  BY <1>1, SaveRoundsAre
<1> HIDE DEF D
<1> DEFINE S == {k \in 0 .. D : Spill(m, c[k]) /\ (Live => \A i \in 1 .. k : c[k].vs[i].r \notin Reg)}
<1>3. 0 \in S
  <2>1. c[0] = m
    BY <1>2 DEF SaveRounds
  <2>2. Spill(m, c[0])
    BY <2>1, StaySame
  <2> QED
    BY <1>1, <2>2
<1>4. ASSUME NEW k \in 0 .. D, k \in S, k < D PROVE k + 1 \in S
  <2> DEFINE a == c[k]  b == c[k + 1]
  <2>1. k + 1 \in 1 .. D /\ k + 1 - 1 = k /\ k + 1 \in 0 .. D
    BY <1>1, <1>4
  <2>2. b = save_reg_upstack(a, a.vs[k + 1].r, 0)
    BY <2>1, <1>2 DEF SaveRounds, SaveRound, save_reg
  <2>3. Spill(m, a) /\ (Live => \A i \in 1 .. k : a.vs[i].r \notin Reg)
    BY <1>4
  <2> HIDE DEF a, b
  <2>4. Good(a) /\ Len(a.vs) = Len(m.vs) /\ 0 \in 0 .. Len(a.vs)
    BY <2>3, <1>1 DEF Spill, Stay
  <2>5. /\ Spill(a, b)
        /\ Live /\ a.vs[k + 1].r \in Reg => \A i \in 1 .. Len(a.vs) - 0 : b.vs[i].r # a.vs[k + 1].r
        /\ \A i \in 1 .. Len(a.vs) : Len(a.vs) - 0 < i \/ a.vs[i].r # a.vs[k + 1].r => b.vs[i] = a.vs[i]
    BY <2>2, <2>4, SavesUpstack
  <2>6. Spill(m, b)
    BY <2>3, <2>5, SpillTrans
  <2>7. ASSUME Live, NEW i \in 1 .. k + 1 PROVE b.vs[i].r \notin Reg
    <3>1. i \in 1 .. Len(a.vs)
      BY <1>1, <2>1, <2>4
    <3>2. b.vs[i] = a.vs[i] \/ Evicted(a.vs[i], b.vs[i])
      BY <2>5, <3>1 DEF Spill, Stay
    <3>3. CASE i \in 1 .. k
      BY <2>3, <2>7, <3>2, <3>3 DEF Evicted, Reg
    <3>4. CASE i = k + 1
      <4>1. CASE a.vs[i].r \in Reg
        BY <1>1, <2>4, <2>5, <2>7, <3>1, <3>2, <3>4, <4>1 DEF Evicted, Reg
      <4>2. CASE a.vs[i].r \notin Reg
        BY <3>2, <4>2 DEF Evicted
      <4> QED
        BY <4>1, <4>2
    <3> QED
      BY <3>3, <3>4
  <2> QED
    BY <2>1, <2>6, <2>7 DEF b
<1>5. D \in S
  <2> HIDE DEF S
  <2>1. \A k \in 0 .. D : k \in S
    BY <1>1, <1>3, <1>4, UpTo
  <2> QED
    BY <1>1, <2>1
<1> QED
  BY <1>2, <1>5 DEF D
-----------------------------------------------------------------------------
(* Loading.                                                                *)

Class == {RC_INT, RC_RAX, RC_RCX}

\* Every register class holds registers only, and at least one.
LEMMA Classes ==
  ASSUME NEW rc \in Class
  PROVE  /\ Range(rc) \subseteq Reg /\ DOMAIN rc \subseteq Nat /\ 1 \in DOMAIN rc
         /\ \A i \in DOMAIN rc : rc[i] \in Range(rc)
<1>1. CASE rc = RC_INT
  <2>1. DOMAIN rc = 1 .. 3 /\ rc[1] = "rax" /\ rc[2] = "rcx" /\ rc[3] = "rdx"
    BY <1>1 DEF RC_INT
  <2> QED
    BY <2>1 DEF Range, Reg
<1>2. CASE rc = RC_RAX
  <2>1. DOMAIN rc = 1 .. 1 /\ rc[1] = "rax"
    BY <1>2 DEF RC_RAX
  <2> QED
    BY <2>1 DEF Range, Reg
<1>3. CASE rc = RC_RCX
  <2>1. DOMAIN rc = 1 .. 1 /\ rc[1] = "rcx"
    BY <1>3 DEF RC_RCX
  <2> QED
    BY <2>1 DEF Range, Reg
<1> QED
  BY <1>1, <1>2, <1>3 DEF Class

\* get_reg() empties the register it returns.
LEMMA GetsReg ==
  ASSUME NEW m, Good(m), NEW rc \in Class
  PROVE  LET got == get_reg(m, rc) IN
         /\ Spill(m, got.m) /\ got.r \in Range(rc) /\ got.r \in Reg
         /\ Live => \A k \in 1 .. Len(m.vs) : got.m.vs[k].r # got.r
<1> DEFINE got == get_reg(m, rc)
           free == {i \in DOMAIN rc : \A k \in 1 .. Depth(m) : m.vs[k].r # rc[i]}
           in == {k \in 1 .. Depth(m) : m.vs[k].r \in Range(rc)}
           oldest == m.vs[Min(in)].r
           y == save_reg(m, oldest)
<1>1. got = IF nocode_wanted > 0 THEN [m |-> m, r |-> rc[1]]
            ELSE IF free # {} THEN [m |-> m, r |-> rc[Min(free)]]
            ELSE [m |-> y, r |-> oldest]
  BY DEF get_reg
<1>2. /\ Range(rc) \subseteq Reg /\ DOMAIN rc \subseteq Nat /\ 1 \in DOMAIN rc
      /\ \A i \in DOMAIN rc : rc[i] \in Range(rc)
  BY Classes
<1>3. nocode_wanted \in Nat /\ Len(m.vs) \in Nat /\ Depth(m) = Len(m.vs) /\ Spill(m, m)
  BY GoodIs, StaySame DEF Depth
<1>4. free \subseteq Nat /\ \A i \in free : i \in DOMAIN rc /\ \A k \in 1 .. Len(m.vs) : m.vs[k].r # rc[i]
  BY <1>2, <1>3
<1>5. in \subseteq Nat /\ \A k \in in : m.vs[k].r \in Range(rc)
  BY <1>3
<1>6. free = {} => in # {}
  BY <1>2
<1> HIDE DEF got, free, in
<1>7. CASE nocode_wanted > 0
  <2>1. got.m = m /\ got.r = rc[1] /\ ~ Live
    BY <1>1, <1>7, <1>3 DEF Live
  <2> QED
    BY <1>2, <1>3, <2>1 DEF got
<1>8. CASE ~ (nocode_wanted > 0) /\ free # {}
  <2>1. got.m = m /\ got.r = rc[Min(free)]
    BY <1>1, <1>8
  <2>2. Min(free) \in free
    BY <1>4, <1>8, MinIn
  <2> QED
    BY <1>2, <1>3, <1>4, <2>1, <2>2 DEF got
<1>9. CASE ~ (nocode_wanted > 0) /\ free = {}
  <2>1. got.m = y /\ got.r = oldest
    BY <1>1, <1>9
  <2>2. Min(in) \in in
    BY <1>5, <1>6, <1>9, MinIn
  <2>3. oldest \in Range(rc) /\ oldest \in Reg
    BY <1>2, <1>5, <2>2
  <2>4. Spill(m, y) /\ (Live => \A k \in 1 .. Len(m.vs) : y.vs[k].r # oldest)
    <3> HIDE DEF oldest
    <3>1. 0 \in 0 .. Len(m.vs) /\ Len(m.vs) - 0 = Len(m.vs)
      BY <1>3
    <3>2. y = save_reg_upstack(m, oldest, 0)
      BY DEF save_reg
    <3> HIDE DEF y
    <3> QED
      BY <2>3, <3>1, <3>2, SavesUpstack
  <2> QED
    BY <2>1, <2>3, <2>4 DEF got
<1> QED
  BY <1>7, <1>8, <1>9

\* load() emits code and changes no entry.
LEMMA LoadFrame == ASSUME NEW m, Rec(m), NEW r, NEW e PROVE With(m, load(m, r, e), m.vs)
<1> DEFINE W == {Loaded(w, r, e) : w \in m.worlds}
<1>1. load(m, r, e) = [m EXCEPT !.worlds = W]
  BY DEF load, Run
<1> HIDE DEF W
<1> QED
  BY <1>1, WithIt

\* Only the top entry is replaced.
LEMMA SetTopFrame ==
  ASSUME NEW m, Rec(m), NEW e
  PROVE  With(m, SetTop(m, e), [m.vs EXCEPT ![Len(m.vs)] = e])
<1>1. SetTop(m, e) = [m EXCEPT !.vs = [m.vs EXCEPT ![Len(m.vs)] = e]]
  BY DEF SetTop, Depth
<1> QED
  BY <1>1, VsIt

\* None of the b lowest entries is in register r.
Unheld(m, r, b) == Live => \A k \in 1 .. b : m.vs[k].r # r

\* The top entry, whatever it is now, is loaded into a register that is free.
LEMMA LoadsTop ==
  ASSUME NEW m, Good(m), Len(m.vs) >= 1, NEW got, Spill(m, got.m), got.r \in Reg,
         Unheld(got.m, got.r, Len(m.vs) - 1)
  PROVE  LET x == LoadTop(got)
             n == Len(m.vs)
         IN
         /\ Stay(m, x, n - 1) /\ Len(x.vs) = n
         /\ x.vs[n].r = got.r /\ x.vs[n].lval = FALSE /\ x.vs[n].t = m.vs[n].t
         /\ \A k \in 1 .. n - 1 : x.vs[k] = got.m.vs[k]
<1> DEFINE x == LoadTop(got)  n == Len(m.vs)  y == got.m  r == got.r
           e == AsValue(y.vs[n], r)
           l == load(y, r, Top(y))
           t == SetTop(l, e)
           s == [y.vs EXCEPT ![n] = e]
<1>1. n \in Nat /\ n \in 1 .. n /\ n - 1 \in 0 .. n
  BY GoodIs
<1>2. Good(y) /\ Rec(y) /\ y.vs \in Seq(Entries) /\ Len(y.vs) = n /\ y.vs[n] \in Entries
      /\ Sound(y.vs, y.temps, y.loc, Live)
  <2>1. Good(y) /\ Len(y.vs) = n
    BY DEF Spill, Stay
  <2> QED
    BY <1>1, <2>1, GoodIs
<1>3. Top(y) = y.vs[n]
  BY <1>2 DEF Top, Last
<1>4. x = Valued(t)
  BY <1>3 DEF LoadTop, AsValue
<1>5. e \in Entries /\ e.r = r /\ e.lval = FALSE /\ e.t = y.vs[n].t /\ ~ InSlot(e)
  BY <1>2, Loading
<1>6. y.vs[n].t = m.vs[n].t
  BY <1>1 DEF Spill, Stay, Evicted
<1> HIDE DEF x, n, y, r, e
<1>7. With(y, x, s)
  <2>1. With(y, l, y.vs)
    BY <1>2, LoadFrame
  <2> HIDE DEF l
  <2>2. With(l, t, s)
    <3>1. Rec(l) /\ l.vs = y.vs
      BY <2>1 DEF With
    <3> QED
      BY <1>2, <3>1, SetTopFrame
  <2> HIDE DEF t, s
  <2>3. With(t, x, s)
    <3>1. Rec(t) /\ t.vs = s
      BY <2>2 DEF With
    <3> QED
      BY <1>4, <3>1, ValuedFrame
  <2> QED
    BY <2>1, <2>2, <2>3 DEF With
<1>8. /\ Sound(s, y.temps, y.loc, Live) /\ Len(s) = n /\ s[n] = e
      /\ \A k \in 1 .. n : k # n => s[k] = y.vs[k]
  <2>1. Live => /\ e.r \in Reg => \A j \in 1 .. Len(y.vs) : j # n => y.vs[j].r # e.r
                /\ e.r = "cmp" => n = Len(y.vs)
    <3>1. \A j \in 1 .. n : j # n => j \in 1 .. n - 1
      BY <1>1
    <3> QED
      BY <1>2, <1>5, <3>1 DEF y, r, n, Unheld
  <2>2. n \in 1 .. Len(y.vs)
    BY <1>1, <1>2
  <2> HIDE DEF s
  <2> QED
    BY <1>2, <1>5, <2>1, <2>2, PutSound DEF s
<1>9. Stay(y, x, n - 1)
  <2>1. \A k \in 1 .. n - 1 : s[k] = y.vs[k]
    BY <1>1, <1>8
  <2>2. n - 1 \in 0 .. Len(y.vs) /\ n - 1 <= Len(s)
    BY <1>1, <1>2, <1>8
  <2> HIDE DEF s
  <2> QED
    BY <1>2, <1>7, <1>8, <2>1, <2>2, StayWith
<1>10. Stay(m, x, n - 1)
  <2>1. Stay(m, y, n)
    BY DEF Spill, y, n
  <2>2. Stay(m, y, n - 1)
    BY <1>1, <2>1, StayLess
  <2> QED
    BY <1>1, <1>9, <2>2, StayTrans
<1>11. x.vs = s
  BY <1>7 DEF With
<1>12. \A k \in 1 .. n - 1 : k \in 1 .. n /\ k # n
  BY <1>1
<1> HIDE DEF s
<1> QED
  BY <1>5, <1>6, <1>8, <1>10, <1>11, <1>12 DEF x, n, y, r

\* gv() of the top entry.
LEMMA GvLoads ==
  ASSUME NEW m, Good(m), Len(m.vs) >= 1, NEW rc \in Class
  PROVE  LET x == gv(m, rc)
             n == Len(m.vs)
         IN
         /\ Stay(m, x, n - 1) /\ Len(x.vs) = n
         /\ x.vs[n].r \in Reg /\ x.vs[n].lval = FALSE /\ x.vs[n].t = m.vs[n].t
         /\ Live /\ m.vs[n].lval => \A k \in 1 .. n - 1 : x.vs[k].r # x.vs[n].r
<1> DEFINE n == Len(m.vs)  e == m.vs[n]  own == e.r \in Range(rc)  x == gv(m, rc)
<1>1. n \in Nat /\ 1 \in 0 .. n /\ n \in 1 .. n /\ n - 1 \in 0 .. n
  BY GoodIs
<1>2. Top(m) = e
  BY DEF Top, Last
<1>3. x = IF own /\ ~ e.lval THEN m
          ELSE LoadTop(IF own THEN [m |-> save_reg_upstack(m, e.r, 1), r |-> e.r] ELSE get_reg(m, rc))
  BY <1>2 DEF gv
<1>4. own => e.r \in Reg
  BY Classes
<1>5. e \in Entries /\ e.lval \in BOOLEAN
  <2>1. e \in Entries
    BY <1>1, GoodIs
  <2> HIDE DEF e
  <2> QED
    BY <2>1 DEF Entries, Descriptor
<1> HIDE DEF x, own, e
<1>6. CASE own /\ ~ e.lval
  <2>1. x = m
    BY <1>3, <1>6
  <2>2. Stay(m, m, n) /\ n - 1 <= n /\ n - 1 \in Nat
    BY <1>1, StaySame DEF Spill
  <2>3. Stay(m, m, n - 1)
    BY <2>2, StayLess
  <2> QED
    BY <1>4, <1>5, <1>6, <2>1, <2>3 DEF x, e
<1>7. CASE own /\ e.lval
  <2> DEFINE y == save_reg_upstack(m, e.r, 1)
             got == [m |-> y, r |-> e.r]
  <2>1. Spill(m, y) /\ (Live => \A k \in 1 .. n - 1 : y.vs[k].r # e.r)
    BY <1>1, <1>4, <1>7, SavesUpstack
  <2>2. x = LoadTop(got)
    BY <1>3, <1>7
  <2>3. got.m = y /\ got.r = e.r
    OBVIOUS
  <2> HIDE DEF y, got, n
  <2>4. /\ Stay(m, LoadTop(got), n - 1) /\ Len(LoadTop(got).vs) = n
        /\ LoadTop(got).vs[n].r = e.r /\ LoadTop(got).vs[n].lval = FALSE
        /\ LoadTop(got).vs[n].t = m.vs[n].t
        /\ \A k \in 1 .. n - 1 : LoadTop(got).vs[k] = y.vs[k]
    <3>1. Spill(m, got.m) /\ got.r \in Reg /\ Unheld(got.m, got.r, Len(m.vs) - 1)
      BY <1>4, <1>7, <2>1, <2>3 DEF Unheld, n
    <3> QED
      <4>1. /\ Stay(m, LoadTop(got), n - 1) /\ Len(LoadTop(got).vs) = n
            /\ LoadTop(got).vs[n].r = got.r /\ LoadTop(got).vs[n].lval = FALSE
            /\ LoadTop(got).vs[n].t = m.vs[n].t
            /\ \A k \in 1 .. n - 1 : LoadTop(got).vs[k] = got.m.vs[k]
        BY <3>1, LoadsTop DEF n
      <4> QED
        BY <2>3, <4>1
  <2> QED
    BY <1>4, <1>7, <2>1, <2>2, <2>4 DEF x, n
<1>8. CASE ~ own
  <2> DEFINE got == get_reg(m, rc)
  <2>1. /\ Spill(m, got.m) /\ got.r \in Reg
        /\ Live => \A k \in 1 .. n : got.m.vs[k].r # got.r
    BY GetsReg
  <2>2. x = LoadTop(got)
    BY <1>3, <1>8
  <2>3. \A k \in 1 .. n - 1 : k \in 1 .. n
    BY <1>1
  <2> HIDE DEF got, n
  <2>4. /\ Stay(m, LoadTop(got), n - 1) /\ Len(LoadTop(got).vs) = n
        /\ LoadTop(got).vs[n].r = got.r /\ LoadTop(got).vs[n].lval = FALSE
        /\ LoadTop(got).vs[n].t = m.vs[n].t
        /\ \A k \in 1 .. n - 1 : LoadTop(got).vs[k] = got.m.vs[k]
    <3>1. Spill(m, got.m) /\ got.r \in Reg /\ Unheld(got.m, got.r, Len(m.vs) - 1)
      BY <2>1, <2>3 DEF Unheld, n
    <3> QED
      BY <3>1, LoadsTop DEF n
  <2> QED
    BY <2>1, <2>2, <2>3, <2>4 DEF x, n
<1> QED
  BY <1>5, <1>6, <1>7, <1>8

\* vcheck_cmp() takes the top entry out of the flags.
LEMMA ChecksCmp ==
  ASSUME NEW m, Good(m)
  PROVE  LET x == vcheck_cmp(m)
             n == Len(m.vs)
         IN
         /\ Good(x) /\ Len(x.vs) = n
         /\ \/ x = m
            \/ /\ Live /\ n >= 1 /\ m.vs[n].r = "cmp" /\ Stay(m, x, n - 1)
               /\ x.vs[n].r \in Reg /\ x.vs[n].lval = FALSE /\ x.vs[n].t = m.vs[n].t
         /\ Live => \A k \in 1 .. n : x.vs[k].r # "cmp"
<1> DEFINE n == Len(m.vs)  x == vcheck_cmp(m)
<1>1. /\ n \in Nat /\ m.vs \in Seq(Entries) /\ n - 1 <= n
      /\ Live => \A k \in 1 .. n - 1 : m.vs[k].r # "cmp"
  BY GoodIs
<1>2. Top(m) = m.vs[n]
  BY DEF Top, Last
<1>3. CASE n >= 1 /\ m.vs[n].r = "cmp" /\ Live
  <2>1. m.vs # << >>
    BY <1>1, <1>3
  <2>2. x = gv(m, RC_INT)
    BY <1>2, <1>3, <2>1 DEF vcheck_cmp, Live
  <2>3. RC_INT \in Class
    BY DEF Class
  <2> DEFINE y == gv(m, RC_INT)
  <2> HIDE DEF x, y, n
  <2>4. /\ Stay(m, y, n - 1) /\ Len(y.vs) = n
        /\ y.vs[n].r \in Reg /\ y.vs[n].lval = FALSE /\ y.vs[n].t = m.vs[n].t
    BY <1>3, <2>3, GvLoads DEF y, n
  <2>5. Good(y) /\ \A k \in 1 .. n - 1 : y.vs[k].r # "cmp"
    BY <1>3, <2>4, GoodIs DEF Stay
  <2>6. \A k \in 1 .. n : y.vs[k].r # "cmp"
    <3>1. \A k \in 1 .. n : k \in 1 .. n - 1 \/ k = n
      BY <1>1
    <3> QED
      BY <2>4, <2>5, <3>1 DEF Reg
  <2> QED
    BY <1>3, <2>2, <2>4, <2>5, <2>6 DEF x, y, n
<1>4. CASE ~ (n >= 1 /\ m.vs[n].r = "cmp" /\ Live)
  <2>1. m.vs # << >> => n >= 1
    BY <1>1
  <2>2. x = m
    BY <1>2, <1>4, <2>1 DEF vcheck_cmp, Live
  <2>3. \A k \in 1 .. n : n >= 1 /\ (k \in 1 .. n - 1 \/ k = n)
    BY <1>1
  <2> HIDE DEF x, n
  <2>4. Live => \A k \in 1 .. n : m.vs[k].r # "cmp"
    BY <1>1, <1>4, <2>3
  <2> QED
    BY <2>2, <2>4 DEF x, n
<1> QED
  BY <1>3, <1>4

\* One entry is pushed and nothing else changes.
LEMMA PushFrame ==
  ASSUME NEW m, Rec(m), NEW e, NEW mean
  PROVE  With(m, Push(m, e, mean), Append(m.vs, e))
<1> DEFINE W == {[w EXCEPT !.means = Append(@, mean)] : w \in m.worlds}
<1>1. Push(m, e, mean) = [m EXCEPT !.vs = Append(m.vs, e), !.worlds = W]
  BY DEF Push
<1> HIDE DEF W
<1> QED
  BY <1>1, WithIt

\* vsetc() of an entry outside the frame.
LEMMA Pushes ==
  ASSUME NEW m, Good(m), NEW e \in Entries, ~ InSlot(e), e.r # "cmp", NEW mean,
         Live /\ e.r \in Reg => \A k \in 1 .. Len(m.vs) : m.vs[k].r # e.r /\ m.vs[k].r # "cmp"
  PROVE  LET x == vsetc(m, e, mean)
             n == Len(m.vs)
         IN
         /\ Good(x) /\ Len(x.vs) = n + 1 /\ x.vs[n + 1] = e
         /\ n >= 1 => Stay(m, x, n - 1) /\ x.vs[n].t = m.vs[n].t
         /\ \A k \in 1 .. n : x.vs[k] = m.vs[k] \/ (Live /\ m.vs[k].r \in Reg \cup {"cmp"})
         /\ ~ Live \/ (\A k \in 1 .. n : m.vs[k].r # "cmp") => x.vs = Append(m.vs, e)
         /\ Live => \A k \in 1 .. n + 1 : x.vs[k].r # "cmp"
         /\ ~ Live => x.temps = m.temps /\ x.loc = m.loc
<1> DEFINE n == Len(m.vs)  y == vcheck_cmp(m)  x == vsetc(m, e, mean)
<1>1. /\ Good(y) /\ Len(y.vs) = n
      /\ \/ y = m
         \/ /\ Live /\ n >= 1 /\ m.vs[n].r = "cmp" /\ Stay(m, y, n - 1)
            /\ y.vs[n].r \in Reg /\ y.vs[n].lval = FALSE /\ y.vs[n].t = m.vs[n].t
      /\ Live => \A k \in 1 .. n : y.vs[k].r # "cmp"
  BY ChecksCmp
<1>2. x = Push(y, e, mean)
  BY DEF vsetc
<1> HIDE DEF x, y, n
<1>3. Rec(y) /\ Sound(y.vs, y.temps, y.loc, Live) /\ n \in Nat /\ y.vs \in Seq(Entries)
  BY <1>1, GoodIs
<1>4. With(y, x, Append(y.vs, e))
  BY <1>2, <1>3, PushFrame
<1>5. Live /\ e.r \in Reg => y = m /\ \A k \in 1 .. n : y.vs[k].r # e.r
  <2>1. ASSUME Live, e.r \in Reg, n >= 1, m.vs[n].r = "cmp" PROVE FALSE
    <3>1. n \in 1 .. n
      BY <1>3, <2>1
    <3> QED
      BY <2>1, <3>1 DEF n
  <2> QED
    BY <1>1, <2>1 DEF n
<1> DEFINE s == Append(y.vs, e)
<1>6. /\ Sound(s, y.temps, y.loc, Live) /\ Len(s) = n + 1 /\ s[n + 1] = e
      /\ \A k \in 1 .. n : s[k] = y.vs[k]
  <2>1. Live => /\ e.r \in Reg => \A j \in 1 .. Len(y.vs) : y.vs[j].r # e.r
                /\ \A j \in 1 .. Len(y.vs) : y.vs[j].r # "cmp"
    BY <1>1, <1>5
  <2>2. /\ Sound(s, y.temps, y.loc, Live) /\ Len(s) = Len(y.vs) + 1 /\ s[Len(s)] = e
        /\ \A k \in 1 .. Len(y.vs) : s[k] = y.vs[k]
    BY <1>3, <2>1, AddSound
  <2> HIDE DEF s
  <2> QED
    BY <1>1, <2>2
<1> HIDE DEF s
<1>7. x.vs = s /\ x.temps = y.temps /\ x.loc = y.loc
  BY <1>4 DEF With, s
<1>8. Good(x)
  BY <1>1, <1>4, <1>6 DEF Good, With, s
<1>9. Stay(y, x, n)
  <2>1. n \in 0 .. Len(y.vs) /\ n <= Len(s)
    BY <1>1, <1>3, <1>6
  <2> QED
    BY <1>1, <1>3, <1>4, <1>6, <2>1, StayWith DEF s
<1>10. ASSUME n >= 1 PROVE Stay(m, x, n - 1) /\ x.vs[n].t = m.vs[n].t
  <2>1. n - 1 \in Nat /\ n - 1 <= n /\ n \in 1 .. n
    BY <1>3, <1>10
  <2>2. CASE y = m
    <3>1. Stay(m, x, n)
      BY <1>9, <2>2
    <3>2. Stay(m, x, n - 1)
      BY <2>1, <3>1, StayLess
    <3> QED
      BY <1>6, <1>7, <2>1, <2>2, <3>2
  <2>3. CASE y # m
    <3>1. Stay(m, y, n - 1) /\ y.vs[n].t = m.vs[n].t
      BY <1>1, <2>3
    <3>2. Stay(m, x, n - 1)
      BY <1>9, <2>1, <3>1, StayTrans
    <3> QED
      BY <1>6, <1>7, <2>1, <3>1, <3>2
  <2> QED
    BY <2>2, <2>3
<1>11. ASSUME NEW k \in 1 .. n PROVE x.vs[k] = m.vs[k] \/ (Live /\ m.vs[k].r \in Reg \cup {"cmp"})
  <2>1. x.vs[k] = y.vs[k]
    BY <1>6, <1>7
  <2>2. CASE y = m
    BY <2>1, <2>2
  <2>3. CASE y # m
    <3>1. Live /\ m.vs[n].r = "cmp" /\ Stay(m, y, n - 1)
      BY <1>1, <2>3
    <3>2. k = n \/ k \in 1 .. n - 1
      BY <1>3
    <3>3. k \in 1 .. n - 1 => y.vs[k] = m.vs[k] \/ Evicted(m.vs[k], y.vs[k])
      BY <3>1 DEF Stay
    <3> QED
      BY <2>1, <3>1, <3>2, <3>3 DEF Evicted
  <2> QED
    BY <2>2, <2>3
<1>12. ASSUME ~ Live \/ \A k \in 1 .. n : m.vs[k].r # "cmp" PROVE x.vs = Append(m.vs, e)
  <2>1. y = m
    <3>1. n >= 1 => n \in 1 .. n
      BY <1>3
    <3> QED
      BY <1>1, <1>12, <3>1
  <2> QED
    BY <1>7, <2>1 DEF s
<1>13. Live => \A k \in 1 .. n + 1 : x.vs[k].r # "cmp"
  <2>1. \A k \in 1 .. n + 1 : k \in 1 .. n \/ k = n + 1
    BY <1>3
  <2> QED
    BY <1>1, <1>6, <1>7, <2>1
<1>14. ~ Live => x.temps = m.temps /\ x.loc = m.loc
  BY <1>1, <1>7
<1> QED
  BY <1>6, <1>7, <1>8, <1>10, <1>11, <1>12, <1>13, <1>14 DEF x, n
-----------------------------------------------------------------------------
(* Operations on the stack.                                                *)

\* From m to x, of which the b lowest entries stay and which has n.
Onto(m, x, b, n) == b \in Nat /\ Stay(m, x, b) /\ Len(x.vs) = n

\* What a function of the compiler builds is a sound state.
LEMMA OntoGood ==
  ASSUME NEW m, NEW x, NEW b, NEW n, Onto(m, x, b, n)
  PROVE  Good(x) /\ Len(x.vs) = n /\ n \in Nat /\ b \in Nat /\ b <= n
  BY GoodIs DEF Onto, Stay

\* Two functions in a row.
LEMMA OntoTrans ==
  ASSUME NEW m, NEW x, NEW y, NEW b, NEW n, NEW p, Onto(m, x, b, n), Onto(x, y, b, p)
  PROVE  Onto(m, y, b, p)
<1>1. b \in Nat /\ b <= b
  BY DEF Onto
<1>2. Stay(m, y, b)
  BY <1>1, StayTrans DEF Onto
<1> QED
  BY <1>1, <1>2 DEF Onto

\* What stays up to c stays up to any b below it.
LEMMA OntoLess ==
  ASSUME NEW m, NEW x, NEW c, Stay(m, x, c), NEW b \in Nat, b <= c
  PROVE  Onto(m, x, b, Len(x.vs))
  BY StayLess DEF Onto

\* gv() keeps what is below the top entry.
LEMMA GvOnto ==
  ASSUME NEW m, Good(m), NEW rc \in Class, NEW b \in Nat, b < Len(m.vs)
  PROVE  Onto(m, gv(m, rc), b, Len(m.vs))
<1>1. Len(m.vs) >= 1 /\ b <= Len(m.vs) - 1
  BY GoodIs
<1>2. Stay(m, gv(m, rc), Len(m.vs) - 1) /\ Len(gv(m, rc).vs) = Len(m.vs)
  BY <1>1, GvLoads
<1> QED
  BY <1>1, <1>2, OntoLess

\* The entries of m in another order, or some of them.
LEMMA PickOnto ==
  ASSUME NEW m, Good(m), NEW x, NEW s \in Seq(Entries), With(m, x, s), NEW f, Picked(m.vs, s, f, Live),
         NEW b \in Nat, b <= Len(m.vs), b <= Len(s), \A k \in 1 .. b : s[k] = m.vs[k]
  PROVE  Onto(m, x, b, Len(s))
<1>1. Sound(m.vs, m.temps, m.loc, Live) /\ Len(m.vs) \in Nat
  BY GoodIs
<1>2. Sound(s, m.temps, m.loc, Live)
  BY <1>1, PickSound
<1>3. b \in 0 .. Len(m.vs)
  BY <1>1
<1>4. Stay(m, x, b)
  BY <1>2, <1>3, StayWith
<1> QED
  BY <1>4 DEF Onto, With

\* A sequence without its last element.
LEMMA FrontOf ==
  ASSUME NEW S, NEW s \in Seq(S), Len(s) >= 1
  PROVE  /\ Front(s) \in Seq(S) /\ Len(Front(s)) = Len(s) - 1
         /\ \A k \in 1 .. Len(s) - 1 : Front(s)[k] = s[k]
<1> DEFINE n == Len(s)  t == SubSeq(s, 1, n - 1)
<1>1. n \in Nat /\ n - 1 \in Nat
  OBVIOUS
<1>2. \A k \in 1 .. n - 1 : s[k] \in S
  BY <1>1
<1>3. t \in Seq(S) /\ Len(t) = n - 1 /\ \A k \in 1 .. n - 1 : t[k] = s[k]
  <2>1. /\ t \in Seq(S) /\ Len(t) = IF 1 <= n - 1 THEN n - 1 - 1 + 1 ELSE 0
        /\ \A k \in 1 .. n - 1 - 1 + 1 : t[k] = s[1 + k - 1]
    BY <1>1, <1>2, SubSeqProperties
  <2> HIDE DEF t, n
  <2>2. (IF 1 <= n - 1 THEN n - 1 - 1 + 1 ELSE 0) = n - 1 /\ n - 1 - 1 + 1 = n - 1
        /\ \A k \in 1 .. n - 1 : 1 + k - 1 = k
    BY <1>1
  <2> QED
    BY <2>1, <2>2
<1>4. Front(s) = t
  BY DEF Front
<1> HIDE DEF t
<1> QED
  BY <1>3, <1>4

\* The same, of entries.
LEMMA FrontIs ==
  ASSUME NEW s \in Seq(Entries), Len(s) >= 1
  PROVE  /\ Front(s) \in Seq(Entries) /\ Len(Front(s)) = Len(s) - 1
         /\ \A k \in 1 .. Len(s) - 1 : Front(s)[k] = s[k]
  BY FrontOf

\* Taking the top entry away keeps the others.
LEMMA FrontOnto ==
  ASSUME NEW m, Good(m), NEW x, With(m, x, Front(m.vs)), NEW b \in Nat, b < Len(m.vs)
  PROVE  /\ Onto(m, x, b, Len(m.vs) - 1)
         /\ Live => \A k \in 1 .. Len(m.vs) - 1 : x.vs[k].r # "cmp"
         /\ \A k \in 1 .. Len(m.vs) - 1 : x.vs[k] = m.vs[k]
<1> DEFINE s == Front(m.vs)  n == Len(m.vs)  f == [k \in 1 .. n |-> k]
<1>1. /\ m.vs \in Seq(Entries) /\ n \in Nat /\ n >= 1 /\ b <= n - 1
      /\ Live => \A k \in 1 .. n - 1 : m.vs[k].r # "cmp"
  BY GoodIs
<1>2. s \in Seq(Entries) /\ Len(s) = n - 1 /\ \A k \in 1 .. n - 1 : s[k] = m.vs[k]
  BY <1>1, FrontIs
<1>3. x.vs = s
  BY DEF With
<1> HIDE DEF s
<1>4. Onto(m, x, b, Len(s))
  <2>1. Picked(m.vs, s, f, Live)
    <3>1. DOMAIN s = 1 .. n - 1 /\ DOMAIN m.vs = 1 .. n /\ \A k \in 1 .. n - 1 : f[k] = k
      BY <1>1, <1>2
    <3>2. \A k \in DOMAIN s : f[k] \in DOMAIN m.vs /\ s[k] = m.vs[f[k]]
      <4>1. \A k \in 1 .. n - 1 : k \in 1 .. n
        BY <1>1
      <4> HIDE DEF f
      <4> QED
        BY <1>2, <3>1, <4>1
    <3>3. \A j, k \in DOMAIN s : f[j] = f[k] => j = k
      BY <3>1
    <3>4. Live => \A k \in DOMAIN s : s[k].r = "cmp" => k = Len(s)
      BY <1>1, <1>2, <3>1
    <3> HIDE DEF f, n
    <3> QED
      BY <3>2, <3>3, <3>4 DEF Picked
  <2>2. With(m, x, s)
    BY DEF s
  <2>3. b <= n /\ b <= Len(s) /\ \A k \in 1 .. b : s[k] = m.vs[k]
    BY <1>1, <1>2
  <2> HIDE DEF f, n
  <2> QED
    BY <1>2, <2>1, <2>2, <2>3, PickOnto DEF n
<1> QED
  BY <1>1, <1>2, <1>3, <1>4

\* vpop()
LEMMA DropOnto ==
  ASSUME NEW m, Good(m), NEW b \in Nat, b < Len(m.vs)
  PROVE  /\ Onto(m, Drop(m), b, Len(m.vs) - 1)
         /\ Live => \A k \in 1 .. Len(m.vs) - 1 : Drop(m).vs[k].r # "cmp"
         /\ \A k \in 1 .. Len(m.vs) - 1 : Drop(m).vs[k] = m.vs[k]
<1>1. With(m, Drop(m), Front(m.vs))
  BY GoodIs, DropFrame
<1> QED
  BY <1>1, FrontOnto

\* vdup() of an int that is not in the flags.
LEMMA DupOnto ==
  ASSUME NEW m, Good(m), Len(m.vs) >= 1,
         Live => m.vs[Len(m.vs)].t = "int" /\ m.vs[Len(m.vs)].lval,
         NEW b \in Nat, b <= Len(m.vs)
  PROVE  /\ Onto(m, vdup(m), b, Len(m.vs) + 1)
         /\ vdup(m).vs = Append(m.vs, m.vs[Len(m.vs)])
<1> DEFINE n == Len(m.vs)  e == m.vs[n]  s == Append(m.vs, e)
<1>1. /\ m.vs \in Seq(Entries) /\ n \in Nat /\ n \in 1 .. n /\ e \in Entries
      /\ Sound(m.vs, m.temps, m.loc, Live) /\ Rec(m) /\ DOMAIN m.vs = 1 .. n
      /\ Live => \A k \in 1 .. n - 1 : m.vs[k].r # "cmp"
  BY GoodIs
<1>2. With(m, vdup(m), s)
  <2>1. Last(m.vs) = e
    BY DEF Last
  <2> QED
    BY <1>1, <2>1, DupFrame
<1>3. /\ s \in Seq(Entries) /\ Len(s) = n + 1 /\ s[n + 1] = e /\ DOMAIN s = 1 .. n + 1
      /\ \A k \in 1 .. n : s[k] = m.vs[k]
      /\ \A k \in 1 .. n + 1 : k \in 1 .. n \/ k = n + 1
  BY <1>1
<1> HIDE DEF s
<1>4. Slots(s, m.temps, m.loc)
  <2>1. \A k \in DOMAIN s : \E j \in DOMAIN m.vs : s[k] = m.vs[j]
    BY <1>1, <1>3
  <2> QED
    BY <1>1, <2>1, SlotsFrom DEF Sound
<1>5. ASSUME Live PROVE Shared(s)
  <2>1. Shared(m.vs) /\ e.t = "int" /\ e.lval
    BY <1>1, <1>5 DEF Sound
  <2>0. e.r # "cmp"
    BY <1>1, <2>1 DEF Entries, Proper
  <2>2. ASSUME NEW j \in DOMAIN s, NEW k \in DOMAIN s, j # k, s[j].r \in Reg, s[j].r = s[k].r
        PROVE  s[j] = s[k] /\ s[j].lval /\ s[j].t = "int"
    <3>1. CASE j \in 1 .. n /\ k \in 1 .. n
      BY <1>1, <1>3, <2>1, <2>2, <3>1 DEF Shared
    <3>2. CASE j = n + 1
      <4>1. k \in 1 .. n /\ s[j] = e /\ s[k] = m.vs[k]
        BY <1>3, <2>2, <3>2
      <4>2. CASE k = n
        BY <2>1, <4>1, <4>2
      <4>3. CASE k # n
        BY <1>1, <2>1, <2>2, <4>1, <4>3 DEF Shared
      <4> QED
        BY <4>2, <4>3
    <3>3. CASE k = n + 1
      <4>1. j \in 1 .. n /\ s[k] = e /\ s[j] = m.vs[j]
        BY <1>3, <2>2, <3>3
      <4>2. CASE j = n
        BY <2>1, <4>1, <4>2
      <4>3. CASE j # n
        BY <1>1, <2>1, <2>2, <4>1, <4>3 DEF Shared
      <4> QED
        BY <4>2, <4>3
    <3> QED
      BY <1>3, <3>1, <3>2, <3>3
  <2>3. ASSUME NEW k \in DOMAIN s, s[k].r = "cmp" PROVE k = Len(s)
    <3>1. CASE k \in 1 .. n
      <4>1. k = n \/ k \in 1 .. n - 1
        BY <1>1, <3>1
      <4>2. s[k] = m.vs[k]
        BY <1>3, <3>1
      <4> QED
        BY <1>1, <1>5, <2>0, <2>3, <4>1, <4>2
    <3> QED
      BY <1>3, <3>1
  <2> QED
    BY <2>2, <2>3 DEF Shared
<1>6. Sound(s, m.temps, m.loc, Live)
  BY <1>1, <1>3, <1>4, <1>5 DEF Sound
<1>7. Stay(m, vdup(m), b)
  <2>1. b \in 0 .. n /\ b <= Len(s) /\ \A k \in 1 .. b : s[k] = m.vs[k]
    BY <1>1, <1>3
  <2> QED
    BY <1>2, <1>6, <2>1, StayWith
<1> QED
  BY <1>2, <1>3, <1>7 DEF Onto, With, s

\* vcheck_cmp()
LEMMA CheckOnto ==
  ASSUME NEW m, Good(m), NEW b \in Nat, b < Len(m.vs)
  PROVE  /\ Onto(m, vcheck_cmp(m), b, Len(m.vs))
         /\ Live => \A k \in 1 .. Len(m.vs) : vcheck_cmp(m).vs[k].r # "cmp"
<1> DEFINE x == vcheck_cmp(m)  n == Len(m.vs)
<1>1. /\ Good(x) /\ Len(x.vs) = n
      /\ x = m \/ Stay(m, x, n - 1)
      /\ Live => \A k \in 1 .. n : x.vs[k].r # "cmp"
  BY ChecksCmp
<1>2. n \in Nat /\ b <= n - 1 /\ b <= n /\ Stay(m, m, n)
  BY GoodIs, StaySame DEF Spill
<1> HIDE DEF x, n
<1>3. CASE x = m
  BY <1>1, <1>2, <1>3, OntoLess DEF x, n
<1>4. CASE Stay(m, x, n - 1)
  BY <1>1, <1>2, <1>4, OntoLess DEF x, n
<1> QED
  BY <1>1, <1>3, <1>4 DEF x, n

\* The two top entries exchanged; the third brought to the top.
Swapped(s) == SubSeq(s, 1, Len(s) - 2) \o <<s[Len(s)], s[Len(s) - 1]>>
Rotated(s) == SubSeq(s, 1, Len(s) - 3) \o SubSeq(s, Len(s) - 3 + 2, Len(s)) \o <<s[Len(s) - 3 + 1]>>

\* The first i entries of a sequence.
LEMMA Prefix ==
  ASSUME NEW S, NEW s \in Seq(S), NEW i \in 0 .. Len(s)
  PROVE  LET t == SubSeq(s, 1, i) IN
         t \in Seq(S) /\ Len(t) = i /\ \A k \in 1 .. i : t[k] = s[k]
<1> DEFINE t == SubSeq(s, 1, i)
<1>1. /\ i \in Int /\ 1 \in Int /\ \A k \in 1 .. i : s[k] \in S
  OBVIOUS
<1>2. /\ t \in Seq(S) /\ Len(t) = IF 1 <= i THEN i - 1 + 1 ELSE 0
      /\ \A k \in 1 .. i - 1 + 1 : t[k] = s[1 + k - 1]
  BY <1>1, SubSeqProperties
<1> HIDE DEF t
<1>3. (IF 1 <= i THEN i - 1 + 1 ELSE 0) = i /\ i - 1 + 1 = i /\ \A k \in 1 .. i : 1 + k - 1 = k
  OBVIOUS
<1> QED
  BY <1>2, <1>3 DEF t

\* vswap(): the two top entries exchanged.
LEMMA SwappedIs ==
  ASSUME NEW S, NEW s \in Seq(S), Len(s) >= 2
  PROVE  LET t == Swapped(s)  n == Len(s) IN
         /\ t \in Seq(S) /\ Len(t) = n /\ t[n] = s[n - 1] /\ t[n - 1] = s[n]
         /\ \A k \in 1 .. n - 2 : t[k] = s[k]
<1> DEFINE n == Len(s)  a == SubSeq(s, 1, n - 2)  u == <<s[n], s[n - 1]>>  t == a \o u
<1>1. n \in Nat /\ n - 2 \in 0 .. n /\ s[n] \in S /\ s[n - 1] \in S
  OBVIOUS
<1>2. a \in Seq(S) /\ Len(a) = n - 2 /\ \A k \in 1 .. n - 2 : a[k] = s[k]
  BY <1>1, Prefix
<1>3. u \in Seq(S) /\ Len(u) = 2 /\ u[1] = s[n] /\ u[2] = s[n - 1]
  BY <1>1
<1>4. Swapped(s) = t
  BY DEF Swapped
<1> HIDE DEF n, a, u
<1>5. /\ t \in Seq(S) /\ Len(t) = Len(a) + Len(u)
      /\ \A i \in 1 .. Len(a) + Len(u) : t[i] = IF i <= Len(a) THEN a[i] ELSE u[i - Len(a)]
  BY <1>2, <1>3, ConcatProperties
<1> HIDE DEF t
<1>6. Len(t) = n /\ \A i \in 1 .. n : t[i] = IF i <= n - 2 THEN a[i] ELSE u[i - (n - 2)]
  BY <1>1, <1>2, <1>3, <1>5
<1>7. t[n] = s[n - 1] /\ t[n - 1] = s[n]
  <2>1. n \in 1 .. n /\ n - 1 \in 1 .. n /\ ~ (n <= n - 2) /\ ~ (n - 1 <= n - 2)
        /\ n - (n - 2) = 2 /\ n - 1 - (n - 2) = 1
    BY <1>1
  <2> QED
    BY <1>3, <1>6, <2>1
<1>8. \A k \in 1 .. n - 2 : t[k] = s[k]
  BY <1>1, <1>2, <1>6
<1> QED
  BY <1>4, <1>5, <1>6, <1>7, <1>8 DEF n

\* vrotb() of three: the third entry comes to the top.
LEMMA RotatedIs ==
  ASSUME NEW S, NEW s \in Seq(S), Len(s) >= 3
  PROVE  LET t == Rotated(s)  n == Len(s) IN
         /\ t \in Seq(S) /\ Len(t) = n /\ t[n] = s[n - 2] /\ t[n - 1] = s[n] /\ t[n - 2] = s[n - 1]
         /\ \A k \in 1 .. n - 3 : t[k] = s[k]
<1> DEFINE n == Len(s)  a == SubSeq(s, 1, n - 3)  d == SubSeq(s, n - 3 + 2, n)
           u == <<s[n - 3 + 1]>>  v == a \o d  t == v \o u
<1>1. n \in Nat /\ n - 3 \in 0 .. n /\ s[n] \in S /\ s[n - 1] \in S /\ s[n - 2] \in S
      /\ n - 3 + 2 = n - 1 /\ n - 3 + 1 = n - 2
  OBVIOUS
<1>2. a \in Seq(S) /\ Len(a) = n - 3 /\ \A k \in 1 .. n - 3 : a[k] = s[k]
  BY <1>1, Prefix
<1>3. u \in Seq(S) /\ Len(u) = 1 /\ u[1] = s[n - 2]
  BY <1>1
<1>4. d \in Seq(S) /\ Len(d) = 2 /\ d[1] = s[n - 1] /\ d[2] = s[n]
  <2> HIDE DEF n
  <2>1. n - 1 \in Int /\ n \in Int /\ \A i \in n - 1 .. n : s[i] \in S
    BY <1>1
  <2>2. d = SubSeq(s, n - 1, n)
    BY <1>1
  <2> HIDE DEF d
  <2>3. /\ d \in Seq(S) /\ Len(d) = IF n - 1 <= n THEN n - (n - 1) + 1 ELSE 0
        /\ \A i \in 1 .. n - (n - 1) + 1 : d[i] = s[n - 1 + i - 1]
    BY <2>1, <2>2, SubSeqProperties
  <2>4. n - (n - 1) + 1 = 2 /\ n - 1 <= n /\ n - 1 + 1 - 1 = n - 1 /\ n - 1 + 2 - 1 = n
    BY <1>1
  <2> QED
    BY <2>3, <2>4
<1>5. Rotated(s) = t
  BY DEF Rotated
<1> HIDE DEF n, a, d, u
<1>6. /\ v \in Seq(S) /\ Len(v) = Len(a) + Len(d)
      /\ \A i \in 1 .. Len(a) + Len(d) : v[i] = IF i <= Len(a) THEN a[i] ELSE d[i - Len(a)]
  BY <1>2, <1>4, ConcatProperties
<1>61. v \in Seq(S) /\ t = v \o u
  BY <1>6
<1> HIDE DEF v, t
<1>7. /\ t \in Seq(S) /\ Len(t) = Len(v) + Len(u)
      /\ \A i \in 1 .. Len(v) + Len(u) : t[i] = IF i <= Len(v) THEN v[i] ELSE u[i - Len(v)]
  <2>1. /\ Len(v \o u) = Len(v) + Len(u)
        /\ v \o u \in Seq(S)
        /\ \A i \in 1 .. Len(v) + Len(u) : (v \o u)[i] = IF i <= Len(v) THEN v[i] ELSE u[i - Len(v)]
    <3>1. v \in Seq(S) /\ u \in Seq(S)
      BY <1>3, <1>61
    <3> QED
      BY <3>1, ConcatProperties
  <2> QED
    BY <1>61, <2>1
<1>8. Len(v) = n - 1 /\ \A i \in 1 .. n - 1 : v[i] = IF i <= n - 3 THEN a[i] ELSE d[i - (n - 3)]
  BY <1>1, <1>2, <1>4, <1>6
<1>9. Len(t) = n /\ \A i \in 1 .. n : t[i] = IF i <= n - 1 THEN v[i] ELSE u[i - (n - 1)]
  BY <1>1, <1>3, <1>7, <1>8
<1>10. t[n] = s[n - 2]
  <2>1. n \in 1 .. n /\ ~ (n <= n - 1) /\ n - (n - 1) = 1
    BY <1>1
  <2> QED
    BY <1>3, <1>9, <2>1
<1>11. t[n - 1] = s[n] /\ t[n - 2] = s[n - 1]
  <2>1. /\ n - 1 \in 1 .. n /\ n - 1 \in 1 .. n - 1 /\ n - 1 <= n - 1 /\ ~ (n - 1 <= n - 3) /\ n - 1 - (n - 3) = 2
        /\ n - 2 \in 1 .. n /\ n - 2 \in 1 .. n - 1 /\ n - 2 <= n - 1 /\ ~ (n - 2 <= n - 3) /\ n - 2 - (n - 3) = 1
    BY <1>1
  <2>2. t[n - 1] = v[n - 1] /\ t[n - 2] = v[n - 2]
    BY <1>9, <2>1
  <2> QED
    BY <1>4, <1>8, <2>1, <2>2
<1>12. \A k \in 1 .. n - 3 : t[k] = s[k]
  <2> SUFFICES ASSUME NEW k \in 1 .. n - 3 PROVE t[k] = s[k]
    OBVIOUS
  <2>1. k \in 1 .. n /\ k \in 1 .. n - 1 /\ k <= n - 1 /\ k <= n - 3
    BY <1>1
  <2>2. t[k] = v[k]
    BY <1>9, <2>1
  <2>3. v[k] = s[k]
    BY <1>2, <1>8, <2>1
  <2> QED
    BY <2>2, <2>3
<1> QED
  BY <1>5, <1>7, <1>9, <1>10, <1>11, <1>12 DEF n

\* vswap() changes the order only, after vcheck_cmp().
LEMMA SwapFrame ==
  ASSUME NEW m, Rec(vcheck_cmp(m))
  PROVE  With(vcheck_cmp(m), vswap(m), Swapped(vcheck_cmp(m).vs))
<1> DEFINE y == vcheck_cmp(m)
           F(s) == SubSeq(s, 1, Len(s) - 2) \o <<s[Len(s)], s[Len(s) - 1]>>
           W == {[w EXCEPT !.means = F(@)] : w \in y.worlds}
<1>1. vswap(m) = [y EXCEPT !.vs = F(y.vs), !.worlds = W]
  BY DEF vswap, Reorder
<1>2. F(y.vs) = Swapped(y.vs)
  BY DEF Swapped
<1> HIDE DEF W, y, F
<1> QED
  BY <1>1, <1>2, WithIt DEF y

\* vrotb() changes the order only, after vcheck_cmp().
LEMMA RotFrame ==
  ASSUME NEW m, Rec(vcheck_cmp(m))
  PROVE  With(vcheck_cmp(m), vrotb(m, 3), Rotated(vcheck_cmp(m).vs))
<1> DEFINE y == vcheck_cmp(m)
           F(s) == SubSeq(s, 1, Len(s) - 3) \o SubSeq(s, Len(s) - 3 + 2, Len(s))
                     \o <<s[Len(s) - 3 + 1]>>
           W == {[w EXCEPT !.means = F(@)] : w \in y.worlds}
<1>1. vrotb(m, 3) = [y EXCEPT !.vs = F(y.vs), !.worlds = W]
  BY DEF vrotb, Reorder
<1>2. F(y.vs) = Rotated(y.vs)
  BY DEF Rotated
<1> HIDE DEF W, y, F
<1> QED
  BY <1>1, <1>2, WithIt DEF y

\* vswap()
LEMMA SwapOnto ==
  ASSUME NEW m, Good(m), NEW b \in Nat, b + 2 <= Len(m.vs)
  PROVE  Onto(m, vswap(m), b, Len(m.vs))
<1> DEFINE y == vcheck_cmp(m)  x == vswap(m)  n == Len(m.vs)  s == Swapped(y.vs)
           f == [k \in 1 .. n |-> IF k = n THEN n - 1 ELSE IF k = n - 1 THEN n ELSE k]
<1>1. n \in Nat /\ n >= 2 /\ b < n
  BY GoodIs
<1>2. Onto(m, y, b, n) /\ (Live => \A k \in 1 .. n : y.vs[k].r # "cmp")
  BY <1>1, CheckOnto
<1> HIDE DEF y, x
<1>3. Good(y) /\ Len(y.vs) = n /\ y.vs \in Seq(Entries) /\ Rec(y)
  BY <1>2, OntoGood, GoodIs
<1>4. With(y, x, s)
  BY <1>3, SwapFrame DEF x, y
<1>5. /\ s \in Seq(Entries) /\ Len(s) = n /\ s[n] = y.vs[n - 1] /\ s[n - 1] = y.vs[n]
      /\ \A k \in 1 .. n - 2 : s[k] = y.vs[k]
  BY <1>1, <1>3, SwappedIs
<1> HIDE DEF s, n
<1>6. \A k \in 1 .. n : /\ f[k] \in 1 .. n /\ s[k] = y.vs[f[k]]
                        /\ k = n \/ k = n - 1 \/ k \in 1 .. n - 2
  <2> SUFFICES ASSUME NEW k \in 1 .. n PROVE f[k] \in 1 .. n /\ s[k] = y.vs[f[k]]
                                             /\ (k = n \/ k = n - 1 \/ k \in 1 .. n - 2)
    OBVIOUS
  <2>1. f[k] = IF k = n THEN n - 1 ELSE IF k = n - 1 THEN n ELSE k
    OBVIOUS
  <2> HIDE DEF f
  <2>2. k = n \/ k = n - 1 \/ k \in 1 .. n - 2
    BY <1>1
  <2> QED
    BY <1>1, <1>5, <2>1, <2>2
<1>7. \A j, k \in 1 .. n : f[j] = f[k] => j = k
  BY <1>1
<1>8. Live => \A k \in 1 .. n : s[k].r # "cmp"
  BY <1>2, <1>6
<1>9. Onto(y, x, b, n)
  <2>1. b <= n /\ \A k \in 1 .. b : s[k] = y.vs[k]
    BY <1>1, <1>5 DEF n
  <2>2. Picked(y.vs, s, f, Live)
    <3>1. DOMAIN s = 1 .. n /\ DOMAIN y.vs = 1 .. n
      BY <1>3, <1>5
    <3>2. \A k \in DOMAIN s : f[k] \in DOMAIN y.vs /\ s[k] = y.vs[f[k]]
      BY <1>6, <3>1
    <3>3. \A j, k \in DOMAIN s : f[j] = f[k] => j = k
      BY <1>7, <3>1
    <3>4. Live => \A k \in DOMAIN s : s[k].r = "cmp" => k = Len(s)
      BY <1>8, <3>1
    <3> HIDE DEF f
    <3> QED
      BY <3>2, <3>3, <3>4 DEF Picked
  <2> HIDE DEF f
  <2> QED
    BY <1>3, <1>4, <1>5, <2>1, <2>2, PickOnto
<1> QED
  BY <1>2, <1>9, OntoTrans DEF x, n

\* vrotb()
LEMMA RotOnto ==
  ASSUME NEW m, Good(m), NEW b \in Nat, b + 3 <= Len(m.vs)
  PROVE  Onto(m, vrotb(m, 3), b, Len(m.vs))
<1> DEFINE y == vcheck_cmp(m)  x == vrotb(m, 3)  n == Len(m.vs)  s == Rotated(y.vs)
           f == [k \in 1 .. n |-> IF k = n THEN n - 2 ELSE IF k = n - 1 THEN n
                                  ELSE IF k = n - 2 THEN n - 1 ELSE k]
<1>1. n \in Nat /\ n >= 3 /\ b < n
  BY GoodIs
<1>2. Onto(m, y, b, n) /\ (Live => \A k \in 1 .. n : y.vs[k].r # "cmp")
  BY <1>1, CheckOnto
<1> HIDE DEF y, x
<1>3. Good(y) /\ Len(y.vs) = n /\ y.vs \in Seq(Entries) /\ Rec(y)
  BY <1>2, OntoGood, GoodIs
<1>4. With(y, x, s)
  BY <1>3, RotFrame DEF x, y
<1>5. /\ s \in Seq(Entries) /\ Len(s) = n
      /\ s[n] = y.vs[n - 2] /\ s[n - 1] = y.vs[n] /\ s[n - 2] = y.vs[n - 1]
      /\ \A k \in 1 .. n - 3 : s[k] = y.vs[k]
  <2> DEFINE q == y.vs  p == Rotated(q)
  <2>1. q \in Seq(Entries) /\ Len(q) = n /\ Len(q) >= 3
    BY <1>1, <1>3
  <2> HIDE DEF q, n
  <2>2. /\ p \in Seq(Entries) /\ Len(p) = Len(q) /\ p[Len(q)] = q[Len(q) - 2]
        /\ p[Len(q) - 1] = q[Len(q)] /\ p[Len(q) - 2] = q[Len(q) - 1]
        /\ \A k \in 1 .. Len(q) - 3 : p[k] = q[k]
    BY <2>1, RotatedIs
  <2> HIDE DEF p
  <2>3. /\ p \in Seq(Entries) /\ Len(p) = n /\ p[n] = q[n - 2] /\ p[n - 1] = q[n]
        /\ p[n - 2] = q[n - 1] /\ \A k \in 1 .. n - 3 : p[k] = q[k]
    BY <2>1, <2>2
  <2> QED
    BY <2>3 DEF p, q
<1> HIDE DEF s, n
<1>6. \A k \in 1 .. n : f[k] \in 1 .. n /\ s[k] = y.vs[f[k]]
  <2> SUFFICES ASSUME NEW k \in 1 .. n PROVE f[k] \in 1 .. n /\ s[k] = y.vs[f[k]]
    OBVIOUS
  <2>1. f[k] = IF k = n THEN n - 2 ELSE IF k = n - 1 THEN n ELSE IF k = n - 2 THEN n - 1 ELSE k
    OBVIOUS
  <2> HIDE DEF f
  <2>2. k = n \/ k = n - 1 \/ k = n - 2 \/ k \in 1 .. n - 3
    BY <1>1
  <2> QED
    BY <1>1, <1>5, <2>1, <2>2
<1>7. \A j, k \in 1 .. n : f[j] = f[k] => j = k
  BY <1>1
<1>8. Live => \A k \in 1 .. n : s[k].r # "cmp"
  BY <1>2, <1>6
<1>9. Onto(y, x, b, n)
  <2>1. b <= n /\ \A k \in 1 .. b : s[k] = y.vs[k]
    BY <1>1, <1>5 DEF n
  <2>2. Picked(y.vs, s, f, Live)
    <3>1. DOMAIN s = 1 .. n /\ DOMAIN y.vs = 1 .. n
      BY <1>3, <1>5
    <3>2. \A k \in DOMAIN s : f[k] \in DOMAIN y.vs /\ s[k] = y.vs[f[k]]
      BY <1>6, <3>1
    <3>3. \A j, k \in DOMAIN s : f[j] = f[k] => j = k
      BY <1>7, <3>1
    <3>4. Live => \A k \in DOMAIN s : s[k].r = "cmp" => k = Len(s)
      BY <1>8, <3>1
    <3> HIDE DEF f
    <3> QED
      BY <3>2, <3>3, <3>4 DEF Picked
  <2> HIDE DEF f
  <2> QED
    BY <1>3, <1>4, <1>5, <2>1, <2>2, PickOnto
<1> QED
  BY <1>2, <1>9, OntoTrans DEF x, n

\* The same functions applied to a state m has led to.
LEMMA ThenSwap ==
  ASSUME NEW m, NEW x, NEW b, NEW n, Onto(m, x, b, n), b + 2 <= n
  PROVE  Onto(m, vswap(x), b, n)
<1>1. Good(x) /\ Len(x.vs) = n /\ b \in Nat
  BY OntoGood
<1>2. Onto(x, vswap(x), b, n)
  BY <1>1, SwapOnto
<1> QED
  BY <1>2, OntoTrans

\* Then vrotb().
LEMMA ThenRot ==
  ASSUME NEW m, NEW x, NEW b, NEW n, Onto(m, x, b, n), b + 3 <= n
  PROVE  Onto(m, vrotb(x, 3), b, n)
<1>1. Good(x) /\ Len(x.vs) = n /\ b \in Nat
  BY OntoGood
<1>2. Onto(x, vrotb(x, 3), b, n)
  BY <1>1, RotOnto
<1> QED
  BY <1>2, OntoTrans

\* Then gv().
LEMMA ThenGv ==
  ASSUME NEW m, NEW x, NEW b, NEW n, Onto(m, x, b, n), b < n, NEW rc \in Class
  PROVE  Onto(m, gv(x, rc), b, n)
<1>1. Good(x) /\ Len(x.vs) = n /\ b \in Nat
  BY OntoGood
<1>2. Onto(x, gv(x, rc), b, n)
  BY <1>1, GvOnto
<1> QED
  BY <1>2, OntoTrans

\* Then vpop().
LEMMA ThenDrop ==
  ASSUME NEW m, NEW x, NEW b, NEW n, Onto(m, x, b, n), b < n
  PROVE  Onto(m, Drop(x), b, n - 1)
<1>1. Good(x) /\ Len(x.vs) = n /\ b \in Nat
  BY OntoGood
<1>2. Onto(x, Drop(x), b, n - 1)
  BY <1>1, DropOnto
<1> QED
  BY <1>2, OntoTrans

\* Then anything that takes the top entry away.
LEMMA ThenFront ==
  ASSUME NEW m, NEW x, NEW b, NEW n, Onto(m, x, b, n), b < n, NEW y, With(x, y, Front(x.vs))
  PROVE  Onto(m, y, b, n - 1)
<1>1. Good(x) /\ Len(x.vs) = n /\ b \in Nat
  BY OntoGood
<1>2. Onto(x, y, b, n - 1)
  BY <1>1, FrontOnto
<1> QED
  BY <1>2, OntoTrans

\* Then anything that leaves the entries alone.
LEMMA ThenSame ==
  ASSUME NEW m, NEW x, NEW b, NEW n, Onto(m, x, b, n), NEW y, With(x, y, x.vs)
  PROVE  Onto(m, y, b, n)
<1>1. Good(x) /\ Len(x.vs) = n /\ b \in Nat /\ b <= n
  BY OntoGood
<1>2. Sound(x.vs, x.temps, x.loc, Live) /\ b \in 0 .. Len(x.vs)
  BY <1>1, GoodIs
<1>3. Stay(x, y, b)
  BY <1>1, <1>2, StayWith
<1>4. Onto(x, y, b, n)
  BY <1>1, <1>3 DEF Onto, With
<1> QED
  BY <1>4, OntoTrans

\* Nothing done yet.
LEMMA SelfOnto ==
  ASSUME NEW m, Good(m), NEW b \in Nat, b <= Len(m.vs)
  PROVE  Onto(m, m, b, Len(m.vs))
<1>1. Stay(m, m, Len(m.vs))
  BY StaySame DEF Spill
<1> QED
  BY <1>1, OntoLess

\* gv2(), in whichever order the operands are loaded.
LEMMA Gv2Onto ==
  ASSUME NEW m, Good(m), NEW r1 \in Class, NEW r2 \in Class, NEW b \in Nat, b + 2 <= Len(m.vs)
  PROVE  Onto(m, gv2(m, r1, r2), b, Len(m.vs))
<1> DEFINE n == Len(m.vs)
           u == gv(vswap(gv(vswap(m), r1)), r2)
           v == vswap(gv(vswap(u), r1))
           d == vswap(gv(vswap(gv(m, r2)), r1))
           e == gv(d, r2)
<1>1. Onto(m, m, b, n) /\ b + 2 <= n /\ b < n
  <2>1. n \in Nat /\ b <= n /\ b < n
    BY GoodIs
  <2> QED
    BY <2>1, SelfOnto
<1>2. gv2(m, r1, r2) \in {u, v, d, e}
  BY DEF gv2
<1> HIDE DEF n
<1>3. Onto(m, u, b, n)
  BY <1>1, ThenSwap, ThenGv
<1>4. Onto(m, d, b, n)
  BY <1>1, ThenSwap, ThenGv
<1> HIDE DEF u, d
<1>5. Onto(m, v, b, n)
  BY <1>1, <1>3, ThenSwap, ThenGv
<1>6. Onto(m, e, b, n)
  BY <1>1, <1>4, ThenGv
<1> HIDE DEF v, e
<1> QED
  BY <1>2, <1>3, <1>4, <1>5, <1>6 DEF n

\* gv_dup(): the copy is in a register of its own.
LEMMA GvDupOnto ==
  ASSUME NEW m, Good(m), NEW b \in Nat, b < Len(m.vs)
  PROVE  Onto(m, gv_dup(m), b, Len(m.vs) + 1)
<1> DEFINE n == Len(m.vs)  a == gv(m, RC_INT)  got == get_reg(a, RC_INT)  r == got.r
           g == got.m  p == vdup(g)  l == load(p, r, Top(p))
           z == InsteadIn(g.vs[n], r)
           x == gv_dup(m)
           s == Append(g.vs, z)
<1>1. RC_INT \in Class /\ n \in Nat /\ n >= 1
  BY GoodIs DEF Class
<1>2. Onto(m, a, b, n) /\ a.vs[n].r \in Reg
  BY <1>1, GvOnto, GvLoads
<1>3. x = SetTop(l, [Top(p) EXCEPT !.r = r])
  BY DEF gv_dup
<1> HIDE DEF x, n, a
<1>4. Good(a) /\ Len(a.vs) = n
  BY <1>2, OntoGood
<1>5. Spill(a, g) /\ r \in Reg /\ (Live => \A k \in 1 .. n : g.vs[k].r # r)
  BY <1>1, <1>4, GetsReg
<1> HIDE DEF got, g, r
<1>6. /\ Good(g) /\ Len(g.vs) = n /\ Rec(g) /\ g.vs \in Seq(Entries)
      /\ Sound(g.vs, g.temps, g.loc, Live) /\ n \in 1 .. n /\ g.vs[n] \in Entries
      /\ Live => \A k \in 1 .. n - 1 : g.vs[k].r # "cmp"
  <2>1. Good(g) /\ Len(g.vs) = n
    BY <1>4, <1>5 DEF Spill, Stay
  <2> QED
    BY <1>1, <2>1, GoodIs
<1>7. g.vs[n].r # "cmp"
  <2>1. g.vs[n] = a.vs[n] \/ Evicted(a.vs[n], g.vs[n])
    BY <1>4, <1>5, <1>6 DEF Spill, Stay
  <2> QED
    BY <1>2, <2>1 DEF Evicted, Reg
<1>8. z \in Entries /\ z.r = r /\ ~ InSlot(z)
  BY <1>5, <1>6, Replacing
<1>9. /\ Sound(s, g.temps, g.loc, Live) /\ Len(s) = n + 1
      /\ \A k \in 1 .. n : s[k] = g.vs[k]
  <2>1. \A k \in 1 .. n : k = n \/ k \in 1 .. n - 1
    BY <1>1
  <2>2. Live => /\ z.r \in Reg => \A j \in 1 .. Len(g.vs) : g.vs[j].r # z.r
                /\ \A j \in 1 .. Len(g.vs) : g.vs[j].r # "cmp"
    BY <1>5, <1>6, <1>7, <1>8, <2>1
  <2> HIDE DEF z
  <2> QED
    BY <1>6, <1>8, <2>2, AddSound
<1>10. With(g, x, s)
  <2> DEFINE d == Append(g.vs, g.vs[n])
  <2>1. With(g, p, d)
    <3>1. Last(g.vs) = g.vs[n]
      BY <1>6 DEF Last
    <3> QED
      BY <1>6, <3>1, DupFrame
  <2>2. Len(d) = n + 1 /\ d[n + 1] = g.vs[n] /\ d \in Seq(Entries)
    BY <1>6
  <2> HIDE DEF p, d
  <2>3. p.vs = d /\ Rec(p) /\ Top(p) = g.vs[n]
    BY <2>1, <2>2 DEF With, Top, Last
  <2>4. With(p, l, d)
    BY <2>3, LoadFrame
  <2> HIDE DEF l
  <2>5. x = SetTop(l, z)
    BY <1>3, <2>3 DEF InsteadIn
  <2>6. Rec(l) /\ l.vs = d
    BY <2>4 DEF With
  <2> HIDE DEF z
  <2>7. With(l, x, [d EXCEPT ![n + 1] = z])
    BY <2>2, <2>5, <2>6, SetTopFrame
  <2>8. [d EXCEPT ![n + 1] = z] = s
    <3> DEFINE q == [d EXCEPT ![n + 1] = z]
    <3>1. /\ d \in Seq(Entries) /\ Len(d) = n + 1 /\ \A k \in 1 .. n : d[k] = g.vs[k]
          /\ \A k \in 1 .. n + 1 : k = n + 1 \/ k \in 1 .. n
      BY <1>1, <1>6 DEF d
    <3>2. q \in Seq(Entries) /\ DOMAIN q = 1 .. n + 1 /\ \A k \in 1 .. n + 1 : q[k] = IF k = n + 1 THEN z ELSE d[k]
      BY <1>1, <1>8, <3>1 DEF z
    <3>3. s \in Seq(Entries) /\ DOMAIN s = 1 .. n + 1 /\ \A k \in 1 .. n + 1 : s[k] = IF k = n + 1 THEN z ELSE d[k]
      BY <1>1, <1>6, <1>8, <3>1 DEF z
    <3> HIDE DEF q, s
    <3>4. q = [k \in 1 .. n + 1 |-> q[k]] /\ s = [k \in 1 .. n + 1 |-> s[k]]
      BY <3>2, <3>3
    <3> QED
      BY <3>2, <3>3, <3>4 DEF q
  <2> QED
    BY <2>1, <2>4, <2>7, <2>8 DEF With
<1> HIDE DEF s, z
<1>11. Onto(a, x, b, n + 1)
  <2>1. Stay(a, g, n)
    BY <1>4, <1>5 DEF Spill
  <2>2. b <= n /\ b < n
    BY DEF n
  <2>3. Onto(a, g, b, n)
    BY <1>6, <2>1, <2>2, OntoLess
  <2>4. b \in 0 .. Len(g.vs) /\ b <= Len(s) /\ \A k \in 1 .. b : s[k] = g.vs[k]
    BY <1>1, <1>6, <1>9, <2>2
  <2>5. Stay(g, x, b)
    BY <1>6, <1>9, <1>10, <2>4, StayWith
  <2>6. Onto(g, x, b, n + 1)
    BY <1>9, <1>10, <2>5 DEF Onto, With
  <2> QED
    BY <2>3, <2>6, OntoTrans
<1> QED
  BY <1>2, <1>11, OntoTrans DEF x, n

\* An entry outside the frame replaces the one on top.
LEMMA ThenPut ==
  ASSUME NEW m, NEW x, NEW b, NEW n, Onto(m, x, b, n), b < n, NEW e \in Entries, ~ InSlot(e),
         e.r \in Reg => Unheld(x, e.r, n - 1),
         NEW y, With(x, y, [x.vs EXCEPT ![n] = e])
  PROVE  /\ Onto(m, y, b, n) /\ y.vs[n] = e
         /\ \A k \in 1 .. n - 1 : y.vs[k] = x.vs[k]
<1> DEFINE s == [x.vs EXCEPT ![n] = e]
<1>1. Good(x) /\ Len(x.vs) = n /\ b \in Nat /\ n \in Nat /\ n \in 1 .. n /\ b <= n - 1
  BY OntoGood
<1>2. Sound(x.vs, x.temps, x.loc, Live)
  BY <1>1, GoodIs
<1>3. Live => /\ e.r \in Reg => \A j \in 1 .. Len(x.vs) : j # n => x.vs[j].r # e.r
              /\ e.r = "cmp" => n = Len(x.vs)
  <2>1. \A j \in 1 .. n : j # n => j \in 1 .. n - 1
    BY <1>1
  <2> QED
    BY <1>1, <2>1 DEF Unheld
<1>4. /\ Sound(s, x.temps, x.loc, Live) /\ Len(s) = n /\ s[n] = e
      /\ \A k \in 1 .. n : k # n => s[k] = x.vs[k]
  BY <1>1, <1>2, <1>3, PutSound
<1> HIDE DEF s
<1>5. \A k \in 1 .. n - 1 : s[k] = x.vs[k]
  BY <1>1, <1>4
<1>6. y.vs = s
  BY DEF With, s
<1>7. Stay(x, y, b)
  <2>1. b \in 0 .. Len(x.vs) /\ b <= Len(s) /\ \A k \in 1 .. b : s[k] = x.vs[k]
    BY <1>1, <1>4, <1>5
  <2> QED
    BY <1>1, <1>4, <2>1, StayWith DEF s
<1>8. Onto(x, y, b, n)
  BY <1>1, <1>4, <1>6, <1>7 DEF Onto
<1> QED
  BY <1>4, <1>5, <1>6, <1>8, OntoTrans

\* The emitted operation changes no entry.
LEMMA ExecutedFrame == ASSUME NEW m, Rec(m), NEW op PROVE With(m, Executed(m, op), m.vs)
<1> DEFINE W == {Result(w, op, Top(m).r) : w \in m.worlds}
<1>1. Executed(m, op) = [m EXCEPT !.worlds = W]
  BY DEF Executed, Run
<1> HIDE DEF W
<1> QED
  BY <1>1, WithIt

\* Then the emitted operation.
LEMMA ThenExecuted ==
  ASSUME NEW m, NEW x, NEW b, NEW n, Onto(m, x, b, n), NEW op
  PROVE  Onto(m, Executed(x, op), b, n)
<1>1. Rec(x)
  BY OntoGood, GoodIs
<1> QED
  BY <1>1, ExecutedFrame, ThenSame

\* Then the two operands give way to the result.
LEMMA ThenReduced ==
  ASSUME NEW m, NEW x, NEW b, NEW n, Onto(m, x, b, n), b < n, NEW v
  PROVE  Onto(m, Reduced(x, v), b, n - 1)
<1>1. Rec(x)
  BY OntoGood, GoodIs
<1> QED
  BY <1>1, ReducedFrame, ThenFront

\* Then another top entry, in a register no other entry is in.
LEMMA ThenSetTop ==
  ASSUME NEW m, NEW x, NEW b, NEW n, Onto(m, x, b, n), b < n, NEW e \in Entries, ~ InSlot(e),
         e.r \in Reg => Unheld(x, e.r, n - 1)
  PROVE  Onto(m, SetTop(x, e), b, n)
<1>1. Rec(x) /\ Len(x.vs) = n
  BY OntoGood, GoodIs
<1>2. With(x, SetTop(x, e), [x.vs EXCEPT ![n] = e])
  BY <1>1, SetTopFrame
<1> QED
  BY <1>2, ThenPut

\* Saved registers leave the entries in place.
LEMMA SpillOnto ==
  ASSUME NEW m, NEW x, Spill(m, x), NEW b \in Nat, b <= Len(m.vs)
  PROVE  Onto(m, x, b, Len(m.vs))
  BY OntoLess DEF Spill

\* The operation of gen_opi(), div with rdx saved first.
LEMMA ComputedOnto ==
  ASSUME NEW m, NEW x, NEW b, NEW n, Onto(m, x, b, n), b + 2 <= n, NEW op \in Op, NEW cc
  PROVE  Onto(m, Computed(x, op, cc), b, n - 1)
<1> DEFINE u == Used(x, cc)  left == Reduced(u, "new")
<1>1. Rec(x) /\ n \in Nat /\ b \in Nat /\ b < n /\ b < n - 1
  BY OntoGood, GoodIs
<1>2. Onto(m, u, b, n)
  BY <1>1, UsedFrame, ThenSame
<1> HIDE DEF u
<1>3. Onto(m, left, b, n - 1)
  BY <1>1, <1>2, ThenReduced
<1> DEFINE lt == SetTop(Executed(left, op), InReg("cmp", "int"))
           sv == save_reg(left, "rdx")
           div == Executed(sv, op)
           other == Executed(left, op)
<1> HIDE DEF left
<1>0. Computed(x, op, cc) = CASE op = "lt" -> lt [] op = "div" -> div [] OTHER -> other
  BY DEF Computed, left, u
<1> HIDE DEF lt, div, other
<1>4. Computed(x, op, cc) \in {lt, div, other}
  BY <1>0 DEF Op
<1>7. Onto(m, other, b, n - 1)
  BY <1>3, ThenExecuted DEF other
<1>8. Onto(m, lt, b, n - 1)
  <2> DEFINE e == InReg("cmp", "int")
  <2>1. e \in Entries /\ e.r = "cmp"
    BY Simple
  <2> HIDE DEF e, other
  <2>2. ~ InSlot(e) /\ e.r \notin Reg
    BY <2>1 DEF InSlot, Reg
  <2> QED
    BY <1>1, <1>7, <2>1, <2>2, ThenSetTop DEF other, e, lt
<1>9. Onto(m, div, b, n - 1)
  <2>1. Good(left) /\ Len(left.vs) = n - 1 /\ b <= n - 1
    BY <1>1, <1>3, OntoGood
  <2>2. Spill(left, sv)
    <3>1. 0 \in 0 .. Len(left.vs)
      BY <1>1, <2>1
    <3> QED
      BY <2>1, <3>1, SavesUpstack DEF save_reg
  <2> HIDE DEF sv
  <2>3. Onto(left, sv, b, n - 1)
    BY <1>1, <2>1, <2>2, SpillOnto
  <2>4. Onto(m, sv, b, n - 1)
    BY <1>3, <2>3, OntoTrans
  <2> QED
    BY <2>4, ThenExecuted DEF div, sv
<1> QED
  BY <1>4, <1>7, <1>8, <1>9

\* gen_opi()
LEMMA OpiOnto ==
  ASSUME NEW m, NEW x, NEW b, NEW n, Onto(m, x, b, n), b + 2 <= n, NEW op \in Op
  PROVE  Onto(m, gen_opi(x, op), b, n - 1)
<1>1. Good(x) /\ Len(x.vs) = n /\ b \in Nat /\ n \in Nat /\ b < n
  BY OntoGood
<1>2. RC_INT \in Class /\ RC_RAX \in Class /\ RC_RCX \in Class
  BY DEF Class
<1>3. CASE IsConst(Top(x)) /\ op # "div"
  <2>1. gen_opi(x, op) = Computed(vswap(gv(vswap(x), RC_INT)), op, TRUE)
    BY <1>3 DEF gen_opi
  <2>2. Onto(m, vswap(gv(vswap(x), RC_INT)), b, n)
    BY <1>1, <1>2, ThenSwap, ThenGv
  <2> QED
    BY <2>1, <2>2, ComputedOnto
<1>4. CASE ~ (IsConst(Top(x)) /\ op # "div")
  <2> DEFINE r1 == IF op = "div" THEN RC_RAX ELSE RC_INT
             r2 == IF op \in {"shl", "div"} THEN RC_RCX ELSE RC_INT
  <2>1. gen_opi(x, op) = Computed(gv2(x, r1, r2), op, FALSE)
    BY <1>4 DEF gen_opi
  <2>2. r1 \in Class /\ r2 \in Class
    BY <1>2
  <2> HIDE DEF r1, r2
  <2>3. Onto(x, gv2(x, r1, r2), b, n)
    BY <1>1, <2>2, Gv2Onto
  <2>4. Onto(m, gv2(x, r1, r2), b, n)
    BY <2>3, OntoTrans
  <2> QED
    BY <2>1, <2>4, ComputedOnto
<1> QED
  BY <1>3, <1>4

\* gen_opic()
LEMMA OpicOnto ==
  ASSUME NEW m, NEW x, NEW b, NEW n, Onto(m, x, b, n), b + 2 <= n, NEW op \in Op
  PROVE  Onto(m, gen_opic(x, op), b, n - 1)
<1> DEFINE a == x.vs[n - 1]
           fold == SetTop(Reduced(x, "3"), [a EXCEPT !.v = "3"])
<1>1. Good(x) /\ Len(x.vs) = n /\ b \in Nat /\ n \in Nat /\ b < n /\ b < n - 1 /\ n - 1 \in 1 .. n
  BY OntoGood
<1>2. Depth(x) - 1 = n - 1
  BY <1>1 DEF Depth
<1>3. \/ gen_opic(x, op) = fold /\ IsConst(a)
      \/ gen_opic(x, op) = Drop(x)
      \/ gen_opic(x, op) = gen_opi(x, op)
  BY <1>2 DEF gen_opic
<1>4. ASSUME IsConst(a) PROVE Onto(m, fold, b, n - 1)
  <2>1. a \in Entries /\ a.r = "const"
    BY <1>1, <1>4, GoodIs DEF IsConst
  <2>2. fold = SetTop(Reduced(x, "3"), Folded(a))
    BY DEF Folded
  <2> HIDE DEF a, fold
  <2>3. Folded(a) \in Entries /\ Folded(a).r = "const"
    BY <2>1, Constants
  <2>4. Onto(m, Reduced(x, "3"), b, n - 1)
    BY <1>1, ThenReduced
  <2>5. ~ InSlot(Folded(a)) /\ Folded(a).r \notin Reg
    BY <2>3 DEF InSlot, Reg
  <2> QED
    BY <1>1, <2>2, <2>3, <2>4, <2>5, ThenSetTop
<1> HIDE DEF fold, a
<1>5. Onto(m, Drop(x), b, n - 1)
  BY <1>1, ThenDrop
<1>6. Onto(m, gen_opi(x, op), b, n - 1)
  BY OpiOnto
<1> QED
  BY <1>3, <1>4, <1>5, <1>6

\* gen_op()
LEMMA ThenOp ==
  ASSUME NEW m, NEW x, NEW b, NEW n, Onto(m, x, b, n), b + 2 <= n, NEW op \in Op
  PROVE  Onto(m, gen_op(x, op), b, n - 1)
<1> DEFINE y == vswap(vswap(x))  res == gen_opic(y, op)
<1>1. Onto(m, y, b, n)
  BY ThenSwap
<1>2. gen_op(x, op) = res \/ gen_op(x, op) = gv(res, RC_INT)
  BY DEF gen_op
<1> HIDE DEF y
<1>3. Onto(m, res, b, n - 1)
  BY <1>1, OpicOnto
<1> HIDE DEF res
<1>4. Onto(m, gv(res, RC_INT), b, n - 1)
  <2>1. RC_INT \in Class /\ b < n - 1
    BY OntoGood DEF Class
  <2> QED
    BY <1>3, <2>1, ThenGv
<1> QED
  BY <1>2, <1>3, <1>4

\* Then vsetc() of an entry that needs no register.
LEMMA ThenSetc ==
  ASSUME NEW m, NEW x, NEW b, NEW n, Onto(m, x, b, n), b < n, NEW e \in Entries, ~ InSlot(e),
         e.r \notin Reg \cup {"cmp"}, NEW mean
  PROVE  Onto(m, vsetc(x, e, mean), b, n + 1)
<1> DEFINE y == vsetc(x, e, mean)
<1>1. Good(x) /\ Len(x.vs) = n /\ n \in Nat /\ b \in Nat /\ n >= 1 /\ b <= n - 1
  BY OntoGood
<1>2. Len(y.vs) = n + 1 /\ Stay(x, y, n - 1)
  BY <1>1, Pushes
<1> HIDE DEF y
<1>3. Onto(x, y, b, n + 1)
  BY <1>1, <1>2, OntoLess
<1> QED
  BY <1>3, OntoTrans DEF y

\* indir() turns the top address into the object there.
LEMMA ObjectFrame ==
  ASSUME NEW a, Rec(a), NEW n, Len(a.vs) = n
  PROVE  LET o == Run(SetTop(a, [Top(a) EXCEPT !.lval = TRUE, !.t = "int"]),
                      LAMBDA w : Meaning(w, Depth(a), Mem(w.means[Depth(a)][2])))
         IN  With(a, o, [a.vs EXCEPT ![n] = AsObject(a.vs[n])])
<1> DEFINE e == AsObject(a.vs[n])
           p == SetTop(a, e)
           W == {Meaning(w, Depth(a), Mem(w.means[Depth(a)][2])) : w \in p.worlds}
<1>1. SetTop(a, [Top(a) EXCEPT !.lval = TRUE, !.t = "int"]) = p
  BY DEF Top, Last, AsObject
<1>2. Run(p, LAMBDA w : Meaning(w, Depth(a), Mem(w.means[Depth(a)][2]))) = [p EXCEPT !.worlds = W]
  BY DEF Run
<1>3. With(a, p, [a.vs EXCEPT ![n] = e])
  BY SetTopFrame
<1> HIDE DEF p, W, e
<1>4. With(p, [p EXCEPT !.worlds = W], p.vs)
  BY <1>3, WithIt DEF With
<1>5. With(a, [p EXCEPT !.worlds = W], [a.vs EXCEPT ![n] = e])
  BY <1>3, <1>4 DEF With
<1> QED
  BY <1>1, <1>2, <1>5 DEF e

\* indir() of a pointer.
LEMMA ThenIndir ==
  ASSUME NEW m, NEW x, NEW b, NEW n, Onto(m, x, b, n), b < n, x.vs[n].t = "ptr"
  PROVE  /\ Onto(m, indir(x), b, n)
         /\ indir(x).vs[n] \in Entries /\ indir(x).vs[n].r \notin {"cmp", "local", "llocal"}
<1> DEFINE a == IF Top(x).lval THEN gv(x, RC_INT) ELSE x
           e == AsObject(a.vs[n])
<1>1. /\ Good(x) /\ Len(x.vs) = n /\ n \in Nat /\ b \in Nat /\ n >= 1 /\ n \in 1 .. n /\ b <= n - 1
      /\ RC_INT \in Class
  BY OntoGood DEF Class
<1>2. Top(x) = x.vs[n]
  BY <1>1 DEF Top, Last
<1>3. x.vs[n] \in Entries /\ Proper(x.vs[n]) /\ x.vs[n].lval \in BOOLEAN
  <2>1. x.vs[n] \in Entries
    BY <1>1, GoodIs
  <2> QED
    BY <2>1 DEF Entries, Descriptor
<1>4. /\ Onto(m, a, b, n) /\ a.vs[n].r \notin {"cmp", "local", "llocal"}
      /\ a.vs[n].r \in Reg => Unheld(a, a.vs[n].r, n - 1)
  <2>1. CASE x.vs[n].lval
    <3>1. a = gv(x, RC_INT)
      BY <1>2, <2>1
    <3> DEFINE g == gv(x, RC_INT)
    <3>2. /\ g.vs[n].r \in Reg /\ (Live => \A k \in 1 .. n - 1 : g.vs[k].r # g.vs[n].r)
      BY <1>1, <2>1, GvLoads
    <3>3. Onto(m, g, b, n)
      BY <1>1, ThenGv
    <3> HIDE DEF g, a
    <3> QED
      BY <3>1, <3>2, <3>3 DEF Unheld, Reg, g
  <2>2. CASE ~ x.vs[n].lval
    <3>1. a = x
      BY <1>2, <2>2
    <3> HIDE DEF a
    <3>2. x.vs[n].r \notin {"cmp", "local", "llocal"}
      BY <1>3, <2>2 DEF Proper
    <3>3. ASSUME Live, x.vs[n].r \in Reg, NEW k \in 1 .. n - 1 PROVE x.vs[k].r # x.vs[n].r
      <4>1. Shared(x.vs) /\ DOMAIN x.vs = 1 .. n
        BY <1>1, <3>3, GoodIs
      <4>2. k \in 1 .. n /\ k # n
        BY <1>1
      <4> QED
        BY <1>1, <3>3, <4>1, <4>2 DEF Shared
    <3> QED
      BY <3>1, <3>2, <3>3 DEF Unheld
  <2> QED
    BY <1>3, <2>1, <2>2
<1>5. indir(x) = Run(SetTop(a, [Top(a) EXCEPT !.lval = TRUE, !.t = "int"]),
                     LAMBDA w : Meaning(w, Depth(a), Mem(w.means[Depth(a)][2])))
  BY DEF indir
<1> HIDE DEF a
<1>6. Rec(a) /\ Len(a.vs) = n /\ a.vs[n] \in Entries
  BY <1>1, <1>4, OntoGood, GoodIs
<1>7. With(a, indir(x), [a.vs EXCEPT ![n] = e])
  BY <1>5, <1>6, ObjectFrame
<1>8. ~ InSlot(a.vs[n]) /\ a.vs[n].r # "cmp" /\ a.vs[n].r # "local"
  BY <1>4 DEF InSlot
<1>9. e \in Entries /\ e.r = a.vs[n].r /\ ~ InSlot(e)
  BY <1>6, <1>8, Pointing
<1> HIDE DEF e
<1>10. e.r \in Reg => Unheld(a, e.r, n - 1)
  BY <1>4, <1>9
<1>11. Onto(m, indir(x), b, n) /\ indir(x).vs[n] = e
  BY <1>4, <1>7, <1>9, <1>10, ThenPut
<1> QED
  BY <1>4, <1>9, <1>11

\* The check that a store makes.
StoreCheck(m) ==
  Check(m, LAMBDA w : <<Place(w, m.vs[Depth(m) - 1]), w.reg[Top(m).r]>>,
           LAMBDA w : <<w.means[Depth(m) - 1], Deref(w.means[Depth(m)])>>)

\* The store itself changes no entry.
LEMMA StoreCheckFrame == ASSUME NEW m, Rec(m) PROVE With(m, StoreCheck(m), m.vs)
<1> DEFINE used(w) == <<Place(w, m.vs[Depth(m) - 1]), w.reg[Top(m).r]>>
           meant(w) == <<w.means[Depth(m) - 1], Deref(w.means[Depth(m)])>>
           W == {Uses(w, used(w), meant(w)) : w \in m.worlds}
<1>1. StoreCheck(m) = [m EXCEPT !.worlds = W]
  BY DEF StoreCheck, Check, Run
<1> HIDE DEF W
<1> QED
  BY <1>1, WithIt

\* The last steps of vstore(): store, vswap(), vpop().
LEMMA StoredIs == ASSUME NEW m PROVE Stored(m) = Drop(vswap(StoreCheck(m)))
  BY DEF Stored, StoreCheck

\* Then those steps.
LEMMA ThenStored ==
  ASSUME NEW m, NEW x, NEW b, NEW n, Onto(m, x, b, n), b + 2 <= n
  PROVE  Onto(m, Stored(x), b, n - 1)
<1>1. Rec(x) /\ b < n
  BY OntoGood, GoodIs
<1>2. Onto(m, StoreCheck(x), b, n)
  BY <1>1, StoreCheckFrame, ThenSame
<1>3. Onto(m, vswap(StoreCheck(x)), b, n)
  BY <1>2, ThenSwap
<1> QED
  BY <1>1, <1>3, ThenDrop, StoredIs

\* An address that comes back from its slot takes a register of its own.
LEMMA ThenAddress ==
  ASSUME NEW m, NEW a, NEW b, NEW n, Onto(m, a, b, n), b + 2 <= n
  PROVE  Onto(m, AddressIn(get_reg(a, RC_INT)), b, n)
<1> DEFINE got == get_reg(a, RC_INT)  g == got.m  r == got.r
           to == g.vs[n - 1]
           l == load(g, r, [to EXCEPT !.r = "local", !.t = "ptr"])
           e == InsteadIn(l.vs[n - 1], r)
           y == AddressIn(got)
<1>1. /\ n \in Nat /\ b \in Nat /\ b < n /\ b < n - 1 /\ n - 1 \in 1 .. n /\ b <= n - 2 /\ b <= n
      /\ RC_INT \in Class
  BY OntoGood DEF Class
<1>4. Good(a) /\ Len(a.vs) = n
  BY OntoGood
<1>5. Spill(a, g) /\ r \in Reg /\ (Live => \A k \in 1 .. n : g.vs[k].r # r)
  BY <1>1, <1>4, GetsReg
<1>6. y = [l EXCEPT !.vs = [l.vs EXCEPT ![n - 1] = e]]
  <2>1. Depth(g) - 1 = n - 1
    BY <1>4, <1>5 DEF Spill, Depth
  <2>2. y = [load(g, r, [g.vs[Depth(g) - 1] EXCEPT !.r = "local", !.t = "ptr"])
               EXCEPT !.vs[Depth(g) - 1].r = r]
    BY DEF AddressIn
  <2>3. y = [l EXCEPT !.vs[n - 1].r = r]
    BY <2>1, <2>2
  <2> HIDE DEF l, y, r
  <2> QED
    BY <2>3 DEF InsteadIn
<1> HIDE DEF got, g, r, y
<1>7. Good(g) /\ Rec(g) /\ Len(g.vs) = n /\ Sound(g.vs, g.temps, g.loc, Live) /\ g.vs[n - 1] \in Entries
  <2>1. Good(g) /\ Len(g.vs) = n
    BY <1>4, <1>5 DEF Spill, Stay
  <2> QED
    BY <1>1, <2>1, GoodIs
<1>8. With(g, l, g.vs)
  BY <1>7, LoadFrame
<1> HIDE DEF l
<1>9. e = InsteadIn(g.vs[n - 1], r) /\ e \in Entries /\ e.r = r /\ ~ InSlot(e)
  BY <1>5, <1>7, <1>8, Replacing DEF With
<1> HIDE DEF e
<1> DEFINE s == [g.vs EXCEPT ![n - 1] = e]
<1>10. With(g, y, s)
  <2>1. Rec(l) /\ l.vs = g.vs
    BY <1>8 DEF With
  <2>2. With(l, y, s)
    BY <1>6, <2>1, VsIt
  <2> HIDE DEF s
  <2> QED
    BY <1>8, <2>2 DEF With
<1>11. /\ Sound(s, g.temps, g.loc, Live) /\ Len(s) = n
       /\ \A k \in 1 .. n : k # n - 1 => s[k] = g.vs[k]
  <2>1. Live => /\ e.r \in Reg => \A j \in 1 .. Len(g.vs) : j # n - 1 => g.vs[j].r # e.r
                /\ e.r = "cmp" => n - 1 = Len(g.vs)
    BY <1>5, <1>7, <1>9 DEF Reg
  <2>2. n - 1 \in 1 .. Len(g.vs)
    BY <1>1, <1>7
  <2> QED
    BY <1>7, <1>9, <2>1, <2>2, PutSound
<1> HIDE DEF s
<1>12. Onto(m, y, b, n)
  <2>1. Onto(a, g, b, n)
    BY <1>1, <1>4, <1>5, SpillOnto
  <2>2. b \in 0 .. Len(g.vs) /\ b <= Len(s) /\ \A k \in 1 .. b : s[k] = g.vs[k]
    BY <1>1, <1>7, <1>11
  <2>3. Stay(g, y, b)
    BY <1>7, <1>10, <1>11, <2>2, StayWith
  <2>4. Onto(g, y, b, n)
    BY <1>1, <1>10, <1>11, <2>3 DEF Onto, With
  <2> QED
    BY <2>1, <2>4, OntoTrans
<1> QED
  BY <1>12 DEF y, got

\* vstore()
LEMMA ThenStore ==
  ASSUME NEW m, NEW x, NEW b, NEW n, Onto(m, x, b, n), b + 2 <= n
  PROVE  Onto(m, vstore(x), b, n - 1)
<1> DEFINE a == gv(x, RC_INT)  y == AddressIn(get_reg(a, RC_INT))
<1>1. RC_INT \in Class /\ b < n
  BY OntoGood DEF Class
<1>2. Onto(m, a, b, n)
  BY <1>1, ThenGv
<1>3. vstore(x) = Stored(a) \/ vstore(x) = Stored(y)
  BY DEF vstore
<1> HIDE DEF a
<1>4. Onto(m, y, b, n)
  BY <1>2, ThenAddress
<1> HIDE DEF y
<1> QED
  BY <1>2, <1>3, <1>4, ThenStored

\* No entry up to b is in a register or the flags.
Clear(m, b) == Live => \A k \in 1 .. b : m.vs[k].r \notin Reg \cup {"cmp"}

\* With no register or flags in use below, nothing there is moved.
LEMMA ClearStays ==
  ASSUME NEW m, NEW x, NEW b, NEW n, Onto(m, x, b, n), Clear(m, b)
  PROVE  Clear(x, b) /\ (Live => \A k \in 1 .. b : x.vs[k] = m.vs[k])
<1>1. ASSUME Live, NEW k \in 1 .. b PROVE x.vs[k] = m.vs[k]
  <2>1. x.vs[k] = m.vs[k] \/ Evicted(m.vs[k], x.vs[k])
    BY DEF Onto, Stay
  <2> QED
    BY <1>1, <2>1 DEF Clear, Evicted
<1> QED
  BY <1>1 DEF Clear

\* save_regs() takes all that is below out of registers and flags.
LEMMA ClearSaved ==
  ASSUME NEW m, Good(m), NEW n \in 1 .. Len(m.vs)
  PROVE  Clear(save_regs(m, n), Len(m.vs) - n) /\ Spill(m, save_regs(m, n))
<1> DEFINE x == save_regs(m, n)  N == Len(m.vs)
<1>1. N \in Nat /\ n \in 0 .. N /\ \A k \in 1 .. N - n : k \in 1 .. N - 1
  BY GoodIs
<1>2. Spill(m, x) /\ (Live => \A k \in 1 .. N - n : x.vs[k].r \notin Reg)
  BY <1>1, SavesAll
<1> HIDE DEF x
<1>3. Good(x) /\ Len(x.vs) = N
  BY <1>2 DEF Spill, Stay
<1>4. Live => \A k \in 1 .. N - 1 : x.vs[k].r # "cmp"
  BY <1>3, GoodIs
<1> QED
  BY <1>1, <1>2, <1>4 DEF Clear, x

\* An argument that is passed leaves the stack.
LEMMA PassedFrame == ASSUME NEW m, Rec(m) PROVE With(m, Passed(m), Front(m.vs))
<1> DEFINE used(w) == w.reg[Top(m).r]
           meant(w) == Deref(Last(w.means))
           W == {Uses(w, used(w), meant(w)) : w \in m.worlds}
           y == [m EXCEPT !.worlds = W]
<1>1. Passed(m) = Drop(y)
  BY DEF Passed, Check, Run
<1> HIDE DEF W
<1>2. With(m, y, m.vs)
  BY WithIt
<1> HIDE DEF y
<1>3. With(y, Drop(y), Front(y.vs))
  BY <1>2, DropFrame DEF With
<1> QED
  BY <1>1, <1>2, <1>3 DEF With

PassedOn(m) == Passed(gv(m, RC_INT))

\* Then one argument loaded and passed.
LEMMA ThenPassed ==
  ASSUME NEW m, NEW x, NEW b, NEW n, Onto(m, x, b, n), b < n
  PROVE  Onto(m, PassedOn(x), b, n - 1)
<1>1. Onto(m, gv(x, RC_INT), b, n)
  BY ThenGv DEF Class
<1>2. Rec(gv(x, RC_INT))
  BY <1>1, OntoGood, GoodIs
<1> QED
  BY <1>1, <1>2, PassedFrame, ThenFront DEF PassedOn

\* gfunc_call() of one or two arguments, its rounds written out.
LEMMA CallIs ==
  ASSUME NEW m, NEW n \in 1 .. 2
  PROVE  LET s == save_regs(m, n)
             p == IF n = 1 THEN PassedOn(s) ELSE PassedOn(PassedOn(s))
         IN  gfunc_call(m, n) = vsetc(Run(p, Called), InReg("rax", "int"), Val("new"))
<1> DEFINE s == save_regs(m, n)
           G(c) == [k \in 0 .. n |-> IF k = 0 THEN s ELSE PassedOn(c[k - 1])]
           f == CHOOSE c : c = G(c)
           d == [k \in 0 .. n |-> IF k = 0 THEN s ELSE IF k = 1 THEN PassedOn(s)
                                  ELSE PassedOn(PassedOn(s))]
<1>1. d = G(d)
  <2> HIDE DEF s
  <2>1. ASSUME NEW k \in 0 .. n PROVE d[k] = IF k = 0 THEN s ELSE PassedOn(d[k - 1])
    <3>1. k = 0 \/ k = 1 \/ k = 2
      OBVIOUS
    <3>2. CASE k = 0
      BY <3>2
    <3>3. CASE k = 1
      BY <3>3
    <3>4. CASE k = 2
      BY <3>4
    <3> QED
      BY <3>1, <3>2, <3>3, <3>4
  <2> QED
    BY <2>1
<1>2. f = G(f)
  BY <1>1
<1>3. gfunc_call(m, n) = vsetc(Run(f[n], Called), InReg("rax", "int"), Val("new"))
  BY DEF gfunc_call, PassedOn
<1> HIDE DEF f, d, s
<1>4. ASSUME NEW k \in 0 .. n PROVE f[k] = IF k = 0 THEN s ELSE PassedOn(f[k - 1])
  BY <1>2
<1>5. f[0] = s /\ f[1] = PassedOn(s)
  <2>1. f[0] = s
    BY <1>4
  <2>2. 1 \in 0 .. n /\ 1 - 1 = 0
    OBVIOUS
  <2>3. f[1] = PassedOn(f[1 - 1])
    BY <1>4, <2>2
  <2> QED
    BY <2>1, <2>2, <2>3
<1>6. f[n] = IF n = 1 THEN PassedOn(s) ELSE PassedOn(PassedOn(s))
  <2>1. CASE n = 1
    BY <1>5, <2>1
  <2>2. CASE n = 2
    <3>1. 2 \in 0 .. n /\ 2 - 1 = 1
      BY <2>2
    <3>2. f[2] = PassedOn(f[2 - 1])
      BY <1>4, <3>1
    <3> QED
      BY <1>5, <2>2, <3>1, <3>2
  <2> QED
    BY <2>1, <2>2
<1> QED
  BY <1>3, <1>6 DEF s

\* gfunc_call()
LEMMA ThenCall ==
  ASSUME NEW m, NEW x, NEW b, NEW n, Onto(m, x, b, n), NEW k \in 1 .. 2, b + k <= n
  PROVE  /\ Onto(m, gfunc_call(x, k), b, n - k + 1)
         /\ gfunc_call(x, k).vs[n - k + 1] = InReg("rax", "int")
<1> DEFINE c == n - k  s == save_regs(x, k)
           p == IF k = 1 THEN PassedOn(s) ELSE PassedOn(PassedOn(s))
           W == {Called(w) : w \in p.worlds}
           q == [p EXCEPT !.worlds = W]
           e == InReg("rax", "int")
           y == vsetc(q, e, Val("new"))
<1>1. /\ Good(x) /\ Len(x.vs) = n /\ n \in Nat /\ b \in Nat /\ c \in Nat /\ b <= c /\ c < n
      /\ k \in 1 .. n /\ (k = 1 => c = n - 1) /\ (k # 1 => c = n - 1 - 1 /\ c < n - 1)
  BY OntoGood
<1>2. gfunc_call(x, k) = y
  BY CallIs DEF Run
<1>3. Clear(s, c) /\ Spill(x, s)
  BY <1>1, ClearSaved
<1> HIDE DEF c, s
<1>4. Onto(x, s, c, n) /\ Good(s) /\ Len(s.vs) = n
  <2>1. Onto(x, s, c, n)
    BY <1>1, <1>3, SpillOnto
  <2> QED
    BY <2>1, OntoGood
<1>5. Onto(s, p, c, c)
  <2>1. Onto(s, s, c, n)
    BY <1>1, <1>4, SelfOnto
  <2>2. Onto(s, PassedOn(s), c, n - 1)
    BY <1>1, <2>1, ThenPassed
  <2>3. CASE k = 1
    BY <1>1, <2>2, <2>3
  <2>4. CASE k # 1
    <3>1. Onto(s, PassedOn(PassedOn(s)), c, n - 1 - 1)
      BY <1>1, <2>2, <2>4, ThenPassed
    <3> QED
      BY <1>1, <2>4, <3>1
  <2> QED
    BY <2>3, <2>4
<1> HIDE DEF p
<1>6. Onto(s, q, c, c)
  <2>1. Rec(p)
    BY <1>5, OntoGood, GoodIs
  <2> HIDE DEF W
  <2>2. With(p, q, p.vs)
    BY <2>1, WithIt
  <2> HIDE DEF q
  <2> QED
    BY <1>5, <2>2, ThenSame
<1> HIDE DEF q, y, e, W
<1>7. Clear(q, c) /\ Good(q) /\ Len(q.vs) = c
  BY <1>3, <1>6, ClearStays, OntoGood
<1>8. e \in Entries /\ e.r = "rax"
  BY Simple DEF e
<1>9. /\ Good(y) /\ Len(y.vs) = c + 1 /\ y.vs[c + 1] = e
      /\ \A i \in 1 .. c : y.vs[i] = q.vs[i] \/ (Live /\ q.vs[i].r \in Reg \cup {"cmp"})
      /\ ~ Live => y.temps = q.temps /\ y.loc = q.loc
  <2>1. ~ InSlot(e) /\ e.r # "cmp"
    BY <1>8 DEF InSlot
  <2>2. Live /\ e.r \in Reg => \A i \in 1 .. Len(q.vs) : q.vs[i].r # e.r /\ q.vs[i].r # "cmp"
    BY <1>7, <1>8 DEF Clear
  <2> QED
    BY <1>7, <1>8, <2>1, <2>2, Pushes DEF y
<1>10. Onto(q, y, c, c + 1)
  <2>1. \A i \in 1 .. c : y.vs[i] = q.vs[i]
    BY <1>7, <1>9 DEF Clear
  <2>2. c \in 0 .. Len(q.vs) /\ c <= Len(y.vs)
    BY <1>1, <1>7, <1>9
  <2> QED
    BY <1>1, <1>9, <2>1, <2>2 DEF Onto, Stay
<1>11. Onto(x, y, c, c + 1)
  BY <1>4, <1>6, <1>10, OntoTrans
<1>12. Onto(x, y, b, c + 1)
  BY <1>1, <1>9, <1>11, OntoLess DEF Onto
<1>13. Onto(m, y, b, c + 1)
  BY <1>12, OntoTrans
<1> QED
  BY <1>2, <1>9, <1>13 DEF c, e

\* AtomicLoad's last two steps put the place back below the result and store there.
LEMMA StoreBack ==
  ASSUME NEW c, Good(c), NEW n, Len(c.vs) = n, n >= 1, c.vs[n] = InReg("rax", "int"),
         NEW again, NEW e \in Entries, e.r \notin {"cmp", "llocal"}, With(c, again, Append(c.vs, e))
  PROVE  With(c, vstore(vswap(again)), c.vs)
<1> DEFINE a == Append(c.vs, e)  v == vswap(again)  d == Swapped(a)
           q == StoreCheck(v)  u == vswap(q)  t == Swapped(d)
<1>1. c.vs \in Seq(Entries) /\ n \in Nat /\ n \in 1 .. n /\ Rec(c)
  BY GoodIs
<1>2. c.vs[n] \in Entries /\ c.vs[n].r = "rax" /\ c.vs[n].lval = FALSE
  BY <1>1, Simple DEF InReg, Entry
<1>3. /\ a \in Seq(Entries) /\ Len(a) = n + 1 /\ a[n + 1] = e /\ a[n] = c.vs[n]
      /\ \A k \in 1 .. n : a[k] = c.vs[k]
  BY <1>1
<1>4. again.vs = a /\ Rec(again)
  BY DEF With
<1> HIDE DEF a
<1>5. vcheck_cmp(again) = again
  BY <1>3, <1>4 DEF vcheck_cmp, Top, Last
<1>6. With(again, v, d)
  BY <1>4, <1>5, SwapFrame
<1>7. /\ d \in Seq(Entries) /\ Len(d) = n + 1 /\ d[n + 1] = c.vs[n] /\ d[n] = e
      /\ \A k \in 1 .. n - 1 : d[k] = c.vs[k]
  <2>1. /\ Len(a) >= 2 /\ n + 1 - 1 = n /\ n + 1 - 2 = n - 1
        /\ \A k \in 1 .. n - 1 : k \in 1 .. n
    BY <1>1, <1>3
  <2>3. /\ d \in Seq(Entries) /\ Len(d) = Len(a) /\ d[Len(a)] = a[Len(a) - 1]
        /\ d[Len(a) - 1] = a[Len(a)] /\ \A k \in 1 .. Len(a) - 2 : d[k] = a[k]
    BY <1>3, <2>1, SwappedIs
  <2> HIDE DEF d
  <2>2. /\ d \in Seq(Entries) /\ Len(d) = n + 1 /\ d[n + 1] = a[n] /\ d[n] = a[n + 1]
        /\ \A k \in 1 .. n - 1 : d[k] = a[k]
    BY <1>3, <1>1, <2>1, <2>3
  <2> QED
    BY <1>3, <2>1, <2>2
<1> HIDE DEF v, d
<1>8. v.vs = d /\ Rec(v) /\ Top(v) = c.vs[n] /\ Depth(v) - 1 = n /\ v.vs[Depth(v) - 1] = e
  BY <1>1, <1>6, <1>7 DEF With, Top, Last, Depth
<1>9. gv(v, RC_INT) = v
  <2>1. "rax" \in Range(RC_INT)
    <3>1. RC_INT \in Class /\ RC_INT[1] = "rax"
      BY DEF Class, RC_INT
    <3> QED
      BY <3>1, Classes
  <2> QED
    BY <1>2, <1>8, <2>1 DEF gv
<1>10. vstore(v) = Stored(v)
  BY <1>8, <1>9 DEF vstore
<1>11. vstore(v) = Drop(u)
  BY <1>10, StoredIs
<1>12. With(v, q, d)
  BY <1>8, StoreCheckFrame
<1> HIDE DEF q, u
<1>13. q.vs = d /\ Rec(q) /\ vcheck_cmp(q) = q
  <2>1. q.vs = d /\ Rec(q)
    BY <1>12 DEF With
  <2> QED
    BY <1>2, <1>7, <2>1 DEF vcheck_cmp, Top, Last
<1>14. With(q, u, t)
  BY <1>13, SwapFrame DEF u
<1>15. /\ t \in Seq(Entries) /\ Len(t) = n + 1
       /\ \A k \in 1 .. n : t[k] = c.vs[k]
  <2>1. /\ Len(d) >= 2 /\ n + 1 - 1 = n /\ n + 1 - 2 = n - 1
        /\ \A k \in 1 .. n : k \in 1 .. n - 1 \/ k = n
    BY <1>1, <1>7
  <2>3. /\ t \in Seq(Entries) /\ Len(t) = Len(d) /\ t[Len(d)] = d[Len(d) - 1]
        /\ t[Len(d) - 1] = d[Len(d)] /\ \A k \in 1 .. Len(d) - 2 : t[k] = d[k]
    BY <1>7, <2>1, SwappedIs
  <2> HIDE DEF t
  <2>2. /\ t \in Seq(Entries) /\ Len(t) = n + 1 /\ t[n] = d[n + 1]
        /\ \A k \in 1 .. n - 1 : t[k] = d[k]
    BY <1>7, <1>1, <2>1, <2>3
  <2> QED
    BY <1>7, <2>1, <2>2
<1> HIDE DEF t
<1>16. u.vs = t /\ Rec(u)
  BY <1>14 DEF With
<1>17. With(u, Drop(u), Front(t))
  BY <1>16, DropFrame
<1>18. Front(t) = c.vs
  <2> DEFINE f == Front(t)
  <2>1. Len(t) >= 1 /\ Len(t) - 1 = n
    BY <1>1, <1>15
  <2>2. f \in Seq(Entries) /\ Len(f) = n /\ \A k \in 1 .. n : f[k] = t[k]
    BY <1>15, <2>1, FrontIs
  <2> HIDE DEF f
  <2>3. f = [k \in 1 .. n |-> f[k]] /\ c.vs = [k \in 1 .. n |-> c.vs[k]]
    BY <1>1, <2>2
  <2>4. \A k \in 1 .. n : f[k] = c.vs[k]
    BY <1>15, <2>2
  <2> QED
    BY <2>3, <2>4 DEF f
<1>19. With(c, again, a)
  BY DEF a
<1> QED
  BY <1>6, <1>11, <1>12, <1>14, <1>17, <1>18, <1>19 DEF With, v
-----------------------------------------------------------------------------
(***************************************************************************)
(* The inductive invariant, as an operator on the values of the variables. *)
(* In suppressed code the registers hold nothing, and the entries in them  *)
(* are not told apart; what makes the entries sound again when code goes on*)
(* is what is below the base of the outermost suppressed arm, and with it  *)
(* the value of the arm before if that one is the one to keep.             *)
(***************************************************************************)
IsSeq(C) == \E S : C \in Seq(S)
ArmRec(d) ==
  d = [c |-> d.c, base |-> d.base, arm |-> d.arm, sv |-> d.sv, parked |-> d.parked]
Arm(d) ==
  /\ ArmRec(d)
  /\ d.c = -1 \/ d.c = 0 \/ d.c = 1
  /\ d.arm = "then" \/ d.arm = "else"
  /\ d.base \in Nat /\ d.sv \in Entries

\* The arms whose code is suppressed, and what is left of the stack after one.
Dead(d) == (d.c = 0 /\ d.arm = "then") \/ (d.c = 1 /\ d.arm = "else")
Suppressed(C) == {k \in DOMAIN C : Dead(C[k])}
Outer(C, k) == \A i \in Suppressed(C) : k <= i
Outside(C, k) == \A i \in Suppressed(C) : k < i
Stays(s, d) == SubSeq(s, 1, d.base) \o (IF d.c = 1 THEN <<d.sv>> ELSE << >>)

\* No entry up to b is in a register or the flags.
Saved(s, b) == \A i \in 1 .. b : s[i].r \notin Reg \cup {"cmp"}

StackOk(s, T, L, w) ==
  Sound(s, T, L, w = 0) /\ \A k \in DOMAIN s : Tidy(s[k]) = s[k]
CondsOk(s, C) ==
  /\ IsSeq(C)
  /\ \A k \in DOMAIN C :
       Arm(C[k]) /\ C[k].base <= Len(s) /\ \A j \in 1 .. k : C[j].base <= C[k].base
SavedOk(s, C) ==
  \A k \in DOMAIN C : C[k].c = -1 /\ Outside(C, k) => Saved(s, C[k].base)
BackOk(s, T, L, C) ==
  \A k \in Suppressed(C) : Sound(Stays(s, C[k]), T, L, Outer(C, k))
Holds(s, T, L, w, C) ==
  /\ StackOk(s, T, L, w) /\ CondsOk(s, C) /\ w = Cardinality(Suppressed(C))
  /\ SavedOk(s, C) /\ BackOk(s, T, L, C)

VInv == Holds(vstack, temps, loc, nocode_wanted, conds)

\* The base of the innermost arm.
BaseOf(C) == IF C = << >> THEN 0 ELSE Last(C).base

\* The conditionals are a sequence.
LEMMA SeqIs ==
  ASSUME NEW C, IsSeq(C)
  PROVE  Len(C) \in Nat /\ DOMAIN C = 1 .. Len(C) /\ (C # << >> => Len(C) \in DOMAIN C)
<1>1. PICK S : C \in Seq(S)
  BY DEF IsSeq
<1> QED
  BY <1>1

\* Code is suppressed exactly when an arm is.
LEMMA Counting ==
  ASSUME NEW C, IsSeq(C)
  PROVE  /\ IsFiniteSet(Suppressed(C)) /\ Cardinality(Suppressed(C)) \in Nat
         /\ Cardinality(Suppressed(C)) = 0 <=> Suppressed(C) = {}
<1>1. Len(C) \in Nat /\ DOMAIN C = 1 .. Len(C)
  BY SeqIs
<1>2. IsFiniteSet(1 .. Len(C))
  BY <1>1, FS_Interval
<1>3. Suppressed(C) \subseteq 1 .. Len(C)
  BY <1>1 DEF Suppressed
<1>4. IsFiniteSet(Suppressed(C))
  BY <1>2, <1>3, FS_Subset
<1> QED
  BY <1>4, FS_CardinalityType, FS_EmptySet

\* The base of the innermost arm is above all others.
LEMMA BaseTop ==
  ASSUME NEW s, NEW C, CondsOk(s, C), Len(s) \in Nat
  PROVE  /\ BaseOf(C) \in Nat /\ BaseOf(C) <= Len(s)
         /\ \A k \in DOMAIN C : C[k].base \in Nat /\ C[k].base <= BaseOf(C)
<1>1. Len(C) \in Nat /\ DOMAIN C = 1 .. Len(C) /\ (C # << >> => Len(C) \in DOMAIN C)
  BY SeqIs DEF CondsOk
<1>2. \A k \in DOMAIN C : /\ C[k].base \in Nat /\ C[k].base <= Len(s)
                          /\ \A j \in 1 .. k : C[j].base <= C[k].base
  BY DEF CondsOk, Arm
<1>3. CASE C = << >>
  BY <1>3, <1>1 DEF BaseOf
<1>4. CASE C # << >>
  <2>1. BaseOf(C) = C[Len(C)].base
    BY <1>4 DEF BaseOf, Last
  <2> QED
    BY <1>1, <1>2, <1>4, <2>1
<1> QED
  BY <1>3, <1>4

\* What the invariant says of the state an operation starts from.
LEMMA NowIs ==
  ASSUME VInv
  PROVE  /\ Good(Now) /\ Now.vs = vstack /\ Now.temps = temps /\ Now.loc = loc
         /\ Len(vstack) \in Nat /\ DOMAIN vstack = 1 .. Len(vstack)
         /\ \A k \in 1 .. Len(vstack) : vstack[k] \in Entries
         /\ Base \in Nat /\ Base <= Len(vstack) /\ Base = BaseOf(conds)
         /\ IsSeq(conds) /\ (Live <=> Suppressed(conds) = {})
<1>1. /\ Sound(vstack, temps, loc, nocode_wanted = 0) /\ CondsOk(vstack, conds) /\ IsSeq(conds)
      /\ nocode_wanted = Cardinality(Suppressed(conds))
  BY DEF VInv, Holds, StackOk, CondsOk
<1>2. nocode_wanted \in Nat /\ (nocode_wanted = 0 <=> Suppressed(conds) = {})
  BY <1>1, Counting
<1>3. Now.vs = vstack /\ Now.temps = temps /\ Now.loc = loc /\ Rec(Now)
  BY DEF Now, Rec
<1>4. Good(Now)
  BY <1>1, <1>2, <1>3 DEF Good, Live
<1>5. vstack \in Seq(Entries)
  BY <1>1 DEF Sound
<1>6. Base = BaseOf(conds)
  BY DEF Base, BaseOf
<1>7. Len(vstack) \in Nat /\ DOMAIN vstack = 1 .. Len(vstack) /\ \A k \in 1 .. Len(vstack) : vstack[k] \in Entries
  BY <1>5
<1>8. BaseOf(conds) \in Nat /\ BaseOf(conds) <= Len(vstack)
  BY <1>1, <1>7, BaseTop
<1> QED
  BY <1>1, <1>2, <1>3, <1>4, <1>6, <1>7, <1>8 DEF Live

\* What is left after an arm depends on the entries below its base only.
LEMMA StaysSame ==
  ASSUME NEW s \in Seq(Entries), NEW t \in Seq(Entries), NEW d, d.base \in Nat,
         d.base <= Len(s), d.base <= Len(t), \A k \in 1 .. d.base : t[k] = s[k]
  PROVE  Stays(t, d) = Stays(s, d)
<1> DEFINE b == d.base  p == SubSeq(s, 1, b)  q == SubSeq(t, 1, b)
<1>1. b \in 0 .. Len(s) /\ b \in 0 .. Len(t)
  OBVIOUS
<1>2. p \in Seq(Entries) /\ Len(p) = b /\ \A k \in 1 .. b : p[k] = s[k]
  BY <1>1, Prefix
<1>3. q \in Seq(Entries) /\ Len(q) = b /\ \A k \in 1 .. b : q[k] = t[k]
  BY <1>1, Prefix
<1>4. Stays(s, d) = p \o (IF d.c = 1 THEN <<d.sv>> ELSE << >>)
      /\ Stays(t, d) = q \o (IF d.c = 1 THEN <<d.sv>> ELSE << >>)
  BY DEF Stays
<1> HIDE DEF p, q
<1>5. p = [k \in 1 .. b |-> p[k]] /\ q = [k \in 1 .. b |-> q[k]]
  BY <1>2, <1>3
<1>6. \A k \in 1 .. b : p[k] = q[k]
  BY <1>2, <1>3
<1>7. p = q
  BY <1>5, <1>6
<1> QED
  BY <1>4, <1>7

\* A step of an expression that keeps what is below the innermost base.
LEMMA Compiled ==
  ASSUME VInv, NEW m, Good(m), NEW b, Low(Now, m, b), Base <= b
  PROVE  Holds([k \in DOMAIN m.vs |-> Tidy(m.vs[k])], m.temps, m.loc, nocode_wanted, conds)
<1> DEFINE x == [k \in DOMAIN m.vs |-> Tidy(m.vs[k])]
<1>1. /\ Now.vs = vstack /\ Now.temps = temps /\ Now.loc = loc
      /\ Len(vstack) \in Nat /\ Base \in Nat /\ Base = BaseOf(conds)
      /\ IsSeq(conds) /\ (Live <=> Suppressed(conds) = {})
      /\ \A k \in 1 .. Len(vstack) : vstack[k] \in Entries
  BY NowIs
<1>2. /\ b \in Nat /\ b <= Len(vstack) /\ b <= Len(m.vs)
      /\ \A k \in 1 .. b : (Live /\ vstack[k].r \in Reg \cup {"cmp"}) \/ m.vs[k] = vstack[k]
      /\ ~ Live => m.temps = temps /\ m.loc = loc
  BY <1>1 DEF Low
<1>3. /\ m.vs \in Seq(Entries) /\ Len(m.vs) \in Nat /\ DOMAIN m.vs = 1 .. Len(m.vs)
      /\ \A k \in 1 .. Len(m.vs) : m.vs[k] \in Entries
      /\ Sound(m.vs, m.temps, m.loc, Live)
  BY GoodIs
<1>4. Sound(x, m.temps, m.loc, Live) /\ Len(x) = Len(m.vs)
  BY <1>3, TidySound
<1>5. DOMAIN x = 1 .. Len(m.vs) /\ \A k \in 1 .. Len(m.vs) : x[k] = Tidy(m.vs[k])
  BY <1>3
<1> HIDE DEF x
<1>6. /\ StackOk(vstack, temps, loc, nocode_wanted) /\ CondsOk(vstack, conds)
      /\ nocode_wanted = Cardinality(Suppressed(conds))
      /\ SavedOk(vstack, conds) /\ BackOk(vstack, temps, loc, conds)
  BY DEF VInv, Holds
<1>7. \A k \in 1 .. b : (Live /\ vstack[k].r \in Reg \cup {"cmp"}) \/ x[k] = vstack[k]
  <2>1. \A k \in 1 .. Len(vstack) : Tidy(vstack[k]) = vstack[k]
    <3>1. DOMAIN vstack = 1 .. Len(vstack)
      BY NowIs
    <3> QED
      BY <3>1, <1>6 DEF StackOk
  <2> QED
    BY <1>1, <1>2, <1>3, <1>5, <2>1
<1>8. StackOk(x, m.temps, m.loc, nocode_wanted)
  <2>1. \A k \in DOMAIN x : Tidy(x[k]) = x[k]
    BY <1>3, <1>5, Tidying
  <2> QED
    BY <1>4, <2>1 DEF StackOk, Live
<1>9. \A k \in DOMAIN conds : conds[k].base \in Nat /\ conds[k].base <= Base
  BY <1>1, <1>6, BaseTop
<1>10. CondsOk(x, conds)
  <2>1. \A k \in DOMAIN conds : conds[k].base <= Len(x)
    BY <1>1, <1>2, <1>3, <1>4, <1>9
  <2> QED
    BY <1>6, <2>1 DEF CondsOk
<1>11. SavedOk(x, conds)
  <2> SUFFICES ASSUME NEW k \in DOMAIN conds, conds[k].c = -1, Outside(conds, k),
                      NEW i \in 1 .. conds[k].base
               PROVE  x[i].r \notin Reg \cup {"cmp"}
    BY DEF SavedOk, Saved
  <2>1. vstack[i].r \notin Reg \cup {"cmp"}
    BY <1>6 DEF SavedOk, Saved
  <2>2. i \in 1 .. b
    BY <1>1, <1>2, <1>9
  <2> QED
    BY <1>7, <2>1, <2>2
<1>12. BackOk(x, m.temps, m.loc, conds)
  <2> SUFFICES ASSUME NEW k \in Suppressed(conds)
               PROVE  Sound(Stays(x, conds[k]), m.temps, m.loc, Outer(conds, k))
    BY DEF BackOk
  <2>1. ~ Live /\ m.temps = temps /\ m.loc = loc
    BY <1>1, <1>2
  <2>2. k \in DOMAIN conds
    BY DEF Suppressed
  <2>3. vstack \in Seq(Entries) /\ x \in Seq(Entries)
    BY <1>4, <1>6 DEF Sound, StackOk
  <2>4. \A i \in 1 .. conds[k].base : x[i] = vstack[i]
    BY <1>1, <1>2, <1>7, <1>9, <2>1, <2>2
  <2>5. conds[k].base <= Len(vstack) /\ conds[k].base <= Len(x) /\ conds[k].base \in Nat
    BY <1>1, <1>2, <1>3, <1>4, <1>9, <2>2
  <2>6. Stays(x, conds[k]) = Stays(vstack, conds[k])
    BY <2>3, <2>4, <2>5, StaysSame
  <2> QED
    BY <1>6, <2>1, <2>6 DEF BackOk
<1> QED
  BY <1>6, <1>8, <1>10, <1>11, <1>12 DEF Holds, x

\* What a function keeps up to b, it keeps as Compiled needs it.
LEMMA OntoLow ==
  ASSUME NEW m, NEW x, NEW b, NEW n, Onto(m, x, b, n)
  PROVE  Good(x) /\ Low(m, x, b)
  BY DEF Onto, Stay, Low, Evicted

\* An operation of an expression preserves the invariant.
LEMMA CompileStep ==
  ASSUME VInv, NEW m, NEW n, Onto(Now, m, Base, n), Compile(m)
  PROVE  VInv'
<1>1. Good(m) /\ Low(Now, m, Base) /\ Base \in Nat
  BY OntoLow DEF Onto
<1>2. Holds([k \in DOMAIN m.vs |-> Tidy(m.vs[k])], m.temps, m.loc, nocode_wanted, conds)
  BY <1>1, Compiled
<1> QED
  BY <1>2 DEF Compile, Become, VInv
-----------------------------------------------------------------------------
(***************************************************************************)
(* The steps of an expression preserve the invariant.                      *)
(***************************************************************************)
LEMMA Start ==
  ASSUME VInv
  PROVE  Onto(Now, Now, Base, Len(vstack)) /\ Good(Now) /\ Now.vs = vstack /\ Base \in Nat /\ Base <= Len(vstack)
         /\ Len(vstack) \in Nat
<1>1. Good(Now) /\ Now.vs = vstack /\ Base \in Nat /\ Base <= Len(vstack) /\ Len(vstack) \in Nat
  BY NowIs
<1> QED
  BY <1>1, SelfOnto

\* vsetc() of an entry that needs no register, whatever the stack holds.
LEMMA Pushing ==
  ASSUME VInv, NEW e \in Entries, ~ InSlot(e), e.r \notin Reg \cup {"cmp"}, NEW mean,
         Compile(vsetc(Now, e, mean))
  PROVE  VInv'
<1> DEFINE x == vsetc(Now, e, mean)  n == Len(vstack)
<1>1. Good(Now) /\ Now.vs = vstack /\ Base \in Nat /\ Base <= n /\ n \in Nat
  BY Start
<1>2. /\ Good(x) /\ Len(x.vs) = n + 1
      /\ \A k \in 1 .. n : x.vs[k] = vstack[k] \/ (Live /\ vstack[k].r \in Reg \cup {"cmp"})
      /\ ~ Live => x.temps = Now.temps /\ x.loc = Now.loc
  BY <1>1, Pushes
<1> HIDE DEF x
<1>3. Low(Now, x, Base)
  BY <1>1, <1>2 DEF Low
<1>4. Holds([k \in DOMAIN x.vs |-> Tidy(x.vs[k])], x.temps, x.loc, nocode_wanted, conds)
  BY <1>1, <1>2, <1>3, Compiled
<1> QED
  BY <1>4 DEF Compile, Become, VInv, x

\* A constant is pushed.
LEMMA PushConstStep ==
  ASSUME VInv, NEW v, v = "0" \/ v = "3", PushConst(v, "int")
  PROVE  VInv'
<1> DEFINE e == Const(v, "int")
<1>1. e \in Entries /\ e.r = "const"
  BY Simple DEF Types
<1>2. ~ InSlot(e) /\ e.r \notin Reg \cup {"cmp"}
  BY <1>1 DEF InSlot, Reg
<1> HIDE DEF e
<1> QED
  BY <1>1, <1>2, Pushing DEF PushConst, e

\* A variable is pushed.
LEMMA PushVarStep ==
  ASSUME VInv, NEW c, c = VarI \/ c = VarP, NEW t, t = "int" \/ t = "ptr", PushVar(c, t)
  PROVE  VInv'
<1> DEFINE e == Entry("local", TRUE, c, "junk", t)
<1>1. e \in Entries /\ e.r = "local" /\ e.c <= Locals /\ e.c \in Nat
  BY DEF Entry, Entries, Descriptor, Proper, Kinds, Types, Contents, VarI, VarP, Locals
<1> HIDE DEF e
<1>2. ~ InSlot(e) /\ e.r \notin Reg \cup {"cmp"}
  BY <1>1 DEF InSlot, Reg, Locals
<1> QED
  BY <1>1, <1>2, Pushing DEF PushVar, e

\* A value is dropped.
LEMMA PopStep == ASSUME VInv, Pop PROVE VInv'
<1>1. Base < Len(vstack)
  BY Start DEF Pop, Operands
<1>2. Onto(Now, Drop(Now), Base, Len(vstack) - 1)
  BY <1>1, Start, ThenDrop
<1> QED
  BY <1>2, CompileStep DEF Pop

\* indir()
LEMMA IndirectionStep == ASSUME VInv, Indirection PROVE VInv'
<1> DEFINE n == Len(vstack)
<1>1. Base < n /\ n \in 1 .. n /\ Now.vs = vstack
  BY Start DEF Indirection, Operands
<1>2. vstack[n].t = "ptr"
  <2>1. vstack[n] \in Entries
    BY <1>1, NowIs
  <2>2. vstack[n].t # "int"
    BY <1>1, Start DEF Indirection, Nth, IsInt
  <2> QED
    BY <2>1, <2>2 DEF Entries, Descriptor, Types
<1>3. Onto(Now, indir(Now), Base, n)
  BY <1>1, <1>2, Start, ThenIndir
<1> QED
  BY <1>3, CompileStep DEF Indirection

\* gen_op()
LEMMA BinaryStep == ASSUME VInv, NEW op \in Op, Binary(op) PROVE VInv'
<1>1. Base + 2 <= Len(vstack)
  BY DEF Binary, Operands
<1>2. Onto(Now, gen_op(Now, op), Base, Len(vstack) - 1)
  BY <1>1, Start, ThenOp
<1> QED
  BY <1>2, CompileStep DEF Binary

\* The place of a compound assignment is an int that is not in the flags.
LEMMA Doubling ==
  ASSUME VInv, Operands(1), IsInt(Nth(0)), Assignable(Nth(0))
  PROVE  Onto(Now, vdup(Now), Base, Len(vstack) + 1)
<1> DEFINE n == Len(vstack)
<1>1. Base \in Nat /\ Base < n /\ n \in 1 .. n /\ n >= 1 /\ Base <= n /\ Now.vs = vstack /\ Good(Now)
  BY Start DEF Operands
<1>2. vstack[n].t = "int" /\ vstack[n].lval
  BY <1>1, Start DEF Nth, IsInt, Assignable
<1>3. vstack[n] \in Entries
  BY <1>1, NowIs
<1>4. vstack[n].r # "cmp"
  BY <1>2, <1>3 DEF Entries, Proper
<1> QED
  BY <1>1, <1>2, <1>4, DupOnto

\* The place of a compound assignment is doubled.
LEMMA CompoundPlaceStep == ASSUME VInv, CompoundPlace PROVE VInv'
<1>1. Onto(Now, vdup(Now), Base, Len(vstack) + 1)
  BY Doubling DEF CompoundPlace
<1> QED
  BY <1>1, CompileStep DEF CompoundPlace

\* vstore()
LEMMA AssignStep == ASSUME VInv, Assign PROVE VInv'
<1>1. Base + 2 <= Len(vstack)
  BY DEF Assign, Operands
<1>2. Onto(Now, vstore(Now), Base, Len(vstack) - 1)
  BY <1>1, Start, ThenStore
<1> QED
  BY <1>2, CompileStep DEF Assign

\* From the place twice, or the old value below them, to the new value.
LEMMA Stepped ==
  ASSUME NEW m, NEW x, NEW b, NEW n, Onto(m, x, b, n), b + 2 <= n
  PROVE  Onto(m, vstore(gen_op(vsetc(x, Const("3", "int"), Val("3")), "sub")), b, n - 1)
<1> DEFINE e == Const("3", "int")  y == vsetc(x, e, Val("3"))  z == gen_op(y, "sub")
<1>1. n \in Nat /\ b \in Nat /\ b < n /\ b + 2 <= n + 1 /\ n + 1 - 1 = n
  BY OntoGood
<1>2. e \in Entries /\ e.r = "const"
  BY Simple DEF Types
<1>3. ~ InSlot(e) /\ e.r \notin Reg \cup {"cmp"}
  BY <1>2 DEF InSlot, Reg
<1> HIDE DEF e
<1>4. Onto(m, y, b, n + 1)
  BY <1>1, <1>2, <1>3, ThenSetc
<1> HIDE DEF y
<1>5. Onto(m, z, b, n + 1 - 1)
  BY <1>1, <1>4, ThenOp DEF Op
<1> HIDE DEF z
<1>6. Onto(m, vstore(z), b, n - 1)
  BY <1>1, <1>5, ThenStore
<1> QED
  BY <1>6 DEF e, y, z

\* inc(), before or after the value is taken.
New(x) == vstore(gen_op(vsetc(x, Const("3", "int"), Val("3")), "sub"))
Twice == vrotb(vrotb(gv_dup(vdup(Now)), 3), 3)
Increased(post) == IF post THEN Drop(New(Twice)) ELSE New(vdup(Now))
\* It keeps what is below the operand.
LEMMA IncOnto ==
  ASSUME VInv, NEW post \in BOOLEAN, Inc(post)
  PROVE  Onto(Now, Increased(post), Base, Len(vstack)) /\ Compile(Increased(post))
<1> DEFINE n == Len(vstack)  two == vdup(Now)
           d == gv_dup(two)  three == vrotb(vrotb(d, 3), 3)
<1>1. Operands(1) /\ IsInt(Nth(0)) /\ Assignable(Nth(0))
  BY DEF Inc
<1>2. /\ Base \in Nat /\ n \in Nat /\ Base + 1 <= n /\ Base + 2 <= n + 1 /\ Base + 3 <= n + 2
      /\ Base < n + 1 /\ n + 1 + 1 = n + 2 /\ n + 2 - 1 = n + 1 /\ n + 1 - 1 = n
  BY <1>1, Start DEF Operands
<1>3. Onto(Now, two, Base, n + 1)
  BY <1>1, Doubling
<1>4. CASE post
  <2>1. Compile(Drop(New(three))) /\ Increased(post) = Drop(New(three))
    BY <1>4 DEF Inc, New, Increased, Twice
  <2> HIDE DEF two
  <2>2. Good(two) /\ Len(two.vs) = n + 1
    BY <1>3, OntoGood
  <2>3. Onto(two, d, Base, n + 2)
    BY <1>2, <2>2, GvDupOnto
  <2>4. Onto(Now, d, Base, n + 2)
    BY <1>3, <2>3, OntoTrans
  <2> HIDE DEF d
  <2>5. Onto(Now, three, Base, n + 2)
    BY <1>2, <2>4, ThenRot
  <2> HIDE DEF three
  <2>6. Onto(Now, New(three), Base, n + 1)
    <3>1. Onto(Now, New(three), Base, n + 2 - 1)
      BY <1>2, <2>5, Stepped DEF New
    <3> HIDE DEF n
    <3> QED
      BY <1>2, <3>1
  <2> DEFINE last == New(three)
  <2>7. Compile(Drop(last)) /\ Increased(post) = Drop(last)
    BY <2>1 DEF three, d, two
  <2>8. Onto(Now, last, Base, n + 1) /\ Base < n + 1 /\ n \in Nat /\ Base \in Nat
    BY <1>2, <2>6
  <2> HIDE DEF last, n
  <2>9. Onto(Now, Drop(last), Base, n + 1 - 1)
    BY <2>8, ThenDrop
  <2> QED
    BY <1>2, <2>7, <2>9 DEF n
<1>5. CASE ~ post
  <2>1. Compile(New(two)) /\ Increased(post) = New(two)
    BY <1>5 DEF Inc, New, Increased
  <2> HIDE DEF two, n
  <2>2. Onto(Now, New(two), Base, n + 1 - 1)
    BY <1>2, <1>3, Stepped DEF New
  <2> QED
    BY <1>2, <1>5, <2>1, <2>2 DEF n
<1> QED
  BY <1>4, <1>5

\* inc() preserves the invariant.
LEMMA IncStep == ASSUME VInv, NEW post \in BOOLEAN, Inc(post) PROVE VInv'
  BY IncOnto, CompileStep

\* gfunc_call()
LEMMA CallStep == ASSUME VInv, NEW n \in 1 .. 2, Call(n) PROVE VInv'
<1> DEFINE d == Len(vstack)  x == vcheck_cmp(Now)
<1>1. Base \in Nat /\ d \in Nat /\ Base + n <= d /\ Base < d /\ Good(Now) /\ Now.vs = vstack
  BY Start DEF Call, Operands
<1>2. Onto(Now, x, Base, d)
  BY <1>1, CheckOnto
<1> HIDE DEF x
<1>3. Onto(Now, gfunc_call(x, n), Base, d - n + 1)
  BY <1>1, <1>2, ThenCall
<1> QED
  BY <1>3, CompileStep DEF Call, x
-----------------------------------------------------------------------------
(* __atomic_load(): the place is taken aside, and put back after the call. *)
SetAside(m) == Run(m, LAMBDA w : [w EXCEPT !.aside = Last(w.means)])
TakeBack(m) == Run(m, LAMBDA w : [Meaning(w, Depth(m), w.aside) EXCEPT !.aside = << >>])
Fetching(place) ==
  LET order == vsetc(Drop(SetAside(place)), Const("0", "int"), Val("0"))
  IN  TakeBack(Push(gfunc_call(order, 2), Top(place), Val("junk")))

\* Taking the place aside changes no entry.
LEMMA SetAsideFrame == ASSUME NEW m, Rec(m) PROVE With(m, SetAside(m), m.vs)
<1> DEFINE W == {[w EXCEPT !.aside = Last(w.means)] : w \in m.worlds}
<1>1. SetAside(m) = [m EXCEPT !.worlds = W]
  BY DEF SetAside, Run
<1> HIDE DEF W
<1> QED
  BY <1>1, WithIt

\* Nor does bringing it back.
LEMMA TakeBackFrame == ASSUME NEW m, Rec(m) PROVE With(m, TakeBack(m), m.vs)
<1> DEFINE W == {[Meaning(w, Depth(m), w.aside) EXCEPT !.aside = << >>] : w \in m.worlds}
<1>1. TakeBack(m) = [m EXCEPT !.worlds = W]
  BY DEF TakeBack, Run
<1> HIDE DEF W
<1> QED
  BY <1>1, WithIt

\* From the place to store to, to the value stored there.
LEMMA Fetched ==
  ASSUME NEW m, NEW x, NEW b, NEW n, Onto(m, x, b, n), b + 2 <= n, x.vs[n].t = "ptr"
  PROVE  Onto(m, vstore(vswap(Fetching(indir(x)))), b, n - 1)
<1> DEFINE p == indir(x)  s == SetAside(p)  a == Drop(s)  e == Const("0", "int")
           o == vsetc(a, e, Val("0"))  c == gfunc_call(o, 2)
           k == Push(c, Top(p), Val("junk"))  g == TakeBack(k)  y == vstore(vswap(g))
<1>1. n \in Nat /\ b \in Nat /\ b < n /\ b < n - 1 /\ n - 1 + 1 = n /\ n - 2 + 1 = n - 1 /\ n - 1 \in Nat
  BY OntoGood
<1>2. Fetching(p) = g
  BY DEF Fetching
<1>3. Onto(m, p, b, n) /\ p.vs[n] \in Entries /\ p.vs[n].r \notin {"cmp", "local", "llocal"}
  BY <1>1, ThenIndir
<1> HIDE DEF p
<1>4. Top(p) = p.vs[n] /\ Rec(p)
  <2>1. Rec(p) /\ Len(p.vs) = n
    BY <1>3, OntoGood, GoodIs
  <2> QED
    BY <2>1 DEF Top, Last
<1>5. Onto(m, s, b, n)
  BY <1>3, <1>4, SetAsideFrame, ThenSame
<1> HIDE DEF s
<1>6. Onto(m, a, b, n - 1)
  BY <1>1, <1>5, ThenDrop
<1> HIDE DEF a
<1>7. e \in Entries /\ e.r = "const"
  BY Simple DEF Types
<1> HIDE DEF e
<1>8. ~ InSlot(e) /\ e.r \notin Reg \cup {"cmp"}
  BY <1>7 DEF InSlot, Reg
<1>9. Onto(m, o, b, n - 1 + 1)
  BY <1>1, <1>6, <1>7, <1>8, ThenSetc
<1>10. Onto(m, o, b, n)
  BY <1>1, <1>9
<1> HIDE DEF o
<1>11. Onto(m, c, b, n - 2 + 1) /\ c.vs[n - 2 + 1] = InReg("rax", "int")
  BY <1>1, <1>10, ThenCall
<1> HIDE DEF c
<1>12. Onto(m, c, b, n - 1) /\ c.vs[n - 1] = InReg("rax", "int")
  BY <1>1, <1>11
<1>13. Good(c) /\ Len(c.vs) = n - 1 /\ Rec(c)
  BY <1>12, OntoGood, GoodIs
<1> DEFINE q == Top(p)
<1>14. With(c, k, Append(c.vs, q))
  BY <1>13, PushFrame
<1> HIDE DEF k
<1>15. With(k, g, k.vs)
  BY <1>14, TakeBackFrame DEF With
<1> HIDE DEF g
<1>16. With(c, g, Append(c.vs, q))
  BY <1>14, <1>15 DEF With
<1>17. q \in Entries /\ q.r # "cmp" /\ q.r # "llocal"
  BY <1>3, <1>4
<1> HIDE DEF q
<1>18. With(c, y, c.vs)
  <2>1. n - 1 >= 1
    BY <1>1
  <2>2. q.r \notin {"cmp", "llocal"}
    BY <1>17
  <2> QED
    BY <1>12, <1>13, <1>16, <1>17, <2>1, <2>2, StoreBack
<1> HIDE DEF y
<1>19. Onto(m, y, b, n - 1)
  BY <1>12, <1>18, ThenSame
<1> QED
  BY <1>2, <1>19 DEF y, p

\* parse_atomic() of __atomic_load() to the global.
Global == vsetc(Now, Const("&g", "ptr"), Val("&g"))
Atomic(z) == vstore(vswap(Fetching(indir(z))))
\* It keeps what is below the address.
LEMMA GlobalOnto ==
  ASSUME VInv, AtomicLoad, AtomicTarget = "global"
  PROVE  Onto(Now, Atomic(Global), Base, Len(vstack)) /\ Compile(Atomic(Global))
<1> DEFINE n == Len(vstack)  e == Const("&g", "ptr")  x == vsetc(Now, e, Val("&g"))
<1>1. Onto(Now, Now, Base, n) /\ Good(Now) /\ Now.vs = vstack /\ Base \in Nat /\ n \in Nat
  BY Start
<1>2. Compile(Atomic(Global)) /\ Operands(1)
  BY DEF AtomicLoad, Fetching, SetAside, TakeBack, Global, Atomic
<1>3. e \in Entries /\ e.r = "const" /\ e.t = "ptr"
  BY Simple DEF Types, Const, Entry
<1> HIDE DEF e
<1>4. ~ InSlot(e) /\ e.r \notin Reg \cup {"cmp"} /\ e.r # "cmp"
  BY <1>3 DEF InSlot, Reg
<1>5. Base < n /\ Base + 2 <= n + 1 /\ n + 1 - 1 = n
  BY <1>1, <1>2 DEF Operands
<1>6. Onto(Now, x, Base, n + 1)
  BY <1>1, <1>3, <1>4, <1>5, ThenSetc
<1>7. x.vs[n + 1] = e
  BY <1>1, <1>3, <1>4, Pushes
<1> HIDE DEF x
<1>8. Onto(Now, Atomic(x), Base, n + 1 - 1)
  <2>1. Onto(Now, x, Base, n + 1) /\ Base + 2 <= n + 1 /\ x.vs[n + 1].t = "ptr"
    BY <1>3, <1>5, <1>6, <1>7
  <2>2. Onto(Now, vstore(vswap(Fetching(indir(x)))), Base, n + 1 - 1)
    BY <2>1, Fetched
  <2> QED
    BY <2>2 DEF Atomic
<1>9. x = Global
  BY DEF x, e, Global
<1>10. Onto(Now, Atomic(Global), Base, n + 1 - 1)
  BY <1>8, <1>9
<1> HIDE DEF n
<1>11. Onto(Now, Atomic(Global), Base, n)
  BY <1>5, <1>10
<1> QED
  BY <1>2, <1>11 DEF n

\* Both targets.
LEMMA AtomicLoadStep == ASSUME VInv, AtomicLoad PROVE VInv'
<1> DEFINE n == Len(vstack)  done(z) == vstore(vswap(Fetching(indir(z))))
<1>1. Onto(Now, Now, Base, n) /\ Good(Now) /\ Now.vs = vstack /\ Base \in Nat /\ n \in Nat
  BY Start
<1>3. CASE AtomicTarget = "global"
  BY <1>3, GlobalOnto, CompileStep
<1>4. CASE AtomicTarget # "global"
  <2>1. Compile(done(Now)) /\ Operands(2) /\ ~ IsInt(Nth(0))
    BY <1>4 DEF AtomicLoad, Fetching, SetAside, TakeBack
  <2>2. Base + 2 <= n /\ n \in 1 .. n
    BY <1>1, <2>1 DEF Operands
  <2>3. Now.vs[n].t = "ptr"
    <3>1. vstack[n] \in Entries
      BY <2>2, NowIs
    <3>2. vstack[n].t # "int"
      BY <1>1, <2>1 DEF Nth, IsInt
    <3> QED
      BY <1>1, <3>1, <3>2 DEF Entries, Descriptor, Types
  <2>4. Onto(Now, done(Now), Base, n - 1)
    BY <1>1, <2>2, <2>3, Fetched
  <2> HIDE DEF done
  <2> QED
    BY <2>1, <2>4, CompileStep
<1> QED
  BY <1>3, <1>4
-----------------------------------------------------------------------------
(***************************************************************************)
(* The steps of a conditional, first on the values of the variables.       *)
(***************************************************************************)
LEMMA SoundLess ==
  ASSUME NEW s, NEW T, NEW L, NEW live, Sound(s, T, L, live), NEW less, less => live
  PROVE  Sound(s, T, L, less)
  BY DEF Sound

\* What the invariant says of the values of the variables.
LEMMA HoldsIs ==
  ASSUME NEW s, NEW T, NEW L, NEW w, NEW C, Holds(s, T, L, w, C)
  PROVE  /\ s \in Seq(Entries) /\ Len(s) \in Nat /\ Len(C) \in Nat /\ DOMAIN C = 1 .. Len(C)
         /\ IsFiniteSet(Suppressed(C)) /\ w = Cardinality(Suppressed(C)) /\ w \in Nat
         /\ (w = 0 <=> Suppressed(C) = {}) /\ Sound(s, T, L, w = 0)
         /\ \A k \in DOMAIN s : Tidy(s[k]) = s[k]
         /\ \A k \in DOMAIN C : Arm(C[k]) /\ C[k].base \in Nat /\ C[k].base <= Len(s)
  BY SeqIs, Counting DEF Holds, CondsOk, StackOk, Sound, Arm

\* The whole stack is what is below the base of an arm that begins.
LEMMA AllStays ==
  ASSUME NEW s \in Seq(Entries), NEW d, d.base = Len(s), d.c # 1
  PROVE  Stays(s, d) = s
<1> DEFINE p == SubSeq(s, 1, Len(s))
<1>1. p = s
  OBVIOUS
<1>2. Stays(s, d) = p \o << >>
  BY DEF Stays
<1> HIDE DEF p
<1> QED
  BY <1>1, <1>2

\* One more arm, whose code may be suppressed.
LEMMA Entering ==
  ASSUME NEW s, NEW T, NEW L, NEW w, NEW C, Holds(s, T, L, w, C),
         NEW d, Arm(d), d.arm = "then", d.base = Len(s), d.c = -1 /\ w = 0 => Saved(s, Len(s))
  PROVE  Holds(s, T, L, w + (IF d.c = 0 THEN 1 ELSE 0), Append(C, d))
<1> DEFINE D == Append(C, d)  n == Len(C)  v == w + (IF d.c = 0 THEN 1 ELSE 0)
<1>1. /\ s \in Seq(Entries) /\ Len(s) \in Nat /\ n \in Nat /\ DOMAIN C = 1 .. n
      /\ IsFiniteSet(Suppressed(C)) /\ w = Cardinality(Suppressed(C)) /\ w \in Nat
      /\ (w = 0 <=> Suppressed(C) = {}) /\ Sound(s, T, L, w = 0)
      /\ \A k \in DOMAIN s : Tidy(s[k]) = s[k]
      /\ \A k \in DOMAIN C : C[k].base \in Nat /\ C[k].base <= Len(s)
  BY HoldsIs
<1>2. CondsOk(s, C) /\ SavedOk(s, C) /\ BackOk(s, T, L, C)
  BY DEF Holds
<1>3. /\ IsSeq(D) /\ DOMAIN D = 1 .. n + 1 /\ D[n + 1] = d
      /\ \A k \in 1 .. n : D[k] = C[k]
  <2>1. PICK S : C \in Seq(S)
    BY <1>2 DEF CondsOk, IsSeq
  <2>2. C \in Seq(S \cup {d}) /\ d \in S \cup {d}
    BY <2>1
  <2>3. D \in Seq(S \cup {d}) /\ Len(D) = n + 1 /\ D[n + 1] = d /\ \A k \in 1 .. n : D[k] = C[k]
    BY <2>2
  <2> QED
    BY <2>3 DEF IsSeq
<1>4. \A k \in 1 .. n + 1 : k \in 1 .. n \/ k = n + 1
  BY <1>1
<1>5. n + 1 \in 1 .. n + 1 /\ n + 1 \notin 1 .. n /\ \A k \in 1 .. n : k \in 1 .. n + 1 /\ k < n + 1 /\ ~ (n + 1 <= k)
  BY <1>1
<1> HIDE DEF D, n, v
<1>6. Suppressed(D) = IF d.c = 0 THEN Suppressed(C) \cup {n + 1} ELSE Suppressed(C)
  <2>1. Dead(d) <=> d.c = 0
    BY DEF Dead, Arm
  <2> QED
    BY <1>1, <1>3, <1>4, <1>5, <2>1 DEF Suppressed
<1>7. v = Cardinality(Suppressed(D)) /\ (v = 0 => w = 0)
  <2>1. n + 1 \notin Suppressed(C)
    BY <1>1, <1>5 DEF Suppressed
  <2>2. CASE d.c = 0
    <3>1. v = w + 1 /\ Suppressed(D) = Suppressed(C) \cup {n + 1}
      BY <1>6, <2>2 DEF v
    <3>2. Cardinality(Suppressed(C) \cup {n + 1}) = Cardinality(Suppressed(C)) + 1
      BY <1>1, <2>1, FS_AddElement
    <3> QED
      BY <1>1, <3>1, <3>2
  <2>3. CASE d.c # 0
    BY <1>1, <1>6, <2>3 DEF v
  <2> QED
    BY <2>2, <2>3
<1>8. StackOk(s, T, L, v)
  BY <1>1, <1>7, SoundLess DEF StackOk
<1>9. CondsOk(s, D)
  <2> SUFFICES ASSUME NEW k \in DOMAIN D
               PROVE  /\ Arm(D[k]) /\ D[k].base <= Len(s)
                      /\ \A j \in 1 .. k : D[j].base <= D[k].base
    BY <1>3 DEF CondsOk
  <2>1. CASE k \in 1 .. n
    <3>1. \A j \in 1 .. k : j \in 1 .. n
      BY <1>1, <2>1
    <3> QED
      BY <1>1, <1>2, <1>3, <2>1, <3>1 DEF CondsOk
  <2>2. CASE k = n + 1
    <3>1. \A j \in 1 .. k : j \in 1 .. n \/ j = n + 1
      BY <1>1, <2>2
    <3> QED
      BY <1>1, <1>3, <2>2, <3>1
  <2> QED
    BY <1>3, <1>4, <2>1, <2>2
<1>10. Suppressed(C) \subseteq Suppressed(D) /\ Suppressed(C) \subseteq 1 .. n
  BY <1>1, <1>6 DEF Suppressed
<1>11. (Outer(D, n + 1) => w = 0) /\ (Outside(D, n + 1) => w = 0)
  BY <1>1, <1>5, <1>10 DEF Outer, Outside
<1>12. SavedOk(s, D)
  <2> SUFFICES ASSUME NEW k \in DOMAIN D, D[k].c = -1, Outside(D, k)
               PROVE  Saved(s, D[k].base)
    BY DEF SavedOk
  <2>1. CASE k \in 1 .. n
    <3>1. Outside(C, k)
      BY <1>10 DEF Outside
    <3> QED
      BY <1>1, <1>2, <1>3, <2>1, <3>1 DEF SavedOk
  <2>2. CASE k = n + 1
    BY <1>3, <1>11, <2>2
  <2> QED
    BY <1>3, <1>4, <2>1, <2>2
<1>13. BackOk(s, T, L, D)
  <2> SUFFICES ASSUME NEW k \in Suppressed(D)
               PROVE  Sound(Stays(s, D[k]), T, L, Outer(D, k))
    BY DEF BackOk
  <2>1. CASE k \in Suppressed(C)
    <3>1. Outer(D, k) => Outer(C, k)
      BY <1>10 DEF Outer
    <3>2. D[k] = C[k]
      BY <1>3, <1>10, <2>1
    <3>3. Sound(Stays(s, C[k]), T, L, Outer(C, k))
      BY <1>2, <2>1 DEF BackOk
    <3> QED
      BY <3>1, <3>2, <3>3, SoundLess
  <2>2. CASE k \notin Suppressed(C)
    <3>1. k = n + 1 /\ d.c = 0
      BY <1>6, <2>2
    <3>2. Stays(s, D[k]) = s
      BY <1>1, <1>3, <3>1, AllStays
    <3>3. Sound(s, T, L, Outer(D, k))
      BY <1>1, <1>11, <3>1, SoundLess
    <3> QED
      BY <3>2, <3>3
  <2> QED
    BY <2>1, <2>2
<1> QED
  BY <1>7, <1>8, <1>9, <1>12, <1>13 DEF Holds, v, D
\* The branch takes its condition off the stack.
LEMMA BranchFrame == ASSUME NEW m, Rec(m) PROVE With(m, Branch(m), Front(m.vs))
<1> DEFINE used(w) == Place(w, Top(m))
           meant(w) == Last(w.means)
           W == {Uses(w, used(w), meant(w)) : w \in m.worlds}
           y == [m EXCEPT !.worlds = W]
<1>1. Branch(m) = Drop(y)
  BY DEF Branch, Check, Run
<1> HIDE DEF W
<1>2. With(m, y, m.vs)
  BY WithIt
<1> HIDE DEF y
<1>3. With(y, Drop(y), Front(y.vs))
  BY <1>2, DropFrame DEF With
<1> QED
  BY <1>1, <1>2, <1>3 DEF With

\* Everything in registers has been saved before the arms part.
Ready(c) ==
  IF c >= 0 THEN Now
  ELSE IF Nth(0).r = "cmp" THEN save_regs(Now, 1) ELSE gv(save_regs(Now, 1), RC_INT)

\* When the arms part, nothing below is in a register or the flags, and the
\* entries below the condition have kept their places.
LEMMA Parting ==
  ASSUME VInv, Operands(1), NEW c, c = -1 \/ c = 0 \/ c = 1
  PROVE  LET m == Branch(Ready(c))
             b == Len(vstack) - 1
         IN  Onto(Now, m, b, b) /\ Base <= b /\ (c = -1 => Clear(m, b))
<1> DEFINE n == Len(vstack)  b == n - 1  s == save_regs(Now, 1)  g == gv(s, RC_INT)
           x == Ready(c)  m == Branch(x)
<1>1. /\ n \in Nat /\ b \in Nat /\ b < n /\ b <= n /\ Base <= b /\ 1 \in 1 .. n /\ Good(Now) /\ Now.vs = vstack
      /\ RC_INT \in Class
  BY Start DEF Operands, Class
<1>2. Clear(s, b) /\ Spill(Now, s)
  BY <1>1, ClearSaved
<1>3. x = IF c >= 0 THEN Now ELSE IF Nth(0).r = "cmp" THEN s ELSE g
  BY DEF Ready
<1> HIDE DEF s
<1>4. Onto(Now, s, b, n)
  BY <1>1, <1>2, SpillOnto
<1>5. Onto(Now, g, b, n) /\ Clear(g, b)
  <2>1. Good(s) /\ Len(s.vs) = n
    BY <1>4, OntoGood
  <2>2. Onto(s, g, b, n)
    BY <1>1, <2>1, GvOnto
  <2> HIDE DEF g
  <2>3. Clear(g, b)
    BY <1>2, <2>2, ClearStays
  <2> QED
    BY <1>4, <2>2, <2>3, OntoTrans
<1> HIDE DEF g, x
<1>6. Onto(Now, x, b, n) /\ (c = -1 => Clear(x, b))
  <2>1. Onto(Now, Now, b, n)
    BY <1>1, SelfOnto
  <2>2. CASE c = -1
    BY <1>2, <1>3, <1>4, <1>5, <2>2
  <2>3. CASE c # -1
    BY <1>3, <2>1, <2>3
  <2> QED
    BY <2>2, <2>3
<1>7. Good(x) /\ Len(x.vs) = n /\ Rec(x)
  BY <1>6, OntoGood, GoodIs
<1>8. With(x, m, Front(x.vs))
  BY <1>7, BranchFrame
<1> HIDE DEF m
<1>9. Onto(Now, m, b, b)
  BY <1>1, <1>6, <1>8, ThenFront
<1>10. c = -1 => Clear(m, b)
  <2>1. Onto(x, m, b, b)
    BY <1>1, <1>7, <1>8, FrontOnto
  <2> QED
    BY <1>6, <2>1, ClearStays
<1> QED
  BY <1>1, <1>9, <1>10 DEF m, x

\* expr_cond() at the question mark.
LEMMA CondQuestionStep == ASSUME VInv, CondQuestion PROVE VInv'
<1> DEFINE c == condition_3way(Nth(0))  m == Branch(Ready(c))  n == Len(vstack)  b == n - 1
           d == [c |-> c, base |-> Depth(m), arm |-> "then", sv |-> Const("0", "int"),
                 parked |-> Settle(IF c # 1 THEN m ELSE [m EXCEPT !.worlds = {}])]
           s == [k \in DOMAIN m.vs |-> Tidy(m.vs[k])]
           w == nocode_wanted + (IF c = 0 THEN 1 ELSE 0)
<1>1. c = -1 \/ c = 0 \/ c = 1
  BY DEF condition_3way
<1>2. Operands(1) /\ EnterArms(m, c)
  BY DEF CondQuestion, Conditional, Ready
<1>3. Onto(Now, m, b, b) /\ Base <= b /\ (c = -1 => Clear(m, b))
  BY <1>1, <1>2, Parting
<1> HIDE DEF c, m
<1>4. Good(m) /\ Len(m.vs) = b /\ Low(Now, m, b) /\ Rec(m) /\ b \in Nat
      /\ m.vs \in Seq(Entries) /\ DOMAIN m.vs = 1 .. b /\ \A k \in 1 .. b : m.vs[k] \in Entries
  <2>1. Good(m) /\ Len(m.vs) = b /\ Low(Now, m, b) /\ b \in Nat
    BY <1>3, OntoLow, OntoGood
  <2> QED
    BY <2>1, GoodIs
<1>5. vstack' = s /\ temps' = m.temps /\ loc' = m.loc /\ nocode_wanted' = w /\ conds' = Append(conds, d)
  <2>1. \A W : LET y == [m EXCEPT !.worlds = W] IN y.vs = m.vs /\ y.temps = m.temps /\ y.loc = m.loc
    <3> SUFFICES ASSUME NEW W
                 PROVE  LET y == [m EXCEPT !.worlds = W] IN
                        y.vs = m.vs /\ y.temps = m.temps /\ y.loc = m.loc
      OBVIOUS
    <3> QED
      BY <1>4, WithIt DEF With
  <2>2. Become(IF c # 0 THEN m ELSE [m EXCEPT !.worlds = {}])
    BY <1>2 DEF EnterArms
  <2>3. vstack' = s /\ temps' = m.temps /\ loc' = m.loc
    <3> DEFINE y == [m EXCEPT !.worlds = {}]
    <3>1. y.vs = m.vs /\ y.temps = m.temps /\ y.loc = m.loc
      BY <2>1
    <3> HIDE DEF y
    <3>2. CASE c # 0
      BY <2>2, <3>2 DEF Become
    <3>3. CASE c = 0
      <4>1. Become(y)
        BY <2>2, <3>3 DEF y
      <4> QED
        BY <3>1, <4>1 DEF Become
    <3> QED
      BY <3>2, <3>3
  <2> QED
    BY <1>2, <2>3 DEF EnterArms
<1>6. Holds(s, m.temps, m.loc, nocode_wanted, conds)
  BY <1>3, <1>4, Compiled
<1>7. Len(s) = b /\ (c = -1 /\ nocode_wanted = 0 => Saved(s, b))
  <2>1. Sound(m.vs, m.temps, m.loc, Live)
    BY <1>4 DEF Good
  <2>2. Len(s) = b
    BY <1>4, <2>1, TidySound
  <2>3. ASSUME c = -1, nocode_wanted = 0, NEW k \in 1 .. b PROVE s[k].r \notin Reg \cup {"cmp"}
    <3>1. m.vs[k].r \notin Reg \cup {"cmp"}
      BY <1>3, <2>3 DEF Clear, Live
    <3>2. Tidy(m.vs[k]).r = m.vs[k].r
      BY <1>4, Tidying
    <3> QED
      BY <1>4, <3>1, <3>2
  <2> HIDE DEF s
  <2> QED
    BY <2>2, <2>3 DEF Saved
<1>8. Arm(d) /\ d.arm = "then" /\ d.base = Len(s) /\ d.c = c
  <2>1. Const("0", "int") \in Entries
    BY Simple DEF Types
  <2>2. /\ d.c = c /\ d.base = Depth(m) /\ d.arm = "then" /\ d.sv = Const("0", "int") /\ ArmRec(d)
    BY DEF ArmRec
  <2> HIDE DEF d, s
  <2> QED
    BY <1>1, <1>4, <1>7, <2>1, <2>2 DEF Arm, Depth
<1> HIDE DEF d, s
<1>9. Holds(s, m.temps, m.loc, w, Append(conds, d))
  <2>1. Holds(s, m.temps, m.loc, nocode_wanted + (IF d.c = 0 THEN 1 ELSE 0), Append(conds, d))
    BY <1>6, <1>7, <1>8, Entering
  <2> QED
    BY <1>8, <2>1
<1> QED
  BY <1>5, <1>9 DEF VInv
\* The innermost arm gives way to the other one.
Instead(C, D) ==
  /\ IsSeq(D) /\ DOMAIN D = DOMAIN C
  /\ \A k \in DOMAIN C : k # Len(C) => D[k] = C[k]
Other(d, e, v) ==
  ArmRec(e) /\ e.c = d.c /\ e.base = d.base /\ d.arm = "then" /\ e.arm = "else" /\ e.sv = v

\* After an arm to be kept, the stack is what is below it and its value.
LEMMA ValueStays ==
  ASSUME NEW s \in Seq(Entries), NEW d, d.base \in Nat, Len(s) = d.base + 1, d.c = 1, d.sv = s[d.base + 1],
         NEW t \in Seq(Entries), d.base <= Len(t), \A k \in 1 .. d.base : t[k] = s[k]
  PROVE  Stays(t, d) = s
<1> DEFINE b == d.base  p == SubSeq(t, 1, b)  u == <<d.sv>>  y == p \o u
<1>1. b \in Nat /\ b \in 0 .. Len(t) /\ b + 1 \in 1 .. Len(s) /\ s[b + 1] \in Entries /\ Len(s) = b + 1
  OBVIOUS
<1>2. p \in Seq(Entries) /\ Len(p) = b /\ \A k \in 1 .. b : p[k] = s[k]
  BY <1>1, Prefix
<1>3. u \in Seq(Entries) /\ Len(u) = 1 /\ u[1] = s[b + 1]
  BY <1>1
<1>4. Stays(t, d) = y
  BY DEF Stays
<1> HIDE DEF b, p, u
<1>5. /\ y \in Seq(Entries) /\ Len(y) = Len(p) + Len(u)
      /\ \A i \in 1 .. Len(p) + Len(u) : y[i] = IF i <= Len(p) THEN p[i] ELSE u[i - Len(p)]
  <2>1. p \in Seq(Entries) /\ u \in Seq(Entries)
    BY <1>2, <1>3
  <2> QED
    BY <2>1, ConcatProperties
<1> HIDE DEF y
<1>6. Len(y) = b + 1 /\ \A i \in 1 .. b + 1 : y[i] = IF i <= b THEN p[i] ELSE u[i - b]
  BY <1>1, <1>2, <1>3, <1>5
<1>7. \A i \in 1 .. b + 1 : y[i] = s[i]
  <2> SUFFICES ASSUME NEW i \in 1 .. b + 1 PROVE y[i] = s[i]
    OBVIOUS
  <2>1. CASE i <= b
    <3>1. i \in 1 .. b
      BY <1>1, <2>1
    <3> QED
      BY <1>2, <1>6, <2>1, <3>1
  <2>2. CASE ~ (i <= b)
    <3>1. i = b + 1 /\ i - b = 1
      BY <1>1, <2>2
    <3> QED
      BY <1>3, <1>6, <2>2, <3>1
  <2> QED
    BY <2>1, <2>2
<1>8. y = [i \in 1 .. b + 1 |-> y[i]] /\ s = [i \in 1 .. b + 1 |-> s[i]]
  BY <1>1, <1>5, <1>6
<1> QED
  BY <1>4, <1>7, <1>8

\* From the first arm to the second.
LEMMA Switching ==
  ASSUME NEW s, NEW T, NEW L, NEW w, NEW C, Holds(s, T, L, w, C), C # << >>,
         NEW D, Instead(C, D), NEW d, d = C[Len(C)], NEW e, e = D[Len(C)],
         Len(s) = d.base + 1, Other(d, e, s[d.base + 1]),
         NEW v, d.c = 0 => v = w - 1, d.c = 1 => v = w + 1, d.c = -1 => v = w
  PROVE  Holds(Front(s), T, L, v, D)
<1> DEFINE n == Len(C)  f == Front(s)  b == d.base
<1>1. /\ s \in Seq(Entries) /\ Len(s) \in Nat /\ n \in Nat /\ DOMAIN C = 1 .. n
      /\ IsFiniteSet(Suppressed(C)) /\ w = Cardinality(Suppressed(C)) /\ w \in Nat
      /\ (w = 0 <=> Suppressed(C) = {}) /\ Sound(s, T, L, w = 0)
      /\ \A k \in DOMAIN s : Tidy(s[k]) = s[k]
      /\ \A k \in DOMAIN C : Arm(C[k]) /\ C[k].base \in Nat /\ C[k].base <= Len(s)
  BY HoldsIs
<1>2. CondsOk(s, C) /\ SavedOk(s, C) /\ BackOk(s, T, L, C)
  BY DEF Holds
<1>3. n \in DOMAIN C /\ n \in 1 .. n
  BY <1>2, SeqIs DEF CondsOk
<1>4. IsSeq(D) /\ DOMAIN D = 1 .. n /\ \A k \in 1 .. n : k # n => D[k] = C[k]
  BY <1>1 DEF Instead
<1>5. /\ Arm(d) /\ b \in Nat /\ Len(s) = b + 1 /\ e.c = d.c /\ e.base = b
      /\ d.arm = "then" /\ e.arm = "else" /\ e.sv = s[b + 1]
      /\ d.c = -1 \/ d.c = 0 \/ d.c = 1
  BY <1>1, <1>3 DEF Other, Arm
<1>6. s[b + 1] \in Entries /\ b + 1 \in 1 .. Len(s)
  BY <1>1, <1>5
<1>7. /\ f \in Seq(Entries) /\ Len(f) = b /\ \A k \in 1 .. b : f[k] = s[k]
  BY <1>1, <1>5, FrontIs
<1> HIDE DEF n, f, b
<1>8. Arm(e)
  BY <1>5, <1>6 DEF Arm, Other
<1>9. \A k \in 1 .. n : D[k].c = C[k].c /\ D[k].base = C[k].base /\ Arm(D[k])
  BY <1>1, <1>4, <1>5, <1>8 DEF n, b
<1>10. \A k \in 1 .. n : C[k].base \in Nat /\ C[k].base <= b
  BY <1>1, <1>2, <1>3 DEF CondsOk, n, b
<1>11. /\ d.c = 0 => n \in Suppressed(C) /\ Suppressed(D) = Suppressed(C) \ {n}
       /\ d.c = 1 => n \notin Suppressed(C) /\ Suppressed(D) = Suppressed(C) \cup {n}
       /\ d.c = -1 => Suppressed(D) = Suppressed(C)
  <2>1. /\ Dead(d) <=> d.c = 0
        /\ Dead(e) <=> d.c = 1
    BY <1>5 DEF Dead
  <2>2. C[n] = d /\ D[n] = e
    BY DEF n
  <2> QED
    BY <1>1, <1>3, <1>4, <2>1, <2>2 DEF Suppressed
<1>12. v = Cardinality(Suppressed(D)) /\ v \in Nat /\ (v = 0 <=> Suppressed(D) = {})
  <2>1. v = Cardinality(Suppressed(D))
    <3>1. CASE d.c = 0
      <4>1. Cardinality(Suppressed(C) \ {n}) = Cardinality(Suppressed(C)) - 1
        BY <1>1, <1>11, <3>1, FS_RemoveElement
      <4> QED
        BY <1>1, <1>11, <3>1, <4>1
    <3>2. CASE d.c = 1
      <4>1. Cardinality(Suppressed(C) \cup {n}) = Cardinality(Suppressed(C)) + 1
        BY <1>1, <1>11, <3>2, FS_AddElement
      <4> QED
        BY <1>1, <1>11, <3>2, <4>1
    <3>3. CASE d.c = -1
      BY <1>1, <1>11, <3>3
    <3> QED
      BY <1>5, <3>1, <3>2, <3>3
  <2> QED
    BY <1>4, <2>1, Counting
<1>13. Suppressed(C) \subseteq 1 .. n /\ Suppressed(D) \subseteq 1 .. n
  BY <1>1, <1>4 DEF Suppressed
<1>14. Sound(f, T, L, v = 0)
  <2>1. CASE d.c = 0
    <3>1. Sound(Stays(s, d), T, L, Outer(C, n))
      BY <1>2, <1>11, <2>1 DEF BackOk, n
    <3>2. Stays(s, d) = f
      <4>1. Stays(s, d) = Stays(f, d)
        BY <1>1, <1>5, <1>7, StaysSame DEF b
      <4>2. Stays(f, d) = f
        BY <1>7, <2>1, AllStays DEF b
      <4> QED
        BY <4>1, <4>2
    <3>3. v = 0 => Outer(C, n)
      BY <1>3, <1>11, <1>12, <1>13, <2>1 DEF Outer
    <3> QED
      BY <3>1, <3>2, <3>3, SoundLess
  <2>2. CASE d.c # 0
    <3>1. v = 0 => w = 0
      BY <1>1, <1>5, <1>11, <1>12, <2>2
    <3> DEFINE g == [k \in 1 .. b |-> k]
    <3>2. Picked(s, f, g, v = 0)
      <4>1. DOMAIN f = 1 .. b /\ DOMAIN s = 1 .. b + 1 /\ \A k \in 1 .. b : k \in 1 .. b + 1
        BY <1>1, <1>5, <1>7
      <4>2. \A k \in 1 .. b : g[k] = k
        OBVIOUS
      <4>3. v = 0 => \A k \in 1 .. b : f[k].r = "cmp" => k = Len(f)
        <5>1. v = 0 => \A k \in 1 .. b + 1 : s[k].r = "cmp" => k = b + 1
          BY <1>1, <1>5, <3>1, <4>1 DEF Sound, Shared
        <5> QED
          BY <1>5, <1>7, <4>1, <5>1
      <4> HIDE DEF g
      <4> QED
        BY <1>7, <4>1, <4>2, <4>3 DEF Picked
    <3>3. Sound(s, T, L, v = 0)
      BY <1>1, <3>1, SoundLess
    <3> HIDE DEF g
    <3> QED
      BY <1>7, <3>2, <3>3, PickSound
  <2> QED
    BY <2>1, <2>2
<1>15. StackOk(f, T, L, v)
  <2>1. \A k \in 1 .. b : Tidy(f[k]) = f[k]
    BY <1>1, <1>5, <1>7
  <2> QED
    BY <1>7, <1>14, <2>1 DEF StackOk
<1>16. CondsOk(f, D)
  <2> SUFFICES ASSUME NEW k \in 1 .. n
               PROVE  /\ Arm(D[k]) /\ D[k].base <= Len(f)
                      /\ \A j \in 1 .. k : D[j].base <= D[k].base
    BY <1>4 DEF CondsOk
  <2>1. \A j \in 1 .. k : j \in 1 .. n
    BY <1>1
  <2>2. \A j \in 1 .. k : C[j].base <= C[k].base
    BY <1>1, <1>2 DEF CondsOk
  <2> QED
    BY <1>7, <1>9, <1>10, <2>1, <2>2
<1>17. SavedOk(f, D)
  <2> SUFFICES ASSUME NEW k \in 1 .. n, D[k].c = -1, Outside(D, k)
               PROVE  Saved(f, D[k].base)
    BY <1>4 DEF SavedOk
  <2>1. Outside(C, k)
    <3> SUFFICES ASSUME NEW i \in Suppressed(C), i \notin Suppressed(D) PROVE k < i
      BY DEF Outside
    <3>1. i = n /\ d.c = 0
      BY <1>5, <1>11
    <3>2. k # n
      BY <1>9, <3>1 DEF n
    <3> QED
      BY <1>1, <3>1, <3>2
  <2>2. Saved(s, C[k].base)
    BY <1>1, <1>2, <1>9, <2>1 DEF SavedOk
  <2> QED
    BY <1>7, <1>9, <1>10, <1>5, <2>2 DEF Saved
<1>18. BackOk(f, T, L, D)
  <2> SUFFICES ASSUME NEW k \in Suppressed(D)
               PROVE  Sound(Stays(f, D[k]), T, L, Outer(D, k))
    BY DEF BackOk
  <2>1. k \in 1 .. n
    BY <1>13
  <2>2. CASE k # n
    <3>1. D[k] = C[k] /\ k \in Suppressed(C)
      BY <1>1, <1>4, <2>1, <2>2 DEF Suppressed
    <3>2. Outer(D, k) => Outer(C, k)
      <4> SUFFICES ASSUME Outer(D, k), NEW i \in Suppressed(C), i \notin Suppressed(D) PROVE k <= i
        BY DEF Outer
      <4>1. i = n
        BY <1>5, <1>11
      <4> QED
        BY <1>1, <2>1, <4>1
    <3>3. Stays(f, C[k]) = Stays(s, C[k])
      <4>1. s \in Seq(Entries) /\ f \in Seq(Entries) /\ C[k].base \in Nat /\ C[k].base <= b
        BY <1>1, <1>7, <1>10, <2>1
      <4>2. C[k].base <= Len(s) /\ C[k].base <= Len(f)
        BY <1>5, <1>7, <4>1
      <4>3. \A i \in 1 .. C[k].base : i \in 1 .. b
        BY <1>5, <4>1
      <4>4. \A i \in 1 .. C[k].base : f[i] = s[i]
        BY <1>7, <4>3
      <4> QED
        BY <4>1, <4>2, <4>4, StaysSame
    <3>4. Sound(Stays(s, C[k]), T, L, Outer(C, k))
      BY <1>2, <3>1 DEF BackOk
    <3> QED
      BY <3>1, <3>2, <3>3, <3>4, SoundLess
  <2>3. CASE k = n
    <3>1. d.c = 1 /\ D[k] = e
      <4>1. Dead(e) /\ D[k] = e
        BY <2>3 DEF Suppressed, n
      <4> QED
        BY <1>5, <4>1 DEF Dead
    <3>2. Stays(f, e) = s
      <4>1. /\ s \in Seq(Entries) /\ f \in Seq(Entries) /\ e.base \in Nat /\ Len(s) = e.base + 1
            /\ e.c = 1 /\ e.sv = s[e.base + 1]
        BY <1>1, <1>5, <1>7, <3>1
      <4>2. e.base <= Len(f) /\ \A i \in 1 .. e.base : f[i] = s[i]
        BY <1>5, <1>7
      <4> QED
        BY <4>1, <4>2, ValueStays
    <3>3. Outer(D, k) => w = 0
      <4>1. \A i \in Suppressed(C) : i \in Suppressed(D) /\ i \in 1 .. n /\ i # n
        BY <1>11, <1>13, <3>1
      <4> QED
        BY <1>1, <2>3, <4>1 DEF Outer
    <3> QED
      BY <1>1, <3>1, <3>2, <3>3, SoundLess
  <2> QED
    BY <2>2, <2>3
<1> QED
  BY <1>12, <1>15, <1>16, <1>17, <1>18 DEF Holds, f
\* What changes in the record of a conditional at the colon.
LEMMA Switched ==
  ASSUME NEW d, ArmRec(d), NEW v, NEW W
  PROVE  LET x == [d EXCEPT !.arm = "else", !.sv = v, !.parked = W] IN
         x.c = d.c /\ x.base = d.base /\ x.arm = "else" /\ x.sv = v /\ x.parked = W /\ ArmRec(x)
<1> DEFINE x == [d EXCEPT !.arm = "else", !.sv = v, !.parked = W]
           a == d.c  b == d.base  o == d.arm  p == d.sv  q == d.parked
<1>1. d = [c |-> a, base |-> b, arm |-> o, sv |-> p, parked |-> q]
  BY DEF ArmRec
<1> HIDE DEF a, b, o, p, q
<1>2. x = [c |-> a, base |-> b, arm |-> "else", sv |-> v, parked |-> W]
  <2> DEFINE y == [d EXCEPT !.arm = "else"]  z == [y EXCEPT !.sv = v]
  <2>1. x = [z EXCEPT !.parked = W]
    BY Zenon
  <2>2. y = [c |-> a, base |-> b, arm |-> "else", sv |-> p, parked |-> q]
    BY <1>1
  <2> HIDE DEF y
  <2>3. z = [c |-> a, base |-> b, arm |-> "else", sv |-> v, parked |-> q]
    BY <2>2
  <2> HIDE DEF z, x
  <2> QED
    BY <2>1, <2>3
<1> HIDE DEF x
<1>3. x.c = a /\ x.base = b /\ x.arm = "else" /\ x.sv = v /\ x.parked = W /\ ArmRec(x)
  BY <1>2 DEF ArmRec
<1> QED
  BY <1>3 DEF x, a, b

\* expr_cond() at the colon.
LEMMA CondColonStep == ASSUME VInv, CondColon PROVE VInv'
<1> DEFINE n == Len(conds)  d == conds[n]  D == conds'  e == D[n]
<1>1. /\ Holds(vstack, temps, loc, nocode_wanted, conds) /\ conds # << >> /\ d.arm = "then"
      /\ Len(vstack) = Base + 1 /\ Base = d.base /\ IsSeq(conds) /\ n \in DOMAIN conds
      /\ Len(vstack) \in Nat /\ n \in Nat /\ DOMAIN conds = 1 .. n
  <2>1. IsSeq(conds) /\ Len(vstack) \in Nat /\ conds # << >> /\ d.arm = "then" /\ Len(vstack) = Base + 1
    BY NowIs DEF CondColon
  <2>2. Base = d.base
    BY <2>1 DEF Base, Last
  <2> QED
    BY <2>1, <2>2, SeqIs DEF VInv
<1> DEFINE x == [d EXCEPT !.arm = "else", !.sv = Nth(0), !.parked = worlds]
<1>2. D = [conds EXCEPT ![n] = x]
  BY DEF CondColon
<1>3. (d.c = -1 \/ d.c = 0 \/ d.c = 1) /\ ArmRec(d) /\ nocode_wanted \in Nat
  BY <1>1, HoldsIs DEF Arm
<1>4. PICK S : conds \in Seq(S)
  BY <1>1 DEF IsSeq
<1> HIDE DEF x
<1>5. Instead(conds, D) /\ e = x
  <2>1. conds \in Seq(S \cup {x}) /\ x \in S \cup {x}
    BY <1>4
  <2>2. D \in Seq(S \cup {x}) /\ D[n] = x /\ DOMAIN D = DOMAIN conds /\ \A k \in DOMAIN conds : k # n => D[k] = conds[k]
    BY <1>1, <1>2, <2>1
  <2> QED
    BY <2>2 DEF Instead, IsSeq
<1>6. Other(d, e, vstack[d.base + 1])
  <2>1. Nth(0) = vstack[d.base + 1]
    BY <1>1 DEF Nth
  <2>2. x.c = d.c /\ x.base = d.base /\ x.arm = "else" /\ x.sv = Nth(0) /\ x.parked = worlds /\ ArmRec(x)
    BY <1>3, Switched DEF x
  <2> QED
    BY <1>1, <1>5, <2>1, <2>2 DEF Other
<1> DEFINE v == nocode_wanted'
<1>7. (d.c = 0 => v = nocode_wanted - 1) /\ (d.c = 1 => v = nocode_wanted + 1)
      /\ (d.c = -1 => v = nocode_wanted)
  BY <1>3 DEF CondColon
<1>8. vstack' = Front(vstack) /\ temps' = temps /\ loc' = loc
  BY DEF CondColon
<1>9. Holds(Front(vstack), temps, loc, v, D)
  <2> HIDE DEF v, D, d, n
  <2> QED
    BY <1>1, <1>5, <1>6, <1>7, Switching DEF e, d, n
<1> QED
  BY <1>8, <1>9 DEF VInv
\* The innermost arm is over; what is below its base has stayed.
LEMMA Leaving ==
  ASSUME NEW s, NEW T, NEW L, NEW w, NEW C, Holds(s, T, L, w, C), C # << >>,
         NEW d, d = C[Len(C)], d.arm = "else",
         NEW t \in Seq(Entries), NEW v, StackOk(t, T, L, v),
         d.base <= Len(t), \A k \in 1 .. d.base : t[k] = s[k],
         d.c = 1 => v = w - 1, d.c # 1 => v = w
  PROVE  Holds(t, T, L, v, Front(C))
<1> DEFINE n == Len(C)  D == Front(C)
<1>1. /\ s \in Seq(Entries) /\ Len(s) \in Nat /\ n \in Nat /\ DOMAIN C = 1 .. n
      /\ IsFiniteSet(Suppressed(C)) /\ w = Cardinality(Suppressed(C)) /\ w \in Nat
      /\ \A k \in DOMAIN C : Arm(C[k]) /\ C[k].base \in Nat /\ C[k].base <= Len(s)
  BY HoldsIs
<1>2. CondsOk(s, C) /\ SavedOk(s, C) /\ BackOk(s, T, L, C)
  BY DEF Holds
<1>3. n \in DOMAIN C /\ n >= 1 /\ n \in 1 .. n /\ n - 1 \in 0 .. n /\ n \notin 1 .. n - 1
      /\ (\A k \in 1 .. n - 1 : k \in 1 .. n /\ k < n) /\ (\A k \in 1 .. n : k \in 1 .. n - 1 \/ k = n)
  <2>1. n \in DOMAIN C
    BY <1>2, SeqIs DEF CondsOk
  <2> HIDE DEF n
  <2>2. n \in Nat /\ n >= 1 /\ n \in 1 .. n
    BY <1>1, <2>1
  <2>3. n - 1 \in 0 .. n /\ n \notin 1 .. n - 1
    BY <2>2
  <2>4. \A k \in 1 .. n - 1 : k \in 1 .. n /\ k < n
    BY <2>2
  <2>5. \A k \in 1 .. n : k \in 1 .. n - 1 \/ k = n
    BY <2>2
  <2> QED
    BY <2>1, <2>2, <2>3, <2>4, <2>5
<1>4. IsSeq(D) /\ DOMAIN D = 1 .. n - 1 /\ \A k \in 1 .. n - 1 : D[k] = C[k]
  <2>1. PICK S : C \in Seq(S)
    BY <1>2 DEF CondsOk, IsSeq
  <2>2. Len(C) >= 1
    BY <1>3
  <2>4. D \in Seq(S) /\ Len(D) = n - 1 /\ \A k \in 1 .. n - 1 : D[k] = C[k]
    BY <2>1, <2>2, FrontOf
  <2> HIDE DEF n, D
  <2> QED
    BY <2>4 DEF IsSeq
<1>5. \A k \in 1 .. n : C[k].base \in Nat /\ C[k].base <= d.base
  BY <1>1, <1>2, <1>3 DEF CondsOk
<1>6. Len(t) \in Nat /\ d.base \in Nat /\ (d.c = -1 \/ d.c = 0 \/ d.c = 1)
  <2>1. Len(t) \in Nat
    OBVIOUS
  <2>2. Arm(d)
    BY <1>1, <1>3
  <2> QED
    BY <2>1, <2>2 DEF Arm
<1>7. C[n] = d
  OBVIOUS
<1> HIDE DEF n, D
<1>8. /\ d.c = 1 => n \in Suppressed(C) /\ Suppressed(D) = Suppressed(C) \ {n}
      /\ d.c # 1 => n \notin Suppressed(C) /\ Suppressed(D) = Suppressed(C)
  <2>1. Dead(C[n]) <=> d.c = 1
    BY <1>6, <1>7 DEF Dead
  <2>2. Suppressed(D) = {k \in 1 .. n - 1 : Dead(C[k])} /\ Suppressed(C) = {k \in 1 .. n : Dead(C[k])}
    BY <1>1, <1>4 DEF Suppressed
  <2> QED
    BY <1>3, <2>1, <2>2
<1>9. v = Cardinality(Suppressed(D))
  <2>1. CASE d.c = 1
    <3>1. Cardinality(Suppressed(C) \ {n}) = Cardinality(Suppressed(C)) - 1
      BY <1>1, <1>8, <2>1, FS_RemoveElement
    <3> QED
      BY <1>1, <1>8, <2>1, <3>1
  <2>2. CASE d.c # 1
    BY <1>1, <1>8, <2>2
  <2> QED
    BY <2>1, <2>2
<1>10. Suppressed(D) \subseteq 1 .. n - 1 /\ Suppressed(D) \subseteq Suppressed(C)
       /\ \A i \in Suppressed(C) : i \in Suppressed(D) \/ i = n
  BY <1>4, <1>8 DEF Suppressed
<1>11. CondsOk(t, D)
  <2> SUFFICES ASSUME NEW k \in 1 .. n - 1
               PROVE  /\ Arm(D[k]) /\ D[k].base <= Len(t)
                      /\ \A j \in 1 .. k : D[j].base <= D[k].base
    BY <1>4 DEF CondsOk
  <2>1. \A j \in 1 .. k : j \in 1 .. n - 1
    BY <1>1
  <2>2. k \in 1 .. n /\ \A j \in 1 .. k : C[j].base <= C[k].base
    BY <1>1, <1>2, <1>3 DEF CondsOk
  <2>3. D[k] = C[k] /\ Arm(C[k]) /\ C[k].base <= Len(t)
    BY <1>1, <1>4, <1>5, <1>6, <2>2
  <2> QED
    BY <1>4, <2>1, <2>2, <2>3
<1>12. SavedOk(t, D)
  <2> SUFFICES ASSUME NEW k \in 1 .. n - 1, D[k].c = -1, Outside(D, k)
               PROVE  Saved(t, D[k].base)
    BY <1>4 DEF SavedOk
  <2>1. Outside(C, k)
    BY <1>3, <1>10 DEF Outside
  <2>2. D[k] = C[k] /\ k \in DOMAIN C
    BY <1>1, <1>3, <1>4
  <2>3. Saved(s, C[k].base)
    BY <1>2, <2>1, <2>2 DEF SavedOk
  <2>4. \A i \in 1 .. C[k].base : t[i] = s[i]
    BY <1>1, <1>5, <1>6, <2>2
  <2> QED
    BY <2>2, <2>3, <2>4 DEF Saved
<1>13. BackOk(t, T, L, D)
  <2> SUFFICES ASSUME NEW k \in Suppressed(D)
               PROVE  Sound(Stays(t, D[k]), T, L, Outer(D, k))
    BY DEF BackOk
  <2>1. k \in 1 .. n - 1 /\ k \in Suppressed(C) /\ D[k] = C[k] /\ k \in 1 .. n /\ k < n
    BY <1>3, <1>4, <1>10
  <2>2. Outer(D, k) => Outer(C, k)
    <3> SUFFICES ASSUME Outer(D, k), NEW i \in Suppressed(C) PROVE k <= i
      BY DEF Outer
    <3>1. CASE i \in Suppressed(D)
      BY <3>1 DEF Outer
    <3>2. CASE i = n
      BY <1>1, <2>1, <3>2
    <3> QED
      BY <1>10, <3>1, <3>2
  <2>3. /\ C[k].base \in Nat /\ C[k].base <= Len(s) /\ C[k].base <= Len(t)
        /\ \A i \in 1 .. C[k].base : t[i] = s[i]
    <3>1. C[k].base \in Nat /\ C[k].base <= Len(s) /\ C[k].base <= d.base
      BY <1>1, <1>5, <2>1
    <3>2. \A i \in 1 .. C[k].base : i \in 1 .. d.base
      BY <1>6, <3>1
    <3> QED
      BY <1>6, <3>1, <3>2
  <2>4. Stays(t, C[k]) = Stays(s, C[k])
    BY <1>1, <2>3, StaysSame
  <2>5. Sound(Stays(s, C[k]), T, L, Outer(C, k))
    BY <1>2, <2>1 DEF BackOk
  <2> QED
    BY <2>1, <2>2, <2>4, <2>5, SoundLess
<1> QED
  BY <1>9, <1>11, <1>12, <1>13 DEF Holds, D
\* With no entry below in a register, a free one is always found and nothing moves:
\* whatever the top entry is, it ends in a register.
LEMMA LoadTopFrame ==
  ASSUME NEW m, Rec(m), m.vs \in Seq(Entries), NEW n, Len(m.vs) = n, n >= 1, NEW r \in Reg
  PROVE  With(m, LoadTop([m |-> m, r |-> r]), [m.vs EXCEPT ![n] = AsValue(m.vs[n], r)])
<1> DEFINE x == LoadTop([m |-> m, r |-> r])  e == AsValue(m.vs[n], r)
           l == load(m, r, Top(m))  t == SetTop(l, e)  s == [m.vs EXCEPT ![n] = e]
<1>1. m.vs[n] \in Entries /\ Top(m) = m.vs[n]
  BY DEF Top, Last
<1>2. x = Valued(t)
  BY <1>1 DEF LoadTop, AsValue
<1> HIDE DEF x, e
<1>3. With(m, l, m.vs)
  BY LoadFrame
<1> HIDE DEF l
<1>4. With(l, t, s)
  <2>1. Rec(l) /\ l.vs = m.vs
    BY <1>3 DEF With
  <2> QED
    BY <2>1, SetTopFrame
<1> HIDE DEF t, s
<1>5. With(t, x, s)
  <2>1. Rec(t) /\ t.vs = s
    BY <1>4 DEF With
  <2> QED
    BY <1>2, <2>1, ValuedFrame
<1>6. With(m, x, s)
  BY <1>3, <1>4, <1>5 DEF With
<1> QED
  BY <1>6 DEF s, x, e

Lifted(m, x, n) == \E e \in Entries : e.r \in Reg /\ With(m, x, [m.vs EXCEPT ![n] = e])

\* save_reg_upstack() of a register in which there is nothing.
LEMMA SavesNone ==
  ASSUME NEW m, NEW r, NEW b, nocode_wanted \in Nat,
         Live => \A k \in 1 .. Depth(m) - b : m.vs[k].r # r
  PROVE  save_reg_upstack(m, r, b) = m
<1> DEFINE hit == {k \in 1 .. Depth(m) - b : m.vs[k].r = r}
<1>1. nocode_wanted > 0 \/ hit = {}
  BY DEF Live
<1> HIDE DEF hit
<1> QED
  BY <1>1 DEF save_reg_upstack, hit

\* gv() of such a top entry.
IsLoaded(m, x) == \E r \in Reg : x = LoadTop([m |-> m, r |-> r])
\* gv() does nothing to a value in a register and loads the rest.
LEMMA LiftIs ==
  ASSUME NEW m, Rec(m), m.vs \in Seq(Entries), NEW n, Len(m.vs) = n, n >= 1,
         nocode_wanted \in Nat, Clear(m, n - 1)
  PROVE  \/ gv(m, RC_INT) = m /\ m.vs[n].r \in Reg /\ ~ m.vs[n].lval
         \/ IsLoaded(m, gv(m, RC_INT))
<1> DEFINE e == m.vs[n]  rc == RC_INT  g == gv(m, rc)
           free == {i \in DOMAIN rc : \A k \in 1 .. Depth(m) : m.vs[k].r # rc[i]}
<1>1. n \in Nat /\ n \in 1 .. n /\ e \in Entries /\ Top(m) = e /\ Depth(m) = n
      /\ \A k \in 1 .. n : k \in 1 .. n - 1 \/ k = n
  BY DEF Top, Last, Depth
<1>2. /\ rc \in Class /\ Range(rc) \subseteq Reg /\ DOMAIN rc \subseteq Nat /\ 1 \in DOMAIN rc
      /\ \A i \in DOMAIN rc : rc[i] \in Range(rc)
  <2>1. rc \in Class
    BY DEF Class
  <2> QED
    BY <2>1, Classes
<1>3. Reg \subseteq Range(rc)
  <2>1. 1 \in DOMAIN rc /\ 2 \in DOMAIN rc /\ 3 \in DOMAIN rc /\ rc[1] = "rax" /\ rc[2] = "rcx" /\ rc[3] = "rdx"
    BY DEF RC_INT
  <2> QED
    BY <1>2, <2>1 DEF Reg
<1>4. g = IF e.r \in Range(rc) /\ ~ e.lval THEN m
          ELSE LoadTop(IF e.r \in Range(rc) THEN [m |-> save_reg_upstack(m, e.r, 1), r |-> e.r]
                       ELSE get_reg(m, rc))
  BY <1>1 DEF gv
<1>5. Live => \A k \in 1 .. n - 1 : m.vs[k].r \notin Reg
  BY DEF Clear
<1> HIDE DEF rc, g, free
<1>6. CASE e.r \in Range(rc) /\ ~ e.lval
  BY <1>2, <1>4, <1>6 DEF g, rc
<1>7. CASE e.r \in Range(rc) /\ e.lval
  <2>1. save_reg_upstack(m, e.r, 1) = m
    <3> DEFINE q == e.r
    <3>1. q \in Reg /\ Depth(m) - 1 = n - 1
      BY <1>1, <1>2, <1>7
    <3> HIDE DEF q
    <3>2. Live => \A k \in 1 .. Depth(m) - 1 : m.vs[k].r # q
      BY <1>5, <3>1
    <3>3. save_reg_upstack(m, q, 1) = m
      BY <3>2, SavesNone
    <3> QED
      BY <3>3 DEF q
  <2>2. g = LoadTop([m |-> m, r |-> e.r])
    BY <1>4, <1>7, <2>1
  <2>3. e.r \in Reg
    BY <1>2, <1>7
  <2> QED
    BY <2>2, <2>3 DEF IsLoaded, g, rc
<1>8. CASE e.r \notin Range(rc)
  <2>1. \E r \in Reg : get_reg(m, rc) = [m |-> m, r |-> r]
    <3>1. CASE nocode_wanted > 0
      <4>1. get_reg(m, rc) = [m |-> m, r |-> rc[1]]
        BY <3>1 DEF get_reg
      <4> QED
        BY <1>2, <4>1
    <3>2. CASE ~ (nocode_wanted > 0)
      <4>1. Live
        BY <3>2 DEF Live
      <4>2. 1 \in free
        BY <1>1, <1>2, <1>3, <1>5, <1>8, <4>1 DEF free
      <4>3. get_reg(m, rc) = [m |-> m, r |-> rc[Min(free)]]
        BY <3>2, <4>2 DEF get_reg, free
      <4>4. Min(free) \in DOMAIN rc
        <5>1. free \subseteq Nat /\ free # {} /\ free \subseteq DOMAIN rc
          BY <1>2, <4>2 DEF free
        <5> QED
          BY <5>1, MinIn
      <4> QED
        BY <1>2, <4>3, <4>4
    <3> QED
      BY <3>1, <3>2
  <2>2. PICK r \in Reg : get_reg(m, rc) = [m |-> m, r |-> r]
    BY <2>1
  <2>3. g = LoadTop([m |-> m, r |-> r])
    BY <1>4, <1>8, <2>2
  <2> QED
    BY <2>3 DEF IsLoaded, g, rc
<1> QED
  BY <1>6, <1>7, <1>8 DEF rc, g

\* Either way the entry ends in a register, and what is below stays.
LEMMA LiftsTop ==
  ASSUME NEW m, Rec(m), m.vs \in Seq(Entries), NEW n, Len(m.vs) = n, n >= 1,
         nocode_wanted \in Nat, Clear(m, n - 1)
  PROVE  Lifted(m, gv(m, RC_INT), n)
<1> DEFINE e == m.vs[n]  x == gv(m, RC_INT)
<1>1. e \in Entries
  OBVIOUS
<1>2. (x = m /\ e.r \in Reg) \/ IsLoaded(m, x)
  BY LiftIs
<1> HIDE DEF x
<1>3. CASE x = m /\ e.r \in Reg
  <2>1. [m.vs EXCEPT ![n] = e] = m.vs
    OBVIOUS
  <2>2. With(m, m, m.vs)
    BY DEF With
  <2> QED
    BY <1>1, <1>3, <2>1, <2>2 DEF Lifted, x
<1>4. CASE IsLoaded(m, x)
  <2>1. PICK r \in Reg : x = LoadTop([m |-> m, r |-> r])
    BY <1>4 DEF IsLoaded
  <2>2. With(m, x, [m.vs EXCEPT ![n] = AsValue(m.vs[n], r)])
    BY <2>1, LoadTopFrame
  <2>3. AsValue(e, r) \in Entries /\ AsValue(e, r).r = r
    BY <1>1, Loading
  <2> QED
    BY <2>2, <2>3 DEF Lifted, x
<1> QED
  BY <1>2, <1>3, <1>4

\* move_reg() then has nothing to save.
LEMMA MoveFrame ==
  ASSUME NEW m, Rec(m), NEW n, Len(m.vs) = n, n \in Nat, n >= 1, nocode_wanted \in Nat, Clear(m, n - 1),
         NEW r \in Reg, NEW t
  PROVE  With(m, move_reg(m, r, m.vs[n].r, t), m.vs)
<1> DEFINE s == m.vs[n].r
<1>1. CASE r = s
  BY <1>1 DEF move_reg, With
<1>2. CASE r # s
  <2>1. \A k \in 1 .. n : k \in 1 .. n - 1 \/ k = n
    OBVIOUS
  <2>2. Depth(m) - 0 = n
    BY DEF Depth
  <2>3. Live => \A k \in 1 .. Depth(m) - 0 : m.vs[k].r # r
    BY <1>2, <2>1, <2>2 DEF Clear
  <2>4. save_reg(m, r) = m
    BY <2>3, SavesNone DEF save_reg
  <2> DEFINE e == InReg(s, t)
  <2>5. move_reg(m, r, s, t) = load(m, r, e)
    BY <1>2, <2>4 DEF move_reg
  <2> HIDE DEF e, s
  <2>6. With(m, load(m, r, e), m.vs)
    BY LoadFrame
  <2> QED
    BY <2>5, <2>6 DEF s
<1> QED
  BY <1>1, <1>2

\* The joined value is in the register of the second arm.
LEMMA JoinedFrame ==
  ASSUME NEW m, Rec(m), NEW n, Len(m.vs) = n, NEW r
  PROVE  With(m, Joined(m, r), [m.vs EXCEPT ![n] = InsteadIn(m.vs[n], r)])
<1> DEFINE e == InsteadIn(m.vs[n], r)  x == SetTop(m, e)
           used(w) == Val(w.reg[r])
           meant(w) == Last(w.means)
           W == {Uses(w, used(w), meant(w)) : w \in x.worlds}
<1>1. Joined(m, r) = [x EXCEPT !.worlds = W]
  BY DEF Joined, Check, Run, InsteadIn, Top, Last
<1>2. With(m, x, [m.vs EXCEPT ![n] = e])
  BY SetTopFrame
<1> HIDE DEF W, x, e
<1>3. Rec(x)
  BY <1>2 DEF With
<1>4. With(x, [x EXCEPT !.worlds = W], x.vs)
  BY <1>3, WithIt
<1> QED
  BY <1>1, <1>2, <1>4 DEF With, e
\* The first arm's value joins the second's, whatever the first one was.
LEMMA JoinsFirst ==
  ASSUME NEW m, NEW x, NEW b, NEW n, Onto(m, x, b, n), b < n, Clear(x, n - 1),
         x.vs[n].r \in Reg, NEW sv \in Entries, NEW parked
  PROVE  Onto(m, WithFirst(x, sv, parked), b, n)
<1> DEFINE r2 == x.vs[n].r
           put == SetTop(x, sv)  start == [put EXCEPT !.worlds = parked]
           first == gv(start, RC_INT)
           moved == move_reg(first, r2, Top(first).r, sv.t)
           both == [moved EXCEPT !.worlds = moved.worlds \cup x.worlds]
           y == Joined(both, r2)
<1>1. /\ Good(x) /\ Rec(x) /\ Len(x.vs) = n /\ n \in Nat /\ n >= 1 /\ n \in 1 .. n /\ nocode_wanted \in Nat
      /\ x.vs \in Seq(Entries) /\ DOMAIN x.vs = 1 .. n
      /\ \A k \in 1 .. n - 1 : k \in 1 .. n /\ k # n
  <2>1. Good(x) /\ Len(x.vs) = n /\ n \in Nat /\ b \in Nat
    BY OntoGood
  <2>2. n >= 1 /\ n \in 1 .. n
    BY <2>1
  <2>3. \A k \in 1 .. n - 1 : k \in 1 .. n /\ k # n
    BY <2>1
  <2> QED
    BY <2>1, <2>2, <2>3, GoodIs
<1>2. WithFirst(x, sv, parked) = y
  <2>1. Top(x) = x.vs[n]
    BY <1>1 DEF Top, Last
  <2> QED
    BY <2>1 DEF WithFirst
<1> DEFINE s == [x.vs EXCEPT ![n] = sv]
<1>3. With(x, start, s)
  <2>1. With(x, put, s)
    BY <1>1, SetTopFrame
  <2> HIDE DEF put, s
  <2>2. With(put, start, put.vs)
    BY <2>1, WithIt DEF With
  <2> HIDE DEF start
  <2> QED
    BY <2>1, <2>2 DEF With
<1>4. s \in Seq(Entries) /\ Len(s) = n /\ s[n] = sv /\ \A k \in 1 .. n - 1 : s[k] = x.vs[k]
  BY <1>1
<1> HIDE DEF start, r2
<1>5. Rec(start) /\ start.vs = s
  BY <1>3 DEF With
<1>6. Clear(start, n - 1)
  BY <1>4, <1>5 DEF Clear
<1>7. PICK e \in Entries : e.r \in Reg /\ With(start, first, [start.vs EXCEPT ![n] = e])
  BY <1>1, <1>4, <1>5, <1>6, LiftsTop DEF Lifted
<1> DEFINE u == [x.vs EXCEPT ![n] = e]
<1>8. u \in Seq(Entries) /\ Len(u) = n /\ u[n] = e /\ \A k \in 1 .. n - 1 : u[k] = x.vs[k]
  BY <1>1
<1>9. [s EXCEPT ![n] = e] = u
  BY <1>1
<1> HIDE DEF s, first, u
<1>10. Rec(first) /\ first.vs = u /\ first.temps = x.temps /\ first.loc = x.loc
  BY <1>3, <1>5, <1>7, <1>9 DEF With
<1>11. Clear(first, n - 1) /\ Top(first).r = first.vs[n].r
  BY <1>8, <1>10 DEF Clear, Top, Last
<1>12. With(first, moved, u)
  <2>1. r2 \in Reg
    BY DEF r2
  <2> DEFINE t == sv.t
  <2> HIDE DEF t
  <2>2. With(first, move_reg(first, r2, first.vs[n].r, t), first.vs)
    BY <1>1, <1>8, <1>10, <1>11, <2>1, MoveFrame
  <2> QED
    BY <1>10, <1>11, <2>2 DEF t
<1> HIDE DEF moved
<1>13. With(moved, both, u)
  <2>1. Rec(moved) /\ moved.vs = u
    BY <1>12 DEF With
  <2> DEFINE W == moved.worlds \cup x.worlds
  <2> HIDE DEF W
  <2>2. With(moved, [moved EXCEPT !.worlds = W], moved.vs)
    BY <2>1, WithIt
  <2> QED
    BY <2>1, <2>2 DEF W
<1> HIDE DEF both
<1> DEFINE f == InsteadIn(e, r2)
<1>14. With(both, y, [u EXCEPT ![n] = f])
  <2>1. Rec(both) /\ both.vs = u
    BY <1>13 DEF With
  <2>2. With(both, Joined(both, r2), [both.vs EXCEPT ![n] = InsteadIn(both.vs[n], r2)])
    BY <1>8, <2>1, JoinedFrame
  <2> QED
    BY <1>8, <2>1, <2>2
<1> HIDE DEF y
<1>15. [u EXCEPT ![n] = f] = [x.vs EXCEPT ![n] = f]
  <2> HIDE DEF f
  <2> QED
    BY <1>1 DEF u
<1>16. f \in Entries /\ f.r = r2 /\ ~ InSlot(f) /\ r2 \in Reg
  BY Replacing DEF r2
<1> HIDE DEF f
<1>17. With(x, y, [x.vs EXCEPT ![n] = f])
  BY <1>10, <1>12, <1>13, <1>14, <1>15 DEF With
<1>18. Unheld(x, f.r, n - 1)
  BY <1>16 DEF Unheld, Clear
<1>19. Onto(m, y, b, n)
  BY <1>16, <1>17, <1>18, ThenPut
<1> QED
  BY <1>2, <1>19 DEF y
\* One entry of a sequence replaced.
LEMMA PutIs ==
  ASSUME NEW s \in Seq(Entries), NEW n \in 1 .. Len(s), NEW e \in Entries
  PROVE  LET x == [s EXCEPT ![n] = e] IN
         /\ x \in Seq(Entries) /\ Len(x) = Len(s) /\ x[n] = e
         /\ \A k \in 1 .. Len(s) : k # n => x[k] = s[k]
  OBVIOUS

\* expr_cond() at its end, whichever arms had code.
LEMMA CondEndStep == ASSUME VInv, CondEnd PROVE VInv'
<1> DEFINE n == Len(vstack)  K == Len(conds)  d == conds[K]  x == gv(Now, RC_INT)
           kept == [SetTop(Now, d.sv) EXCEPT !.worlds = d.parked]
<1>1. /\ conds # << >> /\ d.arm = "else" /\ Last(conds) = d /\ n = Base + 1
      /\ conds' = Front(conds) /\ nocode_wanted' = nocode_wanted - (IF d.c = 1 THEN 1 ELSE 0)
  BY DEF CondEnd, Last
<1>2. Become(CASE d.c = -1 -> WithFirst(x, d.sv, d.parked) [] d.c = 0 -> Now [] d.c = 1 -> kept)
  BY <1>1 DEF CondEnd
<1>3. /\ Good(Now) /\ Now.vs = vstack /\ Now.temps = temps /\ Now.loc = loc
      /\ n \in Nat /\ Base \in Nat /\ Base < n /\ n >= 1 /\ n - 1 = Base
      /\ Holds(vstack, temps, loc, nocode_wanted, conds) /\ Base = d.base
      /\ vstack \in Seq(Entries) /\ DOMAIN vstack = 1 .. n
  <2>1. Base = d.base
    BY <1>1 DEF Base, Last
  <2>2. Good(Now) /\ Now.vs = vstack /\ n \in Nat /\ Base \in Nat
    BY NowIs
  <2>3. vstack \in Seq(Entries) /\ DOMAIN vstack = 1 .. n
    BY <2>2, GoodIs
  <2>4. Base < n /\ n >= 1 /\ n - 1 = Base
    BY <1>1, <2>2
  <2> QED
    BY <2>1, <2>2, <2>3, <2>4, NowIs DEF VInv
<1>4. K \in DOMAIN conds /\ Arm(d) /\ nocode_wanted \in Nat /\ nocode_wanted = Cardinality(Suppressed(conds))
      /\ (nocode_wanted = 0 <=> Suppressed(conds) = {}) /\ IsFiniteSet(Suppressed(conds))
      /\ DOMAIN conds = 1 .. K /\ K \in Nat
  <2>1. IsSeq(conds)
    BY NowIs
  <2>2. K \in DOMAIN conds
    BY <1>1, <2>1, SeqIs
  <2> QED
    BY <1>3, <2>2, HoldsIs
<1>5. (d.c = -1 \/ d.c = 0 \/ d.c = 1) /\ d.sv \in Entries
  BY <1>4 DEF Arm
<1> HIDE DEF K, d
<1>6. CASE d.c # 1
  <2> DEFINE m == IF d.c = -1 THEN WithFirst(x, d.sv, d.parked) ELSE Now
             t == [k \in DOMAIN m.vs |-> Tidy(m.vs[k])]
  <2>1. Become(m)
    BY <1>2, <1>5, <1>6
  <2>2. Onto(Now, m, Base, n)
    <3>1. Onto(Now, Now, Base, n)
      BY <1>3, SelfOnto
    <3>2. CASE d.c = -1
      <4>1. Clear(Now, Base)
        <5>1. SavedOk(vstack, conds)
          BY <1>3 DEF Holds
        <5>2. Live => Outside(conds, K)
          BY <1>4 DEF Live, Outside
        <5>3. conds[K].c = -1 /\ conds[K].base = Base
          BY <1>3, <3>2 DEF d
        <5>4. Live => Saved(vstack, Base)
          BY <1>4, <5>1, <5>2, <5>3 DEF SavedOk
        <5> QED
          BY <1>3, <5>4 DEF Saved, Clear
      <4>2. RC_INT \in Class
        BY DEF Class
      <4>3. Onto(Now, x, Base, n)
        BY <1>3, <4>2, GvOnto
      <4>4. Clear(x, Base)
        BY <4>1, <4>3, ClearStays
      <4>5. x.vs[n].r \in Reg
        BY <1>3, <4>2, GvLoads
      <4> DEFINE sv == d.sv  parked == d.parked
      <4> HIDE DEF x
      <4>6. sv \in Entries /\ Clear(x, n - 1)
        BY <1>3, <1>5, <4>4
      <4> HIDE DEF sv, parked
      <4>7. Onto(Now, WithFirst(x, sv, parked), Base, n)
        BY <1>3, <4>3, <4>5, <4>6, JoinsFirst
      <4> QED
        BY <3>2, <4>7 DEF sv, parked
    <3>3. CASE d.c # -1
      BY <3>1, <3>3
    <3> QED
      BY <3>2, <3>3
  <2> HIDE DEF m
  <2>3. Good(m) /\ Low(Now, m, Base) /\ Len(m.vs) = n
    BY <2>2, OntoLow, OntoGood
  <2>4. Holds(t, m.temps, m.loc, nocode_wanted, conds)
    BY <1>3, <2>3, Compiled
  <2>5. Sound(m.vs, m.temps, m.loc, Live)
    BY <2>3 DEF Good
  <2>6. Len(t) = n /\ t \in Seq(Entries)
    BY <2>3, <2>4, <2>5, TidySound, HoldsIs
  <2>7. StackOk(t, m.temps, m.loc, nocode_wanted)
    BY <2>4 DEF Holds
  <2>8. vstack' = t /\ temps' = m.temps /\ loc' = m.loc
    BY <2>1 DEF Become
  <2>9. nocode_wanted' = nocode_wanted
    BY <1>1, <1>4, <1>6
  <2> HIDE DEF t
  <2>10. d = conds[Len(conds)] /\ d.base <= Len(t)
    BY <1>3, <2>6 DEF d, K
  <2>11. Holds(t, m.temps, m.loc, nocode_wanted, Front(conds))
    BY <1>1, <1>6, <2>4, <2>6, <2>7, <2>10, Leaving
  <2> QED
    BY <1>1, <2>8, <2>9, <2>11 DEF VInv
<1>7. CASE d.c = 1
  <2> DEFINE u == [vstack EXCEPT ![n] = d.sv]  t == [k \in DOMAIN u |-> Tidy(u[k])]
             v == nocode_wanted - 1
  <2>1. Become(kept)
    BY <1>2, <1>7
  <2>2. kept.vs = u /\ kept.temps = temps /\ kept.loc = loc
    <3> DEFINE y == SetTop(Now, d.sv)
    <3>1. Rec(Now)
      BY <1>3, GoodIs
    <3>2. With(Now, y, u)
      BY <1>3, <3>1, SetTopFrame
    <3> HIDE DEF y
    <3>3. With(y, [y EXCEPT !.worlds = d.parked], y.vs)
      BY <3>2, WithIt DEF With
    <3> QED
      BY <1>3, <3>2, <3>3 DEF With, y
  <2>3. /\ u \in Seq(Entries) /\ Len(u) = n /\ u[n] = d.sv
        /\ \A k \in 1 .. Base : vstack[k] = u[k]
    <3>1. n \in 1 .. Len(vstack) /\ \A k \in 1 .. Base : k \in 1 .. Len(vstack) /\ k # n
      <4>1. \A i, j \in Nat : i < j => j \in 1 .. j /\ \A k \in 1 .. i : k \in 1 .. j /\ k # j
        OBVIOUS
      <4> QED
        BY <1>3, <4>1
    <3>2. /\ u \in Seq(Entries) /\ Len(u) = Len(vstack) /\ u[n] = d.sv
          /\ \A k \in 1 .. Len(vstack) : k # n => u[k] = vstack[k]
      BY <1>3, <1>5, <3>1, PutIs
    <3> HIDE DEF u
    <3> QED
      BY <3>1, <3>2
  <2> HIDE DEF kept, u
  <2>4. vstack' = t /\ temps' = temps /\ loc' = loc /\ nocode_wanted' = v
    BY <1>1, <1>7, <2>1, <2>2 DEF Become
  <2>5. Stays(vstack, d) = u
    BY <1>1, <1>3, <1>7, <2>3, ValueStays
  <2>6. K \in Suppressed(conds)
    BY <1>1, <1>4, <1>7 DEF Suppressed, Dead, d
  <2>7. Sound(u, temps, loc, Outer(conds, K))
    BY <1>3, <2>5, <2>6 DEF Holds, BackOk, d
  <2>8. v = 0 => Outer(conds, K)
    <3>1. Cardinality(Suppressed(conds) \ {K}) = Cardinality(Suppressed(conds)) - 1
      BY <1>4, <2>6, FS_RemoveElement
    <3>2. IsFiniteSet(Suppressed(conds) \ {K})
      BY <1>4, FS_RemoveElement, <2>6
    <3>3. v = 0 => Suppressed(conds) \ {K} = {}
      BY <1>4, <3>1, <3>2, FS_EmptySet
    <3> QED
      BY <1>4, <3>3 DEF Outer
  <2>9. Sound(u, temps, loc, v = 0)
    BY <2>7, <2>8, SoundLess
  <2>10. Sound(t, temps, loc, v = 0) /\ Len(t) = n
    BY <2>3, <2>9, TidySound
  <2>11. DOMAIN t = 1 .. n /\ \A k \in 1 .. n : u[k] \in Entries /\ t[k] = Tidy(u[k])
    BY <1>3, <2>3
  <2> HIDE DEF t
  <2>12. StackOk(t, temps, loc, v)
    <3>1. \A k \in 1 .. n : Tidy(t[k]) = t[k]
      BY <2>11, Tidying
    <3> QED
      BY <2>10, <2>11, <3>1 DEF StackOk
  <2>13. t \in Seq(Entries)
    BY <2>10 DEF Sound
  <2>14. \A k \in 1 .. Base : t[k] = vstack[k]
    <3>1. \A k \in 1 .. Base : k \in 1 .. n /\ Tidy(vstack[k]) = vstack[k]
      <4>1. \A k \in DOMAIN vstack : Tidy(vstack[k]) = vstack[k]
        BY <1>3, HoldsIs
      <4>2. \A k \in 1 .. Base : k \in 1 .. n
        BY <1>3
      <4> QED
        BY <1>3, <4>1, <4>2
    <3> QED
      BY <2>3, <2>11, <3>1
  <2>15. d = conds[Len(conds)] /\ d.base <= Len(t) /\ \A k \in 1 .. d.base : t[k] = vstack[k]
    BY <1>3, <2>10, <2>14 DEF d, K
  <2> HIDE DEF v
  <2>16. Holds(t, temps, loc, v, Front(conds))
    <3>1. v = nocode_wanted - 1
      BY DEF v
    <3> QED
      BY <1>1, <1>3, <1>7, <2>12, <2>13, <2>15, <3>1, Leaving
  <2> QED
    BY <1>1, <2>4, <2>16 DEF VInv
<1> QED
  BY <1>6, <1>7
-----------------------------------------------------------------------------
(***************************************************************************)
(* The invariant of the stack.                                             *)
(***************************************************************************)
LEMMA VInvInit == Init => VInv
<1> SUFFICES ASSUME Init PROVE VInv
  OBVIOUS
<1>1. vstack = << >> /\ temps = << >> /\ loc = 4 /\ nocode_wanted = 0 /\ conds = << >>
  BY DEF Init, Locals
<1>2. vstack \in Seq(Entries) /\ temps \in Seq(Temps) /\ conds \in Seq({}) /\ DOMAIN vstack = {}
      /\ DOMAIN temps = {} /\ DOMAIN conds = {}
  BY <1>1
<1>3. StackOk(vstack, temps, loc, nocode_wanted)
  BY <1>1, <1>2 DEF StackOk, Sound, Laid, Slots, Shared, Locals
<1>4. CondsOk(vstack, conds) /\ SavedOk(vstack, conds) /\ Suppressed(conds) = {}
  BY <1>2 DEF CondsOk, SavedOk, Suppressed, IsSeq
<1>5. BackOk(vstack, temps, loc, conds) /\ Cardinality(Suppressed(conds)) = 0
  BY <1>4, FS_EmptySet DEF BackOk
<1> QED
  BY <1>1, <1>3, <1>4, <1>5 DEF VInv, Holds

\* Every step preserves the invariant.
LEMMA VInvNext == VInv /\ [Next]_vars => VInv'
<1> SUFFICES ASSUME VInv, [Next]_vars PROVE VInv'
  OBVIOUS
<1>1. ASSUME NEW v \in {"0", "3"}, PushConst(v, "int") PROVE VInv'
  BY <1>1, PushConstStep
<1>2. CASE PushVar(VarI, "int")
  BY <1>2, PushVarStep
<1>3. CASE PushVar(VarP, "ptr")
  BY <1>3, PushVarStep
<1>4. CASE Pop
  BY <1>4, PopStep
<1>5. CASE Indirection
  BY <1>5, IndirectionStep
<1>6. ASSUME NEW op \in Op, Binary(op) PROVE VInv'
  BY <1>6, BinaryStep
<1>7. CASE CompoundPlace
  BY <1>7, CompoundPlaceStep
<1>8. CASE Assign
  BY <1>8, AssignStep
<1>9. ASSUME NEW post \in BOOLEAN, Inc(post) PROVE VInv'
  BY <1>9, IncStep
<1>10. ASSUME NEW n \in 1 .. 2, Call(n) PROVE VInv'
  BY <1>10, CallStep
<1>11. CASE AtomicLoad
  BY <1>11, AtomicLoadStep
<1>12. CASE CondQuestion
  BY <1>12, CondQuestionStep
<1>13. CASE CondColon
  BY <1>13, CondColonStep
<1>14. CASE CondEnd
  BY <1>14, CondEndStep
<1>15. CASE UNCHANGED vars
  BY <1>15 DEF vars, VInv
<1> QED
  BY <1>1, <1>2, <1>3, <1>4, <1>5, <1>6, <1>7, <1>8, <1>9, <1>10, <1>11, <1>12, <1>13, <1>14, <1>15
  DEF Next

\* Slots that are apart or equal do not overlap otherwise.
LEMMA VInvDisjoint == VInv => SlotsDisjoint
<1> SUFFICES ASSUME VInv, NEW j \in DOMAIN vstack, NEW k \in DOMAIN vstack,
                    InSlot(vstack[j]), InSlot(vstack[k]),
                    NEW x, x \in vstack[j].c - Width(vstack[j]) + 1 .. vstack[j].c,
                    x \in vstack[k].c - Width(vstack[k]) + 1 .. vstack[k].c
             PROVE  vstack[j] = vstack[k]
  BY DEF SlotsDisjoint, Width
<1>1. Slots(vstack, temps, loc) /\ vstack[j] \in Entries /\ vstack[k] \in Entries
  BY DEF VInv, Holds, StackOk, Sound
<1>2. Beside(vstack[j], vstack[k])
  BY <1>1 DEF Slots
<1>3. \A e \in Entries : e.c \in Nat /\ Width(e) \in Nat
  BY DEF Entries, Descriptor, Width, Size
<1> QED
  BY <1>1, <1>2, <1>3 DEF Beside, Apart

\* Entries, recorded slots and conditionals fit together in every state: the slots
\* handed out by get_temp_local_var() lie apart, every saved entry is in its own, and
\* what a conditional leaves when its arms are over is as sound as what it found.
THEOREM StackInvariant == Spec => []VInv
<1>1. Init => VInv
  BY VInvInit
<1>2. VInv /\ [Next]_vars => VInv'
  BY VInvNext
<1> QED
  BY <1>1, <1>2, PTL DEF Spec

\* Saved entries overlap in the frame only if they are copies of one another
\* (get_temp_local_var(), save_reg_upstack() and what moves entries about), for every
\* number of recorded slots and every bound.
THEOREM SlotsDisjointAlways == Spec => []SlotsDisjoint
<1>1. VInv => SlotsDisjoint
  BY VInvDisjoint
<1> QED
  BY <1>1, StackInvariant, PTL
=============================================================================
