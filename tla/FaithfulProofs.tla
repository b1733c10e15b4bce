--------------------------- MODULE FaithfulProofs ----------------------------
(***************************************************************************)
(* For any size of arr_temp_local_vars and any bounds: the code emitted so *)
(* far computes what it should, if __atomic_load() stores to globals.      *)
(*                                                                         *)
(* Faithful alone says nothing of the executions parked at a conditional,  *)
(* nor of what an entry may stand for.  Computing says that every          *)
(* execution is Right: each entry leads to what it stands for, an address  *)
(* or an int as its type says; that those parked will find a stack they are*)
(* right for (ParkedOk); and that suppressed code runs in none.  That      *)
(* values are where nothing overwrites them is VInv, of VStackProofs.      *)
(*                                                                         *)
(* Every function of the compiler is shown to keep every execution right   *)
(* (Fine); then every action to preserve Computing.                        *)
(***************************************************************************)
EXTENDS VStackProofs, TLAPS
-----------------------------------------------------------------------------
(***************************************************************************)
(* What the worlds hold.  An entry stands for an address or for an int, as *)
(* its type says, and leads the code to it (Right); names of ints are never*)
(* names of addresses, so renaming ints leaves every place where it is.    *)
(***************************************************************************)
Pointers == {"p", "&g"}
Ints == {"0", "3", "i", "*p", "g", "new"} \cup Names
PtrMeanings == {Val(v) : v \in Pointers} \cup {Var(VarP)}
IntMeanings == {Val(v) : v \in Ints} \cup {Mem(a) : a \in Pointers} \cup {Var(VarI)}
Meanings == PtrMeanings \cup IntMeanings
Fits(t, x) == x \in (IF t = "ptr" THEN PtrMeanings ELSE IntMeanings)

World(w) ==
  /\ w = [reg |-> w.reg, flags |-> w.flags, frame |-> w.frame, means |-> w.means,
          aside |-> w.aside, wrong |-> w.wrong]
  /\ w.reg = [r \in Reg |-> w.reg[r]]

\* The b lowest entries lead world w where they should, and nothing went wrong.
Leads(w, e, x) == Place(w, e) = x /\ Fits(e.t, x)
Right(w, s, b, a) ==
  /\ World(w) /\ w.wrong = FALSE /\ w.aside = a
  /\ w.means \in Seq(Meanings) /\ Len(w.means) = Len(s)
  /\ \A k \in 1 .. b : Leads(w, s[k], w.means[k])

\* Suppressed code is executed in no world.
Faith(m, b, a) ==
  /\ \A w \in m.worlds : Right(w, m.vs, b, a)
  /\ ~ Live => m.worlds = {}
True(m, a) == Faith(m, Len(m.vs), a)

\* Executing something keeps what entry e leads to.
Keeps(w, u, e) ==
  /\ e.r \in Reg => u.reg[e.r] = w.reg[e.r]
  /\ e.r = "cmp" => u.flags = w.flags
  /\ InSlot(e) => \A l \in e.c - Width(e) + 1 .. e.c :
       /\ l \in DOMAIN u.frame <=> l \in DOMAIN w.frame
       /\ l \in DOMAIN w.frame => u.frame[l] = w.frame[l]

\* What an entry stands for depends on its own register, the flags or its slot.
LEMMA PlaceKept ==
  ASSUME NEW e \in Entries, NEW w, NEW u, Keeps(w, u, e)
  PROVE  Place(u, e) = Place(w, e)
<1>1. e \in Descriptor /\ Proper(e) /\ e.c \in Nat /\ e.t \in Types /\ e.r \in Kinds
  BY DEF Entries, Descriptor
<1>2. CASE e.r \in Reg
  BY <1>2 DEF Place, Keeps, Reg
<1>3. CASE e.r = "const"
  BY <1>3 DEF Place, Reg
<1>4. CASE e.r = "cmp"
  BY <1>4 DEF Place, Reg, Keeps
<1>5. CASE e.r = "local" /\ e.c <= Locals
  BY <1>5 DEF Place, Reg
<1>6. CASE e.r = "local" /\ ~ (e.c <= Locals)
  <2>1. InSlot(e) /\ Width(e) = Size(e.t) /\ Size(e.t) \in 1 .. 2
    BY <1>1, <1>6 DEF InSlot, Width, Size, Locals
  <2>2. \A l \in {e.c, e.c - Size(e.t) + 1} :
          /\ l \in DOMAIN u.frame <=> l \in DOMAIN w.frame
          /\ l \in DOMAIN w.frame => u.frame[l] = w.frame[l]
    <3>1. {e.c, e.c - Size(e.t) + 1} \subseteq e.c - Width(e) + 1 .. e.c
      BY <1>1, <2>1
    <3> QED
      BY <2>1, <3>1 DEF Keeps
  <2>3. Slot(u, e.c, e.t) = Slot(w, e.c, e.t)
    BY <2>2 DEF Slot
  <2> QED
    BY <1>6, <2>3 DEF Place, Reg
<1>7. CASE e.r = "llocal"
  <2>1. InSlot(e) /\ Width(e) = 2 /\ Size("ptr") = 2
    BY <1>7 DEF InSlot, Width, Size
  <2>2. \A l \in {e.c, e.c - Size("ptr") + 1} :
          /\ l \in DOMAIN u.frame <=> l \in DOMAIN w.frame
          /\ l \in DOMAIN w.frame => u.frame[l] = w.frame[l]
    <3>1. {e.c, e.c - Size("ptr") + 1} \subseteq e.c - Width(e) + 1 .. e.c
      BY <1>1, <2>1
    <3> QED
      BY <2>1, <3>1 DEF Keeps
  <2>3. Slot(u, e.c, "ptr") = Slot(w, e.c, "ptr")
    BY <2>2 DEF Slot
  <2> QED
    BY <1>7, <2>3 DEF Place, Reg
<1> QED
  BY <1>1, <1>2, <1>3, <1>4, <1>5, <1>6, <1>7 DEF Kinds

\* What the value of something is: an address of an address, an int of an int.
LEMMA Values ==
  /\ \A v : Deref(Val(v)) = v
  /\ \A x : \A t \in Types : Fits(t, x) => Fits(t, Val(Deref(x))) /\ Val(Deref(x)) \in Meanings
  /\ \A t, x : Fits(t, x) => x \in Meanings
<1>0. /\ \A v : Val(v)[1] = "val" /\ Val(v)[2] = v
      /\ \A v : Mem(v)[1] = "mem" /\ Var(v)[1] = "var" /\ Var(v)[2] = v
  BY DEF Val, Mem, Var
<1>1. \A v : Deref(Val(v)) = v
  BY <1>0 DEF Deref
<1>2. Deref(Var(VarP)) = "p" /\ Deref(Var(VarI)) = "i"
  <2>1. Var(VarP)[2] = 4 /\ Var(VarI)[2] = 1
    BY <1>0 DEF VarP, VarI
  <2> QED
    BY <1>0, <2>1 DEF Deref
<1>4. \A a \in Pointers : Deref(Mem(a)) \in {"*p", "g"}
  <2>1. Mem("p") # Mem("&g")
    BY DEF Mem
  <2>2. Deref(Mem("p")) = "*p"
    BY <1>0, <2>1 DEF Deref
  <2>3. Deref(Mem("&g")) = "g"
    BY <1>0, <2>1 DEF Deref
  <2> QED
    BY <2>2, <2>3 DEF Pointers
<1>5. ASSUME NEW x, x \in PtrMeanings PROVE Val(Deref(x)) \in PtrMeanings
  BY <1>1, <1>2, <1>5 DEF PtrMeanings, Pointers
<1>6. ASSUME NEW x, x \in IntMeanings PROVE Val(Deref(x)) \in IntMeanings
  <2>1. Deref(x) \in Ints
    BY <1>1, <1>2, <1>4, <1>6 DEF IntMeanings, Ints
  <2> QED
    BY <2>1 DEF IntMeanings
<1> QED
  BY <1>1, <1>5, <1>6 DEF Fits, Meanings

(* How code changes a world.                                               *)
Made(R, f, F, M, a, b) ==
  [reg |-> R, flags |-> f, frame |-> F, means |-> M, aside |-> a, wrong |-> b]
Regs(R) == R = [r \in Reg |-> R[r]]

\* A world is what its fields are.
LEMMA Making ==
  ASSUME NEW R, NEW f, NEW F, NEW M, NEW a, NEW b, Regs(R),
         NEW u, u = Made(R, f, F, M, a, b)
  PROVE  /\ World(u) /\ u.reg = R /\ u.flags = f /\ u.frame = F
         /\ u.means = M /\ u.aside = a /\ u.wrong = b
  BY DEF Made, World, Regs

\* A world is the record of its fields.
LEMMA IsMade ==
  ASSUME NEW w, World(w)
  PROVE  w = Made(w.reg, w.flags, w.frame, w.means, w.aside, w.wrong) /\ Regs(w.reg)
  BY DEF Made, World, Regs

\* One or more fields are replaced.
LEMMA Replaced ==
  ASSUME NEW w, World(w), NEW R, NEW f, NEW F, NEW M, NEW a, NEW b
  PROVE  /\ [w EXCEPT !.reg = R] = Made(R, w.flags, w.frame, w.means, w.aside, w.wrong)
         /\ [w EXCEPT !.flags = f] = Made(w.reg, f, w.frame, w.means, w.aside, w.wrong)
         /\ [w EXCEPT !.frame = F] = Made(w.reg, w.flags, F, w.means, w.aside, w.wrong)
         /\ [w EXCEPT !.means = M] = Made(w.reg, w.flags, w.frame, M, w.aside, w.wrong)
         /\ [w EXCEPT !.aside = a] = Made(w.reg, w.flags, w.frame, w.means, a, w.wrong)
         /\ [w EXCEPT !.wrong = b] = Made(w.reg, w.flags, w.frame, w.means, w.aside, b)
<1> DEFINE p == w.reg  q == w.flags  r == w.frame  s == w.means  t == w.aside  v == w.wrong
<1>1. w = [reg |-> p, flags |-> q, frame |-> r, means |-> s, aside |-> t, wrong |-> v]
  BY DEF World
<1> HIDE DEF p, q, r, s, t, v
<1>2. /\ [w EXCEPT !.reg = R] = Made(R, q, r, s, t, v)
      /\ [w EXCEPT !.flags = f] = Made(p, f, r, s, t, v)
      /\ [w EXCEPT !.frame = F] = Made(p, q, F, s, t, v)
      /\ [w EXCEPT !.means = M] = Made(p, q, r, M, t, v)
      /\ [w EXCEPT !.aside = a] = Made(p, q, r, s, a, v)
      /\ [w EXCEPT !.wrong = b] = Made(p, q, r, s, t, b)
  BY <1>1 DEF Made
<1> QED
  BY <1>2 DEF p, q, r, s, t, v

\* Only what the machine holds changes.
Runs(w, u) == World(u) /\ u.means = w.means /\ u.aside = w.aside /\ u.wrong = w.wrong

\* All registers but r are as they were.
Others(w, u, r) == \A q \in Reg : q # r => u.reg[q] = w.reg[q]

\* load() changes a register, and perhaps the flags.
LEMMA LoadedIs ==
  ASSUME NEW w, World(w), NEW r \in Reg, NEW e, NEW u, u = Loaded(w, r, e)
  PROVE  /\ Runs(w, u) /\ u.frame = w.frame
         /\ u.reg[r] = Deref(Place(w, e)) /\ Others(w, u, r)
         /\ (e.r = "const" /\ ~ e.lval) \/ u.flags = w.flags
<1> DEFINE v == Deref(Place(w, e))
           R == [w.reg EXCEPT ![r] = v]
           f == IF e.r = "const" /\ ~ e.lval /\ e.v = "0" THEN "junk" ELSE w.flags
           x == [w EXCEPT !.reg = R]
<1>1. u = [x EXCEPT !.flags = f]
  <2>1. x = Made(R, w.flags, w.frame, w.means, w.aside, w.wrong)
    BY Replaced
  <2>2. x.flags = w.flags
    BY <2>1 DEF Made
  <2>3. u = [[w EXCEPT !.reg = R] EXCEPT !.flags = IF e.r = "const" /\ ~ e.lval /\ e.v = "0" THEN "junk" ELSE w.flags]
    BY DEF Loaded
  <2> QED
    BY <2>3
<1>2. Regs(R) /\ R[r] = v /\ \A q \in Reg : q # r => R[q] = w.reg[q]
  <2>1. w.reg = [q \in Reg |-> w.reg[q]]
    BY DEF World
  <2> HIDE DEF v
  <2> QED
    BY <2>1 DEF Regs
<1> HIDE DEF R, v, f
<1>3. x = Made(R, w.flags, w.frame, w.means, w.aside, w.wrong)
  BY Replaced
<1> HIDE DEF x
<1>4. World(x) /\ x.reg = R /\ x.frame = w.frame /\ x.means = w.means /\ x.aside = w.aside /\ x.wrong = w.wrong
  BY <1>2, <1>3, Making
<1>5. u = Made(R, f, w.frame, w.means, w.aside, w.wrong)
  <2>1. [x EXCEPT !.flags = f] = Made(x.reg, f, x.frame, x.means, x.aside, x.wrong)
    BY <1>4, Replaced
  <2> QED
    BY <1>1, <1>4, <2>1
<1>6. /\ World(u) /\ u.reg = R /\ u.flags = f /\ u.frame = w.frame
      /\ u.means = w.means /\ u.aside = w.aside /\ u.wrong = w.wrong
  BY <1>2, <1>5, Making
<1> QED
  BY <1>2, <1>6 DEF Runs, Others, f, v

\* The stack machine's notes change, and nothing else.
Remeant(w, u, M) ==
  /\ World(u) /\ u.means = M /\ u.reg = w.reg /\ u.flags = w.flags /\ u.frame = w.frame
  /\ u.aside = w.aside /\ u.wrong = w.wrong
\* Replacing the notes leaves the machine alone.
LEMMA MeansIt ==
  ASSUME NEW w, World(w), NEW M
  PROVE  Remeant(w, [w EXCEPT !.means = M], M)
<1>1. Regs(w.reg)
  BY IsMade
<1>2. [w EXCEPT !.means = M] = Made(w.reg, w.flags, w.frame, M, w.aside, w.wrong)
  BY Replaced
<1> DEFINE u == [w EXCEPT !.means = M]
<1> HIDE DEF u
<1>3. u = Made(w.reg, w.flags, w.frame, M, w.aside, w.wrong)
  BY <1>2 DEF u
<1>4. Remeant(w, u, M)
  BY <1>1, <1>3, Making DEF Remeant
<1> QED
  BY <1>4 DEF u

\* So does replacing one.
LEMMA MeaningIt ==
  ASSUME NEW w, World(w), NEW n, NEW x
  PROVE  Remeant(w, Meaning(w, n, x), [w.means EXCEPT ![n] = x])
<1>1. Meaning(w, n, x) = [w EXCEPT !.means = [w.means EXCEPT ![n] = x]]
  BY DEF Meaning
<1> QED
  BY <1>1, MeansIt

\* Using what one should leaves the world as it is.
LEMMA UsesRight ==
  ASSUME NEW w, World(w), w.wrong = FALSE, NEW used, NEW meant, used = meant
  PROVE  Uses(w, used, meant) = w
<1>1. Uses(w, used, meant) = [w EXCEPT !.wrong = FALSE]
  BY DEF Uses
<1>2. [w EXCEPT !.wrong = FALSE] = Made(w.reg, w.flags, w.frame, w.means, w.aside, FALSE)
  BY Replaced
<1> QED
  BY <1>1, <1>2, IsMade

\* A register is copied to a slot.
LEMMA CopiedIs ==
  ASSUME NEW w, World(w), NEW r, NEW l, NEW size
  PROVE  LET u == Copied(w, r, l, size) IN
         /\ Runs(w, u) /\ u.reg = w.reg /\ u.flags = w.flags
         /\ DOMAIN u.frame = DOMAIN w.frame \cup (l - size + 1 .. l)
         /\ \A k \in DOMAIN u.frame :
              u.frame[k] = IF l - size < k /\ k <= l THEN w.reg[r] ELSE w.frame[k]
<1> DEFINE F == [k \in DOMAIN w.frame \cup (l - size + 1 .. l) |->
                         IF l - size < k /\ k <= l THEN w.reg[r] ELSE w.frame[k]]
           u == Copied(w, r, l, size)
<1>1. u = [w EXCEPT !.frame = F]
  BY DEF Copied
<1>2. /\ DOMAIN F = DOMAIN w.frame \cup (l - size + 1 .. l)
      /\ \A k \in DOMAIN F : F[k] = IF l - size < k /\ k <= l THEN w.reg[r] ELSE w.frame[k]
  OBVIOUS
<1> HIDE DEF F, u
<1>3. u = Made(w.reg, w.flags, F, w.means, w.aside, w.wrong) /\ Regs(w.reg)
  BY <1>1, Replaced, IsMade
<1>4. Runs(w, u) /\ u.reg = w.reg /\ u.flags = w.flags /\ u.frame = F
  BY <1>3, Making DEF Runs
<1> QED
  BY <1>2, <1>4 DEF u

(* Saving registers keeps every entry on its value or place.               *)

\* What is kept still leads where it should.
LEMMA LeadsKept ==
  ASSUME NEW e \in Entries, NEW w, NEW u, Keeps(w, u, e), NEW x, Leads(w, e, x)
  PROVE  Leads(u, e, x)
  BY PlaceKept DEF Leads

\* What was copied to a slot is found there.
LEMMA CopyLeads ==
  ASSUME NEW w, World(w), NEW r \in Reg, NEW l \in Nat, l > Locals, NEW size \in 1 .. 2,
         NEW e \in Entries, NEW f \in Entries, Moved(e, f, r, l, size), NEW x, Leads(w, e, x)
  PROVE  Leads(Copied(w, r, l, size), f, x)
<1> DEFINE u == Copied(w, r, l, size)
<1>1. /\ DOMAIN u.frame = DOMAIN w.frame \cup (l - size + 1 .. l)
      /\ \A k \in DOMAIN u.frame :
           u.frame[k] = IF l - size < k /\ k <= l THEN w.reg[r] ELSE w.frame[k]
  BY CopiedIs
<1> HIDE DEF u
<1>2. \A k \in {l, l - size + 1} : k \in DOMAIN u.frame /\ u.frame[k] = w.reg[r]
  <2>1. \A k \in {l, l - size + 1} : k \in l - size + 1 .. l /\ l - size < k /\ k <= l
    OBVIOUS
  <2> QED
    BY <1>1, <2>1
<1>3. Place(w, e) = IF e.lval THEN Mem(w.reg[r]) ELSE Val(w.reg[r])
  BY DEF Moved, Place, Reg
<1>4. CASE e.lval
  <2>1. f.r = "llocal" /\ f.c = l /\ size = 2
    BY <1>4 DEF Moved, Width
  <2>2. Slot(u, l, "ptr") = w.reg[r]
    BY <1>2, <2>1 DEF Slot, Size
  <2>3. Place(u, f) = Mem(Slot(u, l, "ptr"))
    BY <2>1 DEF Place, Reg
  <2> QED
    BY <1>3, <1>4, <2>2, <2>3 DEF Leads, Moved, u
<1>5. CASE ~ e.lval
  <2>1. f.r = "local" /\ f.c = l /\ size = Size(f.t)
    BY <1>5 DEF Moved, Width
  <2>2. Slot(u, l, f.t) = w.reg[r]
    BY <1>2, <2>1 DEF Slot
  <2>3. Place(u, f) = Val(Slot(u, l, f.t))
    <3>1. ~ (l <= Locals)
      BY DEF Locals
    <3> QED
      BY <2>1, <3>1 DEF Place, Reg
  <2> QED
    BY <1>3, <1>5, <2>2, <2>3 DEF Leads, Moved, u
<1> QED
  BY <1>4, <1>5

\* What is elsewhere is not touched by the copy.
LEMMA CopyKeeps ==
  ASSUME NEW w, World(w), NEW r \in Reg, NEW l \in Nat, NEW size \in 1 .. 2,
         NEW e \in Entries, InSlot(e) => Apart(l, size, e.c, Width(e))
  PROVE  Keeps(w, Copied(w, r, l, size), e)
<1> DEFINE u == Copied(w, r, l, size)
<1>1. /\ u.reg = w.reg /\ u.flags = w.flags
      /\ DOMAIN u.frame = DOMAIN w.frame \cup (l - size + 1 .. l)
      /\ \A k \in DOMAIN u.frame :
           u.frame[k] = IF l - size < k /\ k <= l THEN w.reg[r] ELSE w.frame[k]
  BY CopiedIs
<1> HIDE DEF u
<1>2. ASSUME InSlot(e), NEW k \in e.c - Width(e) + 1 .. e.c
      PROVE  /\ k \in DOMAIN u.frame <=> k \in DOMAIN w.frame
             /\ k \in DOMAIN w.frame => u.frame[k] = w.frame[k]
  <2>1. e.c \in Nat /\ Width(e) \in 1 .. 2
    BY DEF Entries, Descriptor, Width, Size
  <2>2. k \notin l - size + 1 .. l /\ ~ (l - size < k /\ k <= l)
    BY <1>2, <2>1 DEF Apart
  <2> QED
    BY <1>1, <2>2
<1> QED
  BY <1>1, <1>2 DEF Keeps, u

\* A world that copies a register still leads every entry to its place.
LEMMA CopyRight ==
  ASSUME NEW m, Good(m), NEW x, x.vs \in Seq(Entries), Len(x.vs) = Len(m.vs), NEW r \in Reg,
         NEW l \in Nat, l > Locals, NEW size \in 1 .. 2,
         \A k \in 1 .. Len(m.vs) : InSlot(m.vs[k]) => Apart(l, size, m.vs[k].c, Width(m.vs[k])),
         \A k \in 1 .. Len(m.vs) : x.vs[k] = m.vs[k] \/ Moved(m.vs[k], x.vs[k], r, l, size),
         NEW b \in Nat, b <= Len(m.vs), NEW a, NEW w, Right(w, m.vs, b, a)
  PROVE  Right(Copied(w, r, l, size), x.vs, b, a)
<1> DEFINE u == Copied(w, r, l, size)
<1>1. World(w) /\ Runs(w, u)
  BY CopiedIs DEF Right
<1>2. ASSUME NEW k \in 1 .. b PROVE Leads(u, x.vs[k], w.means[k])
  <2>1. /\ k \in 1 .. Len(m.vs) /\ m.vs[k] \in Entries /\ x.vs[k] \in Entries
        /\ Leads(w, m.vs[k], w.means[k])
    BY GoodIs DEF Right
  <2>2. CASE x.vs[k] = m.vs[k]
    <3>1. Keeps(w, u, m.vs[k])
      BY <1>1, <2>1, CopyKeeps
    <3> HIDE DEF u
    <3> QED
      BY <2>1, <2>2, <3>1, LeadsKept
  <2>3. CASE Moved(m.vs[k], x.vs[k], r, l, size)
    BY <1>1, <2>1, <2>3, CopyLeads
  <2> QED
    BY <2>1, <2>2, <2>3
<1> HIDE DEF u
<1>3. Right(u, x.vs, b, a)
  BY <1>1, <1>2 DEF Right, Runs
<1> QED
  BY <1>3 DEF u
\* save_reg_upstack() keeps every execution right: the slot it takes is nobody's, and
\* what it holds is what the register held.
LEMMA SaveFaith ==
  ASSUME NEW m, Good(m), NEW r, NEW n \in 0 .. Len(m.vs), NEW b \in Nat, b <= Len(m.vs), NEW a,
         Faith(m, b, a)
  PROVE  Faith(save_reg_upstack(m, r, n), b, a)
<1> DEFINE x == save_reg_upstack(m, r, n)
<1>1. Spill(m, x) /\ (x = m \/ (r \in Reg /\ Moves(m, x, r)))
  BY SavesUpstack
<1> HIDE DEF x
<1>2. CASE x = m
  BY <1>2 DEF x
<1>3. CASE r \in Reg /\ Moves(m, x, r)
  <2>1. x.vs \in Seq(Entries) /\ Len(x.vs) = Len(m.vs)
    BY <1>1, GoodIs DEF Spill, Stay
  <2>2. PICK l \in Nat, size \in 1 .. 2 :
          /\ l > Locals /\ x.worlds = {Copied(w, r, l, size) : w \in m.worlds}
          /\ \A k \in 1 .. Len(m.vs) : InSlot(m.vs[k]) => Apart(l, size, m.vs[k].c, Width(m.vs[k]))
          /\ \A k \in 1 .. Len(m.vs) : x.vs[k] = m.vs[k] \/ Moved(m.vs[k], x.vs[k], r, l, size)
    BY <1>3 DEF Moves
  <2>3. ASSUME NEW u \in x.worlds PROVE Right(u, x.vs, b, a)
    <3>1. PICK w \in m.worlds : u = Copied(w, r, l, size)
      BY <2>2
    <3>2. Right(w, m.vs, b, a)
      BY DEF Faith
    <3> QED
      BY <1>3, <2>1, <2>2, <3>1, <3>2, CopyRight
  <2>4. ~ Live => x.worlds = {}
    BY <2>2 DEF Faith
  <2> QED
    BY <2>3, <2>4 DEF Faith, x
<1> QED
  BY <1>1, <1>2, <1>3

\* save_regs() does, being a series of it.
LEMMA SavesFaith ==
  ASSUME NEW m, Good(m), NEW n \in 0 .. Len(m.vs), NEW b \in Nat, b <= Len(m.vs), NEW a,
         Faith(m, b, a)
  PROVE  Faith(save_regs(m, n), b, a)
<1> DEFINE D == Len(m.vs) - n
<1>1. Depth(m) - n = D /\ D \in Nat /\ D <= Len(m.vs) /\ Len(m.vs) \in Nat
  BY GoodIs DEF Depth
<1>2. PICK c : SaveRounds(c, m, D) /\ save_regs(m, n) = c[D]
  BY <1>1, SaveRoundsAre
<1> HIDE DEF D
<1> DEFINE S == {k \in 0 .. D : Spill(m, c[k]) /\ Faith(c[k], b, a)}
<1>3. 0 \in S
  <2>1. c[0] = m
    BY <1>2 DEF SaveRounds
  <2>2. Spill(m, c[0])
    BY <2>1, StaySame
  <2> QED
    BY <1>1, <2>1, <2>2
<1>4. ASSUME NEW k \in 0 .. D, k \in S, k < D PROVE k + 1 \in S
  <2> DEFINE y == c[k]  z == c[k + 1]
  <2>1. k + 1 \in 1 .. D /\ k + 1 - 1 = k /\ k + 1 \in 0 .. D
    BY <1>1, <1>4
  <2>2. z = save_reg_upstack(y, y.vs[k + 1].r, 0)
    BY <2>1, <1>2 DEF SaveRounds, SaveRound, save_reg
  <2>3. Spill(m, y) /\ Faith(y, b, a)
    BY <1>4
  <2> HIDE DEF y, z
  <2>4. Good(y) /\ Len(y.vs) = Len(m.vs) /\ 0 \in 0 .. Len(y.vs)
    BY <2>3, <1>1 DEF Spill, Stay
  <2>5. Spill(y, z)
    BY <2>2, <2>4, SavesUpstack
  <2>6. Spill(m, z)
    BY <2>3, <2>5, SpillTrans
  <2>7. Faith(z, b, a)
    BY <2>2, <2>3, <2>4, SaveFaith
  <2> QED
    BY <2>1, <2>6, <2>7 DEF z
<1>5. D \in S
  <2> HIDE DEF S
  <2>1. \A k \in 0 .. D : k \in S
    BY <1>1, <1>3, <1>4, UpTo
  <2> QED
    BY <1>1, <2>1
<1> QED
  BY <1>2, <1>5 DEF D

\* get_reg() saves at most the oldest entry in a register of the class, and only if
\* none is free.
LEMMA GetIs ==
  ASSUME NEW m, Good(m), NEW rc \in Class
  PROVE  LET got == get_reg(m, rc) IN
         \/ got.m = m
         \/ \E k \in 1 .. Len(m.vs) :
              /\ got.m = save_reg_upstack(m, m.vs[k].r, 0)
              /\ Live /\ m.vs[k].r \in Range(rc) /\ got.r = m.vs[k].r
              /\ \A j \in 1 .. Len(m.vs) : m.vs[j].r \in Range(rc) => k <= j
              /\ \A i \in DOMAIN rc : \E j \in 1 .. Len(m.vs) : m.vs[j].r = rc[i]
<1> DEFINE got == get_reg(m, rc)
           free == {i \in DOMAIN rc : \A k \in 1 .. Depth(m) : m.vs[k].r # rc[i]}
           in == {k \in 1 .. Depth(m) : m.vs[k].r \in Range(rc)}
           i == Min(in)
<1>1. got = IF nocode_wanted > 0 THEN [m |-> m, r |-> rc[1]]
            ELSE IF free # {} THEN [m |-> m, r |-> rc[Min(free)]]
            ELSE [m |-> save_reg_upstack(m, m.vs[i].r, 0), r |-> m.vs[i].r]
  BY DEF get_reg, save_reg
<1>2. /\ Range(rc) \subseteq Reg /\ DOMAIN rc \subseteq Nat /\ 1 \in DOMAIN rc
      /\ \A j \in DOMAIN rc : rc[j] \in Range(rc)
  BY Classes
<1>3. nocode_wanted \in Nat /\ Len(m.vs) \in Nat /\ Depth(m) = Len(m.vs)
  BY GoodIs DEF Depth
<1>4. in \subseteq Nat /\ \A k : k \in in <=> k \in 1 .. Len(m.vs) /\ m.vs[k].r \in Range(rc)
  BY <1>3
<1>5. free = {} => \A j \in DOMAIN rc : \E k \in 1 .. Len(m.vs) : m.vs[k].r = rc[j]
  BY <1>3
<1>6. free = {} => in # {}
  BY <1>2
<1> HIDE DEF got, free, in
<1>7. CASE nocode_wanted > 0 \/ free # {}
  <2>1. got.m = m
    BY <1>1, <1>7
  <2> QED
    BY <2>1 DEF got
<1>8. CASE ~ (nocode_wanted > 0) /\ free = {}
  <2>1. i \in in /\ \A j \in in : i <= j
    BY <1>4, <1>6, <1>8, MinIn
  <2> HIDE DEF i
  <2>2. got.m = save_reg_upstack(m, m.vs[i].r, 0) /\ got.r = m.vs[i].r
    BY <1>1, <1>8
  <2>3. Live
    BY <1>3, <1>8 DEF Live
  <2>4. i \in 1 .. Len(m.vs) /\ m.vs[i].r \in Range(rc)
    BY <1>4, <2>1
  <2>5. \A j \in 1 .. Len(m.vs) : m.vs[j].r \in Range(rc) => i <= j
    BY <1>4, <2>1
  <2> QED
    BY <1>5, <1>8, <2>2, <2>3, <2>4, <2>5 DEF got
<1> QED
  BY <1>7, <1>8

\* get_reg() does: it saves at most one register.
LEMMA GetFaith ==
  ASSUME NEW m, Good(m), NEW rc \in Class, NEW b \in Nat, b <= Len(m.vs), NEW a, Faith(m, b, a)
  PROVE  Faith(get_reg(m, rc).m, b, a)
<1>1. 0 \in 0 .. Len(m.vs)
  BY GoodIs
<1>2. \A r : Faith(save_reg_upstack(m, r, 0), b, a)
  BY <1>1, SaveFaith
<1> QED
  BY <1>2, GetIs

(* Loading.                                                                *)

\* The worlds after an update of the stack or of the worlds.
LEMMA WorldsIt ==
  ASSUME NEW m, Rec(m), NEW s, NEW W
  PROVE  /\ [m EXCEPT !.vs = s, !.worlds = W].worlds = W
         /\ [m EXCEPT !.worlds = W].worlds = W
         /\ [m EXCEPT !.vs = s].worlds = m.worlds
<1> DEFINE a == m.vs  b == m.temps  c == m.loc  d == m.worlds
<1>1. m = [vs |-> a, temps |-> b, loc |-> c, worlds |-> d]
  BY DEF Rec
<1> HIDE DEF a, b, c, d
<1> DEFINE x == [m EXCEPT !.vs = s, !.worlds = W]  y == [m EXCEPT !.worlds = W]  z == [m EXCEPT !.vs = s]
<1>2. z = [vs |-> s, temps |-> b, loc |-> c, worlds |-> d]
  BY <1>1
<1>3. y = [vs |-> a, temps |-> b, loc |-> c, worlds |-> W]
  BY <1>1
<1>4. x = [vs |-> s, temps |-> b, loc |-> c, worlds |-> W]
  <2>1. x = [z EXCEPT !.worlds = W]
    BY Zenon
  <2> HIDE DEF z, x
  <2> QED
    BY <1>2, <2>1
<1> HIDE DEF x, y, z
<1>5. x.worlds = W /\ y.worlds = W /\ z.worlds = d
  BY <1>2, <1>3, <1>4
<1> QED
  BY <1>5 DEF x, y, z, d

\* The stack, or only the worlds, are replaced.
Became(m, s, W) == [m EXCEPT !.vs = s, !.worlds = W]
Ran(m, W) == [m EXCEPT !.worlds = W]
\* The stack and the worlds are what they are set to.
LEMMA BecameIt ==
  ASSUME NEW m, Rec(m), NEW s, NEW W, NEW x, x = Became(m, s, W)
  PROVE  With(m, x, s) /\ x.vs = s /\ x.worlds = W
<1>1. With(m, x, s)
  BY WithIt DEF Became
<1>2. x.worlds = W
  BY WorldsIt DEF Became
<1> QED
  BY <1>1, <1>2 DEF With

\* Only the worlds are.
LEMMA RanIt ==
  ASSUME NEW m, Rec(m), NEW W, NEW x, x = Ran(m, W)
  PROVE  With(m, x, m.vs) /\ x.vs = m.vs /\ x.worlds = W
<1>1. With(m, x, m.vs)
  BY WithIt DEF Ran
<1>2. x.worlds = W
  BY WorldsIt DEF Ran
<1> QED
  BY <1>1, <1>2 DEF With

\* A note on one entry is replaced.
LEMMA NoteOne ==
  ASSUME NEW M \in Seq(Meanings), NEW n \in 1 .. Len(M), NEW x \in Meanings
  PROVE  LET N == [M EXCEPT ![n] = x] IN
         N \in Seq(Meanings) /\ Len(N) = Len(M) /\ N[n] = x /\ \A k \in 1 .. Len(M) : k # n => N[k] = M[k]
  OBVIOUS

\* The value of the top entry, loaded into a register nothing else is in.
LEMMA LoadRight ==
  ASSUME NEW s \in Seq(Entries), NEW n, n = Len(s), n >= 1, NEW r \in Reg,
         \A k \in 1 .. n - 1 : s[k].r # r /\ s[k].r # "cmp",
         NEW a, NEW w, Right(w, s, n, a)
  PROVE  LET v == Loaded(w, r, s[n]) IN
         Right(Meaning(v, n, Val(Deref(v.means[n]))), [s EXCEPT ![n] = AsValue(s[n], r)], n, a)
<1> DEFINE v == Loaded(w, r, s[n])
           x == Val(Deref(v.means[n]))
           M == [v.means EXCEPT ![n] = x]
           u == Meaning(v, n, x)
           e == AsValue(s[n], r)
           t == [s EXCEPT ![n] = e]
<1>1. n \in Nat /\ n \in 1 .. n /\ s[n] \in Entries /\ \A k \in 1 .. n : s[k] \in Entries
  OBVIOUS
<1>2. /\ World(w) /\ w.wrong = FALSE /\ w.aside = a
      /\ w.means \in Seq(Meanings) /\ Len(w.means) = n
      /\ \A k \in 1 .. n : Leads(w, s[k], w.means[k])
  BY DEF Right
<1>3. /\ Runs(w, v) /\ v.frame = w.frame
      /\ v.reg[r] = Deref(Place(w, s[n])) /\ Others(w, v, r)
      /\ (s[n].r = "const" /\ ~ s[n].lval) \/ v.flags = w.flags
  <2> DEFINE d == s[n]
  <2>1. World(w) /\ v = Loaded(w, r, d)
    BY <1>2
  <2> HIDE DEF d, v
  <2> QED
    BY <2>1, LoadedIs DEF d
<1>4. /\ e \in Entries /\ e.r = r /\ e.lval = FALSE /\ e.t = s[n].t
  BY <1>1, Loading
<1>5. /\ t \in Seq(Entries) /\ Len(t) = n /\ t[n] = e
      /\ \A k \in 1 .. n : k # n => t[k] = s[k]
  <2> HIDE DEF e
  <2> QED
    BY <1>1, <1>4
<1> HIDE DEF v, e, t
<1>6. Fits(e.t, x) /\ x \in Meanings /\ x = Val(v.reg[r])
  <2>1. v.means[n] = w.means[n] /\ Place(w, s[n]) = w.means[n] /\ Fits(s[n].t, w.means[n])
    BY <1>1, <1>2, <1>3 DEF Runs, Leads
  <2>2. s[n].t \in Types
    BY <1>1 DEF Entries, Descriptor
  <2> QED
    BY <1>3, <1>4, <2>1, <2>2, Values
<1>7. Remeant(v, u, M)
  BY <1>3, MeaningIt DEF Runs
<1> HIDE DEF x
<1>8. /\ M \in Seq(Meanings) /\ Len(M) = n /\ M[n] = x /\ \A k \in 1 .. n : k # n => M[k] = w.means[k]
  <2>1. v.means = w.means
    BY <1>3 DEF Runs
  <2> QED
    BY <1>1, <1>2, <1>6, <2>1, NoteOne
<1> HIDE DEF M, u
<1>9. ASSUME NEW k \in 1 .. n PROVE Leads(u, t[k], u.means[k])
  <2>1. CASE k = n
    <3>1. Place(u, e) = Val(u.reg[r])
      BY <1>4 DEF Place, Reg
    <3> QED
      BY <1>4, <1>5, <1>6, <1>7, <1>8, <2>1, <3>1 DEF Leads, Remeant
  <2>2. CASE k # n
    <3>1. k \in 1 .. n - 1
      BY <1>1, <2>2
    <3>2. Keeps(w, u, s[k])
      <4>1. u.reg = v.reg /\ u.flags = v.flags /\ u.frame = w.frame
        BY <1>3, <1>7 DEF Remeant
      <4> QED
        BY <1>3, <3>1, <4>1 DEF Keeps, Others
    <3>3. Leads(u, s[k], w.means[k])
      BY <1>1, <1>2, <3>2, LeadsKept
    <3> QED
      BY <1>5, <1>7, <1>8, <2>2, <3>3 DEF Remeant
  <2> QED
    BY <2>1, <2>2
<1>10. Right(u, t, n, a)
  BY <1>2, <1>3, <1>5, <1>7, <1>8, <1>9 DEF Right, Remeant, Runs
<1> QED
  BY <1>10 DEF u, t, e, v, x

\* Loading the top entry into a register no entry is in.
LEMMA LoadTopFaith ==
  ASSUME NEW got, Rec(got.m), got.m.vs \in Seq(Entries), NEW n, Len(got.m.vs) = n, n >= 1,
         got.r \in Reg, Live => \A k \in 1 .. n - 1 : got.m.vs[k].r # got.r /\ got.m.vs[k].r # "cmp",
         NEW a, True(got.m, a)
  PROVE  True(LoadTop(got), a)
<1> DEFINE m == got.m  r == got.r  e == AsValue(m.vs[n], r)  s == [m.vs EXCEPT ![n] = e]
           l == load(m, r, Top(m))  t == SetTop(l, e)  x == LoadTop(got)
           W == {Loaded(w, r, m.vs[n]) : w \in m.worlds}
           U == {Meaning(w, n, Val(Deref(w.means[n]))) : w \in W}
<1>1. Top(m) = m.vs[n] /\ Depth(m) = n
  BY DEF Top, Last, Depth
<1>2. x = Valued(t)
  BY <1>1 DEF LoadTop, AsValue
<1>3. l = [m EXCEPT !.worlds = W]
  BY <1>1 DEF load, Run
<1>4. e \in Entries /\ Len(s) = n
  <2>1. m.vs[n] \in Entries
    OBVIOUS
  <2>2. e \in Entries
    BY <2>1, Loading
  <2> HIDE DEF e
  <2> QED
    BY <2>2
<1> HIDE DEF m, r, e, W
<1>5. With(m, l, m.vs) /\ l.worlds = W
  <2>1. Rec(m)
    BY DEF m
  <2>2. With(m, [m EXCEPT !.worlds = W], m.vs)
    BY <2>1, WithIt
  <2>3. [m EXCEPT !.worlds = W].worlds = W
    BY <2>1, WorldsIt
  <2> QED
    BY <1>3, <2>2, <2>3
<1> HIDE DEF l
<1>6. With(l, t, s) /\ t.worlds = W
  <2>1. Rec(l) /\ l.vs = m.vs
    BY <1>5 DEF With
  <2>2. t = [l EXCEPT !.vs = [l.vs EXCEPT ![Len(l.vs)] = e]]
    BY DEF SetTop, Depth
  <2> QED
    BY <1>5, <2>1, <2>2, SetTopFrame, WorldsIt DEF m
<1> HIDE DEF t, s
<1>7. x.vs = s /\ x.worlds = U
  <2>1. Rec(t) /\ t.vs = s /\ Depth(t) = n
    BY <1>4, <1>6 DEF With, Depth
  <2>2. Valued(t) = [t EXCEPT !.worlds = U]
    BY <1>6, <2>1 DEF Valued, Run
  <2> HIDE DEF x, U
  <2>3. With(t, [t EXCEPT !.worlds = U], t.vs) /\ [t EXCEPT !.worlds = U].worlds = U
    <3>1. Rec(t)
      BY <2>1
    <3>2. With(t, [t EXCEPT !.worlds = U], t.vs)
      BY <3>1, WithIt
    <3>3. [t EXCEPT !.worlds = U].worlds = U
      BY <3>1, WorldsIt
    <3> QED
      BY <3>2, <3>3
  <2>4. x = [t EXCEPT !.worlds = U]
    BY <1>2, <2>2
  <2>5. With(t, x, t.vs) /\ x.worlds = U
    BY <2>3, <2>4
  <2> QED
    BY <2>1, <2>5 DEF With
<1> HIDE DEF x
<1>8. Faith(m, n, a)
  BY DEF True, m
<1>9. ASSUME NEW u \in x.worlds PROVE Right(u, s, n, a)
  <2>1. PICK w \in m.worlds : LET v == Loaded(w, r, m.vs[n]) IN u = Meaning(v, n, Val(Deref(v.means[n])))
    BY <1>7 DEF W
  <2>2. Right(w, m.vs, n, a) /\ Live
    BY <1>8 DEF Faith
  <2>3. m.vs \in Seq(Entries) /\ n = Len(m.vs) /\ r \in Reg /\ \A k \in 1 .. n - 1 : m.vs[k].r # r /\ m.vs[k].r # "cmp"
    BY <2>2 DEF m, r
  <2> QED
    BY <2>1, <2>2, <2>3, LoadRight DEF s, e
<1>10. ~ Live => x.worlds = {}
  BY <1>7, <1>8 DEF Faith, W
<1> QED
  BY <1>4, <1>7, <1>9, <1>10 DEF True, Faith, x

(* A stack of n entries all of which lead where they should.               *)
Fine(m, n, a) == Good(m) /\ Len(m.vs) = n /\ n \in Nat /\ True(m, a)

\* What such a state has.
LEMMA FineIs ==
  ASSUME NEW m, NEW n, NEW a, Fine(m, n, a)
  PROVE  /\ Good(m) /\ Rec(m) /\ m.vs \in Seq(Entries) /\ Len(m.vs) = n /\ n \in Nat
         /\ \A k \in 1 .. n : m.vs[k] \in Entries
         /\ True(m, a) /\ Faith(m, n, a) /\ Depth(m) = n /\ Top(m) = m.vs[n]
  BY GoodIs DEF Fine, True, Depth, Top, Last

\* gv() gives a state in which every execution is right.
LEMMA FineGv ==
  ASSUME NEW m, NEW n, NEW a, Fine(m, n, a), n >= 1, NEW rc \in Class
  PROVE  Fine(gv(m, rc), n, a)
<1> DEFINE x == gv(m, rc)  e == m.vs[n]  own == e.r \in Range(rc)
<1>1. /\ Good(m) /\ Len(m.vs) = n /\ n \in Nat /\ True(m, a) /\ Faith(m, n, a) /\ Top(m) = e
      /\ e \in Entries /\ n - 1 \in Nat /\ 1 \in 0 .. n /\ Range(rc) \subseteq Reg
  BY FineIs, Classes
<1>2. Good(x) /\ Len(x.vs) = n
  BY <1>1, GvLoads DEF Stay
<1>3. x = IF own /\ ~ e.lval THEN m
          ELSE LoadTop(IF own THEN [m |-> save_reg_upstack(m, e.r, 1), r |-> e.r] ELSE get_reg(m, rc))
  BY <1>1 DEF gv
<1> HIDE DEF x, own, e
<1>4. ASSUME NEW got, Spill(m, got.m), Faith(got.m, n, a), got.r \in Reg,
             Live => \A k \in 1 .. n - 1 : got.m.vs[k].r # got.r
      PROVE  True(LoadTop(got), a)
  <2>1. Good(got.m) /\ Len(got.m.vs) = n
    BY <1>1, <1>4 DEF Spill, Stay
  <2>2. Rec(got.m) /\ got.m.vs \in Seq(Entries) /\ (Live => \A k \in 1 .. n - 1 : got.m.vs[k].r # "cmp")
    BY <2>1, GoodIs
  <2>3. True(got.m, a)
    BY <1>4, <2>1 DEF True
  <2> QED
    BY <1>4, <2>1, <2>2, <2>3, LoadTopFaith
<1>5. CASE own /\ ~ e.lval
  BY <1>1, <1>2, <1>3, <1>5 DEF Fine, x
<1>6. CASE own /\ e.lval
  <2> DEFINE y == save_reg_upstack(m, e.r, 1)  got == [m |-> y, r |-> e.r]
  <2>1. e.r \in Reg
    BY <1>1, <1>6 DEF own
  <2>2. Spill(m, y) /\ (Live => \A k \in 1 .. n - 1 : y.vs[k].r # e.r) /\ Faith(y, n, a)
    BY <1>1, <2>1, SavesUpstack, SaveFaith
  <2>3. got.m = y /\ got.r = e.r /\ x = LoadTop(got)
    BY <1>3, <1>6
  <2> HIDE DEF y, got
  <2>4. True(LoadTop(got), a)
    BY <1>4, <2>1, <2>2, <2>3
  <2> QED
    BY <1>1, <1>2, <2>3, <2>4 DEF Fine, x
<1>7. CASE ~ own
  <2> DEFINE got == get_reg(m, rc)
  <2>1. Spill(m, got.m) /\ got.r \in Reg /\ (Live => \A k \in 1 .. n : got.m.vs[k].r # got.r)
    BY <1>1, GetsReg
  <2>2. Faith(got.m, n, a)
    BY <1>1, GetFaith
  <2>3. x = LoadTop(got)
    BY <1>3, <1>7
  <2>4. \A k \in 1 .. n - 1 : k \in 1 .. n
    BY <1>1
  <2> HIDE DEF got
  <2>5. True(LoadTop(got), a)
    BY <1>4, <2>1, <2>2, <2>4
  <2> QED
    BY <1>1, <1>2, <2>3, <2>5 DEF Fine, x
<1> QED
  BY <1>5, <1>6, <1>7

\* vcheck_cmp() does.
LEMMA FineCheck ==
  ASSUME NEW m, NEW n, NEW a, Fine(m, n, a)
  PROVE  Fine(vcheck_cmp(m), n, a)
<1>1. m.vs # << >> => n >= 1
  BY FineIs
<1>2. vcheck_cmp(m) = m \/ (vcheck_cmp(m) = gv(m, RC_INT) /\ n >= 1)
  BY <1>1 DEF vcheck_cmp
<1>3. RC_INT \in Class
  BY DEF Class
<1> QED
  BY <1>2, <1>3, FineGv

\* Notes that change leave what entries lead to.
LEMMA RemeantLeads ==
  ASSUME NEW w, NEW u, NEW M, Remeant(w, u, M), NEW e \in Entries, NEW x, Leads(w, e, x)
  PROVE  Leads(u, e, x)
<1>1. Keeps(w, u, e)
  BY DEF Keeps, Remeant
<1> QED
  BY <1>1, LeadsKept

\* A stack made of entries of another, the notes going along.
Along(s, M, t, N, f) ==
  \A k \in 1 .. Len(t) : f[k] \in 1 .. Len(s) /\ t[k] = s[f[k]] /\ N[k] = M[f[k]]
\* Entries and notes that go together stay right in any order.
LEMMA PickRight ==
  ASSUME NEW s \in Seq(Entries), NEW t \in Seq(Entries), NEW a, NEW w, Right(w, s, Len(s), a),
         NEW N \in Seq(Meanings), Len(N) = Len(t), NEW f, Along(s, w.means, t, N, f)
  PROVE  Right([w EXCEPT !.means = N], t, Len(t), a)
<1> DEFINE u == [w EXCEPT !.means = N]
<1>1. Remeant(w, u, N) /\ w.wrong = FALSE /\ w.aside = a
  BY MeansIt DEF Right
<1> HIDE DEF u
<1>2. ASSUME NEW k \in 1 .. Len(t) PROVE Leads(u, t[k], u.means[k])
  <2>1. f[k] \in 1 .. Len(s) /\ t[k] = s[f[k]] /\ N[k] = w.means[f[k]] /\ s[f[k]] \in Entries
    BY DEF Along
  <2>2. Leads(w, s[f[k]], w.means[f[k]])
    BY <2>1 DEF Right
  <2>3. Leads(u, s[f[k]], w.means[f[k]])
    BY <1>1, <2>1, <2>2, RemeantLeads
  <2> QED
    BY <1>1, <2>1, <2>3 DEF Remeant
<1>3. Right(u, t, Len(t), a)
  BY <1>1, <1>2 DEF Right, Remeant
<1> QED
  BY <1>3 DEF u

(* Changes of the stack alone.                                             *)

\* In every world.
LEMMA AlongFaith ==
  ASSUME NEW m, m.vs \in Seq(Entries), NEW a, True(m, a), NEW x, x.vs \in Seq(Entries), NEW f,
         \A u \in x.worlds : \E w \in m.worlds, N \in Seq(Meanings) :
           /\ u = [w EXCEPT !.means = N] /\ Len(N) = Len(x.vs)
           /\ Along(m.vs, w.means, x.vs, N, f)
  PROVE  True(x, a)
<1>1. \A w \in m.worlds : Right(w, m.vs, Len(m.vs), a)
  BY DEF True, Faith
<1>2. ASSUME NEW u \in x.worlds PROVE Right(u, x.vs, Len(x.vs), a)
  <2>1. PICK w \in m.worlds, N \in Seq(Meanings) :
          /\ u = [w EXCEPT !.means = N] /\ Len(N) = Len(x.vs)
          /\ Along(m.vs, w.means, x.vs, N, f)
    OBVIOUS
  <2>2. Right(w, m.vs, Len(m.vs), a)
    BY <1>1
  <2>3. Right([w EXCEPT !.means = N], x.vs, Len(x.vs), a)
    BY <2>1, <2>2, PickRight
  <2> QED
    BY <2>1, <2>3
<1>3. ~ Live => x.worlds = {}
  BY DEF True, Faith
<1> QED
  BY <1>2, <1>3 DEF True, Faith

\* The notes on a stack of n entries.
LEMMA Notes ==
  ASSUME NEW m, NEW n, NEW a, Fine(m, n, a), NEW w \in m.worlds
  PROVE  /\ World(w) /\ w.wrong = FALSE /\ w.aside = a /\ Live
         /\ w.means \in Seq(Meanings) /\ Len(w.means) = n
         /\ \A k \in 1 .. n : Leads(w, m.vs[k], w.means[k]) /\ w.means[k] \in Meanings
  BY DEF Fine, True, Faith, Right

\* As many notes as entries.
LEMMA NotesLen ==
  ASSUME NEW m, NEW n, NEW a, Fine(m, n, a), NEW w \in m.worlds
  PROVE  w.means \in Seq(Meanings) /\ Len(w.means) = n
  BY Notes

\* Dropping the top entry.
LEMMA FineDrop ==
  ASSUME NEW m, NEW n, NEW a, Fine(m, n, a), n >= 1
  PROVE  Fine(Drop(m), n - 1, a)
<1> DEFINE x == Drop(m)  f == [k \in 1 .. n - 1 |-> k]
           W == {[w EXCEPT !.means = Front(w.means)] : w \in m.worlds}
<1>1. Good(m) /\ Len(m.vs) = n /\ n - 1 \in Nat /\ m.vs \in Seq(Entries) /\ Rec(m) /\ True(m, a)
  BY FineIs
<1>2. x = Became(m, Front(m.vs), W)
  BY DEF Became, Drop, Reorder
<1>3. Good(x) /\ Len(x.vs) = n - 1 /\ x.vs \in Seq(Entries)
  BY <1>1, DropOnto, OntoGood, GoodIs
<1> HIDE DEF W, x
<1>4. x.worlds = W /\ x.vs = Front(m.vs)
  BY <1>1, <1>2, BecameIt
<1>5. \A k \in 1 .. n - 1 : k \in 1 .. n /\ f[k] = k /\ x.vs[k] = m.vs[k]
  BY <1>1, <1>4, FrontOf
<1> HIDE DEF f
<1>6. ASSUME NEW u \in x.worlds
      PROVE  \E w \in m.worlds, N \in Seq(Meanings) :
               /\ u = [w EXCEPT !.means = N] /\ Len(N) = Len(x.vs)
               /\ Along(m.vs, w.means, x.vs, N, f)
  <2>1. PICK w \in m.worlds : u = [w EXCEPT !.means = Front(w.means)]
    BY <1>4 DEF W
  <2>2. w.means \in Seq(Meanings) /\ Len(w.means) = n
    BY NotesLen
  <2> DEFINE N == Front(w.means)
  <2>3. N \in Seq(Meanings) /\ Len(N) = n - 1 /\ \A k \in 1 .. n - 1 : N[k] = w.means[k]
    BY <2>2, FrontOf
  <2> HIDE DEF N
  <2>4. Along(m.vs, w.means, x.vs, N, f)
    BY <1>1, <1>3, <1>5, <2>3 DEF Along
  <2> QED
    BY <1>3, <2>1, <2>3, <2>4 DEF N
<1>7. True(x, a)
  BY <1>1, <1>3, <1>6, AlongFaith
<1> QED
  BY <1>1, <1>3, <1>7 DEF Fine, x

\* vdup() of an object: two entries may share the register of an address only.
LEMMA FineDup ==
  ASSUME NEW m, NEW n, NEW a, Fine(m, n, a), n >= 1,
         Live => m.vs[n].t = "int" /\ m.vs[n].lval
  PROVE  Fine(vdup(m), n + 1, a) /\ vdup(m).vs = Append(m.vs, m.vs[n])
<1> DEFINE x == vdup(m)  f == [k \in 1 .. n + 1 |-> IF k = n + 1 THEN n ELSE k]
           W == {[w EXCEPT !.means = Append(w.means, Last(w.means))] : w \in m.worlds}
<1>1. Good(m) /\ Len(m.vs) = n /\ n \in Nat /\ n \in 1 .. n /\ m.vs \in Seq(Entries) /\ Rec(m) /\ True(m, a)
  BY FineIs
<1>2. x = [m EXCEPT !.vs = Append(m.vs, Last(m.vs)), !.worlds = W]
  BY DEF vdup, Reorder
<1>3. Good(x) /\ Len(x.vs) = n + 1 /\ x.vs = Append(m.vs, m.vs[n]) /\ x.vs \in Seq(Entries)
  BY <1>1, DupOnto, OntoGood, GoodIs
<1> HIDE DEF W, x
<1>4. x.worlds = W
  BY <1>1, <1>2, WorldsIt
<1>5. \A k \in 1 .. n + 1 : f[k] \in 1 .. n /\ x.vs[k] = m.vs[f[k]]
  BY <1>1, <1>3
<1>6. ASSUME NEW u \in x.worlds
      PROVE  \E w \in m.worlds, N \in Seq(Meanings) :
               /\ u = [w EXCEPT !.means = N] /\ Len(N) = Len(x.vs)
               /\ Along(m.vs, w.means, x.vs, N, f)
  <2>1. PICK w \in m.worlds : u = [w EXCEPT !.means = Append(w.means, Last(w.means))]
    BY <1>4 DEF W
  <2>2. w.means \in Seq(Meanings) /\ Len(w.means) = n
    BY NotesLen
  <2> DEFINE N == Append(w.means, Last(w.means))
  <2>3. N \in Seq(Meanings) /\ Len(N) = n + 1 /\ \A k \in 1 .. n + 1 : N[k] = w.means[f[k]]
    BY <1>1, <2>2 DEF Last
  <2> HIDE DEF N, f
  <2>4. Along(m.vs, w.means, x.vs, N, f)
    BY <1>1, <1>3, <1>5, <2>3 DEF Along
  <2> QED
    BY <1>3, <2>1, <2>3, <2>4 DEF N
<1> HIDE DEF f
<1>7. True(x, a)
  BY <1>1, <1>3, <1>6, AlongFaith
<1> QED
  BY <1>1, <1>3, <1>7 DEF Fine, x

\* vswap() and vrotb() after vcheck_cmp().
LEMMA FineSwap ==
  ASSUME NEW m0, NEW n, NEW a, Fine(m0, n, a), n >= 2
  PROVE  /\ Fine(vswap(m0), n, a)
         /\ vswap(m0).vs = Swapped(vcheck_cmp(m0).vs)
<1> DEFINE m == vcheck_cmp(m0)  x == vswap(m0)
           f == [k \in 1 .. n |-> IF k = n THEN n - 1 ELSE IF k = n - 1 THEN n ELSE k]
           W == {[w EXCEPT !.means = Swapped(w.means)] : w \in m.worlds}
<1>0. Good(m0) /\ Len(m0.vs) = n /\ n \in Nat /\ 0 + 2 <= n
  BY FineIs
<1>1. Good(m) /\ Len(m.vs) = n /\ m.vs \in Seq(Entries) /\ Rec(m) /\ True(m, a) /\ Fine(m, n, a)
  BY FineCheck, FineIs
<1>2. x = Became(m, Swapped(m.vs), W)
  BY DEF Became, vswap, Reorder, Swapped
<1>3. Good(x) /\ Len(x.vs) = n /\ x.vs \in Seq(Entries)
  BY <1>0, SwapOnto, OntoGood, GoodIs
<1> HIDE DEF W, x, m
<1>4. x.worlds = W /\ x.vs = Swapped(m.vs)
  BY <1>1, <1>2, BecameIt
<1>5. \A k \in 1 .. n : k = n \/ k = n - 1 \/ k \in 1 .. n - 2
  BY <1>0
<1>6. \A S : \A s \in Seq(S) : Len(s) = n =>
        /\ Swapped(s) \in Seq(S) /\ Len(Swapped(s)) = n
        /\ \A k \in 1 .. n : f[k] \in 1 .. n /\ Swapped(s)[k] = s[f[k]]
  <2> SUFFICES ASSUME NEW S, NEW s \in Seq(S), Len(s) = n
               PROVE  /\ Swapped(s) \in Seq(S) /\ Len(Swapped(s)) = n
                      /\ \A k \in 1 .. n : f[k] \in 1 .. n /\ Swapped(s)[k] = s[f[k]]
    OBVIOUS
  <2> DEFINE t == Swapped(s)
  <2>1. /\ t \in Seq(S) /\ Len(t) = n /\ t[n] = s[n - 1] /\ t[n - 1] = s[n]
        /\ \A k \in 1 .. n - 2 : t[k] = s[k]
    BY <1>0, SwappedIs
  <2> HIDE DEF t
  <2>2. \A k \in 1 .. n : f[k] \in 1 .. n /\ t[k] = s[f[k]]
    BY <1>0, <1>5, <2>1
  <2> QED
    BY <2>1, <2>2 DEF t
<1> HIDE DEF f
<1>7. ASSUME NEW u \in x.worlds
      PROVE  \E w \in m.worlds, N \in Seq(Meanings) :
               /\ u = [w EXCEPT !.means = N] /\ Len(N) = Len(x.vs)
               /\ Along(m.vs, w.means, x.vs, N, f)
  <2>1. PICK w \in m.worlds : u = [w EXCEPT !.means = Swapped(w.means)]
    BY <1>4 DEF W
  <2>2. w.means \in Seq(Meanings) /\ Len(w.means) = n
    BY <1>1, NotesLen
  <2>3. Swapped(w.means) \in Seq(Meanings) /\ Len(Swapped(w.means)) = n
        /\ Along(m.vs, w.means, x.vs, Swapped(w.means), f)
    BY <1>1, <1>3, <1>4, <1>6, <2>2 DEF Along
  <2> QED
    BY <1>3, <2>1, <2>3
<1>8. True(x, a)
  BY <1>1, <1>3, <1>7, AlongFaith
<1> QED
  BY <1>0, <1>3, <1>4, <1>8 DEF Fine, x, m

\* vrotb() of three entries.
LEMMA FineRot ==
  ASSUME NEW m0, NEW n, NEW a, Fine(m0, n, a), n >= 3
  PROVE  /\ Fine(vrotb(m0, 3), n, a)
         /\ vrotb(m0, 3).vs = Rotated(vcheck_cmp(m0).vs)
<1> DEFINE m == vcheck_cmp(m0)  x == vrotb(m0, 3)
           f == [k \in 1 .. n |-> IF k = n THEN n - 2 ELSE IF k = n - 1 THEN n
                                   ELSE IF k = n - 2 THEN n - 1 ELSE k]
           W == {[w EXCEPT !.means = Rotated(w.means)] : w \in m.worlds}
<1>0. Good(m0) /\ Len(m0.vs) = n /\ n \in Nat /\ 0 + 3 <= n
  BY FineIs
<1>1. Good(m) /\ Len(m.vs) = n /\ m.vs \in Seq(Entries) /\ Rec(m) /\ True(m, a) /\ Fine(m, n, a)
  BY FineCheck, FineIs
<1>2. x = Became(m, Rotated(m.vs), W)
  BY DEF Became, vrotb, Reorder, Rotated
<1>3. Good(x) /\ Len(x.vs) = n /\ x.vs \in Seq(Entries)
  BY <1>0, RotOnto, OntoGood, GoodIs
<1> HIDE DEF W, x, m
<1>4. x.worlds = W /\ x.vs = Rotated(m.vs)
  BY <1>1, <1>2, BecameIt
<1>5. \A k \in 1 .. n : k = n \/ k = n - 1 \/ k = n - 2 \/ k \in 1 .. n - 3
  BY <1>0
<1>6. \A S : \A s \in Seq(S) : Len(s) = n =>
        /\ Rotated(s) \in Seq(S) /\ Len(Rotated(s)) = n
        /\ \A k \in 1 .. n : f[k] \in 1 .. n /\ Rotated(s)[k] = s[f[k]]
  <2> SUFFICES ASSUME NEW S, NEW s \in Seq(S), Len(s) = n
               PROVE  /\ Rotated(s) \in Seq(S) /\ Len(Rotated(s)) = n
                      /\ \A k \in 1 .. n : f[k] \in 1 .. n /\ Rotated(s)[k] = s[f[k]]
    OBVIOUS
  <2> DEFINE t == Rotated(s)
  <2>1. /\ t \in Seq(S) /\ Len(t) = n /\ t[n] = s[n - 2] /\ t[n - 1] = s[n] /\ t[n - 2] = s[n - 1]
        /\ \A k \in 1 .. n - 3 : t[k] = s[k]
    BY <1>0, RotatedIs
  <2> HIDE DEF t
  <2>2. \A k \in 1 .. n : f[k] \in 1 .. n /\ t[k] = s[f[k]]
    BY <1>0, <1>5, <2>1
  <2> QED
    BY <2>1, <2>2 DEF t
<1> HIDE DEF f
<1>7. ASSUME NEW u \in x.worlds
      PROVE  \E w \in m.worlds, N \in Seq(Meanings) :
               /\ u = [w EXCEPT !.means = N] /\ Len(N) = Len(x.vs)
               /\ Along(m.vs, w.means, x.vs, N, f)
  <2>1. PICK w \in m.worlds : u = [w EXCEPT !.means = Rotated(w.means)]
    BY <1>4 DEF W
  <2>2. w.means \in Seq(Meanings) /\ Len(w.means) = n
    BY <1>1, NotesLen
  <2>3. Rotated(w.means) \in Seq(Meanings) /\ Len(Rotated(w.means)) = n
        /\ Along(m.vs, w.means, x.vs, Rotated(w.means), f)
    BY <1>1, <1>3, <1>4, <1>6, <2>2 DEF Along
  <2> QED
    BY <1>3, <2>1, <2>3
<1>8. True(x, a)
  BY <1>1, <1>3, <1>7, AlongFaith
<1> QED
  BY <1>0, <1>3, <1>4, <1>8 DEF Fine, x, m

\* A new entry on top.
LEMMA PushRight ==
  ASSUME NEW s \in Seq(Entries), NEW a, NEW w, Right(w, s, Len(s), a),
         NEW e \in Entries, NEW x \in Meanings, Leads(w, e, x)
  PROVE  Right([w EXCEPT !.means = Append(w.means, x)], Append(s, e), Len(s) + 1, a)
<1> DEFINE N == Append(w.means, x)  u == [w EXCEPT !.means = N]  t == Append(s, e)  n == Len(s)
<1>1. /\ World(w) /\ w.wrong = FALSE /\ w.aside = a /\ w.means \in Seq(Meanings) /\ Len(w.means) = n
      /\ n \in Nat /\ \A k \in 1 .. n : s[k] \in Entries /\ Leads(w, s[k], w.means[k])
  BY DEF Right
<1>2. /\ t \in Seq(Entries) /\ Len(t) = n + 1 /\ t[n + 1] = e /\ \A k \in 1 .. n : t[k] = s[k]
      /\ N \in Seq(Meanings) /\ Len(N) = n + 1 /\ N[n + 1] = x /\ \A k \in 1 .. n : N[k] = w.means[k]
      /\ \A k \in 1 .. n + 1 : k = n + 1 \/ k \in 1 .. n
  BY <1>1
<1>3. Remeant(w, u, N)
  BY <1>1, MeansIt
<1> HIDE DEF N, u, t, n
<1>4. ASSUME NEW k \in 1 .. n + 1 PROVE Leads(u, t[k], u.means[k])
  <2>1. u.means = N
    BY <1>3 DEF Remeant
  <2>2. CASE k = n + 1
    <3>1. Leads(u, e, x)
      BY <1>3, RemeantLeads
    <3> QED
      BY <1>2, <2>1, <2>2, <3>1
  <2>3. CASE k \in 1 .. n
    <3>1. Leads(u, s[k], w.means[k])
      BY <1>1, <1>3, <2>3, RemeantLeads
    <3> QED
      BY <1>2, <2>1, <2>3, <3>1
  <2> QED
    BY <1>2, <2>2, <2>3
<1>5. Right(u, t, n + 1, a)
  BY <1>1, <1>2, <1>3, <1>4 DEF Right, Remeant
<1> QED
  BY <1>5 DEF u, t, n, N

\* A new entry that leads where it should.
LEMMA PushFaith ==
  ASSUME NEW m, Rec(m), m.vs \in Seq(Entries), NEW a, True(m, a),
         NEW e \in Entries, NEW x \in Meanings, \A w \in m.worlds : Leads(w, e, x)
  PROVE  True(Push(m, e, x), a)
<1> DEFINE y == Push(m, e, x)  t == Append(m.vs, e)
           W == {[w EXCEPT !.means = Append(w.means, x)] : w \in m.worlds}
<1>1. y = Became(m, t, W)
  BY DEF Push, Became
<1>2. Len(t) = Len(m.vs) + 1
  OBVIOUS
<1> HIDE DEF y, t, W
<1>3. y.vs = t /\ y.worlds = W
  BY <1>1, BecameIt
<1>4. ASSUME NEW u \in W PROVE Right(u, t, Len(t), a)
  <2>1. PICK w \in m.worlds : u = [w EXCEPT !.means = Append(w.means, x)]
    BY DEF W
  <2>2. Right(w, m.vs, Len(m.vs), a) /\ Leads(w, e, x)
    BY DEF True, Faith
  <2>3. Right([w EXCEPT !.means = Append(w.means, x)], Append(m.vs, e), Len(m.vs) + 1, a)
    BY <2>2, PushRight
  <2> QED
    BY <1>2, <2>1, <2>3 DEF t
<1>5. ~ Live => W = {}
  BY DEF W, True, Faith
<1> QED
  BY <1>3, <1>4, <1>5 DEF True, Faith, y

\* vsetc() of a constant or a variable.
LEMMA FineSetc ==
  ASSUME NEW m, NEW n, NEW a, Fine(m, n, a), NEW e \in Entries, ~ InSlot(e), e.r \notin Reg \cup {"cmp"},
         NEW x \in Meanings, \A w : Leads(w, e, x)
  PROVE  Fine(vsetc(m, e, x), n + 1, a) /\ vsetc(m, e, x).vs[n + 1] = e
<1> DEFINE y == vsetc(m, e, x)  c == vcheck_cmp(m)
<1>1. Good(m) /\ Len(m.vs) = n /\ n \in Nat
  BY FineIs
<1>2. Good(y) /\ Len(y.vs) = n + 1 /\ y.vs[n + 1] = e
  BY <1>1, Pushes
<1>3. Fine(c, n, a)
  BY FineCheck
<1>4. y = Push(c, e, x)
  BY DEF vsetc
<1> HIDE DEF y, c
<1>5. True(y, a)
  BY <1>3, <1>4, FineIs, PushFaith
<1> QED
  BY <1>1, <1>2, <1>5 DEF Fine, y

(* Operands in registers.                                                  *)
Resident(e) == e.r \in Reg /\ e.lval = FALSE

\* A value in a register is the only entry there.
LEMMA Alone ==
  ASSUME NEW m, Good(m), Live, NEW k \in 1 .. Len(m.vs), Resident(m.vs[k])
  PROVE  \A j \in 1 .. Len(m.vs) : j # k => m.vs[j].r # m.vs[k].r
<1>1. DOMAIN m.vs = 1 .. Len(m.vs) /\ Shared(m.vs)
  BY GoodIs
<1> QED
  BY <1>1 DEF Shared, Resident

\* The top entry is then in that register.
LEMMA LoadsInto ==
  ASSUME NEW m, Good(m), NEW n, n = Len(m.vs), n >= 1, NEW got, Spill(m, got.m), got.r \in Reg,
         Unheld(got.m, got.r, n - 1), NEW x, x = LoadTop(got)
  PROVE  x.vs[n].r = got.r
  BY LoadsTop

\* gv() keeps types and loads into the class asked for.
LEMMA GvKinds ==
  ASSUME NEW m, Good(m), NEW n, Len(m.vs) = n, n >= 1, NEW rc \in Class
  PROVE  LET x == gv(m, rc) IN
         /\ Good(x) /\ Len(x.vs) = n /\ \A k \in 1 .. n : x.vs[k].t = m.vs[k].t
         /\ \A k \in 1 .. n - 1 : x.vs[k] = m.vs[k] \/ Evicted(m.vs[k], x.vs[k])
         /\ x.vs[n].r \in Range(rc) /\ Resident(x.vs[n])
<1> DEFINE x == gv(m, rc)  e == m.vs[n]  own == e.r \in Range(rc)
<1>1. n \in Nat /\ Top(m) = e /\ Range(rc) \subseteq Reg /\ 1 \in 0 .. n
      /\ \A k \in 1 .. n : k = n \/ k \in 1 .. n - 1
  BY GoodIs, Classes DEF Top, Last
<1>2. Stay(m, x, n - 1) /\ Len(x.vs) = n /\ Resident(x.vs[n]) /\ x.vs[n].t = e.t
  BY GvLoads DEF Resident
<1>3. x = IF own /\ ~ e.lval THEN m
          ELSE LoadTop(IF own THEN [m |-> save_reg_upstack(m, e.r, 1), r |-> e.r] ELSE get_reg(m, rc))
  BY <1>1 DEF gv
<1> HIDE DEF x
<1>4. /\ \A k \in 1 .. n : x.vs[k].t = m.vs[k].t
      /\ Good(x) /\ \A k \in 1 .. n - 1 : x.vs[k] = m.vs[k] \/ Evicted(m.vs[k], x.vs[k])
  BY <1>1, <1>2 DEF Stay, Evicted, e
<1>5. CASE own /\ ~ e.lval
  BY <1>2, <1>3, <1>4, <1>5 DEF x
<1>6. CASE own /\ e.lval
  <2> DEFINE y == save_reg_upstack(m, e.r, 1)  got == [m |-> y, r |-> e.r]
  <2>1. e.r \in Reg
    BY <1>1, <1>6 DEF own
  <2>2. Spill(m, y) /\ (Live => \A k \in 1 .. n - 1 : y.vs[k].r # e.r)
    BY <1>1, <2>1, SavesUpstack
  <2>3. got.m = y /\ got.r = e.r /\ x = LoadTop(got)
    BY <1>3, <1>6
  <2> HIDE DEF y, got, own
  <2>4. x.vs[n].r = got.r
    <3>1. Unheld(got.m, got.r, n - 1) /\ Spill(m, got.m) /\ got.r \in Reg
      BY <2>1, <2>2, <2>3 DEF Unheld
    <3> QED
      BY <1>1, <2>3, <3>1, LoadsInto
  <2> QED
    BY <1>2, <1>4, <1>6, <2>3, <2>4 DEF x, own
<1>7. CASE ~ own
  <2> DEFINE got == get_reg(m, rc)
  <2>1. Spill(m, got.m) /\ got.r \in Range(rc) /\ got.r \in Reg /\ (Live => \A k \in 1 .. n : got.m.vs[k].r # got.r)
    BY <1>1, GetsReg
  <2>3. x = LoadTop(got)
    BY <1>3, <1>7
  <2> HIDE DEF got, own
  <2>4. x.vs[n].r = got.r
    <3>1. Unheld(got.m, got.r, n - 1) /\ Spill(m, got.m) /\ got.r \in Reg
      <4>1. \A k \in 1 .. n - 1 : k \in 1 .. n
        BY <1>1
      <4> QED
        BY <2>1, <4>1 DEF Unheld
    <3> QED
      BY <1>1, <2>3, <3>1, LoadsInto
  <2> QED
    BY <1>2, <1>4, <2>1, <2>4 DEF x
<1> QED
  BY <1>5, <1>6, <1>7

\* A value just below the top is not the oldest one when all registers are taken.
LEMMA GvSpares ==
  ASSUME NEW m, Good(m), Live, NEW n, Len(m.vs) = n, n >= 2, NEW rc \in Class, Resident(m.vs[n - 1]),
         rc = RC_INT \/ m.vs[n - 1].r \notin Range(rc)
  PROVE  gv(m, rc).vs[n - 1] = m.vs[n - 1]
<1> DEFINE x == gv(m, rc)  e == m.vs[n]  d == m.vs[n - 1]  own == e.r \in Range(rc)
<1>1. n \in Nat /\ Top(m) = e /\ Range(rc) \subseteq Reg /\ 1 \in 0 .. n /\ 0 \in 0 .. n
      /\ n - 1 \in 1 .. n /\ n - 1 \in 1 .. n - 1 /\ n \in 1 .. n /\ n # n - 1
      /\ \A k \in 1 .. n : k = n \/ k = n - 1 \/ k < n - 1
  BY GoodIs, Classes DEF Top, Last
<1>2. \A j \in 1 .. n : j # n - 1 => m.vs[j].r # d.r
  BY <1>1, Alone
<1>3. x = IF own /\ ~ e.lval THEN m
          ELSE LoadTop(IF own THEN [m |-> save_reg_upstack(m, e.r, 1), r |-> e.r] ELSE get_reg(m, rc))
  BY <1>1 DEF gv
<1> HIDE DEF x
<1>5. CASE own /\ ~ e.lval
  BY <1>3, <1>5 DEF x
<1>6. CASE own /\ e.lval
  <2> DEFINE y == save_reg_upstack(m, e.r, 1)  got == [m |-> y, r |-> e.r]
  <2>1. e.r \in Reg /\ d.r # e.r
    BY <1>1, <1>2, <1>6 DEF own
  <2>2. Spill(m, y) /\ (Live => \A k \in 1 .. n - 1 : y.vs[k].r # e.r) /\ y.vs[n - 1] = d
    BY <1>1, <2>1, SavesUpstack
  <2>3. got.m = y /\ got.r = e.r /\ x = LoadTop(got)
    BY <1>3, <1>6
  <2> HIDE DEF y, got, own
  <2>4. x.vs[n - 1] = got.m.vs[n - 1]
    <3>1. Unheld(got.m, got.r, Len(m.vs) - 1) /\ Spill(m, got.m) /\ got.r \in Reg
      BY <2>1, <2>2, <2>3 DEF Unheld
    <3> DEFINE z == LoadTop(got)
    <3>2. Len(m.vs) >= 1
      BY <1>1
    <3>3. \A k \in 1 .. Len(m.vs) - 1 : z.vs[k] = got.m.vs[k]
      BY <3>1, <3>2, LoadsTop
    <3> HIDE DEF z
    <3>4. z.vs[n - 1] = got.m.vs[n - 1]
      BY <1>1, <3>3
    <3> QED
      BY <2>3, <3>4 DEF z
  <2> QED
    BY <2>2, <2>3, <2>4 DEF x
<1>7. CASE ~ own
  <2> DEFINE got == get_reg(m, rc)
  <2>1. Spill(m, got.m) /\ got.r \in Reg /\ (Live => \A k \in 1 .. n : got.m.vs[k].r # got.r)
    BY <1>1, GetsReg
  <2>2. got.m.vs[n - 1] = d
    <3>1. CASE got.m = m
      BY <3>1
    <3>2. ASSUME NEW k \in 1 .. Len(m.vs), got.m = save_reg_upstack(m, m.vs[k].r, 0),
                 m.vs[k].r \in Range(rc), \A j \in 1 .. Len(m.vs) : m.vs[j].r \in Range(rc) => k <= j,
                 \A i \in DOMAIN rc : \E j \in 1 .. Len(m.vs) : m.vs[j].r = rc[i]
          PROVE  got.m.vs[n - 1] = d
      <4>1. k # n - 1
        <5> SUFFICES ASSUME k = n - 1 PROVE FALSE
          OBVIOUS
        <5>1. rc = RC_INT
          BY <3>2
        <5>2. Range(rc) = Reg /\ 1 \in DOMAIN rc /\ 2 \in DOMAIN rc /\ 3 \in DOMAIN rc
              /\ rc[1] = "rax" /\ rc[2] = "rcx" /\ rc[3] = "rdx"
          BY <5>1 DEF RC_INT, Range, Reg
        <5>3. \A j \in 1 .. n : m.vs[j].r \in Reg => j = n \/ j = n - 1
          BY <1>1, <3>2, <5>2
        <5>4. \A r \in Reg : \E j \in 1 .. n : m.vs[j].r = r
          BY <3>2, <5>2 DEF Reg
        <5>5. \A r \in Reg : r = m.vs[n].r \/ r = m.vs[n - 1].r
          BY <5>3, <5>4
        <5> QED
          BY <5>5 DEF Reg
      <4>2. m.vs[k].r # d.r
        BY <1>2, <4>1
      <4> QED
        BY <1>1, <3>2, <4>2, SavesUpstack
    <3> QED
      BY <3>1, <3>2, GetIs
  <2>3. x = LoadTop(got)
    BY <1>3, <1>7
  <2> HIDE DEF got, own
  <2>4. x.vs[n - 1] = got.m.vs[n - 1]
    <3>1. Unheld(got.m, got.r, Len(m.vs) - 1) /\ Spill(m, got.m) /\ got.r \in Reg
      <4>1. \A k \in 1 .. n - 1 : k \in 1 .. n
        BY <1>1
      <4> QED
        BY <2>1, <4>1 DEF Unheld
    <3> DEFINE z == LoadTop(got)
    <3>2. Len(m.vs) >= 1
      BY <1>1
    <3>3. \A k \in 1 .. Len(m.vs) - 1 : z.vs[k] = got.m.vs[k]
      BY <3>1, <3>2, LoadsTop
    <3> HIDE DEF z
    <3>4. z.vs[n - 1] = got.m.vs[n - 1]
      BY <1>1, <3>3
    <3> QED
      BY <2>3, <3>4 DEF z
  <2> QED
    BY <2>2, <2>4 DEF x
<1> QED
  BY <1>5, <1>6, <1>7

\* vcheck_cmp() keeps types, and everything when the flags are not on top.
LEMMA CheckKinds ==
  ASSUME NEW m, Good(m), NEW n, Len(m.vs) = n
  PROVE  LET x == vcheck_cmp(m) IN
         /\ Good(x) /\ Len(x.vs) = n /\ \A k \in 1 .. n : x.vs[k].t = m.vs[k].t
         /\ n >= 1 /\ m.vs[n].r # "cmp" => x = m
<1> DEFINE x == vcheck_cmp(m)
<1>1. n \in Nat /\ \A k \in 1 .. n : k = n \/ k \in 1 .. n - 1
  BY GoodIs
<1>2. /\ Good(x) /\ Len(x.vs) = n
      /\ \/ x = m
         \/ Live /\ n >= 1 /\ m.vs[n].r = "cmp" /\ Stay(m, x, n - 1) /\ x.vs[n].t = m.vs[n].t
  BY ChecksCmp
<1> HIDE DEF x
<1>3. \A k \in 1 .. n : x.vs[k].t = m.vs[k].t
  BY <1>1, <1>2 DEF Stay, Evicted
<1> QED
  BY <1>2, <1>3 DEF x

\* vswap() exchanges types, and the entries unless one was in the flags.
LEMMA SwapKinds ==
  ASSUME NEW m, Good(m), NEW n, Len(m.vs) = n, n >= 2
  PROVE  LET y == vswap(m) IN
         /\ Good(y) /\ Len(y.vs) = n
         /\ y.vs[n].t = m.vs[n - 1].t /\ y.vs[n - 1].t = m.vs[n].t
         /\ m.vs[n].r # "cmp" => y.vs[n] = m.vs[n - 1] /\ y.vs[n - 1] = m.vs[n]
<1> DEFINE y == vswap(m)  c == vcheck_cmp(m)
<1>1. n \in Nat /\ n \in 1 .. n /\ n - 1 \in 1 .. n /\ 0 + 2 <= n /\ n >= 1
  BY GoodIs
<1>2. /\ Good(c) /\ Len(c.vs) = n /\ \A k \in 1 .. n : c.vs[k].t = m.vs[k].t
      /\ m.vs[n].r # "cmp" => c = m
  BY <1>1, CheckKinds
<1>3. Good(y) /\ Len(y.vs) = n
  BY <1>1, SwapOnto, OntoGood
<1>4. Rec(c) /\ c.vs \in Seq(Entries)
  BY <1>2, GoodIs
<1>5. y.vs = Swapped(c.vs)
  BY <1>4, SwapFrame DEF With
<1> HIDE DEF y, c
<1>6. y.vs[n] = c.vs[n - 1] /\ y.vs[n - 1] = c.vs[n]
  BY <1>2, <1>4, <1>5, SwappedIs
<1> QED
  BY <1>1, <1>2, <1>3, <1>6 DEF y

\* gv2() leaves both operands in registers.
Ends(m, n) == Resident(m.vs[n - 1]) /\ Resident(m.vs[n]) /\ m.vs[n - 1].t = "int"
Compatible(r1, r2) ==
  r1 \in Class /\ r2 \in Class /\ (r1 = RC_INT \/ Range(r1) \cap Range(r2) = {})

\* gv2() leaves both operands in registers, the left one in its class.
LEMMA Gv2Ends ==
  ASSUME NEW m, Good(m), Live, NEW n, Len(m.vs) = n, n >= 2, m.vs[n - 1].t = "int",
         NEW r1, NEW r2, Compatible(r1, r2)
  PROVE  Ends(gv2(m, r1, r2), n) /\ gv2(m, r1, r2).vs[n - 1].r \in Range(r1)
<1> DEFINE x == gv2(m, r1, r2)
<1>0. r1 \in Class /\ r2 \in Class /\ (r1 = RC_INT \/ Range(r1) \cap Range(r2) = {})
      /\ n \in Nat /\ n >= 1 /\ n - 1 \in 1 .. n /\ n \in 1 .. n /\ n - 1 \in 1 .. n - 1
  BY GoodIs DEF Compatible
<1>1. \A e : Resident(e) => e.r \in Reg /\ e.r # "cmp"
  BY DEF Resident, Reg
<1>2. Top(m) = m.vs[n] /\ \A y : Len(y.vs) = n => Top(y) = y.vs[n] /\ Depth(y) - 1 = n - 1
  BY DEF Top, Last, Depth
<1>3. CASE m.vs[n].r # "cmp"
  <2> DEFINE a == vswap(m)  b == gv(a, r1)  c == vswap(b)  d == gv(c, r2)
             f == vswap(d)  g == gv(f, r1)  h == vswap(g)
  <2>0. x = IF d.vs[Depth(d) - 1].r \in Reg THEN d ELSE h
    BY <1>2, <1>3 DEF gv2
  <2> HIDE DEF x
  <2>1. Good(a) /\ Len(a.vs) = n /\ a.vs[n].t = "int"
    BY <1>0, SwapKinds
  <2> HIDE DEF a
  <2>2. Good(b) /\ Len(b.vs) = n /\ b.vs[n].t = "int" /\ Resident(b.vs[n]) /\ b.vs[n].r \in Range(r1)
    BY <1>0, <2>1, GvKinds
  <2> HIDE DEF b
  <2>3. Good(c) /\ Len(c.vs) = n /\ c.vs[n - 1] = b.vs[n]
    BY <1>0, <1>1, <2>2, SwapKinds
  <2> HIDE DEF c
  <2>4. /\ Good(d) /\ Len(d.vs) = n /\ Resident(d.vs[n]) /\ d.vs[n].r \in Range(r2)
        /\ d.vs[n - 1].t = "int"
        /\ d.vs[n - 1] = c.vs[n - 1] \/ Evicted(c.vs[n - 1], d.vs[n - 1])
    BY <1>0, <2>2, <2>3, GvKinds
  <2> HIDE DEF d
  <2>5. d.vs[n - 1].r \in Reg => Ends(d, n) /\ d.vs[n - 1].r \in Range(r1)
    BY <2>2, <2>3, <2>4 DEF Evicted, Reg, Ends
  <2>6. Good(f) /\ Len(f.vs) = n /\ f.vs[n] = d.vs[n - 1] /\ f.vs[n - 1] = d.vs[n]
    BY <1>0, <1>1, <2>4, SwapKinds
  <2> HIDE DEF f
  <2>7. /\ Good(g) /\ Len(g.vs) = n /\ Resident(g.vs[n]) /\ g.vs[n].t = "int" /\ g.vs[n].r \in Range(r1)
        /\ g.vs[n - 1] = f.vs[n - 1]
    <3>1. r1 = RC_INT \/ f.vs[n - 1].r \notin Range(r1)
      BY <1>0, <2>4, <2>6
    <3>2. Resident(f.vs[n - 1])
      BY <2>4, <2>6
    <3>3. g.vs[n - 1] = f.vs[n - 1]
      BY <1>0, <2>6, <3>1, <3>2, GvSpares
    <3>4. /\ Good(g) /\ Len(g.vs) = n /\ Resident(g.vs[n]) /\ g.vs[n].t = f.vs[n].t
          /\ g.vs[n].r \in Range(r1)
      BY <1>0, <2>6, GvKinds
    <3> QED
      BY <2>4, <2>6, <3>3, <3>4
  <2> HIDE DEF g
  <2>8. h.vs[n] = g.vs[n - 1] /\ h.vs[n - 1] = g.vs[n]
    BY <1>0, <1>1, <2>7, SwapKinds
  <2> HIDE DEF h
  <2>9. Ends(h, n) /\ h.vs[n - 1].r \in Range(r1)
    BY <2>4, <2>6, <2>7, <2>8 DEF Ends
  <2> QED
    BY <1>2, <2>0, <2>4, <2>5, <2>9 DEF x
<1>4. CASE m.vs[n].r = "cmp"
  <2> DEFINE a == gv(m, r2)  b == vswap(a)  c == gv(b, r1)  d == vswap(c)
  <2>0. x = IF Top(d).r \in Reg THEN d ELSE gv(d, r2)
    BY <1>2, <1>4 DEF gv2
  <2> HIDE DEF x
  <2>1. /\ Good(a) /\ Len(a.vs) = n /\ Resident(a.vs[n]) /\ a.vs[n].r \in Range(r2)
        /\ a.vs[n - 1].t = "int"
    BY <1>0, GvKinds
  <2> HIDE DEF a
  <2>2. Good(b) /\ Len(b.vs) = n /\ b.vs[n].t = "int" /\ b.vs[n - 1] = a.vs[n]
    BY <1>0, <1>1, <2>1, SwapKinds
  <2> HIDE DEF b
  <2>3. /\ Good(c) /\ Len(c.vs) = n /\ Resident(c.vs[n]) /\ c.vs[n].t = "int"
        /\ c.vs[n].r \in Range(r1) /\ c.vs[n - 1] = b.vs[n - 1]
    <3>1. r1 = RC_INT \/ b.vs[n - 1].r \notin Range(r1)
      BY <1>0, <2>1, <2>2
    <3>2. Resident(b.vs[n - 1])
      BY <2>1, <2>2
    <3>3. c.vs[n - 1] = b.vs[n - 1]
      BY <1>0, <2>2, <3>1, <3>2, GvSpares
    <3>4. /\ Good(c) /\ Len(c.vs) = n /\ Resident(c.vs[n]) /\ c.vs[n].t = b.vs[n].t
          /\ c.vs[n].r \in Range(r1)
      BY <1>0, <2>2, GvKinds
    <3> QED
      BY <2>2, <3>3, <3>4
  <2> HIDE DEF c
  <2>4. Len(d.vs) = n /\ d.vs[n] = c.vs[n - 1] /\ d.vs[n - 1] = c.vs[n]
    BY <1>0, <1>1, <2>3, SwapKinds
  <2> HIDE DEF d
  <2>5. Ends(d, n) /\ d.vs[n - 1].r \in Range(r1)
    BY <2>1, <2>2, <2>3, <2>4 DEF Ends
  <2> QED
    BY <1>2, <2>0, <2>4, <2>5 DEF Ends, Resident, x
<1> QED
  BY <1>3, <1>4

\* gv2() keeps every execution right.
LEMMA FineGv2 ==
  ASSUME NEW m, NEW n, NEW a, Fine(m, n, a), n >= 2, NEW r1 \in Class, NEW r2 \in Class
  PROVE  Fine(gv2(m, r1, r2), n, a)
<1> DEFINE u == gv(vswap(gv(vswap(m), r1)), r2)
           v == vswap(gv(vswap(u), r1))
           d == vswap(gv(vswap(gv(m, r2)), r1))
           e == gv(d, r2)
<1>1. n \in Nat /\ n >= 1
  BY FineIs
<1>2. gv2(m, r1, r2) \in {u, v, d, e}
  BY DEF gv2
<1>3. Fine(u, n, a)
  BY <1>1, FineSwap, FineGv
<1>4. Fine(d, n, a)
  BY <1>1, FineSwap, FineGv
<1> HIDE DEF u, d
<1>5. Fine(v, n, a)
  BY <1>1, <1>3, FineSwap, FineGv
<1>6. Fine(e, n, a)
  BY <1>1, <1>4, FineGv
<1> HIDE DEF v, e
<1> QED
  BY <1>2, <1>3, <1>4, <1>5, <1>6

(* gv_dup()                                                                *)

\* A value in a register is what the register holds.
LEMMA PlaceReg ==
  ASSUME NEW w, NEW e, Resident(e)
  PROVE  Place(w, e) = Val(w.reg[e.r])
  BY DEF Place, Resident, Reg

\* A value in a register is copied to another that nothing is in.
LEMMA LoadDupRight ==
  ASSUME NEW s \in Seq(Entries), NEW n, n = Len(s), n >= 1, Resident(s[n]), NEW r \in Reg,
         \A k \in 1 .. n : s[k].r # r /\ s[k].r # "cmp",
         NEW a, NEW w, Right(w, s, n, a)
  PROVE  LET w1 == [w EXCEPT !.means = Append(w.means, Last(w.means))] IN
         Right(Loaded(w1, r, s[n]), Append(s, InsteadIn(s[n], r)), n + 1, a)
<1> DEFINE M == Append(w.means, Last(w.means))
           w1 == [w EXCEPT !.means = M]
           e == s[n]
           z == InsteadIn(e, r)
           v == Loaded(w1, r, e)
           t == Append(s, z)
<1>1. /\ World(w) /\ w.wrong = FALSE /\ w.aside = a
      /\ w.means \in Seq(Meanings) /\ Len(w.means) = n
      /\ \A k \in 1 .. n : Leads(w, s[k], w.means[k])
  BY DEF Right
<1>2. n \in Nat /\ n \in 1 .. n /\ e \in Entries /\ \A k \in 1 .. n : s[k] \in Entries
  OBVIOUS
<1>3. /\ M \in Seq(Meanings) /\ Len(M) = n + 1 /\ M[n + 1] = w.means[n]
      /\ \A k \in 1 .. n : M[k] = w.means[k]
  BY <1>1, <1>2 DEF Last
<1> HIDE DEF M
<1>4. Remeant(w, w1, M)
  BY <1>1, MeansIt
<1> HIDE DEF w1
<1>5. z \in Entries /\ z.r = r /\ z.lval = e.lval /\ z.t = e.t
  BY <1>2, Replacing
<1>6. /\ Runs(w1, v) /\ v.frame = w1.frame
      /\ v.reg[r] = Deref(Place(w1, e)) /\ Others(w1, v, r)
      /\ (e.r = "const" /\ ~ e.lval) \/ v.flags = w1.flags
  <2>1. World(w1) /\ v = Loaded(w1, r, e)
    BY <1>4 DEF Remeant
  <2> HIDE DEF e, v
  <2> QED
    BY <2>1, LoadedIs
<1>7. t \in Seq(Entries) /\ Len(t) = n + 1 /\ t[n + 1] = z /\ \A k \in 1 .. n : t[k] = s[k]
  <2> HIDE DEF z
  <2> QED
    BY <1>2, <1>5
<1> HIDE DEF v, z, t
<1>8. /\ v.frame = w.frame /\ v.flags = w.flags /\ v.means = M
      /\ \A q \in Reg : q # r => v.reg[q] = w.reg[q]
  BY <1>4, <1>6 DEF Remeant, Runs, Others, Resident, Reg
<1>9. ASSUME NEW k \in 1 .. n + 1 PROVE Leads(v, t[k], v.means[k])
  <2>1. CASE k = n + 1
    <3>1. Leads(w, e, w.means[n])
      BY <1>1, <1>2
    <3>2. Place(w, e) = Val(w.reg[e.r]) /\ Place(w1, e) = Val(w1.reg[e.r]) /\ w1.reg = w.reg
      BY <1>4, PlaceReg DEF Remeant
    <3>3. v.reg[r] = w.reg[e.r]
      BY <1>6, <3>2, Values
    <3>4. Place(v, z) = Val(v.reg[r])
      <4>1. Resident(z)
        BY <1>5 DEF Resident
      <4> QED
        BY <1>5, <4>1, PlaceReg
    <3> QED
      BY <1>3, <1>5, <1>7, <1>8, <2>1, <3>1, <3>2, <3>3, <3>4 DEF Leads
  <2>2. CASE k \in 1 .. n
    <3>1. Keeps(w, v, s[k])
      BY <1>8, <2>2 DEF Keeps
    <3>2. Leads(v, s[k], w.means[k])
      BY <1>1, <1>2, <2>2, <3>1, LeadsKept
    <3> QED
      BY <1>3, <1>7, <1>8, <2>2, <3>2
  <2>3. k = n + 1 \/ k \in 1 .. n
    BY <1>2
  <2> QED
    BY <2>1, <2>2, <2>3
<1>10. Right(v, t, n + 1, a)
  BY <1>1, <1>3, <1>4, <1>6, <1>7, <1>8, <1>9 DEF Right, Runs, Remeant
<1> QED
  BY <1>10 DEF v, t, z, w1, M

\* What the second half of gv_dup() makes of the stack.
Doubled(g, r) == SetTop(load(vdup(g), r, Top(vdup(g))), [Top(vdup(g)) EXCEPT !.r = r])
DoubledIn(m, r, n) ==
  {Loaded([w EXCEPT !.means = Append(w.means, Last(w.means))], r, m.vs[n]) : w \in m.worlds}
\* The stack and the worlds after it.
LEMMA DoubledIs ==
  ASSUME NEW g, Rec(g), g.vs \in Seq(Entries), NEW n, Len(g.vs) = n, n >= 1, NEW r \in Reg,
         NEW x, x = Doubled(g, r)
  PROVE  /\ x.vs = Append(g.vs, InsteadIn(g.vs[n], r))
         /\ x.worlds = DoubledIn(g, r, n)
<1> DEFINE z == InsteadIn(g.vs[n], r)
           s == Append(g.vs, z)
           p == vdup(g)  l == load(p, r, Top(p))
           d == Append(g.vs, g.vs[n])
           W == {[w EXCEPT !.means = Append(w.means, Last(w.means))] : w \in g.worlds}
           U == {Loaded(w, r, g.vs[n]) : w \in W}
<1>1. n \in Nat /\ n \in 1 .. n /\ g.vs[n] \in Entries /\ Last(g.vs) = g.vs[n]
  BY DEF Last
<1>2. z \in Entries
  BY <1>1, Replacing
<1>3. p = Became(g, d, W)
  BY <1>1 DEF vdup, Reorder, Became
<1>4. Len(d) = n + 1 /\ d[n + 1] = g.vs[n] /\ d \in Seq(Entries)
      /\ \A k \in 1 .. n : d[k] = g.vs[k]
  BY <1>1
<1>5. x = SetTop(l, [Top(p) EXCEPT !.r = r])
  BY DEF Doubled
<1> HIDE DEF p, d, W
<1>6. With(g, p, d) /\ p.vs = d /\ p.worlds = W
  BY <1>3, BecameIt
<1>7. Top(p) = g.vs[n] /\ Rec(p)
  BY <1>4, <1>6 DEF With, Top, Last
<1>8. l = Ran(p, U)
  BY <1>6, <1>7 DEF load, Run, Ran
<1>9. x = SetTop(l, z)
  BY <1>5, <1>7 DEF InsteadIn
<1> HIDE DEF l, U, z
<1>10. Rec(l) /\ l.vs = d /\ l.worlds = U
  BY <1>6, <1>7, <1>8, RanIt DEF With
<1>11. x = [l EXCEPT !.vs = [d EXCEPT ![n + 1] = z]]
  BY <1>4, <1>9, <1>10 DEF SetTop, Depth
<1>12. [d EXCEPT ![n + 1] = z] = s
  <2> DEFINE q == [d EXCEPT ![n + 1] = z]
  <2>1. \A k \in 1 .. n + 1 : k = n + 1 \/ k \in 1 .. n
    BY <1>1
  <2>2. q \in Seq(Entries) /\ DOMAIN q = 1 .. n + 1 /\ \A k \in 1 .. n + 1 : q[k] = IF k = n + 1 THEN z ELSE d[k]
    BY <1>1, <1>2, <1>4
  <2>3. s \in Seq(Entries) /\ DOMAIN s = 1 .. n + 1 /\ \A k \in 1 .. n + 1 : s[k] = IF k = n + 1 THEN z ELSE d[k]
    BY <1>1, <1>2, <1>4, <2>1
  <2> HIDE DEF q, s
  <2>4. q = [k \in 1 .. n + 1 |-> q[k]] /\ s = [k \in 1 .. n + 1 |-> s[k]]
    BY <2>2, <2>3
  <2> QED
    BY <2>2, <2>3, <2>4 DEF q
<1> HIDE DEF s
<1>13. x.vs = s /\ x.worlds = U
  <2>1. x = [l EXCEPT !.vs = s]
    BY <1>11, <1>12
  <2> QED
    BY <1>10, <2>1, VsIt, WorldsIt DEF With
<1>14. U = DoubledIn(g, r, n)
  BY DEF U, W, DoubledIn
<1> QED
  BY <1>13, <1>14 DEF s, z

\* A value on top, alone in its register, is not the oldest of three.
LEMMA GetSparesTop ==
  ASSUME NEW y, Good(y), Live, NEW n, Len(y.vs) = n, n >= 1, Resident(y.vs[n])
  PROVE  get_reg(y, RC_INT).m.vs[n] = y.vs[n]
<1> DEFINE g == get_reg(y, RC_INT).m
<1>1. n \in Nat /\ n \in 1 .. n /\ RC_INT \in Class /\ 0 \in 0 .. n
  BY GoodIs DEF Class
<1>2. CASE g = y
  BY <1>2
<1>3. ASSUME NEW k \in 1 .. n, g = save_reg_upstack(y, y.vs[k].r, 0),
             \A j \in 1 .. n : y.vs[j].r \in Range(RC_INT) => k <= j,
             \A i \in DOMAIN RC_INT : \E j \in 1 .. n : y.vs[j].r = RC_INT[i]
      PROVE  g.vs[n] = y.vs[n]
  <2>1. k # n
    <3> SUFFICES ASSUME k = n PROVE FALSE
      OBVIOUS
    <3>1. Range(RC_INT) = Reg /\ 1 \in DOMAIN RC_INT /\ 2 \in DOMAIN RC_INT
          /\ RC_INT[1] = "rax" /\ RC_INT[2] = "rcx"
      BY DEF RC_INT, Range, Reg
    <3>2. \A j \in 1 .. n : y.vs[j].r \in Reg => j = n
      BY <1>1, <1>3, <3>1
    <3> QED
      BY <1>3, <3>1, <3>2 DEF Reg
  <2>2. y.vs[k].r # y.vs[n].r
    BY <1>1, <2>1, Alone
  <2> QED
    BY <1>1, <1>3, <2>2, SavesUpstack
<1> QED
  BY <1>1, <1>2, <1>3, GetIs

\* gv_dup() gives two values of the same.
LEMMA FineGvDup ==
  ASSUME NEW m, NEW n, NEW a, Fine(m, n, a), n >= 1
  PROVE  LET x == gv_dup(m) IN
         Fine(x, n + 1, a) /\ x.vs[n].t = m.vs[n].t /\ x.vs[n + 1].t = m.vs[n].t
<1> DEFINE y == gv(m, RC_INT)  got == get_reg(y, RC_INT)  g == got.m  r == got.r  x == gv_dup(m)
<1>1. Good(m) /\ Len(m.vs) = n /\ n \in Nat /\ n \in 1 .. n /\ RC_INT \in Class /\ 0 \in 0 .. n /\ n - 1 < n
  BY FineIs DEF Class
<1>2. x = Doubled(g, r)
  BY DEF gv_dup, Doubled
<1>3. Good(x) /\ Len(x.vs) = n + 1
  BY <1>1, GvDupOnto, OntoGood
<1>4. /\ Fine(y, n, a) /\ Good(y) /\ Len(y.vs) = n /\ Resident(y.vs[n]) /\ y.vs[n].t = m.vs[n].t
      /\ Faith(y, n, a)
  BY <1>1, FineGv, FineIs, GvKinds
<1> HIDE DEF y, x
<1>5. Spill(y, g) /\ r \in Reg /\ (Live => \A k \in 1 .. n : g.vs[k].r # r)
  BY <1>1, <1>4, GetsReg
<1>6. Faith(g, n, a)
  BY <1>1, <1>4, GetFaith
<1>7. Live => g.vs[n] = y.vs[n]
  BY <1>1, <1>4, GetSparesTop
<1> HIDE DEF got, g, r
<1>8. /\ Good(g) /\ Len(g.vs) = n /\ Rec(g) /\ g.vs \in Seq(Entries)
      /\ Live => \A k \in 1 .. n - 1 : g.vs[k].r # "cmp"
      /\ \A k \in 1 .. n : g.vs[k].t = y.vs[k].t
  <2>1. Good(g) /\ Len(g.vs) = n /\ \A k \in 1 .. n : g.vs[k].t = y.vs[k].t
    BY <1>1, <1>4, <1>5 DEF Spill, Stay, Evicted
  <2> QED
    BY <2>1, GoodIs
<1>9. /\ x.vs = Append(g.vs, InsteadIn(g.vs[n], r))
      /\ x.worlds = DoubledIn(g, r, n)
  BY <1>1, <1>2, <1>5, <1>8, DoubledIs
<1>10. ASSUME NEW u \in x.worlds PROVE Right(u, x.vs, n + 1, a)
  <2>1. PICK w \in g.worlds :
          u = Loaded([w EXCEPT !.means = Append(w.means, Last(w.means))], r, g.vs[n])
    BY <1>9 DEF DoubledIn
  <2>2. Right(w, g.vs, n, a) /\ Live
    BY <1>6 DEF Faith
  <2>3. Resident(g.vs[n]) /\ \A k \in 1 .. n : g.vs[k].r # r /\ g.vs[k].r # "cmp"
    <3>1. \A k \in 1 .. n : k = n \/ k \in 1 .. n - 1
      BY <1>1
    <3>2. Resident(g.vs[n]) /\ g.vs[n].r # "cmp"
      BY <1>4, <1>7, <2>2 DEF Resident, Reg
    <3> QED
      BY <1>5, <1>8, <2>2, <3>1, <3>2
  <2> QED
    <3>1. g.vs \in Seq(Entries) /\ n = Len(g.vs) /\ n >= 1 /\ r \in Reg
      BY <1>1, <1>5, <1>8
    <3>2. Right(Loaded([w EXCEPT !.means = Append(w.means, Last(w.means))], r, g.vs[n]),
                Append(g.vs, InsteadIn(g.vs[n], r)), n + 1, a)
      BY <2>2, <2>3, <3>1, LoadDupRight
    <3> QED
      BY <1>9, <2>1, <3>2
<1>11. ~ Live => x.worlds = {}
  BY <1>6, <1>9 DEF Faith, DoubledIn
<1>12. True(x, a)
  BY <1>3, <1>10, <1>11 DEF True, Faith
<1>13. x.vs[n].t = m.vs[n].t /\ x.vs[n + 1].t = m.vs[n].t
  <2>1. g.vs[n] \in Entries
    BY <1>1, <1>8
  <2>2. InsteadIn(g.vs[n], r).t = g.vs[n].t /\ InsteadIn(g.vs[n], r) \in Entries
    BY <1>5, <2>1, Replacing
  <2>3. x.vs[n] = g.vs[n] /\ x.vs[n + 1] = InsteadIn(g.vs[n], r)
    <3> DEFINE z == InsteadIn(g.vs[n], r)
    <3>1. z \in Entries
      BY <2>2
    <3> HIDE DEF z
    <3> QED
      BY <1>1, <1>8, <1>9, <3>1 DEF z
  <2> QED
    BY <1>1, <1>4, <1>8, <2>2, <2>3
<1> QED
  BY <1>1, <1>3, <1>12, <1>13 DEF Fine, x

(* The operations: both operands are used, the result takes their place.   *)

\* Fewer executions are right as well.
LEMMA Fewer ==
  ASSUME NEW m, NEW b, NEW a, Faith(m, b, a), NEW x, x.vs = m.vs, x.worlds \subseteq m.worlds
  PROVE  Faith(x, b, a)
  BY DEF Faith

\* The operands an instruction finds are the ones it should use.
UsedOk(m, n, cc) ==
  Resident(m.vs[n - 1]) /\ (IF cc THEN IsConst(m.vs[n]) ELSE Resident(m.vs[n]))
\* Then no execution goes wrong.
LEMMA UsedFaith ==
  ASSUME NEW m, Rec(m), NEW n, Len(m.vs) = n, n \in Nat, n >= 2, NEW a, True(m, a),
         NEW cc \in BOOLEAN, Live => UsedOk(m, n, cc), NEW x, x = Used(m, cc)
  PROVE  With(m, x, m.vs) /\ x.vs = m.vs /\ x.worlds \subseteq m.worlds
<1> DEFINE p(w) == <<w.reg[m.vs[n - 1].r], IF cc THEN m.vs[n].v ELSE w.reg[m.vs[n].r]>>
           q(w) == <<Deref(w.means[n - 1]), Deref(w.means[n])>>
           W == {Uses(w, p(w), q(w)) : w \in m.worlds}
<1>1. x = Ran(m, W)
  BY DEF Used, Check, Run, Ran, Depth, Top, Last
<1> HIDE DEF W
<1>2. With(m, x, m.vs) /\ x.vs = m.vs /\ x.worlds = W
  BY <1>1, RanIt
<1>3. ASSUME NEW w \in m.worlds PROVE Uses(w, p(w), q(w)) \in m.worlds
  <2>1. Right(w, m.vs, n, a) /\ Live
    BY DEF True, Faith
  <2>2. World(w) /\ w.wrong = FALSE /\ \A k \in 1 .. n : Place(w, m.vs[k]) = w.means[k]
    BY <2>1 DEF Right, Leads
  <2>3. n - 1 \in 1 .. n /\ n \in 1 .. n
    OBVIOUS
  <2>4. Place(w, m.vs[n - 1]) = Val(w.reg[m.vs[n - 1].r])
    BY <2>1, PlaceReg DEF UsedOk
  <2>5. Place(w, m.vs[n]) = Val(IF cc THEN m.vs[n].v ELSE w.reg[m.vs[n].r])
    <3>1. CASE cc
      BY <2>1, <3>1 DEF UsedOk, IsConst, Place, Reg
    <3>2. CASE ~ cc
      BY <2>1, <3>2, PlaceReg DEF UsedOk
    <3> QED
      BY <3>1, <3>2
  <2>6. p(w) = q(w)
    BY <2>2, <2>3, <2>4, <2>5, Values
  <2> HIDE DEF p, q
  <2>7. Uses(w, p(w), q(w)) = w
    BY <2>2, <2>6, UsesRight
  <2> QED
    BY <2>7
<1> HIDE DEF p, q
<1>4. W \subseteq m.worlds
  BY <1>3 DEF W
<1> QED
  BY <1>2, <1>4

\* The top entry is to stand for v, and the rest lead where they should.
Awaiting(m, n, v, a) ==
  /\ m.vs \in Seq(Entries) /\ Len(m.vs) = n /\ n \in Nat /\ n >= 1
  /\ Faith(m, n - 1, a) /\ \A w \in m.worlds : w.means[n] = Val(v)

\* The operands gone, the entry left waits for the result.
LEMMA ReducedAwaits ==
  ASSUME NEW m, Rec(m), m.vs \in Seq(Entries), NEW n, Len(m.vs) = n, n \in Nat, n >= 2, NEW a,
         True(m, a), NEW v, Val(v) \in Meanings, NEW x, x = Reduced(m, v)
  PROVE  With(m, x, Front(m.vs)) /\ Awaiting(x, n - 1, v, a)
<1> DEFINE W == {[w EXCEPT !.means = Append(SubSeq(w.means, 1, n - 2), Val(v))] : w \in m.worlds}
           f == Front(m.vs)
<1>1. With(m, x, f)
  BY ReducedFrame
<1>2. x.worlds = W
  <2> DEFINE d == Drop(m)
  <2>1. x = [d EXCEPT !.worlds = W]
    BY DEF Reduced, Depth
  <2>2. Rec(d)
    BY DropFrame DEF With
  <2> HIDE DEF d, W
  <2> QED
    BY <2>1, <2>2, WorldsIt
<1>3. f \in Seq(Entries) /\ Len(f) = n - 1 /\ \A k \in 1 .. n - 1 : f[k] = m.vs[k]
  BY FrontOf
<1> HIDE DEF W, f
<1>4. ASSUME NEW u \in W PROVE Right(u, f, n - 2, a) /\ u.means[n - 1] = Val(v)
  <2>1. PICK w \in m.worlds : u = [w EXCEPT !.means = Append(SubSeq(w.means, 1, n - 2), Val(v))]
    BY DEF W
  <2> DEFINE N == Append(SubSeq(w.means, 1, n - 2), Val(v))
  <2>2. Right(w, m.vs, n, a)
    BY DEF True, Faith
  <2>3. /\ World(w) /\ w.wrong = FALSE /\ w.aside = a /\ w.means \in Seq(Meanings) /\ Len(w.means) = n
        /\ \A k \in 1 .. n : Leads(w, m.vs[k], w.means[k])
    BY <2>2 DEF Right
  <2>4. N \in Seq(Meanings) /\ Len(N) = n - 1 /\ N[n - 1] = Val(v) /\ \A k \in 1 .. n - 2 : N[k] = w.means[k]
    <3> DEFINE t == SubSeq(w.means, 1, n - 2)
    <3>1. t \in Seq(Meanings) /\ Len(t) = n - 2 /\ \A k \in 1 .. n - 2 : t[k] = w.means[k]
      BY <2>3, Prefix
    <3> HIDE DEF t
    <3>2. Append(t, Val(v)) \in Seq(Meanings) /\ Len(Append(t, Val(v))) = n - 1 /\ Append(t, Val(v))[n - 1] = Val(v)
          /\ \A k \in 1 .. n - 2 : Append(t, Val(v))[k] = t[k]
      BY <3>1
    <3> QED
      BY <3>1, <3>2 DEF t
  <2>5. Remeant(w, u, N)
    BY <2>1, <2>3, MeansIt
  <2> HIDE DEF N
  <2>6. ASSUME NEW k \in 1 .. n - 2 PROVE Leads(u, f[k], u.means[k])
    <3>1. k \in 1 .. n /\ k \in 1 .. n - 1 /\ m.vs[k] \in Entries
      OBVIOUS
    <3>2. Leads(u, m.vs[k], w.means[k])
      BY <2>3, <2>5, <3>1, RemeantLeads
    <3> QED
      BY <1>3, <2>4, <2>5, <3>1, <3>2 DEF Remeant
  <2> QED
    BY <1>3, <2>3, <2>4, <2>5, <2>6 DEF Right, Remeant
<1>5. ~ Live => W = {}
  BY DEF W, True, Faith
<1>6. x.vs = f
  BY <1>1 DEF With
<1>7. Faith(x, n - 2, a) /\ \A w \in x.worlds : w.means[n - 1] = Val(v)
  BY <1>2, <1>4, <1>5, <1>6 DEF Faith
<1>8. (n - 1) - 1 = n - 2 /\ n - 1 \in Nat /\ n - 1 >= 1
  OBVIOUS
<1>9. Awaiting(x, n - 1, v, a)
  BY <1>3, <1>6, <1>7, <1>8 DEF Awaiting
<1> QED
  BY <1>1, <1>9 DEF f

\* The registers or the flags change.
Machine(w, x, R, f) ==
  /\ World(x) /\ x.reg = R /\ x.flags = f /\ x.frame = w.frame /\ x.means = w.means
  /\ x.aside = w.aside /\ x.wrong = w.wrong
\* A write to the registers.
LEMMA RegsIt ==
  ASSUME NEW w, World(w), NEW R, Regs(R), NEW x, x = [w EXCEPT !.reg = R]
  PROVE  Machine(w, x, R, w.flags)
<1>1. x = Made(R, w.flags, w.frame, w.means, w.aside, w.wrong)
  BY Replaced
<1> QED
  BY <1>1, Making DEF Machine

\* A write to the flags.
LEMMA FlagsIt ==
  ASSUME NEW w, World(w), NEW f, NEW x, x = [w EXCEPT !.flags = f]
  PROVE  Machine(w, x, w.reg, f)
<1>1. x = Made(w.reg, f, w.frame, w.means, w.aside, w.wrong) /\ Regs(w.reg)
  BY Replaced, IsMade
<1> QED
  BY <1>1, Making DEF Machine

\* What an instruction changes.
LEMMA ResultIs ==
  ASSUME NEW w, World(w), NEW op, NEW r \in Reg, NEW u, u = Result(w, op, r)
  PROVE  /\ Runs(w, u) /\ u.frame = w.frame
         /\ op = "lt" => u.reg = w.reg /\ u.flags = "new"
         /\ op = "div" => u.reg["rax"] = "new" /\ u.reg["rcx"] = w.reg["rcx"]
         /\ op \notin {"lt", "div"} => u.reg[r] = "new" /\ Others(w, u, r)
<1>1. w.reg = [q \in Reg |-> w.reg[q]] /\ Regs(w.reg)
  BY IsMade DEF World
<1>2. CASE op = "lt"
  <2>1. u = [w EXCEPT !.flags = "new"]
    BY <1>2 DEF Result
  <2>2. u = Made(w.reg, "new", w.frame, w.means, w.aside, w.wrong)
    BY <2>1, Replaced
  <2> QED
    BY <1>1, <1>2, <2>2, Making DEF Runs
<1>3. CASE op = "div"
  <2> DEFINE R1 == [w.reg EXCEPT !["rax"] = "new"]
             R2 == [R1 EXCEPT !["rdx"] = "junk"]
             x == [w EXCEPT !.reg = R1]
             y == [x EXCEPT !.reg = R2]
  <2>1. u = [y EXCEPT !.flags = "junk"]
    <3>1. x = Made(R1, w.flags, w.frame, w.means, w.aside, w.wrong)
      BY Replaced
    <3>2. x.reg = R1
      BY <3>1 DEF Made
    <3>3. u = [[[w EXCEPT !.reg = [w.reg EXCEPT !["rax"] = "new"]]
                  EXCEPT !.reg = [[w EXCEPT !.reg = [w.reg EXCEPT !["rax"] = "new"]].reg EXCEPT !["rdx"] = "junk"]]
                  EXCEPT !.flags = "junk"]
      BY <1>3 DEF Result
    <3> QED
      BY <3>2, <3>3
  <2>2. Regs(R1) /\ Regs(R2) /\ R2["rax"] = "new" /\ R2["rcx"] = w.reg["rcx"]
    BY <1>1 DEF Regs, Reg
  <2> HIDE DEF R1, R2
  <2>3. Machine(w, x, R1, w.flags)
    BY <2>2, RegsIt
  <2> HIDE DEF x
  <2>4. Machine(x, y, R2, x.flags)
    BY <2>2, <2>3, RegsIt DEF Machine
  <2> HIDE DEF y
  <2>5. Machine(y, u, y.reg, "junk")
    BY <2>1, <2>4, FlagsIt DEF Machine
  <2> QED
    BY <1>3, <2>2, <2>3, <2>4, <2>5 DEF Runs, Machine
<1>4. CASE op \notin {"lt", "div"}
  <2> DEFINE R1 == [w.reg EXCEPT ![r] = "new"]
             x == [w EXCEPT !.reg = R1]
  <2>1. u = [x EXCEPT !.flags = "junk"]
    BY <1>4 DEF Result
  <2>2. Regs(R1) /\ R1[r] = "new" /\ \A q \in Reg : q # r => R1[q] = w.reg[q]
    BY <1>1 DEF Regs
  <2> HIDE DEF R1
  <2>3. Machine(w, x, R1, w.flags)
    BY <2>2, RegsIt
  <2> HIDE DEF x
  <2>4. Machine(x, u, x.reg, "junk")
    BY <2>1, <2>3, FlagsIt DEF Machine
  <2> QED
    BY <1>4, <2>2, <2>3, <2>4 DEF Runs, Others, Machine
<1> QED
  BY <1>2, <1>3, <1>4

\* The result is where the new top entry says, and nothing else was there.
LEMMA ResultRight ==
  ASSUME NEW s \in Seq(Entries), NEW n, n = Len(s), n >= 1, NEW op \in Op, Resident(s[n]), s[n].t = "int",
         \A k \in 1 .. n - 1 : s[k].r # s[n].r /\ s[k].r # "cmp",
         op = "div" => s[n].r = "rax" /\ \A k \in 1 .. n - 1 : s[k].r # "rdx",
         NEW t \in Seq(Entries), Len(t) = n, \A k \in 1 .. n - 1 : t[k] = s[k],
         t[n] = (IF op = "lt" THEN InReg("cmp", "int") ELSE s[n]),
         NEW a, NEW w, Right(w, s, n - 1, a), w.means[n] = Val("new")
  PROVE  Right(Result(w, op, s[n].r), t, n, a)
<1> DEFINE r == s[n].r  u == Result(w, op, r)
<1>1. /\ World(w) /\ w.wrong = FALSE /\ w.aside = a /\ w.means \in Seq(Meanings) /\ Len(w.means) = n
      /\ n \in Nat /\ n \in 1 .. n /\ s[n] \in Entries /\ r \in Reg
      /\ \A k \in 1 .. n - 1 : s[k] \in Entries /\ Leads(w, s[k], w.means[k])
  BY DEF Right, Resident
<1>2. /\ Runs(w, u) /\ u.frame = w.frame
      /\ op = "lt" => u.reg = w.reg /\ u.flags = "new"
      /\ op = "div" => u.reg["rax"] = "new" /\ u.reg["rcx"] = w.reg["rcx"]
      /\ op \notin {"lt", "div"} => u.reg[r] = "new" /\ Others(w, u, r)
  <2> HIDE DEF r
  <2>1. World(w) /\ r \in Reg
    BY <1>1
  <2> DEFINE v == Result(w, op, r)
  <2> HIDE DEF v
  <2>2. /\ Runs(w, v) /\ v.frame = w.frame
        /\ op = "lt" => v.reg = w.reg /\ v.flags = "new"
        /\ op = "div" => v.reg["rax"] = "new" /\ v.reg["rcx"] = w.reg["rcx"]
        /\ op \notin {"lt", "div"} => v.reg[r] = "new" /\ Others(w, v, r)
    BY <2>1, ResultIs DEF v
  <2> QED
    BY <2>2 DEF v
<1> HIDE DEF u
<1>3. ASSUME NEW k \in 1 .. n - 1 PROVE Leads(u, t[k], u.means[k])
  <2>1. Keeps(w, u, s[k])
    <3>1. s[k].r # r /\ s[k].r # "cmp" /\ (op = "div" => s[k].r # "rdx" /\ r = "rax")
      OBVIOUS
    <3>2. s[k].r \in Reg => u.reg[s[k].r] = w.reg[s[k].r]
      <4> HIDE DEF r
      <4> QED
        BY <1>2, <3>1 DEF Others, Reg
    <3> QED
      BY <1>2, <3>1, <3>2 DEF Keeps
  <2>2. Leads(u, s[k], w.means[k])
    BY <1>1, <2>1, LeadsKept
  <2> QED
    BY <1>2, <2>2 DEF Runs
<1>4. Leads(u, t[n], Val("new"))
  <2>1. Fits("int", Val("new"))
    BY DEF Fits, IntMeanings, Ints
  <2>2. CASE op = "lt"
    <3>1. t[n] = InReg("cmp", "int")
      BY <2>2
    <3>2. t[n].r = "cmp" /\ t[n].t = "int" /\ t[n].lval = FALSE
      BY <3>1 DEF InReg, Entry
    <3>3. Place(u, t[n]) = Val("new")
      BY <1>2, <2>2, <3>2 DEF Place, Reg
    <3> QED
      BY <2>1, <3>2, <3>3 DEF Leads
  <2>3. CASE op # "lt"
    <3>1. t[n] = s[n]
      BY <2>3
    <3>2. Place(u, s[n]) = Val(u.reg[r])
      BY PlaceReg
    <3>3. u.reg[r] = "new"
      BY <1>2, <2>3
    <3> QED
      BY <2>1, <3>1, <3>2, <3>3 DEF Leads
  <2> QED
    BY <2>2, <2>3
<1>5. \A k \in 1 .. n : Leads(u, t[k], u.means[k])
  <2>1. \A k \in 1 .. n : k = n \/ k \in 1 .. n - 1
    BY <1>1
  <2>2. u.means[n] = Val("new")
    BY <1>2 DEF Runs
  <2> QED
    BY <1>3, <1>4, <2>1, <2>2
<1>6. Right(u, t, n, a)
  BY <1>1, <1>2, <1>5 DEF Right, Runs
<1> QED
  BY <1>6 DEF u, r

\* The frame of a stack whose top entry is yet to be computed.
LEMMA ExecutedTrue ==
  ASSUME NEW m, Rec(m), NEW n, NEW a, Awaiting(m, n, "new", a), NEW op \in Op,
         Live => /\ Resident(m.vs[n]) /\ m.vs[n].t = "int"
                 /\ \A k \in 1 .. n - 1 : m.vs[k].r # m.vs[n].r /\ m.vs[k].r # "cmp"
                 /\ op = "div" => m.vs[n].r = "rax" /\ \A k \in 1 .. n - 1 : m.vs[k].r # "rdx",
         NEW x, x = IF op = "lt" THEN SetTop(Executed(m, op), InReg("cmp", "int")) ELSE Executed(m, op)
  PROVE  True(x, a)
<1> DEFINE W == {Result(w, op, m.vs[n].r) : w \in m.worlds}
           y == Executed(m, op)
           e == InReg("cmp", "int")
           t == IF op = "lt" THEN [m.vs EXCEPT ![n] = e] ELSE m.vs
<1>1. /\ m.vs \in Seq(Entries) /\ Len(m.vs) = n /\ n \in Nat /\ n >= 1 /\ n \in 1 .. n
      /\ Faith(m, n - 1, a) /\ \A w \in m.worlds : w.means[n] = Val("new")
  BY DEF Awaiting
<1>2. y = Ran(m, W)
  BY <1>1 DEF Executed, Run, Ran, Top, Last
<1> HIDE DEF y, W
<1>3. Rec(y) /\ y.vs = m.vs /\ y.worlds = W
  BY <1>2, RanIt DEF With
<1>4. e \in Entries
  BY Simple
<1>5. t \in Seq(Entries) /\ Len(t) = n /\ (\A k \in 1 .. n - 1 : t[k] = m.vs[k])
      /\ t[n] = (IF op = "lt" THEN e ELSE m.vs[n])
  <2> HIDE DEF e
  <2> QED
    BY <1>1, <1>4
<1>6. x.vs = t /\ x.worlds = W
  <2>1. CASE op = "lt"
    <3>1. x = [y EXCEPT !.vs = [m.vs EXCEPT ![n] = e]]
      BY <1>1, <1>3, <2>1 DEF SetTop, Depth, y
    <3> HIDE DEF e
    <3> DEFINE q == [m.vs EXCEPT ![n] = e]
    <3>2. x = [y EXCEPT !.vs = q] /\ t = q
      BY <2>1, <3>1
    <3> HIDE DEF q, t
    <3>3. With(y, [y EXCEPT !.vs = q], q) /\ [y EXCEPT !.vs = q].worlds = y.worlds
      BY <1>3, VsIt, WorldsIt
    <3> QED
      BY <1>3, <3>2, <3>3 DEF With, t
  <2>2. CASE op # "lt"
    BY <1>3, <2>2 DEF y
  <2> QED
    BY <2>1, <2>2
<1> HIDE DEF t
<1>7. ASSUME NEW u \in W PROVE Right(u, t, n, a)
  <2>1. PICK w \in m.worlds : u = Result(w, op, m.vs[n].r)
    BY DEF W
  <2>2. Right(w, m.vs, n - 1, a) /\ Live /\ w.means[n] = Val("new")
    BY <1>1 DEF Faith
  <2> DEFINE s == m.vs
  <2>3. /\ s \in Seq(Entries) /\ n = Len(s) /\ n >= 1 /\ Resident(s[n]) /\ s[n].t = "int"
        /\ \A k \in 1 .. n - 1 : s[k].r # s[n].r /\ s[k].r # "cmp"
        /\ op = "div" => s[n].r = "rax" /\ \A k \in 1 .. n - 1 : s[k].r # "rdx"
        /\ t \in Seq(Entries) /\ Len(t) = n /\ \A k \in 1 .. n - 1 : t[k] = s[k]
        /\ t[n] = (IF op = "lt" THEN InReg("cmp", "int") ELSE s[n])
        /\ Right(w, s, n - 1, a) /\ w.means[n] = Val("new")
    BY <1>1, <1>5, <2>2
  <2> HIDE DEF s
  <2>4. Right(Result(w, op, s[n].r), t, n, a)
    BY <2>3, ResultRight
  <2> QED
    BY <2>1, <2>4 DEF s
<1>8. ~ Live => W = {}
  BY <1>1 DEF W, Faith
<1> QED
  BY <1>5, <1>6, <1>7, <1>8 DEF True, Faith

\* Saving a register changes what no entry is to stand for.
LEMMA SaveAwaits ==
  ASSUME NEW m, Good(m), NEW n, NEW v, NEW a, Awaiting(m, n, v, a), NEW r, NEW x, x = save_reg(m, r)
  PROVE  Awaiting(x, n, v, a) /\ Good(x)
<1>1. /\ m.vs \in Seq(Entries) /\ Len(m.vs) = n /\ n \in Nat /\ n >= 1 /\ 0 \in 0 .. n /\ n - 1 \in Nat
      /\ Faith(m, n - 1, a) /\ \A w \in m.worlds : w.means[n] = Val(v)
  BY DEF Awaiting
<1>2. x = save_reg_upstack(m, r, 0)
  BY DEF save_reg
<1>3. Spill(m, x) /\ (x = m \/ (r \in Reg /\ Moves(m, x, r)))
  BY <1>1, <1>2, SavesUpstack
<1>4. Good(x) /\ Len(x.vs) = n /\ x.vs \in Seq(Entries)
  <2>1. Good(x) /\ Len(x.vs) = n
    BY <1>1, <1>3 DEF Spill, Stay
  <2> QED
    BY <2>1, GoodIs
<1>5. Faith(x, n - 1, a)
  BY <1>1, <1>2, SaveFaith
<1>6. \A u \in x.worlds : u.means[n] = Val(v)
  <2>1. CASE x = m
    BY <1>1, <2>1
  <2>2. CASE Moves(m, x, r)
    <3>1. PICK l \in Nat, size \in 1 .. 2 : x.worlds = {Copied(w, r, l, size) : w \in m.worlds}
      BY <2>2 DEF Moves
    <3> SUFFICES ASSUME NEW u \in x.worlds PROVE u.means[n] = Val(v)
      OBVIOUS
    <3>2. PICK w \in m.worlds : u = Copied(w, r, l, size)
      BY <3>1
    <3>3. World(w)
      BY <1>1 DEF Faith, Right
    <3>4. u.means = w.means
      BY <3>2, <3>3, CopiedIs DEF Runs
    <3> QED
      BY <1>1, <3>4
  <2> QED
    BY <1>3, <2>1, <2>2
<1> QED
  BY <1>1, <1>4, <1>5, <1>6 DEF Awaiting

\* gen_opi() after its operands are where the instruction wants them.
LEMMA FineComputed ==
  ASSUME NEW m, NEW n, NEW a, Fine(m, n, a), n >= 2, NEW op \in Op, NEW cc \in BOOLEAN,
         Live => UsedOk(m, n, cc) /\ m.vs[n - 1].t = "int" /\ (op = "div" => m.vs[n - 1].r = "rax")
  PROVE  Fine(Computed(m, op, cc), n - 1, a)
<1> DEFINE u == Used(m, cc)  left == Reduced(u, "new")  s == save_reg(left, "rdx")
           x == Computed(m, op, cc)
<1>1. /\ Good(m) /\ Rec(m) /\ m.vs \in Seq(Entries) /\ Len(m.vs) = n /\ n \in Nat /\ True(m, a)
      /\ 0 + 2 <= n /\ n - 1 \in Nat /\ n - 1 \in 1 .. n - 1
  BY FineIs
<1>2. Onto(m, m, 0, n)
  BY <1>1, SelfOnto
<1>3. Good(x) /\ Len(x.vs) = n - 1
  BY <1>1, <1>2, ComputedOnto, OntoGood
<1>4. With(m, u, m.vs) /\ u.vs = m.vs /\ u.worlds \subseteq m.worlds
  BY <1>1, UsedFaith
<1>5. Onto(m, u, 0, n)
  BY <1>2, <1>4, ThenSame
<1>6. Onto(m, left, 0, n - 1)
  BY <1>1, <1>5, ThenReduced
<1>7. True(u, a)
  BY <1>1, <1>4, Fewer DEF True
<1> DEFINE z == IF op = "div" THEN s ELSE left
<1>8. x = IF op = "lt" THEN SetTop(Executed(z, op), InReg("cmp", "int")) ELSE Executed(z, op)
  <2>1. x = CASE op = "lt" -> SetTop(Executed(left, op), InReg("cmp", "int"))
             [] op = "div" -> Executed(s, op)
             [] OTHER -> Executed(left, op)
    BY DEF Computed
  <2> HIDE DEF x, left, s
  <2>2. CASE op = "lt"
    BY <2>1, <2>2
  <2>3. CASE op = "div"
    BY <2>1, <2>3
  <2>4. CASE op # "lt" /\ op # "div"
    BY <2>1, <2>4
  <2> QED
    BY <2>2, <2>3, <2>4
<1> HIDE DEF x
<1>9. With(u, left, Front(m.vs)) /\ Awaiting(left, n - 1, "new", a)
  <2>1. Val("new") \in Meanings
    BY DEF Meanings, IntMeanings, Ints
  <2>2. Rec(u)
    BY <1>4 DEF With
  <2> HIDE DEF u
  <2> QED
    BY <1>1, <1>4, <1>7, <2>1, <2>2, ReducedAwaits
<1> HIDE DEF u
<1>10. Good(left) /\ Len(left.vs) = n - 1
  BY <1>6, OntoGood
<1>11. \A k \in 1 .. n - 1 : left.vs[k] = m.vs[k]
  BY <1>1, <1>9, FrontOf DEF With
<1>12. Live => /\ Resident(left.vs[n - 1]) /\ left.vs[n - 1].t = "int"
               /\ \A k \in 1 .. (n - 1) - 1 : left.vs[k].r # left.vs[n - 1].r /\ left.vs[k].r # "cmp"
  <2> SUFFICES ASSUME Live
               PROVE  /\ Resident(left.vs[n - 1]) /\ left.vs[n - 1].t = "int"
                      /\ \A k \in 1 .. (n - 1) - 1 : left.vs[k].r # left.vs[n - 1].r /\ left.vs[k].r # "cmp"
    OBVIOUS
  <2>1. Resident(left.vs[n - 1]) /\ left.vs[n - 1].t = "int"
    BY <1>1, <1>11 DEF UsedOk
  <2>2. \A k \in 1 .. n - 1 : k # n - 1 => left.vs[k].r # left.vs[n - 1].r
    BY <1>1, <1>10, <2>1, Alone
  <2>3. \A k \in 1 .. (n - 1) - 1 : left.vs[k].r # "cmp"
    BY <1>10, GoodIs
  <2>4. \A k \in 1 .. (n - 1) - 1 : k \in 1 .. n - 1 /\ k # n - 1
    BY <1>1
  <2> QED
    BY <2>1, <2>2, <2>3, <2>4
<1>13. Live /\ op = "div" => left.vs[n - 1].r = "rax"
  BY <1>1, <1>11
<1> HIDE DEF left
<1>14. Good(s) /\ Awaiting(s, n - 1, "new", a)
  BY <1>9, <1>10, SaveAwaits
<1>15. Live /\ op = "div" =>
         /\ s.vs[n - 1] = left.vs[n - 1]
         /\ \A k \in 1 .. n - 1 : s.vs[k].r # "rdx" /\ (s.vs[k] = left.vs[k] \/ Evicted(left.vs[k], s.vs[k]))
  <2> SUFFICES ASSUME Live, op = "div"
               PROVE  /\ s.vs[n - 1] = left.vs[n - 1]
                      /\ \A k \in 1 .. n - 1 :
                           s.vs[k].r # "rdx" /\ (s.vs[k] = left.vs[k] \/ Evicted(left.vs[k], s.vs[k]))
    OBVIOUS
  <2>0. 0 \in 0 .. Len(left.vs) /\ Len(left.vs) - 0 = n - 1 /\ "rdx" \in Reg /\ left.vs[n - 1].r # "rdx"
    BY <1>1, <1>10, <1>13 DEF Reg
  <2> DEFINE y == save_reg_upstack(left, "rdx", 0)
  <2>1. /\ Spill(left, y)
        /\ \A k \in 1 .. Len(left.vs) - 0 : y.vs[k].r # "rdx"
        /\ \A k \in 1 .. Len(left.vs) : left.vs[k].r # "rdx" => y.vs[k] = left.vs[k]
    BY <1>10, <2>0, SavesUpstack
  <2>2. y = s
    BY DEF save_reg
  <2> HIDE DEF y, s
  <2>3. \A k \in 1 .. n - 1 : y.vs[k] = left.vs[k] \/ Evicted(left.vs[k], y.vs[k])
    BY <1>10, <2>1 DEF Spill, Stay
  <2> QED
    BY <1>1, <1>10, <2>0, <2>1, <2>2, <2>3
<1> HIDE DEF s
<1>16. Rec(z) /\ Awaiting(z, n - 1, "new", a)
  BY <1>9, <1>10, <1>14, GoodIs
<1>17. Live => /\ Resident(z.vs[n - 1]) /\ z.vs[n - 1].t = "int"
               /\ \A k \in 1 .. (n - 1) - 1 : z.vs[k].r # z.vs[n - 1].r /\ z.vs[k].r # "cmp"
               /\ op = "div" => z.vs[n - 1].r = "rax" /\ \A k \in 1 .. (n - 1) - 1 : z.vs[k].r # "rdx"
  <2> SUFFICES ASSUME Live
               PROVE  /\ Resident(z.vs[n - 1]) /\ z.vs[n - 1].t = "int"
                      /\ \A k \in 1 .. (n - 1) - 1 : z.vs[k].r # z.vs[n - 1].r /\ z.vs[k].r # "cmp"
                      /\ op = "div" => z.vs[n - 1].r = "rax" /\ \A k \in 1 .. (n - 1) - 1 : z.vs[k].r # "rdx"
    OBVIOUS
  <2>1. CASE op = "div"
    <3>1. \A k \in 1 .. (n - 1) - 1 : k \in 1 .. n - 1
      BY <1>1
    <3>2. \A k \in 1 .. (n - 1) - 1 : s.vs[k].r # s.vs[n - 1].r /\ s.vs[k].r # "cmp" /\ s.vs[k].r # "rdx"
      BY <1>12, <1>13, <1>15, <2>1, <3>1 DEF Evicted, Resident, Reg
    <3> QED
      BY <1>12, <1>13, <1>15, <2>1, <3>2
  <2>2. CASE op # "div"
    BY <1>12, <2>2
  <2> QED
    BY <2>1, <2>2
<1> HIDE DEF z
<1>18. True(x, a)
  BY <1>8, <1>16, <1>17, ExecutedTrue
<1> QED
  BY <1>1, <1>3, <1>18 DEF Fine, x

\* gen_opi()
LEMMA FineOpi ==
  ASSUME NEW m, NEW n, NEW a, Fine(m, n, a), n >= 2, m.vs[n - 1].t = "int", NEW op \in Op
  PROVE  Fine(gen_opi(m, op), n - 1, a)
<1>1. /\ Good(m) /\ Len(m.vs) = n /\ n \in Nat /\ n >= 1 /\ Top(m) = m.vs[n]
      /\ n - 1 \in 1 .. n /\ n \in 1 .. n /\ n - 1 \in 1 .. n - 1
  BY FineIs
<1>2. RC_INT \in Class /\ RC_RAX \in Class /\ RC_RCX \in Class
  BY DEF Class
<1>0. \A e : Resident(e) => e.r # "cmp"
  BY DEF Resident, Reg
<1>3. CASE IsConst(Top(m)) /\ op # "div"
  <2> DEFINE p == vswap(m)  q == gv(p, RC_INT)  x == vswap(q)
  <2>1. gen_opi(m, op) = Computed(x, op, TRUE)
    BY <1>3 DEF gen_opi
  <2>2. IsConst(m.vs[n]) /\ m.vs[n].r # "cmp"
    BY <1>1, <1>3 DEF IsConst
  <2>3. Fine(p, n, a) /\ p.vs[n] = m.vs[n - 1] /\ p.vs[n - 1] = m.vs[n]
    BY <1>1, <2>2, FineSwap, SwapKinds
  <2> HIDE DEF p
  <2>4. Good(p) /\ Len(p.vs) = n
    BY <2>3, FineIs
  <2>5. Fine(q, n, a)
    BY <1>1, <1>2, <2>3, FineGv
  <2>6. /\ Resident(q.vs[n]) /\ q.vs[n].t = "int" /\ Good(q) /\ Len(q.vs) = n
        /\ q.vs[n - 1] = p.vs[n - 1] \/ Evicted(p.vs[n - 1], q.vs[n - 1])
    BY <1>1, <1>2, <2>3, <2>4, GvKinds
  <2> HIDE DEF q
  <2>7. q.vs[n - 1] = m.vs[n]
    BY <2>2, <2>3, <2>6 DEF Evicted, IsConst, Reg
  <2>8. Fine(x, n, a) /\ x.vs[n] = q.vs[n - 1] /\ x.vs[n - 1] = q.vs[n]
    BY <1>0, <1>1, <2>5, <2>6, FineSwap, SwapKinds
  <2> HIDE DEF x
  <2>9. UsedOk(x, n, TRUE) /\ x.vs[n - 1].t = "int"
    BY <2>2, <2>6, <2>7, <2>8 DEF UsedOk
  <2>10. Fine(Computed(x, op, TRUE), n - 1, a)
    BY <1>3, <2>8, <2>9, FineComputed
  <2> QED
    BY <2>1, <2>10
<1>4. CASE ~ (IsConst(Top(m)) /\ op # "div")
  <2> DEFINE r1 == IF op = "div" THEN RC_RAX ELSE RC_INT
             r2 == IF op \in {"shl", "div"} THEN RC_RCX ELSE RC_INT
             x == gv2(m, r1, r2)
  <2>1. gen_opi(m, op) = Computed(x, op, FALSE)
    BY <1>4 DEF gen_opi
  <2>2. r1 \in Class /\ r2 \in Class
    BY <1>2
  <2>3. Compatible(r1, r2) /\ (op = "div" => Range(r1) = {"rax"})
    <3>1. Range(RC_RAX) = {"rax"} /\ Range(RC_RCX) = {"rcx"}
      BY DEF Range, RC_RAX, RC_RCX
    <3> QED
      BY <2>2, <3>1 DEF Compatible
  <2> HIDE DEF r1, r2
  <2>4. Fine(x, n, a)
    BY <2>2, FineGv2
  <2>5. Live => Ends(x, n) /\ x.vs[n - 1].r \in Range(r1)
    BY <1>1, <2>3, Gv2Ends
  <2> HIDE DEF x
  <2>6. Live => UsedOk(x, n, FALSE) /\ x.vs[n - 1].t = "int" /\ (op = "div" => x.vs[n - 1].r = "rax")
    BY <2>3, <2>5 DEF Ends, UsedOk
  <2>7. Fine(Computed(x, op, FALSE), n - 1, a)
    BY <2>4, <2>6, FineComputed
  <2> QED
    BY <2>1, <2>7
<1> QED
  BY <1>3, <1>4

\* A folded constant.
LEMMA FineFold ==
  ASSUME NEW m, NEW n, NEW a, Fine(m, n, a), n >= 2, IsConst(m.vs[n - 1]), m.vs[n - 1].t = "int",
         NEW x, x = SetTop(Reduced(m, "3"), Folded(m.vs[n - 1]))
  PROVE  Fine(x, n - 1, a)
<1> DEFINE y == Reduced(m, "3")  e == Folded(m.vs[n - 1])  t == [y.vs EXCEPT ![n - 1] = e]
<1>1. /\ Good(m) /\ Rec(m) /\ m.vs \in Seq(Entries) /\ Len(m.vs) = n /\ n \in Nat /\ True(m, a)
      /\ n - 1 \in 1 .. n /\ n - 1 \in Nat /\ n - 1 \in 1 .. n - 1 /\ 0 < n - 1 /\ 0 < n /\ m.vs[n - 1] \in Entries
  BY FineIs
<1>2. /\ e \in Entries /\ e.r = "const" /\ e.lval = FALSE /\ e.v = "3" /\ e.t = "int"
      /\ ~ InSlot(e) /\ e.r \notin Reg
  <2>1. e \in Entries /\ e.r = "const"
    BY <1>1, Constants DEF IsConst
  <2>2. e.lval = FALSE /\ e.v = "3" /\ e.t = "int"
    BY <1>1 DEF Folded, IsConst, Entries, Descriptor
  <2> QED
    BY <2>1, <2>2 DEF InSlot, Reg
<1> HIDE DEF e
<1>3. With(m, y, Front(m.vs)) /\ Awaiting(y, n - 1, "3", a)
  <2>1. Val("3") \in Meanings
    BY DEF Meanings, IntMeanings, Ints
  <2> QED
    BY <1>1, <2>1, ReducedAwaits
<1>4. Onto(m, y, 0, n - 1)
  BY <1>1, SelfOnto, ThenReduced
<1>5. Good(y) /\ Len(y.vs) = n - 1 /\ Rec(y) /\ y.vs \in Seq(Entries)
  <2>1. Good(y) /\ Len(y.vs) = n - 1
    BY <1>4, OntoGood
  <2> HIDE DEF y
  <2> QED
    BY <2>1, GoodIs
<1>6. x = SetTop(y, e)
  BY DEF e
<1> HIDE DEF y
<1>7. Good(x) /\ Len(x.vs) = n - 1
  <2>1. Onto(m, x, 0, n - 1)
    BY <1>1, <1>2, <1>4, <1>6, ThenSetTop
  <2> QED
    BY <2>1, OntoGood
<1>8. x.vs = t /\ x.worlds = y.worlds
  <2>1. x = [y EXCEPT !.vs = t]
    BY <1>5, <1>6 DEF SetTop, Depth
  <2> HIDE DEF t
  <2>2. With(y, [y EXCEPT !.vs = t], t) /\ [y EXCEPT !.vs = t].worlds = y.worlds
    BY <1>5, VsIt, WorldsIt
  <2> QED
    BY <2>1, <2>2 DEF With
<1>9. t \in Seq(Entries) /\ Len(t) = n - 1 /\ t[n - 1] = e
      /\ \A k \in 1 .. (n - 1) - 1 : t[k] = y.vs[k]
  BY <1>1, <1>2, <1>5
<1> HIDE DEF t
<1>10. ASSUME NEW w \in y.worlds PROVE Right(w, t, n - 1, a)
  <2>1. Right(w, y.vs, (n - 1) - 1, a) /\ w.means[n - 1] = Val("3")
    BY <1>3 DEF Awaiting, Faith
  <2>2. Leads(w, e, Val("3"))
    <3>1. Place(w, e) = Val("3")
      BY <1>2 DEF Place, Reg
    <3> QED
      BY <1>2, <3>1 DEF Leads, Fits, IntMeanings, Ints
  <2>3. \A k \in 1 .. n - 1 : k = n - 1 \/ k \in 1 .. (n - 1) - 1
    BY <1>1
  <2>4. \A k \in 1 .. n - 1 : Leads(w, t[k], w.means[k])
    BY <1>9, <2>1, <2>2, <2>3 DEF Right
  <2> QED
    BY <1>5, <1>9, <2>1, <2>4 DEF Right
<1>11. ~ Live => y.worlds = {}
  BY <1>3 DEF Awaiting, Faith
<1>12. True(x, a)
  BY <1>7, <1>8, <1>10, <1>11 DEF True, Faith
<1> QED
  BY <1>1, <1>7, <1>12 DEF Fine

\* gen_opic()
LEMMA FineOpic ==
  ASSUME NEW m, NEW n, NEW a, Fine(m, n, a), n >= 2, m.vs[n - 1].t = "int", NEW op \in Op
  PROVE  Fine(gen_opic(m, op), n - 1, a)
<1> DEFINE e == m.vs[n - 1]
           fold == SetTop(Reduced(m, "3"), [e EXCEPT !.v = "3"])
<1>1. n \in Nat /\ n >= 1 /\ Depth(m) - 1 = n - 1
  BY FineIs
<1>2. \/ gen_opic(m, op) = fold /\ IsConst(e)
      \/ gen_opic(m, op) = Drop(m)
      \/ gen_opic(m, op) = gen_opi(m, op)
  BY <1>1 DEF gen_opic
<1>3. fold = SetTop(Reduced(m, "3"), Folded(e))
  BY DEF Folded
<1> HIDE DEF fold
<1>4. IsConst(e) => Fine(fold, n - 1, a)
  BY <1>3, FineFold
<1>5. Fine(Drop(m), n - 1, a)
  BY <1>1, FineDrop
<1>6. Fine(gen_opi(m, op), n - 1, a)
  BY FineOpi
<1> QED
  BY <1>2, <1>4, <1>5, <1>6

\* gen_op()
LEMMA FineOp ==
  ASSUME NEW m, NEW n, NEW a, Fine(m, n, a), n >= 2, m.vs[n - 1].t = "int", NEW op \in Op
  PROVE  Fine(gen_op(m, op), n - 1, a)
<1> DEFINE p == vswap(m)  q == vswap(p)  x == gen_opic(q, op)
<1>1. Good(m) /\ Len(m.vs) = n /\ n \in Nat /\ n - 1 >= 1 /\ RC_INT \in Class
  BY FineIs DEF Class
<1>2. gen_op(m, op) = IF Top(x).lval THEN gv(x, RC_INT) ELSE x
  BY DEF gen_op
<1>3. Fine(p, n, a) /\ p.vs[n].t = "int"
  BY <1>1, FineSwap, SwapKinds
<1> HIDE DEF p
<1>4. Fine(q, n, a) /\ q.vs[n - 1].t = "int"
  BY <1>1, <1>3, FineIs, FineSwap, SwapKinds
<1> HIDE DEF q
<1>5. Fine(x, n - 1, a)
  BY <1>4, FineOpic
<1> HIDE DEF x
<1>6. Fine(gv(x, RC_INT), n - 1, a)
  BY <1>1, <1>5, FineGv
<1> QED
  BY <1>2, <1>5, <1>6

(* indir() and vstore()                                                    *)

\* Values, memory and variables are told apart, and by their names.
LEMMA Named ==
  /\ \A v : Val(v) \in PtrMeanings => v \in Pointers
  /\ \A v, a : Val(v) # Mem(a) /\ Val(v) # Var(a) /\ Mem(v) # Var(a)
  /\ \A v, x : Val(v) = Val(x) => v = x
  /\ \A v, x : Mem(v) = Mem(x) => v = x
<1>1. \A v, x : Val(v) = Val(x) => v = x
  BY DEF Val
<1>2. \A v, a : Val(v) # Mem(a) /\ Val(v) # Var(a) /\ Mem(v) # Var(a)
  <2> SUFFICES ASSUME NEW v, NEW a PROVE Val(v) # Mem(a) /\ Val(v) # Var(a) /\ Mem(v) # Var(a)
    OBVIOUS
  <2>1. Val(v)[1] = "val" /\ Mem(v)[1] = "mem" /\ Mem(a)[1] = "mem" /\ Var(a)[1] = "var"
    BY DEF Val, Mem, Var
  <2> QED
    BY <2>1
<1>3. \A v, x : Mem(v) = Mem(x) => v = x
  BY DEF Mem
<1> QED
  BY <1>1, <1>2, <1>3 DEF PtrMeanings

\* An address is a value; the object has it in the same place.
LEMMA ObjectLeads ==
  ASSUME NEW e \in Entries, e.t = "ptr", e.lval = FALSE, NEW w, NEW x, Leads(w, e, x)
  PROVE  Leads(w, AsObject(e), Mem(x[2])) /\ Mem(x[2]) \in Meanings
<1> DEFINE o == AsObject(e)
<1>1. e \in Descriptor /\ Proper(e)
  BY DEF Entries
<1>2. e.r \in Reg \/ e.r = "const"
  BY <1>1 DEF Proper, Descriptor, Kinds
<1>3. o.r = e.r /\ o.lval = TRUE /\ o.v = e.v /\ o.t = "int"
  BY <1>1 DEF AsObject, Descriptor
<1> HIDE DEF o
<1> DEFINE v == IF e.r \in Reg THEN w.reg[e.r] ELSE e.v
<1>4. Place(w, e) = Val(v) /\ Place(w, o) = Mem(v)
  <2>1. CASE e.r \in Reg
    BY <1>3, <2>1 DEF Place, Reg
  <2>2. CASE e.r = "const"
    BY <1>3, <2>2 DEF Place, Reg
  <2> QED
    BY <1>2, <2>1, <2>2
<1> HIDE DEF v
<1>5. x = Val(v) /\ x \in PtrMeanings
  BY <1>4 DEF Leads, Fits
<1>6. v \in Pointers /\ x[2] = v
  BY <1>5, Named DEF Val
<1>7. Mem(v) \in IntMeanings
  BY <1>6 DEF IntMeanings
<1> QED
  BY <1>3, <1>4, <1>6, <1>7 DEF Leads, Fits, Meanings, o

\* The object at an address, in one world.
LEMMA IndirRight ==
  ASSUME NEW s \in Seq(Entries), NEW n, n = Len(s), n >= 1, s[n].t = "ptr", s[n].lval = FALSE,
         NEW t \in Seq(Entries), Len(t) = n, t[n] = AsObject(s[n]), \A k \in 1 .. n - 1 : t[k] = s[k],
         NEW a, NEW w, Right(w, s, n, a)
  PROVE  Right(Meaning(w, n, Mem(w.means[n][2])), t, n, a)
<1> DEFINE x == Mem(w.means[n][2])  u == Meaning(w, n, x)  M == [w.means EXCEPT ![n] = x]
<1>1. /\ World(w) /\ w.wrong = FALSE /\ w.aside = a /\ w.means \in Seq(Meanings) /\ Len(w.means) = n
      /\ n \in Nat /\ n \in 1 .. n /\ s[n] \in Entries
      /\ \A k \in 1 .. n : s[k] \in Entries /\ Leads(w, s[k], w.means[k])
  BY DEF Right
<1>2. Leads(w, AsObject(s[n]), x) /\ x \in Meanings
  BY <1>1, ObjectLeads
<1>3. Remeant(w, u, M)
  BY <1>1, MeaningIt
<1> HIDE DEF x
<1>4. M \in Seq(Meanings) /\ Len(M) = n /\ M[n] = x /\ \A k \in 1 .. n : k # n => M[k] = w.means[k]
  BY <1>1, <1>2, NoteOne
<1> HIDE DEF M, u
<1>5. ASSUME NEW k \in 1 .. n PROVE Leads(u, t[k], u.means[k])
  <2>1. CASE k = n
    <3>1. t[n] \in Entries
      BY <1>1
    <3>2. Leads(u, t[n], x)
      BY <1>2, <1>3, <3>1, RemeantLeads
    <3> QED
      BY <1>3, <1>4, <2>1, <3>2 DEF Remeant
  <2>2. CASE k # n
    <3>1. k \in 1 .. n - 1
      BY <1>1, <2>2
    <3>2. Leads(u, s[k], w.means[k])
      BY <1>1, <1>3, RemeantLeads
    <3> QED
      BY <1>3, <1>4, <2>2, <3>1, <3>2 DEF Remeant
  <2> QED
    BY <2>1, <2>2
<1>6. Right(u, t, n, a)
  BY <1>1, <1>3, <1>4, <1>5 DEF Right, Remeant
<1> QED
  BY <1>6 DEF u, x

\* The second half of indir().
Object(m) ==
  Run(SetTop(m, [Top(m) EXCEPT !.lval = TRUE, !.t = "int"]),
      LAMBDA w : Meaning(w, Depth(m), Mem(w.means[Depth(m)][2])))
Objects(m, n) == {Meaning(w, n, Mem(w.means[n][2])) : w \in m.worlds}
\* The stack and the worlds after it.
LEMMA ObjectIs ==
  ASSUME NEW m, Rec(m), NEW n, Len(m.vs) = n, NEW x, x = Object(m)
  PROVE  x.vs = [m.vs EXCEPT ![n] = AsObject(m.vs[n])] /\ x.worlds = Objects(m, n)
<1> DEFINE s == [m.vs EXCEPT ![n] = AsObject(m.vs[n])]
           p == [m EXCEPT !.vs = s]
<1>1. x = Ran(p, {Meaning(w, n, Mem(w.means[n][2])) : w \in p.worlds})
  BY DEF Object, Run, Ran, SetTop, Top, Last, Depth, AsObject
<1> HIDE DEF s
<1>2. With(m, p, s) /\ p.worlds = m.worlds
  BY VsIt, WorldsIt
<1> HIDE DEF p
<1>3. x.vs = p.vs /\ x.worlds = {Meaning(w, n, Mem(w.means[n][2])) : w \in p.worlds}
  BY <1>1, <1>2, RanIt DEF With
<1> QED
  BY <1>2, <1>3 DEF With, s, Objects

\* indir() of an address gives an object that leads where it points.
LEMMA FineIndir ==
  ASSUME NEW m, NEW n, NEW a, Fine(m, n, a), n >= 1, m.vs[n].t = "ptr"
  PROVE  LET x == indir(m) IN
         /\ Fine(x, n, a) /\ x.vs[n] \in Entries /\ x.vs[n].r \notin {"cmp", "local", "llocal"}
         /\ x.vs[n].lval = TRUE /\ x.vs[n].t = "int"
<1> DEFINE c == IF Top(m).lval THEN gv(m, RC_INT) ELSE m  x == indir(m)
           e == AsObject(c.vs[n])
<1>1. /\ Good(m) /\ Len(m.vs) = n /\ n \in Nat /\ Top(m) = m.vs[n] /\ n \in 1 .. n /\ 0 < n /\ 0 <= n
      /\ RC_INT \in Class
  BY FineIs DEF Class
<1>2. x = Object(c)
  BY DEF indir, Object
<1>3. Onto(m, x, 0, n) /\ x.vs[n] \in Entries /\ x.vs[n].r \notin {"cmp", "local", "llocal"}
  BY <1>1, SelfOnto, ThenIndir
<1>4. Good(x) /\ Len(x.vs) = n
  BY <1>3, OntoGood
<1>5. Fine(c, n, a) /\ c.vs[n].lval = FALSE /\ c.vs[n].t = "ptr"
  <2>1. CASE m.vs[n].lval
    BY <1>1, <2>1, FineGv, GvKinds DEF Resident
  <2>2. CASE ~ m.vs[n].lval
    <3>1. m.vs[n] \in Entries
      BY <1>1, FineIs
    <3>2. m.vs[n].lval = FALSE
      BY <2>2, <3>1 DEF Entries, Descriptor
    <3> QED
      BY <1>1, <2>2, <3>2
  <2> QED
    BY <1>1, <2>1, <2>2
<1> HIDE DEF c, x
<1>6. Rec(c) /\ c.vs \in Seq(Entries) /\ Len(c.vs) = n /\ c.vs[n] \in Entries /\ Faith(c, n, a)
  BY <1>1, <1>5, FineIs
<1> HIDE DEF e
<1>7. x.vs = [c.vs EXCEPT ![n] = e] /\ x.worlds = Objects(c, n)
  BY <1>2, <1>6, ObjectIs DEF e
<1>8. x.vs[n] = e /\ (\A k \in 1 .. n - 1 : x.vs[k] = c.vs[k]) /\ x.vs \in Seq(Entries)
  <2>1. x.vs \in Seq(Entries)
    BY <1>4, GoodIs
  <2> QED
    BY <1>1, <1>6, <1>7, <2>1
<1>9. ASSUME NEW u \in x.worlds PROVE Right(u, x.vs, n, a)
  <2>1. PICK w \in c.worlds : u = Meaning(w, n, Mem(w.means[n][2]))
    BY <1>7 DEF Objects
  <2>2. Right(w, c.vs, n, a)
    BY <1>6 DEF Faith
  <2> DEFINE s == c.vs  t == x.vs
  <2>3. /\ s \in Seq(Entries) /\ n = Len(s) /\ n >= 1 /\ s[n].t = "ptr" /\ s[n].lval = FALSE
        /\ t \in Seq(Entries) /\ Len(t) = n /\ t[n] = AsObject(s[n]) /\ (\A k \in 1 .. n - 1 : t[k] = s[k])
        /\ Right(w, s, n, a)
    BY <1>4, <1>5, <1>6, <1>8, <2>2 DEF e
  <2> HIDE DEF s, t
  <2>4. Right(Meaning(w, n, Mem(w.means[n][2])), t, n, a)
    BY <2>3, IndirRight
  <2> QED
    BY <2>1, <2>4 DEF t
<1>10. ~ Live => x.worlds = {}
  BY <1>6, <1>7 DEF Faith, Objects
<1>11. True(x, a)
  BY <1>4, <1>9, <1>10 DEF True, Faith
<1>12. x.vs[n].lval = TRUE /\ x.vs[n].t = "int"
  BY <1>6, <1>8 DEF e, AsObject, Entries, Descriptor
<1> QED
  BY <1>1, <1>3, <1>4, <1>11, <1>12 DEF Fine, x

\* An address comes back from its slot.
LEMMA AddressRight ==
  ASSUME NEW s \in Seq(Entries), NEW n, n = Len(s), n >= 2, NEW r \in Reg, \A k \in 1 .. n : s[k].r # r,
         s[n - 1].r = "llocal", s[n - 1].c > Locals,
         NEW t \in Seq(Entries), Len(t) = n, t[n - 1] = InsteadIn(s[n - 1], r),
         \A k \in 1 .. n : k # n - 1 => t[k] = s[k],
         NEW a, NEW w, Right(w, s, n, a)
  PROVE  Right(Loaded(w, r, [s[n - 1] EXCEPT !.r = "local", !.t = "ptr"]), t, n, a)
<1> DEFINE to == s[n - 1]  e == [to EXCEPT !.r = "local", !.t = "ptr"]  u == Loaded(w, r, e)
<1>1. /\ World(w) /\ w.wrong = FALSE /\ w.aside = a /\ w.means \in Seq(Meanings) /\ Len(w.means) = n
      /\ n \in Nat /\ n - 1 \in 1 .. n /\ to \in Entries
      /\ \A k \in 1 .. n : s[k] \in Entries /\ Leads(w, s[k], w.means[k])
  BY DEF Right
<1>2. to.lval = TRUE /\ to.c \in Nat /\ to.t \in Types
  <2>1. to \in Descriptor /\ Proper(to) /\ to.r = "llocal"
    BY <1>1 DEF Entries
  <2> QED
    BY <2>1 DEF Descriptor, Proper
<1>3. e.r = "local" /\ e.c = to.c /\ e.t = "ptr"
  BY <1>1 DEF Entries, Descriptor
<1>4. Place(w, e) = Val(Slot(w, to.c, "ptr")) /\ Place(w, to) = Mem(Slot(w, to.c, "ptr"))
  <2> HIDE DEF e
  <2>1. Place(w, e) = Val(Slot(w, to.c, "ptr"))
    <3>1. ~ (e.c <= Locals)
      BY <1>2, <1>3 DEF Locals
    <3> QED
      BY <1>3, <3>1 DEF Place, Reg
  <2>2. Place(w, to) = Mem(Slot(w, to.c, "ptr"))
    BY DEF Place, Reg
  <2> QED
    BY <2>1, <2>2
<1> HIDE DEF e
<1>5. /\ Runs(w, u) /\ u.frame = w.frame
      /\ u.reg[r] = Deref(Place(w, e)) /\ Others(w, u, r) /\ u.flags = w.flags
  <2>1. (e.r = "const" /\ ~ e.lval) = FALSE
    BY <1>3
  <2> HIDE DEF u
  <2> QED
    BY <1>1, <2>1, LoadedIs DEF u
<1> HIDE DEF u
<1>6. u.reg[r] = Slot(w, to.c, "ptr")
  BY <1>4, <1>5, Values
<1>7. Leads(u, t[n - 1], w.means[n - 1])
  <2>1. t[n - 1].r = r /\ t[n - 1].lval = TRUE /\ t[n - 1].t = to.t
    BY <1>1, <1>2, Replacing
  <2>2. Place(u, t[n - 1]) = Mem(u.reg[r])
    BY <2>1 DEF Place, Reg
  <2>3. Place(w, to) = w.means[n - 1] /\ Fits(to.t, w.means[n - 1])
    BY <1>1 DEF Leads
  <2> QED
    BY <1>4, <1>6, <2>1, <2>2, <2>3 DEF Leads
<1>8. ASSUME NEW k \in 1 .. n, k # n - 1 PROVE Leads(u, t[k], w.means[k])
  <2>1. Keeps(w, u, s[k])
    BY <1>5 DEF Keeps, Others
  <2>2. Leads(u, s[k], w.means[k])
    BY <1>1, <2>1, LeadsKept
  <2> QED
    BY <1>8, <2>2
<1>9. Right(u, t, n, a)
  BY <1>1, <1>5, <1>7, <1>8 DEF Right, Runs
<1> QED
  BY <1>9 DEF u, e

AddressesIn(m, n, r) ==
  {Loaded(w, r, [m.vs[n - 1] EXCEPT !.r = "local", !.t = "ptr"]) : w \in m.worlds}
\* The stack and the worlds after it.
LEMMA AddressInIs ==
  ASSUME NEW got, Rec(got.m), NEW n, Len(got.m.vs) = n, NEW x, x = AddressIn(got)
  PROVE  /\ x.vs = [got.m.vs EXCEPT ![n - 1] = InsteadIn(got.m.vs[n - 1], got.r)]
         /\ x.worlds = AddressesIn(got.m, n, got.r)
<1> DEFINE g == got.m  r == got.r  d == [g.vs[n - 1] EXCEPT !.r = "local", !.t = "ptr"]
           l == load(g, r, d)
           t == [g.vs EXCEPT ![n - 1] = InsteadIn(g.vs[n - 1], r)]
           W == AddressesIn(g, n, r)
<1>1. l = Ran(g, W)
  BY DEF load, Run, Ran, AddressesIn
<1>2. x = [l EXCEPT !.vs[n - 1].r = r]
  BY DEF AddressIn, Depth
<1> HIDE DEF l, W
<1>3. Rec(l) /\ l.vs = g.vs /\ l.worlds = W
  BY <1>1, RanIt DEF With
<1>4. x = [l EXCEPT !.vs = t]
  BY <1>2, <1>3 DEF InsteadIn
<1> HIDE DEF t
<1>5. With(l, [l EXCEPT !.vs = t], t) /\ [l EXCEPT !.vs = t].worlds = l.worlds
  BY <1>3, VsIt, WorldsIt
<1> QED
  BY <1>3, <1>4, <1>5 DEF With, W, t

\* Slots are beyond the variables.
LEMMA SlotsAreBeyond ==
  ASSUME NEW m, Good(m), NEW k \in 1 .. Len(m.vs), m.vs[k].r = "llocal"
  PROVE  m.vs[k].c > Locals
<1> DEFINE e == m.vs[k]  T == m.temps
<1>1. /\ e \in Entries /\ T \in Seq(Temps) /\ m.loc \in Nat /\ Laid(T, m.loc) /\ DOMAIN m.vs = 1 .. Len(m.vs)
      /\ Slots(m.vs, T, m.loc)
  BY GoodIs DEF Sound
<1>2. Homed(e, T, m.loc)
  BY <1>1 DEF Slots, InSlot
<1>3. e.c >= Locals + Width(e) /\ e.c \in Nat
  BY <1>1, <1>2, HomedStill
<1>4. Width(e) = 2
  BY DEF Width
<1> QED
  BY <1>3, <1>4 DEF Locals

\* The address of vstore()'s destination comes back from its slot.
LEMMA FineAddress ==
  ASSUME NEW m, NEW n, NEW a, Fine(m, n, a), n >= 2, m.vs[n - 1].r = "llocal", Live => Resident(m.vs[n])
  PROVE  LET x == AddressIn(get_reg(m, RC_INT)) IN
         Fine(x, n, a) /\ (Live => Resident(x.vs[n]))
<1> DEFINE got == get_reg(m, RC_INT)  g == got.m  r == got.r  x == AddressIn(got)
<1>1. /\ Good(m) /\ Len(m.vs) = n /\ n \in Nat /\ 0 + 2 <= n /\ RC_INT \in Class
      /\ n \in 1 .. n /\ n - 1 \in 1 .. n /\ 0 <= n /\ Faith(m, n, a)
  BY FineIs DEF Class
<1>2. Onto(m, x, 0, n)
  BY <1>1, SelfOnto, ThenAddress
<1>3. Good(x) /\ Len(x.vs) = n /\ x.vs \in Seq(Entries)
  <2>1. Good(x) /\ Len(x.vs) = n
    BY <1>2, OntoGood
  <2> HIDE DEF x
  <2> QED
    BY <2>1, GoodIs
<1>4. Spill(m, g) /\ r \in Reg /\ (Live => \A k \in 1 .. n : g.vs[k].r # r)
  BY <1>1, GetsReg
<1>5. Faith(g, n, a)
  BY <1>1, GetFaith
<1>6. Live => g.vs[n] = m.vs[n]
  BY <1>1, GetSparesTop
<1> HIDE DEF x, got
<1>7. Good(g) /\ Rec(g) /\ Len(g.vs) = n /\ g.vs \in Seq(Entries)
      /\ g.vs[n - 1] = m.vs[n - 1]
  <2>1. Good(g) /\ Len(g.vs) = n /\ g.vs[n - 1] = m.vs[n - 1]
    BY <1>1, <1>4 DEF Spill, Stay, Evicted, Reg
  <2> QED
    BY <2>1, GoodIs
<1>8. /\ x.vs = [g.vs EXCEPT ![n - 1] = InsteadIn(g.vs[n - 1], r)]
      /\ x.worlds = AddressesIn(g, n, r)
  BY <1>7, AddressInIs DEF x
<1>9. g.vs[n - 1].c > Locals
  BY <1>1, <1>7, SlotsAreBeyond
<1> HIDE DEF g, r
<1>10. x.vs[n - 1] = InsteadIn(g.vs[n - 1], r) /\ \A k \in 1 .. n : k # n - 1 => x.vs[k] = g.vs[k]
  <2> DEFINE z == InsteadIn(g.vs[n - 1], r)
  <2> HIDE DEF z
  <2>1. x.vs = [g.vs EXCEPT ![n - 1] = z]
    BY <1>8 DEF z
  <2>2. x.vs[n - 1] = z /\ \A k \in 1 .. n : k # n - 1 => x.vs[k] = g.vs[k]
    BY <1>1, <1>7, <2>1
  <2> QED
    BY <2>2 DEF z
<1>11. ASSUME NEW u \in x.worlds PROVE Right(u, x.vs, n, a)
  <2>1. PICK w \in g.worlds : u = Loaded(w, r, [g.vs[n - 1] EXCEPT !.r = "local", !.t = "ptr"])
    BY <1>8 DEF AddressesIn
  <2>2. Right(w, g.vs, n, a) /\ Live
    BY <1>5 DEF Faith
  <2> DEFINE s == g.vs  t == x.vs
  <2>3. /\ s \in Seq(Entries) /\ n = Len(s) /\ n >= 2 /\ r \in Reg /\ \A k \in 1 .. n : s[k].r # r
        /\ s[n - 1].r = "llocal" /\ s[n - 1].c > Locals
        /\ t \in Seq(Entries) /\ Len(t) = n /\ t[n - 1] = InsteadIn(s[n - 1], r)
        /\ \A k \in 1 .. n : k # n - 1 => t[k] = s[k]
        /\ Right(w, s, n, a)
    BY <1>3, <1>4, <1>7, <1>9, <1>10, <2>2
  <2> HIDE DEF s, t
  <2>4. Right(Loaded(w, r, [s[n - 1] EXCEPT !.r = "local", !.t = "ptr"]), t, n, a)
    BY <2>3, AddressRight
  <2> QED
    BY <2>1, <2>4 DEF s, t
<1>12. ~ Live => x.worlds = {}
  BY <1>5, <1>8 DEF Faith, AddressesIn
<1>13. True(x, a)
  BY <1>3, <1>11, <1>12 DEF True, Faith
<1>14. Live => Resident(x.vs[n])
  BY <1>1, <1>6, <1>10
<1> QED
  BY <1>1, <1>3, <1>13, <1>14 DEF Fine, x, got

\* vstore() from a register to a place.
LEMMA FineStored ==
  ASSUME NEW m, NEW n, NEW a, Fine(m, n, a), n >= 2, Live => Resident(m.vs[n])
  PROVE  Fine(Stored(m), n - 1, a)
<1> DEFINE p(w) == <<Place(w, m.vs[n - 1]), w.reg[m.vs[n].r]>>
           q(w) == <<w.means[n - 1], Deref(w.means[n])>>
           W == {Uses(w, p(w), q(w)) : w \in m.worlds}
           x == StoreCheck(m)
<1>1. /\ Good(m) /\ Rec(m) /\ Len(m.vs) = n /\ n \in Nat /\ n - 1 \in 1 .. n /\ n \in 1 .. n
      /\ Top(m) = m.vs[n] /\ Depth(m) = n /\ True(m, a) /\ Faith(m, n, a) /\ n >= 1 /\ 0 <= n
  BY FineIs
<1>2. x = Ran(m, W)
  BY <1>1 DEF StoreCheck, Check, Run, Ran
<1> HIDE DEF W, x
<1>3. With(m, x, m.vs) /\ x.vs = m.vs /\ x.worlds = W
  BY <1>1, <1>2, RanIt
<1>4. ASSUME NEW w \in m.worlds PROVE Uses(w, p(w), q(w)) \in m.worlds
  <2>1. Right(w, m.vs, n, a) /\ Live
    BY <1>1 DEF Faith
  <2>2. World(w) /\ w.wrong = FALSE /\ \A k \in 1 .. n : Place(w, m.vs[k]) = w.means[k]
    BY <2>1 DEF Right, Leads
  <2>3. Place(w, m.vs[n]) = Val(w.reg[m.vs[n].r])
    BY <2>1, PlaceReg
  <2>4. p(w) = q(w)
    BY <1>1, <2>2, <2>3, Values
  <2> HIDE DEF p, q
  <2>5. Uses(w, p(w), q(w)) = w
    BY <2>2, <2>4, UsesRight
  <2> QED
    BY <2>5
<1> HIDE DEF p, q
<1>5. W \subseteq m.worlds
  BY <1>4 DEF W
<1>6. True(x, a)
  BY <1>1, <1>3, <1>5, Fewer DEF True
<1>7. Good(x) /\ Len(x.vs) = n
  <2>1. Onto(m, x, 0, n)
    BY <1>1, <1>3, SelfOnto, ThenSame
  <2> QED
    BY <2>1, OntoGood
<1>8. Fine(x, n, a)
  BY <1>1, <1>6, <1>7 DEF Fine
<1>9. Fine(Drop(vswap(x)), n - 1, a)
  BY <1>1, <1>8, FineSwap, FineDrop
<1> QED
  BY <1>9, StoredIs DEF x

\* vstore()
LEMMA FineStore ==
  ASSUME NEW m, NEW n, NEW a, Fine(m, n, a), n >= 2
  PROVE  Fine(vstore(m), n - 1, a)
<1> DEFINE c == gv(m, RC_INT)  d == AddressIn(get_reg(c, RC_INT))
<1>1. Good(m) /\ Len(m.vs) = n /\ n >= 1 /\ n \in Nat /\ RC_INT \in Class
  BY FineIs DEF Class
<1>2. Fine(c, n, a) /\ Resident(c.vs[n])
  BY <1>1, FineGv, GvKinds
<1>3. vstore(m) = Stored(IF c.vs[n - 1].r # "llocal" THEN c ELSE d)
  <2>1. Depth(c) - 1 = n - 1
    BY <1>2, FineIs
  <2> QED
    BY <2>1 DEF vstore
<1> HIDE DEF c
<1>4. CASE c.vs[n - 1].r # "llocal"
  BY <1>2, <1>3, <1>4, FineStored
<1>5. CASE c.vs[n - 1].r = "llocal"
  <2>1. Fine(d, n, a) /\ (Live => Resident(d.vs[n]))
    BY <1>2, <1>5, FineAddress
  <2> HIDE DEF d
  <2> QED
    BY <1>3, <1>5, <2>1, FineStored
<1> QED
  BY <1>4, <1>5

(* Calls: the arguments are used, everything in registers is lost.         *)

\* An instruction that uses what it should changes nothing.
LEMMA FineFewer ==
  ASSUME NEW m, NEW n, NEW a, Fine(m, n, a), NEW W, W \subseteq m.worlds, NEW x, x = Ran(m, W)
  PROVE  Fine(x, n, a) /\ x.vs = m.vs
<1>1. Good(m) /\ Rec(m) /\ Len(m.vs) = n /\ n \in Nat /\ True(m, a)
  BY FineIs
<1>2. With(m, x, m.vs) /\ x.vs = m.vs /\ x.worlds = W
  BY <1>1, RanIt
<1>3. Good(x)
  BY <1>1, <1>2 DEF Good, With
<1>4. True(x, a)
  BY <1>1, <1>2, Fewer DEF True
<1> QED
  BY <1>1, <1>2, <1>3, <1>4 DEF Fine

\* One argument loaded and passed.
LEMMA FinePassed ==
  ASSUME NEW m, NEW n, NEW a, Fine(m, n, a), n >= 1
  PROVE  Fine(PassedOn(m), n - 1, a)
<1> DEFINE g == gv(m, RC_INT)
           p(w) == w.reg[Top(g).r]
           q(w) == Deref(Last(w.means))
           W == {Uses(w, p(w), q(w)) : w \in g.worlds}
           y == Ran(g, W)
<1>0. Good(m) /\ Len(m.vs) = n /\ RC_INT \in Class
  BY FineIs DEF Class
<1>1. PassedOn(m) = Drop(y)
  BY DEF PassedOn, Passed, Check, Run, Ran
<1>2. Fine(g, n, a)
  BY <1>0, FineGv
<1>3. Resident(g.vs[n])
  BY <1>0, GvKinds
<1> HIDE DEF g, W, y
<1>4. Top(g) = g.vs[n]
  BY <1>2, FineIs
<1>5. ASSUME NEW w \in g.worlds PROVE Uses(w, p(w), q(w)) \in g.worlds
  <2>1. /\ World(w) /\ w.wrong = FALSE /\ Len(w.means) = n
        /\ \A k \in 1 .. n : Leads(w, g.vs[k], w.means[k])
    BY <1>2, Notes
  <2>2. n \in 1 .. n
    BY <1>2, FineIs
  <2>3. Last(w.means) = w.means[n]
    BY <2>1 DEF Last
  <2>4. Place(w, g.vs[n]) = w.means[n]
    BY <2>1, <2>2 DEF Leads
  <2>5. Place(w, g.vs[n]) = Val(w.reg[g.vs[n].r])
    BY <1>3, PlaceReg
  <2>6. p(w) = q(w)
    BY <1>4, <2>3, <2>4, <2>5, Values
  <2> HIDE DEF p, q
  <2> QED
    BY <2>1, <2>6, UsesRight
<1> HIDE DEF p, q
<1>6. W \subseteq g.worlds
  BY <1>5 DEF W
<1>7. Fine(y, n, a)
  BY <1>2, <1>6, FineFewer DEF y
<1> QED
  BY <1>1, <1>7, FineDrop

\* The callee changes registers and flags, and leaves the result in rax.
LEMMA CalledIs ==
  ASSUME NEW w, World(w), NEW u, u = Called(w)
  PROVE  Runs(w, u) /\ u.frame = w.frame /\ u.reg["rax"] = "new"
<1> DEFINE R == [r \in Reg |-> IF r = "rax" THEN "new" ELSE "junk"]
           v == [w EXCEPT !.reg = R]
<1>1. u = [v EXCEPT !.flags = "junk"]
  BY DEF Called
<1>2. R["rax"] = "new" /\ Regs(R)
  BY DEF Reg, Regs
<1> HIDE DEF R
<1>3. Machine(w, v, R, w.flags)
  BY <1>2, RegsIt
<1> HIDE DEF v
<1>4. Machine(v, u, v.reg, "junk")
  BY <1>1, <1>3, FlagsIt DEF Machine
<1> QED
  BY <1>2, <1>3, <1>4 DEF Machine, Runs

\* With nothing in registers or flags, no entry notices.
LEMMA FineCalled ==
  ASSUME NEW m, NEW n, NEW a, Fine(m, n, a), Clear(m, n), NEW x, x = Run(m, Called)
  PROVE  /\ Fine(x, n, a) /\ x.vs = m.vs
         /\ \A u \in x.worlds : u.reg["rax"] = "new"
<1> DEFINE W == {Called(w) : w \in m.worlds}
<1>1. Good(m) /\ Rec(m) /\ Len(m.vs) = n /\ n \in Nat /\ \A k \in 1 .. n : m.vs[k] \in Entries
  BY FineIs
<1>2. x = Ran(m, W)
  BY DEF Run, Ran
<1> HIDE DEF W
<1>3. With(m, x, m.vs) /\ x.vs = m.vs /\ x.worlds = W
  BY <1>1, <1>2, RanIt
<1>4. Good(x)
  BY <1>1, <1>3 DEF Good, With
<1>5. ASSUME NEW u \in W PROVE Right(u, m.vs, n, a) /\ u.reg["rax"] = "new" /\ Live
  <2>1. PICK w \in m.worlds : u = Called(w)
    BY DEF W
  <2>2. /\ World(w) /\ w.wrong = FALSE /\ w.aside = a /\ Live
        /\ w.means \in Seq(Meanings) /\ Len(w.means) = n
        /\ \A k \in 1 .. n : Leads(w, m.vs[k], w.means[k])
    <3>1. True(m, a) /\ Len(m.vs) = n
      BY DEF Fine
    <3>2. Right(w, m.vs, n, a) /\ Live
      BY <3>1 DEF True, Faith
    <3> QED
      BY <3>1, <3>2 DEF Right
  <2>3. Runs(w, u) /\ u.frame = w.frame /\ u.reg["rax"] = "new"
    BY <2>1, <2>2, CalledIs
  <2>4. ASSUME NEW k \in 1 .. n PROVE Leads(u, m.vs[k], u.means[k])
    <3>1. m.vs[k].r \notin Reg /\ m.vs[k].r # "cmp"
      BY <2>2 DEF Clear
    <3>2. Keeps(w, u, m.vs[k])
      BY <2>3, <3>1 DEF Keeps
    <3>3. Leads(u, m.vs[k], w.means[k])
      BY <1>1, <2>2, <3>2, LeadsKept
    <3> QED
      BY <2>3, <3>3 DEF Runs
  <2> QED
    BY <1>1, <2>2, <2>3, <2>4 DEF Right, Runs
<1>6. True(x, a)
  BY <1>1, <1>3, <1>5 DEF True, Faith
<1> QED
  BY <1>1, <1>3, <1>4, <1>5, <1>6 DEF Fine

\* gfunc_call() of one or two arguments.
LEMMA FineCall ==
  ASSUME NEW m, NEW n, NEW a, Fine(m, n, a), NEW k \in 1 .. 2, k <= n
  PROVE  Fine(gfunc_call(m, k), n - k + 1, a)
<1> DEFINE c == n - k  s == save_regs(m, k)
           p == IF k = 1 THEN PassedOn(s) ELSE PassedOn(PassedOn(s))
           q == Run(p, Called)
           e == InReg("rax", "int")
           v == vcheck_cmp(q)
           y == vsetc(q, e, Val("new"))
<1>1. /\ Good(m) /\ Len(m.vs) = n /\ n \in Nat /\ c \in Nat /\ c < n
      /\ k \in 1 .. n /\ k \in 0 .. n /\ n <= n /\ Faith(m, n, a)
      /\ (k = 1 => c = n - 1) /\ (k # 1 => c = n - 1 - 1 /\ c < n - 1 /\ n - 1 >= 1)
  BY FineIs
<1>2. gfunc_call(m, k) = y
  BY CallIs
<1>3. Clear(s, c) /\ Spill(m, s)
  BY <1>1, ClearSaved
<1>4. Faith(s, n, a)
  BY <1>1, SavesFaith
<1>5. Good(y) /\ Len(y.vs) = c + 1
  <2>1. Onto(m, m, 0, n)
    BY <1>1, SelfOnto
  <2>2. Onto(m, gfunc_call(m, k), 0, n - k + 1)
    BY <1>1, <2>1, ThenCall
  <2> QED
    BY <1>2, <2>2, OntoGood
<1> HIDE DEF c, s
<1>6. Fine(s, n, a) /\ Good(s) /\ Len(s.vs) = n
  BY <1>1, <1>3, <1>4 DEF Fine, True, Spill, Stay
<1>7. Fine(p, c, a) /\ Onto(s, p, c, c)
  <2>1. Onto(s, s, c, n)
    BY <1>1, <1>6, SelfOnto
  <2>2. Onto(s, PassedOn(s), c, n - 1) /\ Fine(PassedOn(s), n - 1, a)
    BY <1>1, <1>6, <2>1, ThenPassed, FinePassed
  <2>3. CASE k = 1
    BY <1>1, <2>2, <2>3
  <2>4. CASE k # 1
    <3>1. Onto(s, PassedOn(PassedOn(s)), c, n - 1 - 1)
      BY <1>1, <2>2, <2>4, ThenPassed
    <3>2. Fine(PassedOn(PassedOn(s)), n - 1 - 1, a)
      BY <1>1, <2>2, <2>4, FinePassed
    <3> QED
      BY <1>1, <2>4, <3>1, <3>2
  <2> QED
    BY <2>3, <2>4
<1>8. Clear(p, c)
  BY <1>3, <1>7, ClearStays
<1> HIDE DEF p
<1>9. Fine(q, c, a) /\ q.vs = p.vs /\ \A u \in q.worlds : u.reg["rax"] = "new"
  BY <1>7, <1>8, FineCalled
<1> HIDE DEF q
<1>11. v = q
  <2>1. CASE ~ Live
    BY <2>1 DEF vcheck_cmp, Live
  <2>2. CASE Live
    <3>1. q.vs = << >> \/ Top(q).r # "cmp"
      BY <1>8, <1>9, <2>2, FineIs DEF Clear
    <3> QED
      BY <3>1 DEF vcheck_cmp
  <2> QED
    BY <2>1, <2>2
<1>12. y = Push(q, e, Val("new"))
  BY <1>11 DEF vsetc
<1>13. e \in Entries /\ e.r = "rax" /\ e.lval = FALSE /\ e.t = "int"
  BY Simple DEF InReg, Entry
<1>14. Val("new") \in IntMeanings /\ Val("new") \in Meanings
  BY DEF IntMeanings, Ints, Meanings
<1> HIDE DEF e, y
<1>15. ASSUME NEW w \in q.worlds PROVE Leads(w, e, Val("new"))
  <2>1. Place(w, e) = Val(w.reg["rax"])
    BY <1>13, PlaceReg DEF Resident, Reg
  <2> QED
    BY <1>9, <1>13, <1>14, <2>1 DEF Leads, Fits
<1>16. True(y, a)
  BY <1>9, <1>12, <1>13, <1>14, <1>15, FineIs, PushFaith
<1> QED
  BY <1>1, <1>2, <1>5, <1>16 DEF Fine, c

(* __atomic_load() to a global: its address survives the call.             *)

\* What is kept aside is in no entry's way.
LEMMA AsideRight ==
  ASSUME NEW w, NEW s \in Seq(Entries), NEW b \in Nat, b <= Len(s), NEW a, Right(w, s, b, a),
         NEW c, NEW u, u = [w EXCEPT !.aside = c]
  PROVE  Right(u, s, b, c)
<1>1. World(w) /\ Regs(w.reg)
  BY IsMade DEF Right
<1>2. u = Made(w.reg, w.flags, w.frame, w.means, c, w.wrong)
  BY <1>1, Replaced
<1>3. /\ World(u) /\ u.reg = w.reg /\ u.flags = w.flags /\ u.frame = w.frame /\ u.means = w.means
      /\ u.aside = c /\ u.wrong = w.wrong
  BY <1>1, <1>2, Making
<1>4. ASSUME NEW k \in 1 .. b PROVE Leads(u, s[k], u.means[k])
  <2>1. Leads(w, s[k], w.means[k]) /\ s[k] \in Entries
    BY DEF Right
  <2>2. Keeps(w, u, s[k])
    BY <1>3 DEF Keeps
  <2> QED
    BY <1>3, <2>1, <2>2, LeadsKept
<1> QED
  BY <1>3, <1>4 DEF Right

\* The place taken off the stack is remembered.
LEMMA FineAside ==
  ASSUME NEW m, NEW n, NEW a, Fine(m, n, a), NEW c, \A w \in m.worlds : Last(w.means) = c
  PROVE  Fine(SetAside(m), n, c)
<1> DEFINE x == SetAside(m)  W == {[w EXCEPT !.aside = Last(w.means)] : w \in m.worlds}
<1>1. Good(m) /\ Rec(m) /\ Len(m.vs) = n /\ n \in Nat /\ m.vs \in Seq(Entries) /\ Faith(m, n, a)
  BY FineIs
<1>2. x = Ran(m, W)
  BY DEF SetAside, Run, Ran
<1> HIDE DEF x, W
<1>3. With(m, x, m.vs) /\ x.vs = m.vs /\ x.worlds = W
  BY <1>1, <1>2, RanIt
<1>4. Good(x)
  BY <1>1, <1>3 DEF Good, With
<1>5. ASSUME NEW u \in W PROVE Right(u, m.vs, n, c)
  <2>1. PICK w \in m.worlds : u = [w EXCEPT !.aside = Last(w.means)]
    BY DEF W
  <2>2. u = [w EXCEPT !.aside = c] /\ Right(w, m.vs, n, a)
    BY <1>1, <2>1 DEF Faith
  <2> QED
    BY <1>1, <2>2, AsideRight
<1>6. ~ Live => W = {}
  BY <1>1 DEF W, Faith
<1> QED
  BY <1>1, <1>3, <1>4, <1>5, <1>6 DEF Fine, True, Faith, x

\* The place put back is the one that was taken.
BackTo(w, n) ==
  [Meaning([w EXCEPT !.means = Append(w.means, Val("junk"))], n, w.aside) EXCEPT !.aside = << >>]
\* In one world.
LEMMA BackRight ==
  ASSUME NEW s \in Seq(Entries), NEW a \in Meanings, NEW w, Right(w, s, Len(s), a),
         NEW e \in Entries, Leads(w, e, a)
  PROVE  Right(BackTo(w, Len(s) + 1), Append(s, e), Len(s) + 1, << >>)
<1> DEFINE n == Len(s) + 1  j == Append(w.means, Val("junk"))  N == Append(w.means, a)
           v == [w EXCEPT !.means = j]  z == [w EXCEPT !.means = N]  t == Append(s, e)
           y == Meaning(v, n, w.aside)
<1>1. World(w) /\ w.aside = a /\ w.means \in Seq(Meanings) /\ Len(w.means) = Len(s) /\ Len(s) \in Nat
  BY DEF Right
<1>2. [j EXCEPT ![n] = a] = N
  <2> DEFINE q == [j EXCEPT ![n] = a]  S == Meanings \cup {Val("junk")}
  <2>1. j \in Seq(S) /\ Len(j) = n /\ n \in Nat /\ n >= 1 /\ \A k \in 1 .. Len(s) : j[k] = w.means[k]
    BY <1>1
  <2>0. a \in S
    OBVIOUS
  <2> HIDE DEF j, n, S
  <2>2. /\ q \in Seq(S) /\ DOMAIN q = 1 .. n /\ q[n] = a
        /\ \A k \in 1 .. n : k # n => q[k] = j[k]
    BY <2>0, <2>1
  <2>3. N \in Seq(S) /\ DOMAIN N = 1 .. n /\ N[n] = a /\ \A k \in 1 .. Len(s) : N[k] = w.means[k]
    BY <1>1 DEF S, n
  <2>4. \A k \in 1 .. n : k = n \/ (k # n /\ k \in 1 .. Len(s))
    BY <1>1 DEF n
  <2> HIDE DEF q, N
  <2>5. q = [k \in 1 .. n |-> q[k]] /\ N = [k \in 1 .. n |-> N[k]]
    BY <2>2, <2>3
  <2>6. \A k \in 1 .. n : q[k] = N[k]
    BY <2>1, <2>2, <2>3, <2>4
  <2> QED
    BY <2>5, <2>6 DEF q
<1> HIDE DEF N, j
<1>3. v = Made(w.reg, w.flags, w.frame, j, w.aside, w.wrong)
      /\ z = Made(w.reg, w.flags, w.frame, N, w.aside, w.wrong) /\ Regs(w.reg)
  BY <1>1, Replaced, IsMade
<1> HIDE DEF v, z
<1>4. Remeant(v, y, [v.means EXCEPT ![n] = w.aside]) /\ v.means = j /\ World(v)
      /\ v.reg = w.reg /\ v.flags = w.flags /\ v.frame = w.frame /\ v.aside = w.aside /\ v.wrong = w.wrong
  BY <1>3, Making, MeaningIt
<1>5. Remeant(v, y, N)
  BY <1>1, <1>2, <1>4
<1> HIDE DEF y
<1>6. y = z
  <2>1. y = Made(y.reg, y.flags, y.frame, y.means, y.aside, y.wrong)
    BY <1>5 DEF Remeant, World, Made
  <2> QED
    BY <1>3, <1>4, <1>5, <2>1 DEF Remeant
<1>7. BackTo(w, n) = [z EXCEPT !.aside = << >>]
  BY <1>6 DEF BackTo, y, v, j
<1>8. Right(z, t, n, a)
  BY PushRight DEF z, N
<1>9. t \in Seq(Entries) /\ Len(t) = n /\ n \in Nat /\ n <= Len(t)
  BY <1>1
<1> HIDE DEF t, n
<1>10. Right(BackTo(w, n), t, n, << >>)
  BY <1>7, <1>8, <1>9, AsideRight
<1> QED
  BY <1>10 DEF t, n

\* In all of them.
LEMMA FineBack ==
  ASSUME NEW m, NEW n, NEW a \in Meanings, Fine(m, n, a), n >= 1, m.vs[n].r # "cmp",
         NEW e \in Entries, ~ InSlot(e), e.r \notin Reg \cup {"cmp"}, \A w : Leads(w, e, a),
         NEW x, x = TakeBack(Push(m, e, Val("junk")))
  PROVE  Fine(x, n + 1, << >>)
<1> DEFINE p == Push(m, e, Val("junk"))  t == Append(m.vs, e)
           V == {[w EXCEPT !.means = Append(w.means, Val("junk"))] : w \in m.worlds}
           W == {BackTo(w, n + 1) : w \in m.worlds}
           B(w) == [Meaning(w, n + 1, w.aside) EXCEPT !.aside = << >>]
<1>1. /\ Good(m) /\ Rec(m) /\ Len(m.vs) = n /\ n \in Nat /\ m.vs \in Seq(Entries) /\ Faith(m, n, a)
      /\ Sound(m.vs, m.temps, m.loc, Live)
  BY FineIs, GoodIs
<1>2. p = Became(m, t, V)
  BY DEF Push, Became
<1>3. Len(t) = n + 1 /\ t \in Seq(Entries)
  BY <1>1
<1>4. ASSUME NEW w \in m.worlds
      PROVE  B([w EXCEPT !.means = Append(w.means, Val("junk"))]) = BackTo(w, n + 1)
  <2> DEFINE v == [w EXCEPT !.means = Append(w.means, Val("junk"))]
  <2>1. World(w)
    BY <1>1 DEF Faith, Right
  <2>2. v.aside = w.aside
    BY <2>1, MeansIt DEF Remeant
  <2> QED
    BY <2>2 DEF BackTo
<1> HIDE DEF p, V, t
<1>5. With(m, p, t) /\ p.vs = t /\ p.worlds = V
  BY <1>1, <1>2, BecameIt
<1>6. x = Ran(p, {B(w) : w \in V})
  BY <1>3, <1>5 DEF TakeBack, Run, Ran, Depth, p
<1>7. {B(w) : w \in V} = W
  <2> HIDE DEF B
  <2> QED
    BY <1>4 DEF V
<1> HIDE DEF W, B
<1>13. x = Ran(p, W) /\ Rec(p)
  BY <1>5, <1>6, <1>7 DEF With
<1>8. With(p, x, t) /\ x.vs = t /\ x.worlds = W
  BY <1>5, <1>13, RanIt
<1>9. Sound(t, m.temps, m.loc, Live)
  <2>1. Live => \A j \in 1 .. Len(m.vs) : m.vs[j].r # "cmp"
    <3>1. Live => \A k \in 1 .. Len(m.vs) - 1 : m.vs[k].r # "cmp"
      BY <1>1, GoodIs
    <3> QED
      BY <1>1, <3>1
  <2> QED
    BY <1>1, <2>1, AddSound DEF t
<1>10. Good(x)
  BY <1>1, <1>5, <1>8, <1>9 DEF Good, With
<1>11. ASSUME NEW u \in W PROVE Right(u, t, n + 1, << >>)
  <2>1. PICK w \in m.worlds : u = BackTo(w, n + 1)
    BY DEF W
  <2>2. Right(w, m.vs, Len(m.vs), a)
    BY <1>1 DEF Faith
  <2>3. Right(BackTo(w, Len(m.vs) + 1), Append(m.vs, e), Len(m.vs) + 1, << >>)
    BY <1>1, <2>2, BackRight
  <2> QED
    BY <1>1, <2>1, <2>3 DEF t
<1>12. ~ Live => W = {}
  BY <1>1 DEF W, Faith
<1> QED
  BY <1>1, <1>3, <1>8, <1>10, <1>11, <1>12 DEF Fine, True, Faith

\* The global's address and the object there.
LEMMA GlobalPlace ==
  LET e == Const("&g", "ptr")  q == AsObject(e)  z == Const("0", "int") IN
  /\ e \in Entries /\ ~ InSlot(e) /\ e.r = "const" /\ e.t = "ptr" /\ e.lval = FALSE
  /\ Val("&g") \in Meanings /\ \A w : Leads(w, e, Val("&g"))
  /\ q \in Entries /\ ~ InSlot(q) /\ q.r = "const"
  /\ Mem("&g") \in Meanings /\ \A w : Leads(w, q, Mem("&g"))
  /\ z \in Entries /\ ~ InSlot(z) /\ z.r = "const" /\ z.t = "int" /\ z.lval = FALSE
  /\ Val("0") \in Meanings /\ \A w : Leads(w, z, Val("0"))
  /\ "const" \notin Reg \cup {"cmp"}
<1> DEFINE e == Const("&g", "ptr")  q == AsObject(e)  z == Const("0", "int")
<1>1. e \in Entries /\ e.r = "const" /\ e.t = "ptr" /\ e.lval = FALSE /\ e.v = "&g" /\ ~ InSlot(e)
  BY Simple DEF Types, Const, Entry, InSlot
<1>2. z \in Entries /\ z.r = "const" /\ z.t = "int" /\ z.lval = FALSE /\ z.v = "0" /\ ~ InSlot(z)
  BY Simple DEF Types, Const, Entry, InSlot
<1>3. q \in Entries /\ q.r = "const" /\ ~ InSlot(q)
  BY <1>1, Pointing
<1>4. q.v = "&g" /\ q.t = "int" /\ q.lval = TRUE
  BY DEF AsObject, Const, Entry
<1> HIDE DEF e, q, z
<1>5. "const" \notin Reg \cup {"cmp"}
  BY DEF Reg
<1>6. \A w : Place(w, e) = Val("&g") /\ Place(w, q) = Mem("&g") /\ Place(w, z) = Val("0")
  BY <1>1, <1>2, <1>3, <1>4, <1>5 DEF Place
<1>7. /\ Val("&g") \in PtrMeanings /\ Mem("&g") \in IntMeanings /\ Val("0") \in IntMeanings
      /\ PtrMeanings \subseteq Meanings /\ IntMeanings \subseteq Meanings
  BY DEF PtrMeanings, IntMeanings, Pointers, Ints, Meanings
<1>8. \A w : Leads(w, e, Val("&g")) /\ Leads(w, q, Mem("&g")) /\ Leads(w, z, Val("0"))
  BY <1>1, <1>2, <1>4, <1>6, <1>7 DEF Leads, Fits
<1> QED
  BY <1>1, <1>2, <1>3, <1>5, <1>7, <1>8 DEF e, q, z

\* parse_atomic() from the place on.
LEMMA FineFetched ==
  ASSUME NEW x, NEW n, Fine(x, n, << >>), n >= 2, x.vs[n] = Const("&g", "ptr")
  PROVE  Fine(vstore(vswap(Fetching(indir(x)))), n - 1, << >>)
<1> DEFINE p == indir(x)  s == SetAside(p)  d == Drop(s)  z == Const("0", "int")
           o == vsetc(d, z, Val("0"))  c == gfunc_call(o, 2)  q == AsObject(x.vs[n])
           g == TakeBack(Push(c, Top(p), Val("junk")))  A == Mem("&g")
<1>1. /\ n \in Nat /\ n >= 1 /\ n - 1 + 1 = n /\ n - 2 + 1 = n - 1 /\ n \in 1 .. n /\ n - 1 >= 1
      /\ Good(x) /\ Rec(x) /\ Len(x.vs) = n /\ Top(x) = x.vs[n] /\ x.vs \in Seq(Entries)
  BY FineIs
<1>2. Fetching(p) = g
  BY DEF Fetching
<1>3. x.vs[n].t = "ptr" /\ x.vs[n].lval = FALSE
  BY GlobalPlace
<1>4. Fine(p, n, << >>) /\ p.vs[n] = q
  <2>0. Top(x).lval = FALSE
    BY <1>1, <1>3
  <2> DEFINE y == IF Top(x).lval THEN gv(x, RC_INT) ELSE x
  <2>4. p = Object(y)
    BY DEF indir, Object
  <2>1. p = Object(x)
    BY <2>0, <2>4
  <2>2. p.vs = [x.vs EXCEPT ![n] = q]
    BY <1>1, <2>1, ObjectIs
  <2>3. Fine(p, n, << >>)
    BY <1>1, <1>3, FineIndir
  <2> HIDE DEF q, p
  <2> QED
    BY <1>1, <2>2, <2>3
<1>5. /\ q \in Entries /\ ~ InSlot(q) /\ q.r = "const" /\ A \in Meanings /\ \A w : Leads(w, q, A)
      /\ z \in Entries /\ ~ InSlot(z) /\ z.r = "const" /\ Val("0") \in Meanings
      /\ \A w : Leads(w, z, Val("0"))
      /\ "const" \notin Reg \cup {"cmp"}
  BY GlobalPlace
<1> HIDE DEF p, q, A, z
<1>6. Top(p) = q
  BY <1>4, FineIs
<1>7. ASSUME NEW w \in p.worlds PROVE Last(w.means) = A
  <2>1. Len(w.means) = n /\ Leads(w, p.vs[n], w.means[n])
    <3>1. /\ Len(w.means) = n
          /\ \A k \in 1 .. n : Leads(w, p.vs[k], w.means[k]) /\ w.means[k] \in Meanings
      BY <1>4, <1>7, Notes
    <3> QED
      BY <1>1, <3>1
  <2> QED
    BY <1>4, <1>5, <2>1 DEF Last, Leads
<1>8. Fine(s, n, A)
  BY <1>4, <1>7, FineAside
<1> HIDE DEF s
<1>9. Fine(d, n - 1, A)
  BY <1>1, <1>8, FineDrop
<1> HIDE DEF d
<1>10. Fine(o, n, A)
  <2>1. Fine(o, n - 1 + 1, A)
    BY <1>5, <1>9, FineSetc
  <2> QED
    BY <1>1, <2>1
<1> HIDE DEF o
<1>11. Fine(c, n - 1, A) /\ c.vs[n - 1] = InReg("rax", "int")
  <2>1. Good(o) /\ Len(o.vs) = n /\ 2 \in 1 .. 2 /\ 0 + 2 <= n /\ 2 <= n
    BY <1>1, <1>10, FineIs
  <2>2. Onto(o, o, 0, n)
    BY <2>1, SelfOnto
  <2>3. gfunc_call(o, 2).vs[n - 2 + 1] = InReg("rax", "int")
    <3> HIDE DEF c
    <3>1. \A k \in 1 .. 2 : 0 + k <= n => gfunc_call(o, k).vs[n - k + 1] = InReg("rax", "int")
      BY <2>2, ThenCall
    <3> QED
      BY <2>1, <3>1
  <2>4. Fine(c, n - 2 + 1, A)
    BY <1>10, <2>1, FineCall
  <2> QED
    BY <1>1, <2>3, <2>4
<1> HIDE DEF c
<1>12. c.vs[n - 1].r # "cmp"
  BY <1>11, Simple
<1>13. Fine(g, n, << >>)
  <2>1. q.r \notin Reg \cup {"cmp"}
    BY <1>5
  <2>2. Fine(g, n - 1 + 1, << >>)
    BY <1>1, <1>5, <1>6, <1>11, <1>12, <2>1, FineBack
  <2> QED
    BY <1>1, <2>2
<1> HIDE DEF g
<1>14. Fine(vswap(g), n, << >>)
  BY <1>13, FineSwap
<1>15. Fine(vstore(vswap(g)), n - 1, << >>)
  BY <1>14, FineStore
<1> QED
  BY <1>2, <1>15 DEF p

(* The steps of an expression keep every entry leading where it should.    *)

\* What an entry of the program's own stands for.
LEMMA OwnEntries ==
  /\ \A v \in {"0", "3"} : LET e == Const(v, "int") IN
       /\ e \in Entries /\ ~ InSlot(e) /\ e.r \notin Reg \cup {"cmp"}
       /\ Val(v) \in Meanings /\ \A w : Leads(w, e, Val(v))
  /\ \A d \in {<<VarI, "int">>, <<VarP, "ptr">>} :
       LET e == Entry("local", TRUE, d[1], "junk", d[2]) IN
       /\ e \in Entries /\ ~ InSlot(e) /\ e.r \notin Reg \cup {"cmp"}
       /\ Var(d[1]) \in Meanings /\ \A w : Leads(w, e, Var(d[1]))
<1>1. ASSUME NEW v \in {"0", "3"}
      PROVE  LET e == Const(v, "int") IN
             /\ e \in Entries /\ ~ InSlot(e) /\ e.r \notin Reg \cup {"cmp"}
             /\ Val(v) \in Meanings /\ \A w : Leads(w, e, Val(v))
  <2> DEFINE e == Const(v, "int")
  <2>1. e \in Entries /\ e.r = "const" /\ e.lval = FALSE /\ e.v = v /\ e.t = "int"
    BY Simple DEF Types, Const, Entry
  <2> HIDE DEF e
  <2>2. ~ InSlot(e) /\ e.r \notin Reg \cup {"cmp"}
    BY <2>1 DEF InSlot, Reg
  <2>3. \A w : Place(w, e) = Val(v)
    BY <2>1, <2>2 DEF Place
  <2>4. Val(v) \in IntMeanings /\ Val(v) \in Meanings
    BY DEF IntMeanings, Ints, Meanings
  <2>5. \A w : Leads(w, e, Val(v))
    BY <2>1, <2>3, <2>4 DEF Leads, Fits
  <2> QED
    BY <2>1, <2>2, <2>4, <2>5 DEF e
<1>2. ASSUME NEW d \in {<<VarI, "int">>, <<VarP, "ptr">>}
      PROVE  LET e == Entry("local", TRUE, d[1], "junk", d[2]) IN
             /\ e \in Entries /\ ~ InSlot(e) /\ e.r \notin Reg \cup {"cmp"}
             /\ Var(d[1]) \in Meanings /\ \A w : Leads(w, e, Var(d[1]))
  <2> DEFINE e == Entry("local", TRUE, d[1], "junk", d[2])
  <2>1. (d[1] = VarI /\ d[2] = "int") \/ (d[1] = VarP /\ d[2] = "ptr")
    OBVIOUS
  <2>2. d[1] \in Nat /\ d[1] <= Locals /\ d[2] \in Types
    BY <2>1 DEF VarI, VarP, Locals, Types
  <2>3. e.r = "local" /\ e.lval = TRUE /\ e.c = d[1] /\ e.t = d[2] /\ e \in Entries
    BY <2>2 DEF Entry, Entries, Descriptor, Proper, Kinds, Contents
  <2> HIDE DEF e
  <2>4. ~ InSlot(e) /\ e.r \notin Reg \cup {"cmp"}
    BY <2>2, <2>3 DEF InSlot, Reg, Locals
  <2>5. \A w : Place(w, e) = Var(d[1])
    BY <2>2, <2>3, <2>4 DEF Place
  <2>6. Fits(d[2], Var(d[1])) /\ Var(d[1]) \in Meanings
    BY <2>1 DEF Fits, PtrMeanings, IntMeanings, Meanings
  <2>7. \A w : Leads(w, e, Var(d[1]))
    BY <2>3, <2>5, <2>6 DEF Leads
  <2> QED
    BY <2>3, <2>4, <2>6, <2>7 DEF e
<1> QED
  BY <1>1, <1>2

\* The new value of an increment.
LEMMA FineNew ==
  ASSUME NEW x, NEW n, NEW a, Fine(x, n, a), n >= 2, x.vs[n].t = "int"
  PROVE  Fine(New(x), n - 1, a)
<1> DEFINE e == Const("3", "int")  y == vsetc(x, e, Val("3"))  z == gen_op(y, "sub")
<1>1. n \in Nat /\ n >= 1 /\ n + 1 >= 2 /\ n + 1 - 1 = n /\ Good(x) /\ Len(x.vs) = n
  BY FineIs
<1>2. e \in Entries /\ ~ InSlot(e) /\ e.r \notin Reg \cup {"cmp"}
      /\ Val("3") \in Meanings /\ \A w : Leads(w, e, Val("3"))
  BY OwnEntries
<1> HIDE DEF e
<1>3. Fine(y, n + 1, a)
  BY <1>2, FineSetc
<1>4. y.vs[n].t = "int"
  <2>1. e.r # "cmp" /\ e.r \notin Reg
    BY <1>2
  <2> QED
    BY <1>1, <1>2, <2>1, Pushes
<1> HIDE DEF y
<1>5. Fine(z, n, a)
  <2>1. Fine(z, n + 1 - 1, a)
    <3>1. y.vs[n + 1 - 1].t = "int" /\ "sub" \in Op
      BY <1>1, <1>4 DEF Op
    <3> QED
      BY <1>1, <1>3, <3>1, FineOp
  <2> QED
    BY <1>1, <2>1
<1> HIDE DEF z
<1>6. Fine(vstore(z), n - 1, a)
  BY <1>5, FineStore
<1> QED
  BY <1>6 DEF New, z, y, e

\* Rotating twice brings the second entry to the top.
LEMMA RotatedTwice ==
  ASSUME NEW m, NEW n, NEW a, Fine(m, n, a), n >= 3
  PROVE  LET x == vrotb(vrotb(m, 3), 3) IN Fine(x, n, a) /\ x.vs[n].t = m.vs[n - 1].t
<1> DEFINE c == vcheck_cmp(m)  r == vrotb(m, 3)  d == vcheck_cmp(r)  x == vrotb(r, 3)
<1>1. Good(m) /\ Len(m.vs) = n /\ n \in Nat /\ n - 1 \in 1 .. n /\ n - 2 \in 1 .. n
  BY FineIs
<1>2. Len(c.vs) = n /\ c.vs[n - 1].t = m.vs[n - 1].t /\ c.vs \in Seq(Entries)
  BY <1>1, CheckKinds, GoodIs
<1>3. Fine(r, n, a) /\ r.vs = Rotated(c.vs)
  BY FineRot
<1> HIDE DEF c
<1>4. r.vs[n - 2] = c.vs[n - 1] /\ Good(r) /\ Len(r.vs) = n
  BY <1>2, <1>3, RotatedIs, FineIs
<1> HIDE DEF r
<1>5. Len(d.vs) = n /\ d.vs[n - 2].t = r.vs[n - 2].t /\ d.vs \in Seq(Entries)
  BY <1>1, <1>4, CheckKinds, GoodIs
<1>6. Fine(x, n, a) /\ x.vs = Rotated(d.vs)
  BY <1>3, FineRot
<1> HIDE DEF d, x
<1>7. x.vs[n] = d.vs[n - 2]
  BY <1>5, <1>6, RotatedIs
<1> QED
  BY <1>2, <1>4, <1>5, <1>6, <1>7 DEF x, r
\* Where an operation starts.
Fresh(n) == VInv /\ Fine(Now, n, << >>) /\ n = Len(vstack) /\ n <= MaxDepth
\* What holds there.
LEMMA FreshIs ==
  ASSUME NEW n, Fresh(n)
  PROVE  /\ VInv /\ Fine(Now, n, << >>) /\ Good(Now) /\ Now.vs = vstack /\ n = Len(vstack) /\ n \in Nat
         /\ n <= MaxDepth /\ MaxDepth \in Nat /\ Base \in Nat /\ Base <= n
         /\ \A k \in 1 .. n : vstack[k] \in Entries
         /\ Onto(Now, Now, Base, n)
<1>1. VInv /\ Fine(Now, n, << >>) /\ n = Len(vstack) /\ n <= MaxDepth
  BY DEF Fresh
<1>2. MaxDepth \in Nat
  BY VStackAssumption
<1> QED
  BY <1>1, <1>2, Start, NowIs

\* Where it ends.
Keeping(m) == Low(Now, m, Base) /\ Compile(m) /\ \E n \in Nat : n <= MaxDepth /\ Fine(m, n, << >>)
\* An operation that keeps what is below it and computes.
LEMMA KeepingOnto ==
  ASSUME NEW m, NEW n, Onto(Now, m, Base, n), Compile(m), NEW k \in Nat, k <= MaxDepth, Fine(m, k, << >>)
  PROVE  Keeping(m)
  BY OntoLow DEF Keeping

(* Every action of an expression compiles something fine.                  *)

\* An operation of an expression is compiled to something fine.
Expression ==
  \/ \E v \in {"0", "3"} : PushConst(v, "int")
  \/ PushVar(VarI, "int") \/ PushVar(VarP, "ptr")
  \/ Pop \/ Indirection
  \/ \E op \in Op : Binary(op)
  \/ CompoundPlace \/ Assign
  \/ \E post \in BOOLEAN : Inc(post)
  \/ \E n \in 1 .. 2 : Call(n)
  \/ AtomicLoad

\* Pushing a constant or a variable.
LEMMA FinePush ==
  ASSUME NEW n, Fresh(n), Room(1), NEW e \in Entries, ~ InSlot(e), e.r \notin Reg \cup {"cmp"},
         NEW x \in Meanings, \A w : Leads(w, e, x), Compile(vsetc(Now, e, x))
  PROVE  Keeping(vsetc(Now, e, x))
<1> DEFINE y == vsetc(Now, e, x)
<1>1. /\ Fine(Now, n, << >>) /\ Good(Now) /\ Now.vs = vstack /\ n = Len(vstack) /\ n \in Nat
      /\ Base \in Nat /\ Base <= n
  BY FreshIs
<1>2. /\ Good(y) /\ Len(y.vs) = n + 1
      /\ \A k \in 1 .. n : y.vs[k] = vstack[k] \/ (Live /\ vstack[k].r \in Reg \cup {"cmp"})
      /\ ~ Live => y.temps = Now.temps /\ y.loc = Now.loc
  <2>1. e.r # "cmp" /\ e.r \notin Reg
    OBVIOUS
  <2> QED
    BY <1>1, <2>1, Pushes
<1>3. Fine(y, n + 1, << >>)
  BY <1>1, FineSetc
<1> HIDE DEF y
<1>4. Low(Now, y, Base)
  BY <1>1, <1>2 DEF Low
<1>5. n + 1 <= MaxDepth /\ n + 1 \in Nat
  BY <1>1 DEF Room
<1> QED
  BY <1>3, <1>4, <1>5 DEF Keeping, y

\* The operations that push.
LEMMA FinePushes ==
  ASSUME NEW n, Fresh(n),
         (\E v \in {"0", "3"} : PushConst(v, "int")) \/ PushVar(VarI, "int") \/ PushVar(VarP, "ptr")
  PROVE  \E m : Keeping(m)
<1>1. ASSUME NEW v \in {"0", "3"}, PushConst(v, "int") PROVE \E m : Keeping(m)
  <2> DEFINE e == Const(v, "int")
  <2>1. e \in Entries /\ ~ InSlot(e) /\ e.r \notin Reg \cup {"cmp"}
        /\ Val(v) \in Meanings /\ \A w : Leads(w, e, Val(v))
    BY OwnEntries
  <2>2. Room(1) /\ Compile(vsetc(Now, e, Val(v)))
    BY <1>1 DEF PushConst
  <2> HIDE DEF e
  <2>3. Keeping(vsetc(Now, e, Val(v)))
    BY <2>1, <2>2, FinePush
  <2> QED
    BY <2>3
<1>2. ASSUME NEW d \in {<<VarI, "int">>, <<VarP, "ptr">>}, PushVar(d[1], d[2]) PROVE \E m : Keeping(m)
  <2> DEFINE e == Entry("local", TRUE, d[1], "junk", d[2])
  <2>1. e \in Entries /\ ~ InSlot(e) /\ e.r \notin Reg \cup {"cmp"}
        /\ Var(d[1]) \in Meanings /\ \A w : Leads(w, e, Var(d[1]))
    BY OwnEntries
  <2>2. Room(1) /\ Compile(vsetc(Now, e, Var(d[1])))
    BY <1>2 DEF PushVar
  <2> HIDE DEF e
  <2>3. Keeping(vsetc(Now, e, Var(d[1])))
    BY <2>1, <2>2, FinePush
  <2> QED
    BY <2>3
<1>3. CASE PushVar(VarI, "int")
  <2> DEFINE d == <<VarI, "int">>
  <2>1. PushVar(d[1], d[2]) /\ d \in {<<VarI, "int">>, <<VarP, "ptr">>}
    BY <1>3
  <2> HIDE DEF d
  <2> QED
    BY <1>2, <2>1
<1>4. CASE PushVar(VarP, "ptr")
  <2> DEFINE d == <<VarP, "ptr">>
  <2>1. PushVar(d[1], d[2]) /\ d \in {<<VarI, "int">>, <<VarP, "ptr">>}
    BY <1>4
  <2> HIDE DEF d
  <2> QED
    BY <1>2, <2>1
<1> QED
  BY <1>1, <1>3, <1>4

\* What the program may operate on.
LEMMA OperandsAre ==
  ASSUME NEW n, Fresh(n), NEW k \in Nat, Operands(k)
  PROVE  /\ Base + k <= n /\ n >= k
         /\ k >= 1 => vstack[n] = Nth(0) /\ n \in 1 .. n /\ (IsInt(Nth(0)) <=> vstack[n].t = "int")
                      /\ (~ IsInt(Nth(0)) => vstack[n].t = "ptr")
         /\ k >= 2 => vstack[n - 1] = Nth(1) /\ n - 1 \in 1 .. n /\ (IsInt(Nth(1)) => vstack[n - 1].t = "int")
<1>1. /\ n = Len(vstack) /\ n \in Nat /\ Base \in Nat /\ \A j \in 1 .. n : vstack[j] \in Entries
  BY FreshIs
<1>2. Base + k <= n /\ n >= k
  BY <1>1 DEF Operands
<1>3. k >= 1 => n \in 1 .. n
  BY <1>1, <1>2
<1>4. k >= 2 => n - 1 \in 1 .. n
  BY <1>1, <1>2
<1>5. vstack[n] = Nth(0) /\ vstack[n - 1] = Nth(1)
  BY <1>1 DEF Nth
<1>6. \A j \in 1 .. n : vstack[j].t # "int" => vstack[j].t = "ptr"
  BY <1>1 DEF Entries, Descriptor, Types
<1> QED
  BY <1>2, <1>3, <1>4, <1>5, <1>6 DEF IsInt

\* The end of an expression.
LEMMA FinePop == ASSUME NEW n, Fresh(n), Pop PROVE \E m : Keeping(m)
<1>1. Fine(Now, n, << >>) /\ n \in Nat /\ n <= MaxDepth /\ MaxDepth \in Nat /\ Base \in Nat /\ Onto(Now, Now, Base, n)
  BY FreshIs
<1>2. Base + 1 <= n /\ n >= 1
  BY OperandsAre DEF Pop
<1>3. Fine(Drop(Now), n - 1, << >>) /\ n - 1 \in Nat /\ n - 1 <= MaxDepth /\ Base < n
  BY <1>1, <1>2, FineDrop
<1>4. Onto(Now, Drop(Now), Base, n - 1)
  BY <1>1, <1>3, ThenDrop
<1> QED
  BY <1>3, <1>4, KeepingOnto DEF Pop

\* The operator *.
LEMMA FineIndirection == ASSUME NEW n, Fresh(n), Indirection PROVE \E m : Keeping(m)
<1>1. /\ Fine(Now, n, << >>) /\ n \in Nat /\ n <= MaxDepth /\ Base \in Nat /\ Onto(Now, Now, Base, n)
      /\ Now.vs = vstack
  BY FreshIs
<1>2. Base + 1 <= n /\ n >= 1 /\ vstack[n].t = "ptr"
  BY OperandsAre DEF Indirection
<1>3. Fine(indir(Now), n, << >>) /\ Base < n
  <2>1. Now.vs[n].t = "ptr" /\ n >= 1 /\ Base < n
    BY <1>1, <1>2
  <2>2. Fine(indir(Now), n, << >>)
    BY <1>1, <2>1, FineIndir
  <2> QED
    BY <2>1, <2>2
<1>4. Onto(Now, indir(Now), Base, n)
  BY <1>1, <1>2, <1>3, ThenIndir
<1> QED
  BY <1>1, <1>3, <1>4, KeepingOnto DEF Indirection

\* gen_op() of two ints.
LEMMA FineBinary == ASSUME NEW n, Fresh(n), NEW op \in Op, Binary(op) PROVE \E m : Keeping(m)
<1>1. /\ Fine(Now, n, << >>) /\ n \in Nat /\ n <= MaxDepth /\ MaxDepth \in Nat /\ Base \in Nat /\ Onto(Now, Now, Base, n)
      /\ Now.vs = vstack
  BY FreshIs
<1>2. Base + 2 <= n /\ n >= 2 /\ vstack[n - 1].t = "int"
  BY OperandsAre DEF Binary
<1>3. Fine(gen_op(Now, op), n - 1, << >>) /\ n - 1 \in Nat /\ n - 1 <= MaxDepth
  BY <1>1, <1>2, FineOp
<1>4. Onto(Now, gen_op(Now, op), Base, n - 1)
  BY <1>1, <1>2, ThenOp
<1> QED
  BY <1>3, <1>4, KeepingOnto DEF Binary

\* The left side of a compound assignment.
LEMMA FineCompound == ASSUME NEW n, Fresh(n), CompoundPlace PROVE \E m : Keeping(m)
<1>1. /\ Fine(Now, n, << >>) /\ n \in Nat /\ n <= MaxDepth /\ MaxDepth \in Nat /\ Base \in Nat /\ Onto(Now, Now, Base, n)
      /\ Now.vs = vstack /\ VInv /\ n = Len(vstack)
  BY FreshIs
<1>2. n >= 1 /\ vstack[n].t = "int" /\ vstack[n].lval
  BY OperandsAre DEF CompoundPlace, Assignable
<1>3. Fine(vdup(Now), n + 1, << >>)
  BY <1>1, <1>2, FineDup
<1>4. Onto(Now, vdup(Now), Base, n + 1)
  BY <1>1, Doubling DEF CompoundPlace
<1>5. n + 1 <= MaxDepth /\ n + 1 \in Nat
  BY <1>1 DEF CompoundPlace, Room
<1> QED
  BY <1>3, <1>4, <1>5, KeepingOnto DEF CompoundPlace

\* An assignment.
LEMMA FineAssign == ASSUME NEW n, Fresh(n), Assign PROVE \E m : Keeping(m)
<1>1. Fine(Now, n, << >>) /\ n \in Nat /\ n <= MaxDepth /\ MaxDepth \in Nat /\ Base \in Nat /\ Onto(Now, Now, Base, n)
  BY FreshIs
<1>2. Base + 2 <= n /\ n >= 2
  BY OperandsAre DEF Assign
<1>3. Fine(vstore(Now), n - 1, << >>) /\ n - 1 \in Nat /\ n - 1 <= MaxDepth
  BY <1>1, <1>2, FineStore
<1>4. Onto(Now, vstore(Now), Base, n - 1)
  BY <1>1, <1>2, ThenStore
<1> QED
  BY <1>3, <1>4, KeepingOnto DEF Assign

\* inc().
LEMMA FineInc == ASSUME NEW n, Fresh(n), NEW post \in BOOLEAN, Inc(post) PROVE \E m : Keeping(m)
<1> DEFINE two == vdup(Now)  d == gv_dup(two)  three == vrotb(vrotb(d, 3), 3)
<1>1. /\ Fine(Now, n, << >>) /\ n \in Nat /\ n <= MaxDepth /\ MaxDepth \in Nat /\ Base \in Nat /\ Onto(Now, Now, Base, n)
      /\ Now.vs = vstack /\ VInv /\ n = Len(vstack) /\ Good(Now) /\ vstack \in Seq(Entries)
  BY FreshIs, GoodIs
<1>2. n >= 1 /\ n \in 1 .. n /\ vstack[n].t = "int" /\ vstack[n].lval
  BY OperandsAre DEF Inc, Assignable
<1>3. Onto(Now, Increased(post), Base, n) /\ Compile(Increased(post))
  BY <1>1, IncOnto
<1>4. Fine(two, n + 1, << >>) /\ two.vs[n + 1].t = "int"
  <2>1. Fine(two, n + 1, << >>) /\ two.vs = Append(vstack, vstack[n])
    BY <1>1, <1>2, FineDup
  <2> HIDE DEF two
  <2> QED
    BY <1>1, <1>2, <2>1
<1>5. Fine(Increased(post), n, << >>)
  <2>1. CASE post
    <3>1. /\ n + 1 >= 1 /\ n + 1 + 1 = n + 2 /\ n + 2 >= 3 /\ n + 2 - 1 = n + 1 /\ n + 1 - 1 = n /\ n + 2 >= 2
          /\ n + 1 \in 1 .. n + 1
      BY <1>1, <1>2
    <3> HIDE DEF two
    <3>2. Fine(d, n + 2, << >>) /\ d.vs[n + 1].t = "int"
      <4>1. Fine(d, n + 1 + 1, << >>) /\ d.vs[n + 1].t = two.vs[n + 1].t
        BY <1>4, <3>1, FineGvDup
      <4> QED
        BY <1>4, <3>1, <4>1
    <3> HIDE DEF d
    <3>3. Fine(three, n + 2, << >>) /\ three.vs[n + 2].t = "int"
      <4>2. \A k \in Int : Fine(d, k, << >>) /\ k >= 3 => Fine(three, k, << >>) /\ three.vs[k].t = d.vs[k - 1].t
        BY RotatedTwice
      <4> HIDE DEF three
      <4>1. Fine(three, n + 2, << >>) /\ three.vs[n + 2].t = d.vs[n + 2 - 1].t
        BY <3>1, <3>2, <4>2
      <4> QED
        BY <3>1, <3>2, <4>1
    <3>4. Increased(post) = Drop(New(three))
      BY <2>1 DEF Increased, Twice, d, two
    <3> HIDE DEF three
    <3>5. Fine(New(three), n + 2 - 1, << >>)
      BY <3>1, <3>3, FineNew
    <3>6. Fine(New(three), n + 1, << >>)
      BY <3>1, <3>5
    <3>8. \A k \in Int : Fine(New(three), k, << >>) /\ k >= 1 => Fine(Drop(New(three)), k - 1, << >>)
      BY FineDrop
    <3>7. Fine(Drop(New(three)), n + 1 - 1, << >>)
      BY <1>1, <3>1, <3>6, <3>8
    <3> QED
      BY <3>1, <3>4, <3>7
  <2>2. CASE ~ post
    <3>1. Increased(post) = New(two)
      BY <2>2 DEF Increased
    <3>2. n + 1 >= 2 /\ n + 1 - 1 = n
      BY <1>1, <1>2
    <3> HIDE DEF two
    <3>4. \A k \in Int : Fine(two, k, << >>) /\ k >= 2 /\ two.vs[k].t = "int" => Fine(New(two), k - 1, << >>)
      BY FineNew
    <3>3. Fine(New(two), n + 1 - 1, << >>)
      BY <1>1, <1>4, <3>2, <3>4
    <3> QED
      BY <3>1, <3>2, <3>3
  <2> QED
    BY <2>1, <2>2
<1> QED
  BY <1>1, <1>3, <1>5, KeepingOnto

\* A call.
LEMMA FineCalls == ASSUME NEW n, Fresh(n), NEW k \in 1 .. 2, Call(k) PROVE \E m : Keeping(m)
<1> DEFINE x == vcheck_cmp(Now)
<1>1. /\ Fine(Now, n, << >>) /\ n \in Nat /\ n <= MaxDepth /\ MaxDepth \in Nat /\ Base \in Nat
      /\ Now.vs = vstack /\ Good(Now) /\ n = Len(vstack)
  BY FreshIs
<1>2. Base + k <= n /\ n >= k /\ Base < n /\ n - k + 1 \in Nat /\ n - k + 1 <= MaxDepth
  BY <1>1, OperandsAre DEF Call
<1>3. Fine(x, n, << >>)
  BY <1>1, FineCheck
<1>4. Onto(Now, x, Base, n)
  BY <1>1, <1>2, CheckOnto
<1> HIDE DEF x
<1>5. Fine(gfunc_call(x, k), n - k + 1, << >>)
  BY <1>2, <1>3, FineCall
<1>6. Onto(Now, gfunc_call(x, k), Base, n - k + 1)
  BY <1>2, <1>4, ThenCall
<1> QED
  BY <1>2, <1>5, <1>6, KeepingOnto DEF Call, x

\* __atomic_load() to the global.
LEMMA FineAtomic ==
  ASSUME NEW n, Fresh(n), AtomicLoad, AtomicTarget = "global"
  PROVE  \E m : Keeping(m)
<1> DEFINE e == Const("&g", "ptr")
<1>1. /\ Fine(Now, n, << >>) /\ n \in Nat /\ n <= MaxDepth /\ MaxDepth \in Nat /\ VInv /\ n = Len(vstack)
  BY FreshIs
<1>2. n >= 1 /\ n + 1 >= 2 /\ n + 1 - 1 = n
  BY <1>1, OperandsAre DEF AtomicLoad
<1>3. Onto(Now, Atomic(Global), Base, n) /\ Compile(Atomic(Global))
  BY <1>1, GlobalOnto
<1>4. Fine(Global, n + 1, << >>) /\ Global.vs[n + 1] = e
  <2>1. e \in Entries /\ ~ InSlot(e) /\ e.r \notin Reg \cup {"cmp"}
        /\ Val("&g") \in Meanings /\ \A w : Leads(w, e, Val("&g"))
    BY GlobalPlace
  <2> HIDE DEF e
  <2>2. Global = vsetc(Now, e, Val("&g"))
    BY DEF Global, e
  <2> QED
    BY <1>1, <2>1, <2>2, FineSetc
<1>5. Fine(Atomic(Global), n + 1 - 1, << >>)
  <2>1. \A k \in Int : Fine(Global, k, << >>) /\ k >= 2 /\ Global.vs[k] = e
               => Fine(vstore(vswap(Fetching(indir(Global)))), k - 1, << >>)
    BY FineFetched
  <2> HIDE DEF e
  <2>2. Fine(vstore(vswap(Fetching(indir(Global)))), n + 1 - 1, << >>)
    BY <1>1, <1>2, <1>4, <2>1
  <2> QED
    BY <2>2 DEF Atomic
<1>6. Fine(Atomic(Global), n, << >>)
  BY <1>2, <1>5
<1> QED
  BY <1>1, <1>3, <1>6, KeepingOnto

\* Every operation of an expression computes what it should.
LEMMA FineExpression ==
  ASSUME NEW n, Fresh(n), Expression, AtomicTarget = "global"
  PROVE  \E m : Keeping(m)
  BY FinePushes, FinePop, FineIndirection, FineBinary, FineCompound, FineAssign, FineInc, FineCalls,
     FineAtomic DEF Expression
-----------------------------------------------------------------------------
(***************************************************************************)
(* The end of a step: what is dead is forgotten and ints are renamed.      *)
(***************************************************************************)
Several(w, R, f, F, M) == [w EXCEPT !.reg = R, !.flags = f, !.frame = F, !.means = M]
\* Several fields of a world change.
LEMMA SeveralIs ==
  ASSUME NEW w, World(w), NEW R, NEW f, NEW F, NEW M, Regs(R), NEW u, u = Several(w, R, f, F, M)
  PROVE  /\ World(u) /\ u.reg = R /\ u.flags = f /\ u.frame = F /\ u.means = M
         /\ u.aside = w.aside /\ u.wrong = w.wrong
<1> DEFINE a == w.reg  b == w.flags  c == w.frame  d == w.means  g == w.aside  h == w.wrong
<1>1. w = [reg |-> a, flags |-> b, frame |-> c, means |-> d, aside |-> g, wrong |-> h]
  BY DEF World
<1> HIDE DEF a, b, c, d, g, h
<1>2. u = [reg |-> R, flags |-> f, frame |-> F, means |-> M, aside |-> g, wrong |-> h]
  BY <1>1 DEF Several
<1>3. u = Made(R, f, F, M, g, h)
  BY <1>2 DEF Made
<1> QED
  BY <1>3, Making DEF g, h

\* The cells an entry uses.
Cells(e) ==
  IF e.r \notin {"local", "llocal"} THEN {}
  ELSE e.c - (IF e.r = "llocal" THEN 2 ELSE Size(e.t)) + 1 .. e.c

\* Forgetting the dead keeps what the entries lead to.
LEMMA ForgetIs ==
  ASSUME NEW w, World(w), NEW E, NEW u, u = Forget(w, E)
  PROVE  Runs(w, u) /\ \A e \in E : Keeps(w, u, e)
<1> DEFINE A == UNION {Cells(e) : e \in E}
           R == [r \in Reg |-> IF \E e \in E : e.r = r THEN w.reg[r] ELSE "junk"]
           f == IF \E e \in E : e.r = "cmp" THEN w.flags ELSE "junk"
           D == A \cap DOMAIN w.frame
           F == [l \in D |-> w.frame[l]]
<1>1. u = [w EXCEPT !.reg = R, !.flags = f, !.frame = F]
  BY DEF Forget, Cells, Restrict
<1>2. \A e \in E : e.r \in Reg => R[e.r] = w.reg[e.r]
  OBVIOUS
<1>3. \A e \in E : e.r = "cmp" => f = w.flags
  OBVIOUS
<1>4. Regs(R)
  BY DEF Regs
<1>5. \A e \in E : Cells(e) \subseteq A
  OBVIOUS
<1>6. DOMAIN F = D /\ \A l \in D : F[l] = w.frame[l]
  OBVIOUS
<1>7. \A e \in E : InSlot(e) => Cells(e) = e.c - Width(e) + 1 .. e.c
  BY DEF InSlot, Cells, Width
<1> HIDE DEF R, f, F, A
<1>8. /\ World(u) /\ u.reg = R /\ u.flags = f /\ u.frame = F /\ u.means = w.means
      /\ u.aside = w.aside /\ u.wrong = w.wrong
  <2> DEFINE v == [w EXCEPT !.reg = R]  z == [v EXCEPT !.flags = f]
  <2>1. u = [z EXCEPT !.frame = F]
    BY <1>1
  <2>2. v = Made(R, w.flags, w.frame, w.means, w.aside, w.wrong)
    BY Replaced
  <2> HIDE DEF v
  <2>3. /\ World(v) /\ v.reg = R /\ v.frame = w.frame /\ v.means = w.means
        /\ v.aside = w.aside /\ v.wrong = w.wrong
    BY <1>4, <2>2, Making
  <2>7. z = Made(v.reg, f, v.frame, v.means, v.aside, v.wrong)
    BY <2>3, Replaced
  <2> HIDE DEF z
  <2>4. z = Made(R, f, w.frame, w.means, w.aside, w.wrong)
    BY <2>3, <2>7
  <2>5. /\ World(z) /\ z.reg = R /\ z.flags = f /\ z.means = w.means
        /\ z.aside = w.aside /\ z.wrong = w.wrong
    BY <1>4, <2>4, Making
  <2>8. u = Made(z.reg, z.flags, F, z.means, z.aside, z.wrong)
    BY <2>1, <2>5, Replaced
  <2>6. u = Made(R, f, F, w.means, w.aside, w.wrong)
    BY <2>5, <2>8
  <2> QED
    BY <1>4, <2>6, Making
<1>9. ASSUME NEW e \in E PROVE Keeps(w, u, e)
  <2>1. InSlot(e) => \A l \in e.c - Width(e) + 1 .. e.c : l \in D <=> l \in DOMAIN w.frame
    <3>1. CASE InSlot(e)
      <4>1. e.c - Width(e) + 1 .. e.c \subseteq A
        BY <1>5, <1>7, <3>1
      <4> QED
        BY <4>1
    <3> QED
      BY <3>1
  <2> QED
    BY <1>2, <1>3, <1>6, <1>8, <2>1 DEF Keeps
<1> QED
  BY <1>8, <1>9 DEF Runs

\* The new name of a value.
Held(s, k) == s[k].r # "const" /\ s[k].t = "int"
SameAs(w, s, v) == {k \in DOMAIN s : Held(s, k) /\ w.means[k] = Val(v)}
NameOf(w, s, v) ==
  IF v = "junk" \/ SameAs(w, s, v) = {} THEN v ELSE ValueOf[Min(SameAs(w, s, v))]
Noted(w, s) ==
  [k \in DOMAIN w.means |-> IF Held(s, k) /\ w.means[k][1] = "val"
                            THEN Val(NameOf(w, s, w.means[k][2])) ELSE w.means[k]]

\* Rename() is what it says, field by field.
LEMMA RenameIs ==
  ASSUME NEW w, World(w), NEW s, NEW u, u = Rename(w, s)
  PROVE  /\ World(u) /\ \A r \in Reg : u.reg[r] = NameOf(w, s, w.reg[r])
         /\ u.flags = NameOf(w, s, w.flags)
         /\ DOMAIN u.frame = DOMAIN w.frame /\ \A l \in DOMAIN w.frame : u.frame[l] = NameOf(w, s, w.frame[l])
         /\ u.means = Noted(w, s) /\ u.aside = w.aside /\ u.wrong = w.wrong
<1> DEFINE R == [r \in Reg |-> NameOf(w, s, w.reg[r])]
           F == [l \in DOMAIN w.frame |-> NameOf(w, s, w.frame[l])]
<1>1. u = Several(w, R, NameOf(w, s, w.flags), F, Noted(w, s))
  BY DEF Rename, Several, NameOf, SameAs, Held, Noted
<1>2. Regs(R)
  BY DEF Regs
<1>3. \A r \in Reg : R[r] = NameOf(w, s, w.reg[r])
  OBVIOUS
<1>4. DOMAIN F = DOMAIN w.frame /\ \A l \in DOMAIN w.frame : F[l] = NameOf(w, s, w.frame[l])
  OBVIOUS
<1> HIDE DEF R, F
<1> QED
  BY <1>1, <1>2, <1>3, <1>4, SeveralIs

\* There is a name for every entry.
LEMMA ValuesNamed == MaxDepth \in Nat /\ \A k \in 1 .. MaxDepth : ValueOf[k] \in Ints
<1>1. ValueOf \in Injection(1 .. MaxDepth, Names)
  BY NamesAssumption DEF ValueOf
<1>2. ValueOf \in [1 .. MaxDepth -> Names]
  BY <1>1 DEF Injection
<1> QED
  BY <1>2, VStackAssumption DEF Ints

\* Addresses keep their names, an int gets the name of an int.
LEMMA NamesAre ==
  ASSUME NEW s \in Seq(Entries), NEW n, n = Len(s), n <= MaxDepth, NEW a, NEW w, Right(w, s, n, a)
  PROVE  /\ \A v \in Pointers : NameOf(w, s, v) = v
         /\ \A v \in Ints : NameOf(w, s, v) \in Ints
<1>1. n \in Nat /\ DOMAIN s = 1 .. n /\ \A k \in 1 .. n : Leads(w, s[k], w.means[k])
  BY DEF Right
<1>2. MaxDepth \in Nat /\ \A k \in 1 .. MaxDepth : ValueOf[k] \in Ints
  BY ValuesNamed
<1>3. ASSUME NEW v \in Pointers PROVE SameAs(w, s, v) = {}
  <2> SUFFICES ASSUME NEW k \in 1 .. n, Held(s, k), w.means[k] = Val(v) PROVE FALSE
    BY <1>1 DEF SameAs
  <2>1. Val(v) \in IntMeanings
    BY <1>1 DEF Leads, Fits, Held
  <2>2. v \in Ints
    BY <2>1, Named DEF IntMeanings
  <2> QED
    BY <2>2, NamesAssumption DEF Pointers, Ints
<1>4. ASSUME NEW v \in Ints, SameAs(w, s, v) # {} PROVE ValueOf[Min(SameAs(w, s, v))] \in Ints
  <2>1. SameAs(w, s, v) \subseteq 1 .. n
    BY <1>1 DEF SameAs
  <2>2. SameAs(w, s, v) \subseteq Nat
    BY <1>1, <2>1
  <2>3. Min(SameAs(w, s, v)) \in SameAs(w, s, v)
    BY <1>4, <2>2, MinIn
  <2>4. Min(SameAs(w, s, v)) \in 1 .. MaxDepth
    BY <1>1, <1>2, <2>1, <2>3
  <2> QED
    BY <1>2, <2>4
<1> QED
  BY <1>3, <1>4 DEF NameOf

\* A slot's contents are renamed with the rest.
LEMMA SlotNamed ==
  ASSUME NEW w, NEW s, NEW u, DOMAIN u.frame = DOMAIN w.frame,
         \A l \in DOMAIN w.frame : u.frame[l] = NameOf(w, s, w.frame[l]),
         NEW c, NEW t, Slot(w, c, t) # "junk"
  PROVE  Slot(u, c, t) = NameOf(w, s, Slot(w, c, t))
  BY DEF Slot

\* Descriptor and note are renamed alike.
LEMMA RenameLeads ==
  ASSUME NEW s \in Seq(Entries), NEW n, n = Len(s), n <= MaxDepth, NEW a, NEW w, Right(w, s, n, a),
         NEW u, u = Rename(w, s), NEW k \in 1 .. n
  PROVE  Leads(u, s[k], Noted(w, s)[k]) /\ Noted(w, s)[k] \in Meanings
<1> DEFINE e == s[k]  x == w.means[k]  y == Noted(w, s)[k]  N(v) == NameOf(w, s, v)
<1>1. /\ World(w) /\ n \in Nat /\ DOMAIN s = 1 .. n /\ e \in Entries
      /\ Place(w, e) = x /\ Fits(e.t, x) /\ k \in DOMAIN w.means
  BY DEF Right, Leads
<1>2. e \in Descriptor /\ Proper(e) /\ e.c \in Nat /\ e.t \in Types /\ e.r \in Kinds
  BY <1>1 DEF Entries, Descriptor
<1>3. (\A v \in Pointers : N(v) = v) /\ (\A v \in Ints : N(v) \in Ints)
  BY NamesAre
<1>4. /\ \A r \in Reg : u.reg[r] = N(w.reg[r])
      /\ u.flags = N(w.flags)
      /\ DOMAIN u.frame = DOMAIN w.frame /\ \A l \in DOMAIN w.frame : u.frame[l] = N(w.frame[l])
  BY <1>1, RenameIs
<1>5. y = IF Held(s, k) /\ x[1] = "val" THEN Val(N(x[2])) ELSE x
  BY <1>1 DEF Noted
<1>6. \A v : Val(v)[1] = "val" /\ Val(v)[2] = v /\ Mem(v)[1] # "val" /\ Var(v)[1] # "val"
  BY DEF Val, Mem, Var
<1>7. "junk" \notin Ints /\ "junk" \notin Pointers
  BY NamesAssumption DEF Ints, Pointers
<1>8. Held(s, k) <=> e.r # "const" /\ e.t = "int"
  BY DEF Held
<1> HIDE DEF e, x, y, N
<1>9. ASSUME e.r # "const", NEW v, x = Val(v) PROVE y = Val(N(v)) /\ Fits(e.t, y) /\ v # "junk"
  <2>1. CASE e.t = "int"
    <3>1. Val(v) \in IntMeanings
      BY <1>1, <1>9, <2>1 DEF Fits
    <3>2. v \in Ints
      BY <3>1, Named DEF IntMeanings
    <3>3. y = Val(N(v))
      BY <1>5, <1>6, <1>8, <1>9, <2>1
    <3>4. N(v) \in Ints
      BY <1>3, <3>2
    <3> QED
      BY <1>7, <2>1, <3>2, <3>3, <3>4 DEF Fits, IntMeanings
  <2>2. CASE e.t = "ptr"
    <3>1. Val(v) \in PtrMeanings
      BY <1>1, <1>9, <2>2 DEF Fits
    <3>2. v \in Pointers
      BY <3>1, Named
    <3>3. y = Val(v) /\ N(v) = v
      BY <1>3, <1>5, <1>8, <1>9, <2>2, <3>2
    <3> QED
      BY <1>1, <1>7, <1>9, <3>2, <3>3
  <2> QED
    BY <1>2, <2>1, <2>2 DEF Types
<1>10. ASSUME NEW v, x = Mem(v) PROVE y = Mem(N(v)) /\ Fits(e.t, y) /\ v # "junk"
  <2>1. y = x
    BY <1>5, <1>6, <1>10
  <2>2. e.t # "ptr"
    BY <1>1, <1>10, Named DEF Fits, PtrMeanings
  <2>3. Mem(v) \in IntMeanings
    BY <1>1, <1>10, <2>2 DEF Fits
  <2>4. v \in Pointers
    BY <2>3, Named DEF IntMeanings
  <2> QED
    BY <1>1, <1>3, <1>7, <1>10, <2>1, <2>4
<1>11. ASSUME e.r \in Reg PROVE Leads(u, e, y)
  <2>1. e.r # "const" /\ u.reg[e.r] = N(w.reg[e.r])
    BY <1>4, <1>11 DEF Reg
  <2>2. CASE e.lval
    <3>1. x = Mem(w.reg[e.r]) /\ Place(u, e) = Mem(u.reg[e.r])
      BY <1>1, <1>11, <2>2 DEF Place, Reg
    <3> QED
      BY <1>10, <2>1, <3>1 DEF Leads
  <2>3. CASE ~ e.lval
    <3>1. x = Val(w.reg[e.r]) /\ Place(u, e) = Val(u.reg[e.r])
      BY <1>1, <1>11, <2>3 DEF Place, Reg
    <3> QED
      BY <1>9, <2>1, <3>1 DEF Leads
  <2> QED
    BY <2>2, <2>3
<1>12. ASSUME e.r = "const" PROVE Leads(u, e, y)
  <2>1. Place(u, e) = Place(w, e)
    BY <1>12 DEF Place, Reg
  <2>2. y = x
    BY <1>5, <1>8, <1>12
  <2> QED
    BY <1>1, <2>1, <2>2 DEF Leads
<1>13. ASSUME e.r = "cmp" PROVE Leads(u, e, y)
  <2>1. x = Val(w.flags) /\ Place(u, e) = Val(u.flags) /\ e.r # "const"
    BY <1>1, <1>13 DEF Place, Reg
  <2> QED
    BY <1>4, <1>9, <2>1 DEF Leads
<1>14. ASSUME e.r = "local" PROVE Leads(u, e, y)
  <2>1. e.r # "const" /\ e.r \notin Reg /\ e.r # "cmp"
    BY <1>14 DEF Reg
  <2>2. CASE e.c <= Locals
    <3>1. Place(w, e) = Var(e.c) /\ Place(u, e) = Var(e.c)
      BY <1>14, <2>1, <2>2 DEF Place
    <3>2. y = x
      BY <1>1, <1>5, <1>6, <3>1
    <3> QED
      BY <1>1, <3>1, <3>2 DEF Leads
  <2>3. CASE ~ (e.c <= Locals)
    <3>1. x = Val(Slot(w, e.c, e.t)) /\ Place(u, e) = Val(Slot(u, e.c, e.t))
      BY <1>1, <1>14, <2>1, <2>3 DEF Place
    <3>2. y = Val(N(Slot(w, e.c, e.t))) /\ Fits(e.t, y) /\ Slot(w, e.c, e.t) # "junk"
      BY <1>9, <2>1, <3>1
    <3>3. Slot(u, e.c, e.t) = N(Slot(w, e.c, e.t))
      BY <1>4, <3>2, SlotNamed DEF N
    <3> QED
      BY <3>1, <3>2, <3>3 DEF Leads
  <2> QED
    BY <2>2, <2>3
<1>15. ASSUME e.r = "llocal" PROVE Leads(u, e, y)
  <2>1. e.r # "const" /\ e.r \notin Reg /\ e.r # "cmp" /\ e.r # "local"
    BY <1>15 DEF Reg
  <2>2. x = Mem(Slot(w, e.c, "ptr")) /\ Place(u, e) = Mem(Slot(u, e.c, "ptr"))
    BY <1>1, <1>15, <2>1 DEF Place
  <2>3. y = Mem(N(Slot(w, e.c, "ptr"))) /\ Fits(e.t, y) /\ Slot(w, e.c, "ptr") # "junk"
    BY <1>10, <2>2
  <2>4. Slot(u, e.c, "ptr") = N(Slot(w, e.c, "ptr"))
    BY <1>4, <2>3, SlotNamed DEF N
  <2> QED
    BY <2>2, <2>3, <2>4 DEF Leads
<1>16. Leads(u, e, y)
  BY <1>2, <1>11, <1>12, <1>13, <1>14, <1>15 DEF Kinds
<1>17. y \in Meanings
  BY <1>16, Values DEF Leads
<1> QED
  BY <1>16, <1>17 DEF e, y

\* The fields an entry does not use lead nowhere.
LEMMA TidyLeads ==
  ASSUME NEW e \in Entries, NEW w, NEW x, Leads(w, e, x)
  PROVE  Leads(w, Tidy(e), x)
<1>1. Tidy(e).r = e.r /\ Tidy(e).lval = e.lval /\ Tidy(e).t = e.t
  BY Tidying
<1>2. CASE e.r \in Reg \cup {"cmp"}
  <2>1. Place(w, Tidy(e)) = Place(w, e)
    BY <1>1, <1>2 DEF Place
  <2> QED
    BY <1>1, <2>1 DEF Leads
<1>3. CASE e.r \notin Reg \cup {"cmp"}
  BY <1>3 DEF Tidy
<1> QED
  BY <1>2, <1>3

\* A world in which the dead is forgotten and ints are renamed.
Tidied(s) == [k \in DOMAIN s |-> Tidy(s[k])]
Settled(w, s) == Rename(Forget(w, Range(s)), s)
\* It is right if the other was.
LEMMA SettleRight ==
  ASSUME NEW s \in Seq(Entries), NEW n, n = Len(s), n <= MaxDepth, NEW a, NEW w, Right(w, s, n, a)
  PROVE  Right(Settled(w, s), Tidied(s), n, a)
<1> DEFINE f == Forget(w, Range(s))  u == Rename(f, s)  t == Tidied(s)  M == Noted(f, s)
<1>1. /\ World(w) /\ w.wrong = FALSE /\ w.aside = a /\ n \in Nat /\ DOMAIN s = 1 .. n
      /\ w.means \in Seq(Meanings) /\ Len(w.means) = n
      /\ \A k \in 1 .. n : Leads(w, s[k], w.means[k]) /\ s[k] \in Entries /\ s[k] \in Range(s)
  BY DEF Right, Range
<1>2. Runs(w, f) /\ \A e \in Range(s) : Keeps(w, f, e)
  BY <1>1, ForgetIs
<1> HIDE DEF f
<1>3. \A k \in 1 .. n : Leads(f, s[k], w.means[k])
  BY <1>1, <1>2, LeadsKept
<1>4. Right(f, s, n, a)
  BY <1>1, <1>2, <1>3 DEF Right, Runs
<1>5. World(u) /\ u.means = M /\ u.aside = a /\ u.wrong = FALSE
  BY <1>1, <1>2, RenameIs DEF Runs
<1>6. \A k \in 1 .. n : Leads(u, s[k], M[k]) /\ M[k] \in Meanings
  BY <1>4, RenameLeads
<1>7. M \in Seq(Meanings) /\ Len(M) = n
  <2>1. DOMAIN f.means = 1 .. n
    BY <1>1, <1>2 DEF Runs
  <2>2. DOMAIN M = 1 .. n /\ M = [k \in 1 .. n |-> M[k]]
    BY <2>1 DEF Noted
  <2> HIDE DEF M
  <2> QED
    BY <1>1, <1>6, <2>2
<1>8. \A k \in 1 .. n : t[k] = Tidy(s[k])
  BY <1>1 DEF Tidied
<1>9. Len(t) = n
  <2>1. t = [k \in 1 .. n |-> t[k]]
    BY <1>1 DEF Tidied
  <2> HIDE DEF t
  <2> QED
    BY <1>1, <2>1
<1> HIDE DEF u, t, M
<1>10. \A k \in 1 .. n : Leads(u, t[k], u.means[k])
  BY <1>1, <1>5, <1>6, <1>8, TidyLeads
<1>11. Right(u, t, n, a)
  BY <1>5, <1>7, <1>9, <1>10 DEF Right
<1> QED
  BY <1>11 DEF u, t, f, Settled
-----------------------------------------------------------------------------
(***************************************************************************)
(* The ?: and the worlds parked at them.                                   *)
(***************************************************************************)
\* What the worlds parked at a conditional will find on the stack.
Waiting(s, d) == SubSeq(s, 1, d.base) \o (IF d.arm = "else" THEN <<d.sv>> ELSE << >>)
AllRight(W, s) == \A w \in W : Right(w, s, Len(s), << >>)
ParkedOk(s, C) ==
  \A k \in DOMAIN C : C[k].parked # {} =>
    /\ Outer(C, k) /\ (C[k].c = -1 \/ Dead(C[k]))
    /\ AllRight(C[k].parked, Waiting(s, C[k]))
Computing ==
  /\ Len(vstack) <= MaxDepth /\ (~ Live => worlds = {})
  /\ AllRight(worlds, vstack) /\ ParkedOk(vstack, conds)

\* It depends on what is below the base only.
LEMMA WaitingSame ==
  ASSUME NEW s \in Seq(Entries), NEW t \in Seq(Entries), NEW d, d.base \in Nat,
         d.base <= Len(s), d.base <= Len(t), \A k \in 1 .. d.base : t[k] = s[k]
  PROVE  Waiting(t, d) = Waiting(s, d)
<1> DEFINE b == d.base  p == SubSeq(s, 1, b)  q == SubSeq(t, 1, b)
<1>1. b \in 0 .. Len(s) /\ b \in 0 .. Len(t)
  OBVIOUS
<1>2. p \in Seq(Entries) /\ Len(p) = b /\ \A k \in 1 .. b : p[k] = s[k]
  BY <1>1, Prefix
<1>3. q \in Seq(Entries) /\ Len(q) = b /\ \A k \in 1 .. b : q[k] = t[k]
  BY <1>1, Prefix
<1>4. Waiting(s, d) = p \o (IF d.arm = "else" THEN <<d.sv>> ELSE << >>)
      /\ Waiting(t, d) = q \o (IF d.arm = "else" THEN <<d.sv>> ELSE << >>)
  BY DEF Waiting
<1> HIDE DEF p, q
<1>5. p = [k \in 1 .. b |-> p[k]] /\ q = [k \in 1 .. b |-> q[k]]
  BY <1>2, <1>3
<1>6. \A k \in 1 .. b : p[k] = q[k]
  BY <1>2, <1>3
<1>7. p = q
  BY <1>5, <1>6
<1> QED
  BY <1>4, <1>7

\* An operation in an arm, which moves entries below it only where no world is parked
\* or nothing is in a register, does nothing to the worlds that wait.
LEMMA StillParked ==
  ASSUME VInv, ParkedOk(vstack, conds), NEW t \in Seq(Entries), Base <= Len(t),
         \A i \in 1 .. Base : (Live /\ vstack[i].r \in Reg \cup {"cmp"}) \/ t[i] = vstack[i]
  PROVE  ParkedOk(t, conds)
<1>1. /\ Len(vstack) \in Nat /\ Base \in Nat /\ Base = BaseOf(conds) /\ Base <= Len(vstack)
      /\ IsSeq(conds) /\ (Live <=> Suppressed(conds) = {})
  BY NowIs
<1>2. CondsOk(vstack, conds) /\ SavedOk(vstack, conds) /\ vstack \in Seq(Entries)
  BY DEF VInv, Holds, StackOk, Sound
<1>3. \A k \in DOMAIN conds : conds[k].base \in Nat /\ conds[k].base <= Base
  BY <1>1, <1>2, BaseTop
<1> SUFFICES ASSUME NEW k \in DOMAIN conds, conds[k].parked # {}
             PROVE  /\ Outer(conds, k) /\ (conds[k].c = -1 \/ Dead(conds[k]))
                    /\ AllRight(conds[k].parked, Waiting(t, conds[k]))
  BY DEF ParkedOk
<1>4. /\ Outer(conds, k) /\ (conds[k].c = -1 \/ Dead(conds[k]))
      /\ AllRight(conds[k].parked, Waiting(vstack, conds[k]))
  BY DEF ParkedOk
<1> DEFINE d == conds[k]
<1>5. d.base \in Nat /\ d.base <= Base /\ d.base <= Len(vstack) /\ d.base <= Len(t)
  <2>1. \A x, y, z, v \in Int : x <= y /\ y <= z /\ y <= v => x <= z /\ x <= v
    OBVIOUS
  <2>2. Len(t) \in Nat /\ d.base \in Nat /\ d.base <= Base
    BY <1>3
  <2> QED
    BY <1>1, <2>1, <2>2
<1>6. ASSUME NEW i \in 1 .. d.base PROVE t[i] = vstack[i]
  <2>1. i \in 1 .. Base
    BY <1>1, <1>5
  <2>2. CASE Live
    <3>1. Suppressed(conds) = {}
      BY <1>1, <2>2
    <3>2. d.c = -1 /\ Outside(conds, k)
      BY <1>4, <3>1 DEF Suppressed, Outside
    <3>3. vstack[i].r \notin Reg \cup {"cmp"}
      BY <1>2, <3>2 DEF SavedOk, Saved
    <3> QED
      BY <2>1, <3>3
  <2> QED
    BY <2>1, <2>2
<1>7. Waiting(t, d) = Waiting(vstack, d)
  <2> HIDE DEF d
  <2> QED
    BY <1>2, <1>5, <1>6, WaitingSame
<1> QED
  BY <1>4, <1>7

\* The stack with unused fields forgotten.
LEMMA TidiedIs ==
  ASSUME NEW s \in Seq(Entries)
  PROVE  /\ Tidied(s) \in Seq(Entries) /\ Len(Tidied(s)) = Len(s)
         /\ \A k \in 1 .. Len(s) : Tidied(s)[k] = Tidy(s[k])
<1> DEFINE t == Tidied(s)  n == Len(s)
<1>1. t = [k \in 1 .. n |-> Tidy(s[k])] /\ n \in Nat /\ \A k \in 1 .. n : s[k] \in Entries
  BY DEF Tidied
<1>2. \A k \in 1 .. n : Tidy(s[k]) \in Entries
  BY <1>1, Tidying
<1> HIDE DEF t, n
<1>3. t \in Seq(Entries) /\ Len(t) = n /\ \A k \in 1 .. n : t[k] = Tidy(s[k])
  BY <1>1, <1>2
<1> QED
  BY <1>3 DEF t, n

\* All the worlds at the end of an operation.
LEMMA SettlesAll ==
  ASSUME NEW s \in Seq(Entries), Len(s) <= MaxDepth, NEW W, AllRight(W, s)
  PROVE  AllRight({Settled(w, s) : w \in W}, Tidied(s))
<1> SUFFICES ASSUME NEW w \in W
             PROVE  Right(Settled(w, s), Tidied(s), Len(Tidied(s)), << >>)
  BY DEF AllRight
<1>1. Right(w, s, Len(s), << >>)
  BY DEF AllRight
<1>2. Right(Settled(w, s), Tidied(s), Len(s), << >>)
  BY <1>1, SettleRight
<1> QED
  BY <1>2, TidiedIs

\* The state after an operation that computes.
LEMMA FineSettle ==
  ASSUME NEW m, NEW n, Fine(m, n, << >>), n <= MaxDepth
  PROVE  /\ AllRight(Settle(m), Tidied(m.vs)) /\ (~ Live => Settle(m) = {})
         /\ Tidied(m.vs) \in Seq(Entries) /\ Len(Tidied(m.vs)) = n
<1>1. m.vs \in Seq(Entries) /\ Len(m.vs) = n /\ Faith(m, n, << >>)
  BY FineIs
<1>2. AllRight(m.worlds, m.vs) /\ (~ Live => m.worlds = {})
  BY <1>1 DEF Faith, AllRight
<1>3. Settle(m) = {Settled(w, m.vs) : w \in m.worlds}
  BY DEF Settle, Settled
<1>4. AllRight(Settle(m), Tidied(m.vs))
  BY <1>1, <1>2, <1>3, SettlesAll
<1> QED
  BY <1>1, <1>2, <1>3, <1>4, TidiedIs

\* An operation of an expression.
LEMMA ComputesOn ==
  ASSUME VInv, Computing, NEW m, Keeping(m)
  PROVE  Computing'
<1>1. /\ Low(Now, m, Base) /\ Compile(m)
  BY DEF Keeping
<1>2. PICK n \in Nat : n <= MaxDepth /\ Fine(m, n, << >>)
  BY DEF Keeping
<1> DEFINE t == Tidied(m.vs)
<1>5. AllRight(Settle(m), t) /\ (~ Live => Settle(m) = {}) /\ t \in Seq(Entries) /\ Len(t) = n
  BY <1>2, FineSettle
<1>6. vstack' = t /\ worlds' = Settle(m) /\ conds' = conds /\ nocode_wanted' = nocode_wanted
  BY <1>1 DEF Compile, Become, Tidied
<1>7. ParkedOk(t, conds)
  <2>1. /\ Len(vstack) \in Nat /\ Base \in Nat /\ Base <= Len(vstack) /\ Now.vs = vstack
        /\ \A k \in 1 .. Len(vstack) : vstack[k] \in Entries
        /\ DOMAIN vstack = 1 .. Len(vstack)
    BY NowIs
  <2>2. \A k \in DOMAIN vstack : Tidy(vstack[k]) = vstack[k]
    BY DEF VInv, Holds, StackOk
  <2>3. /\ Base <= Len(m.vs) /\ Len(m.vs) = n /\ m.vs \in Seq(Entries)
        /\ \A k \in 1 .. Base : (Live /\ vstack[k].r \in Reg \cup {"cmp"}) \/ m.vs[k] = vstack[k]
    BY <1>1, <1>2, <2>1, FineIs DEF Low
  <2>4. \A k \in 1 .. n : t[k] = Tidy(m.vs[k])
    BY <2>3, TidiedIs
  <2>5. \A k \in 1 .. Base : k \in 1 .. n /\ k \in DOMAIN vstack
    BY <2>1, <2>3
  <2> HIDE DEF t
  <2>6. \A k \in 1 .. Base : (Live /\ vstack[k].r \in Reg \cup {"cmp"}) \/ t[k] = vstack[k]
    BY <2>2, <2>3, <2>4, <2>5
  <2> QED
    BY <1>5, <2>3, <2>6, StillParked DEF Computing
<1> HIDE DEF t
<1>8. Live' <=> Live
  BY <1>6 DEF Live
<1> QED
  BY <1>2, <1>5, <1>6, <1>7, <1>8 DEF Computing

\* Between operations, one may begin.
LEMMA FreshNow ==
  ASSUME VInv, Computing
  PROVE  Fresh(Len(vstack))
<1>1. Good(Now) /\ Now.vs = vstack /\ Len(vstack) \in Nat
  BY NowIs
<1>2. Now.worlds = worlds
  BY DEF Now
<1>3. True(Now, << >>)
  BY <1>1, <1>2 DEF Computing, AllRight, True, Faith
<1> QED
  BY <1>1, <1>3 DEF Fresh, Fine, Computing

\* So every operation of an expression keeps the executions right.
LEMMA ExpressionComputes ==
  ASSUME VInv, Computing, AtomicTarget = "global", Expression
  PROVE  Computing'
<1>1. \E m : Keeping(m)
  BY FreshNow, FineExpression
<1> QED
  BY <1>1, ComputesOn

\* The branch of a condition uses what it should.
LEMMA FineBranch ==
  ASSUME NEW m, NEW n, NEW a, Fine(m, n, a), n >= 1
  PROVE  Fine(Branch(m), n - 1, a)
<1> DEFINE used(w) == Place(w, Top(m))
           meant(w) == Last(w.means)
           W == {Uses(w, used(w), meant(w)) : w \in m.worlds}
           y == Ran(m, W)
<1>1. Branch(m) = Drop(y)
  BY DEF Branch, Check, Run, Ran
<1>2. ASSUME NEW w \in m.worlds PROVE Uses(w, used(w), meant(w)) \in m.worlds
  <2>1. /\ World(w) /\ w.wrong = FALSE /\ Len(w.means) = n /\ n \in 1 .. n
        /\ \A k \in 1 .. n : Leads(w, m.vs[k], w.means[k])
    <3>1. n \in Nat /\ n \in 1 .. n
      BY FineIs
    <3> QED
      BY <3>1, Notes
  <2>2. Top(m) = m.vs[n] /\ Last(w.means) = w.means[n]
    BY <2>1, FineIs DEF Last
  <2>3. used(w) = meant(w)
    BY <2>1, <2>2 DEF Leads
  <2> HIDE DEF used, meant
  <2>4. Uses(w, used(w), meant(w)) = w
    BY <2>1, <2>3, UsesRight
  <2> QED
    BY <2>4
<1> HIDE DEF used, meant
<1>3. W \subseteq m.worlds
  BY <1>2
<1> HIDE DEF W
<1>4. Fine(y, n, a)
  BY <1>3, FineFewer
<1> HIDE DEF y
<1>5. Fine(Drop(y), n - 1, a)
  BY <1>4, FineDrop
<1> QED
  BY <1>1, <1>5

\* The condition is ready for its branch, in the flags or a register.
LEMMA FineReady ==
  ASSUME NEW n, Fresh(n), Operands(1), NEW c
  PROVE  Fine(Ready(c), n, << >>)
<1> DEFINE s == save_regs(Now, 1)  g == gv(s, RC_INT)
<1>1. Fine(Now, n, << >>) /\ Good(Now) /\ Now.vs = vstack /\ n = Len(vstack) /\ n \in Nat /\ n >= 1 /\ 1 \in 0 .. n
  BY FreshIs DEF Operands
<1>2. Fine(s, n, << >>)
  <2>1. Spill(Now, s)
    BY <1>1, SavesAll
  <2>2. Good(s) /\ Len(s.vs) = n
    BY <1>1, <2>1 DEF Spill, Stay
  <2>3. Faith(s, n, << >>)
    BY <1>1, FineIs, SavesFaith
  <2> HIDE DEF s
  <2> QED
    BY <1>1, <2>2, <2>3 DEF Fine, True
<1> HIDE DEF s
<1>3. Fine(g, n, << >>)
  <2>1. RC_INT \in Class
    BY DEF Class
  <2> QED
    BY <1>1, <1>2, <2>1, FineGv
<1> HIDE DEF g
<1>4. Ready(c) = IF c >= 0 THEN Now ELSE IF Nth(0).r = "cmp" THEN s ELSE g
  BY DEF Ready, s, g
<1> QED
  BY <1>1, <1>2, <1>3, <1>4

\* Before the second arm, the whole stack below it.
LEMMA WaitingAll ==
  ASSUME NEW s \in Seq(Entries), NEW d, d.base = Len(s), d.arm # "else"
  PROVE  Waiting(s, d) = s
<1> DEFINE p == SubSeq(s, 1, Len(s))
<1>1. p = s
  OBVIOUS
<1>2. Waiting(s, d) = p \o << >>
  BY DEF Waiting
<1> HIDE DEF p
<1> QED
  BY <1>1, <1>2

\* One more conditional, whose worlds are parked at its second arm.
LEMMA Parks ==
  ASSUME NEW s \in Seq(Entries), NEW C, IsSeq(C), ParkedOk(s, C),
         NEW d, d.base = Len(s), d.arm = "then",
         d.parked # {} => Suppressed(C) = {} /\ d.c # 1 /\ (d.c = -1 \/ d.c = 0) /\ AllRight(d.parked, s)
  PROVE  ParkedOk(s, Append(C, d))
<1> DEFINE n == Len(C)  D == Append(C, d)
<1>1. n \in Nat /\ DOMAIN C = 1 .. n
  BY SeqIs
<1>2. DOMAIN D = 1 .. n + 1 /\ D[n + 1] = d /\ \A k \in 1 .. n : D[k] = C[k]
  <2>1. PICK S : C \in Seq(S)
    BY DEF IsSeq
  <2>2. C \in Seq(S \cup {d}) /\ d \in S \cup {d}
    BY <2>1
  <2> QED
    BY <2>2
<1> HIDE DEF D
<1>3. \A i \in Suppressed(D) : i = n + 1 \/ i \in Suppressed(C)
  BY <1>1, <1>2 DEF Suppressed
<1> SUFFICES ASSUME NEW k \in DOMAIN D, D[k].parked # {}
             PROVE  /\ Outer(D, k) /\ (D[k].c = -1 \/ Dead(D[k]))
                    /\ AllRight(D[k].parked, Waiting(s, D[k]))
  BY DEF ParkedOk, D
<1>4. CASE k \in 1 .. n
  <2>1. D[k] = C[k] /\ k \in DOMAIN C /\ k <= n + 1
    BY <1>1, <1>2, <1>4
  <2>2. /\ Outer(C, k) /\ (C[k].c = -1 \/ Dead(C[k]))
        /\ AllRight(C[k].parked, Waiting(s, C[k]))
    BY <2>1 DEF ParkedOk
  <2>3. Outer(D, k)
    BY <1>3, <2>1, <2>2 DEF Outer
  <2> QED
    BY <2>1, <2>2, <2>3
<1>5. CASE k \notin 1 .. n
  <2>1. k = n + 1 /\ D[k] = d
    BY <1>1, <1>2, <1>5
  <2>2. Suppressed(C) = {} /\ (d.c = -1 \/ d.c = 0) /\ AllRight(d.parked, s)
    BY <2>1
  <2>3. Outer(D, k)
    BY <1>1, <1>3, <2>1, <2>2 DEF Outer
  <2>4. Waiting(s, d) = s
    BY WaitingAll
  <2> QED
    BY <2>1, <2>2, <2>3, <2>4 DEF Dead
<1> QED
  BY <1>4, <1>5

\* expr_cond() at the question mark.
LEMMA QuestionComputes ==
  ASSUME VInv, Computing, CondQuestion
  PROVE  Computing'
<1> DEFINE c == condition_3way(Nth(0))  m == Branch(Ready(c))  n == Len(vstack)  b == n - 1
           none == [m EXCEPT !.worlds = {}]  P == Settle(IF c # 1 THEN m ELSE none)
           d == [c |-> c, base |-> Depth(m), arm |-> "then", sv |-> Const("0", "int"), parked |-> P]
           t == Tidied(m.vs)
<1>1. c = -1 \/ c = 0 \/ c = 1
  BY DEF condition_3way
<1>2. Operands(1) /\ EnterArms(m, c)
  BY DEF CondQuestion, Conditional, Ready
<1>3. Fresh(n)
  BY FreshNow
<1>4. n \in Nat /\ n >= 1 /\ n <= MaxDepth /\ MaxDepth \in Nat /\ Now.vs = vstack
      /\ Base \in Nat /\ Base <= b /\ b \in Nat
  BY <1>2, <1>3, FreshIs DEF Operands
<1>5. Onto(Now, m, b, b) /\ Base <= b
  BY <1>1, <1>2, Parting
<1>6. Fine(m, b, << >>)
  BY <1>2, <1>3, <1>4, FineReady, FineBranch
<1> HIDE DEF c, m, n
<1>7. b <= MaxDepth
  BY <1>4
<1>8. /\ AllRight(Settle(m), t) /\ (~ Live => Settle(m) = {}) /\ t \in Seq(Entries) /\ Len(t) = b
  BY <1>6, <1>7, FineSettle
<1>9. Rec(m) /\ m.vs \in Seq(Entries) /\ Depth(m) = b
  BY <1>6, FineIs
<1>10. none.vs = m.vs /\ none.worlds = {} /\ Settle(none) = {}
  <2>1. none.vs = m.vs /\ none.worlds = {}
    BY <1>9, RanIt DEF Ran
  <2> HIDE DEF none
  <2> QED
    BY <2>1 DEF Settle
<1> HIDE DEF none
<1>11. /\ vstack' = t /\ conds' = Append(conds, d)
       /\ nocode_wanted' = nocode_wanted + (IF c = 0 THEN 1 ELSE 0)
       /\ worlds' = IF c # 0 THEN Settle(m) ELSE {}
  <2>1. Become(IF c # 0 THEN m ELSE none) /\ conds' = Append(conds, d)
        /\ nocode_wanted' = nocode_wanted + (IF c = 0 THEN 1 ELSE 0)
    BY <1>2 DEF EnterArms, none
  <2> HIDE DEF d
  <2>2. CASE c # 0
    BY <2>1, <2>2 DEF Become, Tidied
  <2>3. CASE c = 0
    BY <1>10, <2>1, <2>3 DEF Become, Tidied
  <2> QED
    BY <2>1, <2>2, <2>3
<1>12. P = IF c # 1 THEN Settle(m) ELSE {}
  BY <1>10
<1> HIDE DEF P
<1>13. d.c = c /\ d.base = b /\ d.arm = "then" /\ d.parked = P
  BY <1>9
<1> HIDE DEF d, t, b
<1>14. nocode_wanted \in Nat /\ IsSeq(conds) /\ (Live <=> Suppressed(conds) = {})
  BY NowIs, GoodIs
<1>15. ~ Live' => worlds' = {}
  BY <1>8, <1>11, <1>14 DEF Live
<1>16. ParkedOk(t, conds)
  <2>1. \A k \in 1 .. Base : (Live /\ vstack[k].r \in Reg \cup {"cmp"}) \/ t[k] = vstack[k]
    <3>1. Low(Now, m, b)
      BY <1>5, OntoLow
    <3>2. \A k \in 1 .. b : (Live /\ vstack[k].r \in Reg \cup {"cmp"}) \/ m.vs[k] = vstack[k]
      BY <1>4, <3>1 DEF Low
    <3>3. \A k \in 1 .. b : t[k] = Tidy(m.vs[k])
      BY <1>6, <1>9, TidiedIs, FineIs DEF t
    <3>4. \A k \in 1 .. n : Tidy(vstack[k]) = vstack[k]
      <4>1. DOMAIN vstack = 1 .. n
        BY NowIs DEF n
      <4> QED
        BY <4>1 DEF VInv, Holds, StackOk
    <3>5. \A k \in 1 .. Base : k \in 1 .. b /\ k \in 1 .. n
      BY <1>4 DEF b
    <3> QED
      BY <3>2, <3>3, <3>4, <3>5
  <2> QED
    BY <1>4, <1>8, <2>1, StillParked DEF Computing
<1>17. ParkedOk(t, Append(conds, d))
  <2>1. d.parked # {} => Suppressed(conds) = {} /\ d.c # 1 /\ (d.c = -1 \/ d.c = 0) /\ AllRight(d.parked, t)
    BY <1>1, <1>8, <1>12, <1>13, <1>14
  <2> QED
    BY <1>8, <1>13, <1>14, <1>16, <2>1, Parks
<1>18. AllRight(worlds', t)
  BY <1>8, <1>11 DEF AllRight
<1> QED
  BY <1>7, <1>8, <1>11, <1>15, <1>17, <1>18 DEF Computing

\* The stack of an arm is what was below it and its value.
LEMMA WaitingValue ==
  ASSUME NEW s \in Seq(Entries), NEW d, d.base \in Nat, d.arm = "else", d.sv \in Entries,
         d.base <= Len(s)
  PROVE  /\ Waiting(s, d) \in Seq(Entries) /\ Len(Waiting(s, d)) = d.base + 1
         /\ Waiting(s, d)[d.base + 1] = d.sv /\ \A k \in 1 .. d.base : Waiting(s, d)[k] = s[k]
<1> DEFINE b == d.base  p == SubSeq(s, 1, b)  u == <<d.sv>>  y == p \o u
<1>1. b \in Nat /\ b \in 0 .. Len(s)
  OBVIOUS
<1>2. p \in Seq(Entries) /\ Len(p) = b /\ \A k \in 1 .. b : p[k] = s[k]
  BY <1>1, Prefix
<1>3. u \in Seq(Entries) /\ Len(u) = 1 /\ u[1] = d.sv
  OBVIOUS
<1>4. Waiting(s, d) = y
  BY DEF Waiting
<1> HIDE DEF b, p, u
<1>5. /\ y \in Seq(Entries) /\ Len(y) = Len(p) + Len(u)
      /\ \A i \in 1 .. Len(p) + Len(u) : y[i] = IF i <= Len(p) THEN p[i] ELSE u[i - Len(p)]
  <2>1. p \in Seq(Entries) /\ u \in Seq(Entries)
    BY <1>2, <1>3
  <2> QED
    BY <2>1, ConcatProperties
<1> HIDE DEF y
<1>6. Len(y) = b + 1 /\ \A i \in 1 .. b + 1 : y[i] = IF i <= b THEN p[i] ELSE u[i - b]
  BY <1>1, <1>2, <1>3, <1>5
<1>7. b + 1 \in 1 .. b + 1 /\ ~ (b + 1 <= b) /\ b + 1 - b = 1 /\ \A k \in 1 .. b : k \in 1 .. b + 1 /\ k <= b
  BY <1>1
<1>8. y[b + 1] = d.sv /\ \A k \in 1 .. b : y[k] = s[k]
  BY <1>2, <1>3, <1>6, <1>7
<1> QED
  BY <1>4, <1>5, <1>6, <1>8 DEF b

\* Sequences with the same entries are the same.
LEMMA SameSeq ==
  ASSUME NEW s \in Seq(Entries), NEW t \in Seq(Entries), Len(s) = Len(t),
         \A k \in 1 .. Len(s) : s[k] = t[k]
  PROVE  s = t
<1> DEFINE n == Len(s)
<1>1. s = [k \in 1 .. n |-> s[k]] /\ t = [k \in 1 .. n |-> t[k]]
  OBVIOUS
<1> HIDE DEF n
<1> QED
  BY <1>1 DEF n

\* The worlds parked at the innermost conditional change places with the others.
LEMMA Exchanged ==
  ASSUME NEW s \in Seq(Entries), NEW C, IsSeq(C), C # << >>, ParkedOk(s, C), NEW D, Instead(C, D),
         NEW d, d = C[Len(C)], NEW e, e = D[Len(C)], d.base \in Nat, Len(s) = d.base + 1,
         Other(d, e, s[d.base + 1]), d.c = -1 \/ d.c = 0 \/ d.c = 1,
         \A k \in DOMAIN C : C[k].base \in Nat /\ C[k].base <= d.base,
         e.parked # {} => Suppressed(C) = {}, AllRight(e.parked, s)
  PROVE  /\ ParkedOk(Front(s), D) /\ AllRight(d.parked, Front(s))
         /\ d.parked # {} => Suppressed(D) = {}
<1> DEFINE n == Len(C)  t == Front(s)
<1>1. n \in Nat /\ DOMAIN C = 1 .. n /\ n \in DOMAIN C /\ DOMAIN D = DOMAIN C
      /\ \A k \in DOMAIN C : k # n => D[k] = C[k]
  BY SeqIs DEF Instead
<1>2. /\ d.arm = "then" /\ e.arm = "else" /\ e.c = d.c /\ e.base = d.base /\ e.sv = s[d.base + 1]
  BY DEF Other
<1>3. /\ t \in Seq(Entries) /\ Len(t) = d.base /\ \A k \in 1 .. d.base : t[k] = s[k]
  BY FrontIs
<1> HIDE DEF t
<1>4. d.parked # {} => /\ Outer(C, n) /\ (d.c = -1 \/ Dead(d))
                       /\ AllRight(d.parked, Waiting(s, d))
  BY <1>1 DEF ParkedOk
<1>5. Waiting(s, d) = t
  <2>1. Waiting(s, d) = Waiting(t, d)
    <3>1. d.base <= Len(s) /\ d.base <= Len(t)
      BY <1>3
    <3> QED
      BY <1>3, <3>1, WaitingSame
  <2> QED
    BY <1>2, <1>3, <2>1, WaitingAll
<1>6. AllRight(d.parked, t)
  BY <1>4, <1>5 DEF AllRight
<1>7. \A i \in Suppressed(D) : i \in DOMAIN C /\ (i = n \/ i \in Suppressed(C))
  BY <1>1 DEF Suppressed
<1>8. d.parked # {} => Suppressed(D) = {}
  <2> SUFFICES ASSUME d.parked # {}, NEW i \in Suppressed(D) PROVE FALSE
    OBVIOUS
  <2>1. Outer(C, n) /\ (d.c = -1 \/ Dead(d))
    BY <1>4
  <2>2. d.c # 1
    BY <1>2, <2>1 DEF Dead
  <2>3. i # n
    BY <1>2, <2>2 DEF Suppressed, Dead
  <2>4. i \in Suppressed(C) /\ i \in 1 .. n
    BY <1>1, <1>7, <2>3
  <2>5. n <= i
    BY <2>1, <2>4 DEF Outer
  <2> HIDE DEF n
  <2> QED
    BY <1>1, <2>3, <2>4, <2>5
<1>9. ASSUME NEW k \in DOMAIN D, D[k].parked # {}, k # n
      PROVE  /\ Outer(D, k) /\ (D[k].c = -1 \/ Dead(D[k]))
             /\ AllRight(D[k].parked, Waiting(t, D[k]))
  <2>1. D[k] = C[k] /\ k \in DOMAIN C /\ k <= n
    BY <1>1, <1>9
  <2>2. /\ Outer(C, k) /\ (C[k].c = -1 \/ Dead(C[k]))
        /\ AllRight(C[k].parked, Waiting(s, C[k]))
    BY <1>9, <2>1 DEF ParkedOk
  <2>3. Outer(D, k)
    BY <1>7, <2>1, <2>2 DEF Outer
  <2>4. Waiting(t, C[k]) = Waiting(s, C[k])
    <3> DEFINE q == C[k]
    <3>1. q.base \in Nat /\ q.base <= d.base
      BY <2>1
    <3> HIDE DEF q
    <3>2. q.base <= Len(s) /\ q.base <= Len(t) /\ \A i \in 1 .. q.base : i \in 1 .. d.base
      BY <1>3, <3>1
    <3>3. Waiting(t, q) = Waiting(s, q)
      BY <1>3, <3>1, <3>2, WaitingSame
    <3> QED
      BY <3>3 DEF q
  <2> QED
    BY <2>1, <2>2, <2>3, <2>4
<1>10. ASSUME e.parked # {}
       PROVE  /\ Outer(D, n) /\ (e.c = -1 \/ Dead(e))
              /\ AllRight(e.parked, Waiting(t, e))
  <2>1. Suppressed(C) = {}
    BY <1>10
  <2>2. d.c # 0
    BY <1>1, <1>2, <2>1 DEF Suppressed, Dead
  <2>3. e.c = -1 \/ Dead(e)
    BY <1>2, <2>2 DEF Dead
  <2>4. Outer(D, n)
    BY <1>1, <1>7, <2>1 DEF Outer
  <2>5. Waiting(t, e) = s
    <3>1. e.base \in Nat /\ e.base <= Len(t) /\ e.base + 1 = Len(s) /\ e.sv \in Entries /\ e.arm = "else"
          /\ e.sv = s[e.base + 1] /\ \A k \in 1 .. e.base : t[k] = s[k]
      BY <1>2, <1>3
    <3> DEFINE y == Waiting(t, e)
    <3>2. /\ y \in Seq(Entries) /\ Len(y) = e.base + 1
          /\ y[e.base + 1] = e.sv /\ \A k \in 1 .. e.base : y[k] = t[k]
      BY <1>3, <3>1, WaitingValue
    <3> HIDE DEF y
    <3>3. \A k \in 1 .. e.base + 1 : k = e.base + 1 \/ k \in 1 .. e.base
      BY <3>1
    <3>4. \A k \in 1 .. e.base + 1 : y[k] = s[k]
      BY <3>1, <3>2, <3>3
    <3>5. y = s
      BY <3>1, <3>2, <3>4, SameSeq
    <3> QED
      BY <3>5 DEF y
  <2> QED
    BY <2>3, <2>4, <2>5
<1>11. ParkedOk(t, D)
  BY <1>9, <1>10 DEF ParkedOk
<1> QED
  BY <1>6, <1>8, <1>11 DEF t

\* expr_cond() at the colon.
LEMMA ColonComputes ==
  ASSUME VInv, Computing, CondColon
  PROVE  Computing'
<1> DEFINE n == Len(conds)  d == conds[n]  D == conds'  e == D[n]
<1>1. /\ conds # << >> /\ d.arm = "then"
      /\ Len(vstack) = Base + 1 /\ Base = d.base /\ IsSeq(conds) /\ n \in DOMAIN conds
      /\ Len(vstack) \in Nat /\ n \in Nat /\ DOMAIN conds = 1 .. n /\ Base \in Nat /\ Base = BaseOf(conds)
  <2>1. IsSeq(conds) /\ Len(vstack) \in Nat /\ conds # << >> /\ d.arm = "then" /\ Len(vstack) = Base + 1
        /\ Base \in Nat /\ Base = BaseOf(conds)
    BY NowIs DEF CondColon
  <2>2. Base = d.base
    BY <2>1 DEF Base, Last
  <2> QED
    BY <2>1, <2>2, SeqIs
<1> DEFINE x == [d EXCEPT !.arm = "else", !.sv = Nth(0), !.parked = worlds]
<1>2. D = [conds EXCEPT ![n] = x]
  BY DEF CondColon
<1>3. /\ d.c = -1 \/ d.c = 0 \/ d.c = 1
      /\ ArmRec(d) /\ nocode_wanted \in Nat /\ vstack \in Seq(Entries) /\ CondsOk(vstack, conds)
      /\ (Live <=> Suppressed(conds) = {})
  BY <1>1, HoldsIs, NowIs DEF Arm, VInv, Holds
<1>4. PICK S : conds \in Seq(S)
  BY <1>1 DEF IsSeq
<1> HIDE DEF x
<1>5. Instead(conds, D) /\ e = x
  <2>1. conds \in Seq(S \cup {x}) /\ x \in S \cup {x}
    BY <1>4
  <2>2. D \in Seq(S \cup {x}) /\ D[n] = x /\ DOMAIN D = DOMAIN conds /\ \A k \in DOMAIN conds : k # n => D[k] = conds[k]
    BY <1>1, <1>2, <2>1
  <2> QED
    BY <2>2 DEF Instead, IsSeq
<1>6. Other(d, e, vstack[d.base + 1]) /\ e.parked = worlds
  <2>1. Nth(0) = vstack[d.base + 1]
    BY <1>1 DEF Nth
  <2>2. x.c = d.c /\ x.base = d.base /\ x.arm = "else" /\ x.sv = Nth(0) /\ x.parked = worlds /\ ArmRec(x)
    BY <1>3, Switched DEF x
  <2> QED
    BY <1>1, <1>5, <2>1, <2>2 DEF Other
<1>7. vstack' = Front(vstack) /\ worlds' = d.parked
  BY DEF CondColon
<1>8. \A k \in DOMAIN conds : conds[k].base \in Nat /\ conds[k].base <= d.base
  BY <1>1, <1>3, BaseTop
<1>9. /\ Len(vstack) <= MaxDepth /\ (~ Live => worlds = {})
      /\ AllRight(worlds, vstack) /\ ParkedOk(vstack, conds)
  BY DEF Computing
<1>10. (e.parked # {} => Suppressed(conds) = {}) /\ AllRight(e.parked, vstack)
  BY <1>3, <1>6, <1>9
<1> HIDE DEF d, e, D, n
<1>11. /\ ParkedOk(Front(vstack), D) /\ AllRight(d.parked, Front(vstack))
       /\ d.parked # {} => Suppressed(D) = {}
  <2>1. d = conds[Len(conds)] /\ e = D[Len(conds)] /\ d.base \in Nat /\ Len(vstack) = d.base + 1
    BY <1>1 DEF d, e, n
  <2> QED
    BY <1>1, <1>3, <1>5, <1>6, <1>8, <1>9, <1>10, <2>1, Exchanged
<1>12. ~ Live' => worlds' = {}
  <2>1. VInv'
    BY CondColonStep
  <2>2. Live' <=> Suppressed(D) = {}
    <3>1. nocode_wanted' = Cardinality(Suppressed(conds')) /\ IsSeq(conds')
      BY <2>1 DEF VInv, Holds, CondsOk
    <3> QED
      BY <3>1, Counting DEF Live, D
  <2> QED
    BY <1>7, <1>11, <2>2
<1>13. Len(Front(vstack)) <= MaxDepth
  <2>1. Len(Front(vstack)) = Len(vstack) - 1 /\ MaxDepth \in Nat
    BY <1>1, <1>3, FrontIs, VStackAssumption
  <2> QED
    BY <1>1, <1>9, <2>1
<1> QED
  BY <1>7, <1>11, <1>12, <1>13 DEF Computing, D

\* A world of the first arm, its value loaded.
LEMMA LiftsTrue ==
  ASSUME NEW m, Rec(m), m.vs \in Seq(Entries), NEW n, Len(m.vs) = n, n >= 1,
         nocode_wanted \in Nat, Clear(m, n - 1), NEW a, True(m, a), NEW x, x = gv(m, RC_INT)
  PROVE  /\ Rec(x) /\ x.vs \in Seq(Entries) /\ Len(x.vs) = n /\ True(x, a)
         /\ Resident(x.vs[n]) /\ x.vs[n].t = m.vs[n].t /\ \A k \in 1 .. n - 1 : x.vs[k] = m.vs[k]
<1> DEFINE e == m.vs[n]
<1>1. e \in Entries /\ n \in Nat /\ n \in 1 .. n /\ \A k \in 1 .. n - 1 : k \in 1 .. n /\ k # n
  OBVIOUS
<1>2. (x = m /\ e.r \in Reg /\ ~ e.lval) \/ IsLoaded(m, x)
  BY LiftIs
<1>3. CASE x = m /\ e.r \in Reg /\ ~ e.lval
  <2>1. e.lval \in BOOLEAN
    BY <1>1 DEF Entries, Descriptor
  <2>2. Resident(e)
    BY <1>3, <2>1 DEF Resident
  <2> QED
    BY <1>3, <2>2
<1>4. CASE IsLoaded(m, x)
  <2>1. PICK r \in Reg : x = LoadTop([m |-> m, r |-> r])
    BY <1>4 DEF IsLoaded
  <2> DEFINE f == AsValue(e, r)  s == [m.vs EXCEPT ![n] = f]  got == [m |-> m, r |-> r]
  <2>2. With(m, x, s)
    BY <2>1, LoadTopFrame
  <2>3. f \in Entries /\ f.r = r /\ f.lval = FALSE /\ f.t = e.t
    BY <1>1, Loading
  <2> HIDE DEF f
  <2>4. /\ s \in Seq(Entries) /\ Len(s) = n /\ s[n] = f /\ \A k \in 1 .. n - 1 : s[k] = m.vs[k]
    BY <1>1, <2>3
  <2>5. True(x, a)
    <3>1. got.m = m /\ got.r = r
      OBVIOUS
    <3>2. Live => \A k \in 1 .. n - 1 : m.vs[k].r # r /\ m.vs[k].r # "cmp"
      BY DEF Clear
    <3> HIDE DEF got
    <3>3. True(LoadTop(got), a)
      BY <3>1, <3>2, LoadTopFaith
    <3> QED
      BY <2>1, <3>3 DEF got
  <2> HIDE DEF s
  <2>6. Rec(x) /\ x.vs = s
    BY <2>2 DEF With
  <2>7. Resident(f)
    BY <2>1, <2>3 DEF Resident
  <2> QED
    BY <2>3, <2>4, <2>5, <2>6, <2>7
<1> QED
  BY <1>2, <1>3, <1>4

\* move_reg() of that value, in one world.
Moving(s, n, r) ==
  /\ s \in Seq(Entries) /\ n = Len(s) /\ n >= 1 /\ Resident(s[n])
  /\ r \in Reg /\ r # s[n].r /\ Saved(s, n - 1)
\* The copy is right and so is the rest.
LEMMA MovedRight ==
  ASSUME NEW s, NEW n, NEW r, Moving(s, n, r), NEW t, NEW a, NEW w, Right(w, s, n, a),
         NEW q, q = s[n].r, NEW u, u = Loaded(w, r, InReg(q, t))
  PROVE  Right(u, s, n, a) /\ u.reg[r] = u.reg[q]
<1>0. /\ s \in Seq(Entries) /\ n = Len(s) /\ n >= 1 /\ Resident(s[n])
      /\ r \in Reg /\ r # s[n].r /\ Saved(s, n - 1) /\ u = Loaded(w, r, InReg(s[n].r, t))
  BY DEF Moving
<1> DEFINE e == s[n]  d == InReg(e.r, t)
<1>1. e \in Entries /\ n \in Nat /\ n \in 1 .. n /\ World(w) /\ w.wrong = FALSE /\ e.r \in Reg
  BY <1>0 DEF Right, Resident
<1>2. d.r = e.r /\ d.lval = FALSE /\ d.r \in Reg /\ d.r # "const" /\ Resident(d)
  BY <1>1 DEF InReg, Entry, Reg, Resident
<1> HIDE DEF d
<1>3. /\ Runs(w, u) /\ u.frame = w.frame
      /\ u.reg[r] = Deref(Place(w, d)) /\ Others(w, u, r)
      /\ (d.r = "const" /\ ~ d.lval) \/ u.flags = w.flags
  <2>1. World(w) /\ u = Loaded(w, r, d)
    BY <1>0, <1>1 DEF d
  <2>2. (d.r = "const" /\ ~ d.lval) = FALSE
    BY <1>2
  <2> HIDE DEF e
  <2> QED
    BY <1>0, <2>1, <2>2, LoadedIs
<1>4. u.flags = w.flags
  BY <1>2, <1>3
<1>5. u.reg[r] = w.reg[e.r] /\ u.reg[e.r] = w.reg[e.r]
  BY <1>0, <1>1, <1>2, <1>3, PlaceReg, Values DEF Others
<1>6. ASSUME NEW k \in 1 .. n PROVE Leads(u, s[k], w.means[k])
  <2>1. s[k] \in Entries /\ Leads(w, s[k], w.means[k])
    BY <1>0 DEF Right
  <2>2. s[k].r \in Reg => u.reg[s[k].r] = w.reg[s[k].r]
    <3>1. k = n \/ k \in 1 .. n - 1
      BY <1>1
    <3> QED
      BY <1>0, <1>5, <3>1 DEF Saved
  <2>3. Keeps(w, u, s[k])
    BY <1>3, <1>4, <2>2 DEF Keeps
  <2> QED
    BY <2>1, <2>3, LeadsKept
<1>7. Right(u, s, n, a)
  BY <1>0, <1>3, <1>6 DEF Right, Runs
<1> QED
  BY <1>5, <1>7

\* The entry may then as well be in the other register.
LEMMA RenamedRight ==
  ASSUME NEW s \in Seq(Entries), NEW n, n = Len(s), n >= 1, Resident(s[n]), NEW r \in Reg,
         NEW a, NEW w, Right(w, s, n, a), w.reg[r] = w.reg[s[n].r],
         NEW t \in Seq(Entries), Len(t) = n, Resident(t[n]), t[n].r = r, t[n].t = s[n].t,
         \A k \in 1 .. n - 1 : t[k] = s[k]
  PROVE  Right(w, t, n, a)
<1>1. n \in Nat /\ n \in 1 .. n /\ \A k \in 1 .. n : k = n \/ k \in 1 .. n - 1
  OBVIOUS
<1>2. ASSUME NEW k \in 1 .. n PROVE Leads(w, t[k], w.means[k])
  <2>1. Leads(w, s[k], w.means[k]) /\ Leads(w, s[n], w.means[n])
    BY <1>1 DEF Right
  <2>2. Leads(w, t[n], w.means[n])
    BY <2>1, PlaceReg DEF Leads
  <2> QED
    BY <1>1, <2>1, <2>2
<1> QED
  BY <1>2 DEF Right

AllRightOf(W, s, n, a) == \A w \in W : Right(w, s, n, a)
Lone(m, n, a) ==
  /\ Rec(m) /\ m.vs \in Seq(Entries) /\ Len(m.vs) = n /\ n >= 1
  /\ nocode_wanted \in Nat /\ Clear(m, n - 1) /\ True(m, a) /\ Resident(m.vs[n])
Together(x, s, n, a, r) ==
  /\ \A w \in x.worlds : Right(w, s, n, a) /\ w.reg[r] = w.reg[s[n].r]
  /\ ~ Live => x.worlds = {}
\* In all the worlds.
LEMMA MovesTrue ==
  ASSUME NEW m, NEW n, NEW a, Lone(m, n, a), NEW r \in Reg, NEW q, q = m.vs[n].r, NEW t,
         NEW x, x = move_reg(m, r, q, t)
  PROVE  Together(x, m.vs, n, a, r)
<1>0. /\ Rec(m) /\ m.vs \in Seq(Entries) /\ Len(m.vs) = n /\ n >= 1 /\ n \in Nat
      /\ nocode_wanted \in Nat /\ Clear(m, n - 1) /\ True(m, a) /\ Resident(m.vs[n])
      /\ x = move_reg(m, r, m.vs[n].r, t)
  BY DEF Lone
<1> SUFFICES /\ \A w \in x.worlds : Right(w, m.vs, n, a) /\ w.reg[r] = w.reg[m.vs[n].r]
             /\ ~ Live => x.worlds = {}
  BY DEF Together
<1> DEFINE s == m.vs[n].r
<1>1. \A w \in m.worlds : Right(w, m.vs, n, a) /\ Live
  BY <1>0 DEF True, Faith
<1>2. CASE r = s
  <2>1. x = m
    BY <1>0, <1>2 DEF move_reg
  <2> QED
    BY <1>1, <1>2, <2>1
<1>3. CASE r # s
  <2>1. \A k \in 1 .. n : k \in 1 .. n - 1 \/ k = n
    BY <1>0
  <2>2. Depth(m) - 0 = n
    BY <1>0 DEF Depth
  <2>3. Live => \A k \in 1 .. Depth(m) - 0 : m.vs[k].r # r
    BY <1>0, <1>3, <2>1, <2>2 DEF Clear
  <2>4. save_reg(m, r) = m
    BY <1>0, <2>3, SavesNone DEF save_reg
  <2> DEFINE W == {Loaded(w, r, InReg(s, t)) : w \in m.worlds}
  <2>5. x = Ran(m, W)
    BY <1>0, <1>3, <2>4 DEF move_reg, load, Run, Ran
  <2> HIDE DEF W
  <2>6. x.worlds = W
    BY <1>0, <2>5, RanIt
  <2>7. ASSUME NEW w \in m.worlds, NEW u, u = Loaded(w, r, InReg(s, t))
        PROVE  Right(u, m.vs, n, a) /\ u.reg[r] = u.reg[s] /\ Live
    <3>1. Saved(m.vs, n - 1)
      BY <1>0, <1>1 DEF Clear, Saved
    <3> DEFINE z == m.vs
    <3>2. Right(w, z, n, a) /\ Live /\ Moving(z, n, r) /\ s = z[n].r
      BY <1>0, <1>1, <1>3, <3>1 DEF Moving
    <3> HIDE DEF z, s
    <3>3. Right(u, z, n, a) /\ u.reg[r] = u.reg[s]
      BY <2>7, <3>2, MovedRight
    <3> QED
      BY <3>2, <3>3 DEF z
  <2> HIDE DEF s
  <2> QED
    BY <2>6, <2>7 DEF W, s
<1> QED
  BY <1>2, <1>3

\* What both arms have left in r2 is what the value stands for.
InBoth(m, s, n, r) ==
  /\ Rec(m) /\ n = Len(s) /\ n \in Nat /\ n >= 1 /\ Len(m.vs) = n
  /\ s = [m.vs EXCEPT ![n] = InsteadIn(m.vs[n], r)] /\ s[n].r = r /\ Resident(s[n])
\* So no execution that reaches the end goes wrong.
LEMMA JoinedTrue ==
  ASSUME NEW m, NEW s, NEW n, NEW r \in Reg, InBoth(m, s, n, r),
         NEW a, AllRightOf(m.worlds, s, n, a), NEW x, x = Joined(m, r)
  PROVE  x.vs = s /\ x.worlds \subseteq m.worlds
<1>0. /\ Rec(m) /\ n = Len(s) /\ n \in Nat /\ n >= 1 /\ Len(m.vs) = n
      /\ s = [m.vs EXCEPT ![n] = InsteadIn(m.vs[n], r)] /\ s[n].r = r /\ Resident(s[n])
  BY DEF InBoth
<1> DEFINE e == InsteadIn(m.vs[n], r)  p == SetTop(m, e)
           used(w) == Val(w.reg[r])
           meant(w) == Last(w.means)
           W == {Uses(w, used(w), meant(w)) : w \in p.worlds}
<1>1. x = Ran(p, W)
  BY <1>0 DEF Joined, Check, Run, InsteadIn, Top, Last, Ran
<1>2. With(m, p, s) /\ p.worlds = m.worlds
  <2>1. p = [m EXCEPT !.vs = s]
    BY <1>0 DEF SetTop, Depth
  <2> HIDE DEF p
  <2> QED
    BY <1>0, <2>1, VsIt, WorldsIt
<1>3. ASSUME NEW w \in m.worlds PROVE Uses(w, used(w), meant(w)) \in m.worlds
  <2>1. World(w) /\ w.wrong = FALSE /\ Len(w.means) = n /\ Place(w, s[n]) = w.means[n]
    <3>1. Right(w, s, n, a) /\ n \in 1 .. n
      BY <1>0 DEF AllRightOf
    <3> QED
      BY <1>0, <3>1 DEF Right, Leads
  <2>2. meant(w) = w.means[n]
    BY <1>0, <2>1 DEF Last
  <2>3. Place(w, s[n]) = Val(w.reg[r])
    BY <1>0, PlaceReg
  <2>4. used(w) = meant(w)
    BY <2>1, <2>2, <2>3
  <2> HIDE DEF used, meant
  <2>5. Uses(w, used(w), meant(w)) = w
    BY <1>0, <2>1, <2>4, UsesRight
  <2> QED
    BY <2>5
<1> HIDE DEF used, meant, p
<1>4. W \subseteq m.worlds
  BY <1>2, <1>3
<1> HIDE DEF W
<1>5. Rec(p) /\ p.vs = s
  BY <1>2 DEF With
<1>6. x.worlds = W /\ x.vs = s
  BY <1>1, <1>5, RanIt
<1> QED
  BY <1>4, <1>6

\* The values of both arms, in one register.
LEMMA JoinsTrue ==
  ASSUME NEW x, NEW n, NEW a, Fine(x, n, a), n >= 1, Clear(x, n - 1), Resident(x.vs[n]), x.vs[n].t = "int",
         NEW sv \in Entries, sv.t = "int", NEW parked,
         AllRightOf(parked, [x.vs EXCEPT ![n] = sv], n, a), ~ Live => parked = {}
  PROVE  True(WithFirst(x, sv, parked), a)
<1> DEFINE r2 == x.vs[n].r  q == x.vs
           put == SetTop(x, sv)  start == [put EXCEPT !.worlds = parked]
           first == gv(start, RC_INT)
           moved == move_reg(first, r2, Top(first).r, sv.t)
           both == [moved EXCEPT !.worlds = moved.worlds \cup x.worlds]
           y == Joined(both, r2)
           s == [q EXCEPT ![n] = sv]
<1>1. /\ Good(x) /\ Rec(x) /\ Len(q) = n /\ n \in Nat /\ n \in 1 .. n /\ nocode_wanted \in Nat
      /\ q \in Seq(Entries) /\ DOMAIN q = 1 .. n /\ r2 \in Reg
      /\ \A k \in 1 .. n - 1 : k \in 1 .. n /\ k # n
      /\ \A w \in x.worlds : Right(w, q, n, a) /\ Live
  <2>1. Good(x) /\ Len(q) = n /\ n \in Nat /\ Faith(x, n, a) /\ q \in Seq(Entries) /\ Rec(x)
    BY FineIs
  <2>2. n \in 1 .. n /\ \A k \in 1 .. n - 1 : k \in 1 .. n /\ k # n
    BY <2>1
  <2> QED
    BY <2>1, <2>2, GoodIs DEF Faith, Resident
<1>2. WithFirst(x, sv, parked) = y
  <2>1. Top(x) = x.vs[n]
    BY <1>1 DEF Top, Last
  <2> QED
    BY <2>1 DEF WithFirst
<1>3. Rec(start) /\ start.vs = s /\ start.worlds = parked
  <2>1. With(x, put, s)
    BY <1>1, SetTopFrame
  <2> HIDE DEF put, s
  <2>2. Rec(put) /\ put.vs = s
    BY <2>1 DEF With
  <2>3. start = Ran(put, parked)
    BY DEF Ran
  <2> HIDE DEF start
  <2> QED
    BY <2>2, <2>3, RanIt DEF With
<1>4. s \in Seq(Entries) /\ Len(s) = n /\ s[n] = sv /\ \A k \in 1 .. n - 1 : s[k] = q[k]
  BY <1>1
<1>5. AllRightOf(parked, s, n, a)
  OBVIOUS
<1> HIDE DEF start, r2, s, q
<1>6. True(start, a)
  BY <1>3, <1>4, <1>5 DEF True, Faith, AllRightOf
<1>7. Clear(start, n - 1)
  BY <1>3, <1>4 DEF Clear, q
<1>8. /\ Rec(first) /\ first.vs \in Seq(Entries) /\ Len(first.vs) = n /\ True(first, a)
      /\ Resident(first.vs[n]) /\ first.vs[n].t = "int" /\ \A k \in 1 .. n - 1 : first.vs[k] = s[k]
  BY <1>1, <1>3, <1>4, <1>6, <1>7, LiftsTrue
<1> HIDE DEF first
<1> DEFINE u == first.vs
<1>9. Clear(first, n - 1) /\ Top(first).r = u[n].r
  BY <1>4, <1>8 DEF Clear, Top, Last, q
<1>10. With(first, moved, u) /\ (~ Live => moved.worlds = {})
       /\ \A w \in moved.worlds : Right(w, u, n, a) /\ w.reg[r2] = w.reg[u[n].r]
  <2> DEFINE t == sv.t  o == u[n].r
  <2>1. moved = move_reg(first, r2, o, t) /\ o = first.vs[n].r
    BY <1>9
  <2> HIDE DEF t, moved
  <2>2. With(first, move_reg(first, r2, first.vs[n].r, t), first.vs)
    BY <1>1, <1>8, <1>9, MoveFrame
  <2>3. /\ \A w \in moved.worlds : Right(w, first.vs, n, a) /\ w.reg[r2] = w.reg[first.vs[n].r]
        /\ ~ Live => moved.worlds = {}
    <3> DEFINE z == moved
    <3>1. z = move_reg(first, r2, o, t) /\ o = first.vs[n].r
      BY <2>1
    <3>2. Lone(first, n, a) /\ r2 \in Reg
      BY <1>1, <1>8, <1>9 DEF Lone
    <3> HIDE DEF z, u, o
    <3>3. Together(z, first.vs, n, a, r2)
      BY <3>1, <3>2, MovesTrue
    <3> QED
      BY <3>3 DEF z, Together
  <2> QED
    BY <2>1, <2>2, <2>3
<1> HIDE DEF moved, u
<1>11. Rec(both) /\ both.vs = u /\ both.worlds = moved.worlds \cup x.worlds
  <2> DEFINE W == moved.worlds \cup x.worlds
  <2>1. Rec(moved) /\ moved.vs = u
    BY <1>10 DEF With
  <2>2. both = Ran(moved, W)
    BY DEF Ran
  <2> HIDE DEF both, W
  <2>3. Rec(both) /\ both.vs = u /\ both.worlds = W
    BY <2>1, <2>2, RanIt DEF With
  <2> QED
    BY <2>3 DEF W
<1> HIDE DEF both
<1> DEFINE f == InsteadIn(u[n], r2)  J == [u EXCEPT ![n] = f]
<1>12. u \in Seq(Entries) /\ Len(u) = n /\ Resident(u[n]) /\ u[n].t = "int" /\ u[n] \in Entries
       /\ \A k \in 1 .. n - 1 : u[k] = q[k]
  BY <1>1, <1>4, <1>8 DEF u
<1>13. f \in Entries /\ f.r = r2 /\ Resident(f) /\ f.t = "int"
  <2> DEFINE e == u[n]
  <2>1. e \in Entries /\ e.lval = FALSE /\ e.t = "int" /\ r2 \in Reg
    BY <1>1, <1>12 DEF Resident
  <2> HIDE DEF e
  <2>2. f = InsteadIn(e, r2)
    BY DEF e
  <2> HIDE DEF f
  <2>3. f \in Entries /\ f.r = r2 /\ f.lval = FALSE /\ f.t = "int"
    BY <2>1, <2>2, Replacing
  <2> QED
    BY <2>1, <2>3 DEF Resident
<1> HIDE DEF f
<1>14. J \in Seq(Entries) /\ Len(J) = n /\ J[n] = f /\ \A k \in 1 .. n - 1 : J[k] = u[k]
  BY <1>1, <1>12, <1>13
<1>15. J = [both.vs EXCEPT ![n] = InsteadIn(both.vs[n], r2)]
  BY <1>11 DEF f
<1> HIDE DEF J
<1>16. ASSUME NEW w \in moved.worlds PROVE Right(w, J, n, a)
  <2>1. Right(w, u, n, a) /\ w.reg[r2] = w.reg[u[n].r]
    BY <1>10
  <2>2. Resident(J[n]) /\ J[n].r = r2 /\ J[n].t = u[n].t
    BY <1>12, <1>13, <1>14
  <2> QED
    BY <1>1, <1>12, <1>14, <2>1, <2>2, RenamedRight
<1>17. ASSUME NEW w \in x.worlds PROVE Right(w, J, n, a)
  <2>1. Right(w, q, n, a) /\ w.reg[r2] = w.reg[q[n].r] /\ Resident(q[n])
    BY <1>1 DEF r2, q
  <2>2. Resident(J[n]) /\ J[n].r = r2 /\ J[n].t = q[n].t /\ \A k \in 1 .. n - 1 : J[k] = q[k]
    BY <1>12, <1>13, <1>14 DEF q
  <2> QED
    BY <1>1, <1>14, <2>1, <2>2, RenamedRight
<1>18. AllRightOf(both.worlds, J, n, a)
  BY <1>11, <1>16, <1>17 DEF AllRightOf
<1>19. y.vs = J /\ y.worlds \subseteq both.worlds
  <2>1. n = Len(J) /\ Len(both.vs) = n /\ J[n].r = r2 /\ Resident(J[n])
    BY <1>11, <1>12, <1>13, <1>14
  <2>2. Rec(both) /\ n \in Nat /\ n >= 1 /\ r2 \in Reg
    BY <1>1, <1>11
  <2> HIDE DEF y
  <2>3. y = Joined(both, r2)
    BY DEF y
  <2>4. InBoth(both, J, n, r2)
    BY <1>15, <2>1, <2>2 DEF InBoth
  <2> HIDE DEF r2
  <2> QED
    BY <1>18, <2>2, <2>3, <2>4, JoinedTrue
<1> HIDE DEF y
<1>20. ~ Live => y.worlds = {}
  BY <1>1, <1>10, <1>11, <1>19
<1>21. True(y, a)
  BY <1>14, <1>18, <1>19, <1>20 DEF True, Faith, AllRightOf
<1> QED
  BY <1>2, <1>21

\* What is parked at the outer conditionals stays when the innermost ends.
LEMMA ParkedLess ==
  ASSUME NEW t, NEW C, IsSeq(C), C # << >>, ParkedOk(t, C)
  PROVE  ParkedOk(t, Front(C))
<1> DEFINE n == Len(C)  D == Front(C)
<1>1. n \in Nat /\ DOMAIN C = 1 .. n /\ n >= 1
  BY SeqIs
<1>2. DOMAIN D = 1 .. n - 1 /\ \A k \in 1 .. n - 1 : D[k] = C[k] /\ k \in 1 .. n
  <2>1. PICK S : C \in Seq(S)
    BY DEF IsSeq
  <2>2. D \in Seq(S) /\ Len(D) = n - 1 /\ \A k \in 1 .. n - 1 : D[k] = C[k]
    BY <1>1, <2>1, FrontOf
  <2> QED
    BY <1>1, <2>2
<1> HIDE DEF n, D
<1>3. \A i \in Suppressed(D) : i \in Suppressed(C)
  BY <1>1, <1>2 DEF Suppressed
<1> SUFFICES ASSUME NEW k \in DOMAIN D, D[k].parked # {}
             PROVE  /\ Outer(D, k) /\ (D[k].c = -1 \/ Dead(D[k]))
                    /\ AllRight(D[k].parked, Waiting(t, D[k]))
  BY DEF ParkedOk, D
<1>4. D[k] = C[k] /\ k \in DOMAIN C
  BY <1>1, <1>2
<1>5. /\ Outer(C, k) /\ (C[k].c = -1 \/ Dead(C[k]))
      /\ AllRight(C[k].parked, Waiting(t, C[k]))
  BY <1>4 DEF ParkedOk
<1>6. Outer(D, k)
  BY <1>3, <1>5 DEF Outer
<1> QED
  BY <1>4, <1>5, <1>6

\* The end of a conditional.
Ended(d, n) ==
  /\ conds # << >> /\ d = conds[Len(conds)] /\ d.arm = "else" /\ Last(conds) = d
  /\ n = Len(vstack) /\ n \in Nat /\ n >= 1 /\ n - 1 = Base /\ Base \in Nat /\ Base = d.base
  /\ d.c = -1 \/ d.c = 0 \/ d.c = 1
  /\ d.sv \in Entries /\ d.sv.t = "int" /\ vstack[n].t = "int"
  /\ conds' = Front(conds) /\ nocode_wanted' = nocode_wanted - (IF d.c = 1 THEN 1 ELSE 0)
  /\ Len(conds) \in DOMAIN conds /\ IsSeq(conds)

\* The state at the end of a conditional, and what is made of it.
LEMMA EndingIs ==
  ASSUME VInv, CondEnd
  PROVE  /\ Ended(Last(conds), Len(vstack))
         /\ Become(CASE Last(conds).c = -1 -> WithFirst(gv(Now, RC_INT), Last(conds).sv, Last(conds).parked)
                     [] Last(conds).c = 0 -> Now
                     [] Last(conds).c = 1 -> [SetTop(Now, Last(conds).sv) EXCEPT !.worlds = Last(conds).parked])
<1> DEFINE d == conds[Len(conds)]  n == Len(vstack)
<1>1. /\ conds # << >> /\ Last(conds) = d /\ d.arm = "else" /\ n = Base + 1 /\ d.sv.t = "int"
      /\ conds' = Front(conds) /\ nocode_wanted' = nocode_wanted - (IF d.c = 1 THEN 1 ELSE 0)
  BY DEF CondEnd, Last, IsInt
<1>2. vstack[n].t = "int"
  <2>1. n \in Nat /\ n - 0 = n
    BY NowIs
  <2> QED
    BY <2>1 DEF CondEnd, IsInt, Nth
<1>3. n \in Nat /\ Base \in Nat /\ IsSeq(conds) /\ Len(conds) \in DOMAIN conds
  BY <1>1, NowIs, SeqIs
<1>4. d.c = -1 \/ d.c = 0 \/ d.c = 1
  BY <1>3, HoldsIs DEF VInv, Arm
<1>5. d.sv \in Entries
  BY <1>3, HoldsIs DEF VInv, Arm
<1>6. Base = d.base
  BY <1>1 DEF Base
<1>7. n >= 1 /\ n - 1 = Base
  BY <1>1, <1>3
<1>8. Ended(d, n)
  BY <1>1, <1>2, <1>3, <1>4, <1>5, <1>6, <1>7 DEF Ended
<1> QED
  BY <1>1, <1>8 DEF CondEnd

\* After it the stack and the worlds left are what is required.
LEMMA EndsRight ==
  ASSUME VInv, Computing, NEW d, NEW n, Ended(d, n), NEW t \in Seq(Entries), Len(t) = n, vstack' = t,
         \A k \in 1 .. Base : (Live /\ vstack[k].r \in Reg \cup {"cmp"}) \/ t[k] = vstack[k],
         AllRight(worlds', t), ~ Live' => worlds' = {}
  PROVE  Computing'
<1>1. Base <= Len(t) /\ n <= MaxDepth /\ conds # << >> /\ IsSeq(conds) /\ conds' = Front(conds)
  BY DEF Ended, Computing
<1>2. ParkedOk(t, conds)
  BY <1>1, StillParked DEF Computing
<1>3. ParkedOk(t, Front(conds))
  BY <1>1, <1>2, ParkedLess
<1> QED
  BY <1>1, <1>3 DEF Computing

\* When the second arm, or the code of both, remains.
LEMMA EndsFine ==
  ASSUME VInv, Computing, NEW d, NEW n, Ended(d, n), d.c # 1,
         NEW m, Become(m), Onto(Now, m, Base, n), Fine(m, n, << >>)
  PROVE  Computing'
<1> DEFINE t == Tidied(m.vs)
<1>1. n <= MaxDepth /\ n \in Nat
  BY DEF Computing, Ended
<1>2. AllRight(Settle(m), t) /\ (~ Live => Settle(m) = {}) /\ t \in Seq(Entries) /\ Len(t) = n
  BY <1>1, FineSettle
<1>3. vstack' = t /\ worlds' = Settle(m)
  BY DEF Become, Tidied
<1>4. nocode_wanted' = nocode_wanted
  <2>1. nocode_wanted \in Nat /\ nocode_wanted' = nocode_wanted - 0
    BY HoldsIs DEF Ended, VInv
  <2> QED
    BY <2>1
<1>5. \A k \in 1 .. Base : (Live /\ vstack[k].r \in Reg \cup {"cmp"}) \/ t[k] = vstack[k]
  <2>1. Low(Now, m, Base) /\ Now.vs = vstack
    BY NowIs, OntoLow
  <2>2. \A k \in 1 .. Base : (Live /\ vstack[k].r \in Reg \cup {"cmp"}) \/ m.vs[k] = vstack[k]
    BY <2>1 DEF Low
  <2>3. \A k \in 1 .. n : t[k] = Tidy(m.vs[k])
    BY TidiedIs, FineIs
  <2>4. \A k \in 1 .. n : Tidy(vstack[k]) = vstack[k]
    <3>1. DOMAIN vstack = 1 .. n
      BY NowIs DEF Ended
    <3> QED
      BY <3>1 DEF VInv, Holds, StackOk
  <2>5. \A k \in 1 .. Base : k \in 1 .. n
    BY DEF Ended
  <2> QED
    BY <2>2, <2>3, <2>4, <2>5
<1> HIDE DEF t
<1>6. ~ Live' => worlds' = {}
  BY <1>2, <1>3, <1>4 DEF Live
<1>7. AllRight(worlds', t)
  BY <1>2, <1>3
<1> QED
  BY <1>2, <1>3, <1>5, <1>6, <1>7, EndsRight

\* The worlds that computed the first arm wait only where no other arm is suppressed.
LEMMA WaitingAlive ==
  ASSUME VInv, Computing, NEW d, NEW n, Ended(d, n), d.parked # {}
  PROVE  /\ AllRight(d.parked, Waiting(vstack, d)) /\ d.c # 0
         /\ \A i \in Suppressed(conds) : i = Len(conds) /\ d.c = 1
<1> DEFINE K == Len(conds)
<1>1. K \in DOMAIN conds /\ DOMAIN conds = 1 .. K /\ K \in Nat /\ d = conds[K] /\ d.arm = "else"
  BY SeqIs DEF Ended
<1>2. /\ Outer(conds, K) /\ (d.c = -1 \/ Dead(d)) /\ AllRight(d.parked, Waiting(vstack, d))
  BY <1>1 DEF Computing, ParkedOk
<1>3. d.c # 0
  BY <1>1, <1>2 DEF Dead
<1>4. \A i \in Suppressed(conds) : K <= i /\ i \in 1 .. K /\ Dead(conds[i])
  BY <1>1, <1>2 DEF Outer, Suppressed
<1>5. \A i \in Suppressed(conds) : i = K /\ Dead(conds[i])
  BY <1>1, <1>4
<1>6. \A i \in Suppressed(conds) : i = K /\ d.c = 1
  BY <1>1, <1>5 DEF Dead
<1> QED
  BY <1>2, <1>3, <1>6

\* Both arms have code.
LEMMA EndsJoined ==
  ASSUME VInv, Computing, NEW d, NEW n, Ended(d, n), d.c = -1,
         NEW m, m = WithFirst(gv(Now, RC_INT), d.sv, d.parked)
  PROVE  Onto(Now, m, Base, n) /\ Fine(m, n, << >>)
<1> DEFINE x == gv(Now, RC_INT)  K == Len(conds)  sv == d.sv  parked == d.parked
           s == [x.vs EXCEPT ![n] = sv]
<1>1. /\ Good(Now) /\ Now.vs = vstack /\ n = Len(vstack) /\ n \in Nat /\ n >= 1 /\ n - 1 = Base /\ Base \in Nat
      /\ Base = d.base /\ d = conds[K] /\ K \in DOMAIN conds /\ sv \in Entries /\ sv.t = "int"
      /\ vstack[n].t = "int" /\ (Live <=> Suppressed(conds) = {}) /\ Base < n /\ vstack \in Seq(Entries)
      /\ d.arm = "else" /\ Base <= Len(vstack)
  <2>1. n \in Nat /\ Base \in Nat /\ n - 1 = Base /\ n = Len(vstack)
    BY DEF Ended
  <2>2. Base < n /\ Base <= Len(vstack)
    BY <2>1
  <2>3. Good(Now) /\ Now.vs = vstack /\ vstack \in Seq(Entries)
    BY NowIs, GoodIs
  <2> QED
    BY <2>1, <2>2, <2>3, NowIs DEF Ended
<1>2. RC_INT \in Class
  BY DEF Class
<1>3. Clear(Now, Base)
  <2>1. SavedOk(vstack, conds)
    BY DEF VInv, Holds
  <2>2. Live => Outside(conds, K)
    BY <1>1 DEF Outside
  <2>3. Live => Saved(vstack, Base)
    BY <1>1, <2>1, <2>2 DEF SavedOk
  <2> QED
    BY <1>1, <2>3 DEF Saved, Clear
<1>4. Onto(Now, x, Base, n)
  BY <1>1, <1>2, GvOnto
<1>5. Clear(x, Base) /\ (Live => \A k \in 1 .. Base : x.vs[k] = vstack[k])
  BY <1>1, <1>3, <1>4, ClearStays
<1>6. Fine(x, n, << >>)
  BY <1>1, <1>2, FreshNow, FineGv DEF Fresh
<1>7. Resident(x.vs[n]) /\ x.vs[n].t = "int"
  <2>1. n \in 1 .. n
    BY <1>1
  <2> QED
    BY <1>1, <1>2, <2>1, GvKinds
<1>8. Clear(x, n - 1) /\ x.vs[n].r \in Reg
  BY <1>1, <1>5, <1>7 DEF Resident
<1>9. x.vs \in Seq(Entries) /\ Len(x.vs) = n
  BY <1>6, FineIs
<1> HIDE DEF x, sv, parked
<1>10. ~ Live => parked = {}
  BY <1>1, WaitingAlive DEF parked
<1>11. AllRightOf(parked, s, n, << >>)
  <2>1. CASE parked = {}
    BY <2>1 DEF AllRightOf
  <2>2. CASE parked # {}
    <3>1. Live /\ AllRight(parked, Waiting(vstack, d))
      BY <1>10, <2>2, WaitingAlive DEF parked
    <3>2. s \in Seq(Entries) /\ Len(s) = n /\ s[n] = sv /\ \A k \in 1 .. Base : s[k] = vstack[k]
      <4>1. s \in Seq(Entries) /\ Len(s) = n /\ s[n] = sv /\ \A k \in 1 .. n : k # n => s[k] = x.vs[k]
        BY <1>1, <1>9
      <4>2. \A k \in 1 .. Base : k \in 1 .. n /\ k # n
        BY <1>1
      <4> HIDE DEF s
      <4> QED
        BY <1>5, <3>1, <4>1, <4>2
    <3> HIDE DEF s
    <3> DEFINE y == Waiting(vstack, d)
    <3>3. /\ y \in Seq(Entries) /\ Len(y) = d.base + 1 /\ y[d.base + 1] = d.sv
          /\ \A k \in 1 .. d.base : y[k] = vstack[k]
      BY <1>1, WaitingValue DEF sv
    <3> HIDE DEF y
    <3>4. d.base + 1 = n /\ \A k \in 1 .. n : k = n \/ k \in 1 .. Base
      BY <1>1
    <3>5. Len(y) = n /\ Len(s) = n /\ \A k \in 1 .. n : y[k] = s[k]
      BY <1>1, <3>2, <3>3, <3>4 DEF sv
    <3>6. y = s
      BY <3>2, <3>3, <3>5, SameSeq
    <3> QED
      BY <3>1, <3>2, <3>6 DEF AllRight, AllRightOf, y
  <2> QED
    BY <2>1, <2>2
<1>12. m = WithFirst(x, sv, parked)
  BY DEF x, sv, parked
<1>13. Onto(Now, m, Base, n)
  BY <1>1, <1>4, <1>8, <1>12, JoinsFirst
<1>14. True(m, << >>)
  BY <1>1, <1>6, <1>7, <1>8, <1>10, <1>11, <1>12, JoinsTrue DEF s
<1> QED
  BY <1>1, <1>13, <1>14, OntoGood DEF Fine

\* Only the first arm has code.
LEMMA EndsFirst ==
  ASSUME VInv, Computing, CondEnd, NEW d, NEW n, Ended(d, n), d.c = 1,
         Become([SetTop(Now, d.sv) EXCEPT !.worlds = d.parked])
  PROVE  Computing'
<1> DEFINE put == SetTop(Now, d.sv)  m == [put EXCEPT !.worlds = d.parked]
           u == [vstack EXCEPT ![n] = d.sv]  t == Tidied(u)  W == d.parked
<1>1. /\ Good(Now) /\ Rec(Now) /\ Now.vs = vstack /\ n = Len(vstack) /\ n \in Nat /\ n >= 1 /\ n - 1 = Base
      /\ Base \in Nat /\ Base = d.base /\ d.sv \in Entries /\ vstack \in Seq(Entries)
      /\ d.arm = "else" /\ n \in 1 .. n /\ Base <= Len(vstack) /\ n = d.base + 1
  <2>1. n \in Nat /\ Base \in Nat /\ n - 1 = Base /\ n = Len(vstack) /\ n >= 1 /\ Base = d.base
    BY DEF Ended
  <2>2. n \in 1 .. n /\ Base <= Len(vstack) /\ n = d.base + 1
    BY <2>1
  <2>3. Good(Now) /\ Now.vs = vstack
    BY NowIs
  <2> QED
    BY <2>1, <2>2, <2>3, GoodIs DEF Ended
<1>2. m.vs = u /\ m.worlds = W
  <2>1. With(Now, put, u)
    BY <1>1, SetTopFrame
  <2> HIDE DEF put, u
  <2>2. m = Ran(put, W)
    BY DEF Ran
  <2>3. Rec(put) /\ put.vs = u
    BY <2>1 DEF With
  <2> HIDE DEF m, W
  <2> QED
    BY <2>2, <2>3, RanIt
<1>3. /\ u \in Seq(Entries) /\ Len(u) = n /\ u[n] = d.sv
      /\ \A k \in 1 .. n : k # n => u[k] = vstack[k]
  <2> DEFINE e == d.sv
  <2>1. n \in 1 .. Len(vstack) /\ vstack \in Seq(Entries) /\ e \in Entries
    BY <1>1
  <2>2. u = [vstack EXCEPT ![n] = e]
    OBVIOUS
  <2> HIDE DEF u, e
  <2>3. /\ u \in Seq(Entries) /\ Len(u) = Len(vstack) /\ u[n] = e
        /\ \A k \in 1 .. Len(vstack) : k # n => u[k] = vstack[k]
    BY <2>1, <2>2
  <2> QED
    BY <1>1, <2>3 DEF e
<1>4. Become(m)
  OBVIOUS
<1> HIDE DEF m, u
<1>5. vstack' = t /\ worlds' = {Settled(w, u) : w \in W}
  BY <1>2, <1>4 DEF Become, Tidied, Settle, Settled
<1>6. \A k \in 1 .. Base : k \in 1 .. n /\ k # n
  BY <1>1
<1>7. W # {} => AllRight(W, u)
  <2> SUFFICES ASSUME W # {} PROVE AllRight(W, u)
    OBVIOUS
  <2> DEFINE y == Waiting(vstack, d)
  <2>1. AllRight(W, y)
    BY WaitingAlive
  <2>2. /\ y \in Seq(Entries) /\ Len(y) = d.base + 1 /\ y[d.base + 1] = d.sv
        /\ \A k \in 1 .. d.base : y[k] = vstack[k]
    BY <1>1, WaitingValue
  <2> HIDE DEF y
  <2>3. \A k \in 1 .. n : k = n \/ k \in 1 .. Base
    BY <1>1
  <2>4. \A k \in 1 .. n : y[k] = u[k]
    BY <1>1, <1>3, <1>6, <2>2, <2>3
  <2>5. y = u
    BY <1>1, <1>3, <2>2, <2>4, SameSeq
  <2> QED
    BY <2>1, <2>5
<1>8. Len(u) <= MaxDepth
  BY <1>1, <1>3 DEF Computing
<1>9. AllRight(worlds', t)
  <2>1. CASE W = {}
    BY <1>5, <2>1 DEF AllRight
  <2>2. CASE W # {}
    BY <1>3, <1>5, <1>7, <1>8, <2>2, SettlesAll
  <2> QED
    BY <2>1, <2>2
<1>10. t \in Seq(Entries) /\ Len(t) = n /\ \A k \in 1 .. n : t[k] = Tidy(u[k])
  BY <1>3, TidiedIs
<1> HIDE DEF t
<1>11. \A k \in 1 .. Base : t[k] = vstack[k]
  <2>1. \A k \in 1 .. n : Tidy(vstack[k]) = vstack[k]
    <3>1. DOMAIN vstack = 1 .. n
      BY NowIs DEF Ended
    <3> QED
      BY <3>1 DEF VInv, Holds, StackOk
  <2> QED
    BY <1>3, <1>6, <1>10, <2>1
<1>12. ~ Live' => worlds' = {}
  <2> SUFFICES ASSUME W # {} PROVE Live'
    BY <1>5
  <2>1. \A i \in Suppressed(conds) : i = Len(conds)
    BY WaitingAlive
  <2>2. conds' = Front(conds) /\ IsSeq(conds) /\ conds # << >>
    BY DEF Ended
  <2>3. Suppressed(conds') = {}
    <3> DEFINE K == Len(conds)
    <3>1. PICK S : conds \in Seq(S)
      BY <2>2 DEF IsSeq
    <3>2. K \in Nat /\ K >= 1
      BY <2>2, SeqIs
    <3>3. Front(conds) \in Seq(S) /\ Len(Front(conds)) = K - 1 /\ \A k \in 1 .. K - 1 : Front(conds)[k] = conds[k]
      BY <3>1, <3>2, FrontOf
    <3>4. \A k \in DOMAIN Front(conds) : k \in 1 .. K - 1 /\ k \in DOMAIN conds /\ k # K
      BY <3>1, <3>2, <3>3
    <3> QED
      BY <2>1, <2>2, <3>3, <3>4 DEF Suppressed
  <2>4. VInv'
    BY CondEndStep
  <2>5. nocode_wanted' = Cardinality(Suppressed(conds')) /\ IsSeq(conds')
    BY <2>4 DEF VInv, Holds, CondsOk
  <2> QED
    BY <2>3, <2>5, Counting DEF Live
<1> QED
  BY <1>5, <1>9, <1>10, <1>11, <1>12, EndsRight

\* expr_cond() at its end.
LEMMA EndComputes ==
  ASSUME VInv, Computing, CondEnd
  PROVE  Computing'
<1> DEFINE d == Last(conds)  n == Len(vstack)  m == WithFirst(gv(Now, RC_INT), d.sv, d.parked)
           kept == [SetTop(Now, d.sv) EXCEPT !.worlds = d.parked]
<1>1. Ended(d, n) /\ Become(CASE d.c = -1 -> m [] d.c = 0 -> Now [] d.c = 1 -> kept)
  BY EndingIs
<1>2. d.c = -1 \/ d.c = 0 \/ d.c = 1
  BY <1>1 DEF Ended
<1> HIDE DEF d, n
<1>3. CASE d.c = -1
  <2> DEFINE y == m
  <2>1. Onto(Now, m, Base, n) /\ Fine(m, n, << >>)
    BY <1>1, <1>3, EndsJoined
  <2>2. Become(m)
    BY <1>1, <1>3
  <2> HIDE DEF m
  <2> QED
    BY <1>1, <1>3, <2>1, <2>2, EndsFine
<1>4. CASE d.c = 0
  <2>1. Become(Now)
    BY <1>1, <1>4
  <2>2. Fresh(n)
    BY FreshNow DEF n
  <2>3. Onto(Now, Now, Base, n) /\ Fine(Now, n, << >>)
    BY <2>2, FreshIs
  <2> QED
    BY <1>1, <1>4, <2>1, <2>3, EndsFine
<1>5. CASE d.c = 1
  <2>1. Become(kept)
    BY <1>1, <1>5
  <2> QED
    BY <1>1, <1>5, <2>1, EndsFirst
<1> QED
  BY <1>2, <1>3, <1>4, <1>5
-----------------------------------------------------------------------------
(***************************************************************************)
(* The theorem.                                                            *)
(***************************************************************************)
\* Before any code, the only execution has nothing to be wrong about.
LEMMA ComputingInit == Init => Computing
<1> SUFFICES ASSUME Init PROVE Computing
  OBVIOUS
<1> DEFINE R == [r \in Reg |-> "junk"]
           w == [reg |-> R, flags |-> "junk", frame |-> << >>, means |-> << >>, aside |-> << >>, wrong |-> FALSE]
<1>1. vstack = << >> /\ nocode_wanted = 0 /\ conds = << >> /\ worlds = {w}
  BY DEF Init
<1>2. R = [r \in Reg |-> R[r]]
  OBVIOUS
<1> HIDE DEF R
<1>3. World(w) /\ w.wrong = FALSE /\ w.aside = << >> /\ w.means = << >>
  BY <1>2 DEF World
<1> HIDE DEF w
<1>4. Right(w, << >>, 0, << >>)
  BY <1>3 DEF Right
<1>5. AllRight(worlds, vstack)
  BY <1>1, <1>4 DEF AllRight
<1>6. Len(vstack) <= MaxDepth
  BY <1>1, VStackAssumption
<1>7. ParkedOk(vstack, conds)
  BY <1>1 DEF ParkedOk
<1> QED
  BY <1>1, <1>5, <1>6, <1>7 DEF Computing, Live

\* Every step keeps the executions right.
LEMMA ComputingNext ==
  ASSUME AtomicTarget = "global"
  PROVE  VInv /\ Computing /\ [Next]_vars => Computing'
<1> SUFFICES ASSUME VInv, Computing, [Next]_vars PROVE Computing'
  OBVIOUS
<1>1. Expression => Computing'
  BY ExpressionComputes
<1>2. CASE CondQuestion
  BY <1>2, QuestionComputes
<1>3. CASE CondColon
  BY <1>3, ColonComputes
<1>4. CASE CondEnd
  BY <1>4, EndComputes
<1>5. CASE UNCHANGED vars
  BY <1>5 DEF vars, Computing, AllRight, ParkedOk, Live
<1> QED
  BY <1>1, <1>2, <1>3, <1>4, <1>5 DEF Next, Expression

\* What is proved of the executions is more than what was promised.
LEMMA ComputingFaithful == VInv /\ Computing => Faithful
<1> SUFFICES ASSUME VInv, Computing, NEW w \in worlds
             PROVE  ~ w.wrong /\ \A k \in DOMAIN vstack : Place(w, vstack[k]) = w.means[k]
  BY DEF Faithful
<1>1. Right(w, vstack, Len(vstack), << >>) /\ DOMAIN vstack = 1 .. Len(vstack)
  BY NowIs DEF Computing, AllRight
<1> QED
  BY <1>1 DEF Right, Leads

\* The code emitted so far computes what the stack machine computes (gv(), gv2(),
\* save_regs(), gen_opi(), vstore(), gfunc_call(), expr_cond() and what they call), for
\* every number of recorded slots, every depth of the stack and of ?:, and every size of
\* the frame, if __atomic_load() stores to globals.
THEOREM FaithfulAlways ==
  ASSUME AtomicTarget = "global"
  PROVE  Spec => []Faithful
<1>1. Init => VInv /\ Computing
  BY VInvInit, ComputingInit
<1>2. (VInv /\ Computing) /\ [Next]_vars => (VInv /\ Computing)'
  BY VInvNext, ComputingNext
<1>3. VInv /\ Computing => Faithful
  BY ComputingFaithful
<1> QED
  BY <1>1, <1>2, <1>3, PTL DEF Spec
=============================================================================
