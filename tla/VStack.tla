------------------------------- MODULE VStack -------------------------------
(***************************************************************************)
(* The value stack of tccgen.c and its registers, with the integer part of *)
(* x86_64-gen.c.  The compiler never holds values, only descriptors of     *)
(* where the code emitted so far leaves them: in a register, the flags, a  *)
(* temporary slot, behind a pointer.  Every step may move values about, and*)
(* the descriptors must follow.                                            *)
(*                                                                         *)
(* `worlds' are the executions of the emitted code that reach the point of *)
(* emission: emitting an instruction executes it in all of them.  A branch *)
(* goes both ways; the worlds that jump are parked until the label, and    *)
(* suppressed code (nocode_wanted) has no world.  `means' is what a plain  *)
(* stack machine makes of the same operations, the value or the place each *)
(* entry stands for; `wrong' says that an instruction used anything else.  *)
(*                                                                         *)
(* Values only need names: of a constant, of what a variable holds, of the *)
(* new result of an operation, and of the lowest entry that stands for it  *)
(* once the operation is over.  Storing is using a value and a place; what *)
(* a variable holds keeps its name.  Frame locations are counted downwards *)
(* from the frame pointer in units of an int; a pointer takes two.  Only   *)
(* integer registers and types, and no bit-fields.                         *)
(***************************************************************************)
EXTENDS Integers, Sequences, SequencesExt, FiniteSetsExt

CONSTANTS
  NbTemps,      \* size of arr_temp_local_vars, 8 in the code
  AtomicTarget, \* "global": __atomic_load() stores to places named without a register
                \* only, for which a global stands; "any": also through a pointer read
  MaxDepth,     \* bound: entries of the value stack
  MaxLoc,       \* bound: size of the stack frame
  MaxCond,      \* bound: nesting of ?:
  MaxArm,       \* bound: entries of an arm of one
  Names         \* bound: names for the values that entries stand for

ASSUME VStackAssumption ==
  /\ NbTemps \in Nat /\ MaxDepth \in Nat /\ MaxLoc > 4
  /\ MaxCond \in Nat /\ MaxArm \in Nat
  /\ AtomicTarget \in {"global", "any"}

ASSUME NamesAssumption ==
  /\ Names \cap {"0", "3", "i", "*p", "g", "new", "p", "&g", "junk"} = {}
  /\ Injection(1 .. MaxDepth, Names) # {}

VARIABLES
  vstack,        \* the entries [r, lval, r2, c, v, t], vtop last; c is a
                 \* location, v a constant
  temps,         \* arr_temp_local_vars: [location, size]
  loc,           \* size of the frame so far
  nocode_wanted,
  conds,         \* the ?: being compiled, innermost last
  worlds

vars == <<vstack, temps, loc, nocode_wanted, conds, worlds>>

Reg == {"rax", "rcx", "rdx"}
RC_INT == <<"rax", "rcx", "rdx">>   \* in the order get_reg() tries them
RC_RAX == <<"rax">>
RC_RCX == <<"rcx">>

\* The program has an int i and a pointer p on the frame and a global g; p points
\* elsewhere.  Its constants are 0 and 3; folding two of them gives 3 again.
VarI == 1
VarP == 4
Locals == 4
Op == {"sub", "shl", "div", "lt"}
ValueOf == CHOOSE f \in Injection(1 .. MaxDepth, Names) : TRUE

Size(t) == IF t = "ptr" THEN 2 ELSE 1
Entry(r, lval, c, v, t) == [r |-> r, lval |-> lval, r2 |-> 0, c |-> c, v |-> v, t |-> t]
Const(v, t) == Entry("const", FALSE, 0, v, t)
InReg(r, t) == Entry(r, FALSE, 0, "junk", t)

\* What an entry stands for: a value, an object in memory, a variable.
Val(v) == <<"val", v>>
Mem(a) == <<"mem", a>>
Var(c) == <<"var", c>>

\* The value found there.
Deref(m) ==
  CASE m[1] = "val" -> m[2]
    [] m = Mem("p") -> "*p"
    [] m = Mem("&g") -> "g"
    [] m = Var(VarI) -> "i"
    [] m = Var(VarP) -> "p"
    [] OTHER -> "junk"

\* The contents of frame location c, junk unless stored as one value.
Slot(w, c, t) ==
  IF {c, c - Size(t) + 1} \subseteq DOMAIN w.frame /\ w.frame[c - Size(t) + 1] = w.frame[c]
  THEN w.frame[c] ELSE "junk"

\* What descriptor e leads the code of world w to.
Place(w, e) ==
  CASE e.r \in Reg -> IF e.lval THEN Mem(w.reg[e.r]) ELSE Val(w.reg[e.r])
    [] e.r = "const" -> IF e.lval THEN Mem(e.v) ELSE Val(e.v)
    [] e.r = "cmp" -> Val(w.flags)
    [] e.r = "local" -> IF e.c <= Locals THEN Var(e.c) ELSE Val(Slot(w, e.c, e.t))
    [] e.r = "llocal" -> Mem(Slot(w, e.c, "ptr"))

Init ==
  /\ vstack = << >> /\ temps = << >> /\ loc = Locals
  /\ nocode_wanted = 0 /\ conds = << >>
  /\ worlds = {[reg |-> [r \in Reg |-> "junk"], flags |-> "junk",
                frame |-> << >>, means |-> << >>, aside |-> << >>, wrong |-> FALSE]}
-----------------------------------------------------------------------------
(***************************************************************************)
(* The functions of the compiler, on m = [vs, temps, loc, worlds].         *)
(***************************************************************************)
Now == [vs |-> vstack, temps |-> temps, loc |-> loc, worlds |-> worlds]
Depth(m) == Len(m.vs)
Top(m) == Last(m.vs)

\* Code runs in every world; F is what it does to one.
Run(m, F(_)) == [m EXCEPT !.worlds = {F(w) : w \in @}]
SetTop(m, e) == [m EXCEPT !.vs[Depth(m)] = e]
\* A change of the stack alone, meanings going along.
Reorder(m, F(_)) ==
  [m EXCEPT !.vs = F(@), !.worlds = {[w EXCEPT !.means = F(@)] : w \in @}]
Push(m, e, mean) ==
  [m EXCEPT !.vs = Append(@, e), !.worlds = {[w EXCEPT !.means = Append(@, mean)] : w \in @}]
Drop(m) == Reorder(m, LAMBDA s : Front(s))
\* The top entry is now the value of what it stood for.
Meaning(w, n, mean) == [w EXCEPT !.means[n] = mean]
Valued(m) == Run(m, LAMBDA w : Meaning(w, Depth(m), Val(Deref(w.means[Depth(m)]))))
\* An instruction uses Used(w) where the stack machine uses Meant(w).
Uses(w, used, meant) == [w EXCEPT !.wrong = @ \/ used # meant]
Check(m, Used(_), Meant(_)) == Run(m, LAMBDA w : Uses(w, Used(w), Meant(w)))

\* load(): a zero is loaded by an xor, which sets the flags.
Loaded(w, r, e) ==
  [w EXCEPT !.reg[r] = Deref(Place(w, e)),
            !.flags = IF e.r = "const" /\ ~ e.lval /\ e.v = "0" THEN "junk" ELSE @]
load(m, r, e) == Run(m, LAMBDA w : Loaded(w, r, e))

\* Seeded bugs: the frame is aligned upwards; the array has no end.
get_temp_local_var_AlignUp(m, size) ==
  LET used == {m.vs[k].r2 : k \in {j \in 1 .. Depth(m) : m.vs[j].r \in {"local", "llocal"}}}
      fit == {i \in 1 .. Len(m.temps) : i \notin used /\ m.temps[i].size >= size}
      new == ((m.loc + size) \div size) * size
  IN
  IF fit # {}
  THEN [m |-> m, l |-> m.temps[Min(fit)].location, r2 |-> Min(fit)]
  ELSE [m |-> [m EXCEPT !.loc = new,
                        !.temps = Append(@, [location |-> new, size |-> size])],
        l |-> new, r2 |-> Len(m.temps) + 1]

\* get_temp_local_var(): a slot no entry refers to, or a new one.
get_temp_local_var(m, size) ==
  LET used == {m.vs[k].r2 : k \in {j \in 1 .. Depth(m) : m.vs[j].r \in {"local", "llocal"}}}
      fit == {i \in 1 .. Len(m.temps) : i \notin used /\ m.temps[i].size >= size}
      new == ((m.loc + size + size - 1) \div size) * size
  IN
  IF fit # {}
  THEN [m |-> m, l |-> m.temps[Min(fit)].location, r2 |-> Min(fit)]
  ELSE IF Len(m.temps) < NbTemps
  THEN [m |-> [m EXCEPT !.loc = new,
                        !.temps = Append(@, [location |-> new, size |-> size])],
        l |-> new, r2 |-> Len(m.temps) + 1]
  ELSE [m |-> [m EXCEPT !.loc = new], l |-> new, r2 |-> 0]

\* save_reg_upstack(): the entries in register r, the n topmost excepted, move
\* to one slot, which takes the size of the first of them.  (SubSeq because TLC may
\* lose what is changed in a function it has not evaluated yet.)
Copied(w, r, l, size) ==
  [w EXCEPT !.frame = [k \in DOMAIN w.frame \cup (l - size + 1 .. l) |->
                         IF l - size < k /\ k <= l THEN w.reg[r] ELSE w.frame[k]]]
MovedTo(tmp, r, hit, size) ==
  LET moved(e) == [e EXCEPT !.r = IF e.lval THEN "llocal" ELSE "local",
                            !.lval = TRUE, !.r2 = tmp.r2, !.c = tmp.l]
  IN  Run([tmp.m EXCEPT !.vs = SubSeq([k \in DOMAIN @ |-> IF k \in hit THEN moved(@[k]) ELSE @[k]], 1, Len(@))],
          LAMBDA w : Copied(w, r, tmp.l, size))
Spilled(m, r, hit, size) == MovedTo(get_temp_local_var(m, size), r, hit, size)
save_reg_upstack(m, r, n) ==
  LET hit == {k \in 1 .. Depth(m) - n : m.vs[k].r = r}
      first == m.vs[Min(hit)]
  IN
  IF r \notin Reg \/ nocode_wanted > 0 \/ hit = {} THEN m
  ELSE Spilled(m, r, hit, Size(IF first.lval THEN "ptr" ELSE first.t))
save_reg(m, r) == save_reg_upstack(m, r, 0)
save_regs(m, n) ==
  LET saved[k \in 0 .. Depth(m) - n] ==
        IF k = 0 THEN m ELSE LET a == saved[k - 1] IN save_reg(a, a.vs[k].r)
  IN  saved[Depth(m) - n]

\* get_reg(): a free register of class rc, or that of the oldest entry in one.
get_reg(m, rc) ==
  LET free == {i \in DOMAIN rc : \A k \in 1 .. Depth(m) : m.vs[k].r # rc[i]}
      oldest == m.vs[Min({k \in 1 .. Depth(m) : m.vs[k].r \in Range(rc)})].r
  IN
  IF nocode_wanted > 0 THEN [m |-> m, r |-> rc[1]]
  ELSE IF free # {} THEN [m |-> m, r |-> rc[Min(free)]]
  ELSE [m |-> save_reg(m, oldest), r |-> oldest]

\* The top entry is loaded into register got.r.
LoadTop(got) ==
  Valued(SetTop(load(got.m, got.r, Top(got.m)), [Top(got.m) EXCEPT !.r = got.r, !.lval = FALSE]))

\* Seeded bug: copies of the address are left in the register that is reused.
gv_NoCopies(m, rc) ==
  LET e == Top(m)
      own == e.r \in Range(rc)
  IN
  IF own /\ ~ e.lval THEN m
  ELSE LoadTop(IF own THEN [m |-> m, r |-> e.r] ELSE get_reg(m, rc))

\* gv(): the top entry into a register of class rc.  Only the copies below of an
\* address are saved when its own register takes the value.
gv(m, rc) ==
  LET e == Top(m)
      own == e.r \in Range(rc)
  IN
  IF own /\ ~ e.lval THEN m
  ELSE LoadTop(IF own THEN [m |-> save_reg_upstack(m, e.r, 1), r |-> e.r] ELSE get_reg(m, rc))

\* vcheck_cmp(): flags do not survive what comes next.
vcheck_cmp(m) ==
  IF m.vs # << >> /\ Top(m).r = "cmp" /\ nocode_wanted = 0 THEN gv(m, RC_INT) ELSE m
vsetc(m, e, mean) == Push(vcheck_cmp(m), e, mean)
vdup(m) == Reorder(m, LAMBDA s : Append(s, Last(s)))
vswap(m) == Reorder(vcheck_cmp(m), LAMBDA s :
              SubSeq(s, 1, Len(s) - 2) \o <<s[Len(s)], s[Len(s) - 1]>>)
vrotb(m, n) == Reorder(vcheck_cmp(m), LAMBDA s :
              SubSeq(s, 1, Len(s) - n) \o SubSeq(s, Len(s) - n + 2, Len(s))
                \o <<s[Len(s) - n + 1]>>)

\* gv2(): the two top entries; the second may have cost the first its register.
gv2(m, rc1, rc2) ==
  LET inRegister(e) == e.r \in Reg
      upAgain(up) == IF inRegister(up.vs[Depth(up) - 1]) THEN up ELSE vswap(gv(vswap(up), rc1))
      downAgain(down) == IF inRegister(Top(down)) THEN down ELSE gv(down, rc2)
  IN
  IF Top(m).r # "cmp"
  THEN upAgain(gv(vswap(gv(vswap(m), rc1)), rc2))
  ELSE downAgain(vswap(gv(vswap(gv(m, rc2)), rc1)))

\* gv_dup(): two registers with the value.
gv_dup(m) ==
  LET second(m2, r) == SetTop(load(m2, r, Top(m2)), [Top(m2) EXCEPT !.r = r])
      into(got) == second(vdup(got.m), got.r)
  IN  into(get_reg(gv(m, RC_INT), RC_INT))

IsConst(e) == e.r = "const" /\ ~ e.lval

\* The two top entries give way to their result v.
Reduced(m, v) ==
  [Drop(m) EXCEPT !.worlds =
     {[w EXCEPT !.means = Append(SubSeq(@, 1, Depth(m) - 2), Val(v))] : w \in m.worlds}]

\* gen_opi(): both operands in registers, or the right one in the instruction (cc);
\* the left register takes the result.
Used(m, cc) ==
  LET n == Depth(m) IN
  Check(m, LAMBDA w : <<w.reg[m.vs[n - 1].r], IF cc THEN Top(m).v ELSE w.reg[Top(m).r]>>,
           LAMBDA w : <<Deref(w.means[n - 1]), Deref(w.means[n])>>)
Result(w, op, r) ==
  CASE op = "lt" -> [w EXCEPT !.flags = "new"]
    [] op = "div" -> [w EXCEPT !.reg["rax"] = "new", !.reg["rdx"] = "junk", !.flags = "junk"]
    [] OTHER -> [w EXCEPT !.reg[r] = "new", !.flags = "junk"]
Executed(m, op) == Run(m, LAMBDA w : Result(w, op, Top(m).r))
Computed(m, op, cc) ==
  LET left == Reduced(Used(m, cc), "new") IN
  CASE op = "lt" -> SetTop(Executed(left, op), InReg("cmp", "int"))
    [] op = "div" -> Executed(save_reg(left, "rdx"), op)
    [] OTHER -> Executed(left, op)
gen_opi(m, op) ==
  IF IsConst(Top(m)) /\ op # "div"
  THEN Computed(vswap(gv(vswap(m), RC_INT)), op, TRUE)
  ELSE Computed(gv2(m, IF op = "div" THEN RC_RAX ELSE RC_INT,
                       IF op \in {"shl", "div"} THEN RC_RCX ELSE RC_INT), op, FALSE)

\* gen_op() and gen_opic(): casts, which exchange the operands twice, then constants
\* are folded, neutral operands dropped, and the rest computed.
gen_opic(m, op) ==
  LET a == m.vs[Depth(m) - 1]
      b == Top(m)
      zero(e) == IsConst(e) /\ e.v = "0"
  IN
  IF IsConst(a) /\ IsConst(b) /\ ~ (op = "div" /\ zero(b))
  THEN SetTop(Reduced(m, "3"), [a EXCEPT !.v = "3"])
  ELSE IF (op \in {"sub", "shl"} /\ zero(b)) \/ (op = "shl" /\ zero(a))
  THEN Drop(m)
  ELSE gen_opi(m, op)
gen_op(m, op) ==
  LET value(res) == IF Top(res).lval THEN gv(res, RC_INT) ELSE res IN
  value(gen_opic(vswap(vswap(m)), op))

\* indir(): an address becomes the object there.
indir(m) ==
  LET object(a) == Run(SetTop(a, [Top(a) EXCEPT !.lval = TRUE, !.t = "int"]),
                       LAMBDA w : Meaning(w, Depth(a), Mem(w.means[Depth(a)][2])))
  IN  object(IF Top(m).lval THEN gv(m, RC_INT) ELSE m)

\* vstore(): the top value into the place below, whose address may first have to
\* come back from its slot; the value is what remains.
AddressIn(got) ==
  LET to == got.m.vs[Depth(got.m) - 1] IN
  [load(got.m, got.r, [to EXCEPT !.r = "local", !.t = "ptr"])
     EXCEPT !.vs[Depth(got.m) - 1].r = got.r]
Stored(m) ==
  LET n == Depth(m) IN
  Drop(vswap(Check(m, LAMBDA w : <<Place(w, m.vs[n - 1]), w.reg[Top(m).r]>>,
                      LAMBDA w : <<w.means[n - 1], Deref(w.means[n])>>)))
vstore(m0) ==
  LET ready(m) == IF m.vs[Depth(m) - 1].r # "llocal" THEN m ELSE AddressIn(get_reg(m, RC_INT))
  IN  Stored(ready(gv(m0, RC_INT)))

\* gfunc_call() of n arguments, none of them a struct; the function, a constant
\* that takes no part, is left out.  Each argument goes through a register of the
\* class to one outside it, or to the stack.  The callee uses them and destroys all
\* registers; its result is pushed.
Passed(m) == Drop(Check(m, LAMBDA w : w.reg[Top(m).r], LAMBDA w : Deref(Last(w.means))))
Called(w) ==
  [w EXCEPT !.reg = [r \in Reg |-> IF r = "rax" THEN "new" ELSE "junk"], !.flags = "junk"]
gfunc_call(m, n) ==
  LET passed[k \in 0 .. n] ==
        IF k = 0 THEN save_regs(m, n) ELSE Passed(gv(passed[k - 1], RC_INT))
  IN  vsetc(Run(passed[n], Called), InReg("rax", "int"), Val("new"))

\* What no entry leads to is dead, as are the fields an entry does not use.
\* Forgetting them keeps the states few, and a use of them would find junk.
Tidy(e) == IF e.r \in Reg \cup {"cmp"} THEN [e EXCEPT !.r2 = 0, !.c = 0, !.v = "junk"] ELSE e
Forget(w, entries) ==
  LET slot(e) == IF e.r \notin {"local", "llocal"} THEN {}
                 ELSE e.c - (IF e.r = "llocal" THEN 2 ELSE Size(e.t)) + 1 .. e.c
      alive == UNION {slot(e) : e \in entries}
  IN
  [w EXCEPT !.reg = [r \in Reg |-> IF \E e \in entries : e.r = r THEN @[r] ELSE "junk"],
            !.flags = IF \E e \in entries : e.r = "cmp" THEN @ ELSE "junk",
            !.frame = Restrict(@, alive \cap DOMAIN @)]

\* An int in a register, a slot or the flags gets the name of the lowest entry that
\* stands for it; a constant entry keeps its own.
Rename(w, vs) ==
  LET held(k) == vs[k].r # "const" /\ vs[k].t = "int"
      name(v) == LET same == {k \in DOMAIN vs : held(k) /\ w.means[k] = Val(v)} IN
                 IF v = "junk" \/ same = {} THEN v ELSE ValueOf[Min(same)]
  IN
  [w EXCEPT !.reg = [r \in Reg |-> name(@[r])], !.flags = name(@),
            !.frame = [l \in DOMAIN @ |-> name(@[l])],
            !.means = [k \in DOMAIN @ |-> IF held(k) /\ @[k][1] = "val"
                                          THEN Val(name(@[k][2])) ELSE @[k]]]
Settle(m) == {Rename(Forget(w, Range(m.vs)), m.vs) : w \in m.worlds}

Become(m) ==
  /\ m.loc <= MaxLoc
  /\ vstack' = [k \in DOMAIN m.vs |-> Tidy(m.vs[k])] /\ temps' = m.temps /\ loc' = m.loc
  /\ worlds' = Settle(m)
Compile(m) == Become(m) /\ UNCHANGED <<nocode_wanted, conds>>
-----------------------------------------------------------------------------
(***************************************************************************)
(* The steps of an expression.  Operands of the innermost ?: are those     *)
(* above its base.                                                         *)
(***************************************************************************)
Base == IF conds = << >> THEN 0 ELSE Last(conds).base
Operands(n) == Len(vstack) >= Base + n
Room(n) ==
  /\ Len(vstack) + n <= MaxDepth
  /\ conds # << >> => Len(vstack) + n <= Base + MaxArm
Nth(k) == vstack[Len(vstack) - k]
IsInt(e) == e.t = "int"

\* An entry the program may assign to: not a temporary.
Assignable(e) == e.lval /\ (e.r = "local" => e.c <= Locals)

PushConst(v, t) == Room(1) /\ Compile(vsetc(Now, Const(v, t), Val(v)))
PushVar(c, t) == Room(1) /\ Compile(vsetc(Now, Entry("local", TRUE, c, "junk", t), Var(c)))
Pop == Operands(1) /\ Compile(Drop(Now))

\* *e
Indirection == Operands(1) /\ ~ IsInt(Nth(0)) /\ Compile(indir(Now))

Binary(op) ==
  /\ Operands(2) /\ IsInt(Nth(0)) /\ IsInt(Nth(1))
  /\ Compile(gen_op(Now, op))

\* Left side of a compound assignment: the place is needed twice.
CompoundPlace ==
  /\ Operands(1) /\ Room(1) /\ IsInt(Nth(0)) /\ Assignable(Nth(0))
  /\ Compile(vdup(Now))

Assign ==
  /\ Operands(2) /\ IsInt(Nth(0)) /\ IsInt(Nth(1)) /\ Assignable(Nth(1))
  /\ Compile(vstore(Now))

\* inc(post, c), the increment written as - 3.
Inc(post) ==
  LET two == vdup(Now)
      ready == IF post THEN vrotb(vrotb(gv_dup(two), 3), 3) ELSE two
      value(done) == IF post THEN Drop(done) ELSE done
  IN
  /\ Operands(1) /\ Room(IF post THEN 3 ELSE 2) /\ IsInt(Nth(0)) /\ Assignable(Nth(0))
  /\ Compile(value(vstore(gen_op(vsetc(ready, Const("3", "int"), Val("3")), "sub"))))

Call(n) ==
  /\ Operands(n) /\ \A k \in 0 .. n - 1 : IsInt(Nth(k))
  /\ Compile(gfunc_call(vcheck_cmp(Now), n))

\* parse_atomic() of __atomic_load(a, to, 0), where `to' is a constant address or a
\* pointer on the stack: the place to store to is taken off the stack, the helper
\* called, and the place put back.
AtomicLoad ==
  LET global == AtomicTarget = "global"
      place == indir(IF global THEN vsetc(Now, Const("&g", "ptr"), Val("&g")) ELSE Now)
      store == Top(place)
      aside == Drop(Run(place, LAMBDA w : [w EXCEPT !.aside = Last(w.means)]))
      order == vsetc(aside, Const("0", "int"), Val("0"))
      back == Push(gfunc_call(order, 2), store, Val("junk"))
      n == Depth(back)
      again == Run(back, LAMBDA w : [Meaning(w, n, w.aside) EXCEPT !.aside = << >>])
  IN
  /\ Operands(1) /\ ~ IsInt(Nth(0))
  /\ IF global THEN Room(1) ELSE Operands(2) /\ ~ IsInt(Nth(1))
  /\ Compile(vstore(vswap(again)))
-----------------------------------------------------------------------------
(***************************************************************************)
(* expr_cond(): condition ? then : else.  A constant condition suppresses  *)
(* the code of one arm; otherwise everything in registers is saved first,  *)
(* and both arms end with their value in the same register.                *)
(***************************************************************************)
condition_3way(e) == IF ~ IsConst(e) THEN -1 ELSE IF e.v = "0" THEN 0 ELSE 1
Branch(m) == Drop(Check(m, LAMBDA w : Place(w, Top(m)), LAMBDA w : Last(w.means)))

\* Code goes on in the first arm; the worlds that take the second are parked.
EnterArms(m, c) ==
  LET arm(alive) == IF alive THEN m ELSE [m EXCEPT !.worlds = {}] IN
  /\ Become(arm(c # 0))
  /\ conds' = Append(conds,
       [c |-> c, base |-> Depth(m), arm |-> "then", sv |-> Const("0", "int"),
        parked |-> Settle(arm(c # 1))])
  /\ nocode_wanted' = nocode_wanted + (IF c = 0 THEN 1 ELSE 0)
Conditional ==
  /\ Operands(1) /\ IsInt(Nth(0))
  /\ Len(conds) < MaxCond /\ Len(vstack) - 1 + MaxArm <= MaxDepth

CondQuestion ==
  LET c == condition_3way(Nth(0)) IN
  /\ Conditional
  /\ EnterArms(Branch(IF c >= 0 THEN Now
                      ELSE IF Nth(0).r = "cmp" THEN save_regs(Now, 1)
                      ELSE gv(save_regs(Now, 1), RC_INT)), c)

\* The value of the first arm leaves the stack; the worlds that computed it wait
\* at its end.
CondColon ==
  LET k == Len(conds)
      c == conds[k].c
  IN
  /\ conds # << >> /\ conds[k].arm = "then" /\ Len(vstack) = Base + 1
  /\ conds' = [conds EXCEPT ![k].arm = "else", ![k].sv = Nth(0), ![k].parked = worlds]
  /\ vstack' = Front(vstack)
  /\ worlds' = conds[k].parked
  /\ nocode_wanted' = nocode_wanted + (CASE c = 0 -> -1 [] c = 1 -> 1 [] OTHER -> 0)
  /\ UNCHANGED <<temps, loc>>

\* move_reg()
move_reg(m, r, s, t) ==
  IF r = s THEN m ELSE load(save_reg(m, r), r, InReg(s, t))

\* is_cond_bool(): two such arms are joined by jumps, which is not modelled.
is_cond_bool(e) == e.r = "cmp" \/ (IsConst(e) /\ e.v = "0")

\* The first arm's value joins the second's in register r2.
Joined(m, r2) ==
  Check(SetTop(m, [Top(m) EXCEPT !.r = r2]), LAMBDA w : Val(w.reg[r2]), LAMBDA w : Last(w.means))
WithFirst(other, sv, parked) ==
  LET r2 == Top(other).r
      moved(first) == move_reg(first, r2, Top(first).r, sv.t)
      joined(m) == Joined([m EXCEPT !.worlds = @ \cup other.worlds], r2)
  IN  joined(moved(gv([SetTop(other, sv) EXCEPT !.worlds = parked], RC_INT)))
CondEnd ==
  LET cond == Last(conds) IN
  /\ conds # << >> /\ cond.arm = "else" /\ Len(vstack) = Base + 1
  /\ IsInt(cond.sv) /\ IsInt(Nth(0))
  /\ cond.c = -1 => ~ (is_cond_bool(cond.sv) /\ is_cond_bool(Nth(0)))
  /\ conds' = Front(conds)
  /\ Become(CASE cond.c = -1 -> WithFirst(gv(Now, RC_INT), cond.sv, cond.parked)
              [] cond.c = 0 -> Now
              [] cond.c = 1 -> [SetTop(Now, cond.sv) EXCEPT !.worlds = cond.parked])
  /\ nocode_wanted' = nocode_wanted - (IF cond.c = 1 THEN 1 ELSE 0)

Next ==
  \/ \E v \in {"0", "3"} : PushConst(v, "int")
  \/ PushVar(VarI, "int") \/ PushVar(VarP, "ptr")
  \/ Pop \/ Indirection
  \/ \E op \in Op : Binary(op)
  \/ CompoundPlace \/ Assign
  \/ \E post \in BOOLEAN : Inc(post)
  \/ \E n \in 1 .. 2 : Call(n)
  \/ AtomicLoad
  \/ CondQuestion \/ CondColon \/ CondEnd

Spec == Init /\ [][Next]_vars
-----------------------------------------------------------------------------
InSlot(e) == e.r = "llocal" \/ (e.r = "local" /\ e.c > Locals)

\* The code emitted so far computes what the stack machine computes: every entry
\* leads to the value or the place it stands for, and every instruction, call, store
\* and branch has used what it should.
Faithful ==
  \A w \in worlds :
    ~ w.wrong /\ \A k \in DOMAIN vstack : Place(w, vstack[k]) = w.means[k]

\* No instruction uses a register whose value was taken away under it: get_reg() spills
\* "so that the registers of the operation being generated are never taken away"
\* (tcc-doc.texi:1891), and calls save what lives in registers first.
RegistersKept == \A w \in worlds : ~ w.wrong

\* Saved entries overlap in the frame only if they are copies of one another.
SlotsDisjoint ==
  LET cells(e) == e.c - (IF e.r = "llocal" THEN 2 ELSE Size(e.t)) + 1 .. e.c IN
  \A j, k \in DOMAIN vstack :
    /\ InSlot(vstack[j]) /\ InSlot(vstack[k])
    /\ cells(vstack[j]) \cap cells(vstack[k]) # {}
    => vstack[j] = vstack[k]
=============================================================================
