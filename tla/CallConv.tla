------------------------------ MODULE CallConv ------------------------------
(***************************************************************************)
(* One call: the caller's gfunc_call() moves the arguments from where they *)
(* were computed to where gfunc_prolog() of the callee takes them from, by *)
(* the rules of Win64.  The code is executed as it is emitted.  The first  *)
(* four arguments go through registers, all have a word on the stack; what *)
(* does not fit one is copied behind these words and passed by address.    *)
(*                                                                         *)
(* A value is <<"a", i>>, an address <<"f", k>> in the caller's frame,     *)
(* <<"o", k>> the k-th word from the stack pointer up, <<"h", i>> anywhere *)
(* else.  A spilled register gets a word of its own; VStack is about these.*)
(***************************************************************************)
EXTENDS Integers, Sequences, SequencesExt

CONSTANT Calls   \* [args, named, sret, fn, under], args being [k, r, lval]

VARIABLES
  call,   \* the call
  cpu,    \* [vs, reg, mem, slots, scratch], see Evaluated
  entry,  \* what is called
  step    \* "ready", "called", "entered" or "returned"

call_vars == <<call, cpu, entry, step>>

IntRegs == <<"rax", "rcx", "rdx">>
SseRegs == <<"x0", "x1", "x2", "x3", "x4", "x5">>
RegNames == ToSet(IntRegs) \cup ToSet(SseRegs) \cup {"rsi", "rdi", "r8", "r9", "r10", "r11", "st0"}
ArgRegs == <<"rcx", "rdx", "r8", "r9">>
Junk == <<"junk", 0>>

\* Sizes in words of the kinds of arguments.
InRegister(k) == k \in {"int", "dbl", "small"}
WordsOf(k) == CASE k = "huge" -> 6 [] OTHER -> 2

-----------------------------------------------------------------------------
(* Values and registers.                                                   *)

WordAt(m, a) == IF a \in DOMAIN m.mem THEN m.mem[a] ELSE Junk
Poke(m, a, v) == [m EXCEPT !.mem = (a :> v) @@ @]
SetReg(m, r, v) == [m EXCEPT !.reg[r] = v]
TopEntry(m) == m.vs[Len(m.vs)]
Pop(m) == [m EXCEPT !.vs = Front(@)]
Push(m, e) == [m EXCEPT !.vs = Append(@, e)]

Place(m, e) ==
  CASE e.r = "sym" -> <<"h", e.c>>
    [] e.r = "const" -> <<"a", e.c>>
    [] e.r = "local" -> <<"f", e.c>>
    [] e.r = "llocal" -> WordAt(m, <<"f", e.c>>)
    [] OTHER -> m.reg[e.r]
ValueOf(m, e) == IF e.lval THEN WordAt(m, Place(m, e)) ELSE Place(m, e)

\* save_reg_upstack(): entries in r, the n topmost excepted, move to the frame.
SaveReg(m, r, n) ==
  LET hit == {k \in 1 .. Len(m.vs) - n : m.vs[k].r = r}
      moved(e) == [e EXCEPT !.r = IF e.lval THEN "llocal" ELSE "local", !.lval = TRUE, !.c = m.slots]
  IN IF hit = {} THEN m
     ELSE [Poke(m, <<"f", m.slots>>, m.reg[r]) EXCEPT
             !.vs = [k \in DOMAIN @ |-> IF k \in hit THEN moved(@[k]) ELSE @[k]], !.slots = @ + 1]

save_regs(m, n) ==
  FoldLeft(LAMBDA x, k : IF x.vs[k].r \in RegNames THEN SaveReg(x, x.vs[k].r, 0) ELSE x,
           m, [k \in 1 .. Len(m.vs) - n |-> k])

\* [m, r] a register of the class that no entry uses.
get_reg(m, class) ==
  LET used == {m.vs[k].r : k \in DOMAIN m.vs}
      free == SelectSeq(class, LAMBDA r : r \notin used)
      first == SelectInSeq(m.vs, LAMBDA e : e.r \in ToSet(class))
  IN IF free # << >> THEN [m |-> m, r |-> free[1]]
     ELSE [m |-> SaveReg(m, m.vs[first].r, 0), r |-> m.vs[first].r]

\* An address in the frame goes through r itself or, if r cannot hold one, another.
Load(m, r, e) ==
  LET via == get_reg(m, IntRegs)
      helped == IF e.r = "llocal" /\ r \in ToSet(SseRegs) \cup {"st0"}
                THEN SetReg(via.m, via.r, Place(m, e)) ELSE m
  IN SetReg(helped, r, IF r = "st0" /\ e.k # "ld" THEN Junk ELSE ValueOf(m, e))

\* gv(): the topmost entry to a register of the class.
gv_class(m, class) ==
  LET e == TopEntry(m)
      ok == e.r \in ToSet(class)
      room == IF ok THEN [m |-> SaveReg(m, e.r, 1), r |-> e.r] ELSE get_reg(m, class)
      Loaded(x) == [Load(x.m, x.r, TopEntry(x.m)) EXCEPT
                      !.vs[Len(m.vs)] = [@ EXCEPT !.r = x.r, !.lval = FALSE]]
  IN IF ok /\ ~ e.lval THEN m ELSE Loaded(room)

-----------------------------------------------------------------------------
(* The caller.                                                             *)

gaddrof(e) ==
  [e EXCEPT !.k = "int", !.r = IF @ = "llocal" THEN "local" ELSE @, !.lval = e.r = "llocal"]
Swap(m) == [m EXCEPT !.vs = SubSeq(@, 1, Len(@) - 2) \o <<@[Len(@)], @[Len(@) - 1]>>]

\* vstore() of a struct: [.. dest, src] becomes [.. dest].
StructCopy(m, k) ==
  LET dest == m.vs[Len(m.vs) - 1]
      Aimed(x) == gv_class(Swap(gv_class(x, <<"rsi">>)), <<"rdi">>)
      Counted(x) == IF k = "huge" THEN SetReg(get_reg(x, <<"rcx">>).m, "rcx", Junk) ELSE x
      Copied(x) == Pop(Pop(Poke(x, x.reg["rdi"], WordAt(x, x.reg["rsi"]))))
      Restored(x) == SetReg(SetReg(x, "rsi", m.reg["rsi"]), "rdi", m.reg["rdi"])
  IN Restored(Copied(Counted(Aimed(Push(Push(Pop(m), gaddrof(dest)), gaddrof(TopEntry(m)))))))

arg_prepare_reg(arg) == IF arg \in {0, 1} THEN <<"r10", "r11">>[arg + 1] ELSE ArgRegs[arg + 1]

\* First pass, of the i-th argument from the top: it is copied if it is not one word.
CopyOut(x, i) ==
  LET m == x.m
      k == m.vs[Len(m.vs) - i].k
      Copied(g) ==
        LET at == SetReg(g.m, g.r, <<"o", x.size>>)
            both == Push(Push(at, [k |-> k, r |-> g.r, lval |-> TRUE, c |-> 0]), at.vs[Len(at.vs) - i])
        IN Pop(StructCopy(both, k))
      Popped(f) == SetReg(Poke(f, <<"o", x.size>>, f.reg["st0"]), "st0", Junk)
  IN CASE InRegister(k) -> x
       [] k = "ld" -> [m |-> Popped(gv_class(m, <<"st0">>)), size |-> x.size + WordsOf(k)]
       [] OTHER -> [m |-> Copied(get_reg(m, IntRegs)), size |-> x.size + WordsOf(k)]

\* Second pass: the topmost argument, number arg, goes to its register or word.
PassAddress(m, arg, size) ==
  LET Stored(g) == Poke(SetReg(g.m, g.r, <<"o", size>>), <<"o", arg>>, <<"o", size>>)
  IN IF arg >= 4 THEN Stored(get_reg(m, IntRegs)) ELSE SetReg(m, arg_prepare_reg(arg), <<"o", size>>)
PassWord(m, arg, class) ==
  LET g == gv_class(m, class)
      v == g.reg[TopEntry(g).r]
  IN IF arg >= 4 THEN Poke(g, <<"o", arg>>, v) ELSE SetReg(g, arg_prepare_reg(arg), v)
Pass(x, arg) ==
  LET k == TopEntry(x.m).k
      class == CASE k # "dbl" -> IntRegs [] arg >= 4 -> <<"x0">> [] OTHER -> <<SseRegs[arg + 1]>>
  IN IF InRegister(k) THEN [m |-> Pop(PassWord(x.m, arg, class)), size |-> x.size]
     ELSE [m |-> Pop(PassAddress(x.m, arg, x.size)), size |-> x.size + WordsOf(k)]

\* Seeded bug: the first two arguments are moved at once.
gfunc_call_Unprepared(m, n) ==
  LET words == IF n < 4 THEN 4 ELSE n
      sized == [m |-> save_regs(m, n), size |-> words]
      copied == FoldLeft(CopyOut, sized, [i \in 1 .. n |-> i - 1])
      Sent(x, arg) ==
        LET y == Pass(x, arg) IN
        IF arg < 2 THEN [y EXCEPT !.m = SetReg(@, ArgRegs[arg + 1], @.reg[arg_prepare_reg(arg)])] ELSE y
  IN [FoldLeft(Sent, [m |-> copied.m, size |-> words], [i \in 1 .. n |-> n - i]).m EXCEPT
        !.scratch = copied.size]

\* The n topmost entries are the arguments, below them what is called.
gfunc_call(m, n) ==
  LET words == IF n < 4 THEN 4 ELSE n
      sized == [m |-> save_regs(m, n), size |-> words]
      Scratch(x) == [m |-> [x.m EXCEPT !.scratch = x.size], size |-> words]
      Sent(x) == FoldLeft(Pass, x, [i \in 1 .. n |-> n - i]).m
      First(x) == IF n > 0 THEN SetReg(x, "rcx", x.reg["r10"]) ELSE x
      Second(x) == IF n > 1 THEN SetReg(x, "rdx", x.reg["r11"]) ELSE x
  IN Second(First(Sent(Scratch(FoldLeft(CopyOut, sized, [i \in 1 .. n |-> i - 1])))))

-----------------------------------------------------------------------------
(* The callee.                                                             *)

\* Stores of gfunc_prolog(): the words belong to the caller, registers go there.
Homed(m, k, i) ==
  LET r == IF k = "dbl" THEN SseRegs[i] ELSE ArgRegs[i]
  IN IF i > 4 THEN m ELSE Poke(m, <<"o", i - 1>>, m.reg[r])
gfunc_prolog(m, kinds, variadic) ==
  LET named == FoldLeft(LAMBDA x, i : Homed(x, kinds[i], i), m, [i \in DOMAIN kinds |-> i])
      rest == IF variadic THEN SelectSeq(<<1, 2, 3, 4>>, LAMBDA i : i > Len(kinds)) ELSE << >>
  IN FoldLeft(LAMBDA x, i : Homed(x, "int", i), named, rest)

\* A parameter, and an argument without one by __builtin_va_arg, of the i-th word.
Received(m, k, i) ==
  IF InRegister(k) THEN WordAt(m, <<"o", i - 1>>) ELSE WordAt(m, WordAt(m, <<"o", i - 1>>))

-----------------------------------------------------------------------------
\* Where the i-th value is before the call: in a register, in memory a register or
\* a word of the frame points to, in the frame, a constant or a global.
Evaluated(m, e, i) ==
  LET put == IF e.lval THEN <<"h", i>> ELSE <<"a", i>>
      there == IF e.lval THEN Poke(m, <<"h", i>>, <<"a", i>>) ELSE m
  IN Push(CASE e.r \in RegNames -> SetReg(there, e.r, put)
            [] e.r = "llocal" -> Poke(there, <<"f", i>>, put)
            [] e.r = "local" /\ e.lval -> Poke(m, <<"f", i>>, <<"a", i>>)
            [] OTHER -> there,
          [k |-> e.k, r |-> e.r, lval |-> e.lval, c |-> i])

\* Of a struct returned by address the caller passes the address of its own.
Buffer == [k |-> "int", r |-> "local", lval |-> FALSE]
Arguments1(c) == (IF c.sret THEN <<Buffer>> ELSE << >>) \o c.args
Operands1(c) == <<c.under, c.fn>> \o Arguments1(c)
Idle == [vs |-> << >>, reg |-> [r \in RegNames |-> Junk], mem |-> << >>, slots |-> 20, scratch |-> 4]

CallInit ==
  /\ call \in Calls /\ entry = Junk /\ step = "ready"
  /\ cpu = FoldLeft(LAMBDA m, i : Evaluated(m, Operands1(call)[i], i), Idle,
                    [i \in DOMAIN Operands1(call) |-> i])

Call ==
  /\ step = "ready" /\ step' = "called"
  /\ \E m \in {gfunc_call(cpu, Len(Arguments1(call)))} :
       /\ entry' = ValueOf(m, TopEntry(m))
       /\ cpu' = Pop(IF TopEntry(m).r = "const" THEN m ELSE Load(m, "r11", TopEntry(m)))
  /\ UNCHANGED call

\* The kinds of the parameters the callee knows.
ParamKinds(c) ==
  LET args == Arguments1(c) IN
  [i \in 1 .. Len(args) - Len(c.args) + c.named |-> args[i].k]

Enter ==
  /\ step = "called" /\ step' = "entered"
  /\ cpu' = gfunc_prolog(cpu, ParamKinds(call), call.named < Len(call.args))
  /\ UNCHANGED <<call, entry>>

\* Registers a callee may change, and the words it was given, are lost.
Leave ==
  /\ step = "entered" /\ step' = "returned"
  /\ cpu' = [cpu EXCEPT !.reg = [r \in RegNames |-> IF r \in {"rsi", "rdi"} THEN @[r] ELSE Junk],
                        !.mem = [a \in {b \in DOMAIN @ : b[1] # "o"} |-> @[a]]]
  /\ UNCHANGED <<call, entry>>

CallNext == Call \/ Enter \/ Leave

-----------------------------------------------------------------------------
\* What the i-th argument is for the callee.
Meant(c, i) == IF c.sret /\ i = 1 THEN <<"f", 3>> ELSE <<"a", i + 2>>

\* A long double in front of another argument: see DocLongDouble.
EarlyLongDouble(c) == \E i \in 1 .. Len(c.args) - 1 : c.args[i].k = "ld"

Delivered1 ==
  LET args == Arguments1(call)
      copies == {i \in DOMAIN args : ~ InRegister(args[i].k)}
      Word(i) == WordAt(cpu, <<"o", i - 1>>)
  IN step = "entered" =>
       /\ entry = <<"a", 2>>
       /\ \A i \in DOMAIN args : Received(cpu, args[i].k, i) = Meant(call, i)
       /\ \A i \in copies :
            /\ Word(i)[1] = "o" /\ Word(i)[2] >= Len(args)
            /\ Word(i)[2] + WordsOf(args[i].k) <= cpu.scratch
            /\ \A j \in copies \ {i} :
                 Word(j)[2] \notin Word(i)[2] .. Word(i)[2] + WordsOf(args[i].k) - 1

(* gfunc_call(), gfunc_prolog(): whatever registers and memory the arguments, and   *)
(* the address of the function, were left in, the function meant is entered and it  *)
(* finds each argument, named or not, where it looks for it; what is passed by      *)
(* address is a copy no one else has, inside the room the frame reserves; and what  *)
(* else the caller had computed is still known to it afterwards.                    *)
CallDelivers ==
  ~ EarlyLongDouble(call) =>
    /\ Delivered1
    /\ step = "returned" => ValueOf(cpu, cpu.vs[1]) = <<"a", 1>>

(* doc/tcc-doc.texi:608: long double is among the types that are fully supported,   *)
(* so an argument of that type arrives like any other, wherever it stands.          *)
DocLongDouble == Delivered1
=============================================================================
