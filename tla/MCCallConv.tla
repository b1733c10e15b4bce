----------------------------- MODULE MCCallConv -----------------------------
(***************************************************************************)
(* Two arguments of every kind wherever they can be, and lists of five and *)
(* six of three kinds spread over the registers and memory in three ways,  *)
(* so that some go to the stack and some have to make room for others.     *)
(***************************************************************************)
EXTENDS CallConv

In(k, r) == [k |-> k, r |-> r, lval |-> FALSE]
Of(k, r) == [k |-> k, r |-> r, lval |-> TRUE]

Someplace ==
  {In("int", r) : r \in {"const", "rax", "rcx", "rdx"}}
  \cup {In("dbl", r) : r \in {"x0", "x1"}} \cup {In("ld", "st0")}
  \cup {Of("int", r) : r \in {"local", "llocal", "rcx"}}
  \cup {Of(k, r) : k \in {"dbl", "small", "big", "huge", "ld"}, r \in {"sym", "llocal", "rcx"}}

OwnRegs(s) == \A i, j \in DOMAIN s : s[i].r \in RegNames /\ s[i].r = s[j].r => i = j

\* The i-th value of kind k: in registers while there are any, behind them, or in memory.
Spread(how, k, i) ==
  CASE how = "value" /\ k = "int" /\ i <= 3 -> In(k, IntRegs[i])
    [] how = "value" /\ k = "dbl" /\ i <= 6 -> In(k, SseRegs[i])
    [] how = "pointed" /\ i <= 3 -> Of(k, IntRegs[4 - i])
    [] how = "mixed" /\ k = "dbl" /\ i <= 6 -> In(k, SseRegs[7 - i])
    [] how = "mixed" /\ k = "int" /\ i = 2 -> In(k, "rcx")
    [] how = "mixed" /\ k = "big" /\ i \in {1, 3} -> Of(k, IntRegs[i])
    [] OTHER -> Of(k, "llocal")

ACall(args, named, sret, fn, under) ==
  [args |-> args, named |-> named, sret |-> sret, fn |-> fn, under |-> under]

Around ==
  {<<In("int", "const"), In("int", "rcx")>>, <<Of("int", "rdx"), Of("int", "local")>>,
   <<In("int", "rax"), In("dbl", "x0")>>}

TwoArguments ==
  {ACall(a, n, s, f[1], f[2]) :
     a \in UNION {[1 .. n -> Someplace] : n \in 0 .. 2}, n \in {0, 2}, s \in BOOLEAN, f \in Around}
ManyArguments ==
  {ACall([i \in 1 .. Len(k) |-> Spread(how, k[i], i)], n, s, In("int", "const"), Of("int", "local")) :
     how \in {"value", "pointed", "mixed"}, n \in {0, 3, 5}, s \in BOOLEAN,
     k \in [1 .. 5 -> {"int", "dbl", "big"}]}

MCCalls ==
  {c \in TwoArguments : c.named <= Len(c.args) /\ OwnRegs(Operands1(c))} \cup ManyArguments

CallSpec == CallInit /\ [][CallNext]_call_vars
=============================================================================
