------------------------------ MODULE JumpCode ------------------------------
(***************************************************************************)
(* The code under construction, with its jumps, and the conditions that    *)
(* decide them.  A jump whose target is not known yet keeps in its operand *)
(* the address of another one that waits for the same target, so every     *)
(* list of waiting jumps is threaded through the code and known by its     *)
(* first jump.  After an unconditional jump code is suppressed until       *)
(* something can be reached again.                                         *)
(*                                                                         *)
(* A code generator is a record: `code' the instructions, numbered from 1; *)
(* `off' the bit CODE_OFF of nocode_wanted and `dead' its count; `t' what  *)
(* the function just modelled returns; `top' the value on top of vtop;     *)
(* `at' the point of the source that is compiled.                          *)
(***************************************************************************)
EXTENDS Naturals, Sequences, SequencesExt

\* A condition on vtop: op 0 or 1 if known, else 2 * atom or, inverted, 2 * atom + 1;
\* with `cmp' a VT_CMP, where jtrue and jfalse are lists of jumps made already.
Cond(op, cmp) == [op |-> op, cmp |-> cmp, jtrue |-> 0, jfalse |-> 0]
Generator(code, off, at) ==
  [code |-> code, off |-> off, dead |-> 0, t |-> 0, top |-> Cond(0, FALSE), at |-> at]

Xor1(op, inv) == IF inv = 0 THEN op ELSE IF op % 2 = 0 THEN op + 1 ELSE op - 1

Wanted(m) == ~ m.off /\ m.dead = 0
Ind(m) == Len(m.code) + 1

\* An instruction: of a jump `to' is the target, or the next of its list as
\* long as it is not `set'.
Instr(op, arg, to, set) == [op |-> op, arg |-> arg, to |-> to, set |-> set]

Emitted(m, ins) == IF Wanted(m) THEN [m EXCEPT !.code = Append(@, ins)] ELSE m

\* An instruction without a jump: something of the source happens.
Does(m, op, arg) == Emitted(m, Instr(op, arg, 0, TRUE))

\* oad()
Chained(m, op, arg, t) ==
  IF Wanted(m)
  THEN [m EXCEPT !.code = Append(@, Instr(op, arg, t, FALSE)), !.t = Ind(m)]
  ELSE [m EXCEPT !.t = t]

Off(m) == IF Wanted(m) THEN [m EXCEPT !.off = TRUE] ELSE m

gjmp_acs(m, t) == [Chained(m, "jmp", 0, t) EXCEPT !.off = @ \/ Wanted(m)]
gjmp_addr_acs(m, a) == Off(Emitted(m, Instr("jmp", 0, a, TRUE)))
gjmp_cond(m, op, t) == Chained(m, "jif", <<m.at, op>>, t)

\* The jumps of the list t, first to last; n bounds a list that does not end.
RECURSIVE ListFrom(_, _, _)
ListFrom(code, t, n) ==
  IF t = 0 \/ n = 0 THEN << >> ELSE <<t>> \o ListFrom(code, code[t].to, n - 1)

ListOf(code, t) == ListFrom(code, t, Len(code))

gsym_addr(m, t, a) ==
  LET list == ToSet(ListOf(m.code, t)) IN
  [m EXCEPT !.code = [i \in DOMAIN @ |->
     IF i \in list THEN [@[i] EXCEPT !.to = a, !.set = TRUE] ELSE @[i]]]

gind(m) == [m EXCEPT !.off = FALSE, !.t = Ind(m)]

gsym(m, t) ==
  IF t = 0 THEN m ELSE [gsym_addr(m, t, Ind(m)) EXCEPT !.off = FALSE]

\* Seeded bug: the list t is lost.
gjmp_append_Lost(m, n, t) == [m EXCEPT !.t = IF n = 0 THEN t ELSE n]

\* The list n with the list t behind it.
gjmp_append(m, n, t) ==
  IF n = 0 THEN [m EXCEPT !.t = t]
  ELSE [m EXCEPT !.code[Last(ListOf(m.code, n))].to = t, !.t = n]

\* vtop becomes a VT_CMP that also jumps along t when it is false (inv) or true.
gvtst_set(m, inv, t) ==
  IF inv = 1
  THEN LET n == gjmp_append(m, m.top.jfalse, t)
       IN  [n EXCEPT !.top.jfalse = n.t, !.top.cmp = TRUE]
  ELSE LET n == gjmp_append(m, m.top.jtrue, t)
       IN  [n EXCEPT !.top.jtrue = n.t, !.top.cmp = TRUE]

Tested(m, op, inv, t) ==
  IF op > 1 THEN gjmp_cond(m, Xor1(op, inv), t)
  ELSE IF op # inv THEN gjmp_acs(m, t) ELSE [m EXCEPT !.t = t]

\* Resolves the jumps taken the other way here, but returns t.
Resolved(m, u) == [gsym(m, u) EXCEPT !.t = m.t]

TestTop(m, inv) ==
  IF inv = 1 THEN Resolved(Tested(m, m.top.op, 1, m.top.jfalse), m.top.jtrue)
  ELSE Resolved(Tested(m, m.top.op, 0, m.top.jtrue), m.top.jfalse)

\* Pops the condition; the list returned is taken if it is false (inv) or true.
gvtst(m, inv, t) == TestTop(gvtst_set(m, inv, t), inv)

gen_test_zero(m) ==
  [m EXCEPT !.top = [@ EXCEPT !.op = Xor1(@, 1), !.jtrue = m.top.jfalse,
                              !.jfalse = m.top.jtrue]]

\* 2 if it is not a constant; the code says -1.
condition_3way(m) == IF m.top.cmp THEN 2 ELSE m.top.op
-----------------------------------------------------------------------------
\* Conditions: [k |-> "const", v], [k |-> "atom", id], [k |-> "not", of] and
\* [k |-> "and" or "or", args].

\* expr_landor(): args from the j-th on; the value of the j-th is on vtop.  `t'
\* is the list of the jumps made, cc = 1 while all is constant, f = 1 once the
\* result is decided.
RECURSIVE Pushed(_, _)
RECURSIVE Landor(_, _, _, _, _, _, _)

Decided(m, i, t, f) ==
  [gsym([m EXCEPT !.top = Cond(IF i = f THEN 0 ELSE 1, FALSE)], t) EXCEPT !.dead = @ - f]

LandorRest(m, i, args, j, t, cc, f) ==
  IF j = Len(args)
  THEN IF cc = 1 \/ f = 1 THEN Decided(m, i, t, f) ELSE gvtst_set(m, i, t)
  ELSE Landor(Pushed(m, args[j + 1]), i, args, j + 1, t, cc, f)

Landor(m, i, args, j, t, cc, f) ==
  LET c == IF f = 1 THEN i ELSE condition_3way(m)
      goes == c # 2 /\ c # i
      n == IF c = 2 /\ j < Len(args) THEN gvtst(m, i, t)
           ELSE IF goes THEN [m EXCEPT !.dead = @ + 1, !.t = t] ELSE [m EXCEPT !.t = t]
  IN  LandorRest(n, i, args, j, n.t, IF c = 2 THEN 0 ELSE cc, IF goes THEN 1 ELSE f)

Pushed(m, c) ==
  CASE c.k = "const" -> [m EXCEPT !.top = Cond(c.v, FALSE)]
    [] c.k = "atom"  -> [m EXCEPT !.top = Cond(2 * c.id, TRUE)]
    [] c.k = "not"   -> gen_test_zero(Pushed(m, c.of))
    [] c.k = "and"   -> Landor(Pushed(m, c.args[1]), 1, c.args, 1, 0, 1, 0)
    [] c.k = "or"    -> Landor(Pushed(m, c.args[1]), 0, c.args, 1, 0, 1, 0)

\* gexpr() and gvtst(): the list taken if the condition is false (inv) or true.
Test(m, c, inv) == gvtst(Pushed(m, c), inv, 0)
=============================================================================
