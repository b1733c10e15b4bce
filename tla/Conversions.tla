---------------------------- MODULE Conversions ----------------------------
(***************************************************************************)
(* Integer arithmetic in tccgen.c: gen_op(), combine_types(), gen_opic()   *)
(* and gen_cast() on constants, and on values the code they emit computes, *)
(* with the casts vstore() and calls leave for later (VT_MUSTCAST).        *)
(*                                                                         *)
(* One value is at the top of the value stack.  It is an entry, and `num'  *)
(* is the number C says it is; each step applies one operation to both.    *)
(* Widths are parameters: c.i and a register have Bits["llong"] bits.      *)
(***************************************************************************)
EXTENDS Integers, Bitwise

CONSTANTS
  Bits,      \* of "char" 8, "short" 16, "int" 32, "llong" 64
  Operands   \* [e, num]: variables and constants

BaseType == {"bool", "char", "short", "int", "llong"}
IntType == [b : BaseType \ {"bool"}, u : BOOLEAN] \cup {[b |-> "bool", u |-> FALSE]}
IntT == [b |-> "int", u |-> FALSE]

VARIABLES
  top,   \* [k "const" | "mem" | "reg", t, must, c]: c is c.i, the variable's
         \* memory or the register; must: VT_MUSTCAST, 2 from a long long
  num,   \* the value C gives the expression
  written   \* [c, w, num]: what the last assignment stored, and what it should

conv_vars == <<top, num, written>>

W(t) == IF t.b = "bool" THEN Bits["char"] ELSE Bits[t.b]
I == Bits["int"]
L == Bits["llong"]
Low(n, w) == n % 2 ^ w
\* The number w bits stand for.
Number(n, w, u) == IF ~ u /\ Low(n, w) >= 2 ^ (w - 1) THEN Low(n, w) - 2 ^ w ELSE Low(n, w)
Small(t) == t.b \in {"bool", "char", "short"}

Entry(k, t, c) == [k |-> k, t |-> t, must |-> 0, c |-> c]

-----------------------------------------------------------------------------
(* What the processor does.                                                *)

\* load(): movsx and movzx to 32 bits, which clears the rest; an immediate.
Loaded(e) ==
  CASE e.k = "reg" -> e.c
    [] e.k = "const" -> Low(e.c, IF e.t.b = "llong" THEN L ELSE I)
    [] e.k = "mem" -> IF e.t.b = "llong" THEN Low(e.c, L)
                      ELSE Low(Number(e.c, W(e.t), e.t.u), I)

gv(e) == [e EXCEPT !.k = "reg", !.c = Loaded(e)]

AsSigned(c, w) == Number(c, w, FALSE)
Quotient(a, b) == LET q == (IF a < 0 THEN -a ELSE a) \div (IF b < 0 THEN -b ELSE b) IN
                  IF (a < 0) = (b < 0) THEN q ELSE -q

\* gen_opi() and gen_opl(): one instruction on operands of w bits.
Machine(op, x, y, w) ==
  LET a == Low(x, w)
      b == Low(y, w)
      sa == AsSigned(x, w)
      sb == AsSigned(y, w)
      n == y % w
      Truth(p) == IF p THEN 1 ELSE 0
  IN CASE op = "+" -> Low(a + b, w)
       [] op = "-" -> Low(a - b, w)
       [] op = "*" -> Low(a * b, w)
       [] op = "&" -> a & b
       [] op = "|" -> a | b
       [] op = "^" -> a ^^ b
       [] op = "shl" -> Low(a * 2 ^ n, w)
       [] op = "shr" -> a \div 2 ^ n
       [] op = "sar" -> Low(sa \div 2 ^ n, w)
       [] op = "/" -> Low(Quotient(sa, sb), w)
       [] op = "%" -> Low(sa - sb * Quotient(sa, sb), w)
       [] op = "udiv" -> a \div b
       [] op = "umod" -> a % b
       [] op = "eq" -> Truth(a = b)
       [] op = "ne" -> Truth(a # b)
       [] op = "lt" -> Truth(sa < sb)
       [] op = "ge" -> Truth(sa >= sb)
       [] op = "le" -> Truth(sa <= sb)
       [] op = "gt" -> Truth(sa > sb)
       [] op = "ult" -> Truth(a < b)
       [] op = "uge" -> Truth(a >= b)
       [] op = "ule" -> Truth(a <= b)
       [] op = "ugt" -> Truth(a > b)

Compares == {"eq", "ne", "lt", "ge", "le", "gt", "ult", "uge", "ule", "ugt"}

-----------------------------------------------------------------------------
(* gen_cast()                                                              *)

\* A constant takes its value from c.i by its old type and is cut to the new one.
CastConst(e, d) ==
  LET v == IF e.t.b = "llong" THEN e.c ELSE Low(Number(e.c, I, e.t.u), L)
      c == CASE d.b = "llong" -> v
             [] d.b = "bool" -> IF v # 0 THEN 1 ELSE 0
             [] d.b \in {"char", "short", "int"} -> Low(Number(v, W(d), d.u), L)
  IN [e EXCEPT !.t = d, !.c = c]

\* A long long in a register: shifted up to drop what does not fit, down to half
\* of the register, and there down as an int is extended.
Narrowed(c, d) ==
  LET up == L - W(d)
      x  == Machine("shl", c, up, L)
      y  == Machine(IF d.u THEN "shr" ELSE "sar", x, up - (L - I), L)
  IN Machine("shr", y, L - I, L)

\* Seeded bug: a variable is read as the type it is cast to, whatever that is.
CastValue_Reread(e, d) ==
  LET r == gv(e)
      As(x) == [x EXCEPT !.t = d]
  IN CASE W(d) = W(e.t) /\ W(d) >= I -> As(e)
       [] e.k = "mem" /\ W(d) <= I /\ ~ (W(d) = W(e.t) /\ W(d) >= I) -> As(e)
       [] OTHER ->
            IF d.b = "llong"
            THEN As(IF e.t.u THEN r ELSE [r EXCEPT !.c = Low(Number(@, I, FALSE), L)])
            ELSE IF e.t.b = "llong" THEN As([r EXCEPT !.c = Narrowed(@, d)])
            ELSE IF W(d) >= I THEN As(r)
            ELSE As([r EXCEPT !.c = Low(Number(@, W(d), d.u), I)])

\* A value that is no constant, to a type other than its own and not _Bool.
CastValue(e, d) ==
  LET r == gv(e)
      As(x) == [x EXCEPT !.t = d]
      same == W(d) = W(e.t) /\ W(d) >= I
      reread == e.k = "mem" /\ W(d) <= W(e.t)
      widened == e.k = "mem" /\ W(d) <= I
                   /\ ~ (d = [b |-> "short", u |-> TRUE] /\ e.t = [b |-> "char", u |-> FALSE])
  IN CASE same \/ reread -> As(e)
       [] ~ same /\ ~ reread /\ widened -> As(r)
       [] OTHER ->
            IF d.b = "llong"                                       \* gen_cvt_sxtw()
            THEN As(IF e.t.u THEN r ELSE [r EXCEPT !.c = Low(Number(@, I, FALSE), L)])
            ELSE IF e.t.b = "llong" THEN As([r EXCEPT !.c = Narrowed(@, d)])
            ELSE IF W(d) >= I THEN As(r)
            ELSE As([r EXCEPT !.c = Low(Number(@, W(d), d.u), I)]) \* gen_cvt_csti()

\* force_charshort_cast(): the cast put off, from what the register holds.
Forced(e) ==
  IF e.must = 0 THEN e
  ELSE LET from == [b |-> IF e.must = 2 THEN "llong" ELSE "int", u |-> FALSE]
           d == IF e.t.b = "bool" THEN [b |-> "char", u |-> TRUE] ELSE e.t
       IN [CastValue([e EXCEPT !.must = 0, !.t = from], d) EXCEPT !.t = e.t]

\* combine_types() for integers.
Combined(t1, t2) ==
  IF "llong" \in {t1.b, t2.b}
  THEN [b |-> "llong", u |-> [b |-> "llong", u |-> TRUE] \in {t1, t2}]
  ELSE [b |-> "int", u |-> [b |-> "int", u |-> TRUE] \in {t1, t2}]

\* gen_test_zero() of e as type t.
Tested(e, t) == Entry("reg", [b |-> "bool", u |-> FALSE],
                      Machine("ne", Loaded(IF e.t = t THEN e ELSE CastValue(e, t)), 0, W(t)))

Converted(e, d) ==
  CASE e.t = d -> e
    [] e.t # d /\ e.k = "const" -> CastConst(e, d)
    [] e.t # d /\ e.k # "const" /\ d.b # "bool" -> CastValue(e, d)
    [] e.t # d /\ e.k # "const" /\ d.b = "bool" -> Tested(e, Combined(e.t, IntT))

Cast(e, d) == Converted(Forced(e), d)

-----------------------------------------------------------------------------
(* gen_opic()                                                              *)

value64(c, t) == IF t.b = "llong" THEN c ELSE Low(Number(c, I, t.u), L)

\* Both operands are constants: computed in 64 bits, written as the type has it.
Folded(op, v1, v2) ==
  LET l1 == value64(v1.c, v1.t)
      l2 == value64(v2.c, v2.t)
      n == l2 % W(v1.t)                                            \* shm
  IN [v1 EXCEPT !.c = value64(
        CASE op = "shl" -> Low(l1 * 2 ^ n, L)
          [] op = "shr" -> l1 \div 2 ^ n
          [] op = "sar" -> Low(AsSigned(l1, L) \div 2 ^ n, L)
          [] OTHER -> Machine(op, l1, l2, L), v1.t)]

Power(n) == \E k \in 0 .. L - 1 : n = 2 ^ k
Log(n) == CHOOSE k \in 0 .. L - 1 : n = 2 ^ k

\* The instruction on what the operands hold.
Emitted(op, v1, v2) ==
  Entry("reg", v1.t, Machine(op, Loaded(v1), Loaded(v2), W(v1.t)))

AllOnes(c, t) == c = 2 ^ L - 1 \/ (c = 2 ^ I - 1 /\ t.b # "llong")

\* One of the operands is not a constant.
Simplified(op, v1, v2) ==
  LET c1 == v1.k = "const"
      c2 == v2.k = "const"
      l1 == value64(v1.c, v1.t)
      l2 == value64(v2.c, v2.t)
      Const(n) == [v2 EXCEPT !.c = n]
  IN CASE c1 /\ (\/ l1 = 0 /\ op \in {"shl", "shr", "sar"}
                 \/ l1 = 2 ^ L - 1 /\ op = "sar") -> v1
       [] c2 /\ (\/ l2 = 0 /\ op \in {"&", "*"}
                 \/ op = "|" /\ AllOnes(l2, v2.t)) -> v2
       [] c2 /\ l2 = 1 /\ op \in {"%", "umod"} -> Const(0)
       [] c2 /\ (\/ l2 = 1 /\ op \in {"*", "/", "udiv"}
                 \/ l2 = 0 /\ op \in {"+", "-", "|", "^", "shl", "shr", "sar"}
                 \/ op = "&" /\ AllOnes(l2, v2.t)) -> v1
       [] c2 /\ l2 > 1 /\ Power(l2) /\ op = "umod" -> Emitted("&", v1, Const(l2 - 1))
       [] c2 /\ l2 > 1 /\ Power(l2) /\ op \in {"*", "udiv"} ->
            Emitted(IF op = "*" THEN "shl" ELSE "shr", v1, Const(Log(l2)))
       [] OTHER -> Emitted(op, v1, v2)

\* A constant goes to the right of an operation that commutes.
Reduced(op, v1, v2) ==
  IF v1.k = "const" /\ op \in {"+", "&", "^", "|", "*", "eq", "ne"}
  THEN Simplified(op, v2, v1)
  ELSE Simplified(op, v1, v2)

gen_opic(op, v1, v2) ==
  IF v1.k = "const" /\ v2.k = "const" THEN Folded(op, v1, v2) ELSE Reduced(op, v1, v2)

-----------------------------------------------------------------------------
(* gen_op()                                                                *)

Shifts == {"shl", "sar"}
Binary == {"+", "-", "*", "/", "%", "&", "|", "^"} \cup Shifts
            \cup {"eq", "ne", "lt", "ge", "le", "gt"}

Unsigned(op) ==
  CASE op = "sar" -> "shr" [] op = "/" -> "udiv" [] op = "%" -> "umod"
    [] op = "lt" -> "ult" [] op = "gt" -> "ugt" [] op = "le" -> "ule" [] op = "ge" -> "uge"
    [] OTHER -> op

gen_op(op, v1, v2) ==
  LET t  == IF op \in Shifts THEN Combined(v1.t, v1.t) ELSE Combined(v1.t, v2.t)
      t2 == IF op \in Shifts THEN IntT ELSE t
      r  == gen_opic(IF t.u THEN Unsigned(op) ELSE op, Cast(v1, t), Cast(v2, t2))
  IN [r EXCEPT !.t = IF op \in Compares THEN IntT ELSE t]

\* vstore() to a variable of type d: [e, c], the value left and what is stored.
\* To char or short the cast is put off.
vstore(e, d) ==
  LET Stored(r, t, must) == [e |-> [r EXCEPT !.t = t, !.must = must], c |-> Low(r.c, W(d))]
  IN IF d.b \in {"char", "short"}
     THEN Stored(gv(IF e.must > 0 /\ W(d) > W(e.t) THEN Forced(e) ELSE e), d,
                 IF e.t.b = "llong" THEN 2 ELSE 1)
     ELSE Stored(gv(Cast(e, d)), d, 0)

-----------------------------------------------------------------------------
(* What C says.                                                            *)

Convert(n, t) == IF t.b = "bool" THEN (IF n = 0 THEN 0 ELSE 1) ELSE Number(n, W(t), t.u)
Promote(t) == IF Small(t) THEN IntT ELSE t
Common(t1, t2) ==
  LET p == Promote(t1)
      q == Promote(t2)
  IN IF p.b = q.b THEN [p EXCEPT !.u = p.u \/ q.u] ELSE IF p.b = "llong" THEN p ELSE q

\* Bit by bit, of numbers in two's complement.
Bitwise(op, a, b, w) ==
  LET Bit(n, k) == (n \div 2 ^ k) % 2
      On(k) == CASE op = "&" -> Bit(a, k) = 1 /\ Bit(b, k) = 1
                 [] op = "|" -> Bit(a, k) = 1 \/ Bit(b, k) = 1
                 [] op = "^" -> Bit(a, k) # Bit(b, k)
      sum[k \in 0 .. w] == IF k = 0 THEN 0 ELSE sum[k - 1] + (IF On(k - 1) THEN 2 ^ (k - 1) ELSE 0)
  IN sum[w]

\* The operations C defines; overflow is taken to wrap.
Defined(op, t1, n1, t2, n2) ==
  LET t == Common(t1, t2) IN
  /\ op \in {"/", "%"} => /\ Convert(n2, t) # 0
                          /\ ~ (Convert(n2, t) = -1 /\ Convert(n1, t) = -(2 ^ (W(t) - 1)))
  /\ op \in Shifts => n2 \in 0 .. W(Promote(t1)) - 1

Means(op, t1, n1, t2, n2) ==
  LET t == IF op \in Shifts THEN Promote(t1) ELSE Common(t1, t2)
      a == Convert(n1, t)
      b == Convert(n2, t)
      Truth(p) == IF p THEN 1 ELSE 0
  IN CASE op = "+" -> Convert(a + b, t)
       [] op = "-" -> Convert(a - b, t)
       [] op = "*" -> Convert(a * b, t)
       [] op = "/" -> Convert(Quotient(a, b), t)
       [] op = "%" -> a - b * Quotient(a, b)
       [] op \in {"&", "|", "^"} -> Convert(Bitwise(op, a, b, W(t)), t)
       [] op = "shl" -> Convert(a * 2 ^ n2, t)
       [] op = "sar" -> a \div 2 ^ n2
       [] op = "eq" -> Truth(a = b)
       [] op = "ne" -> Truth(a # b)
       [] op = "lt" -> Truth(a < b)
       [] op = "gt" -> Truth(a > b)
       [] op = "le" -> Truth(a <= b)
       [] op = "ge" -> Truth(a >= b)

\* The number an entry stands for.  In a register a small value is extended to an
\* int, unless its cast is put off, and what is no long long has no upper half.
Stands(e, n) ==
  CASE e.k = "const" -> e.c = Low(n, L)
    [] e.k = "mem" -> Low(e.c, W(e.t)) = Low(n, W(e.t))
    [] e.k = "reg" -> IF e.must > 0 THEN Low(e.c, W(e.t)) = Low(n, W(e.t))
                      ELSE e.c = Low(n, IF e.t.b = "llong" THEN L ELSE I)

-----------------------------------------------------------------------------
NoStore == [c |-> 0, w |-> 1, num |-> 0]

ConvInit ==
  /\ \E o \in Operands : top = o.e /\ num = o.num
  /\ written = NoStore

ApplyCast ==
  \E d \in IntType :
    /\ top' = Cast(top, d)
    /\ num' = Convert(num, d)
    /\ written' = NoStore

\* The top is either operand.
ApplyOp ==
  \E op \in Binary, o \in Operands :
    \/ /\ Defined(op, top.t, num, o.e.t, o.num)
       /\ top' = gen_op(op, top, o.e)
       /\ num' = Means(op, top.t, num, o.e.t, o.num)
       /\ written' = NoStore
    \/ /\ Defined(op, o.e.t, o.num, top.t, num)
       /\ top' = gen_op(op, o.e, top)
       /\ num' = Means(op, o.e.t, o.num, top.t, num)
       /\ written' = NoStore

Assign ==
  \E d \in IntType :
    /\ num' = Convert(num, d)
    /\ \E s \in {vstore(top, d)} :
         /\ top' = s.e
         /\ written' = [c |-> s.c, w |-> W(d), num |-> num']

\* save_reg_upstack(): the register goes to a slot as wide as the value's type.
Spill ==
  /\ top.k = "reg"
  /\ top' = Entry("mem", top.t, Low(top.c, W(top.t)))
  /\ written' = NoStore
  /\ UNCHANGED num

\* The value of a call: of a small type only its own bits are there.
Returned ==
  /\ top.k = "reg" /\ Small(top.t) /\ top.must = 0
  /\ \E g \in 0 .. 2 ^ (L - W(top.t)) - 1 :
       top' = [top EXCEPT !.must = 1, !.c = Low(@, W(top.t)) + g * 2 ^ W(top.t)]
  /\ written' = NoStore
  /\ UNCHANGED num

ConvNext == ApplyCast \/ ApplyOp \/ Assign \/ Spill \/ Returned

\* Whatever casts, operations and assignments are put one after the other, on
\* constants, variables and values in registers, folded, simplified or computed,
\* with casts done or put off: the value is the one C defines, and so is what an
\* assignment stores.
ComputesC == Stands(top, num) /\ written.c = Low(written.num, written.w)
=============================================================================
