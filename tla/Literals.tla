------------------------------ MODULE Literals ------------------------------
(***************************************************************************)
(* What next() makes of the text of a number, parse_number(), and of a     *)
(* string or a character constant, parse_string().  The letters of numbers *)
(* are strings, those of strings the numbers of their bytes.  Widths are   *)
(* parameters; that a number is longer than token_buf is left out, and the *)
(* decimal digits of a floating point number are given to strtod().        *)
(***************************************************************************)
EXTENDS Integers, Sequences, FiniteSets, SequencesExt

CONSTANTS
  Numerals,     \* numbers, [base, whole, point, frac, scaled, e, suffix], see Spell
  Contents1,    \* strings, sequences of bytes, each backslash with what it escapes
  IntWidth,     \* 32 in the code; long is as wide
  LLongWidth,   \* 64
  BnWidth       \* 128: bits kept of a binary or hexadecimal fraction

VARIABLES
  literal,  \* [k, s, of, wide, pp]: "num", "str" or "chr", its text, its parts, L, pp_expr
  value     \* what it means: [err, k, n], floating point numbers [.., exp]

literal_vars == <<literal, value>>

Digit ==
  [c \in {"0", "1", "2", "7", "8", "9", "a", "b", "e", "f"} |->
     CASE c = "0" -> 0 [] c = "1" -> 1 [] c = "2" -> 2 [] c = "7" -> 7 [] c = "8" -> 8
       [] c = "9" -> 9 [] c = "a" -> 10 [] c = "b" -> 11 [] c = "e" -> 14 [] c = "f" -> 15]
IsDigit(c, b) == c \in DOMAIN Digit /\ Digit[c] < b
Ch(p, i) == IF i <= Len(p) THEN p[i] ELSE "nul"

\* The first place from i on without a digit of base b.
RECURSIVE PastDigits(_, _, _)
PastDigits(p, i, b) == IF IsDigit(Ch(p, i), b) THEN PastDigits(p, i + 1, b) ELSE i

Error1 == [err |-> TRUE, k |-> "error", n |-> 0]

\* A floating point number whose suffix is at i.
Floating(p, i, n) ==
  LET t == Ch(p, i)
      end == IF t \in {"f", "L", "l"} THEN i + 1 ELSE i
  IN IF Ch(p, end) # "nul" THEN Error1
     ELSE [n EXCEPT !.k = CASE t = "f" -> "float" [] t \in {"L", "l"} -> "ldouble" [] OTHER -> "double"]

-----------------------------------------------------------------------------
(* Binary and hexadecimal fractions.                                       *)

\* bn_lshift(): digits that do not fit any more are dropped.
bn_lshift(x, shift, d) ==
  IF x.bn >= 2 ^ (BnWidth - shift) THEN [x EXCEPT !.frac_bits = @ - shift]
  ELSE [x EXCEPT !.bn = @ * 2 ^ shift + d]

\* An exponent at i, behind its letter: [err, end, exp].
Exponent(p, i) ==
  LET from == IF Ch(p, i) \in {"+", "-"} THEN i + 1 ELSE i
      end == PastDigits(p, from, 10)
      n == FoldLeft(LAMBDA e, c : e * 10 + Digit[c], 0, SubSeq(p, from, end - 1))
  IN [err |-> end = from, end |-> end, exp |-> IF Ch(p, i) = "-" THEN -n ELSE n]

\* Seeded bug: a digit of the fraction that is dropped does not count.
Fraction_Dropped(x, shift, d) ==
  LET y == bn_lshift(x, shift, d)
  IN IF y.bn = x.bn THEN y ELSE [y EXCEPT !.frac_bits = @ + shift]
Fraction(x, shift, d) == [bn_lshift(x, shift, d) EXCEPT !.frac_bits = @ + shift]

BinaryFloat(p, digits, at, b) ==
  LET shift == IF b = 16 THEN 4 ELSE 1
      whole == FoldLeft(LAMBDA x, c : bn_lshift(x, shift, Digit[c]), [bn |-> 0, frac_bits |-> 0], digits)
      end == IF Ch(p, at) = "." THEN PastDigits(p, at + 1, 16) ELSE at
      fraction == SubSeq(p, at + 1, end - 1)
      all == FoldLeft(LAMBDA x, c : Fraction(x, shift, Digit[c]), whole, fraction)
      Scaled(e) ==
        IF e.err THEN Error1
        ELSE Floating(p, e.end, [err |-> FALSE, k |-> "double", n |-> all.bn, exp |-> e.exp - all.frac_bits])
  IN IF (\E c \in ToSet(fraction) : Digit[c] >= b) \/ Ch(p, end) # "p" THEN Error1
     ELSE Scaled(Exponent(p, end + 1))

\* The decimal digits up to at, then a fraction and an exponent: the text for strtod().
DecimalFloat(p, at) ==
  LET frac == IF Ch(p, at) = "." THEN PastDigits(p, at + 1, 10) ELSE at
      e == Exponent(p, frac + 1)
      Text(end) == Floating(p, end, [err |-> FALSE, k |-> "double", n |-> SubSeq(p, 1, end - 1)])
  IN CASE Ch(p, frac) # "e" -> Text(frac)
       [] e.err -> Error1
       [] OTHER -> Text(e.end)

-----------------------------------------------------------------------------
(* Integers.                                                               *)

\* Suffixes from i on: [err, end, l, u].
RECURSIVE Suffix(_, _, _, _)
Suffix(p, i, l, u) ==
  CASE Ch(p, i) \in {"l", "L"} -> IF l >= 2 THEN [err |-> TRUE, end |-> i, l |-> l, u |-> u]
                                  ELSE Suffix(p, i + 1, l + 1, u)
    [] Ch(p, i) = "u" -> IF u >= 1 THEN [err |-> TRUE, end |-> i, l |-> l, u |-> u]
                         ELSE Suffix(p, i + 1, l, u + 1)
    [] OTHER -> [err |-> FALSE, end |-> i, l |-> l, u |-> u]

\* How many l, and whether u, by the value.
IntegerType(n, b, l, u) ==
  LET signedDecimal == u = 0 /\ b = 10
      longer == IF l <= 1 /\ n >= (IF signedDecimal THEN 2 ^ (IntWidth - 1) ELSE 2 ^ IntWidth) THEN 2 ELSE l
      unsigned ==
        \/ u = 1
        \/ ~ signedDecimal /\ l <= 1 /\ n >= 2 ^ (IntWidth - 1) /\ n < 2 ^ IntWidth
        \/ n >= 2 ^ (LLongWidth - 1)
  IN [l |-> longer, u |-> unsigned]

IntegerKind(t) ==
  CASE t.l = 0 -> IF t.u THEN "uint" ELSE "int"
    [] t.l = 1 -> IF t.u THEN "ulong" ELSE "long"
    [] t.l = 2 -> IF t.u THEN "ullong" ELSE "llong"

\* n wraps; ov only makes a warning.
Accumulated(digits, b) ==
  FoldLeft(LAMBDA x, c :
             LET n == (x.n * b + Digit[c]) % 2 ^ LLongWidth
             IN [n |-> n, ov |-> x.ov \/ (x.n >= 2 ^ (LLongWidth - 4) /\ n \div b # x.n)],
           [n |-> 0, ov |-> FALSE], digits)

Integer(p, digits, at, base, pp) ==
  LET octal == base = 10 /\ digits[1] = "0"
      b == IF octal THEN 8 ELSE base
      acc == Accumulated(digits, b)
      Typed(s) ==
        LET t == IntegerType(acc.n, b, IF pp THEN 2 ELSE s.l, s.u)
            decimal == s.u = 0 /\ b = 10 /\ acc.n >= 2 ^ (LLongWidth - 1)
        IN IF s.err \/ Ch(p, s.end) # "nul" THEN Error1
           ELSE [err |-> FALSE, k |-> IntegerKind(t), n |-> acc.n, ov |-> acc.ov \/ decimal]
  IN IF \E c \in ToSet(digits) : Digit[c] >= b THEN Error1 ELSE Typed(Suffix(p, at, 0, 0))

parse_number(p, pp) ==
  LET b == CASE p[1] = "0" /\ Ch(p, 2) = "x" -> 16
             [] p[1] = "0" /\ Ch(p, 2) = "b" -> 2
             [] OTHER -> 10
      from == IF b = 10 THEN 1 ELSE 3
      at == PastDigits(p, from, b)
      digits == SubSeq(p, from, at - 1)
  IN CASE p[1] = "." -> DecimalFloat(p, 1)
       [] p[1] # "." /\ b = 10 /\ Ch(p, at) \in {".", "e"} -> DecimalFloat(p, at)
       [] p[1] # "." /\ b # 10 /\ Ch(p, at) \in {".", "p"} -> BinaryFloat(p, digits, at, b)
       [] OTHER -> Integer(p, digits, at, b, pp)

-----------------------------------------------------------------------------
(* Strings.                                                                *)

OctDigits == 48 .. 55
HexDigits == (48 .. 57) \cup (65 .. 70) \cup (97 .. 102)
HexValue(c) == CASE c <= 57 -> c - 48 [] c <= 70 -> c - 55 [] OTHER -> c - 87
Escaped == (97 :> 7) @@ (98 :> 8) @@ (102 :> 12) @@ (110 :> 10) @@ (114 :> 13) @@ (116 :> 9)
             @@ (118 :> 11) @@ (101 :> 27)

\* How many of at most n bytes from i on are digits.
RECURSIVE DigitRun(_, _, _, _)
DigitRun(buf, i, n, ds) ==
  IF n = 0 \/ i > Len(buf) THEN 0 ELSE IF buf[i] \in ds THEN 1 + DigitRun(buf, i + 1, n - 1, ds) ELSE 0
InBase(ds, b) == FoldLeft(LAMBDA n, c : n * b + HexValue(c), 0, ds)

unicode_to_utf8(n) ==
  CASE n < 128 -> <<n>>
    [] n \in 128 .. 2047 -> <<192 + n \div 64, 128 + (n % 64)>>
    [] n \in 2048 .. 65535 -> <<224 + n \div 4096, 128 + ((n \div 64) % 64), 128 + (n % 64)>>
    [] OTHER -> <<240 + n \div 262144, 128 + ((n \div 4096) % 64), 128 + ((n \div 64) % 64), 128 + (n % 64)>>

\* add_char_nonext: a byte, or one or two 16-bit units.
Unit(n, wide) ==
  CASE ~ wide -> <<n % 256>>
    [] wide /\ n < 65536 -> <<n>>
    [] OTHER -> <<(n - 65536) \div 1024 + 55296, (n % 1024) + 56320>>

\* One escape, whose backslash is at i, or one UTF-8 sequence: [len, units], no units
\* for an error.
Numeric(buf, i, most, ds, b, wide) ==
  LET k == DigitRun(buf, i, most, ds) IN
  [len |-> k, units |-> Unit(InBase(SubSeq(buf, i, i + k - 1), b), wide)]
Universal(buf, i, k, wide) ==
  LET n == InBase(SubSeq(buf, i, i + k - 1), 16) IN
  IF DigitRun(buf, i, k, HexDigits) < k \/ (~ wide /\ n \in 55296 .. 57343)
  THEN [len |-> 1, units |-> << >>]
  ELSE [len |-> k, units |-> IF wide THEN Unit(n, wide) ELSE unicode_to_utf8(n)]
Longer(n, x) == [x EXCEPT !.len = @ + n]
Escape(buf, i, wide) ==
  LET c == buf[i + 1] IN
  CASE c \in OctDigits -> Longer(1, Numeric(buf, i + 1, 3, OctDigits, 8, wide))
    [] c = 120 -> IF DigitRun(buf, i + 2, 1, HexDigits) = 0 THEN [len |-> 2, units |-> << >>]
                  ELSE Longer(2, Numeric(buf, i + 2, Len(buf), HexDigits, 16, wide))
    [] c = 117 -> Longer(2, Universal(buf, i + 2, 4, wide))
    [] OTHER -> [len |-> 2, units |-> Unit(IF c \in DOMAIN Escaped THEN Escaped[c] ELSE c, wide)]

Replacement == 65533

\* A byte from 128 on: the continuation bytes its sequence takes, -1 for none at all.
Continued(c) ==
  CASE c \in 194 .. 223 -> 1 [] c \in 224 .. 239 -> 2 [] c \in 240 .. 244 -> 3 [] OTHER -> -1
SecondByte(c) ==
  CASE c = 224 -> 160 .. 191 [] c = 237 -> 128 .. 159 [] c = 240 -> 144 .. 191
    [] c = 244 -> 128 .. 143 [] OTHER -> 128 .. 191

Sequence(buf, i) ==
  LET c == buf[i]
      cont == Continued(c)
      ok(k) == i + k <= Len(buf) /\ buf[i + k] \in IF k = 1 THEN SecondByte(c) ELSE 128 .. 191
      bad == {k \in 1 .. cont : ~ ok(k)}
      n == FoldLeft(LAMBDA x, d : x * 64 + (d % 64), c % (2 ^ (6 - cont)), SubSeq(buf, i + 1, i + cont))
  IN IF cont = -1 THEN [len |-> 1, units |-> <<Replacement>>]
     ELSE IF bad # {} THEN [len |-> CHOOSE k \in bad : \A j \in bad : k <= j, units |-> <<Replacement>>]
     ELSE [len |-> cont + 1, units |-> Unit(n, TRUE)]

\* The units from i on, Bad as the last for an error.
Bad == -1
RECURSIVE parse_escape_string(_, _, _)
parse_escape_string(buf, i, wide) ==
  LET Then(x) == IF x.units = << >> THEN <<Bad>>
                 ELSE x.units \o parse_escape_string(buf, i + x.len, wide)
  IN CASE i > Len(buf) -> << >>
       [] i <= Len(buf) /\ buf[i] = 92 -> Then(Escape(buf, i, wide))
       [] i <= Len(buf) /\ wide /\ buf[i] >= 128 -> Then(Sequence(buf, i))
       [] OTHER -> Then([len |-> 1, units |-> Unit(buf[i], wide)])

\* The bytes of a character constant are signed and shifted together.
CharValue(units, wide) ==
  FoldLeft(LAMBDA c, u : IF wide THEN u ELSE IF u >= 128 THEN u - 256 ELSE c * 256 + u, 0, units)
parse_string(buf, wide, k) ==
  LET Made(units) ==
        CASE Bad \in ToSet(units) -> Error1
          [] k = "chr" /\ units = << >> -> Error1
          [] k = "chr" /\ units # << >> -> [err |-> FALSE, k |-> "chr", n |-> CharValue(units, wide)]
          [] OTHER -> [err |-> FALSE, k |-> "str", n |-> units]
  IN Made(parse_escape_string(buf, 1, wide))

-----------------------------------------------------------------------------
\* How a number of some parts is written; an octal number has base 8.
Spell(x) ==
  (CASE x.base = 16 -> <<"0", "x">> [] x.base = 2 -> <<"0", "b">>
     [] x.base = 8 -> <<"0">> [] OTHER -> << >>)
    \o x.whole \o (IF x.point THEN <<".">> ELSE << >>) \o x.frac
    \o (IF x.scaled THEN <<IF x.base = 10 THEN "e" ELSE "p">> ELSE << >>) \o x.e \o x.suffix

NoValue == [err |-> FALSE, k |-> "none", n |-> 0]
LiteralInit ==
  /\ \/ \E x \in Numerals, pp \in BOOLEAN :
          literal = [k |-> "num", s |-> Spell(x), of |-> x, wide |-> FALSE, pp |-> pp]
     \/ \E s \in Contents1, w \in BOOLEAN, k \in {"str", "chr"} :
          literal = [k |-> k, s |-> s, of |-> s, wide |-> w, pp |-> FALSE]
  /\ value = NoValue

Convert1 ==
  /\ value.k = "none"
  /\ value' = IF literal.k = "num" THEN parse_number(literal.s, literal.pp)
              ELSE parse_string(literal.s, literal.wide, literal.k)
  /\ UNCHANGED literal
=============================================================================
