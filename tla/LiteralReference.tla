-------------------------- MODULE LiteralReference --------------------------
(***************************************************************************)
(* What literals mean: C11 6.4.4 and 6.4.5 with the long of Win64, and for *)
(* the ill-formed text of a wide string the Unicode standard, 3.9, with    *)
(* one U+FFFD for each longest beginning of a sequence that does not go on.*)
(***************************************************************************)
EXTENDS Literals

RECURSIVE Positional(_, _)
Positional(s, b) == IF s = << >> THEN 0 ELSE Positional(Front(s), b) * b + Digit[Last(s)]
InRange(s, b) == \A i \in DOMAIN s : IsDigit(s[i], b)

-----------------------------------------------------------------------------
(* Integers: 6.4.4.1.                                                      *)

Longs == {<< >>, <<"l">>, <<"L">>, <<"l", "l">>, <<"L", "L">>}
IntegerSuffixes == {u \o l : u \in {<< >>, <<"u">>}, l \in Longs} \cup {l \o <<"u">> : l \in Longs}
Ells(x) == Cardinality({i \in DOMAIN x : x[i] # "u"})

\* The first type of the list that can represent the value.
Types == <<"int", "uint", "long", "ulong", "llong", "ullong">>
Unsigned == {"uint", "ulong", "ullong"}
Bits == [t \in ToSet(Types) |-> (IF t \in {"llong", "ullong"} THEN LLongWidth ELSE IntWidth)
                                - (IF t \in Unsigned THEN 0 ELSE 1)]
Rank == [t \in ToSet(Types) |-> CASE t \in {"int", "uint"} -> 0 [] t \in {"long", "ulong"} -> 1 [] OTHER -> 2]
TypesOf(x, pp) ==
  SelectSeq(Types, LAMBDA t :
    /\ Rank[t] >= IF pp THEN 2 ELSE Ells(x.suffix)
    /\ "u" \in ToSet(x.suffix) => t \in Unsigned
    /\ t \in Unsigned /\ x.base = 10 => "u" \in ToSet(x.suffix))
IntegerMeans(x, pp) ==
  LET n == Positional(x.whole, x.base)
      fit == SelectSeq(TypesOf(x, pp), LAMBDA t : n < 2 ^ Bits[t])
  IN IF InRange(x.whole, x.base) /\ x.suffix \in IntegerSuffixes
     THEN /\ ~ value.err /\ value.n = n % 2 ^ LLongWidth
          /\ IF fit = << >> THEN value.ov ELSE value.k = fit[1] /\ ~ value.ov
     ELSE value.err

-----------------------------------------------------------------------------
(* Floating point numbers: 6.4.4.2.  A binary or hexadecimal one is exact  *)
(* but for digits behind a full BnWidth.                                   *)

FloatMeans(x) ==
  LET sign == IF x.e # << >> /\ x.e[1] \in {"+", "-"} THEN 1 ELSE 0
      power == SubSeq(x.e, sign + 1, Len(x.e))
      shift == IF x.base = 16 THEN 4 ELSE 1
      exact == [m |-> Positional(x.whole \o x.frac, x.base),
                e |-> (IF "-" \in ToSet(x.e) THEN -1 ELSE 1) * Positional(power, 10) - shift * Len(x.frac)]
      good == /\ InRange(x.whole \o x.frac, x.base) /\ x.suffix \in {<< >>, <<"f">>, <<"l">>, <<"L">>}
              /\ x.scaled => power # << >>
              /\ x.base # 10 => x.scaled
  IN IF ~ good THEN value.err
     ELSE /\ value.k = CASE x.suffix = << >> -> "double" [] x.suffix = <<"f">> -> "float" [] OTHER -> "ldouble"
          /\ IF x.base = 10 THEN value.n = Spell([x EXCEPT !.suffix = << >>])
             ELSE /\ value.exp >= exact.e
                  /\ value.n = exact.m \div 2 ^ (value.exp - exact.e)
                  /\ value.exp > exact.e => value.n >= 2 ^ (BnWidth - shift)

-----------------------------------------------------------------------------
(* Strings: the longest escape of 6.4.4.4, or a character.                 *)

Hex(s) == \A i \in DOMAIN s : s[i] \in HexDigits
IsEscape(s) ==
  /\ Len(s) >= 2 /\ s[1] = 92
  /\ \/ Len(s) = 2 /\ s[2] \notin {117, 120}
     \/ Len(s) <= 4 /\ \A i \in 2 .. Len(s) : s[i] \in OctDigits
     \/ s[2] = 120 /\ Len(s) >= 3 /\ Hex(SubSeq(s, 3, Len(s)))
     \/ s[2] = 117 /\ Len(s) = 6 /\ Hex(SubSeq(s, 3, 6))

\* UTF-8 by arithmetic: a sequence is well formed if what it says is written like that.
Utf8(n) ==
  LET tail(k) == [i \in 1 .. k |-> 128 + ((n \div 64 ^ (k - i)) % 64)] IN
  CASE n < 128 -> <<n>>
    [] n \in 128 .. 2047 -> <<192 + n \div 64>> \o tail(1)
    [] n \in 2048 .. 65535 -> <<224 + n \div 4096>> \o tail(2)
    [] OTHER -> <<240 + n \div 262144>> \o tail(3)
Says(s) ==
  FoldLeft(LAMBDA n, c : n * 64 + c - 128, s[1] - (CASE Len(s) = 1 -> 0 [] Len(s) = 2 -> 192
             [] Len(s) = 3 -> 224 [] Len(s) = 4 -> 240), Tail(s))
Scalar(n) == n \in 0 .. 55295 \/ n \in 57344 .. 1114111
WellFormed(s) == Scalar(Says(s)) /\ Utf8(Says(s)) = s
Opens(s) == \E k \in 0 .. 4 - Len(s), fill \in {128, 191} : WellFormed(s \o [i \in 1 .. k |-> fill])

Utf16(n) == IF n < 65536 THEN <<n>> ELSE <<55232 + n \div 1024, 56320 + (n % 1024)>>

\* What the piece s of a string contributes, << >> for an error.
EscapeMeans(s, wide) ==
  LET n == IF s[2] = 117 THEN InBase(SubSeq(s, 3, 6), 16)
           ELSE IF s[2] = 120 THEN InBase(SubSeq(s, 3, Len(s)), 16)
           ELSE IF s[2] \in OctDigits THEN InBase(Tail(s), 8)
           ELSE IF s[2] \in DOMAIN Escaped THEN Escaped[s[2]] ELSE s[2]
  IN CASE s[2] # 117 \/ wide -> <<n>>
       [] s[2] = 117 /\ ~ wide /\ Scalar(n) -> Utf8(n)
       [] OTHER -> << >>

RECURSIVE StringMeans(_, _)
StringMeans(s, wide) ==
  LET Longest(P(_)) == LET ks == {k \in 1 .. Len(s) : P(SubSeq(s, 1, k))} IN IF ks = {} THEN 0 ELSE Max(ks)
      From(k, units) == IF k = 0 \/ units = << >> THEN <<Bad>>
                        ELSE units \o StringMeans(SubSeq(s, k + 1, Len(s)), wide)
      Escape1(k) == From(k, IF k = 0 THEN << >> ELSE EscapeMeans(SubSeq(s, 1, k), wide))
      Char(k) == IF k > 0 /\ WellFormed(SubSeq(s, 1, k)) THEN From(k, Utf16(Says(SubSeq(s, 1, k))))
                 ELSE From(IF k = 0 THEN 1 ELSE k, <<65533>>)
  IN IF s = << >> THEN << >>
     ELSE IF s[1] = 92 THEN Escape1(Longest(IsEscape))
     ELSE IF wide THEN Char(Longest(Opens))
     ELSE From(1, <<s[1]>>)

-----------------------------------------------------------------------------
\* Integer suffixes that mix or part their l, and a prefix without digits, are taken; an
\* escape beyond its character and several characters in a constant are up to the compiler.
Mixed(x) == x \notin IntegerSuffixes /\ Len(x) <= 3 /\ Ells(x) <= 2 /\ Len(x) - Ells(x) <= 1 /\ ToSet(x) \subseteq {"u", "l", "L"}
LeftOutNumber(x) == ~ x.point /\ ~ x.scaled /\ (Mixed(x.suffix) \/ (x.whole = << >> /\ x.base # 8))
NumberMeans(x) == IF x.point \/ x.scaled THEN FloatMeans(x) ELSE IntegerMeans(x, literal.pp)

TextMeans(units) ==
  CASE Bad \in ToSet(units) -> value.err
    [] literal.k = "str" -> value.n = units
    [] literal.k = "chr" /\ units = << >> -> value.err
    [] literal.k = "chr" /\ Len(units) = 1 ->
         value.n = IF ~ literal.wide /\ units[1] >= 128 THEN units[1] - 256 ELSE units[1]
    [] OTHER -> ~ value.err
Beyond(units) == \E i \in DOMAIN units : units[i] >= IF literal.wide THEN 65536 ELSE 256

\* A number has the value and the type C gives it, also where it is too large for one,
\* and a string or character constant the characters it is written for.
LiteralsMean ==
  value.k # "none" =>
    IF literal.k = "num" THEN LeftOutNumber(literal.of) \/ NumberMeans(literal.of)
    ELSE LET Means(units) == Beyond(units) \/ TextMeans(units)
         IN Means(StringMeans(literal.s, literal.wide))
=============================================================================
