----------------------------- MODULE MCLiterals -----------------------------
(***************************************************************************)
(* Literals around each width: integers of up to three digits of a type of *)
(* four and one of eight bits, fractions longer than eight bits, strings   *)
(* of up to four characters that mean something to one another.            *)
(***************************************************************************)
EXTENDS LiteralReference

Strings(S, n) == UNION {[1 .. k -> S] : k \in 0 .. n}
DigitsOf == [b \in {2, 8, 10, 16} |->
               CASE b = 2 -> {"0", "1", "7"} [] b = 16 -> {"0", "1", "8", "f"} [] OTHER -> {"0", "1", "7", "9"}]

Written(base, whole, point, frac, scaled, e, suffix) ==
  [base |-> base, whole |-> whole, point |-> point, frac |-> frac, scaled |-> scaled, e |-> e, suffix |-> suffix]
SomeSuffixes ==
  IntegerSuffixes \cup {<<"l", "L">>, <<"l", "u", "l">>, <<"u", "u">>, <<"l", "l", "l">>, <<"u", "a">>}
Integers1 ==
  UNION {{Written(b, w, FALSE, << >>, FALSE, << >>, x) : w \in Strings(DigitsOf[b], 3), x \in SomeSuffixes} :
           b \in {2, 8, 10, 16}}
    \cup {Written(2, w, FALSE, << >>, FALSE, << >>, << >>) : w \in UNION {[1 .. n -> {"0", "1"}] : n \in {4, 5, 8, 9}}}
IntegerSpellings == {x \in Integers1 : x.base = 10 => x.whole # << >> /\ x.whole[1] # "0"}
Exponents == {<< >>, <<"1", "2">>, <<"-", "1">>, <<"+">>}
FloatSpellings ==
  {x \in {Written(b, w, p, f, s, e, x) :
            b \in {2, 10, 16}, w \in Strings({"0", "1", "f"}, 2), f \in Strings({"0", "1", "f"}, 2),
            p \in BOOLEAN, s \in BOOLEAN, e \in Exponents, x \in {<< >>, <<"f">>, <<"u">>}} :
     /\ x.point \/ x.frac = << >>
     /\ x.scaled \/ x.e = << >>
     /\ x.point \/ x.scaled
     /\ x.whole \o x.frac # << >>
     /\ x.base = 10 => "f" \notin ToSet(x.whole \o x.frac) /\ (x.whole = << >> => x.frac # << >>)
     /\ x.base = 16 /\ ~ x.scaled => x.suffix # <<"f">>}
MCSpellings == IntegerSpellings \cup FloatSpellings

\* a 0 1 \ x u; then parts of UTF-8 sequences with what may and may not go on.
EscapeTexts == Strings({97, 48, 49, 92, 120, 117}, 4) \cup
  {<<92, 117, 48, 48, 101, 57>>, <<92, 117, 50, 48, 97, 99, 49>>, <<92, 117, 100, 56, 48, 48>>,
   <<92, 49, 50, 55, 49>>, <<92, 120, 70, 70>>, <<92, 117, 48, 48, 101>>}
Utf8Texts == Strings({97, 195, 224, 237, 240, 244, 128, 144, 160, 193, 245}, 3) \cup
  {<<240, 144, 128, 128>>, <<240, 128, 128, 128>>, <<244, 143, 191, 191>>, <<244, 144, 128, 128>>,
   <<240, 144, 128, 97>>, <<237, 159, 191, 128>>}
\* In the text of a literal a backslash escapes something.
Paired(s) == FoldLeft(LAMBDA open, c : c = 92 /\ ~ open, FALSE, s) = FALSE
MCContents == {s \in EscapeTexts \cup Utf8Texts : Paired(s)}
=============================================================================
