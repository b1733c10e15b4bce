----------------------------- MODULE LexReference -----------------------------
(***************************************************************************)
(* What the text of a file is as tokens (C11 5.1.1.2 and 6.4): escaped     *)
(* newlines are taken out of the whole text first, then the longest token  *)
(* is taken at each place.  A carriage return before a newline belongs to  *)
(* it, elsewhere it is a space.                                            *)
(***************************************************************************)
EXTENDS Lexer

\* The characters that are left, each with its line.
RECURSIVE Spliced(_, _, _)
Spliced(t, i, line) ==
  LET At(k, c) == k <= Len(t) /\ t[k] = c IN
  CASE i > Len(t) -> << [c |-> "EOF", line |-> line] >>
    [] At(i, "bs") /\ At(i + 1, "nl") -> Spliced(t, i + 2, line + 1)
    [] At(i, "bs") /\ At(i + 1, "cr") /\ At(i + 2, "nl") -> Spliced(t, i + 3, line + 1)
    [] OTHER -> << [c |-> t[i], line |-> line] >>
                  \o Spliced(t, i + 1, IF t[i] = "nl" THEN line + 1 ELSE line)

Nearest(S) == CHOOSE k \in S : \A j \in S : k <= j
After(S, i, cs) == {k \in i .. Len(S) : S[k].c \in cs}
Looks(S, i, cs) == i + Len(cs) - 1 <= Len(S) /\ \A k \in DOMAIN cs : S[i + k - 1].c = cs[k]

\* Where the comment that begins at i ends, 0 if it does not.
CommentEnd(S, i) ==
  IF Looks(S, i, <<"/", "/">>) THEN Nearest(After(S, i, {"nl", "EOF"}))
  ELSE LET ends == {k \in i + 2 .. Len(S) : Looks(S, k, <<"*", "/">>)} IN
       IF ends = {} THEN 0 ELSE Nearest(ends) + 2

\* The first character of the next token, 0 if a comment does not end.
RECURSIVE Begins(_, _)
Begins(S, i) ==
  IF i = 0 THEN 0
  ELSE IF S[i].c \in {"sp", "cr", "nl"} THEN Begins(S, i + 1)
  ELSE IF Looks(S, i, <<"/", "*">>) \/ Looks(S, i, <<"/", "/">>) THEN Begins(S, CommentEnd(S, i))
  ELSE i

\* The quote that closes the string opened at i, 0 if there is none.
RECURSIVE Closes(_, _)
Closes(S, i) ==
  CASE S[i].c = "q" -> i
    [] S[i].c \in {"nl", "EOF"} \/ Looks(S, i, <<"cr", "nl">>) -> 0
    [] S[i].c = "bs" -> IF S[i + 1].c = "EOF" THEN 0 ELSE Closes(S, i + 2)
    [] OTHER -> IF Looks(S, i, <<"cr", "EOF">>) THEN 0 ELSE Closes(S, i + 1)

Punctuators == {<<".", ".", ".">>, <<"+", "+">>, <<"+", "=">>, <<"*", "=">>, <<"=", "=">>, <<"/", "=">>}

\* [k, n] the kind of token at i and its length, 0 if there is none.
Longest(S, i) ==
  LET Run(k) == \A j \in i .. i + k - 1 : IsIdNum(S[j].c)
      Num(k) == \A j \in i + 1 .. i + k - 1 :
                  IsIdNum(S[j].c) \/ S[j].c = "." \/ (S[j].c = "+" /\ S[j - 1].c = "e")
      Most(P(_)) == CHOOSE k \in 1 .. Len(S) - i : P(k) /\ \A j \in k + 1 .. Len(S) - i : ~ P(j)
      quote == IF S[i].c = "q" THEN i ELSE i + 1
      pairs == {Len(p) : p \in {p \in Punctuators : Looks(S, i, p)}}
  IN CASE S[i].c = "EOF" -> [k |-> "EOF", n |-> 0]
       [] S[i].c = "q" \/ Looks(S, i, <<"L", "q">>) ->
            [k |-> "str", n |-> IF Closes(S, quote + 1) = 0 THEN 0 ELSE Closes(S, quote + 1) - i + 1]
       [] IsLetter(S[i].c) /\ ~ Looks(S, i, <<"L", "q">>) -> [k |-> "id", n |-> Most(Run)]
       [] S[i].c = "1" \/ Looks(S, i, <<".", "1">>) -> [k |-> "num", n |-> Most(Num)]
       [] S[i].c = "bs" -> [k |-> "op", n |-> 1]
       [] OTHER -> [k |-> "op", n |-> IF pairs = {} THEN 1 ELSE CHOOSE n \in pairs : TRUE]

\* The tokens of S from i on: [k, s, lo, hi] with the line it is on and that of the
\* second character after it, which may have been looked at.  A last one "err".
RECURSIVE TokensFrom(_, _)
TokensFrom(S, i) ==
  LET Line(k) == S[IF k > Len(S) THEN Len(S) ELSE k].line
      Cut(b, l) ==
        IF l.k # "EOF" /\ l.n = 0 THEN << [k |-> "err"] >>
        ELSE << [k |-> l.k, s |-> [j \in 1 .. l.n |-> S[b + j - 1].c],
                 lo |-> Line(IF l.k = "EOF" THEN b ELSE b + l.n - 1), hi |-> Line(b + l.n + 1)] >>
             \o IF l.k = "EOF" THEN << >> ELSE TokensFrom(S, b + l.n)
      At(b) == IF b = 0 THEN << [k |-> "err"] >> ELSE Cut(b, Longest(S, b))
  IN At(Begins(S, i))

\* A backslash before an escaped newline and a newline: left out.
EscapedTwice(S) ==
  \E i \in DOMAIN S : Looks(S, i, <<"bs", "nl">>) \/ Looks(S, i, <<"bs", "cr", "nl">>)

Agrees1(S, ref) ==
  /\ bf.err => \/ Len(ref) = Len(lexed) + 1 /\ ref[Len(ref)].k = "err"
               \/ ~ source.strays /\ \E i \in Len(lexed) + 1 .. Len(ref) : ref[i].s = <<"bs">>
  /\ \A i \in DOMAIN lexed :
       /\ i <= Len(ref) /\ ref[i].k = lexed[i].k /\ ref[i].s = lexed[i].s
       /\ lexed[i].line \in ref[i].lo .. ref[i].hi
       /\ ~ source.strays => ref[i].s # <<"bs">>

(* next_nomacro(): the tokens of a file, and the errors in it, do not depend on how *)
(* read() cuts it: neither escaped newlines, comments and strings nor characters    *)
(* put back get lost or come twice where one piece ends and the next begins, and no *)
(* more is put back than there is room for.  The line counted is never that of an   *)
(* earlier token and at the end is the last.                                        *)
LexesWhole ==
  /\ bf.ptr >= -Unget
  /\ \A S \in {Spliced(source.text, 1, 1)} : EscapedTwice(S) \/ Agrees1(S, TokensFrom(S, 1))
=============================================================================
