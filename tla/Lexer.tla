-------------------------------- MODULE Lexer --------------------------------
(***************************************************************************)
(* next_nomacro() and the buffer below it.  A file is read in pieces, as   *)
(* long as read() makes them; each overwrites the one before.  A backslash *)
(* stands behind the last character read, so that the fast paths stop there*)
(* and at a real backslash alike: handle_stray_noerror() then reads more,  *)
(* removes escaped newlines, and puts back what it read too much of, if    *)
(* need be into the four bytes `unget' in front of the buffer.             *)
(*                                                                         *)
(* Characters are strings: "a" a letter, "1" a digit, "q" a quote, "bs" a  *)
(* backslash, "nl", "cr", "sp".  Directives, the byte order mark and the   *)
(* lexing of assembler (where '.' may begin a name) are left out.          *)
(***************************************************************************)
EXTENDS Integers, Sequences, FiniteSets

CONSTANTS
  SourceTexts,   \* texts of files, sequences of characters
  IO_BUF_SIZE    \* bound: the most characters one read() returns

VARIABLES
  bf,       \* the BufferedFile and the reader's c, see Opened
  lexed,    \* tokens delivered: [k, s, line]
  source    \* history: [text, strays], strays: PARSE_FLAG_ACCEPT_STRAYS

lex_vars == <<bf, lexed, source>>

Unget == 4
IsLetter(c) == c \in {"a", "e", "L"}
IsIdNum(c) == IsLetter(c) \/ c = "1"

\* mem: `unget' and `buffer' lie side by side, the buffer from 0.
Opened(pieces, strays) ==
  [reads |-> pieces, strays |-> strays, ptr |-> 0, end |-> 0, line |-> 1, c |-> "bs", err |-> FALSE,
   mem |-> [a \in -Unget .. IO_BUF_SIZE |-> IF a = 0 THEN "bs" ELSE "none"]]

-----------------------------------------------------------------------------
(* The buffer.                                                             *)

handle_eob(m) ==
  LET got == IF m.reads = << >> THEN << >> ELSE Head(m.reads)
      Filled(a) == CASE a \in 0 .. Len(got) - 1 -> got[a + 1]
                     [] a = Len(got) -> "bs"
                     [] OTHER -> m.mem[a]
  IN [m EXCEPT !.reads = IF @ = << >> THEN @ ELSE Tail(@),
               !.mem = [a \in DOMAIN @ |-> Filled(a)],
               !.ptr = 0, !.end = Len(got),
               !.c = IF got = << >> THEN "EOF" ELSE got[1]]

\* c = *++p
Next1(m) == [m EXCEPT !.ptr = @ + 1, !.c = m.mem[m.ptr + 1]]
next_c(m) ==
  LET n == Next1(m) IN IF n.c = "bs" /\ n.ptr >= n.end THEN handle_eob(n) ELSE n

\* Seeded bug: the pointer goes back, the character is not written there.
PutBack_NoStore(m, ch) == [m EXCEPT !.ptr = @ - 1, !.c = ch]

\* *--p = ch
PutBack(m, ch) == [m EXCEPT !.ptr = @ - 1, !.mem[m.ptr - 1] = ch, !.c = ch]

RECURSIVE handle_stray_noerror(_, _)
handle_stray_noerror(m, err) ==
  LET NewLine(x) == handle_stray_noerror([x EXCEPT !.line = @ + 1], err)
      IsStray(x) == [PutBack(x, "bs") EXCEPT !.err = err]
      AfterCr(x) == IF x.c = "nl" THEN NewLine(x) ELSE IsStray(PutBack(x, "cr"))
      AfterBs(x) == CASE x.c = "nl" -> NewLine(x)
                      [] x.c = "cr" -> AfterCr(next_c(x))
                      [] OTHER -> IsStray(x)
      Read(x) == IF x.c = "bs" THEN AfterBs(next_c(x)) ELSE x
  IN Read(next_c(m))

\* The same for the character the pointer is at, with and without errors.
Again(m) == [m EXCEPT !.ptr = @ - 1]
handle_bs(m) == handle_stray_noerror(Again(m), FALSE)
handle_stray(m) == handle_stray_noerror(Again(m), ~ m.strays)

\* PEEKC: the next character, whatever lies between.
PEEKC(m) ==
  LET Real(x) == IF x.c = "bs" THEN handle_stray(x) ELSE x IN Real(Next1(m))

-----------------------------------------------------------------------------
(* Comments, strings, names and numbers.  A token is added to the state as *)
(* [k, s]; the pointer is then at the character after it.                  *)

LexError(m) == [m EXCEPT !.err = TRUE]
Given1(m, k, s) == [m |-> m, k |-> k, s |-> s]

RECURSIVE parse_line_comment(_), parse_comment(_), CommentAt(_), Stars(_), LineCommentAt(_)

LineCommentAt(m) ==
  LET Back(x) == CASE x.c = "EOF" -> x
                   [] x.c = "bs" -> parse_line_comment(x)
                   [] OTHER -> LineCommentAt(x)
  IN CASE m.c = "nl" -> m
       [] m.c = "bs" -> Back(handle_bs(m))
       [] OTHER -> parse_line_comment(m)
parse_line_comment(m) == LineCommentAt(Next1(m))

\* `redo': what to do about a character that was read.
CommentAt(m) ==
  LET Back(x) == CASE x.c = "EOF" -> LexError(x)
                   [] x.c = "bs" -> parse_comment(x)
                   [] OTHER -> CommentAt(x)
  IN CASE m.c = "nl" -> parse_comment([m EXCEPT !.line = @ + 1])
       [] m.c = "*" -> Stars(Next1(m))
       [] m.c = "bs" -> Back(handle_bs(m))
       [] OTHER -> parse_comment(m)
parse_comment(m) == CommentAt(Next1(m))

\* After a star: to the character behind the last one.
Stars(m) ==
  LET Ends(x) == CASE x.c = "/" -> [x EXCEPT !.ptr = @ + 1]
                   [] x.c = "EOF" -> LexError(x)
                   [] x.c = "bs" -> parse_comment(x)
                   [] OTHER -> CommentAt(x)
  IN CASE m.c = "*" -> Stars(Next1(m))
       [] m.c = "bs" -> Ends(handle_bs(m))
       [] OTHER -> Ends(m)

RECURSIVE PPStringAt(_, _), parse_ident(_, _), parse_num(_, _)

parse_pp_string(m, s) == PPStringAt(Next1(m), s)
PPStringAt(m, s) ==
  LET Real(x) == IF x.c = "bs" THEN handle_bs(x) ELSE x
      Escaped(x) == IF x.c = "EOF" THEN Given1(LexError(x), "str", s)
                    ELSE parse_pp_string(x, s \o <<"bs", x.c>>)
      Back(x) == CASE x.c = "EOF" -> Given1(LexError(x), "str", s)
                   [] x.c = "bs" -> Escaped(Real(Next1(x)))
                   [] OTHER -> PPStringAt(x, s)
      AfterCr(x) == IF x.c \in {"nl", "EOF"} THEN Given1(LexError(x), "str", s)
                    ELSE PPStringAt(x, Append(s, "cr"))
  IN CASE m.c = "q" -> Given1([m EXCEPT !.ptr = @ + 1], "str", Append(s, "q"))
       [] m.c = "bs" -> Back(handle_bs(m))
       [] m.c = "nl" -> Given1(LexError(m), "str", s)
       [] m.c = "cr" -> AfterCr(Real(Next1(m)))
       [] OTHER -> parse_pp_string(m, Append(s, m.c))

\* From the character c at the pointer, which belongs to the name.
parse_ident(m, s) ==
  IF ~ m.err /\ IsIdNum(m.c) THEN parse_ident(PEEKC(m), Append(s, m.c)) ELSE Given1(m, "id", s)

\* From the character after the last of s; a sign may follow an exponent's letter.
parse_num(m, s) ==
  IF ~ m.err /\ (IsIdNum(m.c) \/ m.c = "." \/ (m.c = "+" /\ s[Len(s)] = "e"))
  THEN parse_num(PEEKC(m), Append(s, m.c))
  ELSE Given1(m, "num", s)

-----------------------------------------------------------------------------
(* next_nomacro()                                                          *)

RECURSIVE next_nomacro(_)

\* c is one character or the first of two; `pairs' maps the second to the token.
Operator(m, c, pairs) ==
  LET Second(x) == IF x.c \in pairs THEN Given1([x EXCEPT !.ptr = @ + 1], "op", <<c, x.c>>)
                   ELSE Given1(x, "op", <<c>>)
  IN Second(PEEKC(m))

\* 'L' may begin a string; if not, it is put back over what was read.
Wide(m) ==
  LET Quote(x) == IF x.c = "q" THEN parse_pp_string(x, <<"L", "q">>)
                  ELSE parse_ident(PutBack(x, "L"), << >>)
  IN IF m.mem[m.ptr + 1] \in {"q", "bs"} THEN Quote(PEEKC(m)) ELSE parse_ident(m, << >>)

\* One dot is a token, three are one, two are two.
Dots(m) ==
  LET Third(x) == IF x.c = "." THEN Given1([x EXCEPT !.ptr = @ + 1], "op", <<".", ".", ".">>)
                  ELSE Given1(PutBack(x, "."), "op", <<".">>)
      Second(x) == CASE x.c = "1" -> parse_num(x, <<".">>)
                     [] x.c = "." -> Third(PEEKC(x))
                     [] OTHER -> Given1(x, "op", <<".">>)
  IN Second(PEEKC(m))

Slash(m) ==
  LET Second(x) == CASE x.c = "*" -> next_nomacro(parse_comment(x))
                     [] x.c = "/" -> next_nomacro(parse_line_comment(x))
                     [] x.c = "=" -> Given1([x EXCEPT !.ptr = @ + 1], "op", <<"/", "=">>)
                     [] OTHER -> Given1(x, "op", <<"/">>)
  IN Second(PEEKC(m))

\* A backslash or the end of what was read.
Backslash(m) ==
  CASE m.c = "bs" -> Given1([m EXCEPT !.ptr = @ + 1], "op", <<"bs">>)
    [] m.c = "EOF" -> Given1(m, "EOF", << >>)
    [] OTHER -> next_nomacro(m)

next_nomacro(n) ==
  LET m == [n EXCEPT !.c = n.mem[n.ptr]]
      p1 == [m EXCEPT !.ptr = @ + 1]
  IN IF n.err THEN Given1(n, "err", << >>)
     ELSE CASE m.c \in {"sp", "cr"} -> next_nomacro(p1)
            [] m.c = "nl" -> next_nomacro([p1 EXCEPT !.line = @ + 1])
            [] m.c = "bs" -> Backslash(handle_stray(m))
            [] m.c = "L" -> Wide(m)
            [] IsLetter(m.c) /\ m.c # "L" -> parse_ident(m, << >>)
            [] m.c = "1" -> parse_num(PEEKC(m), <<"1">>)
            [] m.c = "q" -> parse_pp_string(m, <<"q">>)
            [] m.c = "." -> Dots(m)
            [] m.c = "/" -> Slash(m)
            [] m.c = "+" -> Operator(m, "+", {"+", "="})
            [] m.c = "*" -> Operator(m, "*", {"="})
            [] m.c = "=" -> Operator(m, "=", {"="})
            [] OTHER -> Given1(LexError(m), "err", << >>)   \* unrecognized character

-----------------------------------------------------------------------------
\* The pieces of a text cut behind the characters in cuts.
RECURSIVE CutAt(_, _, _)
CutAt(t, cuts, from) ==
  IF from > Len(t) THEN << >>
  ELSE LET ends == {k \in cuts \cup {Len(t)} : k >= from}
           k == CHOOSE k \in ends : \A j \in ends : k <= j
       IN <<SubSeq(t, from, k)>> \o CutAt(t, cuts, k + 1)

\* read() may return less than is asked for, except nothing.
LexInit ==
  /\ lexed = << >>
  /\ \E t \in SourceTexts, s \in BOOLEAN :
       /\ source = [text |-> t, strays |-> s]
       /\ \E cuts \in SUBSET (1 .. Len(t) - 1) :
            LET pieces == CutAt(t, cuts, 1) IN
            /\ \A i \in DOMAIN pieces : Len(pieces[i]) <= IO_BUF_SIZE
            /\ bf = Opened(pieces, s)

LexDone == lexed # << >> /\ lexed[Len(lexed)].k = "EOF"

NextToken ==
  /\ ~ LexDone /\ ~ bf.err
  /\ \E r \in {next_nomacro(bf)} :
       /\ bf' = r.m
       /\ lexed' = IF r.m.err THEN lexed
                   ELSE Append(lexed, [k |-> r.k, s |-> r.s, line |-> r.m.line])
  /\ UNCHANGED source
=============================================================================
