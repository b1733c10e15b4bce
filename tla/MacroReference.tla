--------------------------- MODULE MacroReference ---------------------------
(***************************************************************************)
(* What macro expansion means: hide sets.  The whole rest of the text is   *)
(* one list, every token carries the names it may not be expanded by, and  *)
(* a replacement hides its own name besides what the name - for a function *)
(* like macro the name and the closing parenthesis - already hid.  There   *)
(* are no streams, no list of names being expanded and no marked tokens.   *)
(***************************************************************************)
EXTENDS MacroExpansion

H(t, hs) == [k |-> t.k, v |-> t.v, hs |-> hs]
Hidden(ts, hs) == [i \in DOMAIN ts |-> H(ts[i], hs)]
Hide(ts, hs) == [i \in DOMAIN ts |-> [ts[i] EXCEPT !.hs = @ \cup hs]]
Bare(ts) == [i \in DOMAIN ts |-> [k |-> ts[i].k, v |-> ts[i].v]]

\* Names an expansion of v may meet, in the definitions D.
Meets(D, v) ==
  LET Step(S) == S \cup UNION {{D[w].body[i].v : i \in DOMAIN D[w].body} :
                               w \in S \cap DOMAIN D}
  IN FoldLeft(LAMBDA S, i : Step(S), {v}, [i \in 1 .. Cardinality(DOMAIN D) |-> i])
Pastes(D) == \E w \in DOMAIN D : \E i \in DOMAIN D[w].body : Is(D[w].body[i], "##")

\* ## on tokens with hide sets: the result hides what all parts hide.
Glued(ts) ==
  LET Real(c) == SelectSeq(c, LAMBDA t : ~ Is(t, "placeholder"))
      Common(c) == {w \in c[1].hs : \A i \in DOMAIN c : w \in c[i].hs}
      Glue(c) == IF Len(c) <= 1 THEN c ELSE Hidden(Relexed(Bare(c)), Common(c))
  IN FlattenSeq([i \in DOMAIN Chains(ts) |-> Glue(Real(Chains(ts)[i]))])

RECURSIVE Close(_, _, _)
\* Index of the ')' that closes the invocation whose arguments begin at i; 0: none.
Close(ts, i, level) ==
  IF i > Len(ts) THEN 0
  ELSE IF Is(ts[i], ")") THEN (IF level = 0 THEN i ELSE Close(ts, i + 1, level - 1))
  ELSE Close(ts, i + 1, IF Is(ts[i], "(") THEN level + 1 ELSE level)

-----------------------------------------------------------------------------
(* c: [D definitions, pp an #if line, top not inside an argument, cnt,     *)
(* ok, odd]; odd names the places where the code goes its own way:         *)
(*   "leak"  an argument read past the end of the replacement it began in  *)
(*           can meet that macro again                                     *)
(*   "extra" one empty argument too many                                   *)
(*   "line"  the last name of an #if line is a function-like macro, or its *)
(*           arguments do not end on the line                              *)

RECURSIVE Exp(_, _, _)
RECURSIVE Put(_, _, _, _, _, _)

\* The replacement of d with these arguments, from its i-th token on.
Put(c, d, args, done, i, o) ==
  IF i > Len(d.body) THEN [c |-> c, ts |-> o]
  ELSE
    LET t == d.body[i]
        p == Param(d, t)
        comma == At(d.body, i - 1, "##") /\ At(d.body, i - 2, ",") /\ d.va /\ p = Len(d.pars)
        joined == ~ comma /\ (At(d.body, i - 1, "##") \/ At(d.body, i + 1, "##"))
        cut == IF args[p] = << >> THEN SubSeq(o, 1, Len(o) - 2) ELSE Front(o)
        o1 == IF comma THEN cut ELSE o
    IN
    IF Is(t, "#") /\ (i = Len(d.body) \/ Param(d, d.body[i + 1]) = 0)
    THEN [c |-> [c EXCEPT !.ok = FALSE], ts |-> o]
    ELSE IF Is(t, "#")
    THEN Put(c, d, args, done, i + 2,
             Append(o, H(Stringized(Bare(args[Param(d, d.body[i + 1])])), {})))
    ELSE IF p = 0 THEN Put(c, d, args, done, i + 1, Append(o, H(t, {})))
    ELSE IF joined
    THEN Put(c, d, args, done, i + 1,
             IF args[p] = << >> THEN Append(o, H(Placeholder, {})) ELSE o \o args[p])
    ELSE IF p \in DOMAIN done THEN Put(c, d, args, done, i + 1, o1 \o done[p])
    ELSE LET Then(e) == Put([e.c EXCEPT !.top = c.top], d, args, done @@ (p :> e.ts), i + 1, o1 \o e.ts)
         IN Then(Exp([c EXCEPT !.top = FALSE], args[p], << >>))

Odd(c, o) == [c EXCEPT !.odd = @ \cup {o}]

\* Everything that ts expands to, appended to o.
Exp(c, ts, o) ==
  IF ts = << >> \/ ~ c.ok THEN [c |-> c, ts |-> o]
  ELSE
    LET t == Head(ts)
        rest == Tail(ts)
        d == c.D[t.v]
        quoted == IF rest # << >> /\ Is(Head(rest), "(") THEN 3 ELSE 2
        Ends(n) == Min({n, Len(ts)})
        Bad(x) == [c |-> [x EXCEPT !.ok = FALSE], ts |-> o]
    IN
    CASE c.pp /\ t.v = "defined" ->
           Exp(c, SubSeq(ts, Ends(quoted) + 1, Len(ts)), o \o SubSeq(ts, 1, Ends(quoted)))
      [] ~ (c.pp /\ t.v = "defined") /\ (t.k # "id" \/ t.v \notin DOMAIN c.D \/ t.v \in t.hs) ->
           Exp(c, rest, Append(o, t))
      [] t.k = "id" /\ t.v = "__COUNTER__" ->
           Exp([c EXCEPT !.cnt = @ + 1], rest, Append(o, H(CounterToken(c.cnt), {})))
      [] OTHER ->
           IF ~ d.fun
           THEN Exp(c, Hide(Glued(Hidden(d.body, {})), t.hs \cup {t.v}) \o rest, o)
           ELSE IF rest = << >>
           THEN Exp(IF c.pp /\ c.top THEN Odd(c, "line") ELSE c, rest, Append(o, t))
           ELSE IF ~ Is(Head(rest), "(") THEN Exp(c, rest, Append(o, t))
           ELSE
             LET z == Close(rest, 2, 0)
                 toks == SubSeq(rest, 2, z - 1)
                 a == Arguments(d, toks)
                 lost(x) == (x.hs \ rest[z].hs) \cap Meets(c.D, x.v)
                 leak == \E i \in DOMAIN toks :
                           IF Pastes(c.D) THEN toks[i].hs \ rest[z].hs # {}
                           ELSE lost(toks[i]) # {}
                 pieces == Pieces(toks, IF d.va THEN Len(d.pars) ELSE Len(toks) + 1)
                 extra == a.ok /\ d.pars # << >> /\ Len(pieces) > Len(d.pars)
                 c1 == IF leak THEN Odd(c, "leak") ELSE c
                 c2 == IF extra THEN Odd(c1, "extra") ELSE c1
                 Then(r) == Exp(r.c, Hide(Glued(r.ts), (t.hs \cap rest[z].hs) \cup {t.v})
                                       \o SubSeq(rest, z + 1, Len(rest)), o)
             IN IF z = 0 THEN Bad(IF c.pp /\ c.top THEN Odd(c, "line") ELSE c)
                ELSE IF ~ a.ok \/ extra THEN Bad(c2)
                ELSE Then(Put(c2, d, a.args, << >>, 1, << >>))

\* What the expression of an #if line is made of; << >> with ok FALSE if malformed.
RECURSIVE LineMeaning(_, _)
LineMeaning(D, ts) ==
  IF ts = << >> THEN [ok |-> TRUE, out |-> << >>]
  ELSE IF Head(ts).v # "defined"
  THEN LET r == LineMeaning(D, Tail(ts)) IN
       [r EXCEPT !.out = <<IF Head(ts).k = "id" THEN "0" ELSE Head(ts).v>> \o @]
  ELSE LET par == At(ts, 2, "(")
           n == IF par THEN 4 ELSE 2
           x == IF par THEN 3 ELSE 2
       IN IF Len(ts) < n \/ (par /\ ~ Is(ts[4], ")")) THEN [ok |-> FALSE, out |-> << >>]
          ELSE IF ts[x].k # "id" THEN [ok |-> FALSE, out |-> << >>]
          ELSE LET r == LineMeaning(D, SubSeq(ts, n + 1, Len(ts))) IN
               [r EXCEPT !.out = <<IF ts[x].v \in DOMAIN D THEN "1" ELSE "0">> \o @]

Spellings(ts) == [i \in DOMAIN ts |-> ts[i].v]

\* The meaning of a text under definitions D: [ok, out, odd].
Meaning(D, pp, src) ==
  LET nl == {i \in DOMAIN src : src[i] = "NL"}
      first == IF nl = {} THEN src ELSE SubSeq(src, 1, Min(nl) - 1)
      Line(e, l) == [ok |-> l.ok, out |-> IF l.ok THEN l.out ELSE << >>, odd |-> e.c.odd]
      Text(e) ==
        CASE ~ e.c.ok -> [ok |-> FALSE, out |-> << >>, odd |-> e.c.odd]
          [] e.c.ok /\ pp -> Line(e, LineMeaning(D, e.ts))
          [] e.c.ok /\ ~ pp -> [ok |-> TRUE, out |-> Spellings(e.ts), odd |-> e.c.odd]
  IN Text(Exp([D |-> D, pp |-> pp, top |-> TRUE, cnt |-> 0, ok |-> TRUE, odd |-> {}],
              Hidden(Toks(first), {}), << >>))

Result == [ok |-> phase = "done", out |-> IF phase = "done" THEN given ELSE << >>]

(* next(), macro_subst() and the streams deliver what hide sets say, and an error *)
(* is reported exactly for the texts that have no meaning, except for the  *)
(* three kinds of text named in `odd'.                                     *)
MatchesMeaning ==
  (todo = << >> /\ phase \in {"done", "error"}) =>
     \E w \in {Meaning(defs, pp_expr, text)} :
     w.odd # {} \/ Result = [ok |-> w.ok, out |-> w.out]

(* An #if line that ends in the name of a function-like macro or inside    *)
(* its arguments goes on with the next line: the text up to newline n + 1  *)
(* with the n before it gone, and what is left from there.                 *)
Newlines == {i \in DOMAIN text : text[i] = "NL"}
Rejoined(n) ==
  LET next == {i \in Newlines : Cardinality({j \in Newlines : j < i}) = n}
      end == IF next = {} THEN Len(text) + 1 ELSE Min(next)
  IN [line |-> SelectSeq(SubSeq(text, 1, end - 1), LAMBDA v : v # "NL"),
      rest |-> SubSeq(text, end, Len(text))]

GoesOn(n) == "line" \in Meaning(defs, TRUE, Rejoined(n).line).odd
NewlinesLost == Min({n \in 0 .. Cardinality(Newlines) : n < Cardinality(Newlines) => ~ GoesOn(n)})

(* expr_preprocess() ends at the first newline that peek_file() and argument *)
(* collection do not go over: those, and only those, behind a function-like*)
(* macro whose '(' or ')' is still to come, in whichever stream its name   *)
(* was.  The expression is that of the lines so joined, an error theirs,   *)
(* and the file goes on right behind them.                                 *)
LineEndsWhereMeant ==
  (pp_expr /\ phase \in {"done", "error"}) =>
     \E c \in {Rejoined(NewlinesLost)} : \E w \in {Meaning(defs, TRUE, c.line)} :
     \/ w.odd \ {"line"} # {}
     \/ /\ Result = [ok |-> w.ok, out |-> w.out]
        /\ w.ok => input = c.rest
=============================================================================
