--------------------------- MODULE MacroExpansion ---------------------------
(***************************************************************************)
(* Macro expansion: next() with the token streams it reads from, the list  *)
(* of macros being expanded, argument collection that runs off the end of  *)
(* one stream into the next, # and ##, and the reading of an #if line.     *)
(*                                                                         *)
(* A token is [k, v]: kind and spelling.  "blue" is an identifier that bears *)
(* SYM_FIELD: it will never be expanded again.  Input tokens are one space *)
(* apart and spaces are not tokens here.                                   *)
(***************************************************************************)
EXTENDS Integers, FiniteSetsExt, SequencesExt

CONSTANTS
  Sources,     \* the #define lines of a program: sequences of definitions
  Inputs,      \* what follows them: [pp, text], pp if it is an #if line
  Operators,   \* spellings of punctuation
  Numbers      \* spellings of numbers

VARIABLES
  todo,     \* the #define lines not yet read
  defs,     \* sym_define of each name that has one
  input,    \* spellings not yet read from the file
  pp_expr,  \* an #if line is being read
  stream,   \* tokens from macro_ptr on: what the last expansion left to deliver
  given,    \* spellings delivered by next()
  counter,  \* pp_counter
  aligned,  \* history: no stream popped a name that was not its own
  text,     \* history: what the file held after the #define lines
  phase     \* "define", "run", "done" or "error"

macro_vars == <<todo, defs, input, pp_expr, stream, given, counter, aligned, text, phase>>

Kind(v) == CASE v \in Operators -> "op" [] v \in Numbers -> "num" [] OTHER -> "id"
Tok(v) == [k |-> Kind(v), v |-> v]
Toks(s) == [i \in DOMAIN s |-> Tok(s[i])]
EOF == [k |-> "op", v |-> "EOF"]
Placeholder == [k |-> "op", v |-> "placeholder"]
Is(t, v) == t.k = "op" /\ t.v = v
Unblue(t) == [t EXCEPT !.k = IF @ = "blue" THEN "id" ELSE @]

-----------------------------------------------------------------------------
(* parse_define(): one #define line, [name, params, body]; an object-like  *)
(* macro has NoParams.  A parameter is [v, dots]: "..." itself is spelled  *)
(* v = "...", the GNU form "args..." has dots.                             *)

NoParams == << [v |-> "none", dots |-> FALSE] >>

IsVariadic(p) == p.v = "..." \/ p.dots

ParseDefine(d) ==
  [ fun  |-> d.params # NoParams,
    pars |-> IF d.params = NoParams THEN << >>
             ELSE [i \in DOMAIN d.params |->
                     IF d.params[i].v = "..." THEN "__VA_ARGS__" ELSE d.params[i].v],
    va   |-> d.params # NoParams /\ d.params # << >> /\ IsVariadic(Last(d.params)),
    body |-> Toks(d.body) ]

BadDefine(d) ==
  \/ d.name = "defined"
  \/ d.body # << >> /\ (Head(d.body) = "##" \/ Last(d.body) = "##")
  \/ \E i \in 1 .. Len(d.params) - 1 : IsVariadic(d.params[i])

-----------------------------------------------------------------------------
(* What the expander shares while it recurses: the file, the rests of the  *)
(* streams it is inside of, innermost first, each with the macro whose     *)
(* replacement it is, and nested_list, newest first.                       *)

M(f, n, c) == [file |-> f, stk |-> << >>, nest |-> n, cnt |-> c, own |-> TRUE, err |-> FALSE]

\* next_argstream() leaves the streams that are at their end, and with each of
\* them takes the newest name off nested_list.
LeaveStreams(m) ==
  LET live == {i \in DOMAIN m.stk : m.stk[i].toks # << >>}
      n == IF live = {} THEN Len(m.stk) ELSE Min(live) - 1
  IN [m EXCEPT !.stk = SubSeq(@, n + 1, Len(@)),
               !.nest = SubSeq(@, n + 1, Len(@)),
               !.own = @ /\ \A i \in 1 .. n : i <= Len(m.nest) /\ m.nest[i] = m.stk[i].of]

\* Seeded bug: only one newline is gone over.
SkipLines_One(f) == IF f # << >> /\ Head(f) = "NL" THEN Tail(f) ELSE f

\* peek_file() goes over newlines, and next_nomacro() makes them spaces.
RECURSIVE SkipLines(_)
SkipLines(f) == IF f # << >> /\ Head(f) = "NL" THEN SkipLines(Tail(f)) ELSE f

ToNextToken(m) ==
  LET p == LeaveStreams(m) IN
  IF p.stk = << >> THEN [p EXCEPT !.file = SkipLines(@)] ELSE p

Ahead(p) == IF p.stk # << >> THEN Head(p.stk[1].toks)
            ELSE IF p.file = << >> THEN EOF ELSE Tok(Head(p.file))

Take(p) == IF p.stk # << >> THEN [p EXCEPT !.stk[1].toks = Tail(@)]
           ELSE [p EXCEPT !.file = Tail(@)]

\* The tokens up to the ')' that closes the invocation.
RECURSIVE Collect(_, _, _)
Collect(m, level, toks) ==
  LET p == ToNextToken(m)
      t == Ahead(p)
  IN CASE t = EOF -> [m |-> [p EXCEPT !.err = TRUE], toks |-> toks]
       [] Is(t, ")") /\ level = 0 -> [m |-> Take(p), toks |-> toks]
       [] OTHER -> Collect(Take(p),
                           level + (IF Is(t, "(") THEN 1 ELSE IF Is(t, ")") THEN -1 ELSE 0),
                           Append(toks, t))

\* Cut at the commas outside parentheses, at most into n pieces.
Pieces(toks, n) ==
  LET Level(l, t) == l + (IF Is(t, "(") THEN 1 ELSE IF Is(t, ")") THEN -1 ELSE 0)
      Add(acc, t) ==
        IF Is(t, ",") /\ acc.level = 0 /\ Len(acc.ps) < n
        THEN [acc EXCEPT !.ps = Append(@, << >>)]
        ELSE [ps |-> Append(Front(acc.ps), Append(Last(acc.ps), t)), level |-> Level(acc.level, t)]
  IN FoldLeft(Add, [ps |-> << << >> >>, level |-> 0], toks).ps

\* One piece per parameter; a missing variable argument is empty, and an empty
\* piece too many is not noticed.
Arguments(d, toks) ==
  LET n == Len(d.pars)
      ps == Pieces(toks, IF d.va THEN n ELSE Len(toks) + 1)
  IN CASE Len(ps) = n -> [ok |-> TRUE, args |-> ps]
       [] Len(ps) = n + 1 /\ Last(ps) = << >> -> [ok |-> TRUE, args |-> Front(ps)]
       [] Len(ps) = n - 1 /\ d.va -> [ok |-> TRUE, args |-> Append(ps, << >>)]
       [] OTHER -> [ok |-> FALSE, args |-> << >>]

-----------------------------------------------------------------------------
(* # and ##                                                                *)

RECURSIVE Spelling(_)
Spelling(ts) == IF ts = << >> THEN ""
                ELSE Head(ts).v \o (IF Len(ts) > 1 THEN " " ELSE "") \o Spelling(Tail(ts))
Stringized(ts) == [k |-> "str", v |-> "'" \o Spelling(ts) \o "'"]

\* What the lexer makes of spellings written without a space between them.
IsWord(t) == t.k \in {"id", "num", "blue"}
Relexed(parts) ==
  FoldLeft(LAMBDA acc, t :
             IF acc # << >> /\ IsWord(t) /\ IsWord(Last(acc))
             THEN Append(Front(acc), [Last(acc) EXCEPT !.v = @ \o t.v])
             ELSE Append(acc, Unblue(t)),
           << >>, parts)

\* The chains t1 ## t2 ## ... of a replacement; mostly of one token.
Chains(ts) ==
  LET Add(acc, t) ==
        CASE Is(t, "##") -> [acc EXCEPT !.open = TRUE]
          [] ~ Is(t, "##") /\ acc.open ->
               [cs |-> Append(Front(acc.cs), Append(Last(acc.cs), t)), open |-> FALSE]
          [] OTHER -> [acc EXCEPT !.cs = Append(@, <<t>>)]
  IN FoldLeft(Add, [cs |-> << >>, open |-> FALSE], ts).cs

\* macro_twosharps(): a chain becomes what its spelling is; placeholders vanish, a
\* token joined to nothing but them stays as it is.
Joined(chain) ==
  LET real == SelectSeq(chain, LAMBDA t : t # Placeholder) IN
  IF Len(real) <= 1 /\ Head(chain) # Placeholder THEN real ELSE Relexed(real)

TwoSharps(ts) == FlattenSeq([i \in DOMAIN Chains(ts) |-> Joined(Chains(ts)[i])])

-----------------------------------------------------------------------------
(* The expander: macro_arg_subst(), macro_subst_tok(), macro_subst()       *)

Param(d, t) == IF t.k = "id" /\ t.v \in Range(d.pars)
               THEN CHOOSE p \in DOMAIN d.pars : d.pars[p] = t.v ELSE 0
At(ts, i, v) == i \in DOMAIN ts /\ Is(ts[i], v)

RECURSIVE ArgSubst(_, _, _, _, _, _)
RECURSIVE SubstTok(_, _, _)
RECURSIVE Subst(_, _, _, _, _)

Expanded(m, arg) == Subst(m, Append(arg, EOF), "argument", FALSE, << >>)

\* Seeded bug: an argument is expanded again for each use.
AddVar_Again(m, d, args, done, i, o) ==
  LET Then(r) == ArgSubst(r.m, d, args, done, i + 1, o \o r.ts) IN
  Then(Expanded(m, args[Param(d, d.body[i])]))

\* `done' maps the parameters whose argument has been expanded to the expansion.
AddVar(m, d, args, done, i, o) ==
  LET p == Param(d, d.body[i])
      Then(r) == ArgSubst(r.m, d, args, done @@ (p :> r.ts), i + 1, o \o r.ts)
  IN IF p \in DOMAIN done THEN ArgSubst(m, d, args, done, i + 1, o \o done[p])
     ELSE Then(Expanded(m, args[p]))

ArgSubst(m, d, args, done, i, o) ==
  IF i > Len(d.body) \/ m.err THEN [m |-> m, ts |-> o]
  ELSE
    LET t == d.body[i]
        p == Param(d, t)
        left == At(d.body, i - 1, "##")
        joined == left \/ At(d.body, i + 1, "##")
        comma == left /\ At(d.body, i - 2, ",") /\ d.va /\ p = Len(d.pars)
        Go(n, ts) == ArgSubst(m, d, args, done, i + n, ts)
    IN
    CASE Is(t, "#") ->
           IF i < Len(d.body) /\ Param(d, d.body[i + 1]) # 0
           THEN Go(2, Append(o, Stringized(args[Param(d, d.body[i + 1])])))
           ELSE [m |-> [m EXCEPT !.err = TRUE], ts |-> o]
      [] ~ Is(t, "#") /\ p = 0 -> Go(1, Append(o, t))
      [] p # 0 /\ comma /\ args[p] = << >> -> Go(1, SubSeq(o, 1, Len(o) - 2))
      [] p # 0 /\ comma /\ args[p] # << >> -> AddVar(m, d, args, done, i, Front(o))
      [] p # 0 /\ joined /\ ~ comma ->
           Go(1, IF args[p] = << >> THEN Append(o, Placeholder) ELSE o \o args[p])
      [] OTHER -> AddVar(m, d, args, done, i, o)

\* The rest of macro_subst_tok() once the replacement is known: it is scanned
\* with the name on nested_list, which is taken off unless that was done already.
Rescan(m, d, v, ts, o) ==
  LET joined == IF \E i \in DOMAIN d.body : Is(d.body[i], "##") THEN TwoSharps(ts) ELSE ts
      Left(r) == IF Len(r.m.nest) = Len(m.nest) + 1 THEN [r EXCEPT !.m.nest = Tail(@)] ELSE r
  IN Left(Subst([m EXCEPT !.nest = <<v>> \o @], joined, v, FALSE, o))

Fail(m, o) == [m |-> [m EXCEPT !.err = TRUE], ts |-> o, ns |-> FALSE]

\* An invocation whose arguments have been read.
Replaced(c, a, d, v, o) ==
  LET Then(r) == IF r.m.err THEN Fail(r.m, o) ELSE Rescan(r.m, d, v, r.ts, o)
  IN IF c.m.err \/ ~ a.ok THEN Fail(c.m, o)
     ELSE Then(ArgSubst(c.m, d, a.args, << >>, 1, << >>))

\* Seeded bug: the name is on nested_list while its arguments are read.
Invoke_EarlyName(m, d, v, o) ==
  LET Then(c) == Replaced(c, Arguments(d, c.toks), d, v, o)
  IN Then(Collect([m EXCEPT !.nest = <<v>> \o @], 0, << >>))

Invoke(m, d, v, o) ==
  LET Then(c) == Replaced(c, Arguments(d, c.toks), d, v, o) IN Then(Collect(m, 0, << >>))

CounterToken(n) == [k |-> "num", v |-> ToString(n)]

SubstTok(m, v, o) ==
  LET d == defs[v] IN
  IF v = "__COUNTER__"
  THEN [m |-> [m EXCEPT !.cnt = @ + 1], ts |-> Append(o, CounterToken(m.cnt)), ns |-> FALSE]
  ELSE IF ~ d.fun THEN Rescan(m, d, v, d.body, o)
  ELSE LET p == ToNextToken(m) IN
       IF Is(Ahead(p), "(") THEN Invoke(Take(p), d, v, o)
       ELSE [m |-> p, ts |-> Append(o, Tok(v)), ns |-> FALSE]

\* macro_subst(): `of' is the macro whose replacement is read, `ns' is nosubst.
Subst(m, in, of, ns, o) ==
  IF m.err \/ in = << >> \/ Head(in) = EOF THEN [m |-> m, ts |-> o, ns |-> ns]
  ELSE
    LET t == Head(in)
        macro == t.k = "id" /\ t.v \in DOMAIN defs /\ ~ ns
        Then(r) == IF Len(r.m.stk) <= Len(m.stk) THEN r     \* macro_stack != str
                   ELSE Subst([r.m EXCEPT !.stk = Tail(@)], r.m.stk[1].toks, of, r.ns, r.ts)
    IN
    IF macro /\ t.v \notin Range(m.nest)
    THEN Then(SubstTok([m EXCEPT !.stk = <<[of |-> of, toks |-> Tail(in)]>> \o @], t.v, o))
    ELSE Subst(m, Tail(in), of,
               (ns /\ Is(t, "(")) \/ (t = Tok("defined") /\ pp_expr),
               Append(o, IF macro THEN [t EXCEPT !.k = "blue"] ELSE t))

-----------------------------------------------------------------------------
(* The program: the #define lines, then next() until the end of the file   *)
(* or of the #if line.                                                     *)

MacroInit ==
  /\ todo \in Sources
  /\ defs = ("__COUNTER__" :> [fun |-> FALSE, pars |-> << >>, va |-> FALSE, body |-> << >>])
  /\ input = << >> /\ pp_expr = FALSE /\ stream = << >> /\ given = << >>
  /\ counter = 0 /\ aligned = TRUE /\ text = << >> /\ phase = "define"

Define ==
  /\ phase = "define" /\ todo # << >>
  /\ LET d == Head(todo) IN
     IF BadDefine(d) THEN phase' = "error" /\ UNCHANGED <<defs, todo>>
     ELSE /\ defs' = (d.name :> ParseDefine(d)) @@ defs
          /\ todo' = Tail(todo)
          /\ UNCHANGED phase
  /\ UNCHANGED <<text, input, pp_expr, stream, given, counter, aligned>>

Start ==
  /\ phase = "define" /\ todo = << >>
  /\ \E in \in Inputs : input' = in.text /\ text' = in.text /\ pp_expr' = in.pp
  /\ phase' = "run"
  /\ UNCHANGED <<todo, defs, stream, given, counter, aligned>>

\* The token an #if expression is given for a token read.
PPToken(t) == IF t.k = "id" THEN "0" ELSE t.v
Delivered(t) == IF pp_expr THEN PPToken(Unblue(t)) ELSE t.v

\* A token of the last expansion.
FromMacro ==
  /\ phase = "run" /\ stream # << >>
  /\ ~ (pp_expr /\ Head(stream).v = "defined")
  /\ stream' = Tail(stream)
  /\ given' = Append(given, Delivered(Head(stream)))
  /\ UNCHANGED <<text, todo, defs, input, pp_expr, counter, aligned, phase>>

\* A token of the file that is no macro.
FromFile ==
  /\ phase = "run" /\ stream = << >> /\ input # << >>
  /\ Head(input) \notin DOMAIN defs /\ Head(input) # "NL"
  /\ ~ (pp_expr /\ Head(input) = "defined")
  /\ input' = Tail(input)
  /\ given' = Append(given, Delivered(Tok(Head(input))))
  /\ UNCHANGED <<text, todo, defs, pp_expr, stream, counter, aligned, phase>>

\* A macro of the file: the whole expansion goes to tokstr_buf.
ExpandMacro ==
  /\ phase = "run" /\ stream = << >> /\ input # << >>
  /\ Head(input) \in DOMAIN defs
  /\ \E r \in {SubstTok(M(Tail(input), << >>, counter), Head(input), << >>)} :
     /\ stream' = r.ts
     /\ input' = r.m.file
     /\ counter' = r.m.cnt
     /\ aligned' = (aligned /\ r.m.own)
     /\ phase' = IF r.m.err THEN "error" ELSE "run"
  /\ UNCHANGED <<text, todo, defs, pp_expr, given>>

\* `defined X' or `defined ( X )' in an #if line: next() without preprocessing.
Raw(s) == IF s.stream # << >>
          THEN [t |-> Unblue(Head(s.stream)), stream |-> Tail(s.stream), file |-> s.file]
          ELSE IF s.file = << >> THEN [s EXCEPT !.t = EOF]
          ELSE [t |-> Tok(Head(s.file)), stream |-> << >>, file |-> Tail(s.file)]

Defined ==
  /\ phase = "run" /\ pp_expr
  /\ LET s0 == Raw([t |-> EOF, stream |-> stream, file |-> input])
         s1 == Raw(s0)
         s2 == IF Is(s1.t, "(") THEN Raw(s1) ELSE s1
         s3 == IF Is(s1.t, "(") THEN Raw(s2) ELSE s2
     IN /\ s0.t.v = "defined"
        /\ IF s2.t.k # "id" \/ (Is(s1.t, "(") /\ ~ Is(s3.t, ")"))
           THEN phase' = "error" /\ UNCHANGED <<stream, input, given>>
           ELSE /\ stream' = s3.stream /\ input' = s3.file
                /\ given' = Append(given, IF s2.t.v \in DOMAIN defs THEN "1" ELSE "0")
                /\ UNCHANGED phase
  /\ UNCHANGED <<text, todo, defs, pp_expr, counter, aligned>>

\* The end of the file, or of the line in expr_preprocess().
EndOfText ==
  /\ phase = "run" /\ stream = << >>
  /\ (input # << >> => Head(input) = "NL")
  /\ phase' = "done"
  /\ UNCHANGED <<text, todo, defs, input, pp_expr, stream, given, counter, aligned>>

MacroNext == Define \/ Start \/ FromMacro \/ FromFile \/ ExpandMacro \/ Defined \/ EndOfText

MacroSpec == MacroInit /\ [][MacroNext]_macro_vars

-----------------------------------------------------------------------------
(* macro_subst_tok() and next_argstream(): the name taken off nested_list  *)
(* when a stream ends is the name of the macro whose replacement it was,   *)
(* however many streams an invocation runs through.                        *)
PopsItsOwn == aligned
=============================================================================
