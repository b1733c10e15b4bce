---------------------------- MODULE PPReference ----------------------------
(***************************************************************************)
(* What inclusion and conditionals mean, without flags, without a shared   *)
(* stack and without a cache: each file is read from its first line to its *)
(* last with a stack of its own, every #include reads the file unless it   *)
(* said #pragma once.  PPInclude has to produce the same text.             *)
(***************************************************************************)
EXTENDS PPInclude

\* A group is "live", "dead" (its turn may come) or "over"; `last' once #else
\* was seen.  `ok' falsifies on a misplaced or missing directive.
Live(conds) == \A i \in 1 .. Len(conds) : conds[i].at = "live"

Open1(conds, taken) ==
  Append(conds, [at |-> IF ~ Live(conds) THEN "over"
                        ELSE IF taken THEN "live" ELSE "dead", last |-> FALSE])

Switch1(conds, taken, last) ==
  LET was == Last(conds).at IN
  Append(Front(conds),
         [at |-> IF was = "dead" THEN (IF taken THEN "live" ELSE "dead") ELSE "over",
          last |-> last])

RECURSIVE Expand(_, _, _)
RECURSIVE Lines(_, _, _, _)

\* st: [defs, once, out, ok].  fuel bounds the depth of inclusion.
Lines(ls, conds, st, ctx) ==
  IF ~ st.ok THEN st
  ELSE IF ls = << >> THEN [st EXCEPT !.ok = conds = << >>]
  ELSE
    LET l == Head(ls)
        live == Live(conds)
        Go(cs, s) == Lines(Tail(ls), cs, s, ctx)
        outer == Live(Front(conds))
    IN
    CASE l.op = "if"     -> Go(Open1(conds, l.arg = 1), st)
      [] l.op = "ifdef"  -> Go(Open1(conds, l.arg \in st.defs), st)
      [] l.op = "ifndef" -> Go(Open1(conds, l.arg \notin st.defs), st)
      [] l.op \in {"else", "elif"} ->
           \* misplaced branches of conditionals in skipped text are ignored
           IF conds = << >> \/ (Last(conds).last /\ outer)
           THEN [st EXCEPT !.ok = FALSE]
           ELSE Go(Switch1(conds, l.op = "else" \/ l.arg = 1,
                           l.op = "else" \/ Last(conds).last), st)
      [] l.op = "endif"  ->
           IF conds = << >> THEN [st EXCEPT !.ok = FALSE] ELSE Go(Front(conds), st)
      [] ~ live /\ l.op \notin {"if", "ifdef", "ifndef", "else", "elif", "endif"} ->
           Go(conds, st)
      [] live /\ l.op = "text"   -> Go(conds, [st EXCEPT !.out = Append(@, l.arg)])
      [] live /\ l.op = "null"   -> Go(conds, st)
      [] live /\ l.op = "define" -> Go(conds, [st EXCEPT !.defs = @ \cup {l.arg}])
      [] live /\ l.op = "undef"  -> Go(conds, [st EXCEPT !.defs = @ \ {l.arg}])
      [] live /\ l.op = "once"   -> Go(conds, [st EXCEPT !.once = @ \cup {ctx.name}])
      [] live /\ l.op = "include" -> Go(conds, Expand(l.arg, st, ctx.fuel))

Expand(f, st, fuel) ==
  IF f \in st.once THEN st
  ELSE IF fuel = 0 THEN [st EXCEPT !.ok = FALSE]
  ELSE Lines(content[f], << >>, st, [name |-> f, fuel |-> fuel - 1])

Reference ==
  Expand(Main, [defs |-> {}, once |-> {}, out |-> << >>, ok |-> TRUE],
         INCLUDE_STACK_SIZE + 2)

\* The preprocessor accepts what the reference accepts and then yields the same
\* text and the same macros: neither the guard cache nor #pragma once nor the
\* stack shared by all files is visible from outside.
MatchesReference ==
  /\ status = "done" => Reference.ok /\ out = Reference.out /\ macros = Reference.defs
  /\ status = "error" => ~ Reference.ok
=============================================================================
