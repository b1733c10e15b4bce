--------------------------- MODULE FlowReference ---------------------------
(***************************************************************************)
(* What a function's statements mean.  The source is a sequence of points, *)
(* in the order of the text: statements, and the ends of the compound      *)
(* ones.  A point has an `op', an argument, the point `of' the statement it*)
(* belongs to, and the variables with a cleanup function that are in scope *)
(* before it, by the points that declare them.                             *)
(*                                                                         *)
(* One rule covers every way to leave a scope: going from one point to     *)
(* another, by whatever statement, cleans up the variables in scope at the *)
(* first and not at the second, the latest declared first.                 *)
(***************************************************************************)
EXTENDS Naturals, Sequences, SequencesExt

Ends == {"endif", "endwhile", "enddo", "endfor", "endswitch"}
Tests == {"if", "while", "for", "enddo"}

EndOf(src, k) == CHOOSE j \in DOMAIN src : src[j].of = k /\ src[j].op \in Ends
PointsOf(src, k, op) == {j \in DOMAIN src : src[j].of = k /\ src[j].op = op}
PointOf(src, k, op) == CHOOSE j \in PointsOf(src, k, op) : TRUE

\* The outcomes of a condition: the atoms evaluated, each with its value, and what
\* the condition comes to.
RECURSIVE Outcomes(_)
RECURSIVE OutcomesOf(_, _)

OutcomesOf(args, stop) ==
  IF Len(args) = 1 THEN Outcomes(args[1])
  ELSE UNION { IF x.val = stop THEN {x}
               ELSE { [seen |-> x.seen \o y.seen, val |-> y.val] :
                        y \in OutcomesOf(Tail(args), stop) } : x \in Outcomes(args[1]) }

Outcomes(c) ==
  CASE c.k = "const" -> {[seen |-> << >>, val |-> c.v = 1]}
    [] c.k = "atom"  -> {[seen |-> <<[id |-> c.id, val |-> b]>>, val |-> b] : b \in BOOLEAN}
    [] c.k = "not"   -> {[seen |-> x.seen, val |-> ~ x.val] : x \in Outcomes(c.of)}
    [] c.k = "and"   -> OutcomesOf(c.args, FALSE)
    [] c.k = "or"    -> OutcomesOf(c.args, TRUE)

\* The atom evaluated after those seen.
NextAtom(c, seen) ==
  (CHOOSE x \in Outcomes(c) : Len(x.seen) > Len(seen) /\ IsPrefix(seen, x.seen)).seen
    [Len(seen) + 1].id

Taken(src, k, v) ==
  {j \in PointsOf(src, k, "case") : v \in src[j].arg[1] .. src[j].arg[2]}

\* Where point i leads; b is the value of its condition or of its switch.
Follows(src, i, b) ==
  LET p == src[i] IN
  CASE p.op = "if" /\ ~ b ->
         IF PointsOf(src, i, "else") # {} THEN PointOf(src, i, "else") + 1 ELSE EndOf(src, i)
    [] p.op \in {"while", "for"} /\ ~ b -> EndOf(src, i) + 1
    [] p.op = "else" -> EndOf(src, p.of)
    [] p.op \in {"endwhile", "endfor"} \/ (p.op = "enddo" /\ b) -> p.of
    [] p.op = "break" -> EndOf(src, p.of) + 1
    [] p.op = "continue" -> EndOf(src, p.of)
    [] p.op = "goto" -> CHOOSE j \in DOMAIN src : src[j].op = "label" /\ src[j].arg = p.arg
    [] p.op = "return" -> Len(src)
    [] p.op = "switch" ->
         IF Taken(src, i, b) # {} THEN CHOOSE j \in Taken(src, i, b) : TRUE
         ELSE IF PointsOf(src, i, "default") # {} THEN PointOf(src, i, "default")
         ELSE EndOf(src, i) + 1
    [] OTHER -> i + 1

\* In scope when point i has been passed.
After(src, i) == IF src[i].op = "var" THEN Append(src[i].vars, i) ELSE src[i].vars

CleanedUp(before, after) ==
  Reverse(SelectSeq(before, LAMBDA v : v \notin ToSet(after)))

\* A position: the point, the atoms seen of its condition, the cleanups due first.
At(i) == [at |-> i, seen |-> << >>, due |-> << >>]

Went(src, i, b) ==
  LET j == Follows(src, i, b) IN
  [at |-> j, seen |-> << >>, due |-> CleanedUp(After(src, i), src[j].vars)]

\* Nothing happens at p, it only leads on.
Constant(p) == p.op \in Tests /\ \E x \in Outcomes(p.arg) : x.seen = << >>
Silent(src, p) ==
  /\ p.due = << >>
  /\ \/ src[p.at].op \in {"else", "endif", "do", "endwhile", "endswitch", "break",
                          "continue", "goto", "label", "case", "default"}
     \/ src[p.at].op = "endfor" /\ ~ src[p.at].arg
     \/ Constant(src[p.at])

Truth(p) == IF p.op \in Tests THEN (CHOOSE x \in Outcomes(p.arg) : TRUE).val ELSE TRUE

\* From p on to where something happens; if it never does, n ends the search.
RECURSIVE SettledIn(_, _, _)
SettledIn(src, p, n) ==
  IF n = 0 \/ ~ Silent(src, p) THEN p
  ELSE SettledIn(src, Went(src, p.at, Truth(src[p.at])), n - 1)

Settled(src, p) == SettledIn(src, p, Len(src))

\* What happens at a settled position.
Event(src, p) ==
  LET x == src[p.at] IN
  IF p.due # << >> THEN <<"clean", Head(p.due)>>
  ELSE IF Silent(src, p) THEN <<"loop">>
  ELSE CASE x.op \in Tests -> <<"test", <<p.at, NextAtom(x.arg, p.seen)>>>>
         [] x.op = "switch" -> <<"choose", p.at>>
         [] x.op = "endfor" -> <<"step", x.of>>
         [] x.op = "end" -> <<"return">>
         [] x.op = "exit" -> <<"exit", p.at>>
         [] OTHER -> <<"do", p.at>>

\* The position after it; b is the value found.
Passed(src, p, b) ==
  LET x == src[p.at]
      seen == Append(p.seen, [id |-> NextAtom(x.arg, p.seen), val |-> b])
  IN
  IF p.due # << >> THEN [p EXCEPT !.due = Tail(@)]
  ELSE IF x.op \notin Tests THEN Went(src, p.at, b)
  ELSE IF \E o \in Outcomes(x.arg) : o.seen = seen
  THEN Went(src, p.at, (CHOOSE o \in Outcomes(x.arg) : o.seen = seen).val)
  ELSE [p EXCEPT !.seen = seen]
=============================================================================
