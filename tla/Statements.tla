----------------------------- MODULE Statements -----------------------------
(***************************************************************************)
(* block() of tccgen.c: a function's statements are compiled in one pass,  *)
(* each as it is read.  Where a jump goes is known only later; what has to *)
(* be cleaned up on the way, of the variables with a cleanup function, is  *)
(* known later still for a goto to a label not yet seen.                   *)
(*                                                                         *)
(* The program is chosen token by token, every call of block() still under *)
(* way being a record of `open' with that call's local variables.  When    *)
(* the function is complete its code is run next to the source as          *)
(* FlowReference reads it, with every outcome of every condition.          *)
(*                                                                         *)
(* Left out: variable-length arrays, computed goto, local labels, statement*)
(* expressions, the values expressions leave behind.                       *)
(***************************************************************************)
EXTENDS JumpCode, FlowReference, FiniteSets, FiniteSetsExt

CONSTANTS
  Label,
  Kit,           \* what a program may consist of: [ops, conds, ranges, size]
  Values,        \* the values of a switch
  GcaseLinear,   \* cases gcase() tries one by one, 8 in the code
  LateVariables, \* TRUE: a scope may get a variable with a cleanup while a goto that
                 \* was made in it waits for its label
  MixedGotos,    \* TRUE: a label may be waited for by gotos with variables to clean
                 \* up and by gotos without
  MaxOpen        \* bound: nesting of statements

ASSUME StatementsAssumption ==
  /\ LateVariables \in BOOLEAN /\ MixedGotos \in BOOLEAN /\ MaxOpen \in Nat /\ GcaseLinear \in Nat
  /\ \A k \in Kit : k.size \in Nat

VARIABLES
  kit,         \* the kit of this program
  fuel,        \* bound: tokens it may still have
  src,         \* history: the points of the source
  code, off,   \* the code, and CODE_OFF of nocode_wanted
  open,        \* the calls of block() under way, innermost last
  ahead,       \* what is known of the next token
  scopes,      \* struct scope, root_scope first, cur_scope last
  loop_scope,  \* as an index into scopes; 0 if none
  labels,      \* what is known of each label
  pending,     \* pending_gotos, the latest last
  rsym,        \* the returns that jump to the end
  phase,       \* "compile", "run" or "error"
  pc, pos      \* where the run is, in the code and in the source

parser == <<kit, fuel, open, ahead>>
jumps == <<scopes, loop_scope, labels, pending, rsym>>
running == <<phase, pc, pos>>
vars == <<kit, fuel, src, code, off, open, ahead, scopes, loop_scope, labels,
          pending, rsym, phase, pc, pos>>

\* A call of block(): its variables a, b and d; what lblock() saved; and of a
\* switch struct switch_t.
Frame(kind, at) ==
  [kind |-> kind, at |-> at, a |-> 0, b |-> 0, d |-> 0,
   bsym |-> 0, csym |-> 0, loop |-> 0, step |-> FALSE,
   cases |-> << >>, def |-> 0, dead |-> FALSE, scope |-> 0]

\* bsym and csym point to the variable a or b of a call of block().
Scope(cl, bsym, csym) == [cl |-> cl, bsym |-> bsym, csym |-> csym]

NoLabel == [r |-> "none", jnext |-> 0, jind |-> 0, cl |-> << >>, pcls |-> << >>]

Init ==
  /\ kit \in Kit /\ fuel = kit.size
  /\ src = << >> /\ code = << >> /\ off = FALSE
  /\ open = <<Frame("block", 0)>>
  /\ ahead = "statement"
  /\ scopes = <<Scope(<< >>, 0, 0), Scope(<< >>, 0, 0)>>
  /\ loop_scope = 0
  /\ labels = [l \in Label |-> NoLabel] /\ pending = << >> /\ rsym = 0
  /\ phase = "compile" /\ pc = 0 /\ pos = At(0)
-----------------------------------------------------------------------------
\* Parser state.

Top == Last(open)
Here == Last(scopes).cl
Now == Len(src) + 1
M == Generator(code, off, Now)

\* Bound: the tokens needed yet, after `op', for its body and for awaited labels.
Owed(op) ==
  LET awaited == Cardinality({l \in Label : labels[l].r = "forward"}) IN
  CASE op \in {"if", "while", "do", "for", "forvar", "switch"} -> awaited + 1
    [] op \in {"case", "default"} /\ Top.kind # "block" -> awaited + 1
    [] op = "label" /\ Top.kind = "block" /\ awaited > 0 -> awaited - 1
    [] OTHER -> awaited

\* The next token starts a statement.
Token(op) ==
  /\ phase = "compile" /\ ahead \in {"statement", "not }"}
  /\ op \in kit.ops /\ fuel > Owed(op)
  /\ fuel' = fuel - 1
  /\ UNCHANGED <<kit, running>>

\* The statement of the innermost call is complete; it goes on to its own end.
AtEnd(kinds) ==
  /\ phase = "compile" /\ ahead \in {"rest", "no else"}
  /\ Top.kind \in kinds
  /\ UNCHANGED <<kit, running>>

Point(op, of, arg) == [op |-> op, of |-> of, arg |-> arg, vars |-> Here]
Says(op, of, arg) == src' = Append(src, Point(op, of, arg))
Emits(m) == code' = m.code /\ off' = m.off

\* block() returns to `callers'.  A compound statement goes on with the next one.
Complete(callers, known) ==
  /\ open' = callers
  /\ ahead' = IF callers # << >> /\ Last(callers).kind = "block"
              THEN "statement" ELSE known

Simple == Complete(open, "rest")

\* block() calls itself.
Opens(frame) == Len(open) < MaxOpen /\ open' = Append(open, frame) /\ ahead' = "statement"

\* lblock() before and after its call of block(); the frame is not open yet.
Saving(frame) ==
  [frame EXCEPT !.bsym = Last(scopes).bsym, !.csym = Last(scopes).csym,
                !.loop = loop_scope]

LoopBody ==
  /\ scopes' = [scopes EXCEPT ![Len(scopes)].bsym = Len(open) + 1,
                              ![Len(scopes)].csym = Len(open) + 1]
  /\ loop_scope' = Len(scopes)

Restored == [scopes EXCEPT ![Len(scopes)].bsym = Top.bsym,
                           ![Len(scopes)].csym = Top.csym]
-----------------------------------------------------------------------------
\* Cleanups.

\* From cur_scope's variables cl down to the first `stop' ones.
try_call_scope_cleanup(m, cl, stop) ==
  FoldLeft(LAMBDA n, v : Does(n, "clean", v), m, Reverse(SubSeq(cl, stop + 1, Len(cl))))

\* The code walks both lists back to where they meet.
try_call_cleanup_goto(m, state) ==
  try_call_scope_cleanup(m, Here,
    Cardinality({i \in 1 .. Len(Here) : i <= Len(state) /\ Here[i] = state[i]}))

\* The gotos waiting in a scope that is left, with `n' variables outside of it, go
\* through the cleanups on their way.
Deep(n) ==
  LET kept == {i \in 1 .. Len(pending) : pending[i].c <= n}
  IN  SubSeq(pending, Max({0} \cup kept) + 1, Len(pending))

Waits(g) == labels[g.label].r = "forward"

\* z: [m, jmp, labels].  The jump around the detours is made with the first one.
Detour(z, m, jmp, g, n) ==
  LET through(k) ==
        gjmp_acs(try_call_scope_cleanup(gsym(k, z.labels[g.label].pcls[g.pcl]), Here, n), 0)
      done(k) == [m |-> k, jmp |-> jmp, labels |-> [z.labels EXCEPT ![g.label].pcls[g.pcl] = k.t]]
  IN  done(through(m))

Detoured(z, g, n) ==
  IF ~ Waits(g) THEN z
  ELSE IF z.jmp # 0 THEN Detour(z, z.m, z.jmp, g, n)
  ELSE LET around == gjmp_acs(z.m, 0) IN Detour(z, around, around.t, g, n)

block_cleanup(m, n) ==
  LET z == FoldLeft(LAMBDA y, g : Detoured(y, g, n),
                    [m |-> m, jmp |-> 0, labels |-> labels], Reverse(Deep(n)))
  IN  [z EXCEPT !.m = try_call_scope_cleanup(gsym(z.m, z.jmp), Here, n)]

StillPending(n) ==
  SubSeq(pending, 1, Len(pending) - Len(Deep(n)))
    \o IF n = 0 THEN << >>
       ELSE LET waiting == SelectSeq(Deep(n), Waits)
            IN  [i \in DOMAIN waiting |-> [waiting[i] EXCEPT !.c = n]]

\* prev_scope() after the code of m; `z' is what block_cleanup() gives.
LeavesWith(z, n) ==
  /\ labels' = z.labels /\ pending' = StillPending(n)
  /\ scopes' = Front(scopes)

Outer == scopes[Len(scopes) - 1]
Left(m) == IF Here # Outer.cl THEN block_cleanup(m, Len(Outer.cl))
           ELSE [m |-> m, jmp |-> 0, labels |-> labels]
prev_scope(z) ==
  IF Here # Outer.cl THEN LeavesWith(z, Len(Outer.cl))
  ELSE scopes' = Front(scopes) /\ UNCHANGED <<labels, pending>>
-----------------------------------------------------------------------------
\* Simple statements and declarations.

Expr ==
  /\ Token("expr") /\ Simple
  /\ Emits(Does(M, "do", Now)) /\ Says("expr", 0, 0)
  /\ UNCHANGED jumps

\* A call of a function that does not return.
Exit ==
  /\ Token("exit") /\ Simple
  /\ Emits(Off(Does(M, "exit", Now))) /\ Says("exit", 0, 0)
  /\ UNCHANGED jumps

\* A goto waits that was made in this scope.
Late == \E i \in DOMAIN pending : pending[i].c > Len(Outer.cl) /\ Waits(pending[i])

\* decl() with a variable that has a cleanup function.
Var ==
  /\ Token("var") /\ Top.kind = "block" /\ (Late => LateVariables)
  /\ Complete(open, "rest")
  /\ Emits(Does(M, "do", Now)) /\ Says("var", 0, 0)
  /\ scopes' = [scopes EXCEPT ![Len(scopes)].cl = Append(@, Now)]
  /\ UNCHANGED <<loop_scope, labels, pending, rsym>>

Block ==
  /\ Token("block") /\ Opens(Frame("block", Now))
  /\ scopes' = Append(scopes, Last(scopes))
  /\ UNCHANGED <<src, code, off, loop_scope, labels, pending, rsym>>

\* The brace is not that of the function.
Close ==
  /\ phase = "compile" /\ ahead \in {"statement", "}"}
  /\ Top.kind = "block" /\ Len(open) > 1
  /\ LET z == Left(M) IN Emits(z.m) /\ prev_scope(z)
  /\ Complete(Front(open), "rest")
  /\ UNCHANGED <<kit, running, fuel, src, loop_scope, rsym>>

\* Seeded bug: a return before any brace needs no jump.
NeedsJump_Never(last) == ~ last

\* Only the function's own last brace makes a jump to its end superfluous.
NeedsJump(last) == ~ last \/ Len(open) # 1

Return(last) ==
  /\ Token("return")
  /\ LET m == try_call_scope_cleanup(Does(M, "do", Now), Here, 0)
         jumps_to(n) == Emits(n) /\ rsym' = n.t
     IN  IF NeedsJump(last) THEN jumps_to(gjmp_acs(m, rsym))
         ELSE Emits(Off(m)) /\ UNCHANGED rsym
  /\ Says("return", 0, 0)
  /\ open' = open
  /\ ahead' = IF Top.kind # "block" THEN "rest"
              ELSE IF last THEN "}" ELSE IF Len(open) = 1 THEN "not }" ELSE "statement"
  /\ UNCHANGED <<scopes, loop_scope, labels, pending>>
-----------------------------------------------------------------------------
\* if, while, do, for

Makes_If(m) == Emits(m) /\ Opens([Frame("if", Now) EXCEPT !.a = m.t])

If(c) ==
  /\ Token("if") /\ Makes_If(Test(M, c, 1)) /\ Says("if", 0, c)
  /\ UNCHANGED jumps

Else ==
  /\ AtEnd({"if"}) /\ ahead = "rest" /\ "else" \in kit.ops /\ fuel > 0
  /\ fuel' = fuel - 1
  /\ LET m == gjmp_acs(M, 0) IN
     /\ Emits(gsym(m, Top.a))
     /\ open' = Append(Front(open), [Top EXCEPT !.kind = "else", !.a = m.t])
  /\ ahead' = "statement"
  /\ Says("else", Top.at, 0) /\ UNCHANGED jumps

EndIf ==
  /\ AtEnd({"if", "else"})
  /\ Emits(gsym(M, Top.a)) /\ Says("endif", Top.at, 0)
  /\ Complete(Front(open), IF Top.kind = "if" THEN "no else" ELSE ahead)
  /\ UNCHANGED <<fuel, jumps>>

Makes_While(d, m) ==
  Emits(m) /\ Opens(Saving([Frame("while", Now) EXCEPT !.a = m.t, !.d = d]))

While(c) ==
  /\ Token("while") /\ Makes_While(Ind(M), Test(gind(M), c, 1)) /\ Says("while", 0, c)
  /\ LoopBody
  /\ UNCHANGED <<labels, pending, rsym>>

\* Back to d, where `continue' goes as well; `break' goes here.
LoopEnd(m) == gsym(gsym_addr(gjmp_addr_acs(m, Top.d), Top.b, Top.d), Top.a)

EndWhile ==
  /\ AtEnd({"while"})
  /\ Emits(LoopEnd(M)) /\ Says("endwhile", Top.at, 0)
  /\ Complete(Front(open), ahead)
  /\ scopes' = Restored /\ loop_scope' = Top.loop
  /\ UNCHANGED <<fuel, labels, pending, rsym>>

Do ==
  /\ Token("do") /\ Emits(gind(M)) /\ Says("do", 0, 0)
  /\ Opens(Saving([Frame("do", Now) EXCEPT !.d = Ind(M)]))
  /\ LoopBody
  /\ UNCHANGED <<labels, pending, rsym>>

\* After the condition: the list m.t is taken if it is true.
Repeats(m) == gsym(gsym_addr(m, m.t, Top.d), Top.a)

EndDo(c) ==
  /\ AtEnd({"do"})
  /\ Emits(Repeats(Test(gsym(M, Top.b), c, 0))) /\ Says("enddo", Top.at, c)
  /\ Complete(Front(open), "rest")
  /\ scopes' = Restored /\ loop_scope' = Top.loop
  /\ UNCHANGED <<fuel, labels, pending, rsym>>

\* The third expression of a for, and the jumps around it; c is where the test is.
SteppedOver(over, c, k) ==
  gsym(gjmp_addr_acs(Does(gind(over), "step", k), c), over.t)

Makes_For(k, c, m, step) ==
  LET over == gjmp_acs(m, 0) IN
  /\ Emits(IF step THEN SteppedOver(over, c, k) ELSE m)
  /\ Opens([Frame("for", k) EXCEPT !.a = m.t, !.d = IF step THEN Ind(over) ELSE c,
                                   !.step = step, !.loop = loop_scope])

\* With a declaration of a variable with a cleanup function, or without.
For(decl, c, step) ==
  /\ Token(IF decl THEN "forvar" ELSE "for")
  /\ LET k == IF decl THEN Now + 1 ELSE Now
         m == IF decl THEN Does(M, "do", Now) ELSE M
         cl == IF decl THEN Append(Here, Now) ELSE Here
     IN  /\ Makes_For(k, Ind(m), Test([gind(m) EXCEPT !.at = k], c, 1), step)
         /\ scopes' = Append(scopes, Scope(cl, Len(open) + 1, Len(open) + 1))
         /\ src' = (IF decl THEN Append(src, Point("var", 0, 0)) ELSE src)
                     \o <<[Point("for", 0, c) EXCEPT !.vars = cl]>>
  /\ loop_scope' = Len(scopes) + 1
  /\ UNCHANGED <<labels, pending, rsym>>

EndFor ==
  /\ AtEnd({"for"})
  /\ LET z == Left(LoopEnd(M)) IN Emits(z.m) /\ prev_scope(z)
  /\ Says("endfor", Top.at, Top.step)
  /\ Complete(Front(open), ahead)
  /\ loop_scope' = Top.loop
  /\ UNCHANGED <<fuel, rsym>>

\* The call of block() *cur_scope->bsym and *cur_scope->csym belong to.
bsym == Last(scopes).bsym
csym == Last(scopes).csym
cur_switch == Max({0} \cup {i \in DOMAIN open : open[i].kind = "switch"})
Construct(i) == open[i].at

BreakScope == IF cur_switch # 0 /\ bsym = cur_switch THEN open[cur_switch].scope
              ELSE loop_scope

Break ==
  /\ Token("break") /\ bsym # 0
  /\ LET m == gjmp_acs(try_call_scope_cleanup(M, Here, Len(scopes[BreakScope].cl)),
                       open[bsym].a)
     IN  Emits(m) /\ Complete([open EXCEPT ![bsym].a = m.t], "rest")
  /\ Says("break", Construct(bsym), 0)
  /\ UNCHANGED jumps

Continue ==
  /\ Token("continue") /\ csym # 0
  /\ LET m == gjmp_acs(try_call_scope_cleanup(M, Here, Len(scopes[loop_scope].cl)),
                       open[csym].b)
     IN  Emits(m) /\ Complete([open EXCEPT ![csym].b = m.t], "rest")
  /\ Says("continue", Construct(csym), 0)
  /\ UNCHANGED jumps
-----------------------------------------------------------------------------
\* switch

Switch ==
  /\ Token("switch")
  /\ LET m == gjmp_acs(Does(M, "choose", Now), 0) IN
     /\ Emits(m)
     /\ Opens(Saving([Frame("switch", Now) EXCEPT
                        !.b = m.t, !.dead = off, !.scope = Len(scopes)]))
  /\ scopes' = [scopes EXCEPT ![Len(scopes)].bsym = Len(open) + 1]
  /\ Says("switch", 0, 0)
  /\ UNCHANGED <<loop_scope, labels, pending, rsym>>

\* Inside, a label of the switch; in a dead one it does not revive the code.
Labelled(sw) == IF open[sw].dead THEN M ELSE gind(M)

Case(lo, hi) ==
  /\ Token("case") /\ cur_switch # 0
  /\ Emits(Labelled(cur_switch))
  /\ open' = [open EXCEPT ![cur_switch].cases =
                             Append(@, [v1 |-> lo, v2 |-> hi, ind |-> Ind(M)])]
  /\ ahead' = "statement"
  /\ Says("case", Construct(cur_switch), <<lo, hi>>)
  /\ UNCHANGED jumps

Default ==
  /\ Token("default") /\ cur_switch # 0 /\ open[cur_switch].def = 0
  /\ Emits(Labelled(cur_switch))
  /\ open' = [open EXCEPT ![cur_switch].def = Ind(M)]
  /\ ahead' = "statement"
  /\ Says("default", Construct(cur_switch), 0)
  /\ UNCHANGED jumps

\* case_sort(): neighbours with the same code become one range.
Merges(x, y) == x.v2 + 1 = y.v1 /\ x.ind = y.ind

SortedCases(cases) ==
  FoldLeft(LAMBDA s, y :
             IF s # << >> /\ Merges(Last(s), y)
             THEN Append(Front(s), [y EXCEPT !.v1 = Last(s).v1]) ELSE Append(s, y),
           << >>, SortSeq(cases, LAMBDA x, y : x.v1 < y.v1))

Duplicate(cases) ==
  LET s == SortSeq(cases, LAMBDA x, y : x.v1 < y.v1)
  IN  \E i \in 1 .. Len(s) - 1 : s[i].v2 >= s[i + 1].v1

\* gvtst(0, t) after a comparison of the value with v
Compared(m, rel, v, t) == Chained(m, "cmp", <<rel, v>>, t)

RECURSIVE gcase(_, _, _)

\* m.t is the list taken if the value is none of the cases.
GcaseFrom(m, cases, l2, p, dsym) ==
  IF l2 = 0 /\ p.v1 = p.v2
  THEN LET n == Compared(m, "=", p.v2, 0)
       IN  gcase(gsym_addr(n, n.t, p.ind), Tail(cases), dsym)
  ELSE LET n == Compared(m, ">", p.v2, IF Len(cases) = 1 THEN dsym ELSE 0)
           e == IF Len(cases) = 1 THEN 0 ELSE n.t
           in == Compared(n, ">=", p.v1, 0)
           low == gcase(gsym_addr(in, in.t, p.ind), SubSeq(cases, 1, l2),
                        IF Len(cases) = 1 THEN n.t ELSE dsym)
       IN  gcase(gsym(low, e), SubSeq(cases, l2 + 2, Len(cases)), low.t)

gcase(m, cases, dsym) ==
  IF cases = << >> THEN gjmp_acs(m, dsym)
  ELSE LET l2 == IF Len(cases) > GcaseLinear THEN Len(cases) \div 2 ELSE 0
       IN  GcaseFrom(m, cases, l2, cases[l2 + 1], dsym)

Chosen(m) ==
  IF Top.def # 0 THEN gsym_addr(m, m.t, Top.def) ELSE gsym(m, m.t)

\* `break' and the end of the body go behind the table of cases.
SwitchTable(m) ==
  gsym(IF Top.dead THEN gsym(m, Top.b)
       ELSE Chosen(gcase(gsym(m, Top.b), SortedCases(Top.cases), 0)), m.t)

\* Equal cases are an error.
EndSwitch ==
  /\ AtEnd({"switch"}) /\ (Top.dead \/ ~ Duplicate(Top.cases))
  /\ Emits(SwitchTable(gjmp_acs(M, Top.a)))
  /\ Complete(Front(open), ahead)
  /\ scopes' = Restored
  /\ Says("endswitch", Top.at, 0)
  /\ UNCHANGED <<fuel, loop_scope, labels, pending, rsym>>
-----------------------------------------------------------------------------
\* goto and labels

Forward(l, m) ==
  LET r == [labels[l] EXCEPT !.r = "forward"]
      jump(n) ==
        /\ Emits(n)
        /\ labels' = [labels EXCEPT ![l] =
             IF Here # << >> /\ ~ off THEN [r EXCEPT !.pcls = Append(@, n.t)]
             ELSE [r EXCEPT !.jnext = n.t]]
  IN  jump(gjmp_acs(m, IF Here # << >> /\ ~ off THEN 0 ELSE r.jnext))

Goto(l) ==
  /\ Token("goto") /\ Simple
  /\ labels[l].r = "none" => fuel > Owed("goto") + 1
  /\ IF labels[l].r = "defined"
     THEN /\ Emits(gjmp_addr_acs(try_call_cleanup_goto(M, labels[l].cl), labels[l].jind))
          /\ UNCHANGED <<labels, pending>>
     ELSE /\ Forward(l, M)
          /\ pending' = IF Here # << >> /\ ~ off
                        THEN Append(pending, [label |-> l, c |-> Len(Here),
                                              pcl |-> Len(labels[l].pcls) + 1])
                        ELSE pending
  /\ Says("goto", 0, l)
  /\ UNCHANGED <<scopes, loop_scope, rsym>>

\* Gotos wait both with and without variables to clean up.
Mixed(s) == s.pcls # << >> /\ s.jnext # 0

\* `l :'.  If any goto waits with something to clean up, only those are resolved.
LabelStatement(l) ==
  /\ Token("label") /\ labels[l].r # "defined"
  /\ Mixed(labels[l]) => MixedGotos
  /\ LET s == labels[l]
         m == IF s.pcls # << >> THEN FoldLeft(gsym, M, s.pcls) ELSE gsym(M, s.jnext)
     IN  Emits(gind(m))
  /\ labels' = [labels EXCEPT ![l] =
       [r |-> "defined", jnext |-> 0, jind |-> Ind(M), cl |-> Here, pcls |-> << >>]]
  /\ open' = open /\ ahead' = "statement"
  /\ Says("label", 0, l)
  /\ UNCHANGED <<scopes, loop_scope, pending, rsym>>
-----------------------------------------------------------------------------
\* The end of the function, and its code run next to its source.

\* As far as the code goes without anything happening; v is the value compared.
\* 0 is anywhere: an unresolved jump, or beyond the end.
Holds(rel, v, w) == CASE rel = "=" -> v = w [] rel = ">" -> v > w [] rel = ">=" -> v >= w

Target(i) == IF i.set THEN i.to ELSE 0

RECURSIVE ReachesIn(_, _, _, _)
ReachesIn(c, at, v, n) ==
  IF at \notin DOMAIN c THEN 0
  ELSE IF n = 0 \/ c[at].op \notin {"jmp", "cmp"} THEN at
  ELSE ReachesIn(c, IF c[at].op = "jmp" \/ Holds(c[at].arg[1], v, c[at].arg[2])
                    THEN Target(c[at]) ELSE at + 1, v, n - 1)

Reaches(c, at, v) == ReachesIn(c, at, v, Len(c))

\* What the code does at c[at].
CodeEvent(c, at) ==
  IF at = 0 THEN <<"wild">>
  ELSE LET i == c[at] IN
       CASE i.op = "jmp" -> <<"loop">>
         [] i.op = "jif" -> <<"test", <<i.arg[1], i.arg[2] \div 2>>>>
         [] i.op = "ret" -> <<"return">>
         [] OTHER -> <<i.op, i.arg>>

CodePassed(c, at, b) ==
  IF c[at].op = "jif"
  THEN Reaches(c, IF b = (c[at].arg[2] % 2 = 0) THEN Target(c[at]) ELSE at + 1, 0)
  ELSE Reaches(c, at + 1, IF c[at].op = "choose" THEN b ELSE 0)

Starts(c, s) ==
  /\ code' = c /\ src' = s
  /\ pc' = Reaches(c, 1, 0) /\ pos' = Settled(s, At(1))

EndOfFunction(m) ==
  Starts(Append(m.code, Instr("ret", 0, 0, TRUE)),
         Append(src, [op |-> "end", of |-> 0, arg |-> 0, vars |-> << >>]))

\* The brace of the function, and the rest of gen_function().
CloseFunction ==
  /\ phase = "compile" /\ ahead \in {"statement", "}"} /\ Len(open) = 1
  /\ \A l \in Label : labels[l].r # "forward"
  /\ LET z == Left(M) IN EndOfFunction(gsym(z.m, rsym)) /\ prev_scope(z)
  /\ off' = FALSE
  /\ open' = << >> /\ ahead' = "}"
  /\ phase' = "run"
  /\ UNCHANGED <<kit, fuel, loop_scope, rsym>>

\* What may be found where something happens.
Findings(what) ==
  CASE what = "test" -> BOOLEAN [] what = "choose" -> Values [] OTHER -> {TRUE}

\* Something happens, with the same outcome in the code and in the source.
Run ==
  /\ phase = "run"
  /\ CodeEvent(code, pc) = Event(src, pos)
  /\ Event(src, pos)[1] \notin {"loop", "return", "exit"}
  /\ \E b \in Findings(Event(src, pos)[1]) :
       pc' = CodePassed(code, pc, b) /\ pos' = Settled(src, Passed(src, pos, b))
  /\ UNCHANGED <<parser, src, code, off, jumps, phase>>
-----------------------------------------------------------------------------
Next ==
  \/ Expr \/ Exit \/ Var \/ Block \/ Close
  \/ \E last \in BOOLEAN : Return(last)
  \/ \E c \in kit.conds : If(c) \/ While(c) \/ EndDo(c)
  \/ \E c \in kit.conds, decl, step \in BOOLEAN : For(decl, c, step)
  \/ Else \/ EndIf \/ EndWhile \/ Do \/ EndFor
  \/ Break \/ Continue
  \/ Switch \/ Default \/ EndSwitch
  \/ \E r \in kit.ranges : Case(r[1], r[2])
  \/ \E l \in Label : Goto(l) \/ LabelStatement(l)
  \/ CloseFunction
  \/ Run

Spec == Init /\ [][Next]_vars
-----------------------------------------------------------------------------
\* The lists of waiting jumps block() holds on to.
Lists ==
  LET ls == SetToSeq(Label) IN
  [i \in DOMAIN open |-> open[i].a] \o [i \in DOMAIN open |-> open[i].b] \o <<rsym>>
    \o [i \in DOMAIN ls |-> labels[ls[i]].jnext]
    \o FlattenSeq([i \in DOMAIN ls |-> labels[ls[i]].pcls])

\* No jump is forgotten and none waits twice: while the function is compiled every
\* jump without a target is in exactly one of the lists, and in the end there is none.
NoJumpLost ==
  IF phase = "compile"
  THEN LET lists == [i \in DOMAIN Lists |-> ToSet(ListOf(code, Lists[i]))] IN
       /\ \A j \in DOMAIN code :
            ~ code[j].set => Cardinality({i \in DOMAIN lists : j \in lists[i]}) = 1
       /\ \A i \in DOMAIN lists : \A j \in lists[i] : ~ code[j].set
  ELSE \A j \in DOMAIN code : code[j].set

\* Whatever the conditions come to, the code does what the source says, cleanups
\* included, and in the same order: suppressed code is never missed, a constant
\* condition goes the right way, every jump ends where it should.
FollowsSource == phase = "run" => CodeEvent(code, pc) = Event(src, pos)
=============================================================================
