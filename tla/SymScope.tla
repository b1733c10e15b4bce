------------------------------ MODULE SymScope ------------------------------
(***************************************************************************)
(* Identifiers and scopes in tccgen.c.  No stack is searched to resolve a  *)
(* name: table_ident[v]->sym_identifier points to the innermost visible    *)
(* Sym, and every Sym remembers in prev_tok the one it covers.  Symbols    *)
(* leave in stack order, except that the end of a statement expression     *)
(* hides its symbols but keeps them on local_stack, and that global        *)
(* identifiers can be slipped in underneath visible local ones.            *)
(*                                                                         *)
(* Syms are numbered cells of a pool; 0 is NULL.  `env' is history: the    *)
(* Syms pushed and not yet popped, one map per open scope, file scope      *)
(* first; tcc declares undeclared functions and block `extern's there too. *)
(* `kept' is history too: a statement expression has left symbols behind.  *)
(***************************************************************************)
EXTENDS Naturals, FiniteSets, Sequences, SequencesExt, FiniteSetsExt

CONSTANTS
  Ident,       \* identifiers
  KeepScopes,  \* TRUE if the program has statement expressions
  MaxPool,     \* bound: Syms alive at a time
  MaxScope     \* bound: nesting of scopes

ASSUME ScopeAssumption ==
  KeepScopes \in BOOLEAN /\ MaxPool \in Nat /\ MaxScope \in Nat

VARIABLES
  pool,          \* the Syms: [v, scope, prev_tok, live]
  visible,       \* sym_identifier of each TokenSym
  global_stack,  \* Syms, top last
  local_stack,   \* Syms, top last
  local_scope,
  marks,         \* the lstk of each open scope: Len(local_stack) at its start
  phase,         \* "file", "params", "body", "error", "finished"
  env,           \* history: scope by scope, identifier -> Sym or 0
  kept           \* history: some scope was closed with its Syms kept

scope_vars == <<pool, visible, global_stack, local_stack, local_scope, marks, phase,
                env, kept>>

SymIndex == 1 .. MaxPool
NoSym == [v |-> CHOOSE v \in Ident : TRUE, scope |-> 0, prev_tok |-> 0, live |-> FALSE]
NoSyms == [v \in Ident |-> 0]

ScopeInit ==
  /\ pool = [i \in SymIndex |-> NoSym]
  /\ visible = NoSyms
  /\ global_stack = << >> /\ local_stack = << >>
  /\ local_scope = 0
  /\ marks = << >>
  /\ phase = "file"
  /\ env = <<NoSyms>>
  /\ kept = FALSE

\* sym_malloc(): some free cell; they are all alike.
FreeSyms == {i \in SymIndex : ~ pool[i].live}
Fresh == Min(FreeSyms)

\* sym_link(s, 1) for a new Sym s of v in scope number sc.
Linked(v, sc, s) ==
  /\ pool' = [pool EXCEPT ![s] = [v |-> v, scope |-> sc, prev_tok |-> visible[v],
                                  live |-> TRUE]]
  /\ visible' = [visible EXCEPT ![v] = s]

\* The visible symbols of a name from cell i on, innermost first, and the first
\* of them at file scope: what external_sym() looks for.
Onward(s, i) == IF s = << >> THEN i ELSE pool[Last(s)].prev_tok
Covered(i) ==
  LET c[k \in 0 .. MaxPool] ==
        IF k = 0 THEN << >>
        ELSE LET j == Onward(c[k - 1], i) IN IF j = 0 THEN c[k - 1] ELSE Append(c[k - 1], j)
  IN  c[MaxPool]
Outside(i) == SelectInSeq(Covered(i), LAMBDA j : pool[j].scope = 0)
GlobalOf(v) ==
  IF Outside(visible[v]) = 0 THEN 0 ELSE Covered(visible[v])[Outside(visible[v])]

Declare(v, s) == env' = [env EXCEPT ![Len(env)][v] = s]
-----------------------------------------------------------------------------
\* decl() at file scope, of a name not seen before: sym_push() on global_stack.
DeclGlobal(v) ==
  /\ phase = "file" /\ visible[v] = 0 /\ FreeSyms # {}
  /\ Linked(v, 0, Fresh)
  /\ global_stack' = Append(global_stack, Fresh)
  /\ Declare(v, Fresh)
  /\ UNCHANGED <<local_stack, local_scope, marks, phase, kept>>

\* gen_function(): an anonymous Sym opens local_stack, the parameters follow
\* in scope 1.
BeginFunction ==
  /\ phase = "file"
  /\ phase' = "params"
  /\ local_scope' = 1
  /\ env' = Append(env, NoSyms)
  /\ UNCHANGED <<pool, visible, global_stack, local_stack, marks, kept>>

\* block() of the body: scope 1 again, as far as its number goes.
BeginBody ==
  /\ phase = "params"
  /\ phase' = "body"
  /\ marks' = <<Len(local_stack)>>
  /\ env' = Append(env, NoSyms)
  /\ UNCHANGED <<pool, visible, global_stack, local_stack, local_scope, kept>>

\* new_scope() and new_scope_s()
NewScope ==
  /\ phase = "body" /\ local_scope < MaxScope
  /\ marks' = Append(marks, Len(local_stack))
  /\ local_scope' = local_scope + 1
  /\ env' = Append(env, NoSyms)
  /\ UNCHANGED <<pool, visible, global_stack, local_stack, phase, kept>>

\* sym_push_params() copies a parameter to local_stack; the parser has refused
\* two of one name.
DeclParam(v) ==
  /\ phase = "params" /\ env[2][v] = 0 /\ FreeSyms # {}
  /\ Linked(v, local_scope, Fresh)
  /\ local_stack' = Append(local_stack, Fresh)
  /\ Declare(v, Fresh)
  /\ UNCHANGED <<global_stack, local_scope, marks, phase, kept>>

\* Seeded bug: shadowing is refused like a redeclaration.
DeclLocal_NoShadow(v) ==
  /\ phase = "body" /\ FreeSyms # {}
  /\ Linked(v, local_scope, Fresh)
  /\ local_stack' = Append(local_stack, Fresh)
  /\ Declare(v, Fresh)
  /\ phase' = IF visible[v] # 0 THEN "error" ELSE phase
  /\ UNCHANGED <<global_stack, local_scope, marks, kept>>

\* sym_push() of a local variable, refused as "redeclaration of '%s'" if the
\* symbol it covers is of the same scope.
DeclLocal(v) ==
  /\ phase = "body" /\ FreeSyms # {}
  /\ Linked(v, local_scope, Fresh)
  /\ local_stack' = Append(local_stack, Fresh)
  /\ Declare(v, Fresh)
  /\ phase' = IF visible[v] # 0 /\ pool[visible[v]].scope = local_scope
              THEN "error" ELSE phase
  /\ UNCHANGED <<global_stack, local_scope, marks, kept>>

\* Seeded bug: the new Sym covers the local ones of its name.
PushUnder_OnTop(v, g) ==
  [pool |-> [pool EXCEPT ![g] = [v |-> v, scope |-> 0, prev_tok |-> visible[v], live |-> TRUE]],
   visible |-> [visible EXCEPT ![v] = g]]

\* global_identifier_push() of a name without a global symbol: the new Sym g goes
\* under all local ones of its name.
PushUnder(v, g) ==
  LET new == [pool EXCEPT ![g] = [v |-> v, scope |-> 0, prev_tok |-> 0, live |-> TRUE]]
  IN
  IF visible[v] = 0
  THEN [pool |-> new, visible |-> [visible EXCEPT ![v] = g]]
  ELSE [pool |-> [new EXCEPT ![Last(Covered(visible[v]))].prev_tok = g],
        visible |-> visible]

\* An undeclared function is called: external_global_sym().
DeclImplicit(v) ==
  /\ phase = "body" /\ visible[v] = 0 /\ FreeSyms # {}
  /\ LET under == PushUnder(v, Fresh) IN
       pool' = under.pool /\ visible' = under.visible
  /\ global_stack' = Append(global_stack, Fresh)
  /\ env' = [env EXCEPT ![1][v] = Fresh]
  /\ UNCHANGED <<local_stack, local_scope, marks, phase, kept>>

\* `extern' in a block: external_sym() finds or makes the global symbol g, then
\* sym_copy() puts a copy of it on local_stack, visible in this scope.
DeclExtern(v) ==
  /\ phase = "body" /\ Cardinality(FreeSyms) >= 2
  /\ LET known == GlobalOf(v) # 0
         g == IF known THEN GlobalOf(v) ELSE Fresh
         copy == Min(FreeSyms \ {g})
         under == IF known THEN [pool |-> pool, visible |-> visible] ELSE PushUnder(v, g)
     IN
     /\ pool' = [under.pool EXCEPT
                   ![copy] = [v |-> v, scope |-> local_scope,
                              prev_tok |-> under.visible[v], live |-> TRUE]]
     /\ visible' = [visible EXCEPT ![v] = copy]
     /\ global_stack' = IF known THEN global_stack ELSE Append(global_stack, g)
     /\ local_stack' = Append(local_stack, copy)
     /\ env' = [env EXCEPT ![Len(env)][v] = copy, ![1][v] = g]
  /\ UNCHANGED <<local_scope, marks, phase, kept>>

\* sym_pop(): unlink the Syms of a stack above height b, the top first; so the
\* lowest one of each name decides what becomes visible.
Popped(stack, b) == SubSeq(stack, b + 1, Len(stack))
Unlinked(tbl, gone) ==
  [v \in Ident |->
     LET k == SelectInSeq(gone, LAMBDA s : pool[s].v = v) IN
     IF k = 0 THEN tbl[v] ELSE pool[gone[k]].prev_tok]
Reclaimed(gone) ==
  [i \in SymIndex |-> IF Contains(gone, i) THEN NoSym ELSE pool[i]]

\* prev_scope() and prev_scope_s(); keep at the end of a statement expression.
PrevScope(keep) ==
  LET gone == Popped(local_stack, Last(marks)) IN
  /\ phase = "body" /\ local_scope > 1
  /\ keep => KeepScopes
  /\ visible' = Unlinked(visible, gone)
  /\ IF keep THEN UNCHANGED <<pool, local_stack>>
     ELSE /\ pool' = Reclaimed(gone)
          /\ local_stack' = SubSeq(local_stack, 1, Last(marks))
  /\ marks' = Front(marks)
  /\ local_scope' = local_scope - 1
  /\ env' = Front(env)
  /\ kept' = (kept \/ (keep /\ gone # << >>))
  /\ UNCHANGED <<global_stack, phase>>

\* The closing brace of the body and the end of gen_function().
EndFunction ==
  /\ phase = "body" /\ local_scope = 1
  /\ visible' = Unlinked(visible, local_stack)
  /\ pool' = Reclaimed(local_stack)
  /\ local_stack' = << >>
  /\ marks' = << >>
  /\ local_scope' = 0
  /\ phase' = "file"
  /\ env' = <<env[1]>>
  /\ UNCHANGED <<global_stack, kept>>

\* Any other error of the parser, at any time.
ParseError ==
  /\ phase \in {"file", "params", "body"}
  /\ phase' = "error"
  /\ UNCHANGED <<pool, visible, global_stack, local_stack, local_scope, marks, env, kept>>

\* tccgen_finish(), after success or an error: pops the globals, then what an
\* error left of the locals.
TccgenFinish ==
  /\ phase \in {"file", "error"}
  /\ visible' = Unlinked(Unlinked(visible, global_stack), local_stack)
  /\ pool' = [i \in SymIndex |-> NoSym]
  /\ global_stack' = << >> /\ local_stack' = << >>
  /\ local_scope' = 0
  /\ marks' = << >>
  /\ phase' = "finished"
  /\ env' = <<NoSyms>>
  /\ kept' = FALSE

\* preprocess_end() deletes the table, tccpp_new() makes one for the next file.
NewFile ==
  /\ phase = "finished"
  /\ visible' = NoSyms
  /\ pool' = [i \in SymIndex |-> NoSym]
  /\ phase' = "file"
  /\ UNCHANGED <<global_stack, local_stack, local_scope, marks, env, kept>>

ScopeNext ==
  \/ \E v \in Ident :
       \/ DeclGlobal(v) \/ DeclParam(v) \/ DeclLocal(v)
       \/ DeclImplicit(v) \/ DeclExtern(v)
  \/ BeginFunction \/ BeginBody \/ NewScope
  \/ \E keep \in BOOLEAN : PrevScope(keep)
  \/ EndFunction \/ ParseError \/ TccgenFinish \/ NewFile

ScopeSpec == ScopeInit /\ [][ScopeNext]_scope_vars
-----------------------------------------------------------------------------
\* The innermost Sym pushed and not popped.
Innermost(v) ==
  LET k == SelectLastInSeq(env, LAMBDA e : e[v] # 0) IN IF k = 0 THEN 0 ELSE env[k][v]

\* "Each TokenSym of table_ident directly holds the innermost visible Sym for its
\* identifier, and sym_pop() restores the previous one" (tcc-doc.texi), unless the
\* file has closed a statement expression with symbols.  Then the only deviation is
\* that a file scope symbol is not found any more: sym_find() never returns a
\* symbol of a closed scope, and finds every local one.  None of the pointers
\* followed to find and to restore a symbol leads to a freed one.
FindIsSound ==
  phase \in {"file", "params", "body"} =>
    \A v \in Ident :
      /\ \/ visible[v] = Innermost(v)
         \/ kept /\ visible[v] = 0 /\ Innermost(v) # 0 /\ pool[Innermost(v)].scope = 0
      /\ LET c == Covered(visible[v]) IN
         \A k \in 1 .. Len(c) : pool[c[k]].live /\ pool[c[k]].v = v

\* A declaration is refused exactly if the scope, parameters and body counting
\* as one, already declares the name, however many scopes of the same number
\* have come and gone.
RedeclarationExact ==
  [][\A v \in Ident :
       DeclLocal(v) =>
         (phase' = "error"
            <=> \/ env[Len(env)][v] # 0
                \/ Len(env) = 3 /\ env[2][v] # 0)]_scope_vars
=============================================================================
