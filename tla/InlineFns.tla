------------------------------ MODULE InlineFns ------------------------------
(***************************************************************************)
(* Functions of one translation unit: declared, defined and used in any    *)
(* order, with or without `static', `extern' and `inline'.  An inline      *)
(* function is only remembered when it is defined; gen_inline_functions()  *)
(* compiles, at the end of the file and for as long as there is one, those *)
(* that turned out to be used or not to be inline after all.               *)
(***************************************************************************)
EXTENDS Naturals, Sequences, FiniteSets, SequencesExt

CONSTANTS
  Func,       \* the functions
  FnBody,     \* what a function may do: [uses, blocks], blocks being those of
              \* the uses it declares itself, in a block, before the use
  MaxDecls    \* bound: declarations, definitions and uses at file scope

ASSUME InlineAssumption ==
  MaxDecls \in Nat /\ \A b \in FnBody : b.blocks \subseteq b.uses /\ b.uses \subseteq Func

VARIABLES
  sym,      \* what is known of each function
  stray,    \* functions with a second ELF symbol, made for a block's copy
  fns,      \* inline_fns: [f, body, todo]
  bodies,   \* history: what each function with a body uses
  gens,     \* history: how often each function was compiled
  data,     \* history: the functions used in initializers
  gnu89,    \* -fgnu89-inline
  decls,    \* declarations so far
  pos,      \* where gen_inline_functions() is, 0 before the end of the file
  generated, \* inline_generated
  end       \* "no", "ok" or "error"

fvars == <<sym, stray, fns, bodies, gens, data, gnu89, decls, pos, generated, end>>

Unknown == [known |-> FALSE, extern |-> FALSE, static |-> FALSE, inline |-> FALSE,
            elf |-> FALSE, local |-> FALSE]

Type(storage, inline) ==
  [extern |-> storage = "extern", static |-> storage = "static", inline |-> inline]
Prototype(t) == [t EXCEPT !.extern = TRUE]
Definition(t) == [t EXCEPT !.extern = FALSE]
BlockExtern == Type("extern", FALSE)

\* `extern inline' is `static inline' under -fgnu89-inline, and plain otherwise.
Storage(t) ==
  IF t.extern /\ t.inline
  THEN IF gnu89 THEN [t EXCEPT !.extern = FALSE, !.static = TRUE] ELSE [t EXCEPT !.inline = FALSE]
  ELSE t

StaysInline(s, t) ==
  (s.inline \/ t.inline) /\ ((s.inline /\ t.inline) \/ s.static \/ t.static)

\* patch_type() for a function declared before.
Patched(s, t) ==
  IF t.extern THEN [s EXCEPT !.inline = @ /\ StaysInline(s, t)]
  ELSE [s EXCEPT !.extern = FALSE, !.inline = StaysInline(s, t)]

\* update_storage()
Stored(s) == IF s.elf THEN [s EXCEPT !.local = s.static \/ s.inline] ELSE s

\* external_sym()
External(s, t) ==
  IF s.known THEN Stored(Patched(s, t))
  ELSE [Unknown EXCEPT !.known = TRUE, !.extern = t.extern,
                       !.static = t.static, !.inline = t.inline]

\* put_extern_sym()
Entered(s) == Stored([s EXCEPT !.elf = TRUE])

\* An identifier nobody declared is declared by its use.
Declared(s) == IF s.known THEN s ELSE External(s, BlockExtern)

\* greloca() for a function a block has declared again: what is entered is the
\* copy the block holds, and the function itself only if it is a static one
\* still to be defined.
BlockUsed(s) ==
  LET copy == External(s, BlockExtern) IN
  IF copy.static /\ copy.extern THEN Entered(copy) ELSE copy
LeavesStray(s) == ~ BlockUsed(s).elf

\* gen_function(), from the symbols in table.
GenFunction(table, f, b) ==
  LET own == [table EXCEPT ![f] = Entered(@)] IN
  /\ sym' = [g \in Func |->
              CASE g \in b.blocks          -> BlockUsed(own[g])
                [] g \in b.uses \ b.blocks -> Entered(Declared(own[g]))
                [] OTHER                   -> own[g]]
  /\ stray' = stray \cup {g \in b.blocks : LeavesStray(own[g])}
  /\ gens' = [gens EXCEPT ![f] = @ + 1]

FInit ==
  /\ sym = [f \in Func |-> Unknown] /\ stray = {}
  /\ fns = << >> /\ data = {} /\ decls = 0
  /\ bodies = [f \in {} |-> {}]
  /\ gens = [f \in Func |-> 0]
  /\ gnu89 \in BOOLEAN
  /\ pos = 0 /\ generated = FALSE /\ end = "no"

AtFileScope == end = "no" /\ pos = 0 /\ decls < MaxDecls /\ decls' = decls + 1

DeclareFn(f, t) ==
  /\ AtFileScope
  /\ sym' = [sym EXCEPT ![f] = External(@, Prototype(Storage(t)))]
  /\ UNCHANGED <<stray, fns, bodies, gens, data, gnu89, pos, generated, end>>

\* An inline function is put aside, any other compiled.
DefineFn(f, t, b) ==
  /\ AtFileScope
  /\ sym[f].known => sym[f].extern
  /\ LET table == [sym EXCEPT ![f] = External(@, Definition(Storage(t)))] IN
     IF table[f].inline
     THEN /\ fns' = Append(fns, [f |-> f, body |-> b, todo |-> TRUE])
          /\ sym' = table /\ UNCHANGED <<stray, gens>>
     ELSE GenFunction(table, f, b) /\ UNCHANGED fns
  /\ bodies' = [g \in DOMAIN bodies \cup {f} |-> IF g = f THEN b.uses ELSE bodies[g]]
  /\ UNCHANGED <<data, gnu89, pos, generated, end>>

\* "redefinition of '%s'"
RedefineFn(f) ==
  /\ AtFileScope
  /\ sym[f].known /\ ~ sym[f].extern
  /\ end' = "error"
  /\ UNCHANGED <<sym, stray, fns, bodies, gens, data, gnu89, pos, generated>>

\* The address of a function in an initializer.
UseInData(f) ==
  /\ AtFileScope
  /\ sym[f].known
  /\ sym' = [sym EXCEPT ![f] = Entered(@)]
  /\ data' = data \cup {f}
  /\ UNCHANGED <<stray, fns, bodies, gens, gnu89, pos, generated, end>>

EndOfUnit ==
  /\ end = "no" /\ pos = 0
  /\ pos' = 1
  /\ UNCHANGED <<sym, stray, fns, bodies, gens, data, gnu89, decls, generated, end>>

\* One round of the loop over inline_fns.
GenInline ==
  /\ end = "no" /\ pos \in DOMAIN fns
  /\ LET fn == fns[pos]
         s == sym[fn.f]
     IN IF fn.todo /\ (s.elf \/ ~ s.inline)
        THEN /\ fns' = [fns EXCEPT ![pos].todo = FALSE]
             /\ GenFunction(sym, fn.f, fn.body)
             /\ generated' = TRUE
        ELSE UNCHANGED <<fns, sym, stray, gens, generated>>
  /\ pos' = pos + 1
  /\ UNCHANGED <<bodies, data, gnu89, decls, end>>

\* Seeded bug: the functions are gone through once.
EndOfPass_Once ==
  /\ end = "no" /\ pos > Len(fns)
  /\ end' = "ok"
  /\ UNCHANGED <<sym, stray, fns, bodies, gens, data, gnu89, decls, generated, pos>>

\* while (inline_generated)
EndOfPass ==
  /\ end = "no" /\ pos > Len(fns)
  /\ IF generated THEN pos' = 1 /\ generated' = FALSE /\ UNCHANGED end
     ELSE end' = "ok" /\ UNCHANGED <<pos, generated>>
  /\ UNCHANGED <<sym, stray, fns, bodies, gens, data, gnu89, decls>>

FNext ==
  \/ \E f \in Func :
       \/ \E storage \in {"none", "extern", "static"}, inline \in BOOLEAN :
            \/ DeclareFn(f, Type(storage, inline))
            \/ \E b \in FnBody : DefineFn(f, Type(storage, inline), b)
       \/ RedefineFn(f)
       \/ UseInData(f)
  \/ EndOfUnit \/ GenInline \/ EndOfPass

FSpec == FInit /\ [][FNext]_fvars
-----------------------------------------------------------------------------
WithBody == DOMAIN bodies

\* What the unit must provide: functions that are not inline, what initializers
\* use, and what is used by those.
Roots == {f \in WithBody : ~ sym[f].inline} \cup data
Needed ==
  LET Closed(S) == Roots \subseteq S /\ \A f \in S \cap WithBody : bodies[f] \subseteq S
  IN {f \in WithBody : \A S \in SUBSET Func : Closed(S) => f \in S}

\* A function that was declared again in a block and is still inline at the end,
\* hence static in some declaration, is used in the block by a symbol of its
\* own that nothing will define.
Lost == {f \in stray : sym[f].inline}

\* At the end of a unit exactly the functions needed have been compiled, each
\* once, in whatever order they were declared, defined and used; the binding of
\* each is that of its last declaration; and what a block refers to by a symbol
\* of its own is there for the linker to find, `Lost' excepted.
InlineClosure ==
  end = "ok" =>
    /\ \A f \in Func : gens[f] <= 1
    /\ {f \in Func : gens[f] = 1} \subseteq Needed
    /\ Lost = {} => \A f \in Needed : gens[f] = 1
    /\ \A f \in Func : gens[f] = 1 => sym[f].elf /\ sym[f].local = (sym[f].static \/ sym[f].inline)
    /\ \A f \in (stray \cap WithBody) \ Lost : gens[f] = 1 /\ ~ sym[f].local
=============================================================================
