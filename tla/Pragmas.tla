------------------------------- MODULE Pragmas -------------------------------
(***************************************************************************)
(* The two stacks pragma_parse() keeps: macro definitions saved by         *)
(* #pragma push_macro, and alignments saved by #pragma pack(push).         *)
(*                                                                         *)
(* There is no stack of saved macros.  Every definition ever made stays on *)
(* define_stack until the end of the file; push_macro marks the current    *)
(* one and pop_macro goes back to the latest marked one of that name.      *)
(***************************************************************************)
EXTENDS Naturals, FiniteSets, Sequences, SequencesExt

CONSTANTS
  Macro,
  Body,            \* token strings
  NoBody,          \* d == NULL: a marker for "was not defined"
  Builtin,         \* macros like __LINE__, defined without a token string
  Align,           \* alignments of #pragma pack(n)
  PACK_STACK_SIZE, \* 8
  MaxDefines,      \* bound: definitions and markers made
  MaxPushes        \* bound: saved values per macro

ASSUME PragmaAssumption ==
  /\ NoBody \notin Body /\ Builtin \subseteq Macro /\ IsFiniteSet(Builtin)
  /\ PACK_STACK_SIZE \in Nat \ {0} /\ MaxDefines \in Nat /\ MaxPushes \in Nat

VARIABLES
  defines,    \* define_stack, latest last: [v, d, mark]
  table,      \* sym_define of each macro, as an index into defines; 0 if none
  pack,       \* pack_stack up to pack_stack_ptr
  status,     \* "run", or "error" after "out of pack stack"
  pushed,     \* history: per macro, the definitions saved and not yet restored
  again,      \* history: macros whose current definition was saved twice
  packs       \* history: the alignments saved and not yet restored

pragma_vars == <<defines, table, pack, status, pushed, again, packs>>
macro_vars == <<defines, table, pushed, again>>
pack_vars == <<pack, packs>>

Def(v, d) == [v |-> v, d |-> d, mark |-> FALSE]

\* What the name means: a token string, NoBody for a builtin, or nothing.
Meaning(v) == IF table[v] = 0 THEN "undefined" ELSE defines[table[v]].d

\* tccpp_new() defines the builtins; pack_stack starts out with 0.
PragmaInit ==
  /\ defines = SetToSeq({Def(v, NoBody) : v \in Builtin})
  /\ table = [v \in Macro |->
                IF v \in Builtin
                THEN CHOOSE i \in 1 .. Len(defines) : defines[i].v = v ELSE 0]
  /\ pack = <<0>>
  /\ status = "run"
  /\ pushed = [v \in Macro |-> << >>]
  /\ again = {}
  /\ packs = << >>

\* #define: define_push()
Define(v, d) ==
  /\ status = "run" /\ Len(defines) < MaxDefines
  /\ defines' = Append(defines, Def(v, d))
  /\ table' = [table EXCEPT ![v] = Len(defines) + 1]
  /\ UNCHANGED <<status, pushed, again>> /\ UNCHANGED pack_vars

\* #undef: define_undef(); the definition stays on define_stack.
Undef(v) ==
  /\ status = "run" /\ table[v] # 0
  /\ table' = [table EXCEPT ![v] = 0]
  /\ UNCHANGED <<defines, status, pushed, again>> /\ UNCHANGED pack_vars

\* #pragma push_macro: mark the current definition, or a new empty one.
PushMacro(v) ==
  LET ds == IF table[v] = 0 THEN Append(defines, Def(v, NoBody)) ELSE defines
      s == IF table[v] = 0 THEN Len(ds) ELSE table[v]
  IN
  /\ status = "run" /\ Len(ds) <= MaxDefines /\ Len(pushed[v]) < MaxPushes
  /\ defines' = [ds EXCEPT ![s].mark = TRUE]
  /\ table' = [table EXCEPT ![v] = IF ds[s].d # NoBody THEN s ELSE 0]
  /\ pushed' = [pushed EXCEPT ![v] = Append(@, Meaning(v))]
  /\ again' = IF ds[s].mark THEN again \cup {v} ELSE again
  /\ UNCHANGED status /\ UNCHANGED pack_vars

\* Seeded bug: the oldest marked definition is restored.
PopMacro_Oldest(v) ==
  LET marked == {i \in 1 .. Len(defines) : defines[i].v = v /\ defines[i].mark} IN
  /\ status = "run"
  /\ IF marked = {} THEN UNCHANGED <<defines, table>>
     ELSE LET s == CHOOSE i \in marked : \A j \in marked : j >= i IN
          /\ defines' = [defines EXCEPT ![s].mark = FALSE]
          /\ table' = [table EXCEPT ![v] = IF defines[s].d # NoBody THEN s ELSE 0]
  /\ pushed' = [pushed EXCEPT ![v] = IF @ = << >> THEN @ ELSE Front(@)]
  /\ UNCHANGED <<status, again>> /\ UNCHANGED pack_vars

\* #pragma pop_macro: back to the latest marked definition of the name.
\* Without one: "unbalanced #pragma pop_macro".
PopMacro(v) ==
  LET marked == {i \in 1 .. Len(defines) : defines[i].v = v /\ defines[i].mark} IN
  /\ status = "run"
  /\ IF marked = {} THEN UNCHANGED <<defines, table>>
     ELSE LET s == CHOOSE i \in marked : \A j \in marked : j <= i IN
          /\ defines' = [defines EXCEPT ![s].mark = FALSE]
          /\ table' = [table EXCEPT ![v] = IF defines[s].d # NoBody THEN s ELSE 0]
  /\ pushed' = [pushed EXCEPT ![v] = IF @ = << >> THEN @ ELSE Front(@)]
  /\ UNCHANGED <<status, again>> /\ UNCHANGED pack_vars

\* preprocess_end(): free_defines() unmakes all definitions, preprocess_start()
\* of the next file makes the builtins again and resets the alignment.
NextFile ==
  /\ defines' = SetToSeq({Def(v, NoBody) : v \in Builtin})
  /\ table' = [v \in Macro |->
                 IF v \in Builtin
                 THEN CHOOSE i \in 1 .. Len(defines') : defines'[i].v = v ELSE 0]
  /\ pack' = <<0>>
  /\ status' = "run"
  /\ pushed' = [v \in Macro |-> << >>]
  /\ again' = {}
  /\ packs' = << >>

\* #pragma pack(n) and pack(), which is n = 0
Pack(n) ==
  /\ status = "run"
  /\ pack' = [pack EXCEPT ![Len(pack)] = n]
  /\ UNCHANGED <<status, packs>> /\ UNCHANGED macro_vars

\* #pragma pack(push) (keep = TRUE) and pack(push, n)
PackPush(keep, n) ==
  /\ status = "run"
  /\ IF Len(pack) >= PACK_STACK_SIZE
     THEN status' = "error" /\ UNCHANGED pack_vars
     ELSE /\ pack' = Append(pack, IF keep THEN Last(pack) ELSE n)
          /\ packs' = Append(packs, Last(pack))
          /\ UNCHANGED status
  /\ UNCHANGED macro_vars

\* #pragma pack(pop)
PackPop ==
  /\ status = "run"
  /\ IF Len(pack) <= 1
     THEN status' = "error" /\ UNCHANGED pack_vars
     ELSE pack' = Front(pack) /\ packs' = Front(packs) /\ UNCHANGED status
  /\ UNCHANGED macro_vars

PragmaNext ==
  \/ \E v \in Macro \ Builtin, d \in Body : Define(v, d)
  \/ \E v \in Macro : Undef(v) \/ PushMacro(v) \/ PopMacro(v)
  \/ NextFile
  \/ \E n \in Align \cup {0} : Pack(n)
  \/ \E n \in Align, keep \in BOOLEAN : PackPush(keep, n)
  \/ PackPop

PragmaSpec == PragmaInit /\ [][PragmaNext]_pragma_vars
-----------------------------------------------------------------------------
\* "Push and pop macro definitions to/from a macro stack" (tcc-doc.texi): pop_macro
\* brings back the meaning the matching push_macro saved, whatever was defined,
\* undefined and popped in between, as long as no definition of the macro was
\* pushed twice while it was still marked.  (Then it was saved only once, and the
\* second pop finds it gone.)  Likewise pack(pop) brings back the alignment that
\* was current at the matching pack(push), which never leaves its array.
PopsRestore ==
  [][/\ \A v \in Macro \ Builtin :
          PopMacro(v) /\ pushed[v] # << >> /\ v \notin again
            => Meaning(v)' = Last(pushed[v])
     /\ PackPop /\ status' = "run" => Last(pack') = Last(packs)
     /\ Len(pack') <= PACK_STACK_SIZE]_pragma_vars
=============================================================================
