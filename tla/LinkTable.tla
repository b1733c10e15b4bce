------------------------------ MODULE LinkTable ------------------------------
(***************************************************************************)
(* What the linker's symbol table promises, seen from outside: a map from  *)
(* global names to the attributes currently known for them, into which     *)
(* symbols are entered one after the other by the rule of LinkRules.       *)
(* SymTab.tla shows that the real table (in-place compaction of a file's   *)
(* symbols, index translation, detached hash) implements this.             *)
(***************************************************************************)
EXTENDS LinkRules

CONSTANTS
  Name,     \* the global names
  Decl,     \* the attributes the files and the linker enter symbols with
  None      \* a name nothing is known of

ASSUME TableAssumption == None \notin Attr /\ Decl \subseteq Attr

VARIABLES
  table,    \* what the table knows of each global name
  clashed   \* nb_errors # 0 because of "defined twice"

vars == <<table, clashed>>

Init ==
  /\ table = [n \in Name |-> None]
  /\ clashed = FALSE

\* set_elf_sym() for a global or weak symbol.
Enter(n, a) ==
  /\ a.bind # LOCALB
  /\ table' = [table EXCEPT ![n] = IF @ = None THEN a ELSE Merge(@, a)]
  /\ clashed' = (clashed \/ (table[n] # None /\ Clash(table[n], a)))

Next == \E n \in Name, a \in Decl : Enter(n, a)

Spec == Init /\ [][Next]_vars
=============================================================================
