------------------------------- MODULE ElfHash -------------------------------
(***************************************************************************)
(* The hash section of a symbol table, word by word: nbuckets, the symbol  *)
(* count, the bucket heads, then one chain word per symbol.  A chain word  *)
(* is found by adding the symbol's index to an offset, so the section is   *)
(* usable only while it has grown in step with the symbol section.  The    *)
(* module checks that it does through put_elf_sym(), rebuild_hash() and    *)
(* the detachment of the section between tccelf_begin_file() and           *)
(* tccelf_end_file(), and that find_elf_sym() finds what it should.        *)
(***************************************************************************)
EXTENDS Integers, Sequences, FiniteSetsExt

CONSTANTS
  Name,
  ElfHashOf,   \* elf_hash(), a function from names to numbers
  MaxSyms      \* bound: symbols in the table, the null symbol apart

ASSUME HashAssumption == ElfHashOf \in [Name -> Nat] /\ MaxSyms \in Nat

VARIABLES
  syms,       \* the symbol section, null symbol apart: [name, global]
  h,          \* data of the hash section, as 32-bit words
  nhashed,    \* hs->nb_hashed_syms
  attached,   \* s->hash points to it
  base,       \* sh_offset of the symbol section, in symbols
  staged,     \* tccelf_end_file: the symbols still to be entered again
  hashed      \* history: indices of the symbols linked into a chain

hash_vars == <<syms, h, nhashed, attached, base, staged, hashed>>

Sym == [name : Name, global : BOOLEAN]

Word(t, i) == t[i + 1]     \* the i-th word, counted from 0
NBuckets(t) == Word(t, 0)
Bucket(t, n) == 2 + (ElfHashOf[n] % NBuckets(t))
ChainAt(t, i) == 2 + NBuckets(t) + i

\* Seeded bug: each bucket finds its head, the chains are lost.
Rebuilt_NoChain(ss, nb) ==
  LET last(b) == Max({0} \cup {j \in 1 .. Len(ss) :
                               ss[j].global /\ ElfHashOf[ss[j].name] % nb = b})
  IN  <<nb, Len(ss) + 1>> \o [b \in 1 .. nb |-> last(b - 1)] \o [i \in 1 .. Len(ss) + 1 |-> 0]

\* rebuild_hash(): each bucket heads the chain of the global symbols that hash
\* to it, latest first; symbol 0 and local symbols have an empty chain word.
Rebuilt(ss, nb) ==
  LET slot(i) == ElfHashOf[ss[i].name] % nb
      latest(b, i) == Max({0} \cup {j \in 1 .. i - 1 : ss[j].global /\ slot(j) = b})
  IN  <<nb, Len(ss) + 1>>
      \o [b \in 1 .. nb |-> latest(b - 1, Len(ss) + 1)]
      \o <<0>>
      \o [i \in 1 .. Len(ss) |-> IF ss[i].global THEN latest(slot(i), i) ELSE 0]

\* find_elf_sym(): walk the chain of the name's bucket.
Walk(t, ss, n) ==
  LET at[k \in 0 .. Len(ss)] ==
        IF k = 0 THEN Word(t, Bucket(t, n))
        ELSE LET i == at[k - 1] IN
             IF i = 0 \/ ss[i].name = n THEN i ELSE Word(t, ChainAt(t, i))
  IN  at[Len(ss)]

Find(n) == IF attached THEN Walk(h, syms, n) ELSE 0

\* init_symtab()
HashInit ==
  /\ syms = << >>
  /\ h = <<1, 1, 0, 0>>
  /\ nhashed = 0
  /\ attached = TRUE
  /\ base = 0
  /\ staged = << >>
  /\ hashed = {}

\* put_elf_sym(): the new chain word goes to the end of the section and takes
\* over the bucket head.
Put(s) ==
  LET i == Len(syms) + 1
      b == Bucket(h, s.name)
      linked == [Append(h, IF s.global THEN Word(h, b) ELSE 0)
                   EXCEPT ![b + 1] = IF s.global THEN i ELSE @,
                          ![2] = @ + 1]
      full == s.global /\ nhashed + 1 > 2 * NBuckets(h)
  IN
  /\ Len(syms) < MaxSyms
  /\ syms' = Append(syms, s)
  /\ IF ~ attached
     THEN UNCHANGED <<h, nhashed, hashed>>
     ELSE /\ h' = IF full THEN Rebuilt(syms', 2 * NBuckets(h)) ELSE linked
          /\ nhashed' = IF s.global THEN nhashed + 1 ELSE nhashed
          /\ hashed' = IF full THEN {j \in 1 .. i : syms'[j].global}
                       ELSE IF s.global THEN hashed \cup {i} ELSE hashed

\* The compiler, and set_elf_sym() for a local or an unknown symbol.
PutElfSym(s) ==
  /\ staged = << >>
  /\ (attached /\ s.global) => Find(s.name) = 0
  /\ Put(s)
  /\ UNCHANGED <<attached, base, staged>>

TccelfBeginFile ==
  /\ attached /\ staged = << >>
  /\ attached' = FALSE
  /\ base' = Len(syms)
  /\ UNCHANGED <<syms, h, nhashed, staged, hashed>>

\* tccelf_end_file(): the symbol section shrinks to where it was when the hash
\* section was detached.
TccelfEndFile ==
  /\ ~ attached
  /\ attached' = TRUE
  /\ staged' = SubSeq(syms, base + 1, Len(syms))
  /\ syms' = SubSeq(syms, 1, base)
  /\ UNCHANGED <<h, nhashed, base, hashed>>

\* The loop of tccelf_end_file(): set_elf_sym() enters what it does not find.
EndFileSym ==
  /\ staged # << >>
  /\ staged' = Tail(staged)
  /\ LET s == Head(staged) IN
       IF s.global /\ Find(s.name) # 0
       THEN UNCHANGED <<syms, h, nhashed, hashed>>
       ELSE Put(s)
  /\ UNCHANGED <<attached, base>>

\* set_local_sym(): the symbol becomes local where it stands, in its chain.
SetLocalSym(n) ==
  /\ attached /\ staged = << >>
  /\ Find(n) # 0
  /\ syms' = [syms EXCEPT ![Find(n)].global = FALSE]
  /\ UNCHANGED <<h, nhashed, attached, base, staged, hashed>>

HashNext ==
  \/ \E s \in Sym : PutElfSym(s)
  \/ TccelfBeginFile
  \/ TccelfEndFile
  \/ EndFileSym
  \/ \E n \in Name : SetLocalSym(n)

HashSpec == HashInit /\ [][HashNext]_hash_vars
-----------------------------------------------------------------------------
\* find_elf_sym() is exact: it returns the latest symbol of the name among
\* those in a chain, through collisions, growth and files in between.
FindExact ==
  attached =>
    \A n \in Name :
      Find(n) = Max({0} \cup {i \in hashed : syms[i].name = n})
=============================================================================
