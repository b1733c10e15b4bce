----------------------------- MODULE PartsProofs -----------------------------
(***************************************************************************)
(* Proofs about five of the smaller parts of the compiler: the hash        *)
(* section of a symbol table (ElfHash), the inline functions of a unit     *)
(* (InlineFns), the pragma stacks (Pragmas), the states of several threads *)
(* behind one semaphore (CompileState) and the allocator of token strings  *)
(* (TinyAlloc).                                                            *)
(*                                                                         *)
(* ElfHash: find_elf_sym() finds the latest linked symbol of a name.  The  *)
(* invariant says that the section has grown in step with the symbols, and *)
(* what every word of it is: the latest symbol of a bucket, or the latest  *)
(* one before the symbol that the word belongs to.                         *)
(*                                                                         *)
(* InlineFns: at the end of a unit exactly the functions needed have been  *)
(* compiled, whatever the order of declarations, definitions and uses.     *)
(* The invariant has to hold long before the end.  It says why a function  *)
(* has an ELF symbol (it is reachable from what the unit must provide),    *)
(* where a function with a body is (compiled, or once in inline_fns), what *)
(* a compiled function leaves behind for those it uses, and what a round   *)
(* of gen_inline_functions() without a hit has established.                *)
(*                                                                         *)
(* Pragmas: pop_macro brings back what the push_macro it matches has       *)
(* saved, pack(pop) the alignment before its pack(push), and the pack      *)
(* stack never overflows.  push_macro saves nothing by itself: it marks    *)
(* the definition on define_stack that is in force, and pop_macro searches *)
(* for the latest mark.  So the invariant relates the marks on             *)
(* define_stack, in their order there, to what was pushed: the same        *)
(* definitions in the same order, and none later than the one in force.    *)
(*                                                                         *)
(* CompileState: for any number of threads, calls and messages, the        *)
(* compiler's globals have one user at a time, the critical section is     *)
(* initialized once and before its first use, and every error is charged   *)
(* to the state of the thread that raised it.  Exclusive speaks of globals *)
(* and tcc_state only.  To carry it through a step one has to know which   *)
(* program points lie between acquiring and releasing the semaphore, that  *)
(* error_set_jmp_enabled is set exactly while a thread compiles (so that   *)
(* error1() releases the semaphore exactly if it was taken for the         *)
(* message), and whose state error1() remembers.  That is StateInv.        *)
(*                                                                         *)
(* TinyAlloc: for any owners, requests and arena sizes, no block of the    *)
(* token allocator is overwritten, by being cut, grown in place, moved,    *)
(* given back or cut off another block's space, and an arena knows when    *)
(* its last block is gone.  BlocksKept says what owners see.  To carry it  *)
(* through a step one has to know that blocks of an arena lie apart,       *)
(* headers included (else freeing one or cutting one would touch another), *)
(* that an arena's identity is unique in the list, and that some arena of  *)
(* the nominal size is always left (the list never runs empty, which       *)
(* tal_new() relies on).  ArenaInv says so of one arena, TalInv of all.    *)
(***************************************************************************)
EXTENDS ElfHash, InlineFns, Pragmas, CompileState, TinyAlloc, FiniteSetTheorems,
        SequenceTheorems, WellFoundedInduction, TLAPS

\* The symbols that the words of the hash section are about: while the section
\* is detached, those before the file.
Counted == IF attached THEN Len(syms) ELSE base

\* x is the latest symbol of S, 0 if there is none.
Latest(x, S) == (x = 0 /\ S = {}) \/ (x \in S /\ \A y \in S : y <= x)

\* The symbols in the chain of bucket k, of nb buckets.
Chained(ss, H, nb, k) == {j \in H : ElfHashOf[ss[j].name] % nb = k}

\* Every bucket heads the chain of its symbols, latest first.
Chains(t, ss, H) ==
  /\ \A k \in 0 .. NBuckets(t) - 1 : Latest(Word(t, 2 + k), Chained(ss, H, NBuckets(t), k))
  /\ \A i \in H :
       Latest(Word(t, ChainAt(t, i)),
              {j \in Chained(ss, H, NBuckets(t), ElfHashOf[ss[i].name] % NBuckets(t)) : j < i})

HashTypes ==
  /\ syms \in Seq(Sym) /\ staged \in Seq(Sym) /\ h \in Seq(Nat)
  /\ nhashed \in Nat /\ base \in Nat /\ attached \in BOOLEAN
  /\ hashed \subseteq 1 .. Counted /\ Counted <= Len(syms)
  /\ attached \/ staged = << >>

\* The section has grown in step with the symbols.
Sized(t, n) == NBuckets(t) \in Nat \ {0} /\ Len(t) = 3 + NBuckets(t) + n

\* The inductive invariant.
HashInv == HashTypes /\ Sized(h, Counted) /\ Chains(h, syms, hashed)
-----------------------------------------------------------------------------
\* Remainders are smaller than what is divided by.
LEMMA Remainder == \A x \in Nat, m \in Nat \ {0} : x % m \in 0 .. m - 1
OBVIOUS

\* A set of symbols that is not empty has a latest one.
LEMMA LatestOf ==
  ASSUME NEW n \in Nat, NEW I, I \subseteq 1 .. n, I # {}
  PROVE  \E s \in I : \A j \in I : j <= s
<1> DEFINE B == {x \in 0 .. n : n - x \in I}
<1>1. B \subseteq Nat /\ B # {}
  <2>1. PICK i \in I : TRUE
    OBVIOUS
  <2>2. n - i \in 0 .. n /\ n - (n - i) = i
    OBVIOUS
  <2>3. n - i \in B
    BY <2>2
  <2>4. B \subseteq Nat
    OBVIOUS
  <2> HIDE DEF B
  <2> QED
    BY <2>3, <2>4
<1>2. \E x \in B : \A y \in B : ~ (<<y, x>> \in OpToRel(<, Nat))
  BY <1>1, NatLessThanWellFounded, WFMin
<1>3. \A x, y \in B : ~ (<<y, x>> \in OpToRel(<, Nat)) => x =< y
  BY <1>1 DEF OpToRel
<1>4. PICK x \in B : \A y \in B : x =< y
  BY <1>2, <1>3
<1>5. \A j \in I : n - j \in B
  OBVIOUS
<1>6. \A j \in I : x =< n - j
  BY <1>4, <1>5
<1>7. n - x \in I /\ x \in Nat
  BY <1>4
<1> QED
  BY <1>6, <1>7

\* What Max finds among symbols.
LEMMA MaxIsLatest ==
  ASSUME NEW n \in Nat, NEW S \in SUBSET (1 .. n)
  PROVE  Max({0} \cup S) \in 0 .. n /\ Latest(Max({0} \cup S), S)
<1> DEFINE T == {0} \cup S
<1>1. \E x \in T : \A y \in T : x >= y
  <2>1. CASE S = {}
    BY <2>1
  <2>2. CASE S # {}
    <3>1. PICK s \in S : \A j \in S : j <= s
      BY <2>2, LatestOf
    <3>2. s \in T /\ \A y \in T : s >= y
      BY <3>1
    <3> QED
      BY <3>2
  <2> QED
    BY <2>1, <2>2
<1>2. Max(T) \in T /\ \A y \in T : Max(T) >= y
  BY <1>1 DEF Max
<1> HIDE DEF T
<1>3. T = {0} \cup S
  BY DEF T
<1>4. Latest(Max(T), S)
  BY <1>2, <1>3 DEF Latest
<1>5. Max(T) \in 0 .. n
  <2>1. \A x \in T : x \in 0 .. n
    BY <1>3
  <2> QED
    BY <2>1, <1>2
<1> QED
  BY <1>4, <1>5 DEF T

\* The latest of a set is what Max finds.
LEMMA LatestIsMax ==
  ASSUME NEW n \in Nat, NEW S \in SUBSET (1 .. n), NEW x, Latest(x, S)
  PROVE  x = Max({0} \cup S)
<1>1. x \in {0} \cup S /\ \A y \in {0} \cup S : x >= y
  <2>1. \A y \in S : y \in Nat
    OBVIOUS
  <2>2. CASE x = 0 /\ S = {}
    BY <2>2
  <2>3. CASE x \in S /\ \A y \in S : y <= x
    <3>1. x \in Nat
      BY <2>1, <2>3
    <3>2. \A y \in S : x >= y
      BY <2>1, <2>3, <3>1
    <3> QED
      BY <2>3, <3>1, <3>2
  <2> QED
    BY <2>2, <2>3 DEF Latest
<1>2. \A y, z \in {0} \cup S : y >= z /\ z >= y => y = z
  OBVIOUS
<1>3. Max({0} \cup S) \in {0} \cup S /\ \A y \in {0} \cup S : Max({0} \cup S) >= y
  BY <1>1 DEF Max
<1> QED
  BY <1>1, <1>2, <1>3

\* A set of numbers that holds 0 and, up to n, the successors of its members,
\* holds all up to n.
LEMMA UpTo ==
  ASSUME NEW n \in Nat, NEW S, 0 \in S, \A k \in 0 .. n : k \in S /\ k < n => k + 1 \in S
  PROVE  \A k \in 0 .. n : k \in S
<1> DEFINE F == {k \in 0 .. n : k \notin S}
<1>1. SUFFICES ASSUME F # {} PROVE FALSE
  OBVIOUS
<1>2. F \subseteq Nat
  OBVIOUS
<1>3. PICK x \in F : \A y \in F : ~ (<<y, x>> \in OpToRel(<, Nat))
  BY <1>1, <1>2, NatLessThanWellFounded, WFMin
<1>4. x # 0 /\ x - 1 \in 0 .. n /\ x - 1 < x /\ x - 1 \in Nat
  OBVIOUS
<1>5. x - 1 \notin F
  BY <1>2, <1>3, <1>4 DEF OpToRel
<1>6. x - 1 \in S /\ x - 1 < n /\ x - 1 + 1 = x
  BY <1>4, <1>5
<1> QED
  BY <1>3, <1>4, <1>6

\* c is what n rounds of a loop make of a, each round applying f.
Rounds(c, n, a, f) == c[0] = a /\ \A k \in 1 .. n : c[k] = f[c[k - 1]]

\* A loop can go round as often as it likes.
LEMMA RoundsExist ==
  ASSUME NEW n \in Nat, NEW X, NEW a \in X, NEW f \in [X -> X]
  PROVE  \E c \in [0 .. n -> X] : Rounds(c, n, a, f)
<1> DEFINE J == 0 .. n
           S == {m \in J : \E c \in [J -> X] : Rounds(c, m, a, f)}
<1>1. 0 \in S
  <2> DEFINE c == [k \in J |-> a]
  <2>1. c \in [J -> X] /\ c[0] = a
    OBVIOUS
  <2> HIDE DEF c
  <2>2. Rounds(c, 0, a, f)
    BY <2>1 DEF Rounds
  <2> QED
    BY <2>1, <2>2
<1>2. ASSUME NEW m \in 0 .. n, m \in S, m < n PROVE m + 1 \in S
  <2>1. PICK c \in [J -> X] : Rounds(c, m, a, f)
    BY <1>2
  <2> DEFINE x == f[c[m]]
             d == [c EXCEPT ![m + 1] = x]
  <2>2. x \in X /\ m + 1 \in J
    BY <1>2
  <2> HIDE DEF x
  <2>3. d \in [J -> X] /\ d[m + 1] = x /\ \A k \in 0 .. m : d[k] = c[k]
    BY <2>2, <1>2
  <2> HIDE DEF d
  <2>4. ASSUME NEW k \in 1 .. m + 1 PROVE d[k] = f[d[k - 1]]
    <3>1. k - 1 \in 0 .. m /\ d[k - 1] = c[k - 1]
      BY <2>3
    <3>2. CASE k = m + 1
      <4>1. k - 1 = m
        BY <3>2
      <4> QED
        BY <3>1, <3>2, <4>1, <2>3 DEF x
    <3>3. CASE k # m + 1
      <4>1. k \in 1 .. m /\ k \in 0 .. m
        BY <3>3
      <4> QED
        BY <3>1, <4>1, <2>1, <2>3 DEF Rounds
    <3> QED
      BY <3>2, <3>3
  <2>5. d[0] = a
    BY <2>1, <2>3 DEF Rounds
  <2>6. Rounds(d, m + 1, a, f)
    BY <2>4, <2>5 DEF Rounds
  <2> QED
    BY <2>2, <2>3, <2>6
<1>3. n \in S
  <2> HIDE DEF S
  <2>1. \A k \in 0 .. n : k \in S
    BY <1>1, <1>2, UpTo
  <2> QED
    BY <2>1
<1> QED
  BY <1>3
-----------------------------------------------------------------------------
\* One round of find_elf_sym()'s loop.
Further(t, ss, n, i) == IF i = 0 \/ ss[i].name = n THEN i ELSE Word(t, ChainAt(t, i))

\* find_elf_sym() is as many rounds as there are symbols, if its loop stays in X.
LEMMA WalkIs ==
  ASSUME NEW t, NEW ss, NEW n, Len(ss) \in Nat, NEW X,
         Word(t, Bucket(t, n)) \in X, \A i \in X : Further(t, ss, n, i) \in X
  PROVE  \E c \in [0 .. Len(ss) -> X] :
           /\ c[0] = Word(t, Bucket(t, n))
           /\ \A k \in 1 .. Len(ss) : c[k] = Further(t, ss, n, c[k - 1])
           /\ Walk(t, ss, n) = c[Len(ss)]
<1> DEFINE L == Len(ss)
           f == [i \in X |-> Further(t, ss, n, i)]
           Rec(c) == c = [k \in 0 .. L |->
                            IF k = 0 THEN Word(t, Bucket(t, n))
                            ELSE LET i == c[k - 1] IN
                                 IF i = 0 \/ ss[i].name = n THEN i ELSE Word(t, ChainAt(t, i))]
           c == CHOOSE c : Rec(c)
<1>1. f \in [X -> X]
  OBVIOUS
<1>2. \E d : Rec(d)
  <2> HIDE DEF f
  <2>1. PICK d \in [0 .. L -> X] : Rounds(d, L, Word(t, Bucket(t, n)), f)
    BY <1>1, RoundsExist
  <2>2. d = [k \in 0 .. L |-> d[k]]
    BY <2>1
  <2>3. ASSUME NEW k \in 0 .. L
        PROVE  d[k] = IF k = 0 THEN Word(t, Bucket(t, n)) ELSE Further(t, ss, n, d[k - 1])
    <3>1. CASE k = 0
      BY <3>1, <2>1 DEF Rounds
    <3>2. CASE k # 0
      <4>1. k \in 1 .. L /\ k - 1 \in 0 .. L
        BY <3>2
      <4>2. d[k] = f[d[k - 1]] /\ d[k - 1] \in X
        BY <4>1, <2>1 DEF Rounds
      <4> QED
        BY <3>2, <4>2 DEF f
    <3> QED
      BY <3>1, <3>2
  <2>4. Rec(d)
    BY <2>2, <2>3 DEF Further
  <2> QED
    BY <2>4
<1>3. Rec(c)
  BY <1>2, Zenon
<1>4. Walk(t, ss, n) = c[L]
  BY DEF Walk
<1> HIDE DEF c
<1>5. \A k \in 0 .. L : c[k] = IF k = 0 THEN Word(t, Bucket(t, n)) ELSE Further(t, ss, n, c[k - 1])
  BY <1>3 DEF Further
<1>6. c[0] = Word(t, Bucket(t, n)) /\ \A k \in 1 .. L : c[k] = Further(t, ss, n, c[k - 1])
  <2>1. 0 \in 0 .. L /\ \A k \in 1 .. L : k \in 0 .. L /\ k # 0
    OBVIOUS
  <2> QED
    BY <2>1, <1>5
<1>7. c \in [0 .. L -> X]
  <2> DEFINE S == {k \in 0 .. L : c[k] \in X}
  <2>1. 0 \in S
    BY <1>6
  <2>2. ASSUME NEW k \in 0 .. L, k \in S, k < L PROVE k + 1 \in S
    <3>1. k + 1 \in 1 .. L /\ k + 1 - 1 = k
      BY <2>2
    <3>2. c[k + 1] = Further(t, ss, n, c[k])
      BY <3>1, <1>6
    <3> QED
      BY <2>2, <3>1, <3>2
  <2> HIDE DEF S
  <2>3. \A k \in 0 .. L : k \in S
    BY <2>1, <2>2, UpTo
  <2>4. \A k \in 0 .. L : c[k] \in X
    BY <2>3 DEF S
  <2> QED
    BY <2>4, <1>3
<1> QED
  BY <1>4, <1>6, <1>7

\* find_elf_sym() finds the latest symbol of the name, if the chains are right.
LEMMA WalkFinds ==
  ASSUME HashAssumption, NEW t \in Seq(Nat), NEW ss \in Seq(Sym), NEW H \in SUBSET (1 .. Len(ss)),
         Sized(t, Len(ss)), Chains(t, ss, H), NEW n \in Name
  PROVE  Latest(Walk(t, ss, n), {i \in H : ss[i].name = n})
<1> DEFINE nb == NBuckets(t)
           b == ElfHashOf[n] % nb
           C == Chained(ss, H, nb, b)
           X == {0} \cup C
           Same == {i \in H : ss[i].name = n}
<1>1. nb \in Nat \ {0} /\ b \in 0 .. nb - 1
  BY Remainder, HashAssumption DEF Sized
<1>2. Same \subseteq C /\ C \subseteq H /\ H \subseteq 1 .. Len(ss) /\ Len(ss) \in Nat
  BY DEF Chained
<1>3. Latest(Word(t, Bucket(t, n)), C)
  BY <1>1 DEF Chains, Bucket
<1>4. ASSUME NEW i \in C PROVE Latest(Word(t, ChainAt(t, i)), {j \in C : j < i})
  <2>1. i \in H /\ ElfHashOf[ss[i].name] % nb = b
    BY DEF Chained
  <2> HIDE DEF b
  <2> QED
    BY <2>1 DEF Chains
<1> HIDE DEF nb, b, C
<1>5. Word(t, Bucket(t, n)) \in X /\ \A i \in X : Further(t, ss, n, i) \in X
  <2>1. Word(t, Bucket(t, n)) \in X
    BY <1>3 DEF Latest
  <2>2. \A i \in C : Word(t, ChainAt(t, i)) \in X
    BY <1>4 DEF Latest
  <2> QED
    BY <2>1, <2>2 DEF Further
<1>6. /\ X \subseteq 0 .. Len(ss) /\ X \subseteq Nat /\ 0 \notin C
      /\ \A i \in X : i = 0 \/ i \in C
  BY <1>2
<1>7. \A i \in C : i \in Same <=> ss[i].name = n
  BY <1>2
<1> HIDE DEF X, Same
<1>8. PICK c \in [0 .. Len(ss) -> X] :
        /\ c[0] = Word(t, Bucket(t, n))
        /\ \A k \in 1 .. Len(ss) : c[k] = Further(t, ss, n, c[k - 1])
        /\ Walk(t, ss, n) = c[Len(ss)]
  BY SMTT(30), <1>2, <1>5, WalkIs
<1>9. ASSUME NEW k \in 0 .. Len(ss) PROVE c[k] \in X /\ c[k] \in Nat /\ c[k] <= Len(ss)
  <2>1. c[k] \in X
    OBVIOUS
  <2>2. c[k] \in 0 .. Len(ss)
    BY <2>1, <1>6
  <2> QED
    BY <2>1, <2>2, <1>2
<1> DEFINE Right(k) == /\ \A s \in Same : s <= c[k]
                       /\ c[k] \in Same \/ c[k] <= Len(ss) - k
           S == {k \in 0 .. Len(ss) : Right(k)}
<1>10. 0 \in S
  <2>1. Latest(c[0], C)
    BY <1>3, <1>8
  <2>2. 0 \in 0 .. Len(ss)
    BY <1>2
  <2>3. \A s \in Same : s <= c[0]
    BY <1>2, <2>1 DEF Latest
  <2>4. c[0] <= Len(ss) - 0
    BY <1>2, <1>9, <2>2
  <2> QED
    BY <2>2, <2>3, <2>4
<1>11. ASSUME NEW k \in 0 .. Len(ss), k \in S, k < Len(ss) PROVE k + 1 \in S
  <2>1. k + 1 \in 1 .. Len(ss) /\ k + 1 - 1 = k /\ k + 1 \in 0 .. Len(ss)
    BY <1>11, <1>2
  <2>2. c[k + 1] = Further(t, ss, n, c[k])
    BY <2>1, <1>8
  <2>3. Right(k) /\ c[k] \in X /\ c[k] \in Nat /\ c[k + 1] \in Nat
    BY <2>1, <1>9, <1>11
  <2> DEFINE x == c[k]  y == c[k + 1]
  <2> HIDE DEF x, y
  <2>4. /\ \A s \in Same : s <= x
        /\ x \in Same \/ x <= Len(ss) - k
        /\ x \in X /\ x \in Nat /\ y \in Nat /\ y = Further(t, ss, n, x)
    BY <2>2, <2>3 DEF x, y
  <2>5. (\A s \in Same : s <= y) /\ (y \in Same \/ y <= Len(ss) - (k + 1))
    <3>1. CASE x = 0
      <4>1. y = 0
        BY <2>4, <3>1 DEF Further
      <4> QED
        BY <4>1, <2>1, <2>4, <3>1, <1>2
    <3>2. CASE x # 0 /\ ss[x].name = n
      <4>1. y = x /\ x \in Same
        BY <2>4, <3>2, <1>6, <1>7 DEF Further
      <4> QED
        BY <4>1, <2>4
    <3>3. CASE x # 0 /\ ss[x].name # n
      <4>1. y = Word(t, ChainAt(t, x)) /\ x \in C /\ x \notin Same
        BY <2>4, <3>3, <1>6, <1>7 DEF Further
      <4>2. Latest(y, {j \in C : j < x})
        BY <4>1, <1>4
      <4>3. y < x
        BY <3>3, <4>2, <2>4 DEF Latest
      <4>4. y <= Len(ss) - (k + 1)
        BY <4>1, <4>3, <2>4, <1>2
      <4>5. ASSUME NEW s \in Same PROVE s <= y
        <5>1. s \in C /\ s <= x /\ s # x /\ s \in Nat
          BY <2>4, <4>1, <1>2
        <5>2. s \in {j \in C : j < x}
          BY <5>1, <2>4
        <5> QED
          BY <4>2, <5>2 DEF Latest
      <4> QED
        BY <4>4, <4>5
    <3> QED
      BY <3>1, <3>2, <3>3
  <2> QED
    BY <2>1, <2>5 DEF y
<1> HIDE DEF S
<1>12. \A k \in 0 .. Len(ss) : k \in S
  BY <1>2, <1>10, <1>11, UpTo
<1>13. Len(ss) \in 0 .. Len(ss) /\ Len(ss) - Len(ss) = 0
  BY <1>2
<1>14. Right(Len(ss)) /\ c[Len(ss)] \in Nat
  BY <1>9, <1>12, <1>13 DEF S
<1> DEFINE x == c[Len(ss)]
<1> HIDE DEF x
<1>15. /\ \A s \in Same : s <= x
       /\ x \in Same \/ x <= 0
       /\ x \in Nat /\ x = Walk(t, ss, n)
  BY <1>8, <1>13, <1>14 DEF x
<1>16. \A s \in Same : s \in Nat /\ s # 0
  BY <1>2
<1>17. Latest(x, Same)
  BY <1>15, <1>16 DEF Latest
<1> QED
  BY <1>15, <1>17 DEF Same
-----------------------------------------------------------------------------
\* The words of a hash section to which put_elf_sym() adds the word w for a new
\* symbol i, in bucket b + 1.
Added(t, b, w, i, t2) ==
  /\ t2 \in Seq(Nat) /\ Len(t2) = Len(t) + 1 /\ t2[Len(t) + 1] = w
  /\ t2[1] = t[1] /\ t2[b + 1] = i
  /\ \A j \in 3 .. Len(t) : j # b + 1 => t2[j] = t[j]

\* y is u with word p changed to i and the symbol count grown by one.
OneMore(u, p, i, y) == y = [u EXCEPT ![p] = i, ![2] = @ + 1]

\* Two words change and no other.
LEMMA TwoWords ==
  ASSUME NEW u \in Seq(Nat), NEW p \in 3 .. Len(u), NEW i \in Nat,
         NEW y, OneMore(u, p, i, y)
  PROVE  /\ y \in Seq(Nat) /\ Len(y) = Len(u) /\ y[p] = i
         /\ \A j \in 1 .. Len(u) : j # p /\ j # 2 => y[j] = u[j]
<1>1. DOMAIN u = 1 .. Len(u) /\ Len(u) \in Nat /\ 2 \in 1 .. Len(u) /\ p \in 1 .. Len(u) /\ p # 2
  OBVIOUS
<1>2. \A j \in 1 .. Len(u) : u[j] \in Nat
  OBVIOUS
<1>3. DOMAIN y = 1 .. Len(u)
  BY <1>1 DEF OneMore
<1>4. \A j \in 1 .. Len(u) : j # p /\ j # 2 => y[j] = u[j]
  BY <1>1 DEF OneMore
<1>5. y[p] = i
  BY <1>1 DEF OneMore
<1>6. y[2] = u[2] + 1
  BY <1>1 DEF OneMore
<1>7. \A j \in 1 .. Len(u) : y[j] \in Nat
  BY <1>1, <1>2, <1>4, <1>5, <1>6
<1>8. y = [j \in 1 .. Len(u) |-> y[j]]
  BY <1>1 DEF OneMore
<1>9. y \in Seq(Nat) /\ Len(y) = Len(u)
  BY <1>1, <1>7, <1>8
<1> QED
  BY <1>4, <1>5, <1>9

\* What put_elf_sym() does to the words.
LEMMA AddedIs ==
  ASSUME NEW t \in Seq(Nat), NEW b \in Nat, b >= 2, b + 1 <= Len(t), NEW w \in Nat, NEW i \in Nat,
         NEW t2, OneMore(Append(t, w), b + 1, i, t2)
  PROVE  Added(t, b, w, i, t2)
<1> DEFINE u == Append(t, w)
<1>1. u \in Seq(Nat) /\ Len(u) = Len(t) + 1 /\ u[Len(t) + 1] = w /\ \A j \in 1 .. Len(t) : u[j] = t[j]
  OBVIOUS
<1>2. b + 1 \in 3 .. Len(u) /\ Len(t) \in Nat
  BY <1>1
<1>3. OneMore(u, b + 1, i, t2)
  OBVIOUS
<1> HIDE DEF u
<1>4. /\ t2 \in Seq(Nat) /\ Len(t2) = Len(u) /\ t2[b + 1] = i
      /\ \A j \in 1 .. Len(u) : j # b + 1 /\ j # 2 => t2[j] = u[j]
  <2> DEFINE p == b + 1
  <2>1. p \in 3 .. Len(u) /\ OneMore(u, p, i, t2)
    BY <1>2, <1>3
  <2> HIDE DEF p
  <2>2. /\ t2 \in Seq(Nat) /\ Len(t2) = Len(u) /\ t2[p] = i
        /\ \A j \in 1 .. Len(u) : j # p /\ j # 2 => t2[j] = u[j]
    <3>1. u \in Seq(Nat)
      BY <1>1
    <3>2. \A uu \in Seq(Nat) : \A pp \in 3 .. Len(uu) : \A ii \in Nat : \A yy :
            OneMore(uu, pp, ii, yy) =>
               /\ yy \in Seq(Nat) /\ Len(yy) = Len(uu) /\ yy[pp] = ii
               /\ \A j \in 1 .. Len(uu) : j # pp /\ j # 2 => yy[j] = uu[j]
      BY TwoWords
    <3>3. p \in 3 .. Len(u) /\ OneMore(u, p, i, t2)
      BY <2>1
    <3> QED
      BY <3>1, <3>2, <3>3
  <2> QED
    BY <2>2 DEF p
<1>5. /\ 1 \in 1 .. Len(u) /\ Len(t) + 1 \in 1 .. Len(u) /\ Len(t) + 1 # 2 /\ Len(t) + 1 # b + 1
      /\ b + 1 # 1 /\ 1 \in 1 .. Len(t)
  <2> DEFINE n == Len(t)  m == Len(u)
  <2>1. n \in Nat /\ m = n + 1 /\ b + 1 \in 3 .. m /\ b + 1 <= n
    BY <1>1, <1>2
  <2> HIDE DEF n, m
  <2>2. /\ 1 \in 1 .. m /\ n + 1 \in 1 .. m /\ n + 1 # 2 /\ n + 1 # b + 1 /\ b + 1 # 1 /\ 1 \in 1 .. n
    BY <2>1
  <2> QED
    BY <2>2 DEF n, m
<1>6. \A j \in 3 .. Len(t) : j \in 1 .. Len(u) /\ j \in 1 .. Len(t) /\ j # 2
  BY <1>1, <1>2
<1>7. t2[1] = t[1]
  <2>1. 1 # b + 1 /\ 1 # 2
    BY <1>5
  <2> QED
    BY <2>1, <1>1, <1>4, <1>5
<1>8. t2[Len(t) + 1] = w
  BY <1>1, <1>4, <1>5
<1>9. \A j \in 3 .. Len(t) : j # b + 1 => t2[j] = t[j]
  BY <1>1, <1>4, <1>6
<1> QED
  BY <1>1, <1>4, <1>7, <1>8, <1>9 DEF Added

\* Where the words of buckets and chains are.
LEMMA WordsAt ==
  ASSUME HashAssumption, NEW t \in Seq(Nat), NEW n \in Nat, Sized(t, n)
  PROVE  /\ \A k \in 0 .. NBuckets(t) - 1 : 2 + k + 1 \in 3 .. Len(t) /\ 2 + k + 1 <= 2 + NBuckets(t)
         /\ \A i \in 1 .. n : /\ ChainAt(t, i) + 1 \in 3 .. Len(t)
                              /\ ChainAt(t, i) + 1 > 2 + NBuckets(t)
         /\ ChainAt(t, n + 1) + 1 = Len(t) + 1
         /\ \A v \in Name : ElfHashOf[v] % NBuckets(t) \in 0 .. NBuckets(t) - 1
<1> DEFINE nb == NBuckets(t)
<1>1. nb \in Nat \ {0} /\ Len(t) = 3 + nb + n
  BY DEF Sized
<1>2. \A v \in Name : ElfHashOf[v] % nb \in 0 .. nb - 1
  BY <1>1, Remainder, HashAssumption
<1> HIDE DEF nb
<1>3. \A k \in 0 .. nb - 1 : 2 + k + 1 \in 3 .. Len(t) /\ 2 + k + 1 <= 2 + nb
  BY <1>1
<1>4. \A i \in 1 .. n : 2 + nb + i + 1 \in 3 .. Len(t) /\ 2 + nb + i + 1 > 2 + nb
  BY <1>1
<1>5. 2 + nb + (n + 1) + 1 = Len(t) + 1
  BY <1>1
<1> QED
  BY <1>2, <1>3, <1>4, <1>5 DEF ChainAt, nb

\* A global symbol becomes the head of its bucket's chain.
LEMMA LinkedChains ==
  ASSUME HashAssumption, NEW t \in Seq(Nat), NEW ss \in Seq(Sym), NEW H \in SUBSET (1 .. Len(ss)),
         Sized(t, Len(ss)), Chains(t, ss, H), NEW s \in Sym,
         NEW t2, Added(t, Bucket(t, s.name), Word(t, Bucket(t, s.name)), Len(ss) + 1, t2),
         NEW ss2, ss2 = Append(ss, s)
  PROVE  Sized(t2, Len(ss) + 1) /\ Chains(t2, ss2, H \cup {Len(ss) + 1})
<1> DEFINE nb == NBuckets(t)  i == Len(ss) + 1  d == ElfHashOf[s.name] % nb  H2 == H \cup {i}
<1>1. /\ nb \in Nat \ {0} /\ Len(ss) \in Nat /\ Len(t) = 3 + nb + Len(ss) /\ s.name \in Name
      /\ i \notin H /\ \A j \in H : j \in 1 .. Len(ss) /\ j < i
  BY DEF Sized, Sym
<1>2. NBuckets(t2) = nb /\ Sized(t2, i)
  <2>1. t2[1] = t[1] /\ Len(t2) = Len(t) + 1
    BY DEF Added
  <2>2. NBuckets(t2) = nb
    BY <2>1 DEF NBuckets, Word
  <2>3. Len(t2) = 3 + nb + (Len(ss) + 1)
    BY <1>1, <2>1
  <2> QED
    BY <1>1, <2>2, <2>3 DEF Sized
<1>3. /\ \A k \in 0 .. nb - 1 : 2 + k + 1 \in 3 .. Len(t) /\ 2 + k + 1 <= 2 + nb
      /\ \A j \in 1 .. Len(ss) : 2 + nb + j + 1 \in 3 .. Len(t) /\ 2 + nb + j + 1 > 2 + nb
      /\ 2 + nb + i + 1 = Len(t) + 1
      /\ d \in 0 .. nb - 1
  BY <1>1, WordsAt DEF ChainAt
<1>4. ss2[i] = s /\ \A j \in H : ss2[j] = ss[j]
  <2>1. ss2[Len(ss) + 1] = s /\ \A j \in 1 .. Len(ss) : ss2[j] = ss[j]
    OBVIOUS
  <2> QED
    BY <1>1, <2>1
<1>5. Bucket(t, s.name) = 2 + d
  BY DEF Bucket
<1> HIDE DEF nb, i, d
<1>6. /\ t2[2 + d + 1] = i /\ t2[2 + nb + i + 1] = t[2 + d + 1]
      /\ \A j \in 3 .. Len(t) : j # 2 + d + 1 => t2[j] = t[j]
  BY <1>3, <1>5 DEF Added, Word, i
<1>7. \A k : \A j : j \in Chained(ss2, H2, nb, k) <=> j \in Chained(ss, H, nb, k) \/ (j = i /\ k = d)
  BY <1>4 DEF Chained, d
<1>8. /\ \A k \in 0 .. nb - 1 : Latest(t[2 + k + 1], Chained(ss, H, nb, k))
      /\ \A j \in H : Latest(t[2 + nb + j + 1],
                             {x \in Chained(ss, H, nb, ElfHashOf[ss[j].name] % nb) : x < j})
  BY DEF Chains, Word, ChainAt, nb
<1>9. \A k : Chained(ss, H, nb, k) \subseteq H
  BY DEF Chained
<1>10. i \in Nat /\ d \in Nat /\ nb \in Nat /\ i \in H2 /\ H \subseteq Nat
  BY <1>1, <1>3 DEF i
<1>14. \A j \in H2 : j \in H \/ j = i
  OBVIOUS
<1> HIDE DEF H2
<1>11. ASSUME NEW k \in 0 .. nb - 1 PROVE Latest(t2[2 + k + 1], Chained(ss2, H2, nb, k))
  <2>1. CASE k = d
    <3>1. i \in Chained(ss2, H2, nb, k)
      BY <2>1, <1>7
    <3>2. \A y \in Chained(ss2, H2, nb, k) : y \in H \/ y = i
      BY <1>7, <1>9
    <3>4. \A y \in H : y < i /\ y \in Nat
      BY <1>1, <1>10
    <3>5. \A y \in H : y <= i
      BY <3>4, <1>10
    <3>6. i <= i
      BY <1>10
    <3>3. \A y \in Chained(ss2, H2, nb, k) : y <= i
      BY <3>2, <3>5, <3>6
    <3> QED
      BY <3>1, <3>3, <2>1, <1>6 DEF Latest
  <2>2. CASE k # d
    <3>3. 2 + k + 1 \in 3 .. Len(t)
      BY <1>3
    <3>4. 2 + k + 1 # 2 + d + 1
      BY <2>2, <1>10
    <3>1. t2[2 + k + 1] = t[2 + k + 1]
      BY <3>3, <3>4, <1>6
    <3>2. Chained(ss2, H2, nb, k) = Chained(ss, H, nb, k)
      <4> DEFINE A == Chained(ss2, H2, nb, k)  B == Chained(ss, H, nb, k)
      <4>1. \A x : x \in A <=> x \in B
        BY <2>2, <1>7
      <4> HIDE DEF A, B
      <4> QED
        BY <4>1 DEF A, B
    <3> QED
      BY <3>1, <3>2, <1>8
  <2> QED
    BY <2>1, <2>2
<1>12. ASSUME NEW j \in H2
       PROVE  Latest(t2[2 + nb + j + 1],
                     {x \in Chained(ss2, H2, nb, ElfHashOf[ss2[j].name] % nb) : x < j})
  <2>1. CASE j = i
    <3>1. ElfHashOf[ss2[j].name] % nb = d
      BY <2>1, <1>4 DEF d
    <3>2. {x \in Chained(ss2, H2, nb, d) : x < i} = Chained(ss, H, nb, d)
      <4> DEFINE A == Chained(ss2, H2, nb, d)  B == Chained(ss, H, nb, d)
      <4>1. \A x : x \in A <=> x \in B \/ x = i
        BY <1>7
      <4>2. \A x \in B : x < i
        BY <1>1, <1>9
      <4>3. ~ (i < i)
        BY <1>10
      <4> HIDE DEF A, B
      <4>4. \A x : x \in A /\ x < i <=> x \in B
        BY <4>1, <4>2, <4>3
      <4>5. {x \in A : x < i} = B
        BY <4>4
      <4> QED
        BY <4>5 DEF A, B
    <3>3. t2[2 + nb + i + 1] = t[2 + d + 1] /\ Latest(t[2 + d + 1], Chained(ss, H, nb, d))
      BY <1>3, <1>6, <1>8
    <3> QED
      BY <2>1, <3>1, <3>2, <3>3
  <2>2. CASE j # i
    <3>1. j \in H /\ ss2[j] = ss[j] /\ j < i /\ j \in 1 .. Len(ss) /\ j \in Nat
      BY <2>2, <1>1, <1>4, <1>14, <1>10
    <3>5. 2 + nb + j + 1 \in 3 .. Len(t) /\ 2 + nb + j + 1 > 2 + nb
      BY <3>1, <1>3
    <3>6. 2 + nb + j + 1 # 2 + d + 1
      BY <3>1, <1>10, <1>3
    <3>2. t2[2 + nb + j + 1] = t[2 + nb + j + 1]
      BY <3>5, <3>6, <1>6
    <3> DEFINE k == ElfHashOf[ss[j].name] % nb
    <3> HIDE DEF k
    <3>3. {x \in Chained(ss2, H2, nb, k) : x < j} = {x \in Chained(ss, H, nb, k) : x < j}
      <4> DEFINE A == Chained(ss2, H2, nb, k)  B == Chained(ss, H, nb, k)
      <4>1. \A x : x \in A => x \in B \/ x = i
        BY <1>7
      <4>2. \A x : x \in B => x \in A
        BY <1>7
      <4>3. ~ (i < j)
        BY <1>10, <3>1
      <4> HIDE DEF A, B
      <4>4. \A x : x \in A /\ x < j <=> x \in B /\ x < j
        BY <4>1, <4>2, <4>3
      <4>5. {x \in A : x < j} = {x \in B : x < j}
        BY <4>4
      <4> QED
        BY <4>5 DEF A, B
    <3>4. Latest(t[2 + nb + j + 1], {x \in Chained(ss, H, nb, k) : x < j})
      BY <3>1, <1>8 DEF k
    <3> QED
      BY <3>1, <3>2, <3>3, <3>4 DEF k
  <2> QED
    BY <2>1, <2>2
<1>15. Chains(t2, ss2, H2)
  BY <1>2, <1>11, <1>12 DEF Chains, Word, ChainAt
<1> QED
  BY <1>2, <1>15 DEF i, H2

\* A local symbol is in no chain.
LEMMA UnlinkedChains ==
  ASSUME HashAssumption, NEW t \in Seq(Nat), NEW ss \in Seq(Sym), NEW H \in SUBSET (1 .. Len(ss)),
         Sized(t, Len(ss)), Chains(t, ss, H), NEW s \in Sym,
         NEW t2, Added(t, Bucket(t, s.name), 0, t[Bucket(t, s.name) + 1], t2),
         NEW ss2, ss2 = Append(ss, s)
  PROVE  Sized(t2, Len(ss) + 1) /\ Chains(t2, ss2, H)
<1> DEFINE nb == NBuckets(t)
<1>1. nb \in Nat \ {0} /\ Len(ss) \in Nat /\ Len(t) = 3 + nb + Len(ss)
  BY DEF Sized
<1>2. NBuckets(t2) = nb /\ Sized(t2, Len(ss) + 1)
  <2>1. t2[1] = t[1] /\ Len(t2) = Len(t) + 1
    BY DEF Added
  <2>2. NBuckets(t2) = nb
    BY <2>1 DEF NBuckets, Word
  <2>3. Len(t2) = 3 + nb + (Len(ss) + 1)
    BY <1>1, <2>1
  <2> QED
    BY <1>1, <2>2, <2>3 DEF Sized
<1>3. \A j \in 3 .. Len(t) : t2[j] = t[j]
  BY DEF Added
<1>4. \A j \in H : ss2[j] = ss[j]
  <2>1. \A j \in 1 .. Len(ss) : ss2[j] = ss[j]
    OBVIOUS
  <2> QED
    BY <2>1
<1>5. \A k : Chained(ss2, H, nb, k) = Chained(ss, H, nb, k)
  BY <1>4 DEF Chained
<1>6. /\ \A k \in 0 .. nb - 1 : t2[2 + k + 1] = t[2 + k + 1]
      /\ \A j \in H : t2[2 + nb + j + 1] = t[2 + nb + j + 1]
  <2>1. /\ \A k \in 0 .. nb - 1 : 2 + k + 1 \in 3 .. Len(t)
        /\ \A j \in 1 .. Len(ss) : 2 + nb + j + 1 \in 3 .. Len(t)
    BY <1>1, WordsAt DEF ChainAt
  <2> HIDE DEF nb
  <2>2. \A j \in H : 2 + nb + j + 1 \in 3 .. Len(t)
    BY <2>1
  <2> QED
    BY <2>1, <2>2, <1>3
<1>7. /\ \A k \in 0 .. nb - 1 : Latest(t[2 + k + 1], Chained(ss, H, nb, k))
      /\ \A j \in H : Latest(t[2 + nb + j + 1],
                             {x \in Chained(ss, H, nb, ElfHashOf[ss[j].name] % nb) : x < j})
  BY DEF Chains, Word, ChainAt, nb
<1> HIDE DEF nb
<1>8. Chains(t2, ss2, H)
  BY <1>2, <1>4, <1>5, <1>6, <1>7 DEF Chains, Word, ChainAt
<1> QED
  BY <1>2, <1>8

\* The global symbols before i that hash to bucket k.
Before(ss, nb, k, i) == {j \in 1 .. i - 1 : ss[j].global /\ ElfHashOf[ss[j].name] % nb = k}

\* Where the words of two sequences are in their concatenation.
LEMMA TwoParts ==
  ASSUME NEW p \in Seq(Nat), NEW B \in Seq(Nat), NEW m \in Nat, Len(p) = m
  PROVE  /\ p \o B \in Seq(Nat) /\ Len(p \o B) = m + Len(B)
         /\ \A k \in 1 .. m : (p \o B)[k] = p[k]
         /\ \A k \in 1 .. Len(B) : (p \o B)[m + k] = B[k]
<1>2. /\ p \o B \in Seq(Nat) /\ Len(p \o B) = Len(p) + Len(B)
      /\ \A i \in 1 .. Len(p) + Len(B) : (p \o B)[i] = IF i <= Len(p) THEN p[i] ELSE B[i - Len(p)]
  BY ConcatProperties
<1> DEFINE q == p \o B
<1> HIDE DEF q
<1>3. \A i \in 1 .. Len(p) + Len(B) : q[i] = IF i <= Len(p) THEN p[i] ELSE B[i - Len(p)]
  BY <1>2 DEF q
<1>4. Len(p) \in Nat /\ Len(B) \in Nat
  OBVIOUS
<1>5. ASSUME NEW k \in 1 .. m PROVE q[k] = p[k]
  <2>1. k \in 1 .. m + Len(B) /\ k <= m
    BY <1>4
  <2> QED
    BY <2>1, <1>3
<1>6. ASSUME NEW k \in 1 .. Len(B) PROVE q[m + k] = B[k]
  <2>1. m + k \in 1 .. m + Len(B) /\ ~ (m + k <= m) /\ m + k - m = k
    BY <1>4
  <2> QED
    BY <2>1, <1>3
<1> QED
  BY <1>2, <1>5, <1>6 DEF q

\* A hash section of two words, the bucket heads B, and the chain words C.
FourOf(t, x, y, B, C) == t = <<x, y>> \o B \o <<0>> \o C

\* Where the words of its parts are.
LEMMA FourParts ==
  ASSUME NEW B \in Seq(Nat), NEW C \in Seq(Nat), NEW x \in Nat, NEW y \in Nat,
         NEW t, FourOf(t, x, y, B, C)
  PROVE  /\ t \in Seq(Nat) /\ Len(t) = 3 + Len(B) + Len(C) /\ t[1] = x
         /\ \A k \in 1 .. Len(B) : t[2 + k] = B[k]
         /\ \A i \in 1 .. Len(C) : t[3 + Len(B) + i] = C[i]
<1> DEFINE p == <<x, y>>  q == p \o B  r == q \o <<0>>
<1>8. t = r \o C
  BY DEF FourOf
<1>1. p \in Seq(Nat) /\ Len(p) = 2 /\ p[1] = x
  OBVIOUS
<1>2. Len(B) \in Nat /\ Len(C) \in Nat
  OBVIOUS
<1> HIDE DEF p
<1>3. q \in Seq(Nat) /\ Len(q) = 2 + Len(B) /\ q[1] = x /\ \A k \in 1 .. Len(B) : q[2 + k] = B[k]
  <2>1. /\ q \in Seq(Nat) /\ Len(q) = 2 + Len(B)
        /\ \A k \in 1 .. 2 : q[k] = p[k]
        /\ \A k \in 1 .. Len(B) : q[2 + k] = B[k]
    <3> DEFINE m == 2
    <3>1. m \in Nat /\ Len(p) = m
      BY <1>1
    <3> HIDE DEF m
    <3>2. /\ q \in Seq(Nat) /\ Len(q) = m + Len(B)
          /\ \A k \in 1 .. m : q[k] = p[k]
          /\ \A k \in 1 .. Len(B) : q[m + k] = B[k]
      BY <1>1, <3>1, TwoParts
    <3> HIDE DEF q
    <3> QED
      BY <3>2 DEF m
  <2> HIDE DEF q
  <2> QED
    BY <2>1, <1>1
<1> HIDE DEF q
<1>4. /\ r \in Seq(Nat)
      /\ Len(r) = 3 + Len(B) /\ r[1] = x
      /\ \A k \in 1 .. Len(B) : r[2 + k] = B[k]
  <2>1. r \in Seq(Nat) /\ Len(r) = Len(q) + 1 /\ \A k \in 1 .. Len(q) : r[k] = q[k]
    BY <1>3
  <2> HIDE DEF r
  <2>2. 1 \in 1 .. Len(q) /\ \A k \in 1 .. Len(B) : 2 + k \in 1 .. Len(q)
    BY <1>2, <1>3
  <2>3. Len(r) = 3 + Len(B)
    BY <2>1, <1>2, <1>3
  <2>4. r[1] = x
    BY <2>1, <2>2, <1>3
  <2>5. ASSUME NEW k \in 1 .. Len(B) PROVE r[2 + k] = B[k]
    <3>1. 2 + k \in 1 .. Len(q) /\ q[2 + k] = B[k]
      BY <2>2, <1>3
    <3> QED
      BY <3>1, <2>1
  <2> QED
    BY <2>1, <2>3, <2>4, <2>5
<1> HIDE DEF r
<1>5. /\ t \in Seq(Nat) /\ Len(t) = 3 + Len(B) + Len(C)
      /\ \A k \in 1 .. Len(r) : t[k] = r[k]
      /\ \A i \in 1 .. Len(C) : t[3 + Len(B) + i] = C[i]
  <2> DEFINE m == 3 + Len(B)
  <2>1. m \in Nat /\ Len(r) = m
    BY <1>2, <1>4
  <2> HIDE DEF m
  <2> DEFINE T == r \o C
  <2>2. /\ T \in Seq(Nat) /\ Len(T) = m + Len(C)
        /\ \A k \in 1 .. m : T[k] = r[k]
        /\ \A i \in 1 .. Len(C) : T[m + i] = C[i]
    BY <1>4, <2>1, TwoParts
  <2>3. T = t
    BY <1>8
  <2> HIDE DEF T
  <2> QED
    BY <2>1, <2>2, <2>3 DEF m
<1>6. 1 \in 1 .. Len(r)
      /\ \A k \in 1 .. Len(B) : 2 + k \in 1 .. Len(r)
  BY <1>2, <1>4
<1>7. t[1] = x /\ \A k \in 1 .. Len(B) : t[2 + k] = B[k]
  BY <1>4, <1>5, <1>6
<1> QED
  BY <1>5, <1>7 

\* rebuild_hash() leaves a section with a chain of the global symbols of each
\* bucket, latest first.
LEMMA RebuiltChains ==
  ASSUME HashAssumption, NEW ss \in Seq(Sym), NEW nb \in Nat \ {0}
  PROVE  /\ Rebuilt(ss, nb) \in Seq(Nat) /\ Sized(Rebuilt(ss, nb), Len(ss))
         /\ Chains(Rebuilt(ss, nb), ss, {j \in 1 .. Len(ss) : ss[j].global})
<1> DEFINE L == Len(ss)
           S(k, i) == Before(ss, nb, k, i)
           slot(i) == ElfHashOf[ss[i].name] % nb
           B == [b \in 1 .. nb |-> Max({0} \cup S(b - 1, L + 1))]
           C == [i \in 1 .. L |-> IF ss[i].global THEN Max({0} \cup S(slot(i), i)) ELSE 0]
           t == <<nb, L + 1>> \o B \o <<0>> \o C
           H == {j \in 1 .. L : ss[j].global}
<1>1. Rebuilt(ss, nb) = t
  BY DEF Rebuilt, Before
<1>2. L \in Nat
  OBVIOUS
<1>3. ASSUME NEW k, NEW i \in 1 .. L + 1
      PROVE  /\ Max({0} \cup S(k, i)) \in Nat /\ Latest(Max({0} \cup S(k, i)), S(k, i))
  <2>1. S(k, i) \in SUBSET (1 .. L)
    BY <1>2 DEF Before
  <2> HIDE DEF S
  <2> QED
    BY <1>2, <2>1, MaxIsLatest
<1> HIDE DEF S
<1>4. L + 1 \in 1 .. L + 1 /\ \A i \in 1 .. L : i \in 1 .. L + 1
  BY <1>2
<1>5. B \in Seq(Nat) /\ Len(B) = nb /\ \A k \in 1 .. nb : B[k] = Max({0} \cup S(k - 1, L + 1))
  <2>1. \A k \in 1 .. nb : Max({0} \cup S(k - 1, L + 1)) \in Nat
    BY <1>3, <1>4
  <2> QED
    BY <2>1
<1>6. /\ C \in Seq(Nat) /\ Len(C) = L
      /\ \A i \in 1 .. L : ss[i].global => C[i] = Max({0} \cup S(slot(i), i))
  <2>1. \A i \in 1 .. L : Max({0} \cup S(slot(i), i)) \in Nat
    BY <1>3, <1>4
  <2> HIDE DEF L
  <2> QED
    BY <2>1, <1>2
<1> HIDE DEF B, C
<1>7. /\ t \in Seq(Nat) /\ Len(t) = 3 + Len(B) + Len(C) /\ t[1] = nb
      /\ \A k \in 1 .. Len(B) : t[2 + k] = B[k]
      /\ \A i \in 1 .. Len(C) : t[3 + Len(B) + i] = C[i]
  <2>1. B \in Seq(Nat) /\ C \in Seq(Nat) /\ nb \in Nat /\ L + 1 \in Nat
    BY <1>2, <1>5, <1>6
  <2>2. FourOf(t, nb, L + 1, B, C)
    BY DEF FourOf
  <2> HIDE DEF t, L
  <2> QED
    BY <2>1, <2>2, FourParts
<1> HIDE DEF t, L
<1>8. NBuckets(t) = nb /\ Sized(t, L)
  BY <1>5, <1>6, <1>7 DEF Sized, NBuckets, Word
<1>9. ASSUME NEW k PROVE Chained(ss, H, nb, k) = S(k, L + 1)
  BY <1>2 DEF Chained, S, Before
<1>10. ASSUME NEW i \in H PROVE {j \in Chained(ss, H, nb, slot(i)) : j < i} = S(slot(i), i)
  BY <1>2 DEF Chained, S, Before
<1>11. ASSUME NEW k \in 0 .. nb - 1 PROVE Latest(Word(t, 2 + k), Chained(ss, H, nb, k))
  <2>1. k + 1 \in 1 .. nb /\ 2 + (k + 1) = 2 + k + 1 /\ k + 1 - 1 = k
    OBVIOUS
  <2>2. Word(t, 2 + k) = Max({0} \cup S(k, L + 1))
    <3>1. t[2 + (k + 1)] = B[k + 1] /\ B[k + 1] = Max({0} \cup S(k, L + 1))
      BY <2>1, <1>5, <1>7
    <3>2. t[2 + (k + 1)] = t[2 + k + 1]
      BY <2>1
    <3> QED
      BY <3>1, <3>2 DEF Word
  <2> QED
    BY <2>2, <1>3, <1>4, <1>9
<1>12. ASSUME NEW i \in H
       PROVE  Latest(Word(t, ChainAt(t, i)), {j \in Chained(ss, H, nb, slot(i)) : j < i})
  <2>1. i \in 1 .. L /\ ss[i].global /\ 3 + nb + i = 2 + nb + i + 1
    BY <1>2
  <2>2. Word(t, ChainAt(t, i)) = Max({0} \cup S(slot(i), i))
    <3>1. t[3 + Len(B) + i] = C[i] /\ C[i] = Max({0} \cup S(slot(i), i))
      BY <2>1, <1>6, <1>7
    <3>2. ChainAt(t, i) + 1 = 3 + Len(B) + i
      BY <2>1, <1>5, <1>8 DEF ChainAt
    <3> HIDE DEF H
    <3> QED
      BY <3>1, <3>2 DEF Word
  <2> QED
    BY <2>1, <2>2, <1>3, <1>4, <1>10
<1>13. Chains(t, ss, H)
  BY <1>8, <1>11, <1>12 DEF Chains
<1> QED
  BY <1>1, <1>7, <1>8, <1>13 DEF L
-----------------------------------------------------------------------------
\* The chains depend on the symbols only through the names of those in them.
LEMMA SameNames ==
  ASSUME NEW t, NEW ss, NEW ss2, NEW H, \A j \in H : ss2[j].name = ss[j].name, Chains(t, ss, H)
  PROVE  Chains(t, ss2, H)
<1>1. \A nb, k : Chained(ss2, H, nb, k) = Chained(ss, H, nb, k)
  BY DEF Chained
<1>2. \A i \in H : ElfHashOf[ss2[i].name] = ElfHashOf[ss[i].name]
  OBVIOUS
<1> QED
  BY <1>1, <1>2 DEF Chains

\* init_symtab() leaves a section of one bucket, without symbols.
LEMMA InitRight == HashInit => HashInv
<1> SUFFICES ASSUME HashInit PROVE HashInv
  OBVIOUS
<1>1. h \in Seq(Nat) /\ Len(h) = 4 /\ h[1] = 1 /\ h[3] = 0 /\ syms = << >> /\ hashed = {}
  BY DEF HashInit
<1>2. Counted = 0 /\ Len(syms) = 0
  BY <1>1 DEF HashInit, Counted
<1>3. HashTypes
  BY <1>1, <1>2 DEF HashTypes, HashInit
<1>4. NBuckets(h) = 1 /\ Sized(h, Counted)
  BY <1>1, <1>2 DEF Sized, NBuckets, Word
<1>5. Chains(h, syms, hashed)
  <2>1. \A k : Chained(syms, hashed, 1, k) = {}
    BY <1>1 DEF Chained
  <2>2. ASSUME NEW k \in 0 .. 0 PROVE Latest(Word(h, 2 + k), {})
    <3>1. k = 0 /\ 2 + k + 1 = 3
      OBVIOUS
    <3>2. Word(h, 2 + k) = 0
      BY <3>1, <1>1 DEF Word
    <3> QED
      BY <3>2 DEF Latest
  <2> QED
    <3>1. \A k \in 0 .. 0 : Latest(Word(h, 2 + k), Chained(syms, hashed, 1, k))
      BY <2>1, <2>2
    <3>2. 1 - 1 = 0
      OBVIOUS
    <3> QED
      BY <3>1, <3>2, <1>1, <1>4 DEF Chains
<1> QED
  BY <1>3, <1>4, <1>5 DEF HashInv

\* put_elf_sym() appends the symbol and leaves those before it.
LEMMA SymsGrow ==
  ASSUME NEW ss \in Seq(Sym), NEW s \in Sym, NEW ss2, ss2 = Append(ss, s)
  PROVE  /\ ss2 \in Seq(Sym) /\ Len(ss2) = Len(ss) + 1
         /\ \A j \in 1 .. Len(ss) : ss2[j] = ss[j]
OBVIOUS

\* put_elf_sym() on a section in step with the symbols.
LEMMA PutAttached ==
  ASSUME HashAssumption, HashInv, attached, NEW s \in Sym, Put(s), UNCHANGED <<attached, base>>,
         staged' \in Seq(Sym)
  PROVE  HashInv'
<1> DEFINE i == Len(syms) + 1
           b == Bucket(h, s.name)
           nb == NBuckets(h)
           linked == [Append(h, IF s.global THEN Word(h, b) ELSE 0)
                        EXCEPT ![b + 1] = IF s.global THEN i ELSE @, ![2] = @ + 1]
           full == s.global /\ nhashed + 1 > 2 * nb
           words == h'
<1>1. /\ syms \in Seq(Sym) /\ h \in Seq(Nat) /\ nhashed \in Nat /\ base \in Nat
      /\ hashed \in SUBSET (1 .. Len(syms)) /\ Len(syms) \in Nat
      /\ Sized(h, Len(syms)) /\ Chains(h, syms, hashed)
  BY DEF HashInv, HashTypes, Counted
<1>2. syms' = Append(syms, s)
  BY DEF Put
<1>3. syms' \in Seq(Sym) /\ Len(syms') = i /\ i \in Nat
  BY <1>1, <1>2, SymsGrow
<1>4. /\ h' = IF full THEN Rebuilt(syms', 2 * nb) ELSE linked
      /\ nhashed' = IF s.global THEN nhashed + 1 ELSE nhashed
      /\ hashed' = IF full THEN {j \in 1 .. i : syms'[j].global}
                   ELSE IF s.global THEN hashed \cup {i} ELSE hashed
  BY DEF Put
<1>5. nb \in Nat \ {0} /\ 2 * nb \in Nat \ {0} /\ Len(h) = 3 + nb + Len(syms)
  BY <1>1 DEF Sized
<1>6. s.name \in Name /\ s.global \in BOOLEAN
  BY DEF Sym
<1>7. b \in Nat /\ b >= 2 /\ b + 1 <= Len(h) /\ b + 1 \in 1 .. Len(h) /\ h[b + 1] \in Nat
  <2> DEFINE d == ElfHashOf[s.name] % nb
  <2>1. d \in 0 .. nb - 1
    BY <1>1, <1>6, WordsAt
  <2>2. b = 2 + d
    BY DEF Bucket
  <2> HIDE DEF d, nb, b
  <2>3. b \in Nat /\ b >= 2 /\ b + 1 <= Len(h) /\ b + 1 \in 1 .. Len(h)
    BY <2>1, <2>2, <1>1, <1>5
  <2> QED
    BY <2>3, <1>1
<1> HIDE DEF nb, b
<1>8. words \in Seq(Nat) /\ Sized(words, i) /\ Chains(words, syms', hashed') /\ hashed' \subseteq 1 .. i
  <2>1. CASE full
    <3>1. words = Rebuilt(syms', 2 * nb) /\ hashed' = {j \in 1 .. Len(syms') : syms'[j].global}
      BY <2>1, <1>3, <1>4
    <3> QED
      BY <3>1, <1>3, <1>5, RebuiltChains
  <2>2. CASE ~ full /\ s.global
    <3>1. OneMore(Append(h, h[b + 1]), b + 1, i, words) /\ hashed' = hashed \cup {i}
      BY <2>2, <1>4 DEF OneMore, Word
    <3>2. Added(h, b, h[b + 1], i, words)
      BY <3>1, <1>1, <1>3, <1>7, AddedIs
    <3>3. Added(h, Bucket(h, s.name), Word(h, Bucket(h, s.name)), Len(syms) + 1, words)
      BY <3>2 DEF b, Word
    <3>4. Sized(words, i) /\ Chains(words, syms', hashed \cup {i})
      <4>1. words \in Seq(Nat)
        BY <3>2 DEF Added
      <4> HIDE DEF words
      <4>2. Sized(words, Len(syms) + 1) /\ Chains(words, syms', hashed \cup {Len(syms) + 1})
        BY <3>3, <1>1, <1>2, LinkedChains
      <4> QED
        BY <4>2
    <3>5. hashed \cup {i} \subseteq 1 .. i
      <4>1. \A j \in hashed : j \in 1 .. Len(syms) /\ j \in 1 .. i
        BY <1>1
      <4>2. i \in 1 .. i
        BY <1>1
      <4> HIDE DEF i
      <4> QED
        BY <4>1, <4>2
    <3>6. words \in Seq(Nat)
      BY <3>2 DEF Added
    <3> QED
      BY <3>1, <3>4, <3>5, <3>6
  <2>3. CASE ~ s.global
    <3>1. OneMore(Append(h, 0), b + 1, h[b + 1], words) /\ hashed' = hashed
      <4>1. Append(h, 0)[b + 1] = h[b + 1]
        BY <1>1, <1>7
      <4>2. words = [Append(h, 0) EXCEPT ![b + 1] = @, ![2] = @ + 1] /\ hashed' = hashed
        BY <2>3, <1>4
      <4> QED
        BY <4>1, <4>2 DEF OneMore
    <3>2. Added(h, b, 0, h[b + 1], words)
      BY <3>1, <1>1, <1>7, AddedIs
    <3>3. Added(h, Bucket(h, s.name), 0, h[Bucket(h, s.name) + 1], words)
      BY <3>2 DEF b
    <3>4. Sized(words, i) /\ Chains(words, syms', hashed)
      BY <3>3, <1>1, <1>2, UnlinkedChains
    <3>5. hashed \subseteq 1 .. i
      BY <1>1
    <3>6. words \in Seq(Nat)
      BY <3>2 DEF Added
    <3> QED
      BY <3>1, <3>4, <3>5, <3>6
  <2> QED
    BY <2>1, <2>2, <2>3, <1>6
<1>9. nhashed' \in Nat
  BY <1>1, <1>4
<1>10. Counted' = i
  BY <1>3 DEF Counted
<1> HIDE DEF i
<1>11. HashTypes'
  BY <1>1, <1>3, <1>8, <1>9, <1>10 DEF HashTypes
<1> QED
  BY <1>8, <1>10, <1>11 DEF HashInv

\* put_elf_sym() while a file is compiled leaves the section alone.
LEMMA PutDetached ==
  ASSUME HashInv, ~ attached, NEW s \in Sym, Put(s), UNCHANGED <<attached, base>>, staged' = << >>
  PROVE  HashInv'
<1>1. /\ syms \in Seq(Sym) /\ h \in Seq(Nat) /\ nhashed \in Nat /\ base \in Nat
      /\ hashed \subseteq 1 .. base /\ base <= Len(syms) /\ attached \in BOOLEAN
      /\ Sized(h, base) /\ Chains(h, syms, hashed)
  BY DEF HashInv, HashTypes, Counted
<1>2. syms' = Append(syms, s) /\ h' = h /\ nhashed' = nhashed /\ hashed' = hashed
  BY DEF Put
<1>3. /\ syms' \in Seq(Sym) /\ Len(syms') = Len(syms) + 1
      /\ \A j \in 1 .. Len(syms) : syms'[j] = syms[j]
  BY <1>1, <1>2, SymsGrow
<1>4. Counted' = base /\ base <= Len(syms')
  BY <1>1, <1>3 DEF Counted
<1>5. \A j \in hashed : syms'[j].name = syms[j].name
  <2>1. \A j \in hashed : j \in 1 .. Len(syms)
    BY <1>1
  <2> QED
    BY <2>1, <1>3
<1>6. Chains(h, syms', hashed)
  BY <1>1, <1>5, SameNames
<1> QED
  BY <1>1, <1>2, <1>3, <1>4, <1>6 DEF HashInv, HashTypes

\* What find_elf_sym() finds is the latest linked symbol of the name.
LEMMA FindsLatest ==
  ASSUME HashAssumption, HashInv, attached, NEW n \in Name
  PROVE  Latest(Find(n), {i \in hashed : syms[i].name = n}) /\ hashed \in SUBSET (1 .. Len(syms))
<1>1. /\ syms \in Seq(Sym) /\ h \in Seq(Nat) /\ hashed \in SUBSET (1 .. Len(syms))
      /\ Sized(h, Len(syms)) /\ Chains(h, syms, hashed)
  BY DEF HashInv, HashTypes, Counted
<1>2. Latest(Walk(h, syms, n), {i \in hashed : syms[i].name = n})
  BY <1>1, WalkFinds
<1> QED
  BY <1>1, <1>2 DEF Find

\* Every step keeps the section in step with the symbols, and its chains whole.
LEMMA StepRight ==
  ASSUME HashAssumption, HashInv, [HashNext]_hash_vars
  PROVE  HashInv'
<1>1. /\ syms \in Seq(Sym) /\ staged \in Seq(Sym) /\ h \in Seq(Nat) /\ nhashed \in Nat /\ base \in Nat
      /\ attached \in BOOLEAN /\ Len(syms) \in Nat
      /\ hashed \subseteq 1 .. Counted /\ Counted <= Len(syms) /\ (attached \/ staged = << >>)
      /\ Sized(h, Counted) /\ Chains(h, syms, hashed)
  BY DEF HashInv, HashTypes
<1>2. ASSUME NEW s \in Sym, PutElfSym(s) PROVE HashInv'
  BY <1>1, <1>2, PutAttached, PutDetached DEF PutElfSym
<1>3. CASE TccelfBeginFile
  <2>1. Counted' = Len(syms) /\ Counted = Len(syms)
    BY <1>3 DEF TccelfBeginFile, Counted
  <2> QED
    BY <2>1, <1>1, <1>3 DEF TccelfBeginFile, HashInv, HashTypes
<1>4. CASE TccelfEndFile
  <2>1. /\ syms' = SubSeq(syms, 1, base) /\ staged' = SubSeq(syms, base + 1, Len(syms)) /\ attached' = TRUE
        /\ h' = h /\ nhashed' = nhashed /\ base' = base /\ hashed' = hashed
    BY <1>4 DEF TccelfEndFile
  <2>2. Counted = base
    BY <1>4 DEF TccelfEndFile, Counted
  <2>3. /\ syms' \in Seq(Sym) /\ Len(syms') = base /\ \A j \in 1 .. base : syms'[j] = syms[j]
    BY <2>1, <2>2, <1>1, SubSeqProperties
  <2>4. staged' \in Seq(Sym)
    BY <2>1, <2>2, <1>1, SubSeqProperties
  <2>5. Counted' = base
    BY <2>1, <2>3 DEF Counted
  <2>6. \A j \in hashed : syms'[j].name = syms[j].name
    BY <2>2, <2>3, <1>1
  <2>7. Chains(h, syms', hashed)
    BY <2>6, <1>1, SameNames
  <2> QED
    BY <2>1, <2>2, <2>3, <2>4, <2>5, <2>7, <1>1 DEF HashInv, HashTypes
<1>5. CASE EndFileSym
  <2> DEFINE s == Head(staged)
  <2>1. attached /\ staged # << >> /\ staged' = Tail(staged) /\ UNCHANGED <<attached, base>>
    BY <1>1, <1>5 DEF EndFileSym
  <2>2. s \in Sym /\ staged' \in Seq(Sym)
    BY <2>1, <1>1
  <2>3. UNCHANGED <<syms, h, nhashed, hashed>> \/ Put(s)
    BY <1>5 DEF EndFileSym
  <2> HIDE DEF s
  <2>4. CASE UNCHANGED <<syms, h, nhashed, hashed>>
    <3>1. Counted' = Counted
      BY <2>1, <2>4 DEF Counted
    <3> QED
      BY <3>1, <2>1, <2>2, <2>4, <1>1 DEF HashInv, HashTypes
  <2>5. CASE Put(s)
    BY <2>1, <2>2, <2>5, PutAttached
  <2> QED
    BY <2>3, <2>4, <2>5
<1>6. ASSUME NEW n \in Name, SetLocalSym(n) PROVE HashInv'
  <2> DEFINE f == Find(n)
             r == [syms[f] EXCEPT !.global = FALSE]
  <2>1. /\ attached /\ f # 0 /\ UNCHANGED <<h, nhashed, attached, base, staged, hashed>>
        /\ syms' = [syms EXCEPT ![f] = r]
    BY <1>6 DEF SetLocalSym
  <2>2. f \in 1 .. Len(syms)
    BY <2>1, <1>6, FindsLatest DEF Latest
  <2> HIDE DEF f
  <2>3. syms[f] \in Sym
    BY <2>2, <1>1
  <2>4. r \in Sym /\ r.name = syms[f].name
    BY <2>3 DEF Sym
  <2> HIDE DEF r
  <2>5. /\ syms' \in Seq(Sym) /\ Len(syms') = Len(syms)
        /\ \A j \in 1 .. Len(syms) : syms'[j] = IF j = f THEN r ELSE syms[j]
    BY <2>1, <2>2, <2>4, <1>1, ExceptSeq
  <2>6. Counted' = Counted
    BY <2>1, <2>5 DEF Counted
  <2>7. \A j \in hashed : syms'[j].name = syms[j].name
    <3>1. \A j \in hashed : j \in 1 .. Len(syms)
      BY <1>1, <2>1 DEF Counted
    <3> QED
      BY <3>1, <2>4, <2>5
  <2>8. Chains(h, syms', hashed)
    BY <2>7, <1>1, SameNames
  <2> QED
    BY <2>1, <2>5, <2>6, <2>8, <1>1 DEF HashInv, HashTypes
<1>7. CASE UNCHANGED hash_vars
  <2>1. Counted' = Counted
    BY <1>7 DEF hash_vars, Counted
  <2> QED
    BY <2>1, <1>1, <1>7 DEF hash_vars, HashInv, HashTypes
<1> QED
  BY <1>2, <1>3, <1>4, <1>5, <1>6, <1>7 DEF HashNext

\* The hash section stays in step with the symbol section: put_elf_sym(),
\* rebuild_hash() and the detachment of tccelf_begin_file() keep every chain.
THEOREM HashInvariant == HashSpec => []HashInv
<1>1. HashInit => HashInv
  BY InitRight
<1>2. HashInv /\ [HashNext]_hash_vars => HashInv'
  BY StepRight, HashAssumption
<1> QED
  BY <1>1, <1>2, PTL DEF HashSpec

\* find_elf_sym() finds the latest symbol of the name that is in a chain.
THEOREM FindIsExact == HashSpec => []FindExact
<1>1. HashInv => FindExact
  <2> SUFFICES ASSUME HashInv, attached, NEW n \in Name
               PROVE  Find(n) = Max({0} \cup {i \in hashed : syms[i].name = n})
    BY DEF FindExact
  <2> DEFINE S == {i \in hashed : syms[i].name = n}
  <2>1. Latest(Find(n), S) /\ S \in SUBSET (1 .. Len(syms))
    BY FindsLatest, HashAssumption
  <2>2. Len(syms) \in Nat
    BY DEF HashInv, HashTypes
  <2> HIDE DEF S
  <2>3. Find(n) = Max({0} \cup S)
    BY <2>1, <2>2, LatestIsMax
  <2> QED
    BY <2>3 DEF S
<1> QED
  BY <1>1, HashInvariant, PTL
-----------------------------------------------------------------------------
\* What the symbol table holds of a function.
Entry == [known : BOOLEAN, extern : BOOLEAN, static : BOOLEAN, inline : BOOLEAN,
          elf : BOOLEAN, local : BOOLEAN]

\* An entry the compiler can have made: one with an ELF symbol was declared, and
\* the symbol's binding is that of the last declaration.
WellFormed(s) ==
  /\ s \in Entry
  /\ s.elf => s.known /\ s.local = (s.static \/ s.inline)

FnTypes ==
  /\ sym \in [Func -> Entry] /\ \A f \in Func : WellFormed(sym[f])
  /\ stray \subseteq Func /\ data \subseteq Func
  /\ fns \in Seq([f : Func, body : FnBody, todo : BOOLEAN])
  /\ DOMAIN bodies \subseteq Func
  /\ \A f \in DOMAIN bodies : bodies[f] \subseteq Func
  /\ gens \in [Func -> Nat]
  /\ pos \in Nat /\ generated \in BOOLEAN /\ end \in {"no", "ok", "error"}

\* The definition of a function clears `extern' for good, so it is unique.
Defined == \A f \in Func : f \in WithBody <=> sym[f].known /\ ~ sym[f].extern

\* A function with a body has been compiled once, or is in inline_fns once.
Placed ==
  /\ \A f \in Func : gens[f] <= 1 /\ (gens[f] = 1 => f \in WithBody /\ sym[f].elf)
  /\ \A f \in WithBody : gens[f] = 1 \/ \E i \in DOMAIN fns : fns[i].f = f /\ fns[i].todo
  /\ \A i \in DOMAIN fns : /\ fns[i].f \in WithBody /\ fns[i].body.uses = bodies[fns[i].f]
                           /\ fns[i].todo => gens[fns[i].f] = 0
                           /\ sym[fns[i].f].static => sym[fns[i].f].inline
  /\ \A i, j \in DOMAIN fns : fns[i].f = fns[j].f => i = j

\* What a compiled function uses has an ELF symbol or is a block's own; what an
\* initializer uses has one.
Linked ==
  /\ \A f \in Func : gens[f] = 1 => \A g \in bodies[f] : sym[g].elf \/ g \in stray
  /\ \A f \in data : sym[f].elf

\* A function that a block referred to by a symbol of its own is not static, or
\* inline for good.
Strays ==
  \A f \in stray : sym[f].known /\ (sym[f].static => sym[f].inline /\ f \in WithBody)

\* A set that has what the unit must provide and what its functions use.
Closes(S) == Roots \subseteq S /\ \A f \in S \cap WithBody : bodies[f] \subseteq S

\* No function gets an ELF symbol without need.
Wanted == \A f \in Func : sym[f].elf => \A S \in SUBSET Func : Closes(S) => f \in S

\* The functions that gen_inline_functions() has passed and left alone.
Round ==
  /\ (pos > 0 /\ ~ generated) \/ end = "ok" =>
       \A i \in DOMAIN fns :
         i < pos /\ fns[i].todo => ~ sym[fns[i].f].elf /\ sym[fns[i].f].inline
  /\ end = "ok" => pos > Len(fns)

\* The inductive invariant.
InlineInv == FnTypes /\ Defined /\ Placed /\ Linked /\ Strays /\ Wanted /\ Round
-----------------------------------------------------------------------------
\* At the end of a unit the invariant says what was compiled.
LEMMA InlineInvImplies == InlineInv => InlineClosure
<1> SUFFICES ASSUME InlineInv, end = "ok" PROVE InlineClosure
  BY DEF InlineClosure
<1>1. \A f \in WithBody : sym[f].elf \/ ~ sym[f].inline => gens[f] = 1
  <2> SUFFICES ASSUME NEW f \in WithBody, sym[f].elf \/ ~ sym[f].inline, gens[f] # 1 PROVE FALSE
    OBVIOUS
  <2>1. PICK i \in DOMAIN fns : fns[i].f = f /\ fns[i].todo
    BY DEF InlineInv, Placed
  <2>2. i < pos
    BY DEF InlineInv, Round, FnTypes
  <2> QED
    BY <2>1, <2>2 DEF InlineInv, Round
<1>2. \A f \in Func : gens[f] <= 1
  BY DEF InlineInv, Placed
<1>3. {f \in Func : gens[f] = 1} \subseteq Needed
  BY DEF InlineInv, Placed, Wanted, Closes, Needed
<1>4. ASSUME Lost = {} PROVE \A f \in Needed : gens[f] = 1
  <2> DEFINE S == {f \in Func : f \in WithBody => gens[f] = 1}
  <2>1. Roots \subseteq S
    BY <1>1 DEF InlineInv, FnTypes, Linked, Roots, WithBody
  <2>2. \A f \in S \cap WithBody : bodies[f] \subseteq S
    <3> SUFFICES ASSUME NEW f \in S \cap WithBody, NEW g \in bodies[f] PROVE g \in S
      OBVIOUS
    <3>1. g \in Func /\ (sym[g].elf \/ g \in stray)
      BY DEF InlineInv, FnTypes, Linked, WithBody
    <3>2. g \in stray => ~ sym[g].inline
      BY <1>4 DEF Lost
    <3> QED
      BY <1>1, <3>1, <3>2
  <2>3. Closes(S)
    BY <2>1, <2>2 DEF Closes
  <2>4. Needed \subseteq S /\ Needed \subseteq WithBody
    BY <2>3 DEF Needed, Closes
  <2> QED
    BY <2>4
<1>5. \A f \in Func : gens[f] = 1 => sym[f].elf /\ sym[f].local = (sym[f].static \/ sym[f].inline)
  BY DEF InlineInv, Placed, FnTypes, WellFormed
<1>6. ASSUME NEW f \in (stray \cap WithBody) \ Lost PROVE gens[f] = 1 /\ ~ sym[f].local
  <2>1. ~ sym[f].inline
    BY DEF Lost
  <2>2. gens[f] = 1 /\ f \in Func
    BY <1>1, <2>1 DEF InlineInv, FnTypes
  <2>3. ~ sym[f].static
    BY <2>1 DEF InlineInv, Strays
  <2> QED
    BY <1>5, <2>1, <2>2, <2>3
<1> QED
  BY <1>2, <1>3, <1>4, <1>5, <1>6 DEF InlineClosure
-----------------------------------------------------------------------------
\* What declarations, definitions and uses may do to an entry: an ELF symbol
\* stays, `static' was settled by the first declaration, and a function with a
\* body keeps it, is never made inline, and stays inline if it is static.
Ages(s, t) ==
  /\ WellFormed(t)
  /\ s.elf => t.elf
  /\ s.known => t.known /\ t.static = s.static
  /\ s.known /\ ~ s.extern => /\ ~ t.extern
                              /\ t.inline => s.inline
                              /\ s.static /\ s.inline => t.inline

\* The storage classes of a declaration.
Storages == [extern : BOOLEAN, static : BOOLEAN, inline : BOOLEAN]

\* What decl() makes of the storage classes written.
LEMMA StorageIs ==
  ASSUME NEW storage, NEW inl \in BOOLEAN
  PROVE  LET t == Type(storage, inl) IN
         /\ Prototype(Storage(t)) \in Storages /\ Prototype(Storage(t)).extern
         /\ Definition(Storage(t)) \in Storages /\ ~ Definition(Storage(t)).extern
BY DEF Type, Storage, Prototype, Definition, Storages

\* external_sym() with `extern', for a prototype or in a block.
LEMMA ExternalAges ==
  ASSUME NEW s, WellFormed(s), NEW t \in Storages, t.extern
  PROVE  LET x == External(s, t) IN
         /\ Ages(s, x) /\ x.known /\ x.elf = s.elf
         /\ (x.known /\ ~ x.extern) <=> (s.known /\ ~ s.extern)
<1>1. CASE s.known
  BY ZenonT(40), <1>1 DEF External, Stored, Patched, StaysInline, Ages, WellFormed, Entry, Storages
<1>2. CASE ~ s.known
  BY <1>2 DEF External, Unknown, Ages, WellFormed, Entry, Storages
<1> QED
  BY <1>1, <1>2

\* external_sym() for a definition of what has none.
LEMMA DefinedAges ==
  ASSUME NEW s, WellFormed(s), s.known => s.extern, NEW t \in Storages, ~ t.extern
  PROVE  LET x == External(s, t) IN Ages(s, x) /\ x.known /\ ~ x.extern /\ x.elf = s.elf
<1>1. CASE s.known
  BY <1>1 DEF External, Stored, Patched, StaysInline, Ages, WellFormed, Entry, Storages
<1>2. CASE ~ s.known
  BY <1>2 DEF External, Unknown, Ages, WellFormed, Entry, Storages
<1> QED
  BY <1>1, <1>2

\* put_extern_sym() for what has been declared.
LEMMA EnteredAges ==
  ASSUME NEW s, WellFormed(s), s.known
  PROVE  /\ Ages(s, Entered(s)) /\ Entered(s).elf
         /\ Entered(s).known /\ Entered(s).extern = s.extern
BY DEF Entered, Stored, Ages, WellFormed, Entry

\* An entry can go through several changes.
LEMMA AgesTwice ==
  ASSUME NEW s, NEW t, NEW u, Ages(s, t), Ages(t, u)
  PROVE  Ages(s, u)
BY DEF Ages

\* ... and through none.
LEMMA AgesNot == ASSUME NEW s, WellFormed(s) PROVE Ages(s, s)
BY DEF Ages, WellFormed, Entry

\* greloca() for an identifier used in a block.
LEMMA DeclaredAges ==
  ASSUME NEW s, WellFormed(s)
  PROVE  LET x == Entered(Declared(s)) IN
         /\ Ages(s, x) /\ x.elf
         /\ (x.known /\ ~ x.extern) <=> (s.known /\ ~ s.extern)
<1>1. BlockExtern \in Storages /\ BlockExtern.extern
  BY DEF BlockExtern, Type, Storages
<1>2. /\ Ages(s, Declared(s)) /\ Declared(s).known
      /\ (Declared(s).known /\ ~ Declared(s).extern) <=> (s.known /\ ~ s.extern)
  BY <1>1, ExternalAges, AgesNot DEF Declared
<1>3. Ages(Declared(s), Entered(Declared(s))) /\ Entered(Declared(s)).elf
      /\ Entered(Declared(s)).known /\ Entered(Declared(s)).extern = Declared(s).extern
  BY <1>2, EnteredAges DEF Ages
<1> QED
  BY <1>2, <1>3, AgesTwice

\* ... and for one the block has declared itself: without an ELF symbol after
\* that, it is not static, or its definition has been seen.
LEMMA BlockUsedAges ==
  ASSUME NEW s, WellFormed(s)
  PROVE  LET x == BlockUsed(s) IN
         /\ Ages(s, x) /\ x.known
         /\ (x.known /\ ~ x.extern) <=> (s.known /\ ~ s.extern)
         /\ ~ x.elf /\ x.static => ~ x.extern
<1> DEFINE c == External(s, BlockExtern)
<1>1. BlockExtern \in Storages /\ BlockExtern.extern
  BY DEF BlockExtern, Type, Storages
<1>2. Ages(s, c) /\ c.known /\ ((c.known /\ ~ c.extern) <=> (s.known /\ ~ s.extern))
  BY <1>1, ExternalAges
<1> HIDE DEF c
<1>3. /\ Ages(c, Entered(c)) /\ Entered(c).elf
      /\ Entered(c).known /\ Entered(c).extern = c.extern
  BY <1>2, EnteredAges DEF Ages
<1>4. CASE c.static /\ c.extern
  <2>1. BlockUsed(s) = Entered(c)
    BY <1>4 DEF BlockUsed, c
  <2> QED
    BY <2>1, <1>2, <1>3, AgesTwice
<1>5. CASE ~ (c.static /\ c.extern)
  <2>1. BlockUsed(s) = c
    BY <1>5 DEF BlockUsed, c
  <2> QED
    BY <2>1, <1>2, <1>5
<1> QED
  BY <1>4, <1>5
-----------------------------------------------------------------------------
\* gen_function(): the entries age, the function and what it uses get ELF symbols
\* and nothing else does, except that a block's own declaration may have one
\* that is not the function's.
LEMMA Generates ==
  ASSUME InlineAssumption, NEW decl \in [Func -> Entry], \A g \in Func : WellFormed(decl[g]),
         NEW f \in Func, decl[f].known, NEW b \in FnBody, GenFunction(decl, f, b)
  PROVE  /\ sym' \in [Func -> Entry] /\ \A g \in Func : Ages(decl[g], sym'[g])
         /\ \A g \in Func : (sym'[g].known /\ ~ sym'[g].extern) <=> (decl[g].known /\ ~ decl[g].extern)
         /\ sym'[f].elf
         /\ \A g \in Func : sym'[g].elf => decl[g].elf \/ g = f \/ g \in b.uses
         /\ \A g \in b.uses : sym'[g].elf \/ g \in stray'
         /\ stray \subseteq stray' /\ stray' \subseteq stray \cup Func
         /\ \A g \in stray' \ stray : /\ sym'[g].known /\ ~ sym'[g].elf
                                      /\ sym'[g].static => ~ sym'[g].extern
         /\ gens' = [gens EXCEPT ![f] = @ + 1]
<1> DEFINE own == [decl EXCEPT ![f] = Entered(@)]
<1>1. b.blocks \subseteq b.uses /\ b.uses \subseteq Func
  BY DEF InlineAssumption
<1>2. /\ Ages(decl[f], Entered(decl[f])) /\ Entered(decl[f]).elf
      /\ Entered(decl[f]).known /\ Entered(decl[f]).extern = decl[f].extern
  BY EnteredAges
<1>3. /\ \A g \in Func : Ages(decl[g], own[g]) /\ WellFormed(own[g])
      /\ \A g \in Func : (own[g].known /\ ~ own[g].extern) <=> (decl[g].known /\ ~ decl[g].extern)
      /\ own[f].elf /\ \A g \in Func : own[g].elf => decl[g].elf \/ g = f
  <2>1. own[f] = Entered(decl[f]) /\ \A g \in Func : g # f => own[g] = decl[g]
    OBVIOUS
  <2> HIDE DEF own
  <2>2. ASSUME NEW g \in Func
        PROVE  /\ Ages(decl[g], own[g]) /\ WellFormed(own[g])
               /\ (own[g].known /\ ~ own[g].extern) <=> (decl[g].known /\ ~ decl[g].extern)
               /\ own[g].elf => decl[g].elf \/ g = f
    <3>1. CASE g = f
      BY <2>1, <3>1, <1>2 DEF Ages
    <3>2. CASE g # f
      BY <2>1, <3>2, AgesNot
    <3> QED
      BY <3>1, <3>2
  <2> QED
    BY <2>1, <2>2, <1>2
<1>4. /\ sym' = [g \in Func |->
              CASE g \in b.blocks          -> BlockUsed(own[g])
                [] g \in b.uses \ b.blocks -> Entered(Declared(own[g]))
                [] OTHER                   -> own[g]]
      /\ stray' = stray \cup {g \in b.blocks : LeavesStray(own[g])}
      /\ gens' = [gens EXCEPT ![f] = @ + 1]
  BY DEF GenFunction
<1> HIDE DEF own
<1>5. ASSUME NEW g \in Func
      PROVE  /\ Ages(decl[g], sym'[g])
             /\ (sym'[g].known /\ ~ sym'[g].extern) <=> (decl[g].known /\ ~ decl[g].extern)
             /\ own[g].elf => sym'[g].elf
             /\ sym'[g].elf => decl[g].elf \/ g = f \/ g \in b.uses
             /\ g \in b.uses => sym'[g].elf \/ g \in stray'
             /\ g \in stray' \ stray => /\ sym'[g].known /\ ~ sym'[g].elf
                                        /\ sym'[g].static => ~ sym'[g].extern
  <2>1. WellFormed(own[g])
    BY <1>3
  <2>2. CASE g \in b.blocks
    <3>1. sym'[g] = BlockUsed(own[g])
      BY <1>4, <2>2
    <3>2. /\ Ages(own[g], sym'[g]) /\ sym'[g].known
          /\ (sym'[g].known /\ ~ sym'[g].extern) <=> (own[g].known /\ ~ own[g].extern)
          /\ ~ sym'[g].elf /\ sym'[g].static => ~ sym'[g].extern
      BY <2>1, <3>1, BlockUsedAges
    <3>3. ~ sym'[g].elf <=> LeavesStray(own[g])
      BY <3>1 DEF LeavesStray
    <3>4. g \in stray' <=> g \in stray \/ ~ sym'[g].elf
      BY <1>4, <2>2, <3>3
    <3>5. Ages(decl[g], sym'[g])
      BY <1>3, <3>2, AgesTwice
    <3> QED
      BY <1>1, <1>3, <2>2, <3>2, <3>4, <3>5 DEF Ages
  <2>3. CASE g \in b.uses \ b.blocks
    <3>1. sym'[g] = Entered(Declared(own[g]))
      BY <1>4, <2>3
    <3>2. /\ Ages(own[g], sym'[g]) /\ sym'[g].elf
          /\ (sym'[g].known /\ ~ sym'[g].extern) <=> (own[g].known /\ ~ own[g].extern)
      BY <2>1, <3>1, DeclaredAges
    <3>3. Ages(decl[g], sym'[g])
      BY <1>3, <3>2, AgesTwice
    <3>4. g \notin stray' \ stray
      BY <1>4, <2>3
    <3> QED
      BY <1>3, <2>3, <3>2, <3>3, <3>4
  <2>4. CASE g \notin b.uses
    <3>1. sym'[g] = own[g]
      BY <1>1, <1>4, <2>4
    <3>2. g \notin stray' \ stray
      BY <1>1, <1>4, <2>4
    <3> QED
      BY <1>3, <2>4, <3>1, <3>2
  <2> QED
    BY <2>2, <2>3, <2>4
<1>6. sym' \in [Func -> Entry]
  <2>1. \A g \in Func : sym'[g] \in Entry
    BY <1>5 DEF Ages, WellFormed
  <2>2. sym' = [g \in Func |-> sym'[g]]
    BY <1>4
  <2> QED
    BY <2>1, <2>2
<1>7. stray \subseteq stray' /\ stray' \subseteq stray \cup Func
  BY <1>1, <1>4
<1> QED
  BY <1>1, <1>3, <1>4, <1>5, <1>6, <1>7

\* What a unit must provide only grows.
LEMMA NeedsGrow ==
  ASSUME FnTypes, Defined, WithBody \subseteq WithBody', \A f \in WithBody : bodies'[f] = bodies[f],
         data \subseteq data', \A f \in Func : Ages(sym[f], sym'[f]), NEW S, Closes(S)'
  PROVE  Closes(S)
<1>1. WithBody \subseteq Func
  BY DEF FnTypes, WithBody
<1>2. \A f \in WithBody : ~ sym[f].inline => ~ sym'[f].inline
  BY <1>1 DEF Defined, Ages
<1>3. Roots \subseteq Roots'
  BY <1>2 DEF Roots
<1> QED
  BY <1>3 DEF Closes

\* Nor does a function lose the need for its ELF symbol.
LEMMA WantedStays ==
  ASSUME InlineInv, WithBody \subseteq WithBody', \A f \in WithBody : bodies'[f] = bodies[f],
         data \subseteq data', \A f \in Func : Ages(sym[f], sym'[f]),
         \A f \in Func : sym'[f].elf => sym[f].elf \/ \A S \in SUBSET Func : Closes(S)' => f \in S
  PROVE  Wanted'
<1> SUFFICES ASSUME NEW f \in Func, sym'[f].elf, NEW S \in SUBSET Func, Closes(S)' PROVE f \in S
  BY DEF Wanted
<1>1. Closes(S)
  BY NeedsGrow DEF InlineInv
<1> QED
  BY <1>1 DEF InlineInv, Wanted

\* A function that a block refers to by a symbol of its own stays what it is.
LEMMA StraysStay ==
  ASSUME InlineInv, WithBody \subseteq WithBody', Defined', Placed', stray' \subseteq Func,
         \A f \in Func : Ages(sym[f], sym'[f]),
         \A f \in stray' \ stray : /\ sym'[f].known /\ ~ sym'[f].elf
                                   /\ sym'[f].static => ~ sym'[f].extern
  PROVE  Strays'
<1> SUFFICES ASSUME NEW f \in stray'
             PROVE  sym'[f].known /\ (sym'[f].static => sym'[f].inline /\ f \in WithBody')
  BY DEF Strays
<1>1. CASE f \in stray
  <2>1. sym[f].known /\ (sym[f].static => sym[f].inline /\ f \in WithBody) /\ f \in Func
    BY <1>1 DEF InlineInv, Strays, FnTypes
  <2>2. f \in WithBody => ~ sym[f].extern
    BY <2>1 DEF InlineInv, Defined
  <2> QED
    BY <2>1, <2>2 DEF Ages
<1>2. CASE f \notin stray
  <2>1. f \in Func /\ sym'[f].known /\ ~ sym'[f].elf /\ (sym'[f].static => f \in WithBody')
    BY <1>2 DEF Defined
  <2>2. ASSUME sym'[f].static PROVE sym'[f].inline
    <3>1. f \in WithBody' /\ gens'[f] # 1
      BY <2>1, <2>2 DEF Placed
    <3>2. PICK i \in DOMAIN fns' : fns'[i].f = f
      BY <3>1 DEF Placed
    <3> QED
      BY <2>2, <3>2 DEF Placed
  <2> QED
    BY <2>1, <2>2
<1> QED
  BY <1>1, <1>2

\* A step that only lets entries age settles nothing anew.
LEMMA OnlyAges ==
  ASSUME InlineInv, sym' \in [Func -> Entry], \A f \in Func : Ages(sym[f], sym'[f]),
         \A f \in Func : (sym'[f].known /\ ~ sym'[f].extern) <=> (sym[f].known /\ ~ sym[f].extern),
         UNCHANGED <<stray, fns, bodies, gens>>
  PROVE  /\ Defined' /\ Placed' /\ Strays'
         /\ \A f \in Func : gens'[f] = 1 => \A g \in bodies'[f] : sym'[g].elf \/ g \in stray'
<1>1. WithBody' = WithBody /\ WithBody \subseteq Func
  BY DEF WithBody, InlineInv, FnTypes
<1>2. Defined'
  BY <1>1 DEF InlineInv, Defined
<1>3. \A f \in WithBody : sym[f].static /\ sym[f].inline => sym'[f].static /\ sym'[f].inline
  BY <1>1 DEF InlineInv, Defined, Ages
<1>4. \A f \in WithBody : sym'[f].static = sym[f].static
  BY <1>1 DEF InlineInv, Defined, Ages
<1>5. \A f \in Func : sym[f].elf => sym'[f].elf
  BY DEF Ages
<1>6. Placed'
  BY <1>1, <1>3, <1>4, <1>5 DEF InlineInv, Placed
<1>7. stray' \subseteq Func /\ stray' = stray
  BY DEF InlineInv, FnTypes
<1>8. Strays'
  BY <1>1, <1>2, <1>6, <1>7, StraysStay
<1>9. \A f \in Func : gens'[f] = 1 => \A g \in bodies'[f] : sym'[g].elf \/ g \in stray'
  <2> SUFFICES ASSUME NEW f \in Func, gens[f] = 1, NEW g \in bodies[f]
               PROVE  sym'[g].elf \/ g \in stray'
    OBVIOUS
  <2>1. f \in WithBody /\ g \in Func
    BY DEF InlineInv, Placed, FnTypes, WithBody
  <2> QED
    BY <2>1, <1>5 DEF InlineInv, Linked
<1> QED
  BY <1>2, <1>6, <1>8, <1>9
-----------------------------------------------------------------------------
\* A prototype keeps the invariant.
LEMMA DeclareStep ==
  ASSUME InlineInv, NEW f \in Func, NEW storage, NEW inl \in BOOLEAN, DeclareFn(f, Type(storage, inl))
  PROVE  InlineInv'
<1> DEFINE t == Prototype(Storage(Type(storage, inl)))
<1>1. t \in Storages /\ t.extern
  BY StorageIs
<1>2. /\ sym' = [sym EXCEPT ![f] = External(sym[f], t)]
      /\ UNCHANGED <<stray, fns, bodies, gens, data, pos, generated, end>> /\ end = "no" /\ pos = 0
  BY DEF DeclareFn, AtFileScope
<1> HIDE DEF t
<1>3. sym \in [Func -> Entry] /\ \A g \in Func : WellFormed(sym[g])
  BY DEF InlineInv, FnTypes
<1>4. /\ Ages(sym[f], External(sym[f], t)) /\ External(sym[f], t).elf = sym[f].elf
      /\ (External(sym[f], t).known /\ ~ External(sym[f], t).extern) <=> (sym[f].known /\ ~ sym[f].extern)
  BY <1>1, <1>3, ExternalAges
<1>5. sym'[f] = External(sym[f], t) /\ \A g \in Func : g # f => sym'[g] = sym[g]
  BY <1>2, <1>3
<1>6. \A g \in Func : /\ Ages(sym[g], sym'[g]) /\ sym'[g].elf = sym[g].elf
                      /\ (sym'[g].known /\ ~ sym'[g].extern) <=> (sym[g].known /\ ~ sym[g].extern)
  BY <1>3, <1>4, <1>5, AgesNot
<1>7. sym' \in [Func -> Entry] /\ \A g \in Func : WellFormed(sym'[g])
  BY <1>2, <1>3, <1>6 DEF Ages, WellFormed
<1>8. /\ Defined' /\ Placed' /\ Strays'
      /\ \A g \in Func : gens'[g] = 1 => \A x \in bodies'[g] : sym'[x].elf \/ x \in stray'
  BY <1>2, <1>6, <1>7, OnlyAges
<1>9. FnTypes'
  BY <1>2, <1>7 DEF InlineInv, FnTypes
<1>10. Linked'
  <2>1. \A g \in data : sym'[g].elf
    BY <1>6 DEF InlineInv, Linked, FnTypes
  <2> QED
    BY <1>2, <1>8, <2>1 DEF Linked
<1>11. Wanted'
  <2>1. WithBody' = WithBody
    BY <1>2 DEF WithBody
  <2> QED
    BY <2>1, <1>2, <1>6, WantedStays
<1>12. Round'
  BY <1>2 DEF Round
<1> QED
  BY <1>8, <1>9, <1>10, <1>11, <1>12 DEF InlineInv

\* The address of a function in an initializer keeps the invariant.
LEMMA UseInDataStep ==
  ASSUME InlineInv, NEW f \in Func, UseInData(f)
  PROVE  InlineInv'
<1>1. /\ sym' = [sym EXCEPT ![f] = Entered(sym[f])] /\ sym[f].known /\ data' = data \cup {f}
      /\ UNCHANGED <<stray, fns, bodies, gens, pos, generated, end>> /\ end = "no" /\ pos = 0
  BY DEF UseInData, AtFileScope
<1>2. sym \in [Func -> Entry] /\ \A g \in Func : WellFormed(sym[g])
  BY DEF InlineInv, FnTypes
<1>3. /\ Ages(sym[f], Entered(sym[f])) /\ Entered(sym[f]).elf
      /\ Entered(sym[f]).known /\ Entered(sym[f]).extern = sym[f].extern
  BY <1>1, <1>2, EnteredAges
<1>4. sym'[f] = Entered(sym[f]) /\ \A g \in Func : g # f => sym'[g] = sym[g]
  BY <1>1, <1>2
<1>6. sym' \in [Func -> Entry] /\ \A g \in Func : WellFormed(sym'[g])
  <2>1. \A g \in Func : Ages(sym[g], sym'[g])
    BY <1>2, <1>3, <1>4, AgesNot
  <2> QED
    BY <1>1, <1>2, <2>1 DEF Ages, WellFormed
<1>7. \A g \in Func : Ages(sym[g], sym'[g])
  BY <1>2, <1>3, <1>4, AgesNot
<1>8. \A g \in Func : sym'[g].elf => sym[g].elf \/ g = f
  BY <1>4
<1>9. \A g \in Func : (sym'[g].known /\ ~ sym'[g].extern) <=> (sym[g].known /\ ~ sym[g].extern)
  BY <1>1, <1>3, <1>4
<1>10. /\ Defined' /\ Placed' /\ Strays'
       /\ \A g \in Func : gens'[g] = 1 => \A x \in bodies'[g] : sym'[x].elf \/ x \in stray'
  BY <1>1, <1>6, <1>7, <1>9, OnlyAges
<1>11. FnTypes'
  BY <1>1, <1>6 DEF InlineInv, FnTypes
<1>12. Linked'
  <2>1. \A g \in data' : sym'[g].elf
    BY <1>1, <1>3, <1>4, <1>7 DEF InlineInv, Linked, FnTypes, Ages
  <2> QED
    BY <1>10, <2>1 DEF Linked
<1>13. Wanted'
  <2>1. WithBody' = WithBody /\ data \subseteq data' /\ f \in Roots'
    BY <1>1 DEF WithBody, Roots
  <2>2. \A S \in SUBSET Func : Closes(S)' => f \in S
    BY <2>1 DEF Closes
  <2> QED
    BY <2>1, <2>2, <1>1, <1>7, <1>8, WantedStays
<1>14. Round'
  BY <1>1 DEF Round
<1> QED
  BY <1>10, <1>11, <1>12, <1>13, <1>14 DEF InlineInv
-----------------------------------------------------------------------------
\* The definition of an inline function, which is put aside, keeps the invariant.
LEMMA PutAsideStep ==
  ASSUME InlineInv, NEW f \in Func, NEW t \in Storages, ~ t.extern, NEW b \in FnBody,
         InlineAssumption, sym[f].known => sym[f].extern,
         sym' = [sym EXCEPT ![f] = External(sym[f], t)], sym'[f].inline,
         fns' = Append(fns, [f |-> f, body |-> b, todo |-> TRUE]),
         bodies' = [g \in DOMAIN bodies \cup {f} |-> IF g = f THEN b.uses ELSE bodies[g]],
         UNCHANGED <<stray, gens, data, pos, generated, end>>, end = "no", pos = 0
  PROVE  InlineInv'
<1> DEFINE new == [f |-> f, body |-> b, todo |-> TRUE]  D == [f : Func, body : FnBody, todo : BOOLEAN]
<1>1. sym \in [Func -> Entry] /\ \A g \in Func : WellFormed(sym[g])
  BY DEF InlineInv, FnTypes
<1>2. LET x == External(sym[f], t) IN
      Ages(sym[f], x) /\ x.known /\ ~ x.extern /\ x.elf = sym[f].elf
  BY <1>1, DefinedAges
<1>3. sym'[f] = External(sym[f], t) /\ \A g \in Func : g # f => sym'[g] = sym[g]
  BY <1>1
<1>4. \A g \in Func : Ages(sym[g], sym'[g]) /\ sym'[g].elf = sym[g].elf
  BY <1>1, <1>2, <1>3, AgesNot
<1>5. sym' \in [Func -> Entry] /\ \A g \in Func : WellFormed(sym'[g])
  BY <1>1, <1>4 DEF Ages, WellFormed
<1>6. /\ fns \in Seq(D) /\ new \in D /\ Len(fns') = Len(fns) + 1 /\ fns' \in Seq(D)
      /\ fns'[Len(fns) + 1] = new /\ \A i \in DOMAIN fns : fns'[i] = fns[i]
      /\ DOMAIN fns = 1 .. Len(fns) /\ DOMAIN fns' = 1 .. Len(fns) + 1 /\ Len(fns) \in Nat
  <2>1. fns \in Seq(D) /\ new \in D
    BY DEF InlineInv, FnTypes
  <2> HIDE DEF D
  <2>2. fns' = Append(fns, new)
    OBVIOUS
  <2> HIDE DEF new
  <2> QED
    BY <2>1, <2>2
<1>7. /\ WithBody' = WithBody \cup {f} /\ bodies'[f] = b.uses /\ \A g \in WithBody \ {f} : bodies'[g] = bodies[g]
      /\ WithBody \subseteq Func
  BY DEF WithBody, InlineInv, FnTypes
<1>8. f \notin WithBody /\ gens[f] = 0
  <2>1. f \notin WithBody
    BY DEF InlineInv, Defined
  <2> QED
    BY <2>1 DEF InlineInv, Placed, FnTypes
<1>9. b.uses \subseteq Func
  BY DEF InlineAssumption
<1>10. FnTypes'
  <2>1. fns' \in Seq([f : Func, body : FnBody, todo : BOOLEAN])
    BY <1>6
  <2>2. \A g \in DOMAIN bodies' : bodies'[g] \subseteq Func
    BY <1>7, <1>9 DEF InlineInv, FnTypes, WithBody
  <2>3. DOMAIN bodies' \subseteq Func
    BY <1>7 DEF WithBody
  <2> QED
    BY <1>5, <2>1, <2>2, <2>3 DEF InlineInv, FnTypes
<1>11. Defined'
  BY <1>2, <1>3, <1>7 DEF InlineInv, Defined
<1>12. Placed'
  <2>1. \A g \in Func : gens'[g] <= 1 /\ (gens'[g] = 1 => g \in WithBody' /\ sym'[g].elf)
    BY <1>4, <1>7 DEF InlineInv, Placed
  <2>2. ASSUME NEW g \in WithBody' PROVE gens'[g] = 1 \/ \E i \in DOMAIN fns' : fns'[i].f = g /\ fns'[i].todo
    <3>1. CASE g = f
      <4>1. Len(fns) + 1 \in DOMAIN fns' /\ new.f = f /\ new.todo
        BY <1>6
      <4> QED
        BY <4>1, <3>1, <1>6
    <3>2. CASE g # f
      <4>1. gens[g] = 1 \/ \E i \in DOMAIN fns : fns[i].f = g /\ fns[i].todo
        BY <3>2, <1>7 DEF InlineInv, Placed
      <4>2. \A i \in DOMAIN fns : i \in DOMAIN fns'
        BY <1>6
      <4> QED
        BY <4>1, <4>2, <1>6
    <3> QED
      BY <3>1, <3>2
  <2>3. ASSUME NEW i \in DOMAIN fns'
        PROVE  /\ fns'[i].f \in WithBody' /\ fns'[i].body.uses = bodies'[fns'[i].f]
               /\ fns'[i].todo => gens'[fns'[i].f] = 0
               /\ sym'[fns'[i].f].static => sym'[fns'[i].f].inline
               /\ fns'[i].f = f <=> i = Len(fns) + 1
    <3>1. CASE i = Len(fns) + 1
      <4>1. fns'[i].f = f /\ fns'[i].body = b
        BY <3>1, <1>6
      <4> QED
        BY <3>1, <4>1, <1>7, <1>8
    <3>2. CASE i # Len(fns) + 1
      <4>1. i \in DOMAIN fns /\ fns'[i] = fns[i]
        BY <3>2, <1>6
      <4>2. /\ fns[i].f \in WithBody /\ fns[i].body.uses = bodies[fns[i].f]
            /\ fns[i].todo => gens[fns[i].f] = 0
            /\ sym[fns[i].f].static => sym[fns[i].f].inline
        BY <4>1 DEF InlineInv, Placed
      <4>3. fns[i].f # f
        BY <4>2, <1>8
      <4>4. fns[i].f \in Func /\ sym'[fns[i].f] = sym[fns[i].f] /\ bodies'[fns[i].f] = bodies[fns[i].f]
            /\ fns[i].f \in WithBody' /\ gens' = gens
        BY <4>2, <4>3, <1>3, <1>7
      <4> QED
        BY <3>2, <4>1, <4>2, <4>3, <4>4
    <3> QED
      BY <3>1, <3>2
  <2>4. ASSUME NEW i \in DOMAIN fns', NEW j \in DOMAIN fns', fns'[i].f = fns'[j].f PROVE i = j
    <3>1. i = Len(fns) + 1 <=> j = Len(fns) + 1
      BY <2>3, <2>4
    <3>2. CASE i # Len(fns) + 1
      <4>1. i \in DOMAIN fns /\ j \in DOMAIN fns /\ fns'[i] = fns[i] /\ fns'[j] = fns[j]
        BY <3>1, <3>2, <1>6
      <4> QED
        BY <4>1, <2>4 DEF InlineInv, Placed
    <3> QED
      BY <3>1, <3>2
  <2> QED
    BY <2>1, <2>2, <2>3, <2>4 DEF Placed
<1>13. Linked'
  <2>1. ASSUME NEW g \in Func, gens'[g] = 1, NEW x \in bodies'[g] PROVE sym'[x].elf \/ x \in stray'
    <3>1. g \in WithBody /\ g # f /\ gens[g] = 1
      BY <2>1, <1>8 DEF InlineInv, Placed
    <3>2. x \in bodies[g] /\ x \in Func
      BY <3>1, <1>7 DEF InlineInv, FnTypes, WithBody
    <3> QED
      BY <3>1, <3>2, <1>4 DEF InlineInv, Linked
  <2>2. \A g \in data' : sym'[g].elf
    BY <1>4 DEF InlineInv, Linked, FnTypes
  <2> QED
    BY <2>1, <2>2 DEF Linked
<1>14. stray' = stray /\ stray' \subseteq Func
  BY DEF InlineInv, FnTypes
<1>15. Strays'
  BY <1>4, <1>7, <1>11, <1>12, <1>14, StraysStay
<1>16. Wanted'
  BY <1>4, <1>7, <1>8, WantedStays
<1>17. Round'
  BY DEF Round
<1> QED
  BY <1>10, <1>11, <1>12, <1>13, <1>15, <1>16, <1>17 DEF InlineInv

\* The definition of a function that is not inline, which is compiled, keeps the
\* invariant.
LEMMA CompileStep ==
  ASSUME InlineInv, NEW f \in Func, NEW t \in Storages, ~ t.extern, NEW b \in FnBody,
         InlineAssumption, sym[f].known => sym[f].extern,
         NEW decl, decl = [sym EXCEPT ![f] = External(sym[f], t)], ~ decl[f].inline,
         GenFunction(decl, f, b),
         bodies' = [g \in DOMAIN bodies \cup {f} |-> IF g = f THEN b.uses ELSE bodies[g]],
         UNCHANGED <<fns, data, pos, generated, end>>, end = "no", pos = 0
  PROVE  InlineInv'
<1>1. sym \in [Func -> Entry] /\ \A g \in Func : WellFormed(sym[g])
  BY DEF InlineInv, FnTypes
<1>2. LET x == External(sym[f], t) IN
      Ages(sym[f], x) /\ x.known /\ ~ x.extern /\ x.elf = sym[f].elf
  BY <1>1, DefinedAges
<1>3. decl[f] = External(sym[f], t) /\ \A g \in Func : g # f => decl[g] = sym[g]
  BY <1>1
<1>4. \A g \in Func : Ages(sym[g], decl[g]) /\ decl[g].elf = sym[g].elf
  BY <1>1, <1>2, <1>3, AgesNot
<1>5. decl \in [Func -> Entry] /\ \A g \in Func : WellFormed(decl[g])
  BY <1>1, <1>4 DEF Ages, WellFormed
<1>6. decl[f].known /\ ~ decl[f].extern
  BY <1>2, <1>3
<1>7. /\ sym' \in [Func -> Entry] /\ \A g \in Func : Ages(decl[g], sym'[g])
      /\ \A g \in Func : (sym'[g].known /\ ~ sym'[g].extern) <=> (decl[g].known /\ ~ decl[g].extern)
      /\ sym'[f].elf
      /\ \A g \in Func : sym'[g].elf => decl[g].elf \/ g = f \/ g \in b.uses
      /\ \A g \in b.uses : sym'[g].elf \/ g \in stray'
      /\ stray \subseteq stray' /\ stray' \subseteq stray \cup Func
      /\ \A g \in stray' \ stray : /\ sym'[g].known /\ ~ sym'[g].elf
                                   /\ sym'[g].static => ~ sym'[g].extern
      /\ gens' = [gens EXCEPT ![f] = @ + 1]
  BY <1>5, <1>6, Generates
<1>8. \A g \in Func : Ages(sym[g], sym'[g]) /\ WellFormed(sym'[g])
  BY <1>4, <1>7, AgesTwice DEF Ages
<1>9. /\ WithBody' = WithBody \cup {f} /\ bodies'[f] = b.uses /\ \A g \in WithBody \ {f} : bodies'[g] = bodies[g]
      /\ WithBody \subseteq Func
  BY DEF WithBody, InlineInv, FnTypes
<1>10. f \notin WithBody /\ gens[f] = 0 /\ gens \in [Func -> Nat]
  <2>1. f \notin WithBody
    BY DEF InlineInv, Defined
  <2> QED
    BY <2>1 DEF InlineInv, Placed, FnTypes
<1>11. gens' \in [Func -> Nat] /\ gens'[f] = 1 /\ \A g \in Func : g # f => gens'[g] = gens[g]
  BY <1>7, <1>10
<1>12. b.uses \subseteq Func
  BY DEF InlineAssumption
<1>13. stray' \subseteq Func
  BY <1>7 DEF InlineInv, FnTypes
<1>14. FnTypes'
  <2>1. \A g \in DOMAIN bodies' : bodies'[g] \subseteq Func
    BY <1>9, <1>12 DEF InlineInv, FnTypes, WithBody
  <2>2. DOMAIN bodies' \subseteq Func
    BY <1>9 DEF WithBody
  <2> QED
    BY <1>7, <1>8, <1>11, <1>13, <2>1, <2>2 DEF InlineInv, FnTypes
<1>15. Defined'
  <2>1. \A g \in Func : g # f => (sym'[g].known /\ ~ sym'[g].extern <=> sym[g].known /\ ~ sym[g].extern)
    BY <1>3, <1>7
  <2> QED
    BY <2>1, <1>6, <1>7, <1>9 DEF InlineInv, Defined
<1>16. Placed'
  <2>1. \A g \in Func : gens'[g] <= 1 /\ (gens'[g] = 1 => g \in WithBody' /\ sym'[g].elf)
    BY <1>7, <1>8, <1>9, <1>11 DEF InlineInv, Placed, Ages
  <2>2. \A g \in WithBody' : gens'[g] = 1 \/ \E i \in DOMAIN fns : fns[i].f = g /\ fns[i].todo
    BY <1>9, <1>11 DEF InlineInv, Placed
  <2>3. ASSUME NEW i \in DOMAIN fns
        PROVE  /\ fns[i].f \in WithBody' /\ fns[i].body.uses = bodies'[fns[i].f]
               /\ fns[i].todo => gens'[fns[i].f] = 0
               /\ sym'[fns[i].f].static => sym'[fns[i].f].inline
    <3>1. /\ fns[i].f \in WithBody /\ fns[i].body.uses = bodies[fns[i].f]
          /\ fns[i].todo => gens[fns[i].f] = 0
          /\ sym[fns[i].f].static => sym[fns[i].f].inline
      BY DEF InlineInv, Placed
    <3>2. fns[i].f # f /\ fns[i].f \in Func
      BY <3>1, <1>9, <1>10
    <3>3. bodies'[fns[i].f] = bodies[fns[i].f] /\ gens'[fns[i].f] = gens[fns[i].f] /\ fns[i].f \in WithBody'
      BY <3>1, <3>2, <1>9, <1>11
    <3>4. sym[fns[i].f].known /\ ~ sym[fns[i].f].extern /\ Ages(sym[fns[i].f], sym'[fns[i].f])
      BY <3>1, <3>2, <1>8 DEF InlineInv, Defined
    <3>5. sym'[fns[i].f].static => sym'[fns[i].f].inline
      BY <3>1, <3>4 DEF Ages
    <3> QED
      BY <3>1, <3>3, <3>5
  <2> QED
    BY <2>1, <2>2, <2>3 DEF InlineInv, Placed
<1>17. Linked'
  <2>1. ASSUME NEW g \in Func, gens'[g] = 1, NEW x \in bodies'[g] PROVE sym'[x].elf \/ x \in stray'
    <3>1. CASE g = f
      BY <3>1, <1>7, <1>9
    <3>2. CASE g # f
      <4>1. g \in WithBody /\ gens[g] = 1
        BY <2>1, <3>2, <1>11 DEF InlineInv, Placed
      <4>2. x \in bodies[g] /\ x \in Func
        BY <3>2, <4>1, <1>9 DEF InlineInv, FnTypes, WithBody
      <4>3. sym[x].elf \/ x \in stray
        BY <4>1, <4>2 DEF InlineInv, Linked
      <4> QED
        BY <4>2, <4>3, <1>7, <1>8 DEF Ages
    <3> QED
      BY <3>1, <3>2
  <2>2. \A g \in data' : sym'[g].elf
    BY <1>8 DEF InlineInv, Linked, FnTypes, Ages
  <2> QED
    BY <2>1, <2>2 DEF Linked
<1>18. Strays'
  BY <1>7, <1>8, <1>9, <1>13, <1>15, <1>16, StraysStay
<1>19. Wanted'
  <2>1. f \in Roots'
    <3>1. ~ sym'[f].inline
      BY <1>6, <1>7 DEF Ages
    <3> QED
      BY <3>1, <1>9 DEF Roots
  <2>2. ASSUME NEW g \in Func, g = f \/ g \in b.uses, NEW S \in SUBSET Func, Closes(S)' PROVE g \in S
    <3>1. f \in S
      BY <2>1, <2>2 DEF Closes
    <3>2. bodies'[f] \subseteq S
      BY <3>1, <2>2, <1>9 DEF Closes
    <3> QED
      BY <3>1, <3>2, <2>2, <1>9
  <2>3. \A g \in Func : sym'[g].elf => sym[g].elf \/ \A S \in SUBSET Func : Closes(S)' => g \in S
    BY <2>2, <1>4, <1>7
  <2> QED
    BY <2>3, <1>8, <1>9, <1>10, WantedStays
<1>20. Round'
  BY DEF Round
<1> QED
  BY <1>14, <1>15, <1>16, <1>17, <1>18, <1>19, <1>20 DEF InlineInv

\* gen_inline_functions() compiling a function keeps the invariant.
LEMMA GenerateStep ==
  ASSUME InlineInv, InlineAssumption, end = "no", pos \in DOMAIN fns,
         fns[pos].todo, sym[fns[pos].f].elf \/ ~ sym[fns[pos].f].inline,
         fns' = [fns EXCEPT ![pos].todo = FALSE],
         GenFunction(sym, fns[pos].f, fns[pos].body),
         generated' = TRUE, pos' = pos + 1, UNCHANGED <<bodies, data, end>>
  PROVE  InlineInv'
<1> DEFINE f == fns[pos].f  b == fns[pos].body  D == [f : Func, body : FnBody, todo : BOOLEAN]
<1>1. sym \in [Func -> Entry] /\ \A g \in Func : WellFormed(sym[g])
  BY DEF InlineInv, FnTypes
<1>2. fns \in Seq(D) /\ fns[pos] \in D /\ pos \in Nat /\ DOMAIN fns = 1 .. Len(fns) /\ Len(fns) \in Nat
  <2>1. fns \in Seq(D)
    BY DEF InlineInv, FnTypes
  <2> HIDE DEF D
  <2> QED
    BY <2>1 DEF InlineInv, FnTypes
<1>3. f \in Func /\ b \in FnBody
  BY <1>2
<1>4. f \in WithBody /\ b.uses = bodies[f] /\ gens[f] = 0 /\ WithBody \subseteq Func
  BY DEF InlineInv, Placed, FnTypes, WithBody
<1>5. sym[f].known /\ ~ sym[f].extern
  BY <1>3, <1>4 DEF InlineInv, Defined
<1> HIDE DEF f, b, D
<1>6. GenFunction(sym, f, b)
  BY DEF f, b
<1>7. /\ sym' \in [Func -> Entry] /\ \A g \in Func : Ages(sym[g], sym'[g])
      /\ \A g \in Func : (sym'[g].known /\ ~ sym'[g].extern) <=> (sym[g].known /\ ~ sym[g].extern)
      /\ sym'[f].elf
      /\ \A g \in Func : sym'[g].elf => sym[g].elf \/ g = f \/ g \in b.uses
      /\ \A g \in b.uses : sym'[g].elf \/ g \in stray'
      /\ stray \subseteq stray' /\ stray' \subseteq stray \cup Func
      /\ \A g \in stray' \ stray : /\ sym'[g].known /\ ~ sym'[g].elf
                                   /\ sym'[g].static => ~ sym'[g].extern
      /\ gens' = [gens EXCEPT ![f] = @ + 1]
  BY <1>1, <1>3, <1>5, <1>6, Generates
<1>8. gens \in [Func -> Nat] /\ WithBody' = WithBody
  BY DEF InlineInv, FnTypes, WithBody
<1>9. gens' \in [Func -> Nat] /\ gens'[f] = 1 /\ \A g \in Func : g # f => gens'[g] = gens[g]
  BY <1>3, <1>4, <1>7, <1>8
<1>10. stray' \subseteq Func
  BY <1>7 DEF InlineInv, FnTypes
<1>11. /\ fns' \in Seq(D) /\ Len(fns') = Len(fns) /\ DOMAIN fns' = DOMAIN fns
       /\ \A i \in DOMAIN fns : fns'[i].f = fns[i].f /\ fns'[i].body = fns[i].body
       /\ ~ fns'[pos].todo /\ \A i \in DOMAIN fns : i # pos => fns'[i] = fns[i]
  <2> DEFINE done == [fns[pos] EXCEPT !.todo = FALSE]
  <2>1. done \in D /\ done.f = fns[pos].f /\ done.body = fns[pos].body /\ ~ done.todo
    BY <1>2 DEF D
  <2>2. fns' = [fns EXCEPT ![pos] = done]
    OBVIOUS
  <2> HIDE DEF done
  <2> DEFINE F == [fns EXCEPT ![pos] = done]
  <2>3. F \in Seq(D) /\ Len(F) = Len(fns) /\ \A i \in 1 .. Len(fns) : F[i] = IF i = pos THEN done ELSE fns[i]
    BY <2>1, <1>2, ExceptSeq
  <2>4. fns' = F
    BY <2>2
  <2> HIDE DEF F
  <2>5. /\ fns' \in Seq(D) /\ Len(fns') = Len(fns) /\ DOMAIN fns' = DOMAIN fns /\ fns'[pos] = done
        /\ \A i \in DOMAIN fns : i # pos => fns'[i] = fns[i]
    BY <2>3, <2>4, <1>2
  <2> QED
    BY <2>1, <2>5
<1>12. FnTypes'
  <2>1. \A g \in Func : WellFormed(sym'[g])
    BY <1>7 DEF Ages
  <2>2. pos' \in Nat
    BY <1>2
  <2> QED
    BY <2>1, <2>2, <1>7, <1>9, <1>10, <1>11 DEF InlineInv, FnTypes, D
<1>13. Defined'
  BY <1>7, <1>8 DEF InlineInv, Defined
<1>14. Placed'
  <2>1. \A g \in Func : gens'[g] <= 1 /\ (gens'[g] = 1 => g \in WithBody' /\ sym'[g].elf)
    BY <1>3, <1>4, <1>7, <1>8, <1>9 DEF InlineInv, Placed, Ages
  <2>2. ASSUME NEW g \in WithBody' PROVE gens'[g] = 1 \/ \E i \in DOMAIN fns' : fns'[i].f = g /\ fns'[i].todo
    <3>1. CASE g = f
      BY <3>1, <1>9
    <3>2. CASE g # f
      <4>1. gens[g] = 1 \/ \E i \in DOMAIN fns : fns[i].f = g /\ fns[i].todo
        BY <1>8 DEF InlineInv, Placed
      <4>2. CASE gens[g] = 1
        BY <3>2, <4>2, <1>4, <1>8, <1>9
      <4>3. CASE \E i \in DOMAIN fns : fns[i].f = g /\ fns[i].todo
        <5>1. PICK i \in DOMAIN fns : fns[i].f = g /\ fns[i].todo
          BY <4>3
        <5>2. i # pos
          BY <5>1, <3>2 DEF f
        <5> QED
          BY <5>1, <5>2, <1>11
      <4> QED
        BY <4>1, <4>2, <4>3
    <3> QED
      BY <3>1, <3>2
  <2>3. ASSUME NEW i \in DOMAIN fns'
        PROVE  /\ fns'[i].f \in WithBody' /\ fns'[i].body.uses = bodies'[fns'[i].f]
               /\ fns'[i].todo => gens'[fns'[i].f] = 0
               /\ sym'[fns'[i].f].static => sym'[fns'[i].f].inline
    <3>1. /\ fns[i].f \in WithBody /\ fns[i].body.uses = bodies[fns[i].f]
          /\ fns[i].todo => gens[fns[i].f] = 0
          /\ sym[fns[i].f].static => sym[fns[i].f].inline
      BY <1>11 DEF InlineInv, Placed
    <3>2. fns'[i].f = fns[i].f /\ fns'[i].body = fns[i].body /\ i \in DOMAIN fns
      BY <1>11
    <3>3. ASSUME fns'[i].todo PROVE gens'[fns[i].f] = 0
      <4>1. i # pos /\ fns[i].todo
        BY <3>3, <3>2, <1>11
      <4>2. fns[i].f # f
        BY <3>2, <4>1 DEF InlineInv, Placed, f
      <4> QED
        BY <3>1, <4>1, <4>2, <1>4, <1>9
    <3>4. sym[fns[i].f].known /\ ~ sym[fns[i].f].extern /\ Ages(sym[fns[i].f], sym'[fns[i].f])
      BY <3>1, <1>4, <1>7 DEF InlineInv, Defined
    <3>5. sym'[fns[i].f].static => sym'[fns[i].f].inline
      BY <3>1, <3>4 DEF Ages
    <3> QED
      BY <3>1, <3>2, <3>3, <3>5, <1>8
  <2>4. \A i, j \in DOMAIN fns' : fns'[i].f = fns'[j].f => i = j
    BY <1>11 DEF InlineInv, Placed
  <2> QED
    BY <2>1, <2>2, <2>3, <2>4 DEF Placed
<1>15. Linked'
  <2>1. ASSUME NEW g \in Func, gens'[g] = 1, NEW x \in bodies'[g] PROVE sym'[x].elf \/ x \in stray'
    <3>1. CASE g = f
      BY <3>1, <1>4, <1>7, <2>1
    <3>2. CASE g # f
      <4>1. g \in WithBody /\ gens[g] = 1
        BY <2>1, <3>2, <1>9 DEF InlineInv, Placed
      <4>2. x \in bodies[g] /\ x \in Func
        BY <4>1 DEF InlineInv, FnTypes, WithBody
      <4>3. sym[x].elf \/ x \in stray
        BY <4>1, <4>2 DEF InlineInv, Linked
      <4> QED
        BY <4>2, <4>3, <1>7 DEF Ages
    <3> QED
      BY <3>1, <3>2
  <2>2. \A g \in data' : sym'[g].elf
    BY <1>7 DEF InlineInv, Linked, FnTypes, Ages
  <2> QED
    BY <2>1, <2>2 DEF Linked
<1>16. Strays'
  BY <1>7, <1>8, <1>10, <1>13, <1>14, StraysStay
<1>17. Wanted'
  <2>1. ASSUME NEW S \in SUBSET Func, Closes(S)' PROVE f \in S /\ b.uses \subseteq S
    <3>1. f \in S
      <4>1. CASE sym[f].elf
        <5>1. Closes(S)
          BY <2>1, <1>7, <1>8, NeedsGrow DEF InlineInv
        <5> QED
          BY <4>1, <5>1, <1>3 DEF InlineInv, Wanted
      <4>2. CASE ~ sym[f].inline
        <5>1. ~ sym'[f].inline
          BY <4>2, <1>3, <1>5, <1>7 DEF Ages
        <5>2. f \in Roots'
          BY <5>1, <1>4, <1>8 DEF Roots
        <5> QED
          BY <5>2, <2>1 DEF Closes
      <4> QED
        BY <4>1, <4>2 DEF f
    <3> QED
      BY <3>1, <2>1, <1>4, <1>8 DEF Closes
  <2>2. \A g \in Func : sym'[g].elf => sym[g].elf \/ \A S \in SUBSET Func : Closes(S)' => g \in S
    BY <2>1, <1>7
  <2> QED
    BY <2>2, <1>7, <1>8, WantedStays
<1>18. Round'
  BY DEF Round
<1> QED
  BY <1>12, <1>13, <1>14, <1>15, <1>16, <1>17, <1>18 DEF InlineInv
-----------------------------------------------------------------------------
\* Nothing is known of any function at the start of a unit.
LEMMA InlineInitInv == FInit => InlineInv
<1> SUFFICES ASSUME FInit PROVE InlineInv
  OBVIOUS
<1>1. Unknown \in Entry /\ WellFormed(Unknown) /\ ~ Unknown.known /\ ~ Unknown.elf
  BY DEF Unknown, Entry, WellFormed
<1>2. /\ sym \in [Func -> Entry] /\ \A f \in Func : sym[f] = Unknown
      /\ stray = {} /\ fns = << >> /\ data = {} /\ DOMAIN bodies = {} /\ WithBody = {}
      /\ gens \in [Func -> Nat] /\ \A f \in Func : gens[f] = 0
      /\ pos = 0 /\ generated = FALSE /\ end = "no"
  BY <1>1 DEF FInit, WithBody
<1>3. FnTypes
  <2>1. fns \in Seq([f : Func, body : FnBody, todo : BOOLEAN])
    BY <1>2
  <2>2. /\ \A f \in Func : WellFormed(sym[f])
        /\ stray \subseteq Func /\ data \subseteq Func
        /\ DOMAIN bodies \subseteq Func
        /\ \A f \in DOMAIN bodies : bodies[f] \subseteq Func
        /\ pos \in Nat /\ generated \in BOOLEAN /\ end \in {"no", "ok", "error"}
    BY <1>1, <1>2
  <2> QED
    BY <1>2, <2>1, <2>2 DEF FnTypes
<1>4. DOMAIN fns = {}
  BY <1>2
<1>5. Defined /\ Placed /\ Linked /\ Strays /\ Wanted /\ Round
  BY <1>1, <1>2, <1>4 DEF Defined, Placed, Linked, Strays, Wanted, Round
<1> QED
  BY <1>3, <1>5 DEF InlineInv

\* A definition keeps the invariant, whether the function is inline or not.
LEMMA DefineFnStep ==
  ASSUME InlineInv, NEW f \in Func, NEW storage, NEW inl \in BOOLEAN, NEW b \in FnBody,
         DefineFn(f, Type(storage, inl), b)
  PROVE  InlineInv'
<1> DEFINE t == Definition(Storage(Type(storage, inl)))
           decl == [sym EXCEPT ![f] = External(sym[f], t)]
<1>1. t \in Storages /\ ~ t.extern
  BY StorageIs
<1>2. /\ sym[f].known => sym[f].extern
      /\ IF decl[f].inline
         THEN /\ fns' = Append(fns, [f |-> f, body |-> b, todo |-> TRUE])
              /\ sym' = decl /\ UNCHANGED <<stray, gens>>
         ELSE GenFunction(decl, f, b) /\ UNCHANGED fns
      /\ bodies' = [g \in DOMAIN bodies \cup {f} |-> IF g = f THEN b.uses ELSE bodies[g]]
      /\ UNCHANGED <<data, pos, generated, end>> /\ end = "no" /\ pos = 0
  BY DEF DefineFn, AtFileScope
<1> HIDE DEF t
<1>3. CASE decl[f].inline
  <2>1. sym' = [sym EXCEPT ![f] = External(sym[f], t)] /\ sym'[f].inline
    BY <1>2, <1>3
  <2> QED
    BY <2>1, <1>1, <1>2, <1>3, InlineAssumption, PutAsideStep
<1>4. CASE ~ decl[f].inline
  <2> HIDE DEF decl
  <2>1. decl = [sym EXCEPT ![f] = External(sym[f], t)]
    BY DEF decl
  <2> QED
    BY <2>1, <1>1, <1>2, <1>4, InlineAssumption, CompileStep
<1> QED
  BY <1>3, <1>4

\* A round of gen_inline_functions() over one function keeps the invariant.
LEMMA GenInlineStep ==
  ASSUME InlineInv, GenInline
  PROVE  InlineInv'
<1>1. CASE fns[pos].todo /\ (sym[fns[pos].f].elf \/ ~ sym[fns[pos].f].inline)
  BY <1>1, InlineAssumption, GenerateStep DEF GenInline
<1>2. CASE ~ (fns[pos].todo /\ (sym[fns[pos].f].elf \/ ~ sym[fns[pos].f].inline))
  <2>1. /\ UNCHANGED <<sym, stray, fns, bodies, gens, data, generated, end>>
        /\ pos' = pos + 1 /\ pos \in DOMAIN fns /\ end = "no"
    BY <1>2 DEF GenInline
  <2>2. pos \in 1 .. Len(fns) /\ DOMAIN fns = 1 .. Len(fns) /\ pos \in Nat
    BY <2>1 DEF InlineInv, FnTypes
  <2>3. sym \in [Func -> Entry] /\ sym[fns[pos].f].elf \in BOOLEAN /\ sym[fns[pos].f].inline \in BOOLEAN
    <3>1. fns[pos].f \in Func
      BY <2>1 DEF InlineInv, Placed, FnTypes, WithBody
    <3> QED
      BY <3>1 DEF InlineInv, FnTypes, Entry
  <2>4. Round'
    <3>1. \A i \in DOMAIN fns : i < pos' => i < pos \/ i = pos
      BY <2>1, <2>2
    <3> QED
      BY <1>2, <2>1, <2>2, <2>3, <3>1 DEF InlineInv, Round
  <2>5. FnTypes'
    BY <2>1, <2>2 DEF InlineInv, FnTypes
  <2>6. WithBody' = WithBody /\ Roots' = Roots
    BY <2>1 DEF WithBody, Roots
  <2>7. Defined' /\ Placed' /\ Linked' /\ Strays'
    BY <2>1, <2>6 DEF InlineInv, Defined, Placed, Linked, Strays
  <2>8. Wanted'
    BY <2>1, <2>6 DEF InlineInv, Wanted, Closes
  <2> QED
    BY <2>4, <2>5, <2>7, <2>8 DEF InlineInv
<1> QED
  BY <1>1, <1>2

\* A step that leaves the functions alone keeps the invariant if the loop's does.
LEMMA FunctionsAlone ==
  ASSUME InlineInv, UNCHANGED <<sym, stray, fns, bodies, gens, data>>,
         pos' \in Nat, generated' \in BOOLEAN, end' \in {"no", "ok", "error"}, Round'
  PROVE  InlineInv'
<1>1. WithBody' = WithBody /\ Roots' = Roots
  BY DEF WithBody, Roots
<1>2. Defined' /\ Placed' /\ Linked' /\ Strays'
  BY <1>1 DEF InlineInv, Defined, Placed, Linked, Strays
<1>3. Wanted'
  BY <1>1 DEF InlineInv, Wanted, Closes
<1>4. FnTypes'
  BY DEF InlineInv, FnTypes
<1> QED
  BY <1>2, <1>3, <1>4 DEF InlineInv

\* Every declaration, definition and use, and every step of
\* gen_inline_functions(), keeps the invariant.
LEMMA InlineStep == InlineInv /\ [FNext]_fvars => InlineInv'
<1> SUFFICES ASSUME InlineInv, [FNext]_fvars PROVE InlineInv'
  OBVIOUS
<1>0. pos \in Nat /\ generated \in BOOLEAN /\ end \in {"no", "ok", "error"} /\ Len(fns) \in Nat
      /\ DOMAIN fns = 1 .. Len(fns)
  BY DEF InlineInv, FnTypes
<1>1. CASE UNCHANGED fvars
  <2>1. UNCHANGED <<sym, stray, fns, bodies, gens, data, pos, generated, end>>
    BY <1>1 DEF fvars
  <2>2. Round'
    BY <2>1 DEF InlineInv, Round
  <2> QED
    BY <2>1, <2>2, <1>0, FunctionsAlone
<1>2. CASE \E f \in Func, storage \in {"none", "extern", "static"}, inl \in BOOLEAN :
             \/ DeclareFn(f, Type(storage, inl))
             \/ \E b \in FnBody : DefineFn(f, Type(storage, inl), b)
  BY <1>2, DeclareStep, DefineFnStep
<1>3. CASE \E f \in Func : RedefineFn(f)
  <2>1. UNCHANGED <<sym, stray, fns, bodies, gens, data, pos, generated>> /\ pos = 0 /\ end' = "error"
    BY <1>3 DEF RedefineFn, AtFileScope
  <2>2. Round'
    BY <2>1 DEF Round
  <2> QED
    BY <2>1, <2>2, <1>0, FunctionsAlone
<1>4. CASE \E f \in Func : UseInData(f)
  BY <1>4, UseInDataStep
<1>5. CASE EndOfUnit
  <2>1. UNCHANGED <<sym, stray, fns, bodies, gens, data, generated, end>> /\ pos' = 1 /\ end = "no"
    BY <1>5 DEF EndOfUnit
  <2>2. Round'
    BY <2>1, <1>0 DEF Round
  <2> QED
    BY <2>1, <2>2, <1>0, FunctionsAlone
<1>6. CASE GenInline
  BY <1>6, GenInlineStep
<1>7. CASE EndOfPass
  <2>1. /\ UNCHANGED <<sym, stray, fns, bodies, gens, data>> /\ end = "no" /\ pos > Len(fns)
        /\ IF generated THEN pos' = 1 /\ generated' = FALSE /\ UNCHANGED end
           ELSE end' = "ok" /\ UNCHANGED <<pos, generated>>
    BY <1>7 DEF EndOfPass
  <2>2. CASE generated
    <3>1. Round'
      BY <2>1, <2>2, <1>0 DEF Round
    <3>2. pos' \in Nat /\ generated' \in BOOLEAN /\ end' \in {"no", "ok", "error"}
      <4>1. pos' = 1 /\ generated' = FALSE /\ end' = end
        BY <2>1, <2>2
      <4> QED
        BY <4>1, <1>0
    <3> QED
      BY <2>1, <3>1, <3>2, FunctionsAlone
  <2>3. CASE ~ generated
    <3>1. Round'
      BY <2>1, <2>3, <1>0 DEF InlineInv, Round
    <3> QED
      BY <2>1, <2>3, <3>1, <1>0, FunctionsAlone
  <2> QED
    BY <2>2, <2>3
<1> QED
  BY <1>1, <1>2, <1>3, <1>4, <1>5, <1>6, <1>7 DEF FNext

\* So it holds at every state of a unit.
THEOREM InlineInvariant == FSpec => []InlineInv
BY InlineInitInv, InlineStep, PTL DEF FSpec

\* gen_inline_functions(): what is needed is compiled, once, and nothing else is.
THEOREM NeededIsCompiled == FSpec => []InlineClosure
BY InlineInvariant, InlineInvImplies, PTL

-----------------------------------------------------------------------------
(* Pragmas.                                                                *)

\* What a cell of define_stack holds, and what a macro can mean.
Defs == [v : Macro, d : Body \cup {NoBody}, mark : BOOLEAN]
Meanings == Body \cup {NoBody, "undefined"}

\* The builtins, as every file begins with them.
Builtins == SetToSeq({Def(v, NoBody) : v \in Builtin})

\* The definitions of a macro that pop_macro may go back to.
Marked(D, v) == {i \in 1 .. Len(D) : D[i].v = v /\ D[i].mark}

\* What is meant by a saved definition.
Saved(D, i) == IF D[i].d = NoBody THEN "undefined" ELSE D[i].d

\* The token table leads to a definition of the same name.
Aims(D, T, v) ==
  T[v] # 0 => T[v] \in 1 .. Len(D) /\ D[T[v]].v = v

\* The values the variables have.
PragmaTypes ==
  /\ defines \in Seq(Defs)
  /\ table \in [Macro -> Nat] /\ \A v \in Macro : Aims(defines, table, v)
  /\ status \in {"run", "error"}
  /\ pushed \in [Macro -> Seq(Meanings)]

\* pack_stack is the history of the alignments pushed, with the one in force on top.
PackInv ==
  /\ pack \in Seq(Align \cup {0}) /\ packs \in Seq(Align \cup {0})
  /\ Len(pack) = Len(packs) + 1 /\ Len(pack) <= PACK_STACK_SIZE
  /\ \A k \in 1 .. Len(packs) : packs[k] = pack[k]

\* The definition in force is one with a body and is as late as any marked one.
Current(D, T, v) ==
  T[v] # 0 => D[T[v]].d # NoBody /\ \A i \in Marked(D, v) : i <= T[v]

\* The marked definitions are, in their order q, those that P has saved.
Holds(D, v, P, q) ==
  /\ \A k \in 1 .. Len(P) : q[k] \in Marked(D, v) /\ P[k] = Saved(D, q[k])
  /\ \A j, k \in 1 .. Len(P) : j < k => q[j] < q[k]
  /\ \A i \in Marked(D, v) : \E k \in 1 .. Len(P) : q[k] = i

\* The marks stand for what P has saved.
Stacked(D, v, P) == \E q \in [1 .. Len(P) -> 1 .. Len(D)] : Holds(D, v, P, q)

\* The invariant of the macros; a builtin's or one pushed twice is outside of it.
MacroInv ==
  \A v \in Macro \ Builtin :
    /\ Current(defines, table, v)
    /\ v \notin again => Stacked(defines, v, pushed[v])

\* The inductive invariant.
PragmaInv == PragmaTypes /\ PackInv /\ MacroInv

-----------------------------------------------------------------------------
\* tccpp_new() makes one unmarked definition of each builtin, and nothing else.
LEMMA BuiltinsAre ==
  /\ Builtins \in Seq(Defs)
  /\ \A i \in 1 .. Len(Builtins) :
       Builtins[i].v \in Builtin /\ Builtins[i].d = NoBody /\ ~ Builtins[i].mark
  /\ \A v \in Builtin : \E i \in 1 .. Len(Builtins) : Builtins[i].v = v
<1> DEFINE S == {Def(v, NoBody) : v \in Builtin}
           f == [v \in Builtin |-> Def(v, NoBody)]
<1>1. f \in Surjection(Builtin, S)
  BY DEF Surjection
<1>2. IsFiniteSet(S)
  BY <1>1, FS_Surjection, PragmaAssumption
<1>3. Cardinality(S) \in Nat /\ ExistsBijection(1 .. Cardinality(S), S)
  BY <1>2, FS_CardinalityType
<1>4. PICK g \in [1 .. Cardinality(S) -> S] : IsInjective(g)
  BY <1>3, Zenon DEF ExistsBijection, Bijection, Injection
<1>5. Builtins \in [1 .. Cardinality(S) -> S] /\ IsInjective(Builtins)
  BY <1>4, Zenon DEF Builtins, SetToSeq
<1>6. Cardinality(1 .. Cardinality(S)) = Cardinality(S)
  BY <1>3, FS_Interval
<1>7. Builtins \in Surjection(1 .. Cardinality(S), S)
  <2>1. Builtins \in Injection(1 .. Cardinality(S), S)
    BY <1>5, Zenon DEF Injection
  <2> QED
    BY <2>1, <1>2, <1>6, FS_Injection, Zenon
<1>8. S \subseteq Defs
  <2>1. \A v \in Builtin : Def(v, NoBody) \in Defs
    BY PragmaAssumption DEF Defs, Def
  <2> QED
    BY <2>1
<1>9. Builtins \in Seq(S) /\ Len(Builtins) = Cardinality(S)
  <2> HIDE DEF S
  <2>1. \A n \in Nat : Builtins \in [1 .. n -> S] => Builtins \in Seq(S) /\ Len(Builtins) = n
    OBVIOUS
  <2> QED
    BY <2>1, <1>3, <1>5
<1>10. \A i \in 1 .. Len(Builtins) : Builtins[i] \in S
  BY <1>5, <1>9
<1>11. \A d \in S : d.v \in Builtin /\ d.d = NoBody /\ ~ d.mark
  BY DEF Def
<1>12. ASSUME NEW v \in Builtin PROVE \E i \in 1 .. Len(Builtins) : Builtins[i].v = v
  <2>1. Def(v, NoBody) \in S
    OBVIOUS
  <2>2. PICK i \in 1 .. Len(Builtins) : Builtins[i] = Def(v, NoBody)
    BY <2>1, <1>7, <1>9, Zenon DEF Surjection
  <2> QED
    BY <2>2 DEF Def
<1>13. Builtins \in Seq(Defs)
  BY <1>8, <1>9, SeqMonotonic
<1> HIDE DEF S, f
<1> QED
  BY <1>10, <1>11, <1>12, <1>13

\* A set of positions of define_stack that is not empty has a latest one.
LEMMA LatestMark ==
  ASSUME NEW n \in Nat, NEW I, I \subseteq 1 .. n, I # {}
  PROVE  \E s \in I : \A j \in I : j <= s
<1> DEFINE B == {x \in 0 .. n : n - x \in I}
<1>1. B \subseteq Nat /\ B # {}
  <2>1. PICK i \in I : TRUE
    OBVIOUS
  <2>2. n - i \in 0 .. n /\ n - (n - i) = i
    OBVIOUS
  <2>3. n - i \in B
    BY <2>2
  <2>4. B \subseteq Nat
    OBVIOUS
  <2> HIDE DEF B
  <2> QED
    BY <2>3, <2>4
<1>2. \E x \in B : \A y \in B : ~ (<<y, x>> \in OpToRel(<, Nat))
  BY <1>1, NatLessThanWellFounded, WFMin
<1>3. \A x, y \in B : ~ (<<y, x>> \in OpToRel(<, Nat)) => x =< y
  BY <1>1 DEF OpToRel
<1>4. PICK x \in B : \A y \in B : x =< y
  BY <1>2, <1>3
<1>5. \A j \in I : n - j \in B
  OBVIOUS
<1>6. \A j \in I : x =< n - j
  BY <1>4, <1>5
<1>7. n - x \in I /\ x \in Nat
  BY <1>4
<1> QED
  BY <1>6, <1>7

\* The definitions of a macro are the same after a step, except for new ones
\* that are not marked.
Same(D, E, v) ==
  /\ Len(D) <= Len(E)
  /\ \A i \in 1 .. Len(D) :
       E[i] = D[i] \/ (D[i].v # v /\ E[i].v # v)
  /\ \A i \in 1 .. Len(E) : i > Len(D) => E[i].v # v \/ ~ E[i].mark

\* A step that leaves a macro's definitions alone leaves its saved ones alone.
LEMMA SameMarked ==
  ASSUME NEW D \in Seq(Defs), NEW E \in Seq(Defs), NEW v, Same(D, E, v)
  PROVE  Marked(E, v) = Marked(D, v)
BY DEF Same, Marked

\* ... and so what its marks stand for.
LEMMA SameStacked ==
  ASSUME NEW D \in Seq(Defs), NEW E \in Seq(Defs), NEW v, Same(D, E, v),
         NEW P \in Seq(Meanings), Stacked(D, v, P)
  PROVE  Stacked(E, v, P)
<1>1. PICK q \in [1 .. Len(P) -> 1 .. Len(D)] : Holds(D, v, P, q)
  BY DEF Stacked
<1>2. q \in [1 .. Len(P) -> 1 .. Len(E)]
  BY <1>1 DEF Same
<1>3. \A i \in Marked(D, v) : Saved(E, i) = Saved(D, i)
  BY DEF Same, Saved, Marked
<1>4. Holds(E, v, P, q)
  BY <1>1, <1>3, SameMarked DEF Holds
<1> QED
  BY <1>2, <1>4 DEF Stacked

\* ... and the definition in force, if the token table is the same.
LEMMA SameCurrent ==
  ASSUME NEW D \in Seq(Defs), NEW E \in Seq(Defs), NEW v, Same(D, E, v),
         NEW T, T[v] \in Nat, Aims(D, T, v), Current(D, T, v)
  PROVE  Aims(E, T, v) /\ Current(E, T, v)
<1>1. Marked(E, v) = Marked(D, v)
  BY SameMarked
<1>2. T[v] # 0 => E[T[v]] = D[T[v]] /\ T[v] \in 1 .. Len(E)
  BY DEF Same, Aims
<1> QED
  BY <1>1, <1>2 DEF Aims, Current

-----------------------------------------------------------------------------
\* What is left after the top of a stack is popped.
LEMMA FrontIs ==
  ASSUME NEW S, NEW s \in Seq(S), Len(s) > 0
  PROVE  /\ Front(s) \in Seq(S) /\ Len(Front(s)) = Len(s) - 1
         /\ \A k \in 1 .. Len(s) - 1 : Front(s)[k] = s[k]
<1>1. \A i \in 1 .. Len(s) - 1 : s[i] \in S
  OBVIOUS
<1>2. Len(s) \in Nat
  OBVIOUS
<1>3. \A n \in Nat : (\A i \in 1 .. n : s[i] \in S)
        => /\ SubSeq(s, 1, n) \in Seq(S) /\ Len(SubSeq(s, 1, n)) = n
           /\ \A i \in 1 .. n : SubSeq(s, 1, n)[i] = s[i]
  <2> TAKE n \in Nat
  <2> HAVE \A i \in 1 .. n : s[i] \in S
  <2>1. /\ SubSeq(s, 1, n) \in Seq(S)
        /\ Len(SubSeq(s, 1, n)) = IF 1 <= n THEN n - 1 + 1 ELSE 0
        /\ \A i \in 1 .. n - 1 + 1 : SubSeq(s, 1, n)[i] = s[1 + i - 1]
    BY SubSeqProperties
  <2>2. n - 1 + 1 = n /\ (~ (1 <= n) => n = 0) /\ \A i \in 1 .. n : 1 + i - 1 = i
    OBVIOUS
  <2> QED
    BY <2>1, <2>2
<1>4. Len(s) - 1 \in Nat
  BY <1>2
<1>5. /\ SubSeq(s, 1, Len(s) - 1) \in Seq(S) /\ Len(SubSeq(s, 1, Len(s) - 1)) = Len(s) - 1
      /\ \A i \in 1 .. Len(s) - 1 : SubSeq(s, 1, Len(s) - 1)[i] = s[i]
  BY <1>1, <1>3, <1>4
<1> QED
  BY <1>5 DEF Front

\* The pack stack and its history after #pragma pack.
LEMMA PackStep ==
  ASSUME PragmaInv, PragmaNext
  PROVE  PackInv'
<1> USE DEF PragmaInv, PackInv
<1>1. ASSUME NEW n \in Align \cup {0}, Pack(n) PROVE PackInv'
  <2>1. pack' \in Seq(Align \cup {0}) /\ Len(pack') = Len(pack)
        /\ \A k \in 1 .. Len(pack) - 1 : pack'[k] = pack[k]
    BY <1>1 DEF Pack
  <2> QED
    BY <1>1, <2>1 DEF Pack
<1>2. ASSUME NEW n \in Align, NEW keep \in BOOLEAN, PackPush(keep, n) PROVE PackInv'
  <2>1. CASE Len(pack) >= PACK_STACK_SIZE
    BY <1>2, <2>1 DEF PackPush, pack_vars
  <2>2. CASE ~ (Len(pack) >= PACK_STACK_SIZE)
    <3> DEFINE x == IF keep THEN Last(pack) ELSE n
    <3>1. x \in Align \cup {0} /\ Last(pack) \in Align \cup {0}
      BY DEF Last
    <3>2. pack' = Append(pack, x) /\ packs' = Append(packs, Last(pack))
      BY <1>2, <2>2 DEF PackPush
    <3> HIDE DEF x
    <3>3. /\ pack' \in Seq(Align \cup {0}) /\ Len(pack') = Len(pack) + 1
          /\ packs' \in Seq(Align \cup {0}) /\ Len(packs') = Len(packs) + 1
          /\ \A k \in 1 .. Len(pack) : pack'[k] = pack[k]
          /\ \A k \in 1 .. Len(packs) : packs'[k] = packs[k]
          /\ packs'[Len(pack)] = pack[Len(pack)]
      BY <3>1, <3>2 DEF Last
    <3>4. /\ Len(pack) = Len(packs) + 1 /\ Len(packs) \in Nat /\ Len(pack) + 1 <= PACK_STACK_SIZE
          /\ \A k \in 1 .. Len(packs) : packs[k] = pack[k]
      BY <2>2, PragmaAssumption
    <3>5. \A k \in 1 .. Len(packs') : packs'[k] = pack'[k]
      <4> TAKE k \in 1 .. Len(packs')
      <4>1. k \in 1 .. Len(pack) /\ (k \in 1 .. Len(packs) \/ k = Len(pack))
        BY <3>3, <3>4
      <4>2. CASE k \in 1 .. Len(packs)
        BY <3>3, <3>4, <4>1, <4>2
      <4>3. CASE k = Len(pack)
        BY <3>3, <4>1, <4>3
      <4> QED
        BY <4>1, <4>2, <4>3
    <3> QED
      BY <3>3, <3>4, <3>5
  <2> QED
    BY <2>1, <2>2
<1>3. ASSUME PackPop PROVE PackInv'
  <2>1. CASE Len(pack) <= 1
    BY <1>3, <2>1 DEF PackPop, pack_vars
  <2>2. CASE ~ (Len(pack) <= 1)
    <3>1. pack' = Front(pack) /\ packs' = Front(packs)
      BY <1>3, <2>2 DEF PackPop
    <3>2. /\ pack' \in Seq(Align \cup {0}) /\ Len(pack') = Len(pack) - 1
          /\ packs' \in Seq(Align \cup {0}) /\ Len(packs') = Len(packs) - 1
          /\ \A k \in 1 .. Len(pack) - 1 : pack'[k] = pack[k]
          /\ \A k \in 1 .. Len(packs) - 1 : packs'[k] = packs[k]
      <4>1. /\ pack \in Seq(Align \cup {0}) /\ Len(pack) > 0
            /\ packs \in Seq(Align \cup {0}) /\ Len(packs) > 0
        BY <2>2
      <4>2. /\ Front(pack) \in Seq(Align \cup {0}) /\ Len(Front(pack)) = Len(pack) - 1
            /\ \A k \in 1 .. Len(pack) - 1 : Front(pack)[k] = pack[k]
        BY <4>1, FrontIs
      <4>3. /\ Front(packs) \in Seq(Align \cup {0}) /\ Len(Front(packs)) = Len(packs) - 1
            /\ \A k \in 1 .. Len(packs) - 1 : Front(packs)[k] = packs[k]
        BY <4>1, FrontIs
      <4> QED
        BY <3>1, <4>2, <4>3
    <3>3. Len(pack) \in Nat /\ Len(packs) \in Nat /\ PACK_STACK_SIZE \in Nat
      BY PragmaAssumption
    <3>4. \A k \in 1 .. Len(packs') : packs'[k] = pack'[k]
      <4> TAKE k \in 1 .. Len(packs')
      <4>1. k \in 1 .. Len(packs) - 1 /\ k \in 1 .. Len(pack) - 1 /\ k \in 1 .. Len(packs)
        BY <3>2, <3>3
      <4> QED
        BY <4>1, <3>2
    <3> QED
      BY <3>2, <3>3, <3>4
  <2> QED
    BY <2>1, <2>2
<1>4. CASE NextFile
  BY <1>4, PragmaAssumption DEF NextFile
<1>5. CASE UNCHANGED pack_vars
  BY <1>5 DEF pack_vars
<1> QED
  BY <1>1, <1>2, <1>3, <1>4, <1>5 DEF PragmaNext, Define, Undef, PushMacro, PopMacro

\* #define leaves everything as it is but the name it defines.
LEMMA DefineStep ==
  ASSUME PragmaInv, NEW v \in Macro \ Builtin, NEW d \in Body, Define(v, d)
  PROVE  PragmaTypes' /\ MacroInv'
<1> DEFINE D == defines E == defines' s == Len(defines) + 1
<1>1. PragmaTypes /\ MacroInv
  BY DEF PragmaInv
<1>2. Def(v, d) \in Defs /\ Def(v, d).v = v /\ Def(v, d).d # NoBody /\ ~ Def(v, d).mark
  BY PragmaAssumption DEF Def, Defs
<1>3. /\ E \in Seq(Defs) /\ Len(E) = s /\ s \in Nat /\ s > Len(D)
      /\ \A i \in 1 .. Len(D) : E[i] = D[i]
      /\ E[s].v = v /\ E[s].d # NoBody /\ ~ E[s].mark
  BY <1>1, <1>2 DEF PragmaTypes, Define
<1>4. \A w : Same(D, E, w)
  BY <1>3 DEF Same
<1>5. table' \in [Macro -> Nat] /\ table'[v] = s /\ \A w \in Macro : w # v => table'[w] = table[w]
  BY <1>1, <1>3 DEF PragmaTypes, Define
<1>6. UNCHANGED <<status, pushed, again>>
  BY DEF Define
<1>7. Aims(E, table', v) /\ Current(E, table', v)
  BY <1>3, <1>5 DEF Aims, Current, Marked
<1>8. ASSUME NEW w \in Macro, w # v
      PROVE  Aims(E, table', w) /\ (w \notin Builtin => Current(E, table', w))
  <2>1. table'[w] = table[w] /\ table[w] \in Nat /\ Aims(D, table, w)
    BY <1>1, <1>5, <1>8 DEF PragmaTypes
  <2>2. Same(D, E, w)
    BY <1>4
  <2>3. Aims(E, table', w)
    BY <2>1, <2>2 DEF Aims, Same
  <2>4. ASSUME w \notin Builtin PROVE Current(E, table', w)
    <3>1. Current(D, table, w)
      BY <1>1, <2>4 DEF MacroInv
    <3>2. Current(E, table, w)
      BY <3>1, <2>1, <2>2, <1>1, <1>3, SameCurrent DEF PragmaTypes
    <3> QED
      BY <3>2, <2>1 DEF Current
  <2> QED
    BY <2>3, <2>4
<1>9. \A w \in Macro \ Builtin : w \notin again => Stacked(E, w, pushed[w])
  BY <1>1, <1>3, <1>4, SameStacked DEF PragmaTypes, MacroInv
<1> QED
  BY <1>1, <1>3, <1>5, <1>6, <1>7, <1>8, <1>9 DEF PragmaTypes, MacroInv

\* #undef makes the name's definition unreachable and keeps it on the stack.
LEMMA UndefStep ==
  ASSUME PragmaInv, NEW v \in Macro, Undef(v)
  PROVE  PragmaTypes' /\ MacroInv'
<1>1. /\ table' \in [Macro -> Nat] /\ table'[v] = 0
      /\ \A w \in Macro : w # v => table'[w] = table[w]
  BY DEF Undef, PragmaInv, PragmaTypes
<1> QED
  BY <1>1 DEF Undef, PragmaInv, PragmaTypes, MacroInv, Aims, Current

\* #pragma push_macro adds the current meaning to the saved ones, provided that
\* it is not among them yet.
LEMMA PushStep ==
  ASSUME PragmaInv, NEW v \in Macro, PushMacro(v)
  PROVE  PragmaTypes' /\ MacroInv'
<1> DEFINE D == defines
           N == IF table[v] = 0 THEN Append(D, Def(v, NoBody)) ELSE D
           s == IF table[v] = 0 THEN Len(N) ELSE table[v]
           E == defines'
           P == pushed[v]
           m == Meaning(v)
<1>1. PragmaTypes /\ MacroInv
  BY DEF PragmaInv
<1>2. D \in Seq(Defs) /\ table[v] \in Nat /\ Aims(D, table, v) /\ P \in Seq(Meanings)
  BY <1>1 DEF PragmaTypes
<1>3. Def(v, NoBody) \in Defs /\ Def(v, NoBody).v = v /\ Def(v, NoBody).d = NoBody
      /\ ~ Def(v, NoBody).mark
  BY DEF Def, Defs
<1>4. /\ N \in Seq(Defs) /\ Len(D) <= Len(N)
      /\ \A i \in 1 .. Len(D) : N[i] = D[i]
      /\ s \in 1 .. Len(N) /\ N[s].v = v
      /\ table[v] # 0 => s = table[v] /\ Len(N) = Len(D)
      /\ table[v] = 0 => s = Len(D) + 1 /\ Len(N) = s /\ N[s].d = NoBody /\ ~ N[s].mark
  BY <1>2, <1>3 DEF Aims
<1>5. m \in Meanings /\ (v \notin Builtin => m = Saved(N, s))
  <2>1. N[s].d \in Body \cup {NoBody}
    <3>1. N \in Seq(Defs) /\ s \in 1 .. Len(N)
      BY <1>4
    <3> HIDE DEF N, s
    <3>2. N[s] \in Defs
      BY <3>1
    <3> QED
      BY <3>2 DEF Defs
  <2>2. CASE table[v] = 0
    BY <2>2, <1>4 DEF Meaning, Saved, Meanings
  <2>3. CASE table[v] # 0
    <3>1. m = N[s].d
      BY <2>3, <1>2, <1>4 DEF Meaning, Aims
    <3>2. v \notin Builtin => N[s].d # NoBody
      BY <2>3, <1>1, <1>2, <1>4 DEF MacroInv, Current, Aims
    <3> HIDE DEF N, s, m
    <3> QED
      BY <2>1, <3>1, <3>2 DEF Saved, Meanings
  <2> QED
    BY <2>2, <2>3
<1>6. /\ E = [N EXCEPT ![s].mark = TRUE]
      /\ table' = [table EXCEPT ![v] = IF N[s].d # NoBody THEN s ELSE 0]
      /\ pushed' = [pushed EXCEPT ![v] = Append(@, m)]
      /\ again' = IF N[s].mark THEN again \cup {v} ELSE again
      /\ status' = status
  BY DEF PushMacro
<1> HIDE DEF N, s, m
<1>7. /\ E \in Seq(Defs) /\ Len(E) = Len(N)
      /\ \A i \in 1 .. Len(N) : i # s => E[i] = N[i]
      /\ E[s].v = v /\ E[s].d = N[s].d /\ E[s].mark
  <2>1. N[s] \in Defs
    BY <1>4
  <2>2. [N[s] EXCEPT !.mark = TRUE] \in Defs
    BY <2>1 DEF Defs
  <2>3. /\ E \in Seq(Defs) /\ Len(E) = Len(N) /\ E[s] = [N[s] EXCEPT !.mark = TRUE]
        /\ \A i \in 1 .. Len(N) : i # s => E[i] = N[i]
    <3>1. E = [N EXCEPT ![s] = [N[s] EXCEPT !.mark = TRUE]] /\ N \in Seq(Defs) /\ s \in 1 .. Len(N)
      BY <1>4, <1>6, Zenon
    <3> HIDE DEF E
    <3> DEFINE x == [N[s] EXCEPT !.mark = TRUE]
    <3>2. x \in Defs
      BY <2>2
    <3> HIDE DEF x
    <3>3. E = [N EXCEPT ![s] = x]
      BY <3>1 DEF x
    <3> DEFINE F == [N EXCEPT ![s] = x]
    <3>4. /\ F \in Seq(Defs) /\ Len(F) = Len(N)
          /\ \A i \in 1 .. Len(N) : F[i] = IF i = s THEN x ELSE N[i]
      BY <3>1, <3>2, ExceptSeq
    <3> HIDE DEF F
    <3>5. E = F
      BY <3>3 DEF F
    <3>6. E \in Seq(Defs) /\ Len(E) = Len(N) /\ E[s] = x /\ \A i \in 1 .. Len(N) : i # s => E[i] = N[i]
      BY <3>1, <3>4, <3>5
    <3> QED
      BY <3>6 DEF x
  <2> QED
    BY <2>1, <2>3, <1>4 DEF Defs
<1>8. /\ table' \in [Macro -> Nat] /\ table'[v] = IF N[s].d # NoBody THEN s ELSE 0
      /\ \A w \in Macro : w # v => table'[w] = table[w]
  BY <1>1, <1>4, <1>6 DEF PragmaTypes
<1>9. /\ pushed' \in [Macro -> Seq(Meanings)] /\ pushed'[v] = Append(P, m)
      /\ \A w \in Macro : w # v => pushed'[w] = pushed[w]
  BY <1>1, <1>2, <1>5, <1>6 DEF PragmaTypes
<1> HIDE DEF D, E, P
<1>10. ASSUME NEW w \in Macro, w # v PROVE Same(D, E, w)
  <2>1. \A i \in 1 .. Len(D) : E[i] = D[i] \/ (i = s /\ D[i].v = v /\ E[i].v = v)
    BY <1>2, <1>4, <1>7
  <2>2. \A i \in 1 .. Len(E) : i > Len(D) => E[i].v = v
    BY <1>2, <1>4, <1>7
  <2> QED
    BY <1>2, <1>4, <1>7, <1>10, <2>1, <2>2 DEF Same
<1>11. Aims(E, table', v)
  BY <1>4, <1>7, <1>8 DEF Aims
<1>12. ASSUME NEW w \in Macro, w # v PROVE Aims(E, table', w)
  BY <1>1, <1>2, <1>4, <1>7, <1>8, <1>10, <1>12 DEF PragmaTypes, Aims, Same, D
<1>13. ASSUME NEW w \in Macro \ Builtin, w # v
       PROVE  Current(E, table', w) /\ (w \notin again' => Stacked(E, w, pushed'[w]))
  <2>1. /\ table'[w] = table[w] /\ table[w] \in Nat /\ Aims(D, table, w) /\ Current(D, table, w)
        /\ pushed'[w] = pushed[w] /\ pushed[w] \in Seq(Meanings)
        /\ w \notin again => Stacked(D, w, pushed[w])
    BY <1>1, <1>8, <1>9, <1>13 DEF PragmaTypes, MacroInv, D
  <2>2. Same(D, E, w)
    BY <1>10, <1>13
  <2>3. Current(E, table, w)
    BY <2>1, <2>2, <1>2, <1>7, SameCurrent
  <2>4. w \notin again => Stacked(E, w, pushed[w])
    BY <2>1, <2>2, <1>2, <1>7, SameStacked
  <2>5. again \subseteq again'
    BY <1>6
  <2> QED
    BY <2>1, <2>3, <2>4, <2>5 DEF Current
<1>14. ASSUME v \notin Builtin PROVE \A i \in Marked(N, v) : i <= s
  <2>1. Current(D, table, v)
    BY <1>1, <1>14 DEF MacroInv, D
  <2>2. CASE table[v] = 0
    BY <2>2, <1>4 DEF Marked
  <2>3. CASE table[v] # 0
    BY <2>1, <2>3, <1>2, <1>4 DEF Current, Marked
  <2> QED
    BY <2>2, <2>3
<1>15. Marked(E, v) = Marked(N, v) \cup {s}
  BY <1>4, <1>7 DEF Marked
<1>16. ASSUME v \notin Builtin PROVE Current(E, table', v)
  BY <1>4, <1>7, <1>8, <1>14, <1>15, <1>16 DEF Current
<1>17. ASSUME v \notin Builtin, v \notin again' PROVE Stacked(E, v, pushed'[v])
  <2>1. ~ N[s].mark /\ v \notin again
    BY <1>6, <1>17
  <2>2. Stacked(D, v, P)
    BY <1>1, <1>17, <2>1 DEF MacroInv, D, P
  <2>3. Same(D, N, v)
    BY <1>2, <1>4, <2>1 DEF Same
  <2>4. PICK q \in [1 .. Len(P) -> 1 .. Len(N)] : Holds(N, v, P, q)
    BY <1>2, <1>4, <2>2, <2>3, SameStacked DEF Stacked
  <2> DEFINE n == Len(P) + 1
             Q == pushed'[v]
             r == [k \in 1 .. n |-> IF k = n THEN s ELSE q[k]]
  <2>5. Len(P) \in Nat /\ Len(Q) = n /\ Q[n] = m /\ \A k \in 1 .. Len(P) : Q[k] = P[k]
    BY <1>2, <1>5, <1>9
  <2>6. r \in [1 .. n -> 1 .. Len(E)]
    BY <2>4, <2>5, <1>4, <1>7
  <2>7. \A i \in 1 .. Len(N) : Saved(E, i) = Saved(N, i)
    BY <1>4, <1>7 DEF Saved
  <2>8. s \notin Marked(N, v) /\ Marked(N, v) \subseteq 1 .. Len(N)
    BY <2>1 DEF Marked
  <2>9. ASSUME NEW k \in 1 .. n PROVE r[k] \in Marked(E, v) /\ Q[k] = Saved(E, r[k])
    <3>1. CASE k = n
      <4>1. r[k] = s /\ Q[k] = m /\ s \in Marked(E, v)
        BY <2>5, <3>1, <1>15
      <4> QED
        BY <4>1, <1>4, <1>5, <1>7, <1>17 DEF Saved
    <3>2. CASE k # n
      <4>1. k \in 1 .. Len(P) /\ r[k] = q[k] /\ Q[k] = P[k]
        BY <2>5, <3>2
      <4>2. q[k] \in Marked(N, v) /\ P[k] = Saved(N, q[k])
        BY <2>4, <4>1 DEF Holds
      <4>3. Saved(E, q[k]) = Saved(N, q[k])
        BY <2>7, <2>8, <4>2
      <4> QED
        BY <1>15, <4>1, <4>2, <4>3
    <3> QED
      BY <3>1, <3>2
  <2>10. \A k \in 1 .. Len(P) : q[k] < s
    <3>1. \A k \in 1 .. Len(P) : q[k] \in Marked(N, v) /\ q[k] # s
      BY <2>4, <2>8 DEF Holds
    <3>2. s \in Nat /\ Len(N) \in Nat
      BY <1>2, <1>4
    <3>3. ASSUME NEW k \in 1 .. Len(P) PROVE q[k] < s
      <4>1. q[k] \in Marked(N, v) /\ q[k] # s
        BY <3>1
      <4>2. q[k] \in Nat
        BY <4>1, <2>8
      <4>3. q[k] <= s
        BY <4>1, <1>14, <1>17
      <4> QED
        BY <3>2, <4>1, <4>2, <4>3
    <3> QED
      BY <3>3
  <2>11. \A j, k \in 1 .. n : j < k => r[j] < r[k]
    <3>1. ASSUME NEW j \in 1 .. n, NEW k \in 1 .. n, j < k PROVE r[j] < r[k]
      <4>1. j \in 1 .. Len(P) /\ r[j] = q[j] /\ j # n
        BY <2>5, <3>1
      <4>2. CASE k = n
        BY <4>1, <4>2, <2>10
      <4>3. CASE k # n
        <5>1. k \in 1 .. Len(P) /\ r[k] = q[k]
          BY <2>5, <4>3
        <5>2. q[j] < q[k]
          BY <2>4, <3>1, <4>1, <5>1 DEF Holds
        <5> QED
          BY <4>1, <5>1, <5>2
      <4> QED
        BY <4>2, <4>3
    <3> QED
      BY <3>1
  <2>12. ASSUME NEW i \in Marked(E, v) PROVE \E k \in 1 .. n : r[k] = i
    <3>1. CASE i = s
      BY <3>1, <2>5
    <3>2. CASE i \in Marked(N, v)
      <4>1. PICK k \in 1 .. Len(P) : q[k] = i
        BY <3>2, <2>4 DEF Holds
      <4> QED
        BY <4>1, <2>5
    <3> QED
      BY <3>1, <3>2, <1>15
  <2> HIDE DEF r, n
  <2>13. Holds(E, v, Q, r)
    BY <2>5, <2>9, <2>11, <2>12 DEF Holds
  <2> QED
    BY <2>5, <2>6, <2>13 DEF Stacked
<1>18. status' \in {"run", "error"}
  BY <1>1, <1>6 DEF PragmaTypes
<1> QED
  BY <1>7, <1>8, <1>9, <1>11, <1>12, <1>13, <1>16, <1>17, <1>18 DEF PragmaTypes, MacroInv, E

\* #pragma pop_macro goes back to the latest saved meaning.
LEMMA PopStep ==
  ASSUME PragmaInv, NEW v \in Macro, PopMacro(v)
  PROVE  /\ PragmaTypes' /\ MacroInv'
         /\ v \notin Builtin /\ pushed[v] # << >> /\ v \notin again
              => Meaning(v)' = Last(pushed[v])
<1> DEFINE D == defines
           M == Marked(D, v)
           E == defines'
           P == pushed[v]
           n == Len(P)
<1>1. PragmaTypes /\ MacroInv
  BY DEF PragmaInv
<1>2. /\ D \in Seq(Defs) /\ table[v] \in Nat /\ Aims(D, table, v) /\ P \in Seq(Meanings)
      /\ n \in Nat
  BY <1>1 DEF PragmaTypes
<1>3. M \subseteq 1 .. Len(D) /\ Len(D) \in Nat
  BY <1>2 DEF Marked
<1>4. /\ pushed' = [pushed EXCEPT ![v] = IF @ = << >> THEN @ ELSE Front(@)]
      /\ status' = status /\ again' = again
  BY DEF PopMacro
<1>5. /\ pushed' \in [Macro -> Seq(Meanings)]
      /\ pushed'[v] = IF P = << >> THEN P ELSE Front(P)
      /\ \A w \in Macro : w # v => pushed'[w] = pushed[w]
  <2>1. P # << >> => Front(P) \in Seq(Meanings)
    <3>1. P # << >> => Len(P) > 0
      BY <1>2
    <3> QED
      BY <3>1, <1>2, FrontIs
  <2> QED
    BY <2>1, <1>1, <1>2, <1>4 DEF PragmaTypes
<1>6. CASE M = {}
  <2>1. UNCHANGED <<defines, table>>
    BY <1>6 DEF PopMacro, Marked
  <2>2. ASSUME v \notin Builtin, v \notin again PROVE P = << >>
    <3>1. PICK q \in [1 .. n -> 1 .. Len(D)] : Holds(D, v, P, q)
      BY <1>1, <2>2 DEF MacroInv, Stacked
    <3>2. n = 0
      BY <3>1, <1>2, <1>6 DEF Holds
    <3> QED
      BY <3>2, <1>2
  <2>3. MacroInv'
    BY <2>1, <2>2, <1>1, <1>4, <1>5 DEF MacroInv
  <2> QED
    BY <2>1, <2>2, <2>3, <1>1, <1>4, <1>5 DEF PragmaTypes
<1>7. CASE M # {}
  <2> DEFINE s == CHOOSE i \in M : \A j \in M : j <= i
  <2>1. s \in M /\ \A j \in M : j <= s
    BY <1>3, <1>7, LatestMark
  <2>2. /\ E = [D EXCEPT ![s].mark = FALSE]
        /\ table' = [table EXCEPT ![v] = IF D[s].d # NoBody THEN s ELSE 0]
    BY <1>7 DEF PopMacro, Marked
  <2> HIDE DEF s, M
  <2>3. s \in 1 .. Len(D) /\ s \in Nat /\ D[s].v = v /\ D[s].mark /\ s # 0
    BY <2>1, <1>3 DEF M, Marked
  <2>4. /\ E \in Seq(Defs) /\ Len(E) = Len(D) /\ E[s].v = v /\ E[s].d = D[s].d /\ ~ E[s].mark
        /\ \A i \in 1 .. Len(D) : i # s => E[i] = D[i]
    <3> DEFINE x == [D[s] EXCEPT !.mark = FALSE]
    <3>1. D[s] \in Defs
      BY <1>2, <2>3
    <3>2. x \in Defs /\ x.v = D[s].v /\ x.d = D[s].d /\ ~ x.mark
      BY <3>1 DEF Defs
    <3>3. E = [D EXCEPT ![s] = x]
      BY <2>2
    <3> HIDE DEF x, D, E
    <3>4. /\ E \in Seq(Defs) /\ Len(E) = Len(D) /\ E[s] = x
          /\ \A i \in 1 .. Len(D) : i # s => E[i] = D[i]
      BY <1>2, <2>3, <3>2, <3>3, ExceptSeq
    <3> QED
      BY <3>2, <3>4, <2>3
  <2>5. /\ table' \in [Macro -> Nat] /\ table'[v] = IF D[s].d # NoBody THEN s ELSE 0
        /\ \A w \in Macro : w # v => table'[w] = table[w]
    BY <1>1, <2>2, <2>3 DEF PragmaTypes
  <2> HIDE DEF D, E, P
  <2>6. Marked(E, v) = M \ {s}
    BY <2>3, <2>4 DEF M, Marked
  <2>7. Aims(E, table', v) /\ Current(E, table', v)
    BY <2>1, <2>3, <2>4, <2>5, <2>6 DEF Aims, Current
  <2>8. ASSUME NEW w \in Macro, w # v PROVE Same(D, E, w)
    BY <1>3, <2>3, <2>4, <2>8 DEF Same
  <2>9. ASSUME NEW w \in Macro, w # v
        PROVE  /\ Aims(E, table', w)
               /\ w \notin Builtin => Current(E, table', w)
               /\ w \notin Builtin /\ w \notin again => Stacked(E, w, pushed'[w])
    <3>1. /\ table'[w] = table[w] /\ table[w] \in Nat /\ Aims(D, table, w)
          /\ pushed'[w] = pushed[w] /\ pushed[w] \in Seq(Meanings)
          /\ w \notin Builtin => Current(D, table, w)
          /\ w \notin Builtin /\ w \notin again => Stacked(D, w, pushed[w])
      BY <1>1, <1>5, <2>5, <2>9 DEF PragmaTypes, MacroInv, D
    <3>2. Same(D, E, w)
      BY <2>8, <2>9
    <3>3. Aims(E, table, w)
      BY <3>1, <3>2 DEF Aims, Same
    <3>4. w \notin Builtin => Current(E, table, w)
      BY <3>1, <3>2, <1>2, <2>4, SameCurrent
    <3>5. w \notin Builtin /\ w \notin again => Stacked(E, w, pushed[w])
      BY <3>1, <3>2, <1>2, <2>4, SameStacked
    <3> QED
      BY <3>1, <3>3, <3>4, <3>5 DEF Aims, Current
  <2>10. ASSUME v \notin Builtin, v \notin again
         PROVE  Stacked(E, v, pushed'[v]) /\ (P # << >> => Meaning(v)' = Last(P))
    <3>1. PICK q \in [1 .. n -> 1 .. Len(D)] : Holds(D, v, P, q)
      BY <1>1, <2>10 DEF MacroInv, Stacked, D, P
    <3>2. PICK k \in 1 .. n : q[k] = s
      BY <3>1, <2>1 DEF Holds, M
    <3>3. k = n
      <4>1. q[n] \in M /\ n \in 1 .. n
        BY <3>1, <3>2, <1>2 DEF Holds, M
      <4>2. q[n] <= s
        BY <4>1, <2>1
      <4>3. k < n => s < q[n]
        BY <3>1, <3>2, <4>1 DEF Holds
      <4>4. q[n] \in Nat
        BY <4>1, <1>3
      <4> QED
        BY <4>2, <4>3, <4>4, <2>3, <3>2, <1>2
    <3>4. n > 0 /\ n \in 1 .. n /\ q[n] = s /\ P[n] = Saved(D, s)
      BY <3>1, <3>2, <3>3, <1>2 DEF Holds
    <3> DEFINE Q == Front(P)
               r == [j \in 1 .. n - 1 |-> q[j]]
    <3>5. pushed'[v] = Q /\ Len(Q) = n - 1 /\ \A j \in 1 .. n - 1 : Q[j] = P[j]
      <4>1. P # << >>
        BY <3>4, <1>2
      <4> QED
        BY <4>1, <3>4, <1>2, <1>5, FrontIs DEF P
    <3>6. r \in [1 .. n - 1 -> 1 .. Len(E)]
      BY <3>1, <1>2, <2>4
    <3>7. \A j \in 1 .. n - 1 : q[j] \in M /\ q[j] # s /\ q[j] \in 1 .. Len(D)
      <4> TAKE j \in 1 .. n - 1
      <4>1. j \in 1 .. n /\ n \in 1 .. n /\ j < n
        BY <1>2, <3>4
      <4>2. q[j] < q[n] /\ q[j] \in M
        BY <4>1, <3>1 DEF Holds, M
      <4>3. q[j] \in Nat /\ q[j] \in 1 .. Len(D)
        BY <4>2, <1>3
      <4> QED
        BY <4>2, <4>3, <3>4, <2>3
    <3>8. \A j \in 1 .. n - 1 : r[j] \in Marked(E, v) /\ Q[j] = Saved(E, r[j])
      <4> TAKE j \in 1 .. n - 1
      <4>1. j \in 1 .. n
        BY <1>2
      <4>2. r[j] = q[j] /\ Q[j] = P[j] /\ P[j] = Saved(D, q[j])
        BY <4>1, <3>1, <3>5 DEF Holds
      <4>3. E[q[j]] = D[q[j]] /\ q[j] \in Marked(E, v)
        BY <3>7, <2>4, <2>6
      <4> QED
        BY <4>2, <4>3 DEF Saved
    <3>9. \A i, j \in 1 .. n - 1 : i < j => r[i] < r[j]
      BY <3>1, <1>2 DEF Holds
    <3>10. ASSUME NEW i \in Marked(E, v) PROVE \E j \in 1 .. n - 1 : r[j] = i
      <4>1. i \in M /\ i # s
        BY <2>6
      <4>2. PICK j \in 1 .. n : q[j] = i
        BY <4>1, <3>1 DEF Holds, M
      <4>3. j \in 1 .. n - 1
        BY <4>1, <4>2, <3>4, <1>2
      <4> QED
        BY <4>2, <4>3
    <3> HIDE DEF r, Q
    <3>11. Holds(E, v, Q, r)
      BY <3>5, <3>8, <3>9, <3>10 DEF Holds
    <3>12. Stacked(E, v, Q)
      BY <3>5, <3>6, <3>11 DEF Stacked
    <3>13. Meaning(v)' = Saved(D, s)
      BY <2>3, <2>4, <2>5 DEF Meaning, Saved, E
    <3> QED
      BY <3>4, <3>5, <3>12, <3>13 DEF Last
  <2>11. status' \in {"run", "error"} /\ again' = again
    BY <1>1, <1>4 DEF PragmaTypes
  <2> QED
    BY <1>5, <2>4, <2>5, <2>7, <2>9, <2>10, <2>11 DEF PragmaTypes, MacroInv, E, P
<1> QED
  BY <1>6, <1>7

\* The definitions a file begins with, and how they are found.
Restarted(D, T) ==
  /\ D = SetToSeq({Def(v, NoBody) : v \in Builtin})
  /\ T = [v \in Macro |->
            IF v \in Builtin
            THEN CHOOSE i \in 1 .. Len(D) : D[i].v = v ELSE 0]

\* At the start of a file only the builtins are defined and nothing is saved.
LEMMA FreshFile ==
  ASSUME NEW D, NEW T, Restarted(D, T)
  PROVE  /\ D \in Seq(Defs) /\ T \in [Macro -> Nat]
         /\ \A v \in Macro : Aims(D, T, v)
         /\ \A v \in Macro \ Builtin : Current(D, T, v) /\ Stacked(D, v, << >>)
<1> D = Builtins
  BY DEF Restarted, Builtins
<1>1. \A v \in Builtin : LET i == CHOOSE i \in 1 .. Len(D) : D[i].v = v
                         IN  i \in 1 .. Len(D) /\ D[i].v = v
  BY BuiltinsAre
<1>2. D \in Seq(Defs) /\ \A v \in Macro : Marked(D, v) = {}
  BY BuiltinsAre DEF Marked
<1>3. T \in [Macro -> Nat] /\ \A v \in Macro : Aims(D, T, v)
  <2>1. T = [v \in Macro |->
               IF v \in Builtin
               THEN CHOOSE i \in 1 .. Len(D) : D[i].v = v ELSE 0]
    BY DEF Restarted
  <2> QED
    BY <2>1, <1>1, <1>2 DEF Aims
<1>4. \A v \in Macro \ Builtin : Current(D, T, v)
  BY DEF Current, Restarted
<1>5. \A v \in Macro \ Builtin : Holds(D, v, << >>, [i \in 1 .. 0 |-> 1])
  BY <1>2 DEF Holds
<1>6. [i \in 1 .. 0 |-> 1] \in [1 .. Len(<< >>) -> 1 .. Len(D)]
  OBVIOUS
<1>7. \A v \in Macro \ Builtin : Stacked(D, v, << >>)
  BY <1>5, <1>6 DEF Stacked
<1> QED
  BY <1>2, <1>3, <1>4, <1>7

\* The next file starts with the builtin macros only: preprocess_start().
LEMMA NextFileStep ==
  ASSUME NextFile
  PROVE  PragmaTypes' /\ MacroInv'
<1>1. /\ defines' \in Seq(Defs) /\ table' \in [Macro -> Nat]
      /\ \A v \in Macro : Aims(defines', table', v)
      /\ \A v \in Macro \ Builtin : Current(defines', table', v) /\ Stacked(defines', v, << >>)
  <2>1. Restarted(defines', table')
    BY DEF NextFile, Restarted
  <2> QED
    BY <2>1, FreshFile
<1>2. pushed' \in [Macro -> Seq(Meanings)] /\ \A v \in Macro : pushed'[v] = << >>
  BY DEF NextFile
<1>3. status' \in {"run", "error"}
  BY DEF NextFile
<1> QED
  BY <1>1, <1>2, <1>3 DEF PragmaTypes, MacroInv

\* The first file starts with the builtin macros only, and no mark is set.
LEMMA PragmaInitInv == PragmaInit => PragmaInv
<1> SUFFICES ASSUME PragmaInit PROVE PragmaInv
  OBVIOUS
<1>1. /\ defines \in Seq(Defs) /\ table \in [Macro -> Nat]
      /\ \A v \in Macro : Aims(defines, table, v)
      /\ \A v \in Macro \ Builtin : Current(defines, table, v) /\ Stacked(defines, v, << >>)
  <2>1. Restarted(defines, table)
    BY DEF PragmaInit, Restarted
  <2> QED
    BY <2>1, FreshFile
<1>2. PackInv
  BY PragmaAssumption DEF PragmaInit, PackInv
<1>3. pushed \in [Macro -> Seq(Meanings)] /\ \A v \in Macro : pushed[v] = << >>
  BY DEF PragmaInit
<1>4. status \in {"run", "error"}
  BY DEF PragmaInit
<1> QED
  BY <1>1, <1>2, <1>3, <1>4 DEF PragmaInv, PragmaTypes, MacroInv

\* Every #define, #undef, pragma and start of a file keeps the invariant.
LEMMA PragmaStep == PragmaInv /\ [PragmaNext]_pragma_vars => PragmaInv'
<1> SUFFICES ASSUME PragmaInv, [PragmaNext]_pragma_vars PROVE PragmaInv'
  OBVIOUS
<1>1. CASE UNCHANGED pragma_vars
  BY <1>1 DEF pragma_vars, PragmaInv, PragmaTypes, PackInv, MacroInv
<1>2. CASE PragmaNext
  <2>1. PackInv'
    BY <1>2, PackStep
  <2>2. CASE \E v \in Macro \ Builtin, d \in Body : Define(v, d)
    BY <2>1, <2>2, DefineStep DEF PragmaInv
  <2>3. CASE \E v \in Macro : Undef(v) \/ PushMacro(v) \/ PopMacro(v)
    BY <2>1, <2>3, UndefStep, PushStep, PopStep DEF PragmaInv
  <2>4. CASE NextFile
    BY <2>1, <2>4, NextFileStep DEF PragmaInv
  <2>5. CASE /\ \/ \E n \in Align \cup {0} : Pack(n)
                \/ \E n \in Align, keep \in BOOLEAN : PackPush(keep, n)
                \/ PackPop
             /\ UNCHANGED macro_vars /\ status' \in {"run", "error"}
    BY <2>1, <2>5 DEF PragmaInv, PragmaTypes, MacroInv, macro_vars
  <2>6. ASSUME NEW n \in Align \cup {0}, Pack(n)
        PROVE  UNCHANGED macro_vars /\ status' \in {"run", "error"}
    BY <2>6 DEF Pack, PragmaInv, PragmaTypes
  <2>7. ASSUME NEW n \in Align, NEW keep \in BOOLEAN, PackPush(keep, n)
        PROVE  UNCHANGED macro_vars /\ status' \in {"run", "error"}
    BY <2>7 DEF PackPush, PragmaInv, PragmaTypes
  <2>8. ASSUME PackPop
        PROVE  UNCHANGED macro_vars /\ status' \in {"run", "error"}
    BY <2>8 DEF PackPop, PragmaInv, PragmaTypes
  <2> QED
    BY <1>2, <2>2, <2>3, <2>4, <2>5, <2>6, <2>7, <2>8 DEF PragmaNext
<1> QED
  BY <1>1, <1>2

\* So it holds at every state: the marks on define_stack are what was pushed.
THEOREM PragmaInvariant == PragmaSpec => []PragmaInv
BY PragmaInitInv, PragmaStep, PTL DEF PragmaSpec

\* What pop restores follows from the invariant.
LEMMA PopsFit ==
  ASSUME PragmaInv, PragmaInv', PragmaNext
  PROVE  /\ \A v \in Macro \ Builtin :
              PopMacro(v) /\ pushed[v] # << >> /\ v \notin again
                => Meaning(v)' = Last(pushed[v])
         /\ PackPop /\ status' = "run" => Last(pack') = Last(packs)
         /\ Len(pack') <= PACK_STACK_SIZE
<1>1. \A v \in Macro \ Builtin :
        PopMacro(v) /\ pushed[v] # << >> /\ v \notin again
          => Meaning(v)' = Last(pushed[v])
  BY PopStep
<1>2. ASSUME PackPop, status' = "run" PROVE Last(pack') = Last(packs)
  <2>1. ~ (Len(pack) <= 1)
    BY <1>2 DEF PackPop
  <2>2. pack' = Front(pack)
    BY <1>2, <2>1 DEF PackPop
  <2>3. /\ pack \in Seq(Align \cup {0}) /\ packs \in Seq(Align \cup {0})
        /\ Len(pack) = Len(packs) + 1 /\ \A k \in 1 .. Len(packs) : packs[k] = pack[k]
    BY DEF PragmaInv, PackInv
  <2>4. /\ Len(packs) \in 1 .. Len(packs) /\ Len(packs) = Len(pack) - 1
        /\ Len(pack) - 1 \in 1 .. Len(pack) - 1 /\ Len(pack) > 0
    BY <2>1, <2>3
  <2>5. Len(pack') = Len(pack) - 1 /\ pack'[Len(pack) - 1] = pack[Len(pack) - 1]
    BY <2>2, <2>3, <2>4, FrontIs
  <2> QED
    BY <2>3, <2>4, <2>5 DEF Last
<1>3. Len(pack') <= PACK_STACK_SIZE
  BY DEF PragmaInv, PackInv
<1> QED
  BY <1>1, <1>2, <1>3

\* pragma_parse(): a pop restores what the matching push saved.
THEOREM PopsAreRight == PragmaSpec => PopsRestore
<1>1. PragmaInv /\ PragmaInv' /\ [PragmaNext]_pragma_vars
        => [/\ \A v \in Macro \ Builtin :
                 PopMacro(v) /\ pushed[v] # << >> /\ v \notin again
                   => Meaning(v)' = Last(pushed[v])
            /\ PackPop /\ status' = "run" => Last(pack') = Last(packs)
            /\ Len(pack') <= PACK_STACK_SIZE]_pragma_vars
  BY PopsFit
<1> QED
  BY <1>1, PragmaInvariant, PTL DEF PragmaSpec, PopsRestore
-----------------------------------------------------------------------------
\* Between tcc_compile()'s first and last use of the globals.
Compiling(t) ==
  \/ pc[t] \in {"work", "finish"}
  \/ pc[t] \in {"error1", "format"} /\ op[t] = "compile"

\* Holding the semaphore.
Inside(t) == Compiling(t) \/ pc[t] \in {"enter", "begin", "error1", "exit", "post"}

\* Holding it, with tcc_state set.
StateSet(t) == Compiling(t) \/ pc[t] \in {"begin", "error1", "exit"}

SemInv ==
  /\ sem = 2 => ready
  /\ \A t \in Thread :
       /\ pc[t] \in {"init", "publish"} => sem = 1
       /\ pc[t] = "publish" => ready
       /\ pc[t] = "spin" => sem # 0
       /\ pc[t] \in {"acquire", "enter"} => sem = 2
  /\ \A t, u \in Thread :
       pc[t] \in {"init", "publish"} /\ pc[u] \in {"init", "publish"} => t = u

HoldInv ==
  \A t \in Thread :
    /\ Inside(t) <=> owner = t
    /\ StateSet(t) => tcc_state = t
    /\ Compiling(t) <=> globals = t
    /\ Compiling(t) <=> enabled[t]
    /\ pc[t] \in {"begin", "work", "finish", "exit"} => op[t] = "compile"

ChargeInv ==
  /\ \A t \in Thread :
       (pc[t] = "format" \/ (pc[t] = "post" /\ op[t] = "report")) => s1[t] = t
  /\ ChargedRight

StateInv == TypeOK /\ SemInv /\ HoldInv /\ ChargeInv

\* Every state the program starts in satisfies the invariant.
LEMMA StateInitInv == Init => StateInv
<1> SUFFICES ASSUME Init PROVE StateInv
  OBVIOUS
<1> USE StateAssumption DEF Init
<1>1. TypeOK
  <2>1. /\ enabled \in [Thread -> BOOLEAN]
        /\ pc \in [Thread -> Labels]
        /\ op \in [Thread -> {"compile", "report"}]
        /\ mode \in [Thread -> {"warn", "noabort", "error"}]
    BY Zenon DEF Labels
  <2>2. /\ s1 \in [Thread -> Thread \cup {None}]
        /\ nb_errors \in [Thread -> Nat] /\ raised \in [Thread -> Nat]
        /\ jobs \in [Thread -> Nat] /\ work \in [Thread -> Nat]
    OBVIOUS
  <2>3. sem \in 0 .. 2 /\ pp_expr \in 0 .. 2
    OBVIOUS
  <2>4. /\ owner \in Thread \cup {None} /\ tcc_state \in Thread \cup {None}
        /\ globals \in Thread \cup {None} /\ ready \in BOOLEAN
    BY Zenon
  <2> QED
    BY <2>1, <2>2, <2>3, <2>4, Zenon DEF TypeOK
<1>2. SemInv
  BY DEF SemInv
<1>3. HoldInv
  BY DEF HoldInv, Inside, StateSet, Compiling
<1>4. ChargeInv
  BY DEF ChargeInv, ChargedRight, Uncounted
<1> QED
  BY <1>1, <1>2, <1>3, <1>4 DEF StateInv

\* Every step of a thread in a call preserves the invariant.
LEMMA StateStepInv ==
  ASSUME NEW t \in Thread, StateInv, Step(t) PROVE StateInv'
<1> USE StateAssumption
    DEF StateInv, TypeOK, SemInv, HoldInv, ChargeInv, ChargedRight, Uncounted, Inside,
        StateSet, Compiling, Labels, Goto, Count, sem_vars, err_vars, counters
<1>1. CASE CompareExchange(t)
  BY <1>1 DEF CompareExchange
<1>2. CASE InitializeCriticalSection(t)
  BY <1>2 DEF InitializeCriticalSection
<1>3. CASE Publish(t)
  BY <1>3 DEF Publish
<1>4. CASE Spin(t)
  BY <1>4 DEF Spin
<1>5. CASE EnterCriticalSection(t)
  BY <1>5 DEF EnterCriticalSection
<1>6. CASE TccEnterState(t)
  BY <1>6 DEF TccEnterState
<1>7. CASE Begin(t)
  BY <1>7 DEF Begin
<1>8. CASE ExprPreprocess(t)
  BY <1>8 DEF ExprPreprocess
<1>9. ASSUME NEW m \in {"warn", "noabort", "error"}, Message(t, m) PROVE StateInv'
  BY <1>9 DEF Message
<1>10. CASE Error1(t)
  BY <1>10 DEF Error1
<1>11. CASE Format(t)
  BY <1>11 DEF Format
<1>12. CASE EndOfSource(t)
  BY <1>12 DEF EndOfSource
<1>13. CASE Finish(t)
  BY <1>13 DEF Finish
<1>14. CASE TccExitState(t)
  BY <1>14 DEF TccExitState
<1>15. CASE PostSem(t)
  BY <1>15 DEF PostSem
<1> HIDE DEF StateInv
<1> QED
  BY <1>1, <1>2, <1>3, <1>4, <1>5, <1>6, <1>7, <1>8, <1>9, <1>10, <1>11, <1>12, <1>13, <1>14, <1>15 DEF Step

\* So does a call.
LEMMA StateCallInv ==
  ASSUME NEW t \in Thread, StateInv, Call(t) PROVE StateInv'
<1> USE StateAssumption
    DEF StateInv, TypeOK, SemInv, HoldInv, ChargeInv, ChargedRight, Uncounted, Inside,
        StateSet, Compiling, Labels, Goto, Count, sem_vars, err_vars, counters
<1>1. CASE CallCompile(t)
  BY <1>1 DEF CallCompile
<1>2. ASSUME NEW m \in {"warn", "noabort"}, CallReport(t, m) PROVE StateInv'
  BY <1>2 DEF CallReport
<1> HIDE DEF StateInv
<1> QED
  BY <1>1, <1>2 DEF Call

\* The invariant holds in every reachable state, for any threads and bounds.
THEOREM StateInvariant == Spec => []StateInv
<1>1. StateInv /\ [Next]_vars => StateInv'
  <2> SUFFICES ASSUME StateInv, [Next]_vars PROVE StateInv'
    OBVIOUS
  <2>1. CASE Next
    BY <2>1, StateStepInv, StateCallInv DEF Next
  <2>2. CASE UNCHANGED vars
    BY <2>2 DEF vars, StateInv, TypeOK, SemInv, HoldInv, ChargeInv, ChargedRight,
                Uncounted, Inside, StateSet, Compiling
  <2> QED
    BY <2>1, <2>2
<1> QED
  BY StateInitInv, <1>1, PTL DEF Spec

\* Every state is well typed: the semaphore, the flags of the states and what
\* each thread is doing (TCCSem, TCCState, and the calls of libtcc.h).
THEOREM StateTypes == Spec => []TypeOK
<1>1. StateInv => TypeOK
  BY DEF StateInv
<1> QED
  BY <1>1, StateInvariant, PTL

\* The compiler's globals are used by one thread at a time, under the semaphore
\* and with tcc_state pointing to its state (tcc_enter_state, tcc_exit_state).
THEOREM GlobalsAreExclusive == Spec => []Exclusive
<1>1. StateInv => Exclusive
  BY StateAssumption DEF StateInv, TypeOK, HoldInv, Exclusive, Inside, StateSet, Compiling
<1> QED
  BY <1>1, StateInvariant, PTL

\* The critical section is initialized by one thread, before any enters it
\* (wait_sem).
THEOREM SectionIsInitializedOnce == Spec => []InitializedOnce
<1>1. StateInv => InitializedOnce
  BY DEF StateInv, SemInv, InitializedOnce
<1> QED
  BY <1>1, StateInvariant, PTL

\* Every error is counted with the state it belongs to (error1).
THEOREM ErrorsAreChargedRight == Spec => []ChargedRight
<1>1. StateInv => ChargedRight
  BY DEF StateInv, ChargeInv
<1> QED
  BY <1>1, StateInvariant, PTL
-----------------------------------------------------------------------------
Cells == ({"garbage", "header"} \cup Owner) \X Nat

Memory == UNION {[0 .. c - 1 -> Cells] : c \in Nat}

Arenas == [id : Nat, cap : Nat, p : Nat, count : Nat, size : Nat, mem : Memory]

\* An arena as a record, with a word for every place.
Shaped(a) == a \in Arenas /\ a.mem \in [0 .. a.cap - 1 -> Cells]

Block == [id : Nat, at : Nat, size : Nat]

\* The owners of an arena's blocks.
Holder(H, id) == {o \in Owner : H[o].id = id}

\* What an owner has becomes b, and what the others have is the same.
Changed(H, G, o, b) == G[o] = b /\ \A q \in Owner : q # o => G[q] = H[q]

\* What an owner has becomes a block of n words at the free end of arena a.
Takes(H, G, o, a, n) == Changed(H, G, o, [id |-> a.id, at |-> a.p + 1, size |-> n])

\* A new block of n words in arena a, the first m of them copied.
CopyInto(a, o, source, from, m, n) ==
  Filled(Copied(Cut([a EXCEPT !.count = @ + 1], n), a.p + 1, source, from, m),
         o, a.p + 1, m, n)

\* One block ends before the header of the other.
EndsBefore(b, c) == b.at + b.size <= c.at - 1

\* An owner finds in its block what it wrote there.
Sound(a, o, b) ==
  /\ b \in Block /\ b.at > 0 /\ b.at + b.size <= a.p
  /\ a.mem[b.at - 1] = Header(b.size)
  /\ \A k \in 0 .. b.size - 1 : a.mem[b.at + k] = Cell(o, k)

Apart(H, id) ==
  \A o, q \in Holder(H, id) : o # q => EndsBefore(H[o], H[q]) \/ EndsBefore(H[q], H[o])

Kept(a, H) ==
  /\ Shaped(a) /\ a.p <= a.cap /\ a.size = ArenaSize /\ ArenaSize <= a.cap
  /\ \A o \in Holder(H, a.id) : Sound(a, o, H[o])
  /\ Apart(H, a.id)
  /\ a.count = Cardinality(Holder(H, a.id))

\* An arena without blocks is empty and of the nominal size.
Recycled(a) == a.count = 0 => a.p = 0 /\ a.cap <= a.size

ArenaInv(a, H) == Kept(a, H) /\ Recycled(a)

\* The same arena, with another free end, count or memory.
Like(w, a) ==
  Shaped(w) /\ w.id = a.id /\ w.cap = a.cap /\ w.size = a.size

\* An arena with its free end moved, with its count changed.
Ends(w, a, x) == w = [a EXCEPT !.p = x]
Counts(w, a, x) == w = [a EXCEPT !.count = x]

\* The arena a rewound if b is its last block.
RewoundTo(al, a, b) == al = Rewound(a, b)

\* A block of n words of an owner's at the free end x of arena e.
HasBlock(w, e, o, x, n) ==
  /\ Like(w, e) /\ w.count = e.count /\ w.p = x + n + 1 /\ x + n + 1 <= e.cap
  /\ w.mem[x] = Header(n)
  /\ \A k \in 0 .. n - 1 : w.mem[x + 1 + k] = Cell(o, k)
  /\ \A k \in 0 .. x - 1 : w.mem[k] = e.mem[k]

\* Where an arena's free end is.
EndsAt(e, x) == e.p = x

\* What a memory is when a header is put in it, an owner writes there, words
\* are moved there, or a block is forgotten.
HeaderPut(w, a, x, n) ==
  \A k \in 0 .. a.cap - 1 : w.mem[k] = IF k = x THEN Header(n) ELSE a.mem[k]
Written(w, a, o, at, from, n) ==
  \A k \in 0 .. a.cap - 1 :
    w.mem[k] = IF k \in at + from .. at + n - 1 THEN Cell(o, k - at) ELSE a.mem[k]
Moved(w, a, at, source, from, n) ==
  \A k \in 0 .. a.cap - 1 :
    w.mem[k] = IF k \in at .. at + n - 1 THEN source[from + k - at] ELSE a.mem[k]
Forgotten(w, a, b) ==
  \A k \in 0 .. a.cap - 1 :
    k \notin b.at - 1 .. b.at + b.size - 1 => w.mem[k] = a.mem[k]

\* The arena e with block b given up: counted, rewound or emptied.
GivesUp(e, b, al, re, ze) ==
  /\ al = [Dead(e, b) EXCEPT !.count = @ - 1]
  /\ re = Rewound(al, b)
  /\ Ends(ze, al, 0)

\* The arena a, its free end perhaps moved back to where its last block b began.
Rewinds(e, a, b) ==
  /\ Like(e, a) /\ e.count = a.count /\ e.mem = a.mem
  /\ e.p = a.p \/ (e.p = b.at - 1 /\ b.at + b.size = a.p)

\* Lists of arenas with an identity of their own each.
ListInv(L, m) ==
  /\ L \in Seq(Arenas)
  /\ \A i \in DOMAIN L : L[i].id \in 1 .. m
  /\ \A i, j \in DOMAIN L : L[i].id = L[j].id => i = j

HeapInv(L, H, m) ==
  /\ m \in Nat
  /\ ListInv(L, m)
  /\ \A i \in DOMAIN L : ArenaInv(L[i], H)
  /\ \E i \in DOMAIN L : L[i].cap <= L[i].size
  /\ H \in [Owner -> Block]
  /\ \A o \in Owner : H[o] = Nothing \/ \E i \in DOMAIN L : L[i].id = H[o].id

TalInv == HeapInv(list, held, made)
-----------------------------------------------------------------------------
(* One arena.                                                              *)

\* A memory is a memory whatever its size (tal_new, tal_realloc).
LEMMA MemoryIs == ASSUME NEW c \in Nat, NEW f \in [0 .. c - 1 -> Cells] PROVE f \in Memory
BY DEF Memory

\* What setting the free end changes.
LEMMA EndEffect ==
  ASSUME NEW a, Shaped(a), NEW x \in Nat, NEW w, Ends(w, a, x)
  PROVE  Like(w, a) /\ w.count = a.count /\ w.p = x /\ w.mem = a.mem
BY DEF Shaped, Arenas, Ends, Like

\* What counting a block changes.
LEMMA CountEffect ==
  ASSUME NEW a, Shaped(a), NEW x \in Nat, NEW w, Counts(w, a, x)
  PROVE  Like(w, a) /\ w.count = x /\ w.p = a.p /\ w.mem = a.mem
BY DEF Shaped, Arenas, Counts, Like

\* What writing words of an arena anew changes.
LEMMA WriteEffect ==
  ASSUME NEW a, Shaped(a), NEW M \in [0 .. a.cap - 1 -> Cells]
  PROVE  LET w == [a EXCEPT !.mem = M]
         IN /\ Shaped(w) /\ w.id = a.id /\ w.cap = a.cap /\ w.count = a.count
            /\ w.size = a.size /\ w.p = a.p /\ w.mem = M
<1>1. M \in Memory
  BY MemoryIs DEF Shaped, Arenas
<1> QED
  BY <1>1 DEF Shaped, Arenas

\* What cutting off a block changes (tal_realloc: the header, al->p).
LEMMA CutEffect ==
  ASSUME NEW a, Shaped(a), NEW n \in Nat, Fits(a, n)
  PROVE  /\ Like(Cut(a, n), a) /\ Cut(a, n).count = a.count /\ Cut(a, n).p = a.p + n + 1
         /\ HeaderPut(Cut(a, n), a, a.p, n)
<1> DEFINE M == [a.mem EXCEPT ![a.p] = Header(n)]
           x == a.p + AdjSize(n)
           w == [a EXCEPT !.p = x]
<1>0. a \in Arenas /\ a.mem \in [0 .. a.cap - 1 -> Cells] /\ a.cap \in Nat /\ a.p \in Nat
  BY DEF Shaped, Arenas
<1>1. Header(n) \in Cells
  BY DEF Header, Cells
<1>2. M \in [0 .. a.cap - 1 -> Cells]
  BY <1>0, <1>1
<1>3. \A k \in 0 .. a.cap - 1 : M[k] = IF k = a.p THEN Header(n) ELSE a.mem[k]
  BY <1>0
<1>4. x \in Nat /\ x = a.p + n + 1
  BY <1>0 DEF AdjSize
<1>5. Cut(a, n) = [w EXCEPT !.mem = M]
  BY <1>0 DEF Cut, Arenas
<1>6. Like(w, a) /\ w.count = a.count /\ w.p = a.p + n + 1
  <2>1. Ends(w, a, x)
    BY DEF Ends
  <2> HIDE DEF x, w
  <2> QED
    BY <2>1, <1>4, EndEffect
<1> HIDE DEF M, w, x
<1> QED
  BY <1>2, <1>3, <1>5, <1>6, WriteEffect DEF Like, HeaderPut

\* What an owner's writing to its block changes.
LEMMA FilledEffect ==
  ASSUME NEW a, Shaped(a), NEW o \in Owner, NEW at \in Nat, NEW from \in Nat, NEW n \in Nat
  PROVE  LET w == Filled(a, o, at, from, n)
         IN Like(w, a) /\ w.count = a.count /\ w.p = a.p /\ Written(w, a, o, at, from, n)
<1> DEFINE M == [k \in DOMAIN a.mem |->
                   IF k \in at + from .. at + n - 1 THEN Cell(o, k - at) ELSE a.mem[k]]
<1>0. DOMAIN a.mem = 0 .. a.cap - 1 /\ a.cap \in Nat
  BY DEF Shaped, Arenas
<1>1. M \in [0 .. a.cap - 1 -> Cells]
  <2> SUFFICES ASSUME NEW k \in 0 .. a.cap - 1 PROVE M[k] \in Cells
    BY <1>0
  <2>1. CASE k \in at + from .. at + n - 1
    <3>1. k - at \in Nat
      BY <1>0, <2>1
    <3> QED
      BY <3>1, <2>1, <1>0 DEF Cell, Cells
  <2>2. CASE ~ (k \in at + from .. at + n - 1)
    BY <2>2, <1>0 DEF Shaped
  <2> QED
    BY <2>1, <2>2
<1>2. Filled(a, o, at, from, n) = [a EXCEPT !.mem = M]
  BY DEF Filled, Shaped, Arenas
<1>3. \A k \in 0 .. a.cap - 1 :
        M[k] = IF k \in at + from .. at + n - 1 THEN Cell(o, k - at) ELSE a.mem[k]
  BY <1>0
<1> HIDE DEF M
<1> QED
  BY <1>1, <1>2, <1>3, WriteEffect DEF Like, Written, Moved

\* What moving a block's words changes.
LEMMA CopiedEffect ==
  ASSUME NEW a, Shaped(a), NEW at \in Nat, NEW from \in Nat, NEW n \in Nat,
         NEW c \in Nat, NEW source \in [0 .. c - 1 -> Cells], from + n <= c
  PROVE  LET w == Copied(a, at, source, from, n)
         IN /\ Like(w, a) /\ w.count = a.count /\ w.p = a.p
            /\ Moved(w, a, at, source, from, n)
<1> DEFINE M == [k \in DOMAIN a.mem |->
                   IF k \in at .. at + n - 1 THEN source[from + k - at] ELSE a.mem[k]]
<1>0. DOMAIN a.mem = 0 .. a.cap - 1 /\ a.cap \in Nat
  BY DEF Shaped, Arenas
<1>1. M \in [0 .. a.cap - 1 -> Cells]
  <2> SUFFICES ASSUME NEW k \in 0 .. a.cap - 1 PROVE M[k] \in Cells
    BY <1>0
  <2>1. CASE k \in at .. at + n - 1
    <3>1. from + k - at \in 0 .. c - 1
      BY <1>0, <2>1
    <3> QED
      BY <3>1, <2>1, <1>0
  <2>2. CASE ~ (k \in at .. at + n - 1)
    BY <2>2, <1>0 DEF Shaped
  <2> QED
    BY <2>1, <2>2
<1>2. Copied(a, at, source, from, n) = [a EXCEPT !.mem = M]
  BY DEF Copied, Shaped, Arenas
<1>3. \A k \in 0 .. a.cap - 1 :
        M[k] = IF k \in at .. at + n - 1 THEN source[from + k - at] ELSE a.mem[k]
  BY <1>0
<1> HIDE DEF M
<1> QED
  BY <1>1, <1>2, <1>3, WriteEffect DEF Like, Written, Moved

\* What forgetting a block's words changes.
LEMMA DeadEffect ==
  ASSUME NEW a, Shaped(a), NEW b \in Block
  PROVE  /\ Like(Dead(a, b), a) /\ Dead(a, b).count = a.count /\ Dead(a, b).p = a.p
         /\ Forgotten(Dead(a, b), a, b)
<1> DEFINE M == [k \in DOMAIN a.mem |->
                   IF k \in b.at - 1 .. b.at + b.size - 1 THEN Garbage ELSE a.mem[k]]
<1>0. DOMAIN a.mem = 0 .. a.cap - 1 /\ Garbage \in Cells
  BY DEF Shaped, Arenas, Garbage, Cells
<1>1. M \in [0 .. a.cap - 1 -> Cells]
  BY <1>0 DEF Shaped
<1>2. Dead(a, b) = [a EXCEPT !.mem = M]
  BY DEF Dead, Shaped, Arenas
<1>3. \A k \in 0 .. a.cap - 1 :
        k \notin b.at - 1 .. b.at + b.size - 1 => M[k] = a.mem[k]
  BY <1>0
<1> HIDE DEF M
<1> QED
  BY <1>1, <1>2, <1>3, WriteEffect DEF Like, Forgotten

-----------------------------------------------------------------------------
(* The blocks of one arena, when one is added, moved or given up.          *)

\* An arena is untouched by what happens to blocks of others.
LEMMA FrameKept ==
  ASSUME NEW a, NEW H \in [Owner -> Block], NEW G \in [Owner -> Block], Kept(a, H),
         \A o \in Owner : H[o].id = a.id \/ G[o].id = a.id => G[o] = H[o]
  PROVE  Kept(a, G)
<1>1. Holder(G, a.id) = Holder(H, a.id)
  BY DEF Holder
<1>2. \A o \in Holder(H, a.id) : G[o] = H[o]
  BY DEF Holder
<1> QED
  BY <1>1, <1>2 DEF Kept, Apart

\* How many hold blocks of an arena, when one owner's block comes or goes.
LEMMA HolderCount ==
  ASSUME NEW H \in [Owner -> Block], NEW o \in Owner, NEW b \in Block, NEW id,
         NEW G \in [Owner -> Block], Changed(H, G, o, b)
  PROVE  /\ Cardinality(Holder(H, id)) \in Nat
         /\ H[o].id # id /\ b.id = id =>
              Cardinality(Holder(G, id)) = Cardinality(Holder(H, id)) + 1
         /\ H[o].id = id => Cardinality(Holder(H, id)) > 0
         /\ H[o].id = id /\ b.id # id =>
              Cardinality(Holder(G, id)) = Cardinality(Holder(H, id)) - 1
         /\ H[o].id = id /\ b.id = id => Holder(G, id) = Holder(H, id)
<1>1. IsFiniteSet(Holder(H, id))
  BY TalAssumption, FS_Subset DEF Holder
<1>2. /\ G[o] = b
      /\ \A q \in Owner : q # o => G[q] = H[q]
  BY DEF Changed
<1>3. Cardinality(Holder(H, id)) \in Nat
  BY <1>1, FS_CardinalityType
<1>4. ASSUME H[o].id # id, b.id = id
      PROVE  Cardinality(Holder(G, id)) = Cardinality(Holder(H, id)) + 1
  <2>1. Holder(G, id) = Holder(H, id) \cup {o} /\ o \notin Holder(H, id)
    BY <1>2, <1>4 DEF Holder
  <2> QED
    BY <2>1, <1>1, FS_AddElement
<1>5. ASSUME H[o].id = id
      PROVE  Cardinality(Holder(H, id)) > 0
  <2>1. Holder(H, id) # {}
    BY <1>5 DEF Holder
  <2> QED
    BY <2>1, <1>1, <1>3, FS_EmptySet
<1>6. ASSUME H[o].id = id, b.id # id
      PROVE  Cardinality(Holder(G, id)) = Cardinality(Holder(H, id)) - 1
  <2>1. Holder(G, id) = Holder(H, id) \ {o} /\ o \in Holder(H, id)
    BY <1>2, <1>6 DEF Holder
  <2> QED
    BY <2>1, <1>1, FS_RemoveElement
<1>7. ASSUME H[o].id = id, b.id = id
      PROVE  Holder(G, id) = Holder(H, id)
  BY <1>2, <1>7 DEF Holder
<1> QED
  BY <1>3, <1>4, <1>5, <1>6, <1>7

\* Who holds a block of an arena is counted there.
LEMMA CountedBlocks ==
  ASSUME NEW H \in [Owner -> Block], NEW a, Kept(a, H), NEW o \in Owner, H[o].id = a.id
  PROVE  a.count > 0
<1>1. Changed(H, H, o, H[o])
  BY DEF Changed
<1>2. Cardinality(Holder(H, a.id)) > 0
  BY <1>1, HolderCount
<1> QED
  BY <1>2 DEF Kept

\* A block is cut off at the free end (tal_realloc with p = NULL).
LEMMA AddBlock ==
  ASSUME NEW a, NEW H \in [Owner -> Block], Kept(a, H), NEW o \in Owner, NEW n \in Nat,
         H[o].id # a.id, Fits(a, n),
         NEW w, Like(w, a),
         w.count = a.count + 1, w.p = a.p + n + 1,
         w.mem[a.p] = Header(n),
         \A k \in 0 .. n - 1 : w.mem[a.p + 1 + k] = Cell(o, k),
         \A k \in 0 .. a.p - 1 : w.mem[k] = a.mem[k],
         NEW G \in [Owner -> Block],
         Changed(H, G, o, [id |-> a.id, at |-> a.p + 1, size |-> n])
  PROVE  Kept(w, G)
<1> DEFINE b == [id |-> a.id, at |-> a.p + 1, size |-> n]
<1>a. a.p \in Nat /\ a.id \in Nat /\ a.cap \in Nat
  BY DEF Kept, Shaped, Arenas
<1>0. /\ a.p \in Nat /\ a.id \in Nat /\ a.cap \in Nat
      /\ a.p + n + 1 <= a.cap
      /\ b \in Block /\ b.id = a.id /\ b.at = a.p + 1 /\ b.size = n
      /\ Shaped(w) /\ w.id = a.id /\ w.cap = a.cap /\ w.size = a.size
  BY <1>a DEF Fits, AdjSize, Block, Like
<1>1. /\ G[o] = b
      /\ \A q \in Owner : q # o => G[q] = H[q]
      /\ Changed(H, G, o, b)
  BY DEF Changed
<1> HIDE DEF b
<1>2. w.count = Cardinality(Holder(G, a.id))
  BY <1>0, <1>1, HolderCount DEF Kept
<1>3. Holder(G, a.id) = Holder(H, a.id) \cup {o}
  BY <1>0, <1>1 DEF Holder
<1>4. Sound(w, o, G[o])
  BY <1>0, <1>1 DEF Sound
<1>5. ASSUME NEW q \in Holder(H, a.id) PROVE q # o /\ q \in Owner /\ Sound(a, q, H[q])
  BY DEF Holder, Kept
<1>6. ASSUME NEW q \in Holder(H, a.id) PROVE Sound(w, q, G[q])
  BY <1>0, <1>1, <1>5 DEF Sound, Block
<1>7. ASSUME NEW q \in Holder(H, a.id) PROVE EndsBefore(G[q], G[o])
  BY <1>0, <1>1, <1>5 DEF Sound, Block, EndsBefore
<1>8. Apart(G, a.id)
  BY <1>3, <1>7, <1>5, <1>1 DEF Apart, Kept
<1> QED
  BY <1>0, <1>2, <1>3, <1>4, <1>6, <1>8 DEF Kept

\* A block is given up, with its space if it was the last (tal_free_impl).
LEMMA DropBlock ==
  ASSUME NEW a, NEW H \in [Owner -> Block], Kept(a, H), NEW o \in Owner,
         H[o].id = a.id, NEW c \in Block, c.id # a.id,
         NEW w, Like(w, a),
         w.count = a.count - 1,
         \/ w.p = a.p
         \/ w.p = H[o].at - 1 /\ H[o].at + H[o].size = a.p
         \/ w.p = 0 /\ w.count = 0,
         \A k \in 0 .. a.cap - 1 :
           k \notin H[o].at - 1 .. H[o].at + H[o].size - 1 => w.mem[k] = a.mem[k],
         NEW G \in [Owner -> Block], Changed(H, G, o, c)
  PROVE  Kept(w, G) /\ (w.count = 0 => Holder(G, w.id) = {})
<1>0. /\ a.p \in Nat /\ a.id \in Nat /\ a.cap \in Nat /\ a.p <= a.cap /\ w.p \in Nat
      /\ a.count \in Nat /\ a.count = Cardinality(Holder(H, a.id))
      /\ Sound(a, o, H[o])
      /\ Shaped(w) /\ w.id = a.id /\ w.cap = a.cap /\ w.size = a.size
  BY DEF Kept, Shaped, Arenas, Holder, Like
<1>1. /\ G[o] = c
      /\ \A q \in Owner : q # o => G[q] = H[q]
  BY DEF Changed
<1>2. w.count = Cardinality(Holder(G, a.id)) /\ IsFiniteSet(Holder(G, a.id))
  <2>1. Cardinality(Holder(G, a.id)) = Cardinality(Holder(H, a.id)) - 1
    BY HolderCount
  <2> QED
    BY <1>0, <2>1, TalAssumption, FS_Subset DEF Holder
<1>3. w.count = 0 => Holder(G, a.id) = {}
  BY <1>2, FS_EmptySet
<1>4. ASSUME NEW q \in Holder(G, a.id)
      PROVE  /\ q # o /\ q \in Owner /\ G[q] = H[q] /\ q \in Holder(H, a.id)
             /\ Sound(a, q, H[q])
             /\ EndsBefore(H[o], H[q]) \/ EndsBefore(H[q], H[o])
  BY <1>1 DEF Holder, Kept, Apart
<1>5. ASSUME NEW q \in Holder(G, a.id) PROVE Sound(w, q, G[q])
  <2>1. w.count # 0
    BY <1>3
  <2>2. /\ H[q].at \in Nat /\ H[q].size \in Nat /\ H[q].at > 0
        /\ H[o].at \in Nat /\ H[o].size \in Nat
        /\ H[q].at + H[q].size <= a.p
        /\ H[o].at + H[o].size <= H[q].at - 1 \/ H[q].at + H[q].size <= H[o].at - 1
    BY <1>0, <1>4 DEF Sound, Block, EndsBefore
  <2>3. H[q].at + H[q].size <= w.p
    BY <2>1, <2>2, <1>0
  <2>4. \A k \in H[q].at - 1 .. H[q].at + H[q].size - 1 : w.mem[k] = a.mem[k]
    BY <2>2, <1>0
  <2> QED
    BY <2>2, <2>3, <2>4, <1>4 DEF Sound
<1>6. Apart(G, a.id)
  BY <1>4 DEF Apart, Kept
<1>7. w.p <= w.cap
  BY <1>0 DEF Sound, Block
<1> QED
  BY <1>0, <1>2, <1>3, <1>5, <1>6, <1>7 DEF Kept

\* A block is moved to the free end, which is where it was if it was the last
\* (tal_realloc with p in an arena that has room).
LEMMA MoveBlock ==
  ASSUME NEW a, NEW H \in [Owner -> Block], Kept(a, H), NEW o \in Owner, NEW n \in Nat,
         H[o].id = a.id, NEW x \in Nat,
         \/ x = a.p
         \/ x = H[o].at - 1 /\ H[o].at + H[o].size = a.p,
         x + n + 1 <= a.cap,
         NEW w, Like(w, a),
         w.count = a.count, w.p = x + n + 1,
         w.mem[x] = Header(n),
         \A k \in 0 .. n - 1 : w.mem[x + 1 + k] = Cell(o, k),
         \A k \in 0 .. x - 1 :
           k \notin H[o].at - 1 .. H[o].at + H[o].size - 1 => w.mem[k] = a.mem[k],
         NEW G \in [Owner -> Block],
         Changed(H, G, o, [id |-> a.id, at |-> x + 1, size |-> n])
  PROVE  Kept(w, G)
<1> DEFINE b == [id |-> a.id, at |-> x + 1, size |-> n]
<1>0. /\ a.p \in Nat /\ a.id \in Nat /\ a.cap \in Nat
      /\ b \in Block /\ b.id = a.id /\ b.at = x + 1 /\ b.size = n
      /\ Sound(a, o, H[o])
      /\ Shaped(w) /\ w.id = a.id /\ w.cap = a.cap /\ w.size = a.size
  BY DEF Kept, Shaped, Arenas, Block, Holder, Like
<1>1. /\ G[o] = b
      /\ \A q \in Owner : q # o => G[q] = H[q]
      /\ Changed(H, G, o, b)
  BY DEF Changed
<1> HIDE DEF b
<1>2. Holder(G, a.id) = Holder(H, a.id)
  BY <1>0, <1>1, HolderCount
<1>3. Sound(w, o, G[o])
  BY <1>0, <1>1 DEF Sound
<1>4. ASSUME NEW q \in Holder(H, a.id), q # o
      PROVE  /\ q \in Owner /\ G[q] = H[q] /\ Sound(a, q, H[q])
             /\ EndsBefore(H[o], H[q]) \/ EndsBefore(H[q], H[o])
  BY <1>1, <1>4 DEF Holder, Kept, Apart
<1>5. ASSUME NEW q \in Holder(H, a.id), q # o
      PROVE  Sound(w, q, G[q]) /\ EndsBefore(G[q], G[o])
  <2>1. H[q].at + H[q].size <= x
    BY <1>0, <1>4, <1>5 DEF Sound, EndsBefore, Block
  <2>2. \A k \in H[q].at - 1 .. H[q].at + H[q].size - 1 : w.mem[k] = a.mem[k]
    BY <2>1, <1>0, <1>4, <1>5 DEF Sound, EndsBefore, Block
  <2>3. Sound(w, q, G[q])
    BY SMTT(30), <2>1, <2>2, <1>4, <1>5 DEF Sound, Block
  <2> QED
    BY <2>1, <2>3, <1>0, <1>1, <1>4, <1>5 DEF EndsBefore
<1>6. Apart(G, a.id)
  BY <1>2, <1>4, <1>5 DEF Apart, Kept
<1> QED
  BY <1>0, <1>2, <1>3, <1>5, <1>6 DEF Kept
-----------------------------------------------------------------------------
(* Lists of arenas.                                                        *)

\* Writing back one arena.
LEMMA PutBack ==
  ASSUME NEW m \in Nat, NEW L, ListInv(L, m), NEW i \in DOMAIN L,
         NEW w \in Arenas, w.id = L[i].id
  PROVE  LET K == [L EXCEPT ![i] = w]
         IN /\ ListInv(K, m) /\ DOMAIN K = DOMAIN L /\ K[i] = w
            /\ \A j \in DOMAIN L : j # i => K[j] = L[j]
<1> DEFINE K == [L EXCEPT ![i] = w]
<1>1. K \in Seq(Arenas) /\ DOMAIN K = DOMAIN L /\ K[i] = w
  BY DEF ListInv
<1>2. \A j \in DOMAIN L : j # i => K[j] = L[j]
  OBVIOUS
<1>3. \A j \in DOMAIN L : K[j].id = L[j].id
  BY <1>1, <1>2
<1> HIDE DEF K
<1> QED
  BY <1>1, <1>2, <1>3 DEF ListInv

\* A new arena in front.
LEMMA PutFirst ==
  ASSUME NEW m \in Nat, NEW L, ListInv(L, m), NEW w \in Arenas, NEW l \in Nat, m <= l,
         w.id \in 1 .. l, \A i \in DOMAIN L : L[i].id # w.id
  PROVE  LET K == <<w>> \o L
         IN /\ ListInv(K, l) /\ K[1] = w /\ Len(K) = Len(L) + 1
            /\ \A i \in DOMAIN L : i + 1 \in DOMAIN K /\ K[i + 1] = L[i]
            /\ \A j \in DOMAIN K : j # 1 => j - 1 \in DOMAIN L /\ K[j] = L[j - 1]
<1> DEFINE K == <<w>> \o L
<1>0. L \in Seq(Arenas) /\ Len(L) \in Nat /\ DOMAIN L = 1 .. Len(L)
  BY DEF ListInv
<1>1. K \in Seq(Arenas) /\ Len(K) = Len(L) + 1 /\ DOMAIN K = 1 .. Len(L) + 1
  BY <1>0
<1>2. K[1] = w /\ \A j \in 2 .. Len(L) + 1 : K[j] = L[j - 1]
  BY <1>0
<1> HIDE DEF K
<1>3. \A j \in DOMAIN K : j # 1 => j - 1 \in DOMAIN L /\ K[j] = L[j - 1]
  BY <1>0, <1>1, <1>2
<1>4. \A i \in DOMAIN L : i + 1 \in DOMAIN K /\ K[i + 1] = L[i]
  <2> TAKE i \in DOMAIN L
  <2>1. i + 1 \in 2 .. Len(L) + 1 /\ (i + 1) - 1 = i
    BY <1>0
  <2> QED
    BY <2>1, <1>0, <1>1, <1>2
<1>5. \A j \in DOMAIN K : K[j].id \in 1 .. l
  BY <1>2, <1>3 DEF ListInv
<1>6. ASSUME NEW i \in DOMAIN K, NEW j \in DOMAIN K, K[i].id = K[j].id
      PROVE  i = j
  <2>1. i \in Nat /\ j \in Nat
    BY <1>0, <1>1
  <2>2. CASE i = 1 \/ j = 1
    BY <2>2, <1>2, <1>3, <1>6
  <2>3. CASE i # 1 /\ j # 1
    <3>1. i - 1 = j - 1
      BY <2>3, <1>3, <1>6 DEF ListInv
    <3> QED
      BY <3>1, <2>1
  <2> QED
    BY <2>2, <2>3
<1> QED
  BY <1>1, <1>2, <1>3, <1>4, <1>5, <1>6 DEF ListInv

\* One arena less.
LEMMA TakeOut ==
  ASSUME NEW m \in Nat, NEW L, ListInv(L, m), NEW i \in DOMAIN L
  PROVE  LET K == RemoveAt(L, i)
         IN /\ ListInv(K, m)
            /\ \A j \in DOMAIN L : j # i => \E k \in DOMAIN K : K[k] = L[j]
            /\ \A k \in DOMAIN K : \E j \in DOMAIN L : j # i /\ K[k] = L[j]
<1> DEFINE K == RemoveAt(L, i)
           from(k) == IF k < i THEN k ELSE k + 1
<1>0. /\ L \in Seq(Arenas) /\ Len(L) \in Nat /\ DOMAIN L = 1 .. Len(L)
      /\ i \in 1 .. Len(L)
  BY DEF ListInv
<1>1. /\ K \in Seq(Arenas) /\ DOMAIN K = 1 .. Len(L) - 1
      /\ \A k \in 1 .. Len(L) - 1 : K[k] = L[from(k)]
  <2> DEFINE s == SubSeq(L, 1, i - 1)
             t == SubSeq(L, i + 1, Len(L))
  <2>1. s \in Seq(Arenas) /\ Len(s) = i - 1 /\ \A k \in 1 .. i - 1 : s[k] = L[k]
    BY <1>0
  <2>2. t \in Seq(Arenas) /\ Len(t) = Len(L) - i /\ \A k \in 1 .. Len(L) - i : t[k] = L[i + k]
    BY <1>0
  <2>3. K = s \o t
    BY DEF RemoveAt
  <2> HIDE DEF s, t, K
  <2>4. /\ K \in Seq(Arenas) /\ Len(K) = Len(s) + Len(t) /\ DOMAIN K = 1 .. Len(s) + Len(t)
        /\ \A k \in 1 .. Len(s) + Len(t) : K[k] = IF k <= Len(s) THEN s[k] ELSE t[k - Len(s)]
    BY <2>1, <2>2, <2>3
  <2>5. Len(s) + Len(t) = Len(L) - 1
    BY <2>1, <2>2, <1>0
  <2>6. ASSUME NEW k \in 1 .. Len(L) - 1 PROVE K[k] = L[from(k)]
    <3>1. CASE k < i
      BY <3>1, <2>1, <2>4, <2>5, <1>0
    <3>2. CASE ~ (k < i)
      <4>1. k - Len(s) \in 1 .. Len(L) - i /\ i + (k - Len(s)) = k + 1
        BY <3>2, <2>1, <1>0
      <4>2. K[k] = t[k - Len(s)]
        BY <3>2, <2>1, <2>4, <2>5, <1>0
      <4> QED
        BY <4>1, <4>2, <3>2, <2>2
    <3> QED
      BY <3>1, <3>2
  <2> QED
    BY <2>4, <2>5, <2>6
<1>2. \A k \in DOMAIN K : from(k) \in DOMAIN L /\ from(k) # i
  BY <1>0, <1>1
<1>3. \A k, l \in DOMAIN K : from(k) = from(l) => k = l
  BY <1>0, <1>1
<1>4. \A j \in DOMAIN L : j # i => \E k \in DOMAIN K : from(k) = j
  <2> TAKE j \in DOMAIN L
  <2> HAVE j # i
  <2>1. CASE j < i
    BY <2>1, <1>0, <1>1
  <2>2. CASE j > i
    <3>1. j - 1 \in DOMAIN K /\ from(j - 1) = j
      BY <2>2, <1>0, <1>1
    <3> QED
      BY <3>1
  <2> QED
    BY <2>1, <2>2, <1>0
<1> HIDE DEF K, from
<1>5. ListInv(K, m)
  BY <1>1, <1>2, <1>3 DEF ListInv
<1>6. \A j \in DOMAIN L : j # i => \E k \in DOMAIN K : K[k] = L[j]
  BY <1>1, <1>4
<1>7. \A k \in DOMAIN K : \E j \in DOMAIN L : j # i /\ K[k] = L[j]
  BY <1>1, <1>2
<1> QED
  BY <1>5, <1>6, <1>7 DEF K

\* The arena a block lies in is the one of its identity.
LEMMA ArenaOfIs ==
  ASSUME NEW m \in Nat, NEW L, ListInv(L, m), NEW b, NEW i \in DOMAIN L, L[i].id = b.id
  PROVE  ArenaOf(L, b) = i
BY DEF ListInv, ArenaOf

\* A set of list positions that is not empty has a first one.
LEMMA FirstOf ==
  ASSUME NEW I, I \subseteq Nat, I # {}
  PROVE  Min(I) \in I
<1>1. \E x \in I : \A y \in I : ~ (<<y, x>> \in OpToRel(<, Nat))
  BY NatLessThanWellFounded, WFMin
<1>2. \A x, y \in I : ~ (<<y, x>> \in OpToRel(<, Nat)) => x =< y
  BY DEF OpToRel
<1>3. \E x \in I : \A y \in I : x =< y
  BY <1>1, <1>2
<1> QED
  BY <1>3 DEF Min

\* The list always offers an arena with room, and a new one is large enough
\* (tal_realloc's walk over the list, tal_new).
LEMMA RoomFound ==
  ASSUME NEW L, ListInv(L, made), made \in Nat, NEW n \in Nat, L # << >>,
         L[1].size = ArenaSize
  PROVE  LET r == WithRoom(L, n)
         IN \/ /\ r.fresh = 0 /\ r.list = L
               /\ r.at \in DOMAIN L /\ Fits(L[r.at], n)
            \/ /\ r.fresh = 1 /\ r.at = 1
               /\ \E cap \in Nat :
                    /\ ArenaSize <= cap /\ n + 1 <= cap
                    /\ r.list = <<Arena(made + 1, cap, ArenaSize)>> \o L
<1>1. CASE \E i \in DOMAIN L : Fits(L[i], n)
  <2> DEFINE I == {i \in 1 .. Len(L) : Fits(L[i], n)}
             at == SelectInSeq(L, LAMBDA al : Fits(al, n))
  <2>0. L \in Seq(Arenas) /\ DOMAIN L = 1 .. Len(L) /\ Len(L) \in Nat
    BY DEF ListInv
  <2>1. I # {} /\ I \subseteq Nat
    BY <2>0, <1>1
  <2>2. at = Min(I)
    BY <2>1 DEF SelectInSeq
  <2>3. at \in DOMAIN L /\ Fits(L[at], n)
    <3> HIDE DEF at
    <3>1. at \in I
      BY <2>1, <2>2, FirstOf
    <3> QED
      BY <3>1, <2>0
  <2>4. WithRoom(L, n) = [list |-> L, fresh |-> 0, at |-> at]
    BY <1>1 DEF WithRoom
  <2> HIDE DEF at
  <2> QED
    BY <2>3, <2>4
<1>2. CASE ~ \E i \in DOMAIN L : Fits(L[i], n)
  <2> DEFINE cap == IF AdjSize(n) > L[1].size THEN AdjSize(n) ELSE L[1].size
  <2>1. cap \in Nat /\ ArenaSize <= cap /\ n + 1 <= cap
    BY TalAssumption DEF AdjSize
  <2>2. WithRoom(L, n) = [list |-> TalNew(L, cap), fresh |-> 1, at |-> 1]
    BY <1>2 DEF WithRoom
  <2>3. TalNew(L, cap) = <<Arena(made + 1, cap, ArenaSize)>> \o L
    BY DEF TalNew
  <2> DEFINE r == WithRoom(L, n)
  <2> HIDE DEF cap
  <2>4. r.fresh = 1 /\ r.at = 1 /\ r.list = <<Arena(made + 1, cap, ArenaSize)>> \o L
    BY <2>2, <2>3
  <2> HIDE DEF r
  <2>5. \E k \in Nat : /\ ArenaSize <= k /\ n + 1 <= k
                      /\ r.list = <<Arena(made + 1, k, ArenaSize)>> \o L
    BY <2>1, <2>4
  <2> QED
    BY <2>4, <2>5 DEF r
<1> QED
  BY <1>1, <1>2

\* A new arena has the shape of one and is empty (tal_new).
LEMMA NewArena ==
  ASSUME NEW id \in Nat, NEW cap \in Nat, ArenaSize <= cap,
         NEW H \in [Owner -> Block], \A o \in Owner : H[o].id # id
  PROVE  LET a == Arena(id, cap, ArenaSize)
         IN a.id = id /\ a.cap = cap /\ a.p = 0 /\ a.count = 0 /\ Kept(a, H)
<1> DEFINE M == [k \in 0 .. cap - 1 |-> Garbage]
<1>1. M \in [0 .. cap - 1 -> Cells]
  BY DEF Garbage, Cells
<1>2. M \in Memory
  BY <1>1, MemoryIs
<1>3. Arena(id, cap, ArenaSize) =
        [id |-> id, cap |-> cap, p |-> 0, count |-> 0, size |-> ArenaSize, mem |-> M]
  BY DEF Arena
<1> HIDE DEF M
<1>4. Shaped(Arena(id, cap, ArenaSize))
  BY <1>1, <1>2, <1>3, TalAssumption DEF Shaped, Arenas
<1>5. Holder(H, id) = {}
  BY DEF Holder
<1> DEFINE a == Arena(id, cap, ArenaSize)
<1>6. a.id = id /\ a.cap = cap /\ a.p = 0 /\ a.count = 0 /\ a.size = ArenaSize
  BY <1>3
<1> HIDE DEF a
<1>7. a.count = Cardinality(Holder(H, id))
  BY <1>5, <1>6, FS_EmptySet
<1>8. Kept(a, H)
  BY <1>4, <1>5, <1>6, <1>7 DEF Kept, Apart, a
<1> QED
  BY <1>6, <1>8 DEF a

\* An arena that gives up a block, counted and rewound (tal_free_impl).
LEMMA GivenUp ==
  ASSUME NEW H \in [Owner -> Block], NEW a, Kept(a, H), NEW o \in Owner, H[o].id = a.id,
         NEW e, Rewinds(e, a, H[o]),
         NEW G \in [Owner -> Block], NEW c \in Block, c.id # a.id, Changed(H, G, o, c),
         NEW al, NEW re, NEW ze, GivesUp(e, H[o], al, re, ze)
  PROVE  /\ a.count > 0 /\ a.count \in Nat /\ a.cap \in Nat /\ a.size \in Nat
         /\ Like(al, a) /\ Like(re, a) /\ Like(ze, a)
         /\ al.count = a.count - 1 /\ re.count = a.count - 1 /\ ze.count = a.count - 1
         /\ ze.p = 0
         /\ Kept(re, G)
         /\ a.count = 1 => Kept(ze, G) /\ Holder(G, a.id) = {}
<1> DEFINE b == H[o]
           d == Dead(e, b)
           x == d.count - 1
           y == b.at - 1
           z == 0
<1>0. /\ b \in Block /\ Sound(a, o, b) /\ b.at \in Nat /\ b.size \in Nat /\ b.at > 0
      /\ b.at + b.size <= a.p /\ a.p <= a.cap
      /\ a.p \in Nat /\ a.cap \in Nat /\ a.count \in Nat /\ a.size \in Nat
  BY DEF Holder, Kept, Sound, Block, Shaped, Arenas
<1>1. a.count > 0
  BY CountedBlocks
<1>2. /\ Like(d, e) /\ d.count = e.count /\ d.p = e.p
      /\ Forgotten(d, e, b)
  <2> HIDE DEF b
  <2> QED
    BY <1>0, DeadEffect DEF Rewinds, Like
<1>3. Counts(al, d, x)
  BY <1>2 DEF GivesUp, Counts, Like, Shaped, Arenas
<1>4. IF b.at + b.size = al.p THEN Ends(re, al, y) ELSE re = al
  BY DEF GivesUp, Rewound, Ends
<1>5. Ends(ze, al, z) /\ z = 0 /\ z \in Nat
  BY DEF GivesUp
<1>6. /\ Like(d, a) /\ d.count = a.count
      /\ d.p = a.p \/ (d.p = b.at - 1 /\ b.at + b.size = a.p)
      /\ \A k \in 0 .. a.cap - 1 :
           k \notin b.at - 1 .. b.at + b.size - 1 => d.mem[k] = a.mem[k]
  BY <1>2 DEF Rewinds, Like, Forgotten
<1>7. x \in Nat /\ x = a.count - 1 /\ y \in Nat /\ y = b.at - 1
  BY <1>0, <1>1, <1>6
<1> HIDE DEF b, d, x, y, z
<1>8. /\ Like(al, a) /\ al.count = a.count - 1 /\ al.p = d.p /\ al.mem = d.mem
  BY <1>3, <1>6, <1>7, CountEffect DEF Like
<1>9. /\ Like(re, a) /\ re.count = a.count - 1 /\ re.mem = d.mem
      /\ re.p = a.p \/ (re.p = b.at - 1 /\ b.at + b.size = a.p)
  <2>1. CASE b.at + b.size = al.p
    <3>1. a.p = b.at + b.size
      BY <2>1, <1>0, <1>6, <1>8
    <3>2. Like(re, al) /\ re.count = al.count /\ re.mem = al.mem /\ re.p = y
      BY <2>1, <1>4, <1>7, <1>8, EndEffect DEF Like
    <3> QED
      BY <3>1, <3>2, <1>7, <1>8 DEF Like
  <2>2. CASE b.at + b.size # al.p
    BY <2>2, <1>4, <1>6, <1>8
  <2> QED
    BY <2>1, <2>2
<1>10. Like(ze, a) /\ ze.count = a.count - 1 /\ ze.mem = d.mem /\ ze.p = 0
  <2>1. Like(ze, al) /\ ze.count = al.count /\ ze.mem = al.mem /\ ze.p = z
    BY <1>5, <1>8, EndEffect DEF Like
  <2> QED
    BY <2>1, <1>5, <1>8 DEF Like
<1>11. Kept(re, G) /\ (re.count = 0 => Holder(G, re.id) = {})
  BY <1>6, <1>9, DropBlock DEF b
<1>12. a.count = 1 => Kept(ze, G)
  BY <1>6, <1>10, DropBlock DEF b
<1> QED
  BY <1>0, <1>1, <1>8, <1>9, <1>10, <1>11, <1>12 DEF Like

\* A block is given up, and its arena with the last one unless it is of the
\* nominal size, when it comes first in the list (tal_free_impl).
LEMMA FreedInv ==
  ASSUME NEW m \in Nat, NEW M, ListInv(M, m), NEW j \in DOMAIN M,
         NEW H \in [Owner -> Block], NEW a, Kept(a, H), NEW o \in Owner, H[o].id = a.id,
         Rewinds(M[j], a, H[o]),
         NEW G \in [Owner -> Block], NEW c \in Block, c.id # a.id, Changed(H, G, o, c),
         \A k \in DOMAIN M : k # j => ArenaInv(M[k], G),
         \E k \in DOMAIN M : M[k].cap <= M[k].size,
         \A q \in Owner : G[q] = Nothing \/ \E k \in DOMAIN M : M[k].id = G[q].id
  PROVE  HeapInv(Freed(M, H[o]), G, m)
<1> DEFINE b == H[o]
           al == [Dead(M[j], b) EXCEPT !.count = @ - 1]
           re == Rewound(al, b)
           ze == [al EXCEPT !.p = 0]
           others == RemoveAt(M, j)
           F == Freed(M, b)
<1>1. F = IF al.count = 0
          THEN IF al.cap > al.size THEN others ELSE <<ze>> \o others
          ELSE [M EXCEPT ![j] = re]
  <2>1. ArenaOf(M, b) = j
    BY ArenaOfIs DEF Rewinds, Like
  <2> QED
    BY <2>1 DEF Freed
<1>2. GivesUp(M[j], H[o], al, re, ze)
  BY DEF GivesUp, Ends
<1> HIDE DEF al, re, ze, b, F, others
<1>3. /\ a.count > 0 /\ a.count \in Nat /\ a.cap \in Nat /\ a.size \in Nat
      /\ Like(al, a) /\ Like(re, a) /\ Like(ze, a)
      /\ al.count = a.count - 1 /\ re.count = a.count - 1 /\ ze.count = a.count - 1
      /\ ze.p = 0
      /\ Kept(re, G)
      /\ a.count = 1 => Kept(ze, G) /\ Holder(G, a.id) = {}
  BY <1>2, GivenUp
<1>4. /\ al.cap = a.cap /\ al.size = a.size
      /\ Shaped(re) /\ re.id = a.id /\ re.cap = a.cap /\ re.size = a.size
      /\ Shaped(ze) /\ ze.id = a.id /\ ze.cap = a.cap /\ ze.size = a.size
      /\ M[j].id = a.id /\ M[j].cap = a.cap /\ M[j].size = a.size
  BY <1>3 DEF Like, Rewinds
<1>10. /\ ListInv(others, m)
       /\ \A l \in DOMAIN M : l # j => \E k \in DOMAIN others : others[k] = M[l]
       /\ \A k \in DOMAIN others : \E l \in DOMAIN M : l # j /\ others[k] = M[l]
  BY TakeOut DEF others
<1>11. \A k \in DOMAIN others : ArenaInv(others[k], G) /\ others[k].id # a.id
  BY <1>10, <1>4 DEF ListInv
<1>12. CASE al.count = 0 /\ al.cap > al.size
  <2>1. F = others
    BY <1>12, <1>1
  <2>2. \A q \in Owner : G[q].id # a.id
    BY <1>12, <1>3 DEF Holder
  <2>3. \A q \in Owner : G[q] = Nothing \/ \E k \in DOMAIN others : others[k].id = G[q].id
    BY <2>2, <1>4, <1>10
  <2>4. \E k \in DOMAIN others : others[k].cap <= others[k].size
    BY <1>12, <1>3, <1>4, <1>10
  <2> QED
    BY <2>1, <2>3, <2>4, <1>10, <1>11 DEF HeapInv, b, F
<1>13. CASE al.count = 0 /\ ~ (al.cap > al.size)
  <2> DEFINE E == <<ze>> \o others
  <2>1. F = E
    BY <1>13, <1>1
  <2>2. ArenaInv(ze, G)
    <3>1. a.count = 1
      BY <1>13, <1>3
    <3> QED
      BY <3>1, <1>13, <1>3, <1>4 DEF ArenaInv, Recycled
  <2>3. ze \in Arenas /\ ze.id \in 1 .. m
    BY <1>4 DEF Shaped, ListInv
  <2>4. /\ ListInv(E, m) /\ E[1] = ze /\ Len(E) = Len(others) + 1
        /\ \A i \in DOMAIN others : i + 1 \in DOMAIN E /\ E[i + 1] = others[i]
        /\ \A i \in DOMAIN E : i # 1 => i - 1 \in DOMAIN others /\ E[i] = others[i - 1]
    BY <2>3, <1>4, <1>10, <1>11, PutFirst
  <2> HIDE DEF E
  <2>5. \A i \in DOMAIN E : ArenaInv(E[i], G)
    BY <2>2, <2>4, <1>11
  <2>6. 1 \in DOMAIN E
    BY <2>4, <1>10 DEF ListInv
  <2>7. E[1].cap <= E[1].size
    BY <2>4, <1>13, <1>3, <1>4
  <2>8. \A q \in Owner : G[q] = Nothing \/ \E k \in DOMAIN E : E[k].id = G[q].id
    BY <1>10, <2>4, <2>6, <1>4
  <2> QED
    BY <2>1, <2>4, <2>5, <2>6, <2>7, <2>8 DEF HeapInv, b, F
<1>14. CASE al.count # 0
  <2> DEFINE E == [M EXCEPT ![j] = re]
  <2>1. F = E
    BY <1>14, <1>1
  <2>2. ArenaInv(re, G)
    BY <1>14, <1>3, <1>4 DEF ArenaInv, Recycled
  <2>3. /\ ListInv(E, m) /\ DOMAIN E = DOMAIN M /\ E[j] = re
        /\ \A k \in DOMAIN M : k # j => E[k] = M[k]
    BY <1>4, PutBack DEF Shaped
  <2> HIDE DEF E
  <2>4. \A i \in DOMAIN E : ArenaInv(E[i], G)
    BY <2>2, <2>3
  <2>5. \E k \in DOMAIN E : E[k].cap <= E[k].size
    BY <2>3, <1>4
  <2>6. \A q \in Owner : G[q] = Nothing \/ \E k \in DOMAIN E : E[k].id = G[q].id
    BY <2>3, <1>4
  <2> QED
    BY <2>1, <2>3, <2>4, <2>5, <2>6 DEF HeapInv, b, F
<1> QED
  BY <1>12, <1>13, <1>14
-----------------------------------------------------------------------------
(* The operations on the list.                                             *)

\* The list K, of identities up to l, is L, or L with a new arena in front, and
\* its arena at `at' has room for n words.
Offers(L, K, at, l, n, H) ==
  /\ l \in Nat /\ made <= l
  /\ ListInv(K, l)
  /\ at \in DOMAIN K /\ Fits(K[at], n)
  /\ \A j \in DOMAIN K :
       \/ \E i \in DOMAIN L : L[i] = K[j]
       \/ j = at /\ Kept(K[at], H) /\ \A i \in DOMAIN L : L[i].id # K[at].id
  /\ \A i \in DOMAIN L : \E j \in DOMAIN K : K[j] = L[i]

\* An arena with room is found or made (tal_realloc's walk over the list, tal_new).
LEMMA Offered ==
  ASSUME NEW L, ListInv(L, made), made \in Nat, NEW n \in Nat, L # << >>,
         L[1].size = ArenaSize,
         NEW H \in [Owner -> Block], \A o \in Owner : H[o].id <= made
  PROVE  LET r == WithRoom(L, n)
         IN Offers(L, r.list, r.at, made + r.fresh, n, H)
<1> DEFINE r == WithRoom(L, n)
<1>1. CASE r.fresh = 0 /\ r.list = L /\ r.at \in DOMAIN L /\ Fits(L[r.at], n)
  BY <1>1 DEF Offers
<1>2. ASSUME r.fresh = 1, r.at = 1, NEW cap \in Nat, ArenaSize <= cap, n + 1 <= cap,
             r.list = <<Arena(made + 1, cap, ArenaSize)>> \o L
      PROVE  Offers(L, r.list, r.at, made + r.fresh, n, H)
  <2> DEFINE a == Arena(made + 1, cap, ArenaSize)
             K == <<a>> \o L
  <2>0. made + 1 \in Nat /\ made <= made + 1 /\ made + 1 \in 1 .. made + 1
    OBVIOUS
  <2>1. a.id = made + 1 /\ a.cap = cap /\ a.p = 0 /\ a.count = 0 /\ Kept(a, H)
    <3>1. \A o \in Owner : H[o].id # made + 1
      BY DEF Block
    <3> DEFINE id == made + 1
    <3> HIDE DEF id
    <3> QED
      BY <1>2, <2>0, <3>1, NewArena DEF id
  <2> HIDE DEF a
  <2>2. a \in Arenas /\ a.id \in 1 .. made + 1
    BY <2>0, <2>1 DEF Kept, Shaped
  <2>3. \A i \in DOMAIN L : L[i].id # a.id
    BY <2>0, <2>1 DEF ListInv
  <2>4. /\ ListInv(K, made + 1) /\ K[1] = a /\ Len(K) = Len(L) + 1
        /\ \A i \in DOMAIN L : i + 1 \in DOMAIN K /\ K[i + 1] = L[i]
        /\ \A j \in DOMAIN K : j # 1 => j - 1 \in DOMAIN L /\ K[j] = L[j - 1]
    BY <2>0, <2>2, <2>3, PutFirst
  <2>5. Fits(a, n)
    BY <1>2, <2>1 DEF Fits, AdjSize
  <2>6. 1 \in DOMAIN K
    <3> HIDE DEF K
    <3>1. Len(L) \in Nat /\ DOMAIN K = 1 .. Len(K)
      BY <2>4 DEF ListInv
    <3> QED
      BY <3>1, <2>4
  <2> HIDE DEF K
  <2>7. Offers(L, K, 1, made + 1, n, H)
    BY <2>0, <2>1, <2>3, <2>4, <2>5, <2>6 DEF Offers
  <2>8. r.list = K
    BY <1>2 DEF K, a
  <2> HIDE DEF r
  <2> QED
    BY <1>2, <2>7, <2>8
<1>3. \/ r.fresh = 0 /\ r.list = L /\ r.at \in DOMAIN L /\ Fits(L[r.at], n)
      \/ /\ r.fresh = 1 /\ r.at = 1
         /\ \E cap \in Nat :
              /\ ArenaSize <= cap /\ n + 1 <= cap
              /\ r.list = <<Arena(made + 1, cap, ArenaSize)>> \o L
  BY RoomFound
<1> HIDE DEF r
<1> QED
  BY <1>1, <1>2, <1>3 DEF r

\* A new block in an arena with room (tal_realloc with p = NULL).
LEMMA NewBlock ==
  ASSUME NEW a, NEW H \in [Owner -> Block], Kept(a, H), NEW o \in Owner, NEW n \in Nat,
         H[o].id # a.id, Fits(a, n), NEW G \in [Owner -> Block],
         Changed(H, G, o, [id |-> a.id, at |-> a.p + 1, size |-> n])
  PROVE  LET w == Filled(Cut([a EXCEPT !.count = @ + 1], n), o, a.p + 1, 0, n)
         IN Kept(w, G) /\ Like(w, a) /\ w.count # 0
<1> DEFINE x == a.count + 1
           e == [a EXCEPT !.count = @ + 1]
           d == Cut(e, n)
           at == a.p + 1
           z == 0
           w == Filled(d, o, at, z, n)
<1>0. /\ Shaped(a) /\ a.p \in Nat /\ a.cap \in Nat /\ a.count \in Nat
      /\ x \in Nat /\ x = a.count + 1 /\ at \in Nat /\ at = a.p + 1
      /\ z \in Nat /\ z = 0
  BY DEF Kept, Shaped, Arenas
<1>1. Counts(e, a, x)
  BY <1>0 DEF Counts, Shaped, Arenas
<1>t. at \in Nat /\ z \in Nat
  BY <1>0
<1> HIDE DEF x, e, at, z
<1>2. Like(e, a) /\ e.count = x /\ e.p = a.p /\ e.mem = a.mem
  BY <1>0, <1>1, CountEffect
<1>3. Shaped(e) /\ Fits(e, n) /\ a.p + n + 1 <= a.cap
  BY <1>2, <1>0 DEF Like, Fits, AdjSize
<1>4. /\ Like(d, a) /\ Shaped(d) /\ d.count = x /\ d.p = a.p + n + 1
      /\ HeaderPut(d, a, a.p, n)
  BY <1>2, <1>3, CutEffect DEF Like, HeaderPut
<1> HIDE DEF d
<1>5. Like(w, d) /\ w.count = x /\ w.p = a.p + n + 1 /\ Written(w, d, o, at, z, n)
  <2>1. Shaped(d) /\ Like(w, d) /\ w.count = d.count /\ w.p = d.p /\ Written(w, d, o, at, z, n)
    BY <1>t, <1>4, FilledEffect
  <2> QED
    BY <2>1, <1>4
<1> HIDE DEF w
<1>a. \A k \in 0 .. a.cap - 1 :
        /\ d.mem[k] = IF k = a.p THEN Header(n) ELSE a.mem[k]
        /\ w.mem[k] = IF k \in at .. at + n - 1 THEN Cell(o, k - at) ELSE d.mem[k]
  BY <1>0, <1>4, <1>5 DEF HeaderPut, Written, Like
<1>6. /\ w.mem[a.p] = Header(n)
      /\ \A k \in 0 .. a.p - 1 : w.mem[k] = a.mem[k]
  BY <1>0, <1>3, <1>a
<1>7. ASSUME NEW k \in 0 .. n - 1 PROVE w.mem[a.p + 1 + k] = Cell(o, k)
  <2>1. at + k \in 0 .. a.cap - 1 /\ at + k \in at .. at + n - 1 /\ (at + k) - at = k
    BY <1>0, <1>3
  <2>2. w.mem[at + k] = Cell(o, k)
    BY <2>1, <1>a
  <2> QED
    BY <2>2, <1>0
<1>8. Like(w, a)
  BY <1>4, <1>5 DEF Like
<1>9. Kept(w, G)
  BY <1>0, <1>5, <1>6, <1>7, <1>8, AddBlock
<1> QED
  BY <1>0, <1>5, <1>8, <1>9 DEF w, d, e, at, z

\* The words of a block that is cut at x, to which m words are copied and the
\* owner adds the rest (tal_realloc, memcpy).
LEMMA WordsOfCopy ==
  ASSUME NEW cap \in Nat, NEW x \in Nat, NEW n \in Nat, NEW m \in Nat, m <= n,
         x + n + 1 <= cap, NEW o, NEW from \in Nat,
         NEW source, NEW E, NEW D, NEW F, NEW W,
         \A k \in 0 .. m - 1 : source[from + k] = Cell(o, k),
         \A k \in 0 .. cap - 1 : D[k] = IF k = x THEN Header(n) ELSE E[k],
         \A k \in 0 .. cap - 1 :
           F[k] = IF k \in x + 1 .. x + 1 + m - 1 THEN source[from + k - (x + 1)] ELSE D[k],
         \A k \in 0 .. cap - 1 :
           W[k] = IF k \in x + 1 + m .. x + 1 + n - 1 THEN Cell(o, k - (x + 1)) ELSE F[k]
  PROVE  /\ W[x] = Header(n)
         /\ \A k \in 0 .. n - 1 : W[x + 1 + k] = Cell(o, k)
         /\ \A k \in 0 .. x - 1 : W[k] = E[k]
<1>1. W[x] = Header(n)
  OBVIOUS
<1>2. \A k \in 0 .. x - 1 : W[k] = E[k]
  OBVIOUS
<1>3. ASSUME NEW k \in 0 .. n - 1 PROVE W[x + 1 + k] = Cell(o, k)
  <2> DEFINE l == x + 1 + k
  <2>1. l \in 0 .. cap - 1 /\ l - (x + 1) = k /\ from + l - (x + 1) = from + k
    OBVIOUS
  <2>2. CASE k < m
    <3>1. l \in x + 1 .. x + 1 + m - 1 /\ ~ (l \in x + 1 + m .. x + 1 + n - 1) /\ k \in 0 .. m - 1
      BY <2>2
    <3> HIDE DEF l
    <3>2. F[l] = source[from + k]
      BY <2>1, <3>1
    <3>3. W[l] = F[l]
      BY <2>1, <3>1
    <3> QED
      BY <3>1, <3>2, <3>3 DEF l
  <2>3. CASE ~ (k < m)
    <3>1. l \in x + 1 + m .. x + 1 + n - 1
      BY <2>3
    <3> HIDE DEF l
    <3>2. W[l] = Cell(o, l - (x + 1))
      BY <2>1, <3>1
    <3> QED
      BY <2>1, <3>2 DEF l
  <2> QED
    BY <2>2, <2>3
<1> QED
  BY <1>1, <1>2, <1>3

\* What cutting, copying and writing make of an arena (tal_realloc, memcpy).
LEMMA CutCopyFill ==
  ASSUME NEW e, Shaped(e), NEW x \in Nat, EndsAt(e, x), NEW o \in Owner, NEW n \in Nat,
         Fits(e, n), NEW c \in Nat, NEW source \in [0 .. c - 1 -> Cells],
         NEW from \in Nat, NEW m \in Nat, m <= n, from + m <= c,
         \A k \in 0 .. m - 1 : source[from + k] = Cell(o, k)
  PROVE  HasBlock(Filled(Copied(Cut(e, n), x + 1, source, from, m), o, x + 1, m, n),
                  e, o, x, n)
<1> DEFINE at == x + 1
           d == Cut(e, n)
           f == Copied(d, at, source, from, m)
           w == Filled(f, o, at, m, n)
<1>1. e.cap \in Nat /\ x + n + 1 <= e.cap
  BY DEF Shaped, Arenas, Fits, AdjSize, EndsAt
<1>2. at \in Nat
  OBVIOUS
<1> HIDE DEF at, d, f, w
<1>3. Like(d, e) /\ d.count = e.count /\ d.p = x + n + 1 /\ HeaderPut(d, e, x, n)
  BY CutEffect DEF d, EndsAt
<1>4. Like(f, d) /\ f.count = d.count /\ f.p = d.p /\ Moved(f, d, at, source, from, m)
  <2>1. Shaped(d)
    BY <1>3 DEF Like
  <2> QED
    BY <2>1, <1>2, CopiedEffect DEF f
<1>5. Like(w, f) /\ w.count = f.count /\ w.p = f.p /\ Written(w, f, o, at, m, n)
  <2>1. Shaped(f)
    BY <1>4 DEF Like
  <2> QED
    BY <2>1, <1>2, FilledEffect DEF w
<1>6. /\ \A k \in 0 .. e.cap - 1 : d.mem[k] = IF k = x THEN Header(n) ELSE e.mem[k]
      /\ \A k \in 0 .. e.cap - 1 :
           f.mem[k] = IF k \in x + 1 .. x + 1 + m - 1 THEN source[from + k - (x + 1)] ELSE d.mem[k]
      /\ \A k \in 0 .. e.cap - 1 :
           w.mem[k] = IF k \in x + 1 + m .. x + 1 + n - 1 THEN Cell(o, k - (x + 1)) ELSE f.mem[k]
  BY <1>3, <1>4, <1>5 DEF HeaderPut, Moved, Written, Like, at
<1>7. /\ w.mem[x] = Header(n)
      /\ \A k \in 0 .. n - 1 : w.mem[x + 1 + k] = Cell(o, k)
      /\ \A k \in 0 .. x - 1 : w.mem[k] = e.mem[k]
  BY <1>1, <1>6, WordsOfCopy
<1>8. Like(w, e) /\ w.count = e.count /\ w.p = x + n + 1
  BY <1>3, <1>4, <1>5 DEF Like
<1> QED
  BY <1>1, <1>7, <1>8 DEF w, f, d, at, HasBlock

\* The new block of one that grows: the old words and the owner's new ones
\* (tal_realloc, memcpy).
LEMMA NewCopy ==
  ASSUME NEW a, NEW H \in [Owner -> Block], Kept(a, H), NEW o \in Owner, NEW n \in Nat,
         H[o].id # a.id, Fits(a, n), NEW G \in [Owner -> Block],
         Takes(H, G, o, a, n),
         NEW c \in Nat, NEW source \in [0 .. c - 1 -> Cells], NEW from \in Nat, NEW m \in Nat,
         m <= n, from + m <= c,
         \A k \in 0 .. m - 1 : source[from + k] = Cell(o, k)
  PROVE  /\ Kept(CopyInto(a, o, source, from, m, n), G)
         /\ Like(CopyInto(a, o, source, from, m, n), a)
         /\ CopyInto(a, o, source, from, m, n).count # 0
<1> DEFINE y == a.count + 1
           e == [a EXCEPT !.count = @ + 1]
           w == Filled(Copied(Cut(e, n), a.p + 1, source, from, m), o, a.p + 1, m, n)
<1>1. Shaped(a) /\ a.count \in Nat /\ a.p \in Nat
  BY DEF Kept, Shaped, Arenas
<1>2. y \in Nat /\ y = a.count + 1
  BY <1>1
<1>3. Counts(e, a, y)
  BY <1>1 DEF Counts, Shaped, Arenas
<1> HIDE DEF y, e
<1>4. Like(e, a) /\ e.count = y /\ e.p = a.p /\ e.mem = a.mem
  BY <1>1, <1>2, <1>3, CountEffect
<1>5. Shaped(e) /\ Fits(e, n)
  BY <1>4 DEF Like, Fits
<1>6. /\ Like(w, e) /\ w.count = e.count /\ w.p = a.p + n + 1
      /\ w.mem[a.p] = Header(n)
      /\ \A k \in 0 .. n - 1 : w.mem[a.p + 1 + k] = Cell(o, k)
      /\ \A k \in 0 .. a.p - 1 : w.mem[k] = e.mem[k]
  <2> DEFINE x == a.p
             v == Filled(Copied(Cut(e, n), x + 1, source, from, m), o, x + 1, m, n)
  <2>1. x \in Nat /\ EndsAt(e, x)
    BY <1>1, <1>4 DEF EndsAt
  <2> HIDE DEF x
  <2>2. HasBlock(v, e, o, x, n)
    BY <2>1, <1>5, CutCopyFill
  <2>3. v = w
    BY DEF x
  <2> HIDE DEF v, w
  <2> QED
    BY <2>2, <2>3 DEF x, HasBlock
<1> HIDE DEF w
<1>7. /\ Like(w, a) /\ w.count = a.count + 1
      /\ \A k \in 0 .. a.p - 1 : w.mem[k] = a.mem[k]
  BY <1>2, <1>4, <1>6 DEF Like
<1>8. Kept(w, G)
  BY <1>6, <1>7, AddBlock DEF Takes
<1> QED
  BY <1>1, <1>7, <1>8 DEF w, e, CopyInto

\* The block of one that grows inside its arena (tal_realloc).
LEMMA MovedBlock ==
  ASSUME NEW a, NEW H \in [Owner -> Block], Kept(a, H), NEW o \in Owner, NEW n \in Nat,
         H[o].id = a.id, H[o].size <= n, NEW al, RewoundTo(al, a, H[o]), Fits(al, n),
         NEW G \in [Owner -> Block],
         Changed(H, G, o, [id |-> a.id, at |-> al.p + 1, size |-> n])
  PROVE  LET b == H[o]
             w == Filled(Copied(Cut(Dead(al, b), n), al.p + 1, al.mem, b.at, b.size),
                         o, al.p + 1, b.size, n)
         IN Kept(w, G) /\ Like(w, a) /\ w.count # 0 /\ al.id = a.id
<1> DEFINE b == H[o]
           x == al.p
           y == b.at - 1
           e == Dead(al, b)
           w == Filled(Copied(Cut(e, n), al.p + 1, al.mem, b.at, b.size), o, al.p + 1, b.size, n)
<1>0. /\ Shaped(a) /\ a.p \in Nat /\ a.cap \in Nat /\ a.count \in Nat /\ a.p <= a.cap
      /\ b \in Block /\ b.at \in Nat /\ b.size \in Nat /\ b.at > 0
      /\ b.at + b.size <= a.p /\ Sound(a, o, b) /\ b.size <= n
      /\ a.mem \in [0 .. a.cap - 1 -> Cells]
  BY DEF Kept, Shaped, Arenas, Holder, Sound, Block
<1>1. a.count # 0
  BY <1>0, CountedBlocks
<1>2. y \in Nat
  BY <1>0
<1>3. IF b.at + b.size = a.p THEN Ends(al, a, y) ELSE al = a
  BY DEF RewoundTo, Rewound, Ends
<1>4. y = b.at - 1
  OBVIOUS
<1> HIDE DEF b, x, y, e, w
<1>5. /\ Like(al, a) /\ al.count = a.count /\ al.mem = a.mem
      /\ al.p = a.p \/ (al.p = b.at - 1 /\ b.at + b.size = a.p)
  <2>1. CASE b.at + b.size = a.p
    <3>1. Like(al, a) /\ al.count = a.count /\ al.p = y /\ al.mem = a.mem
      BY <2>1, <1>0, <1>2, <1>3, EndEffect
    <3> QED
      BY <2>1, <3>1, <1>4
  <2>2. CASE b.at + b.size # a.p
    <3>1. al = a
      BY <2>2, <1>3
    <3>2. Like(a, a)
      BY <1>0 DEF Like
    <3> QED
      BY <3>1, <3>2
  <2> QED
    BY <2>1, <2>2
<1>6. Shaped(al) /\ x \in Nat
  BY <1>5 DEF Like, Shaped, Arenas, x
<1>7. Like(e, al) /\ e.count = al.count /\ e.p = x /\ Forgotten(e, al, b)
  BY <1>0, <1>6, DeadEffect DEF e, x
<1>8. /\ Like(w, e) /\ w.count = e.count /\ w.p = x + n + 1 /\ x + n + 1 <= e.cap
      /\ w.mem[x] = Header(n)
      /\ \A k \in 0 .. n - 1 : w.mem[x + 1 + k] = Cell(o, k)
      /\ \A k \in 0 .. x - 1 : w.mem[k] = e.mem[k]
  <2> DEFINE at == b.at
             sz == b.size
             c == a.cap
             v == Filled(Copied(Cut(e, n), x + 1, al.mem, at, sz), o, x + 1, sz, n)
  <2>1. Shaped(e) /\ Fits(e, n) /\ EndsAt(e, x)
    BY <1>7 DEF Like, Fits, EndsAt, x
  <2>2. /\ al.mem \in [0 .. a.cap - 1 -> Cells]
        /\ \A k \in 0 .. b.size - 1 : al.mem[b.at + k] = Cell(o, k)
    BY <1>0, <1>5 DEF Sound
  <2>3. b.at + b.size <= a.cap
    BY <1>0
  <2>4. HasBlock(v, e, o, x, n)
    <3>1. /\ at \in Nat /\ sz \in Nat /\ c \in Nat /\ sz <= n /\ at + sz <= c
          /\ al.mem \in [0 .. c - 1 -> Cells]
          /\ \A k \in 0 .. sz - 1 : al.mem[at + k] = Cell(o, k)
      BY <2>2, <2>3, <1>0
    <3> HIDE DEF at, sz, c
    <3> QED
      BY <2>1, <3>1, <1>6, CutCopyFill
  <2>5. v = w
    BY DEF x, w
  <2> HIDE DEF v
  <2> QED
    BY <2>4, <2>5 DEF HasBlock
<1>9. \A k \in 0 .. x - 1 : k \notin b.at - 1 .. b.at + b.size - 1 => w.mem[k] = a.mem[k]
  <2>1. e.cap = al.cap /\ al.cap \in Nat /\ al.mem = a.mem
    BY <1>5, <1>7 DEF Like, Shaped, Arenas
  <2>2. \A k \in 0 .. x - 1 : k \in 0 .. al.cap - 1
    BY <2>1, <1>6, <1>8
  <2> QED
    BY <2>1, <2>2, <1>7, <1>8 DEF Forgotten
<1>10. /\ Like(w, a) /\ w.count = a.count /\ x + n + 1 <= a.cap
  BY <1>5, <1>7, <1>8 DEF Like
<1>11. Changed(H, G, o, [id |-> a.id, at |-> x + 1, size |-> n])
  BY DEF x
<1>12. Kept(w, G)
  <2>1. \/ x = a.p
        \/ x = H[o].at - 1 /\ H[o].at + H[o].size = a.p
    BY <1>5 DEF b, x
  <2>2. \A k \in 0 .. x - 1 :
          k \notin H[o].at - 1 .. H[o].at + H[o].size - 1 => w.mem[k] = a.mem[k]
    BY <1>9 DEF b
  <2> QED
    BY <2>1, <2>2, <1>6, <1>8, <1>10, <1>11, MoveBlock
<1>13. al.id = a.id
  BY <1>5 DEF Like
<1> QED
  BY <1>1, <1>10, <1>12, <1>13 DEF w, e, b
-----------------------------------------------------------------------------
(* The operations.                                                         *)

\* The allocator starts with one empty arena (tal_new).
LEMMA TalInitInv == TalInit => TalInv
<1> SUFFICES ASSUME TalInit PROVE TalInv
  OBVIOUS
<1> DEFINE a == Arena(1, ArenaSize, ArenaSize)
<1>1. held \in [Owner -> Block] /\ \A o \in Owner : held[o] = Nothing /\ held[o].id # 1
  BY DEF TalInit, Nothing, Block
<1>2. a.id = 1 /\ a.cap = ArenaSize /\ a.p = 0 /\ a.count = 0 /\ Kept(a, held)
  BY <1>1, TalAssumption, NewArena
<1>3. list = <<a>> /\ made = 1
  BY DEF TalInit
<1> HIDE DEF a
<1>4. a \in Arenas /\ ArenaInv(a, held) /\ a.cap <= a.size
  BY <1>2, TalAssumption DEF Kept, Shaped, ArenaInv, Recycled
<1>5. ListInv(list, made)
  BY <1>2, <1>3, <1>4 DEF ListInv
<1> QED
  BY <1>1, <1>3, <1>4, <1>5 DEF TalInv, HeapInv

\* What every state's list offers: its first arena, and that no block is in an
\* arena still to be made.
LEMMA HeapFacts ==
  ASSUME TalInv
  PROVE  /\ made \in Nat /\ ListInv(list, made) /\ list # << >>
         /\ list[1].size = ArenaSize
         /\ held \in [Owner -> Block]
         /\ \A o \in Owner : held[o].id <= made
         /\ \A i \in DOMAIN list : ArenaInv(list[i], held)
<1>1. /\ made \in Nat /\ ListInv(list, made) /\ held \in [Owner -> Block]
      /\ \A i \in DOMAIN list : ArenaInv(list[i], held)
      /\ \E i \in DOMAIN list : list[i].cap <= list[i].size
      /\ \A o \in Owner : held[o] = Nothing \/ \E i \in DOMAIN list : list[i].id = held[o].id
  BY DEF TalInv, HeapInv
<1>2. list \in Seq(Arenas)
  BY <1>1 DEF ListInv
<1>3. list # << >> /\ 1 \in DOMAIN list
  BY <1>1, <1>2
<1>4. list[1].size = ArenaSize
  BY <1>1, <1>3 DEF ArenaInv, Kept
<1>5. \A o \in Owner : held[o].id <= made
  BY <1>1 DEF ListInv, Nothing
<1> QED
  BY <1>1, <1>3, <1>4, <1>5

\* An arena that is neither the block's old one nor its new one stays as it is.
LEMMA FrameInv ==
  ASSUME NEW a, NEW H \in [Owner -> Block], NEW G \in [Owner -> Block], ArenaInv(a, H),
         NEW o \in Owner, NEW b, Changed(H, G, o, b), H[o].id # a.id, b.id # a.id
  PROVE  ArenaInv(a, G)
<1>1. \A q \in Owner : H[q].id = a.id \/ G[q].id = a.id => G[q] = H[q]
  BY DEF Changed
<1> QED
  BY <1>1, FrameKept DEF ArenaInv

\* A first block of an owner (tal_realloc with p = NULL).
LEMMA AllocateInv ==
  ASSUME TalInv, NEW o \in Owner, NEW n \in Request, Allocate(o, n)
  PROVE  TalInv'
<1> DEFINE r == WithRoom(list, n)
           K == r.list
           at == r.at
           l == made + r.fresh
           al == K[at]
           b == [id |-> al.id, at |-> al.p + 1, size |-> n]
           w == Filled(Cut([al EXCEPT !.count = @ + 1], n), o, al.p + 1, 0, n)
           E == [K EXCEPT ![at] = w]
           G == [held EXCEPT ![o] = b]
<1>0. n \in Nat
  BY TalAssumption
<1>1. Offers(list, K, at, l, n, held)
  BY <1>0, HeapFacts, Offered
<1>2. list' = E /\ held' = G /\ made' = l /\ held[o] = Nothing
  BY DEF Allocate
<1>3. held \in [Owner -> Block]
  BY HeapFacts
<1> HIDE DEF r, K, at, l
<1>4. /\ l \in Nat /\ ListInv(K, l) /\ at \in DOMAIN K /\ Fits(al, n)
      /\ Kept(al, held) /\ al.id \in 1 .. l
  BY <1>1, HeapFacts DEF Offers, ArenaInv, ListInv
<1> HIDE DEF al
<1>5. held[o].id = 0 /\ al.id # 0 /\ al.id \in Nat /\ al.p \in Nat
  BY <1>2, <1>4 DEF Nothing, Kept, Shaped, Arenas
<1>6. b \in Block /\ b.id = al.id
  BY <1>0, <1>5 DEF Block
<1>7. G \in [Owner -> Block] /\ Changed(held, G, o, b)
  BY <1>3, <1>6 DEF Changed
<1>8. Kept(w, G) /\ Like(w, al) /\ w.count # 0
  <2> HIDE DEF G
  <2>1. Changed(held, G, o, [id |-> al.id, at |-> al.p + 1, size |-> n])
    BY <1>7
  <2>2. held[o].id # al.id
    BY <1>5
  <2> QED
    BY <2>1, <2>2, <1>0, <1>3, <1>4, <1>7, NewBlock
<1> HIDE DEF w, G, b
<1>9. w \in Arenas /\ w.id = K[at].id /\ w.cap = K[at].cap /\ w.size = K[at].size
  BY <1>8 DEF Like, Shaped, al
<1>10. /\ ListInv(E, l) /\ DOMAIN E = DOMAIN K /\ E[at] = w
       /\ \A j \in DOMAIN K : j # at => E[j] = K[j]
  BY <1>4, <1>9, PutBack
<1> HIDE DEF E
<1>11. ASSUME NEW j \in DOMAIN E PROVE ArenaInv(E[j], G)
  <2>1. CASE j = at
    BY <2>1, <1>8, <1>10 DEF ArenaInv, Recycled
  <2>2. CASE j # at
    <3>1. E[j] = K[j] /\ ArenaInv(K[j], held)
      BY <2>2, <1>1, <1>10, HeapFacts DEF Offers
    <3>2. K[j].id # al.id /\ K[j].id # 0
      BY <2>2, <1>4, <1>10 DEF ListInv, al
    <3> QED
      BY <3>1, <3>2, <1>3, <1>5, <1>6, <1>7, FrameInv
  <2> QED
    BY <2>1, <2>2
<1>12. \A j \in DOMAIN K : E[j].id = K[j].id /\ E[j].cap = K[j].cap /\ E[j].size = K[j].size
  BY <1>9, <1>10
<1>13. \A i \in DOMAIN list : \E j \in DOMAIN K : K[j] = list[i]
  BY <1>1 DEF Offers
<1>14. \E j \in DOMAIN E : E[j].cap <= E[j].size
  BY <1>10, <1>12, <1>13 DEF TalInv, HeapInv
<1>15. \A q \in Owner : G[q] = Nothing \/ \E j \in DOMAIN E : E[j].id = G[q].id
  <2> TAKE q \in Owner
  <2>1. CASE q = o
    BY <2>1, <1>4, <1>6, <1>7, <1>10, <1>12 DEF Changed, al
  <2>2. CASE q # o
    BY <2>2, <1>7, <1>10, <1>12, <1>13 DEF Changed, TalInv, HeapInv
  <2> QED
    BY <2>1, <2>2
<1>16. HeapInv(E, G, l)
  BY <1>4, <1>7, <1>10, <1>11, <1>14, <1>15 DEF HeapInv
<1> QED
  BY <1>2, <1>16 DEF TalInv

\* A block is given up (tal_free_impl).
LEMMA FreeInv ==
  ASSUME TalInv, NEW o \in Owner, Free(o)
  PROVE  TalInv'
<1> DEFINE b == held[o]
           G == [held EXCEPT ![o] = Nothing]
<1>1. list' = Freed(list, b) /\ held' = G /\ made' = made /\ b # Nothing
  BY DEF Free
<1>2. held \in [Owner -> Block] /\ Nothing \in Block
  BY HeapFacts DEF Nothing, Block
<1>3. G \in [Owner -> Block] /\ Changed(held, G, o, Nothing)
  BY <1>2 DEF Changed
<1> HIDE DEF G
<1>4. PICK j \in DOMAIN list : list[j].id = b.id
  BY <1>1 DEF TalInv, HeapInv
<1> DEFINE a == list[j]
<1>5. /\ made \in Nat /\ ListInv(list, made) /\ Kept(a, held) /\ a.id = b.id
      /\ a.id # 0 /\ Nothing.id # a.id
  BY <1>4, HeapFacts DEF ArenaInv, ListInv, Nothing
<1>6. Rewinds(a, a, b)
  BY <1>5 DEF Rewinds, Like, Kept
<1>7. \A k \in DOMAIN list : k # j => ArenaInv(list[k], G)
  <2> TAKE k \in DOMAIN list
  <2> HAVE k # j
  <2>1. list[k].id # a.id /\ list[k].id # 0 /\ ArenaInv(list[k], held)
    BY HeapFacts DEF ListInv
  <2> DEFINE c == list[k]
  <2>2. ArenaInv(c, held) /\ held[o].id # c.id /\ Nothing.id # c.id
    BY <2>1, <1>5 DEF Nothing
  <2> HIDE DEF c
  <2>3. ArenaInv(c, G)
    BY <2>2, <1>2, <1>3, FrameInv
  <2> QED
    BY <2>3 DEF c
<1>8. \E k \in DOMAIN list : list[k].cap <= list[k].size
  BY DEF TalInv, HeapInv
<1>9. \A q \in Owner : G[q] = Nothing \/ \E k \in DOMAIN list : list[k].id = G[q].id
  BY <1>3 DEF Changed, TalInv, HeapInv
<1>10. HeapInv(Freed(list, b), G, made)
  BY <1>2, <1>3, <1>5, <1>6, <1>7, <1>8, <1>9, FreedInv
<1> QED
  BY <1>1, <1>10 DEF TalInv

\* An arena rewound to a block's header if the block is its last (tal_realloc).
LEMMA RewoundIs ==
  ASSUME NEW H \in [Owner -> Block], NEW a, Kept(a, H), NEW o \in Owner, H[o].id = a.id
  PROVE  Rewinds(Rewound(a, H[o]), a, H[o])
<1> DEFINE b == H[o]
           al == Rewound(a, b)
           y == b.at - 1
<1>1. Shaped(a) /\ b \in Block /\ b.at > 0 /\ y \in Nat /\ y = b.at - 1
  BY DEF Kept, Holder, Sound, Block
<1>2. IF b.at + b.size = a.p THEN Ends(al, a, y) ELSE al = a
  BY DEF Rewound, Ends
<1> HIDE DEF b, al, y
<1>3. CASE b.at + b.size = a.p
  <2>1. Like(al, a) /\ al.count = a.count /\ al.mem = a.mem /\ al.p = y
    BY <1>1, <1>2, <1>3, EndEffect
  <2>2. Rewinds(al, a, b)
    BY <2>1, <1>1, <1>3 DEF Rewinds
  <2> QED
    BY <2>2 DEF al, b
<1>4. CASE b.at + b.size # a.p
  <2>1. al = a
    BY <1>2, <1>4
  <2>2. Rewinds(al, a, b)
    BY <2>1, <1>1 DEF Rewinds, Like
  <2> QED
    BY <2>2 DEF al, b
<1> QED
  BY <1>3, <1>4

\* A block that grows in its arena (tal_realloc).
LEMMA GrowInsideInv ==
  ASSUME TalInv, NEW o \in Owner, NEW n \in Request, GrowInside(o, n)
  PROVE  TalInv'
<1> DEFINE b == held[o]
<1>0. n \in Nat /\ b # Nothing /\ b.size <= n
  BY TalAssumption DEF GrowInside
<1>1. PICK i \in DOMAIN list : list[i].id = b.id
  BY <1>0 DEF TalInv, HeapInv
<1>2. ArenaOf(list, b) = i
  BY <1>1, HeapFacts, ArenaOfIs
<1> DEFINE a == list[i]
           al == Rewound(a, b)
           c == [id |-> al.id, at |-> al.p + 1, size |-> n]
           w == Filled(Copied(Cut(Dead(al, b), n), al.p + 1, al.mem, b.at, b.size),
                       o, al.p + 1, b.size, n)
           E == [list EXCEPT ![i] = w]
           G == [held EXCEPT ![o] = c]
<1>3. Fits(al, n) /\ list' = E /\ held' = G /\ made' = made
  BY <1>2 DEF GrowInside
<1>4. /\ made \in Nat /\ ListInv(list, made) /\ Kept(a, held) /\ a.id = b.id
      /\ held \in [Owner -> Block] /\ Shaped(a) /\ b \in Block
  BY <1>1, HeapFacts DEF ArenaInv, Kept
<1>5. RewoundTo(al, a, b) /\ al.id = a.id /\ Shaped(al)
  BY <1>1, <1>4, RewoundIs DEF RewoundTo, Rewinds, Like
<1>6. al.p + 1 \in Nat /\ al.id \in Nat
  BY <1>5 DEF Shaped, Arenas
<1> HIDE DEF al
<1>7. c \in Block /\ c.id = a.id /\ c = [id |-> a.id, at |-> al.p + 1, size |-> n]
  BY <1>0, <1>5, <1>6 DEF Block
<1> HIDE DEF c
<1>8. G \in [Owner -> Block] /\ Changed(held, G, o, c)
  BY <1>4, <1>7 DEF Changed
<1> HIDE DEF G
<1>9. Kept(w, G) /\ Like(w, a) /\ w.count # 0
  <2>1. Changed(held, G, o, [id |-> a.id, at |-> al.p + 1, size |-> n])
    BY <1>7, <1>8
  <2> QED
    BY <2>1, <1>0, <1>1, <1>3, <1>4, <1>5, <1>8, MovedBlock
<1> HIDE DEF w
<1>10. w \in Arenas /\ w.id = list[i].id /\ w.cap = list[i].cap /\ w.size = list[i].size
  BY <1>9 DEF Like, Shaped
<1>11. /\ ListInv(E, made) /\ DOMAIN E = DOMAIN list /\ E[i] = w
       /\ \A j \in DOMAIN list : j # i => E[j] = list[j]
  BY <1>4, <1>10, PutBack
<1> HIDE DEF E
<1>12. ASSUME NEW j \in DOMAIN E PROVE ArenaInv(E[j], G)
  <2>1. CASE j = i
    BY <2>1, <1>9, <1>11 DEF ArenaInv, Recycled
  <2>2. CASE j # i
    <3> DEFINE d == list[j]
    <3>1. E[j] = d /\ ArenaInv(d, held) /\ held[o].id # d.id /\ c.id # d.id
      BY <2>2, <1>1, <1>7, <1>11, HeapFacts DEF ListInv
    <3> HIDE DEF d
    <3> QED
      BY <3>1, <1>4, <1>8, FrameInv
  <2> QED
    BY <2>1, <2>2
<1>13. \A j \in DOMAIN list : E[j].id = list[j].id /\ E[j].cap = list[j].cap /\ E[j].size = list[j].size
  BY <1>10, <1>11
<1>14. \E j \in DOMAIN E : E[j].cap <= E[j].size
  BY <1>11, <1>13 DEF TalInv, HeapInv
<1>15. \A q \in Owner : G[q] = Nothing \/ \E j \in DOMAIN E : E[j].id = G[q].id
  <2> TAKE q \in Owner
  <2>1. CASE q = o
    BY <2>1, <1>1, <1>4, <1>7, <1>8, <1>11, <1>13 DEF Changed
  <2>2. CASE q # o
    BY <2>2, <1>8, <1>11, <1>13 DEF Changed, TalInv, HeapInv
  <2> QED
    BY <2>1, <2>2
<1>16. HeapInv(E, G, made)
  BY <1>4, <1>8, <1>11, <1>12, <1>14, <1>15 DEF HeapInv
<1> QED
  BY <1>3, <1>16 DEF TalInv

\* A block that moves to another arena when it grows (tal_realloc).
LEMMA GrowElsewhereInv ==
  ASSUME TalInv, NEW o \in Owner, NEW n \in Request, GrowElsewhere(o, n)
  PROVE  TalInv'
<1> DEFINE b == held[o]
<1>0. n \in Nat /\ b # Nothing /\ b.size <= n
  BY TalAssumption DEF GrowElsewhere
<1>1. PICK i \in DOMAIN list : list[i].id = b.id
  BY <1>0 DEF TalInv, HeapInv
<1>2. ArenaOf(list, b) = i
  BY <1>1, HeapFacts, ArenaOfIs
<1> DEFINE a == list[i]
           old == Rewound(a, b)
           L == [list EXCEPT ![i] = old]
           r == WithRoom(L, n)
           K == r.list
           at == r.at
           l == made + r.fresh
           al == K[at]
           c == [id |-> al.id, at |-> al.p + 1, size |-> n]
           w == Filled(Copied(Cut([al EXCEPT !.count = @ + 1], n), al.p + 1,
                              old.mem, b.at, b.size),
                       o, al.p + 1, b.size, n)
           M == [K EXCEPT ![at] = w]
           G == [held EXCEPT ![o] = c]
<1>3. /\ ~ Fits(old, n) /\ list' = Freed(M, b) /\ held' = G /\ made' = l
  BY <1>2 DEF GrowElsewhere
<1>4. /\ made \in Nat /\ ListInv(list, made) /\ Kept(a, held) /\ a.id = b.id
      /\ held \in [Owner -> Block] /\ Shaped(a) /\ b \in Block
      /\ \A q \in Owner : held[q].id <= made
      /\ \A k \in DOMAIN list : ArenaInv(list[k], held)
  BY <1>1, HeapFacts DEF ArenaInv, Kept
<1>5. Rewinds(old, a, b)
  BY <1>1, <1>4, RewoundIs
<1> HIDE DEF old
<1>6. old \in Arenas /\ old.id = list[i].id /\ old.cap = a.cap /\ old.size = a.size
  BY <1>5 DEF Rewinds, Like, Shaped
<1>7. /\ ListInv(L, made) /\ DOMAIN L = DOMAIN list /\ L[i] = old
      /\ \A j \in DOMAIN list : j # i => L[j] = list[j]
  BY <1>4, <1>6, PutBack
<1> HIDE DEF L
<1>8. L # << >> /\ L[1].size = ArenaSize
  <2>1. list # << >> /\ 1 \in DOMAIN list /\ list[1].size = ArenaSize
    BY HeapFacts DEF ListInv
  <2>2. L # << >>
    BY <2>1, <1>7 DEF ListInv
  <2>3. L[1].size = list[1].size
    BY <2>1, <1>6, <1>7
  <2> QED
    BY <2>1, <2>2, <2>3
<1>9. Offers(L, K, at, l, n, held)
  BY <1>0, <1>4, <1>7, <1>8, Offered
<1> HIDE DEF r, K, at, l
<1>10. /\ l \in Nat /\ ListInv(K, l) /\ at \in DOMAIN K /\ Fits(al, n)
  BY <1>9 DEF Offers
<1>11. Kept(al, held) /\ al.id # a.id
  <2>1. CASE \E j \in DOMAIN L : L[j] = al
    <3>1. PICK j \in DOMAIN L : L[j] = al
      BY <2>1
    <3>2. j # i
      BY <3>1, <1>3, <1>7, <1>10
    <3>3. al = list[j] /\ j \in DOMAIN list
      BY <3>1, <3>2, <1>7
    <3>4. list[j].id # a.id /\ Kept(list[j], held)
      BY <3>2, <3>3, <1>4 DEF ListInv, ArenaInv
    <3> QED
      BY <3>3, <3>4
  <2>2. CASE Kept(al, held) /\ \A j \in DOMAIN L : L[j].id # al.id
    BY <2>2, <1>6, <1>7
  <2> QED
    BY <2>1, <2>2, <1>9, <1>10 DEF Offers
<1> HIDE DEF al
<1>12. al.p + 1 \in Nat /\ al.id \in Nat /\ Shaped(al)
  BY <1>11 DEF Kept, Shaped, Arenas
<1>13. c \in Block /\ c.id = al.id
  BY <1>0, <1>12 DEF Block
<1>14. G \in [Owner -> Block] /\ Changed(held, G, o, c)
  BY <1>4, <1>13 DEF Changed
<1> HIDE DEF G
<1>15. Kept(w, G) /\ Like(w, al) /\ w.count # 0
  <2>1. Takes(held, G, o, al, n)
    BY <1>14 DEF Takes
  <2>2. held[o].id # al.id
    BY <1>1, <1>11
  <2> DEFINE cap == a.cap
             source == old.mem
             from == b.at
             m == b.size
  <2>3. /\ cap \in Nat /\ source \in [0 .. cap - 1 -> Cells] /\ from \in Nat /\ m \in Nat
        /\ m <= n /\ from + m <= cap
        /\ \A k \in 0 .. m - 1 : source[from + k] = Cell(o, k)
    <3>1. Sound(a, o, b) /\ a.p <= a.cap /\ a.p \in Nat /\ a.cap \in Nat
      BY <1>1, <1>4 DEF Kept, Holder, Shaped, Arenas
    <3>2. b.at \in Nat /\ b.size \in Nat
      BY <1>4 DEF Block
    <3> HIDE DEF a, b
    <3>3. b.at + b.size <= a.cap
      BY <3>1, <3>2 DEF Sound
    <3>4. old.mem = a.mem /\ a.mem \in [0 .. a.cap - 1 -> Cells]
      BY <1>4, <1>5 DEF Rewinds, Shaped
    <3> QED
      BY <3>1, <3>2, <3>3, <3>4, <1>0 DEF Sound
  <2> HIDE DEF cap, source, from, m
  <2> DEFINE v == CopyInto(al, o, source, from, m, n)
  <2>4. Kept(v, G) /\ Like(v, al) /\ v.count # 0
    BY <2>1, <2>2, <2>3, <1>0, <1>4, <1>10, <1>11, <1>14, NewCopy
  <2>5. v = w
    BY DEF CopyInto, source, from, m
  <2> HIDE DEF v, w
  <2> QED
    BY <2>4, <2>5
<1> HIDE DEF w, c
<1>16. w \in Arenas /\ w.id = K[at].id /\ w.cap = K[at].cap /\ w.size = K[at].size
  BY <1>15 DEF Like, Shaped, al
<1>17. /\ ListInv(M, l) /\ DOMAIN M = DOMAIN K /\ M[at] = w
       /\ \A j \in DOMAIN K : j # at => M[j] = K[j]
  BY <1>10, <1>16, PutBack
<1> HIDE DEF M
<1>18. PICK j \in DOMAIN K : K[j] = old
  BY <1>7, <1>9 DEF Offers
<1>19. j # at /\ M[j] = old
  BY <1>6, <1>11, <1>17, <1>18 DEF al
<1>20. ASSUME NEW k \in DOMAIN M, k # j PROVE ArenaInv(M[k], G)
  <2>1. CASE k = at
    BY <2>1, <1>15, <1>17 DEF ArenaInv, Recycled
  <2>2. CASE k # at
    <3> DEFINE d == K[k]
    <3>1. M[k] = d /\ d.id # K[j].id /\ d.id # al.id
      BY <2>2, <1>10, <1>17, <1>20 DEF ListInv, al
    <3>2. \E q \in DOMAIN L : L[q] = d
      BY <2>2, <1>9, <1>17 DEF Offers
    <3>3. PICK q \in DOMAIN L : L[q] = d
      BY <3>2
    <3>4. q # i
      BY <3>1, <3>3, <1>7, <1>18
    <3>5. ArenaInv(d, held)
      BY <3>3, <3>4, <1>4, <1>7
    <3>6. held[o].id # d.id /\ c.id # d.id
      BY <3>1, <1>1, <1>6, <1>13, <1>18
    <3> HIDE DEF d
    <3> QED
      BY <3>1, <3>5, <3>6, <1>4, <1>14, FrameInv
  <2> QED
    BY <2>1, <2>2
<1>21. \A k \in DOMAIN K : M[k].id = K[k].id /\ M[k].cap = K[k].cap /\ M[k].size = K[k].size
  BY <1>16, <1>17
<1>22. ASSUME NEW k \in DOMAIN list
       PROVE  \E q \in DOMAIN M : /\ M[q].id = list[k].id /\ M[q].cap = list[k].cap
                                 /\ M[q].size = list[k].size
  <2>1. L[k].id = list[k].id /\ L[k].cap = list[k].cap /\ L[k].size = list[k].size
    BY <1>6, <1>7
  <2>2. PICK q \in DOMAIN K : K[q] = L[k]
    BY <1>7, <1>9 DEF Offers
  <2> QED
    BY <2>1, <2>2, <1>17, <1>21
<1>23. \E k \in DOMAIN M : M[k].cap <= M[k].size
  BY <1>22 DEF TalInv, HeapInv
<1>24. \A q \in Owner : G[q] = Nothing \/ \E k \in DOMAIN M : M[k].id = G[q].id
  <2> TAKE q \in Owner
  <2>1. CASE q = o
    BY <2>1, <1>10, <1>13, <1>14, <1>17, <1>21 DEF Changed, al
  <2>2. CASE q # o
    BY <2>2, <1>14, <1>22 DEF Changed, TalInv, HeapInv
  <2> QED
    BY <2>1, <2>2
<1>25. HeapInv(Freed(M, b), G, l)
  <2>1. Rewinds(M[j], a, b)
    BY <1>5, <1>19
  <2>2. held[o].id = a.id /\ c.id # a.id /\ j \in DOMAIN M
    BY <1>1, <1>11, <1>13, <1>17
  <2>3. \A k \in DOMAIN M : k # j => ArenaInv(M[k], G)
    BY <1>20
  <2> HIDE DEF a
  <2> QED
    BY <2>1, <2>2, <2>3, <1>4, <1>10, <1>13, <1>14, <1>17, <1>23, <1>24, FreedInv
<1> QED
  BY <1>3, <1>25 DEF TalInv
-----------------------------------------------------------------------------
\* The invariant of the allocator holds in every reachable state (tal_new,
\* tal_realloc, tal_free_impl), for any owners, requests and sizes.
THEOREM TalInvariant == TalSpec => []TalInv
<1>1. TalInv /\ [TalNext]_talvars => TalInv'
  <2> SUFFICES ASSUME TalInv, [TalNext]_talvars PROVE TalInv'
    OBVIOUS
  <2>1. ASSUME NEW o \in Owner, Free(o) PROVE TalInv'
    BY <2>1, FreeInv
  <2>2. ASSUME NEW o \in Owner, NEW n \in Request, Allocate(o, n) PROVE TalInv'
    BY <2>2, AllocateInv
  <2>3. ASSUME NEW o \in Owner, NEW n \in Request, GrowInside(o, n) PROVE TalInv'
    BY <2>3, GrowInsideInv
  <2>4. ASSUME NEW o \in Owner, NEW n \in Request, GrowElsewhere(o, n) PROVE TalInv'
    BY <2>4, GrowElsewhereInv
  <2>5. CASE UNCHANGED talvars
    BY <2>5 DEF talvars, TalInv
  <2> QED
    BY <2>1, <2>2, <2>3, <2>4, <2>5 DEF TalNext
<1> QED
  BY TalInitInv, <1>1, PTL DEF TalSpec

\* Whatever is allocated, grown and freed around it, a block of tokens holds
\* what was written to it, and an arena without blocks is given back or empty
\* (tal_realloc, tal_free_impl).
THEOREM TokensAreKept == TalSpec => []BlocksKept
<1>1. TalInv => BlocksKept
  <2> SUFFICES ASSUME TalInv PROVE BlocksKept
    OBVIOUS
  <2>1. ArenasRecycled
    BY HeapFacts DEF ArenasRecycled, ArenaInv, Kept, Recycled, Holder
  <2>2. ASSUME NEW o \in Owner, held[o] # Nothing
        PROVE  \E i \in DOMAIN list :
                 LET b == held[o]
                     al == list[i]
                 IN /\ al.id = b.id
                    /\ b.at + b.size <= al.p /\ al.p <= al.cap
                    /\ al.mem[b.at - 1] = Header(b.size)
                    /\ \A k \in 0 .. b.size - 1 : al.mem[b.at + k] = Cell(o, k)
    <3>1. PICK i \in DOMAIN list : list[i].id = held[o].id
      BY <2>2 DEF TalInv, HeapInv
    <3>2. Sound(list[i], o, held[o]) /\ list[i].p <= list[i].cap
      BY <3>1, HeapFacts DEF ArenaInv, Kept, Holder
    <3> QED
      BY <3>1, <3>2 DEF Sound
  <2> QED
    BY <2>1, <2>2 DEF BlocksKept, ContentsKept
<1> QED
  BY <1>1, TalInvariant, PTL
=============================================================================
