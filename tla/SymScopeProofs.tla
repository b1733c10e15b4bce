---- MODULE SymScopeProofs ----
(***************************************************************************)
(* Proofs about SymScope: at every reachable state the chains that          *)
(* sym_push() threads through the token table lead from each name to the    *)
(* declarations in scope and to no other, so that sym_find() is right and   *)
(* redeclarations are refused exactly.                                      *)
(*                                                                          *)
(* The invariant relates three things that the code keeps apart: the Syms   *)
(* of the pool, the stack local_stack, and (history) the scopes opened and  *)
(* what each declared, env.  Of every name there is a chain: the positions  *)
(* Q of local_stack that are linked, the file scope Sym e at its end, and   *)
(* for each open scope what its closing will bring back, f.                 *)
(*                                                                          *)
(* Throughout, P is a pool, w a local_stack, E the scopes' declarations, B  *)
(* where each scope ends on w, kp whether a statement expression has kept   *)
(* Syms of a closed scope, v a name and cur the Sym visible as v.           *)
(***************************************************************************)
EXTENDS SymScope, FiniteSetTheorems, SequenceTheorems, WellFoundedInduction, TLAPS

\* What a cell of the pool holds; a cell never used has no name.
Syms == [v : Ident \cup {NoSym.v}, scope : Nat, prev_tok : 0 .. MaxPool, live : BOOLEAN]

\* The number symbols of an open scope carry: parameters and body share one.
ScopeNo(k) == IF k <= 3 THEN 1 ELSE k - 2

\* The entry of w at the highest position of Q above lo, up to hi; else e.
Top(w, Q, e, lo, hi, x) ==
  \/ (\A r \in Q : ~ (lo < r /\ r <= hi)) /\ x = e
  \/ \E r \in Q : lo < r /\ r <= hi /\ (\A s \in Q : s <= hi => s <= r) /\ x = w[r]

\* What becomes visible as v if the stack w is popped down to b.
Restores(P, w, v, cur, b, x) ==
  \/ (\A s \in b + 1 .. Len(w) : P[w[s]].v # v) /\ x = cur
  \/ \E r \in b + 1 .. Len(w) :
       /\ P[w[r]].v = v /\ x = P[w[r]].prev_tok
       /\ \A s \in b + 1 .. Len(w) : P[w[s]].v = v => r <= s

\* Each Sym at a position of Q covers the one below it, the lowest e.
LinkedBy(P, w, v, cur, Q, e) ==
  /\ \A p \in Q : P[w[p]].v = v /\ Top(w, Q, e, 0, p - 1, P[w[p]].prev_tok)
  /\ Top(w, Q, e, 0, Len(w), cur)

\* The end of scope j + 1 brings back what was visible at the end of scope j,
\* or nothing in place of a file scope symbol.
Returns(P, w, B, kp, v, cur, Q, e, f, L) ==
  /\ \A j \in 1 .. L : Restores(P, w, v, cur, B[j], f[j])
  /\ \A j \in 1 .. L :
       Top(w, Q, e, 0, B[j], f[j]) \/ (kp /\ f[j] = 0 /\ \A r \in Q : r > B[j])
  /\ \A i, j \in 1 .. L : i <= j /\ f[i] # 0 => f[j] # 0

\* The linked symbols are those declared and in scope, under their scope's number.
Declares(P, w, Q, lo, hi, k, x) ==
  /\ Top(w, Q, 0, lo, hi, x)
  /\ \A p \in Q : lo < p /\ p <= hi => P[w[p]].scope = ScopeNo(k)

\* What the chain of v passes is what the open scopes declared, each in its own
\* stretch of the stack; at its end is file scope's Sym, unless that was lost.
InScope(P, w, B, E, kp, v, Q, e) ==
  /\ \A k \in 2 .. Len(E) : Declares(P, w, Q, B[k - 1], B[k], k, E[k][v])
  /\ e = E[1][v] \/ (kp /\ e = 0)
  /\ kp \/ \A p \in 1 .. Len(w) : P[w[p]].v = v => p \in Q

\* Q, e and f describe the chain of v.
Chained(P, w, B, E, kp, v, cur, Q, e, f) ==
  /\ LinkedBy(P, w, v, cur, Q, e)
  /\ Returns(P, w, B, kp, v, cur, Q, e, f, Len(E))
  /\ InScope(P, w, B, E, kp, v, Q, e)

\* There is a chain of v that starts at the Sym visible.
Chain(P, w, B, E, kp, v, cur) ==
  \E Q \in SUBSET (1 .. Len(w)), e \in 0 .. MaxPool, f \in [1 .. Len(E) -> 0 .. MaxPool] :
    Chained(P, w, B, E, kp, v, cur, Q, e, f)

\* The stretches of the stack that belong to the open scopes follow each other.
Frame(P, w, B, E) ==
  /\ P \in [SymIndex -> Syms] /\ w \in Seq(SymIndex)
  /\ E \in Seq([Ident -> 0 .. MaxPool]) /\ Len(E) \in Nat \ {0}
  /\ B \in [1 .. Len(E) -> 0 .. Len(w)] /\ B[1] = 0 /\ B[Len(E)] = Len(w)
  /\ \A i, j \in 1 .. Len(E) : i <= j => B[i] <= B[j]

-----------------------------------------------------------------------------
\* A new scope declares nothing yet.
Opened(E, B, n, E2, B2) ==
  /\ Len(E2) = Len(E) + 1 /\ \A k \in 1 .. Len(E) : E2[k] = E[k]
  /\ E2[Len(E) + 1] = NoSyms
  /\ \A k \in 1 .. Len(E) : B2[k] = B[k]
  /\ B2[Len(E) + 1] = n

\* new_scope() and the start of a function leave every chain as it is.
LEMMA OpenChain ==
  ASSUME NEW P, NEW w, NEW B, NEW E, Frame(P, w, B, E), NEW kp, NEW v \in Ident, NEW cur,
         Chain(P, w, B, E, kp, v, cur),
         NEW E2, NEW B2, Opened(E, B, Len(w), E2, B2)
  PROVE  Chain(P, w, B2, E2, kp, v, cur)
<1> DEFINE L == Len(E)
<1>1. PICK Q \in SUBSET (1 .. Len(w)), e \in 0 .. MaxPool, f \in [1 .. L -> 0 .. MaxPool] :
        Chained(P, w, B, E, kp, v, cur, Q, e, f)
  BY DEF Chain
<1> DEFINE g == [j \in 1 .. L + 1 |-> IF j = L + 1 THEN f[L] ELSE f[j]]
<1>2. L \in Nat /\ L >= 1 /\ Len(w) \in Nat /\ B[L] = Len(w) /\ Len(E2) = L + 1
      /\ \A j \in 1 .. L : B2[j] = B[j]
  BY DEF Frame, Opened
<1>3. g \in [1 .. L + 1 -> 0 .. MaxPool] /\ g[L + 1] = f[L] /\ \A j \in 1 .. L : g[j] = f[j]
  BY <1>2
<1> HIDE DEF g, L
<1>4. B2[L + 1] = B[L]
  BY <1>2 DEF Opened, L
<1>5. LinkedBy(P, w, v, cur, Q, e) /\ Returns(P, w, B, kp, v, cur, Q, e, f, L)
      /\ InScope(P, w, B, E, kp, v, Q, e)
  BY <1>1 DEF Chained, L
<1>6. Returns(P, w, B2, kp, v, cur, Q, e, g, L + 1)
  <2>1. \A j \in 1 .. L + 1 : \E i \in 1 .. L : B2[j] = B[i] /\ g[j] = f[i] /\ (i = j \/ (j = L + 1 /\ i = L))
    BY <1>2, <1>3, <1>4
  <2>2. \A j \in 1 .. L + 1 : Restores(P, w, v, cur, B2[j], g[j])
    BY <1>5, <2>1 DEF Returns
  <2>3. \A j \in 1 .. L + 1 : Top(w, Q, e, 0, B2[j], g[j]) \/ (kp /\ g[j] = 0 /\ \A r \in Q : r > B2[j])
    BY <1>5, <2>1 DEF Returns
  <2>4. \A i, j \in 1 .. L + 1 : i <= j /\ g[i] # 0 => g[j] # 0
    BY <1>2, <1>3, <1>5 DEF Returns
  <2> QED
    BY <2>2, <2>3, <2>4 DEF Returns
<1>7. InScope(P, w, B2, E2, kp, v, Q, e)
  <2>1. ASSUME NEW k \in 2 .. Len(E2)
        PROVE  Declares(P, w, Q, B2[k - 1], B2[k], k, E2[k][v])
    <3>1. k - 1 \in 1 .. L /\ B2[k - 1] = B[k - 1]
      BY <1>2
    <3>2. CASE k \in 2 .. L
      <4>1. B2[k] = B[k] /\ E2[k] = E[k]
        BY <3>2, <1>2 DEF Opened, L
      <4>2. Declares(P, w, Q, B[k - 1], B[k], k, E[k][v])
        BY <3>2, <1>5 DEF InScope, L
      <4> QED
        BY <3>1, <4>1, <4>2
    <3>3. CASE k = L + 1
      <4>1. B2[k] = B[L] /\ B[k - 1] = B[L] /\ E2[k][v] = 0 /\ B[L] \in Nat
        <5>1. k - 1 = L
          BY <3>3, <1>2
        <5>2. E2[L + 1] = NoSyms
          BY <1>2 DEF Opened, L
        <5>3. NoSyms[v] = 0
          BY DEF NoSyms
        <5> QED
          BY <5>1, <5>2, <5>3, <3>3, <1>2, <1>4
      <4>2. \A b \in Nat : Declares(P, w, Q, b, b, k, 0)
        BY DEF Declares, Top
      <4>3. Declares(P, w, Q, B[L], B[L], k, 0)
        BY <4>1, <4>2
      <4> QED
        BY <3>1, <4>1, <4>3
    <3> QED
      BY <3>2, <3>3, <1>2
  <2>2. E2[1][v] = E[1][v]
    BY <1>2 DEF Opened, L
  <2> QED
    BY <2>1, <2>2, <1>5 DEF InScope
<1>8. Chained(P, w, B2, E2, kp, v, cur, Q, e, g)
  BY <1>2, <1>5, <1>6, <1>7 DEF Chained
<1> QED
  BY <1>2, <1>3, <1>8 DEF Chain

\* The heights of scopes, in order.
LEMMA FrameBases ==
  ASSUME NEW P, NEW w, NEW B, NEW E, Frame(P, w, B, E)
  PROVE  /\ Len(E) \in Nat /\ Len(E) >= 1 /\ Len(w) \in Nat
         /\ B[1] = 0 /\ B[Len(E)] = Len(w)
         /\ \A j \in 1 .. Len(E) : B[j] \in 0 .. Len(w) /\ B[j] \in Nat
         /\ \A i, j \in 1 .. Len(E) : i <= j => B[i] <= B[j]
<1>1. Len(E) \in Nat /\ Len(E) >= 1
  BY DEF Frame
<1>2. Len(w) \in Nat
  BY DEF Frame
<1>3. \A j \in 1 .. Len(E) : B[j] \in 0 .. Len(w)
  BY DEF Frame
<1>4. B[1] = 0 /\ B[Len(E)] = Len(w) /\ \A i, j \in 1 .. Len(E) : i <= j => B[i] <= B[j]
  BY DEF Frame
<1> QED
  BY <1>1, <1>2, <1>3, <1>4

\* The Sym s of v is linked and pushed, in the innermost scope.
Pushed(P, w, B, E, v, cur, s, P2, w2, B2, E2) ==
  /\ P2[s].v = v /\ P2[s].prev_tok = cur /\ P2[s].scope = ScopeNo(Len(E))
  /\ \A p \in 1 .. Len(w) : P2[w[p]] = P[w[p]]
  /\ Len(w2) = Len(w) + 1 /\ w2[Len(w) + 1] = s /\ \A p \in 1 .. Len(w) : w2[p] = w[p]
  /\ Len(E2) = Len(E) /\ \A k \in 1 .. Len(E) : \A u \in Ident :
       E2[k][u] = IF k = Len(E) /\ u = v THEN s ELSE E[k][u]
  /\ B2[Len(E)] = Len(w) + 1 /\ \A j \in 1 .. Len(E) - 1 : B2[j] = B[j]

\* What Top says of lower positions is not touched by a push.
LEMMA TopKept ==
  ASSUME NEW w, NEW w2, NEW n \in Nat, \A p \in 1 .. n : w2[p] = w[p],
         NEW Q \in SUBSET (1 .. n), NEW R, Q \subseteq R, \A p \in R : p \in Q \/ p = n + 1,
         NEW e, NEW lo \in Nat, NEW hi \in 0 .. n, NEW x, Top(w, Q, e, lo, hi, x)
  PROVE  Top(w2, R, e, lo, hi, x)
<1>1. CASE (\A r \in Q : ~ (lo < r /\ r <= hi)) /\ x = e
  BY <1>1 DEF Top
<1>2. CASE \E r \in Q : lo < r /\ r <= hi /\ (\A s \in Q : s <= hi => s <= r) /\ x = w[r]
  <2>1. PICK r \in Q : lo < r /\ r <= hi /\ (\A s \in Q : s <= hi => s <= r) /\ x = w[r]
    BY <1>2
  <2>2. r \in R /\ w2[r] = w[r]
    OBVIOUS
  <2>3. \A s \in R : s <= hi => s \in Q
    OBVIOUS
  <2> QED
    BY <2>1, <2>2, <2>3 DEF Top
<1> QED
  BY <1>1, <1>2 DEF Top

\* The stack has one more Sym, and the others are unchanged.
More(P, w, P2, w2) ==
  /\ Len(w2) = Len(w) + 1
  /\ \A p \in 1 .. Len(w) : w2[p] = w[p] /\ P2[w[p]] = P[w[p]]

\* The topmost Sym covers the old one of its name.
Covers(P, w, n, v, cur, cur2) ==
  \/ P[w[n]].v = v /\ P[w[n]].prev_tok = cur
  \/ P[w[n]].v # v /\ cur2 = cur

\* A push changes nothing about what the scopes below bring back.
LEMMA RestoresKept ==
  ASSUME NEW P, NEW w, Len(w) \in Nat, NEW P2, NEW w2, More(P, w, P2, w2),
         NEW v, NEW cur, NEW cur2, NEW b \in 0 .. Len(w), NEW x, Restores(P, w, v, cur, b, x),
         Covers(P2, w2, Len(w) + 1, v, cur, cur2)
  PROVE  Restores(P2, w2, v, cur2, b, x)
<1> DEFINE n == Len(w)
<1> /\ n \in Nat /\ b \in 0 .. n /\ Len(w2) = n + 1
    /\ \A p \in 1 .. n : w2[p] = w[p] /\ P2[w[p]] = P[w[p]]
  BY DEF More
<1> USE DEF Covers
<1>1. CASE \A s \in b + 1 .. n : P[w[s]].v # v
  <2>1. x = cur
    BY <1>1 DEF Restores
  <2>2. CASE P2[w2[n + 1]].v = v /\ P2[w2[n + 1]].prev_tok = cur
    <3>1. n + 1 \in b + 1 .. Len(w2) /\ \A s \in b + 1 .. Len(w2) : s # n + 1 => s \in 1 .. n /\ s \in b + 1 .. n
      OBVIOUS
    <3>2. \A s \in b + 1 .. Len(w2) : P2[w2[s]].v = v => n + 1 <= s
      BY <3>1, <1>1
    <3> QED
      BY <3>1, <3>2, <2>1, <2>2 DEF Restores
  <2>3. CASE P2[w2[n + 1]].v # v /\ cur2 = cur
    <3>1. \A s \in b + 1 .. Len(w2) : s # n + 1 => s \in 1 .. n /\ s \in b + 1 .. n
      OBVIOUS
    <3>2. \A s \in b + 1 .. Len(w2) : P2[w2[s]].v # v
      BY <3>1, <1>1, <2>3
    <3> QED
      BY <3>2, <2>1, <2>3 DEF Restores
  <2> QED
    BY <2>2, <2>3
<1>2. CASE ~ (\A s \in b + 1 .. n : P[w[s]].v # v)
  <2>1. PICK r \in b + 1 .. n :
          /\ P[w[r]].v = v /\ x = P[w[r]].prev_tok
          /\ \A s \in b + 1 .. n : P[w[s]].v = v => r <= s
    BY <1>2 DEF Restores
  <2>2. r \in 1 .. n /\ r \in b + 1 .. Len(w2) /\ w2[r] = w[r] /\ P2[w2[r]] = P[w[r]]
    BY <2>1
  <2>3. \A s \in b + 1 .. Len(w2) : P2[w2[s]].v = v => r <= s
    <3>1. \A s \in b + 1 .. Len(w2) : s = n + 1 \/ (s \in 1 .. n /\ s \in b + 1 .. n)
      OBVIOUS
    <3> QED
      BY <3>1, <2>1
  <2> QED
    BY <2>1, <2>2, <2>3 DEF Restores
<1> QED
  BY <1>1, <1>2

\* sym_push() puts the new Sym at the head of its name's chain.
LEMMA PushChain ==
  ASSUME NEW P, NEW w, NEW B, NEW E, Frame(P, w, B, E), Len(E) >= 2, NEW kp,
         NEW v \in Ident, NEW cur, Chain(P, w, B, E, kp, v, cur),
         NEW s \in SymIndex, NEW P2, NEW w2, NEW B2, NEW E2,
         Pushed(P, w, B, E, v, cur, s, P2, w2, B2, E2)
  PROVE  Chain(P2, w2, B2, E2, kp, v, s)
<1> DEFINE L == Len(E) n == Len(w)
<1>1. PICK Q \in SUBSET (1 .. n), e \in 0 .. MaxPool, f \in [1 .. L -> 0 .. MaxPool] :
        Chained(P, w, B, E, kp, v, cur, Q, e, f)
  BY DEF Chain
<1> DEFINE g == [f EXCEPT ![L] = s]
           R == Q \cup {n + 1}
<1>2. /\ L \in Nat /\ L >= 2 /\ n \in Nat /\ B[L] = n /\ Len(E2) = L /\ Len(w2) = n + 1
      /\ \A j \in 1 .. L - 1 : B2[j] = B[j]
      /\ B2[L] = n + 1 /\ w2[n + 1] = s /\ \A p \in 1 .. n : w2[p] = w[p]
      /\ \A p \in 1 .. n : P2[w[p]] = P[w[p]]
      /\ P2[s].v = v /\ P2[s].prev_tok = cur /\ P2[s].scope = ScopeNo(L)
      /\ \A j \in 1 .. L : B[j] \in 0 .. n
      /\ s # 0 /\ s \in 0 .. MaxPool
  <2>1. L \in Nat /\ L >= 2 /\ n \in Nat /\ B[L] = n /\ \A j \in 1 .. L : B[j] \in 0 .. n
    BY FrameBases
  <2>2. /\ Len(E2) = L /\ Len(w2) = n + 1 /\ \A j \in 1 .. L - 1 : B2[j] = B[j]
        /\ B2[L] = n + 1 /\ w2[n + 1] = s /\ \A p \in 1 .. n : w2[p] = w[p]
        /\ \A p \in 1 .. n : P2[w[p]] = P[w[p]]
        /\ P2[s].v = v /\ P2[s].prev_tok = cur /\ P2[s].scope = ScopeNo(L)
    BY DEF Pushed
  <2>3. s # 0 /\ s \in 0 .. MaxPool
    BY ScopeAssumption DEF SymIndex
  <2> QED
    BY <2>1, <2>2, <2>3
<1>3. g \in [1 .. L -> 0 .. MaxPool] /\ g[L] = s /\ \A j \in 1 .. L - 1 : g[j] = f[j]
  BY <1>2
<1>4. \A k \in 1 .. L - 1 : E2[k][v] = E[k][v]
  BY DEF Pushed
<1>5. E2[L][v] = s
  BY <1>2 DEF Pushed
<1> HIDE DEF g, L, n, R
<1>6. LinkedBy(P, w, v, cur, Q, e) /\ Returns(P, w, B, kp, v, cur, Q, e, f, L)
      /\ InScope(P, w, B, E, kp, v, Q, e)
  BY <1>1 DEF Chained, L
<1>7. R \in SUBSET (1 .. n + 1) /\ n + 1 \in R /\ Q \subseteq R /\ \A p \in R : p \in Q \/ p = n + 1
  BY <1>2 DEF R
<1>8. \A x, lo, hi, y : lo \in Nat /\ hi \in 0 .. n /\ Top(w, Q, x, lo, hi, y) => Top(w2, R, x, lo, hi, y)
  BY <1>2, <1>7, TopKept
<1>9. \A x : \A lo \in 0 .. n : Top(w2, R, x, lo, n + 1, s)
  BY <1>2, <1>7 DEF Top
<1>10. LinkedBy(P2, w2, v, s, R, e)
  <2>1. ASSUME NEW p \in R PROVE P2[w2[p]].v = v /\ Top(w2, R, e, 0, p - 1, P2[w2[p]].prev_tok)
    <3>1. CASE p = n + 1
      <4>1. p - 1 = n /\ Top(w, Q, e, 0, n, cur)
        BY <3>1, <1>2, <1>6 DEF LinkedBy, n
      <4> QED
        BY <3>1, <4>1, <1>2, <1>8
    <3>2. CASE p \in Q
      <4>1. p \in 1 .. n /\ p - 1 \in 0 .. n /\ w2[p] = w[p] /\ P2[w2[p]] = P[w[p]]
        BY <3>2, <1>2
      <4>2. P[w[p]].v = v /\ Top(w, Q, e, 0, p - 1, P[w[p]].prev_tok)
        BY <3>2, <1>6 DEF LinkedBy
      <4> QED
        BY <4>1, <4>2, <1>8
    <3> QED
      BY <3>1, <3>2, <1>7
  <2> QED
    BY <2>1, <1>2, <1>9 DEF LinkedBy
<1>11. Returns(P2, w2, B2, kp, v, s, R, e, g, L)
  <2>1. ASSUME NEW j \in 1 .. L PROVE Restores(P2, w2, v, s, B2[j], g[j])
    <3>1. CASE j = L
      BY <3>1, <1>2, <1>3 DEF Restores
    <3>2. CASE j \in 1 .. L - 1
      <4>1. B2[j] = B[j] /\ g[j] = f[j] /\ B[j] \in 0 .. n
        BY <3>2, <1>2, <1>3
      <4>2. Restores(P, w, v, cur, B[j], f[j])
        BY <1>6 DEF Returns
      <4>3. Covers(P2, w2, Len(w) + 1, v, cur, s) /\ More(P, w, P2, w2)
        BY <1>2 DEF n, Covers, More
      <4>4. B[j] \in 0 .. Len(w) /\ Len(w) \in Nat
        BY <4>1, <1>2 DEF n
      <4>5. Restores(P2, w2, v, s, B[j], f[j])
        BY <4>2, <4>3, <4>4, RestoresKept
      <4> QED
        BY <4>1, <4>5
    <3> QED
      BY <3>1, <3>2, <1>2
  <2>2. ASSUME NEW j \in 1 .. L
        PROVE  Top(w2, R, e, 0, B2[j], g[j]) \/ (kp /\ g[j] = 0 /\ \A r \in R : r > B2[j])
    <3>1. CASE j = L
      BY <3>1, <1>2, <1>3, <1>9
    <3>2. CASE j \in 1 .. L - 1
      <4>1. B2[j] = B[j] /\ g[j] = f[j] /\ B[j] \in 0 .. n
        BY <3>2, <1>2, <1>3
      <4>2. Top(w, Q, e, 0, B[j], f[j]) \/ (kp /\ f[j] = 0 /\ \A r \in Q : r > B[j])
        BY <1>6 DEF Returns
      <4>3. CASE Top(w, Q, e, 0, B[j], f[j])
        BY <4>1, <4>3, <1>8
      <4>4. CASE kp /\ f[j] = 0 /\ \A r \in Q : r > B[j]
        <5>1. \A r \in R : r > B[j]
          BY <4>1, <4>4, <1>2, <1>7
        <5> QED
          BY <5>1, <4>1, <4>4
      <4> QED
        BY <4>2, <4>3, <4>4
    <3> QED
      BY <3>1, <3>2, <1>2
  <2>3. \A i, j \in 1 .. L : i <= j /\ g[i] # 0 => g[j] # 0
    <3> TAKE i, j \in 1 .. L
    <3> HAVE i <= j /\ g[i] # 0
    <3>1. CASE j = L
      BY <3>1, <1>2, <1>3
    <3>2. CASE j # L
      <4>1. i \in 1 .. L - 1 /\ j \in 1 .. L - 1
        BY <3>2, <1>2
      <4> QED
        BY <4>1, <1>3, <1>6 DEF Returns
    <3> QED
      BY <3>1, <3>2
  <2> QED
    BY <2>1, <2>2, <2>3 DEF Returns
<1>12. InScope(P2, w2, B2, E2, kp, v, R, e)
  <2>1. ASSUME NEW k \in 2 .. Len(E2)
        PROVE  Declares(P2, w2, R, B2[k - 1], B2[k], k, E2[k][v])
    <3>1. k - 1 \in 1 .. L - 1 /\ B2[k - 1] = B[k - 1] /\ B[k - 1] \in 0 .. n /\ k \in 2 .. L
      BY <1>2
    <3>2. Declares(P, w, Q, B[k - 1], B[k], k, E[k][v])
      BY <3>1, <1>6 DEF InScope, L
    <3>5. \A p \in Q : B[k - 1] < p /\ p <= B[k] => P[w[p]].scope = ScopeNo(k)
      BY <3>2 DEF Declares
    <3>6. \A p \in Q : P2[w2[p]] = P[w[p]]
      BY <1>2
    <3>3. CASE k # L
      <4>1. B2[k] = B[k] /\ E2[k][v] = E[k][v] /\ B[k] \in 0 .. n
        BY <3>1, <3>3, <1>2, <1>4
      <4>2. Top(w2, R, 0, B[k - 1], B[k], E[k][v])
        BY <3>1, <3>2, <4>1, <1>8 DEF Declares
      <4>3. ASSUME NEW p \in R, B[k - 1] < p /\ p <= B[k] PROVE P2[w2[p]].scope = ScopeNo(k)
        <5>1. p \in Q /\ p \in 1 .. n
          BY <4>1, <4>3, <1>2, <1>7
        <5> QED
          BY <5>1, <4>3, <3>5, <3>6
      <4> QED
        BY <3>1, <4>1, <4>2, <4>3 DEF Declares
    <3>4. CASE k = L
      <4>1. B2[k] = n + 1 /\ E2[k][v] = s /\ B[k] = n
        BY <3>4, <1>2, <1>5
      <4>2. Top(w2, R, 0, B[k - 1], n + 1, s)
        BY <3>1, <1>9
      <4>3. ASSUME NEW p \in R, B[k - 1] < p /\ p <= n + 1 PROVE P2[w2[p]].scope = ScopeNo(k)
        <5>1. CASE p = n + 1
          BY <5>1, <3>4, <1>2
        <5>2. CASE p \in Q
          <6>1. p \in 1 .. n /\ p <= B[k] /\ B[k - 1] < p
            BY <4>1, <4>3, <5>2
          <6> QED
            BY <6>1, <5>2, <3>5, <3>6
        <5> QED
          BY <5>1, <5>2, <1>7
      <4> QED
        BY <3>1, <4>1, <4>2, <4>3 DEF Declares
    <3> QED
      BY <3>3, <3>4
  <2>2. e = E2[1][v] \/ (kp /\ e = 0)
    <3>1. 1 \in 1 .. L - 1
      BY <1>2
    <3> QED
      BY <3>1, <1>4, <1>6 DEF InScope
  <2>3. kp \/ \A p \in 1 .. Len(w2) : P2[w2[p]].v = v => p \in R
    <3>1. kp \/ \A p \in 1 .. n : P[w[p]].v = v => p \in Q
      BY <1>6 DEF InScope, n
    <3>2. \A p \in 1 .. Len(w2) : p \in 1 .. n \/ p = n + 1
      BY <1>2
    <3>3. \A p \in 1 .. n : P2[w2[p]] = P[w[p]]
      BY <1>2
    <3> QED
      BY <3>1, <3>2, <3>3, <1>7
  <2> QED
    BY <2>1, <2>2, <2>3 DEF InScope
<1>13. Chained(P2, w2, B2, E2, kp, v, s, R, e, g)
  BY <1>2, <1>10, <1>11, <1>12 DEF Chained
<1> QED
  BY <1>2, <1>3, <1>7, <1>13 DEF Chain

\* A Sym s of another name than v is pushed, in the innermost scope.
PushedOther(P, w, B, E, v, s, P2, w2, B2, E2) ==
  /\ P2[s].v # v
  /\ \A p \in 1 .. Len(w) : P2[w[p]] = P[w[p]]
  /\ Len(w2) = Len(w) + 1 /\ w2[Len(w) + 1] = s /\ \A p \in 1 .. Len(w) : w2[p] = w[p]
  /\ Len(E2) = Len(E) /\ \A k \in 1 .. Len(E) : E2[k][v] = E[k][v]
  /\ B2[Len(E)] = Len(w) + 1 /\ \A j \in 1 .. Len(E) - 1 : B2[j] = B[j]

\* The topmost height of linked Syms may be raised over ones that are not.
LEMMA TopRaised ==
  ASSUME NEW w, NEW n \in Nat, NEW Q \in SUBSET (1 .. n), NEW e, NEW lo \in Nat, NEW x,
         Top(w, Q, e, lo, n, x)
  PROVE  Top(w, Q, e, lo, n + 1, x)
<1>1. CASE (\A r \in Q : ~ (lo < r /\ r <= n)) /\ x = e
  BY <1>1 DEF Top
<1>2. CASE \E r \in Q : lo < r /\ r <= n /\ (\A s \in Q : s <= n => s <= r) /\ x = w[r]
  BY <1>2 DEF Top
<1> QED
  BY <1>1, <1>2 DEF Top

\* The other names are linked as before.
LEMMA PushOther ==
  ASSUME NEW P, NEW w, NEW B, NEW E, Frame(P, w, B, E), NEW kp,
         NEW v \in Ident, NEW cur, Chain(P, w, B, E, kp, v, cur),
         NEW s \in SymIndex, NEW P2, NEW w2, NEW B2, NEW E2,
         PushedOther(P, w, B, E, v, s, P2, w2, B2, E2)
  PROVE  Chain(P2, w2, B2, E2, kp, v, cur)
<1> DEFINE L == Len(E) n == Len(w)
<1>1. PICK Q \in SUBSET (1 .. n), e \in 0 .. MaxPool, f \in [1 .. L -> 0 .. MaxPool] :
        Chained(P, w, B, E, kp, v, cur, Q, e, f)
  BY DEF Chain
<1>2. /\ L \in Nat /\ L >= 1 /\ n \in Nat /\ B[L] = n /\ B[1] = 0
      /\ \A j \in 1 .. L : B[j] \in 0 .. n /\ B[j] \in Nat
  BY FrameBases
<1>3. /\ Len(E2) = L /\ Len(w2) = n + 1 /\ \A j \in 1 .. L - 1 : B2[j] = B[j]
      /\ B2[L] = n + 1 /\ w2[n + 1] = s /\ \A p \in 1 .. n : w2[p] = w[p]
      /\ \A p \in 1 .. n : P2[w[p]] = P[w[p]]
      /\ P2[s].v # v /\ \A k \in 1 .. L : E2[k][v] = E[k][v]
  BY DEF PushedOther
<1>4. Covers(P2, w2, Len(w) + 1, v, cur, cur) /\ More(P, w, P2, w2)
  BY <1>3 DEF Covers, More
<1> HIDE DEF L, n
<1>5. LinkedBy(P, w, v, cur, Q, e) /\ Returns(P, w, B, kp, v, cur, Q, e, f, L)
      /\ InScope(P, w, B, E, kp, v, Q, e)
  BY <1>1 DEF Chained, L
<1>6. \A x, lo, hi, y : lo \in Nat /\ hi \in 0 .. n /\ Top(w, Q, x, lo, hi, y) => Top(w2, Q, x, lo, hi, y)
  BY <1>2, <1>3, TopKept
<1>7. \A p \in Q : p \in 1 .. n /\ p - 1 \in 0 .. n /\ P2[w2[p]] = P[w[p]]
  BY <1>2, <1>3
<1>8. LinkedBy(P2, w2, v, cur, Q, e)
  <2>1. \A p \in Q : P[w[p]].v = v /\ Top(w, Q, e, 0, p - 1, P[w[p]].prev_tok)
    BY <1>5 DEF LinkedBy
  <2>2. \A p \in Q : P2[w2[p]].v = v /\ Top(w2, Q, e, 0, p - 1, P2[w2[p]].prev_tok)
    BY <2>1, <1>6, <1>7
  <2>3. Top(w2, Q, e, 0, n, cur)
    BY <1>2, <1>5, <1>6 DEF LinkedBy, n
  <2>4. Top(w2, Q, e, 0, n + 1, cur)
    BY <2>3, <1>2, TopRaised DEF n
  <2> QED
    BY <2>2, <2>4, <1>3 DEF LinkedBy
<1>9. Returns(P2, w2, B2, kp, v, cur, Q, e, f, L)
  <2>1. ASSUME NEW j \in 1 .. L
        PROVE  /\ Restores(P2, w2, v, cur, B2[j], f[j])
               /\ Top(w2, Q, e, 0, B2[j], f[j]) \/ (kp /\ f[j] = 0 /\ \A r \in Q : r > B2[j])
    <3>1. Restores(P, w, v, cur, B[j], f[j])
      BY <1>5 DEF Returns
    <3>2. B[j] \in 0 .. Len(w) /\ Len(w) \in Nat
      BY <1>2 DEF n
    <3>3. Restores(P2, w2, v, cur, B[j], f[j])
      BY <3>1, <3>2, <1>4, RestoresKept
    <3>4. Top(w, Q, e, 0, B[j], f[j]) \/ (kp /\ f[j] = 0 /\ \A r \in Q : r > B[j])
      BY <1>5 DEF Returns
    <3>5. Top(w2, Q, e, 0, B[j], f[j]) \/ (kp /\ f[j] = 0 /\ \A r \in Q : r > B[j])
      BY <3>4, <1>2, <1>6
    <3>6. CASE j # L
      <4>1. B2[j] = B[j]
        BY <3>6, <1>2, <1>3
      <4> QED
        BY <4>1, <3>3, <3>5
    <3>7. CASE j = L
      <4>1. B2[j] = n + 1 /\ B[j] = n
        BY <3>7, <1>2, <1>3
      <4>2. Restores(P2, w2, v, cur, n + 1, cur)
        BY <1>2, <1>3 DEF Restores
      <4>3. f[j] = cur
        BY <3>1, <4>1, <1>2 DEF Restores, n
      <4>4. Top(w2, Q, e, 0, n + 1, cur)
        BY <1>3, <1>8 DEF LinkedBy
      <4> QED
        BY <4>1, <4>2, <4>3, <4>4
    <3> QED
      BY <3>6, <3>7
  <2>2. \A i, j \in 1 .. L : i <= j /\ f[i] # 0 => f[j] # 0
    BY <1>5 DEF Returns
  <2> QED
    BY <2>1, <2>2 DEF Returns
<1>10. InScope(P2, w2, B2, E2, kp, v, Q, e)
  <2>1. ASSUME NEW k \in 2 .. Len(E2)
        PROVE  Declares(P2, w2, Q, B2[k - 1], B2[k], k, E2[k][v])
    <3>1. k - 1 \in 1 .. L - 1 /\ B2[k - 1] = B[k - 1] /\ B[k - 1] \in 0 .. n /\ B[k - 1] \in Nat
          /\ k \in 1 .. L /\ E2[k][v] = E[k][v]
      BY <1>2, <1>3
    <3>2. Declares(P, w, Q, B[k - 1], B[k], k, E[k][v])
      BY <1>3, <1>5 DEF InScope, L
    <3>3. \A p \in Q : B[k - 1] < p /\ p <= B[k] => P[w[p]].scope = ScopeNo(k)
      BY <3>2 DEF Declares
    <3>4. Top(w2, Q, 0, B[k - 1], B[k], E[k][v])
      BY <3>1, <3>2, <1>2, <1>6 DEF Declares
    <3>5. CASE k # L
      <4>1. B2[k] = B[k]
        BY SMTT(30), <3>1, <3>5, <1>2, <1>3
      <4> QED
        BY <3>1, <3>3, <3>4, <4>1, <1>7 DEF Declares
    <3>6. CASE k = L
      <4>1. B2[k] = n + 1 /\ B[k] = n
        BY <3>6, <1>2, <1>3
      <4>2. Top(w2, Q, 0, B[k - 1], n + 1, E[k][v])
        <5>1. Top(w2, Q, 0, B[k - 1], n, E[k][v])
          BY <3>4, <4>1
        <5> QED
          BY <5>1, <3>1, <1>2, TopRaised
      <4>3. \A p \in Q : B[k - 1] < p /\ p <= n + 1 => P2[w2[p]].scope = ScopeNo(k)
        BY <3>3, <4>1, <1>2, <1>7
      <4> QED
        BY <3>1, <4>1, <4>2, <4>3 DEF Declares
    <3> QED
      BY <3>5, <3>6
  <2>2. e = E2[1][v] \/ (kp /\ e = 0)
    <3>1. 1 \in 1 .. L
      BY <1>2
    <3> QED
      BY <3>1, <1>3, <1>5 DEF InScope
  <2>3. kp \/ \A p \in 1 .. Len(w2) : P2[w2[p]].v = v => p \in Q
    <3>1. kp \/ \A p \in 1 .. n : P[w[p]].v = v => p \in Q
      BY <1>5 DEF InScope, n
    <3> QED
      BY <3>1, <1>2, <1>3
  <2> QED
    BY <2>1, <2>2, <2>3 DEF InScope
<1>11. Chained(P2, w2, B2, E2, kp, v, cur, Q, e, f)
  BY <1>3, <1>8, <1>9, <1>10 DEF Chained
<1>12. Q \in SUBSET (1 .. Len(w2)) /\ f \in [1 .. Len(E2) -> 0 .. MaxPool]
  BY <1>2, <1>3
<1> QED
  BY <1>11, <1>12 DEF Chain
\* Popping the stack down to height b, where n of its Syms stay (all of them, or b).
LEMMA TopCut ==
  ASSUME NEW w, NEW w2, NEW b \in Nat, \A p \in 1 .. b : w2[p] = w[p],
         NEW Q, Q \subseteq Nat, NEW R, R = {p \in Q : p <= b}, \A p \in Q : p >= 1,
         NEW e, NEW lo \in Nat, NEW hi \in 0 .. b, NEW x, Top(w, Q, e, lo, hi, x)
  PROVE  Top(w2, R, e, lo, hi, x)
<1>1. CASE (\A r \in Q : ~ (lo < r /\ r <= hi)) /\ x = e
  BY <1>1 DEF Top
<1>2. CASE \E r \in Q : lo < r /\ r <= hi /\ (\A s \in Q : s <= hi => s <= r) /\ x = w[r]
  <2>1. PICK r \in Q : lo < r /\ r <= hi /\ (\A s \in Q : s <= hi => s <= r) /\ x = w[r]
    BY <1>2
  <2>2. r \in 1 .. b /\ r \in R /\ w2[r] = w[r]
    BY <2>1
  <2> QED
    BY <2>1, <2>2 DEF Top
<1> QED
  BY <1>1, <1>2 DEF Top

\* Nor does it matter for the topmost linked Sym how far the stack goes on.
LEMMA TopStretched ==
  ASSUME NEW w, NEW b \in Nat, NEW n \in Nat, b <= n, NEW R \in SUBSET (1 .. b),
         NEW e, NEW lo \in Nat, NEW x, Top(w, R, e, lo, b, x)
  PROVE  Top(w, R, e, lo, n, x)
<1>1. CASE (\A r \in R : ~ (lo < r /\ r <= b)) /\ x = e
  BY <1>1 DEF Top
<1>2. CASE \E r \in R : lo < r /\ r <= b /\ (\A s \in R : s <= b => s <= r) /\ x = w[r]
  BY <1>2 DEF Top
<1> QED
  BY <1>1, <1>2 DEF Top

\* Popping down to a height and from there to a lower one is popping to the lower.
LEMMA RestoresCut ==
  ASSUME NEW P, NEW w, Len(w) \in Nat, NEW P2, NEW w2, NEW n \in 0 .. Len(w), Len(w2) = n,
         \A p \in 1 .. n : w2[p] = w[p] /\ P2[w[p]] = P[w[p]],
         NEW v, NEW cur, NEW b \in 0 .. n, NEW c \in 0 .. b, NEW x, NEW y,
         Restores(P, w, v, cur, b, x), Restores(P, w, v, cur, c, y)
  PROVE  Restores(P2, w2, v, x, c, y)
<1>1. CASE \A s \in c + 1 .. Len(w) : P[w[s]].v # v
  <2>1. x = cur /\ y = cur
    BY <1>1 DEF Restores
  <2>2. \A s \in c + 1 .. n : P2[w2[s]].v # v
    BY <1>1
  <2> QED
    BY <2>1, <2>2 DEF Restores
<1>2. CASE ~ \A s \in c + 1 .. Len(w) : P[w[s]].v # v
  <2>1. PICK r \in c + 1 .. Len(w) :
          /\ P[w[r]].v = v /\ y = P[w[r]].prev_tok
          /\ \A s \in c + 1 .. Len(w) : P[w[s]].v = v => r <= s
    BY <1>2 DEF Restores
  <2>2. CASE r <= n
    <3>1. r \in c + 1 .. n /\ r \in 1 .. n
      BY <2>1, <2>2
    <3>2. P2[w2[r]] = P[w[r]] /\ \A s \in c + 1 .. n : P2[w2[s]].v = v => r <= s
      BY <2>1, <3>1
    <3> QED
      BY <2>1, <3>1, <3>2 DEF Restores
  <2>3. CASE r > n
    <3>1. \A s \in c + 1 .. n : P2[w2[s]].v # v
      BY <2>1, <2>3
    <3>2. r \in b + 1 .. Len(w) /\ \A s \in b + 1 .. Len(w) : s \in c + 1 .. Len(w)
      BY <2>1, <2>3
    <3>3. x = P[w[r]].prev_tok
      <4>1. \A t \in b + 1 .. Len(w) :
              P[w[t]].v = v /\ (\A s \in b + 1 .. Len(w) : P[w[s]].v = v => t <= s) => t = r
        BY <2>1, <3>2
      <4> QED
        BY <2>1, <3>2, <4>1 DEF Restores
    <3> QED
      BY <2>1, <3>1, <3>3 DEF Restores
  <2> QED
    BY <2>1, <2>2, <2>3
<1> QED
  BY <1>1, <1>2

\* The scopes above number m end; n Syms stay on the stack.
Closed(P, w, B, E, kp, m, n, P2, w2, B2, E2, kp2) ==
  /\ Len(E2) = m /\ \A k \in 1 .. m : E2[k] = E[k]
  /\ B2[m] = n /\ \A j \in 1 .. m - 1 : B2[j] = B[j]
  /\ Len(w2) = n /\ \A p \in 1 .. n : w2[p] = w[p] /\ P2[w[p]] = P[w[p]]
  /\ kp => kp2
  /\ kp2 \/ n = B[m]

\* The end of a scope brings back, of each name, what its beginning covered.
LEMMA CloseChain ==
  ASSUME NEW P, NEW w, NEW B, NEW E, Frame(P, w, B, E), NEW kp \in BOOLEAN,
         NEW v \in Ident, NEW cur, Chain(P, w, B, E, kp, v, cur),
         NEW m \in 1 .. Len(E) - 1, NEW n \in B[m] .. Len(w),
         NEW P2, NEW w2, NEW B2, NEW E2, NEW kp2 \in BOOLEAN,
         Closed(P, w, B, E, kp, m, n, P2, w2, B2, E2, kp2)
  PROVE  \E x \in 0 .. MaxPool :
           Restores(P, w, v, cur, B[m], x) /\ Chain(P2, w2, B2, E2, kp2, v, x)
<1> DEFINE L == Len(E) b == B[m]
<1>1. PICK Q \in SUBSET (1 .. Len(w)), e \in 0 .. MaxPool, f \in [1 .. L -> 0 .. MaxPool] :
        Chained(P, w, B, E, kp, v, cur, Q, e, f)
  BY DEF Chain
<1>2. /\ L \in Nat /\ L >= 1 /\ Len(w) \in Nat
      /\ \A j \in 1 .. L : B[j] \in 0 .. Len(w) /\ B[j] \in Nat
      /\ \A i, j \in 1 .. L : i <= j => B[i] <= B[j]
  BY FrameBases
<1>3. /\ Len(E2) = m /\ \A k \in 1 .. m : E2[k] = E[k]
      /\ B2[m] = n /\ \A j \in 1 .. m - 1 : B2[j] = B[j]
      /\ Len(w2) = n /\ \A p \in 1 .. n : w2[p] = w[p] /\ P2[w[p]] = P[w[p]]
      /\ kp => kp2
      /\ kp2 \/ n = b
  BY DEF Closed
<1>4. /\ m \in Nat /\ m >= 1 /\ m \in 1 .. L /\ b \in Nat /\ n \in Nat /\ b <= n /\ n <= Len(w)
      /\ \A j \in 1 .. m : j \in 1 .. L /\ B[j] \in 0 .. b /\ B[j] \in Nat
  BY <1>2
<1> HIDE DEF L, b
<1> DEFINE R == {p \in Q : p <= b}
           d == IF Top(w, Q, e, 0, b, f[m]) THEN e ELSE 0
           g == [j \in 1 .. m |-> f[j]]
<1>5. LinkedBy(P, w, v, cur, Q, e) /\ Returns(P, w, B, kp, v, cur, Q, e, f, L)
      /\ InScope(P, w, B, E, kp, v, Q, e)
  BY <1>1 DEF Chained, L
<1>6. g \in [1 .. m -> 0 .. MaxPool] /\ \A j \in 1 .. m : g[j] = f[j]
  BY <1>4
<1>7. /\ R \in SUBSET (1 .. b) /\ R \in SUBSET (1 .. n) /\ R \subseteq Q
      /\ \A p \in Q : p <= b => p \in R
      /\ \A p \in R : P2[w2[p]] = P[w[p]] /\ p - 1 \in 0 .. b
      /\ \A p \in 1 .. b : w2[p] = w[p]
  <2>1. \A p \in R : p \in Q /\ p \in 1 .. b /\ p \in 1 .. n /\ p - 1 \in 0 .. b
    BY <1>2, <1>4
  <2>2. \A p \in 1 .. b : p \in 1 .. n
    BY <1>4
  <2>3. \A p \in Q : p <= b => p \in R
    OBVIOUS
  <2> HIDE DEF R
  <2> QED
    BY <2>1, <2>2, <2>3, <1>3
<1>8. \A x, lo, hi, y : lo \in Nat /\ hi \in 0 .. b /\ Top(w, Q, x, lo, hi, y)
        => Top(w2, R, x, lo, hi, y)
  <2>1. Q \subseteq Nat /\ \A p \in Q : p >= 1
    OBVIOUS
  <2> QED
    BY <2>1, <1>4, <1>7, TopCut
<1>9. \A x, lo, y : lo \in Nat /\ Top(w2, R, x, lo, b, y) => Top(w2, R, x, lo, n, y)
  BY <1>4, <1>7, TopStretched
<1> HIDE DEF R, g
<1>10. Top(w, Q, e, 0, b, f[m]) \/ (kp /\ f[m] = 0 /\ \A r \in Q : r > b)
  BY <1>4, <1>5 DEF Returns, b
<1>11. d \in 0 .. MaxPool /\ Top(w2, R, d, 0, b, f[m])
       /\ (d = e \/ (kp /\ d = 0 /\ R = {} /\ f[m] = 0))
  <2>1. CASE Top(w, Q, e, 0, b, f[m])
    <3>1. d = e
      BY <2>1
    <3>2. Top(w2, R, e, 0, b, f[m])
      BY <2>1, <1>4, <1>8
    <3> QED
      BY <3>1, <3>2
  <2>2. CASE ~ Top(w, Q, e, 0, b, f[m])
    <3>1. d = 0 /\ kp /\ f[m] = 0 /\ \A r \in Q : r > b
      BY <2>2, <1>10
    <3>2. R = {}
      <4>1. \A p \in R : p \in Q /\ p \in 1 .. b
        BY <1>7
      <4> QED
        BY <3>1, <4>1, <1>4
    <3>3. 0 \in 0 .. MaxPool
      BY ScopeAssumption
    <3> QED
      BY <3>1, <3>2, <3>3 DEF Top
  <2> QED
    BY <2>1, <2>2
<1> HIDE DEF d
<1>12. LinkedBy(P2, w2, v, f[m], R, d)
  <2>1. ASSUME NEW p \in R
        PROVE  P2[w2[p]].v = v /\ Top(w2, R, d, 0, p - 1, P2[w2[p]].prev_tok)
    <3>1. p \in Q /\ p - 1 \in 0 .. b /\ P2[w2[p]] = P[w[p]]
      BY <1>7
    <3>2. P[w[p]].v = v /\ Top(w, Q, e, 0, p - 1, P[w[p]].prev_tok)
      BY <3>1, <1>5 DEF LinkedBy
    <3>3. d = e
      BY <1>11
    <3> QED
      BY <3>1, <3>2, <3>3, <1>8
  <2>2. Top(w2, R, d, 0, n, f[m])
    BY <1>9, <1>11
  <2> QED
    BY <2>1, <2>2, <1>3 DEF LinkedBy
<1>13. Returns(P2, w2, B2, kp2, v, f[m], R, d, g, m)
  <2>1. ASSUME NEW j \in 1 .. m PROVE Restores(P2, w2, v, f[m], B2[j], g[j])
    <3>1. CASE j = m
      <4>1. B2[j] = Len(w2) /\ g[j] = f[m]
        BY <3>1, <1>3, <1>6
      <4> QED
        BY <4>1, <1>3, <1>4 DEF Restores
    <3>2. CASE j # m
      <4>1. j \in 1 .. m - 1 /\ B2[j] = B[j] /\ g[j] = f[j]
        BY <3>2, <1>3, <1>4, <1>6
      <4>2. Restores(P, w, v, cur, b, f[m]) /\ Restores(P, w, v, cur, B[j], f[j])
        BY <1>4, <1>5 DEF Returns, b
      <4>3. n \in 0 .. Len(w) /\ b \in 0 .. n /\ B[j] \in 0 .. b /\ Len(w) \in Nat
        BY <1>2, <1>4
      <4>4. Restores(P2, w2, v, f[m], B[j], f[j])
        BY ZenonT(40), <4>2, <4>3, <1>3, RestoresCut
      <4> QED
        BY <4>1, <4>4
    <3> QED
      BY <3>1, <3>2
  <2>2. ASSUME NEW j \in 1 .. m
        PROVE  Top(w2, R, d, 0, B2[j], g[j]) \/ (kp2 /\ g[j] = 0 /\ \A r \in R : r > B2[j])
    <3>1. CASE j = m
      <4>1. B2[j] = n /\ g[j] = f[m]
        BY <3>1, <1>3, <1>6
      <4> QED
        BY <4>1, <1>9, <1>11
    <3>2. CASE j # m
      <4>1. j \in 1 .. m - 1 /\ B2[j] = B[j] /\ g[j] = f[j] /\ j <= m /\ j \in 1 .. L /\ B[j] \in 0 .. b
        BY <3>2, <1>3, <1>4, <1>6
      <4>2. CASE d = e
        <5>1. Top(w, Q, e, 0, B[j], f[j]) \/ (kp /\ f[j] = 0 /\ \A r \in Q : r > B[j])
          BY <4>1, <1>5 DEF Returns
        <5>2. CASE Top(w, Q, e, 0, B[j], f[j])
          BY <4>1, <4>2, <5>2, <1>8
        <5>3. CASE kp /\ f[j] = 0 /\ \A r \in Q : r > B[j]
          BY <4>1, <5>3, <1>3, <1>7
        <5> QED
          BY <5>1, <5>2, <5>3
      <4>3. CASE d = 0 /\ R = {} /\ f[m] = 0
        <5>1. f[j] = 0
          BY <4>1, <4>3, <1>4, <1>5 DEF Returns
        <5> QED
          BY <5>1, <4>1, <4>3 DEF Top
      <4> QED
        BY <4>2, <4>3, <1>11
    <3> QED
      BY <3>1, <3>2
  <2>3. \A i, j \in 1 .. m : i <= j /\ g[i] # 0 => g[j] # 0
    BY <1>4, <1>5, <1>6 DEF Returns
  <2> QED
    BY <2>1, <2>2, <2>3 DEF Returns
<1>14. InScope(P2, w2, B2, E2, kp2, v, R, d)
  <2>1. ASSUME NEW k \in 2 .. Len(E2)
        PROVE  Declares(P2, w2, R, B2[k - 1], B2[k], k, E2[k][v])
    <3>1. k \in 1 .. m /\ k \in 2 .. L /\ k - 1 \in 1 .. m - 1 /\ B2[k - 1] = B[k - 1]
          /\ B[k - 1] \in Nat /\ B[k] \in 0 .. b /\ E2[k] = E[k]
      BY <1>2, <1>3, <1>4
    <3>2. Declares(P, w, Q, B[k - 1], B[k], k, E[k][v])
      BY <3>1, <1>5 DEF InScope, L
    <3>3. \A p \in Q : B[k - 1] < p /\ p <= B[k] => P[w[p]].scope = ScopeNo(k)
      BY <3>2 DEF Declares
    <3>4. Top(w2, R, 0, B[k - 1], B[k], E[k][v])
      BY <3>1, <3>2, <1>8 DEF Declares
    <3>5. CASE k # m
      <4>1. k \in 1 .. m - 1
        BY <3>1, <3>5, <1>4
      <4>2. B2[k] = B[k]
        BY <4>1, <1>3
      <4> QED
        BY <3>1, <3>3, <3>4, <4>2, <1>7 DEF Declares
    <3>6. CASE k = m
      <4>1. B2[k] = n /\ B[k] = b
        BY <3>6, <1>3 DEF b
      <4>2. Top(w2, R, 0, B[k - 1], n, E[k][v])
        <5>1. Top(w2, R, 0, B[k - 1], b, E[k][v])
          BY <3>4, <4>1
        <5> QED
          BY <5>1, <3>1, <1>9
      <4>3. \A p \in R : B[k - 1] < p /\ p <= n => P2[w2[p]].scope = ScopeNo(k)
        BY <3>3, <4>1, <1>4, <1>7
      <4> QED
        BY <3>1, <4>1, <4>2, <4>3 DEF Declares
    <3> QED
      BY <3>5, <3>6
  <2>2. d = E2[1][v] \/ (kp2 /\ d = 0)
    <3>1. E2[1] = E[1]
      BY <1>3, <1>4
    <3>2. e = E[1][v] \/ (kp /\ e = 0)
      BY <1>5 DEF InScope
    <3> QED
      BY <3>1, <3>2, <1>3, <1>11
  <2>3. kp2 \/ \A p \in 1 .. Len(w2) : P2[w2[p]].v = v => p \in R
    <3>1. ASSUME ~ kp2, NEW p \in 1 .. Len(w2), P2[w2[p]].v = v PROVE p \in R
      <4>1. p \in 1 .. Len(w) /\ p <= b /\ P[w[p]].v = v /\ ~ kp
        BY <3>1, <1>2, <1>3, <1>4
      <4>2. p \in Q
        BY <4>1, <1>5 DEF InScope
      <4> QED
        BY <4>1, <4>2, <1>7
    <3> QED
      BY <3>1
  <2> QED
    BY <2>1, <2>2, <2>3 DEF InScope
<1>15. Chained(P2, w2, B2, E2, kp2, v, f[m], R, d, g)
  BY <1>3, <1>12, <1>13, <1>14 DEF Chained
<1>16. Chain(P2, w2, B2, E2, kp2, v, f[m])
  BY <1>3, <1>6, <1>7, <1>11, <1>15 DEF Chain
<1>17. f[m] \in 0 .. MaxPool /\ Restores(P, w, v, cur, B[m], f[m])
  BY <1>4, <1>5 DEF Returns
<1> QED
  BY <1>16, <1>17
-----------------------------------------------------------------------------
\* local_stack holds cells of the pool, and none of them is NULL.
LEMMA FrameCells ==
  ASSUME NEW P, NEW w, NEW B, NEW E, Frame(P, w, B, E)
  PROVE  \A p \in 1 .. Len(w) : w[p] \in SymIndex /\ w[p] # 0
<1>1. w \in Seq(SymIndex)
  BY DEF Frame
<1>2. \A p \in 1 .. Len(w) : w[p] \in SymIndex
  BY <1>1
<1>3. 0 \notin SymIndex
  BY ScopeAssumption DEF SymIndex
<1> QED
  BY <1>2, <1>3

\* A file scope symbol of v that none was known of is slipped in as g.
Known(E, v, g, E2) ==
  /\ Len(E2) = Len(E) /\ E2[1][v] = g
  /\ \A k \in 2 .. Len(E) : E2[k][v] = E[k][v]

\* The Syms on the stack stay as they are.
Untouched(P, w, P2) == \A p \in 1 .. Len(w) : P2[w[p]] = P[w[p]]

\* The first file scope symbol of a name with no symbol at all becomes visible.
LEMMA UnderNone ==
  ASSUME NEW P, NEW w, NEW B, NEW E, Frame(P, w, B, E), NEW kp \in BOOLEAN,
         NEW v \in Ident, Chain(P, w, B, E, kp, v, 0),
         NEW g \in SymIndex, NEW P2, Untouched(P, w, P2),
         NEW E2, Known(E, v, g, E2)
  PROVE  Chain(P2, w, B, E2, kp, v, g)
<1> DEFINE L == Len(E) n == Len(w)
<1>1. PICK Q \in SUBSET (1 .. n), e \in 0 .. MaxPool, f \in [1 .. L -> 0 .. MaxPool] :
        Chained(P, w, B, E, kp, v, 0, Q, e, f)
  BY DEF Chain
<1>2. /\ L \in Nat /\ L >= 1 /\ n \in Nat
      /\ \A j \in 1 .. L : B[j] \in 0 .. n /\ B[j] \in Nat
      /\ \A i, j \in 1 .. L : i <= j => B[i] <= B[j]
  BY FrameBases
<1>3. \A p \in 1 .. n : w[p] # 0
  BY FrameCells
<1> DEFINE Bare(j) == \A s \in B[j] + 1 .. n : P[w[s]].v # v
           h[j \in 1 .. L] == IF Bare(j) THEN g ELSE f[j]
<1>4. g \in 0 .. MaxPool /\ g # 0
  BY ScopeAssumption DEF SymIndex
<1>5. h \in [1 .. L -> 0 .. MaxPool] /\ \A j \in 1 .. L : h[j] = IF Bare(j) THEN g ELSE f[j]
  BY <1>4
<1> HIDE DEF L, n, h
<1>6. LinkedBy(P, w, v, 0, Q, e) /\ Returns(P, w, B, kp, v, 0, Q, e, f, L)
      /\ InScope(P, w, B, E, kp, v, Q, e)
  BY <1>1 DEF Chained, L
<1>7. Q = {} /\ e = 0
  <2>1. Top(w, Q, e, 0, n, 0)
    BY <1>6 DEF LinkedBy, n
  <2>2. \A r \in Q : 0 < r /\ r <= n /\ w[r] # 0
    BY <1>2, <1>3
  <2> QED
    BY <2>1, <2>2 DEF Top
<1>8. LinkedBy(P2, w, v, g, Q, g)
  BY <1>7 DEF LinkedBy, Top
<1>9. Returns(P2, w, B, kp, v, g, Q, g, h, L)
  <2>1. ASSUME NEW j \in 1 .. L
        PROVE  /\ Restores(P2, w, v, g, B[j], h[j])
               /\ Top(w, Q, g, 0, B[j], h[j]) \/ (kp /\ h[j] = 0 /\ \A r \in Q : r > B[j])
    <3>1. \A s \in B[j] + 1 .. n : P2[w[s]] = P[w[s]]
      BY <1>2 DEF n, Untouched
    <3>2. CASE Bare(j)
      <4>1. h[j] = g
        BY <3>2, <1>5
      <4>2. Restores(P2, w, v, g, B[j], g)
        BY <3>1, <3>2 DEF Restores, n
      <4>3. Top(w, Q, g, 0, B[j], g)
        BY <1>7 DEF Top
      <4> QED
        BY <4>1, <4>2, <4>3
    <3>3. CASE ~ Bare(j)
      <4>1. h[j] = f[j]
        BY <3>3, <1>5
      <4>2. Restores(P, w, v, 0, B[j], f[j])
        BY <1>6 DEF Returns
      <4>3. Restores(P2, w, v, g, B[j], f[j])
        BY <3>1, <3>3, <4>2 DEF Restores, n
      <4>4. f[j] = 0
        BY <1>6, <1>7 DEF Returns, Top
      <4>5. kp
        <5>1. PICK s \in B[j] + 1 .. n : P[w[s]].v = v
          BY <3>3
        <5>2. s \in 1 .. Len(w)
          BY <1>2 DEF n
        <5> QED
          BY <5>1, <5>2, <1>6, <1>7 DEF InScope
      <4> QED
        BY <4>1, <4>3, <4>4, <4>5, <1>7
    <3> QED
      BY <3>2, <3>3
  <2>2. \A i, j \in 1 .. L : i <= j /\ h[i] # 0 => h[j] # 0
    <3> TAKE i, j \in 1 .. L
    <3> HAVE i <= j /\ h[i] # 0
    <3>1. f[i] = 0
      BY <1>6, <1>7 DEF Returns, Top
    <3>2. Bare(i)
      BY <3>1, <1>5
    <3>3. \A s \in B[j] + 1 .. n : s \in B[i] + 1 .. n
      BY <1>2
    <3>4. Bare(j)
      BY <3>2, <3>3
    <3> QED
      BY <3>4, <1>4, <1>5
  <2> QED
    BY <2>1, <2>2 DEF Returns
<1>10. InScope(P2, w, B, E2, kp, v, Q, g)
  <2>1. \A k \in 2 .. Len(E2) : E2[k][v] = E[k][v] /\ Len(E2) = Len(E) /\ E2[1][v] = g
    BY DEF Known
  <2>2. \A k \in 2 .. Len(E2) : Declares(P2, w, Q, B[k - 1], B[k], k, E2[k][v])
    BY <2>1, <1>6, <1>7 DEF InScope, Declares
  <2>3. kp \/ \A p \in 1 .. Len(w) : P2[w[p]].v = v => p \in Q
    BY <1>6 DEF InScope, Untouched
  <2>4. g = E2[1][v]
    BY DEF Known
  <2> QED
    BY <2>2, <2>3, <2>4 DEF InScope
<1>11. Len(E2) = L
  BY DEF Known, L
<1>12. Chained(P2, w, B, E2, kp, v, g, Q, g, h)
  BY <1>8, <1>9, <1>10, <1>11 DEF Chained
<1> QED
  BY <1>4, <1>5, <1>11, <1>12 DEF Chain, n

\* The lowest Sym of a chain gets a file scope symbol to cover.
Slipped(P, w, m, g, P2) ==
  /\ \A p \in 1 .. Len(w) : p # m => P2[w[p]] = P[w[p]]
  /\ P2[w[m]].v = P[w[m]].v /\ P2[w[m]].scope = P[w[m]].scope /\ P2[w[m]].prev_tok = g

\* A file scope Sym that global_identifier_push() slips under the lowest linked
\* local lengthens the chain at its end and leaves its head visible.
LEMMA UnderLocals ==
  ASSUME NEW P, NEW w, NEW B, NEW E, Frame(P, w, B, E), NEW kp \in BOOLEAN,
         NEW v \in Ident, NEW cur, NEW Q \in SUBSET (1 .. Len(w)), NEW f \in [1 .. Len(E) -> 0 .. MaxPool],
         Chained(P, w, B, E, kp, v, cur, Q, 0, f),
         NEW m \in Q, \A q \in Q : m <= q,
         NEW g \in SymIndex, NEW P2, Slipped(P, w, m, g, P2), NEW E2, Known(E, v, g, E2)
  PROVE  Chain(P2, w, B, E2, kp, v, cur)
<1> DEFINE L == Len(E) n == Len(w)
<1>1. /\ L \in Nat /\ L >= 1 /\ n \in Nat
      /\ \A j \in 1 .. L : B[j] \in 0 .. n /\ B[j] \in Nat
      /\ \A i, j \in 1 .. L : i <= j => B[i] <= B[j]
  BY FrameBases
<1>2. \A p \in 1 .. n : w[p] # 0
  BY FrameCells
<1> DEFINE First(j) == B[j] < m /\ \A s \in B[j] + 1 .. n : P[w[s]].v = v => m <= s
           h[j \in 1 .. L] == IF First(j) THEN g ELSE f[j]
<1>3. g \in 0 .. MaxPool /\ g # 0 /\ m \in 1 .. n /\ m \in Nat /\ \A q \in Q : q \in Nat
  BY <1>1, ScopeAssumption DEF SymIndex
<1>4. h \in [1 .. L -> 0 .. MaxPool] /\ \A j \in 1 .. L : h[j] = IF First(j) THEN g ELSE f[j]
  BY <1>3
<1>5. /\ \A p \in 1 .. n : p # m => P2[w[p]] = P[w[p]]
      /\ \A p \in 1 .. n : P2[w[p]].v = P[w[p]].v /\ P2[w[p]].scope = P[w[p]].scope
      /\ P2[w[m]].prev_tok = g
  BY DEF Slipped
<1> HIDE DEF L, n, h
<1>6. LinkedBy(P, w, v, cur, Q, 0) /\ Returns(P, w, B, kp, v, cur, Q, 0, f, L)
      /\ InScope(P, w, B, E, kp, v, Q, 0)
  BY DEF Chained, L
<1>7. \A lo, hi, x, e : m > lo /\ m <= hi /\ lo \in Nat /\ hi \in Nat /\ Top(w, Q, e, lo, hi, x)
        => \A d : Top(w, Q, d, lo, hi, x) /\ x # 0
  BY <1>2, <1>3 DEF Top, n
<1>8. LinkedBy(P2, w, v, cur, Q, g)
  <2>1. ASSUME NEW p \in Q
        PROVE  P2[w[p]].v = v /\ Top(w, Q, g, 0, p - 1, P2[w[p]].prev_tok)
    <3>1. P[w[p]].v = v /\ Top(w, Q, 0, 0, p - 1, P[w[p]].prev_tok) /\ p \in 1 .. n
      BY <1>6 DEF LinkedBy, n
    <3>2. CASE p = m
      <4>1. \A r \in Q : ~ (0 < r /\ r <= p - 1)
        BY <3>1, <3>2
      <4> QED
        BY <3>1, <3>2, <4>1, <1>5 DEF Top
    <3>3. CASE p # m
      <4>1. m > 0 /\ m <= p - 1 /\ p - 1 \in Nat
        BY <3>1, <3>3, <1>3
      <4> QED
        BY <3>1, <3>3, <4>1, <1>5, <1>7
    <3> QED
      BY <3>2, <3>3
  <2>2. Top(w, Q, g, 0, Len(w), cur)
    <3>1. Top(w, Q, 0, 0, n, cur)
      BY <1>6 DEF LinkedBy, n
    <3> QED
      BY <3>1, <1>1, <1>3, <1>7 DEF n
  <2> QED
    BY <2>1, <2>2 DEF LinkedBy
<1>9. ASSUME NEW j \in 1 .. L
      PROVE  /\ Restores(P2, w, v, cur, B[j], h[j])
             /\ Top(w, Q, g, 0, B[j], h[j]) \/ (kp /\ h[j] = 0 /\ \A r \in Q : r > B[j])
             /\ B[j] >= m => h[j] # 0
             /\ h[j] # 0 => First(j) \/ B[j] >= m
  <2>1. /\ Restores(P, w, v, cur, B[j], f[j])
        /\ Top(w, Q, 0, 0, B[j], f[j]) \/ (kp /\ f[j] = 0 /\ \A r \in Q : r > B[j])
    BY <1>6 DEF Returns
  <2>2. B[j] \in Nat /\ \A s \in B[j] + 1 .. n : s \in 1 .. n
    BY <1>1
  <2>3. P[w[m]].v = v
    BY <1>6 DEF LinkedBy
  <2>4. CASE First(j)
    <3>1. h[j] = g /\ m \in B[j] + 1 .. n
      BY <2>2, <2>4, <1>3, <1>4
    <3>2. Restores(P2, w, v, cur, B[j], g)
      BY <2>2, <2>3, <2>4, <3>1, <1>5 DEF Restores, n
    <3>3. \A r \in Q : r > B[j]
      <4>1. B[j] < m
        BY <2>4
      <4>2. \A r \in Q : r \in Nat /\ m <= r /\ m \in Nat
        BY <1>1, <1>3
      <4> QED
        BY <4>1, <4>2, <2>2
    <3>4. Top(w, Q, g, 0, B[j], g)
      BY <3>3, <2>2 DEF Top
    <3> QED
      BY <2>2, <2>4, <3>1, <3>2, <3>4, <1>3
  <2>5. CASE ~ First(j)
    <3>1. h[j] = f[j]
      BY <2>5, <1>4
    <3>2. Restores(P2, w, v, cur, B[j], f[j])
      <4>1. CASE \A s \in B[j] + 1 .. n : P[w[s]].v # v
        BY <4>1, <2>1, <2>2, <1>5 DEF Restores, n
      <4>2. CASE ~ \A s \in B[j] + 1 .. n : P[w[s]].v # v
        <5>1. PICK r \in B[j] + 1 .. n :
                /\ P[w[r]].v = v /\ f[j] = P[w[r]].prev_tok
                /\ \A s \in B[j] + 1 .. n : P[w[s]].v = v => r <= s
          BY <4>2, <2>1 DEF Restores, n
        <5>2. r # m
          BY <5>1, <2>2, <2>5, <1>3
        <5> QED
          BY <5>1, <5>2, <2>2, <1>5 DEF Restores, n
      <4> QED
        BY <4>1, <4>2
    <3>3. CASE B[j] >= m
      <4>1. Top(w, Q, 0, 0, B[j], f[j])
        BY <2>1, <2>2, <3>3, <1>3
      <4>2. Top(w, Q, g, 0, B[j], f[j]) /\ f[j] # 0
        BY <4>1, <2>2, <3>3, <1>3, <1>7
      <4> QED
        BY <3>1, <3>2, <3>3, <4>2
    <3>4. CASE ~ (B[j] >= m)
      <4>1. \A r \in Q : r > B[j]
        BY <3>4, <2>2, <1>3
      <4>2. f[j] = 0
        BY <2>1, <2>2, <4>1 DEF Top
      <4>3. PICK s \in B[j] + 1 .. n : P[w[s]].v = v /\ ~ (m <= s)
        BY <2>2, <2>5, <3>4, <1>3
      <4>4. s \notin Q /\ s \in 1 .. Len(w)
        BY <4>3, <2>2 DEF n
      <4>5. kp
        BY <4>3, <4>4, <1>6 DEF InScope
      <4> QED
        BY <3>1, <3>2, <3>4, <4>1, <4>2, <4>5
    <3> QED
      BY <3>3, <3>4
  <2> QED
    BY <2>4, <2>5
<1>10. Returns(P2, w, B, kp, v, cur, Q, g, h, L)
  <2>1. ASSUME NEW i \in 1 .. L, NEW j \in 1 .. L, i <= j, h[i] # 0 PROVE h[j] # 0
    <3>1. B[i] \in Nat /\ B[j] \in Nat /\ B[i] <= B[j] /\ m \in Nat
      BY <2>1, <1>1, <1>3
    <3>2. CASE B[j] >= m
      BY <3>2, <1>9
    <3>3. CASE ~ (B[j] >= m)
      <4>1. First(i)
        BY <2>1, <3>1, <3>3, <1>9
      <4>2. \A s \in B[j] + 1 .. n : s \in B[i] + 1 .. n
        BY <3>1, <1>1
      <4>3. First(j)
        BY <3>1, <3>3, <4>1, <4>2
      <4> QED
        BY <4>3, <1>3, <1>4
    <3> QED
      BY <3>2, <3>3
  <2> HIDE DEF First
  <2> QED
    BY <1>9, <2>1 DEF Returns
<1>11. InScope(P2, w, B, E2, kp, v, Q, g)
  <2>1. Len(E2) = Len(E) /\ \A k \in 2 .. Len(E) : E2[k][v] = E[k][v]
    BY DEF Known
  <2>2. \A p \in Q : P2[w[p]].scope = P[w[p]].scope
    BY <1>5 DEF n
  <2>3. \A k \in 2 .. Len(E) : Declares(P, w, Q, B[k - 1], B[k], k, E[k][v])
    BY <1>6 DEF InScope
  <2>4. ASSUME NEW k \in 2 .. Len(E2)
        PROVE  Declares(P2, w, Q, B[k - 1], B[k], k, E2[k][v])
    BY <2>1, <2>2, <2>3 DEF Declares
  <2>5. kp \/ \A p \in 1 .. Len(w) : P2[w[p]].v = v => p \in Q
    BY <1>5, <1>6 DEF InScope, n
  <2>6. g = E2[1][v]
    BY DEF Known
  <2> QED
    BY <2>4, <2>5, <2>6 DEF InScope
<1>12. Len(E2) = L
  BY DEF Known, L
<1>13. Chained(P2, w, B, E2, kp, v, cur, Q, g, h)
  BY <1>8, <1>10, <1>11, <1>12 DEF Chained
<1> QED
  BY <1>3, <1>4, <1>12, <1>13 DEF Chain, n

\* Nothing changes for the other names.
LEMMA UnderOther ==
  ASSUME NEW P, NEW w, NEW B, NEW E, Frame(P, w, B, E), NEW kp,
         NEW v \in Ident, NEW cur, Chain(P, w, B, E, kp, v, cur),
         NEW P2, \A p \in 1 .. Len(w) : P2[w[p]].v = P[w[p]].v,
         \A p \in 1 .. Len(w) : P[w[p]].v = v => P2[w[p]] = P[w[p]],
         NEW E2, Known(E, v, E[1][v], E2)
  PROVE  Chain(P2, w, B, E2, kp, v, cur)
<1> DEFINE L == Len(E) n == Len(w)
<1>1. PICK Q \in SUBSET (1 .. n), e \in 0 .. MaxPool, f \in [1 .. L -> 0 .. MaxPool] :
        Chained(P, w, B, E, kp, v, cur, Q, e, f)
  BY DEF Chain
<1>2. /\ L \in Nat /\ L >= 1 /\ n \in Nat
      /\ \A j \in 1 .. L : B[j] \in 0 .. n /\ B[j] \in Nat
  BY FrameBases
<1>3. Len(E2) = L /\ E2[1][v] = E[1][v] /\ \A k \in 2 .. L : E2[k][v] = E[k][v]
  BY DEF Known
<1> HIDE DEF L, n
<1>4. LinkedBy(P, w, v, cur, Q, e) /\ Returns(P, w, B, kp, v, cur, Q, e, f, L)
      /\ InScope(P, w, B, E, kp, v, Q, e)
  BY <1>1 DEF Chained, L
<1>5. \A p \in Q : P2[w[p]] = P[w[p]]
  BY <1>4 DEF LinkedBy, n
<1>6. LinkedBy(P2, w, v, cur, Q, e)
  BY <1>4, <1>5 DEF LinkedBy
<1>7. ASSUME NEW j \in 1 .. L PROVE Restores(P2, w, v, cur, B[j], f[j])
  <2>1. Restores(P, w, v, cur, B[j], f[j]) /\ \A s \in B[j] + 1 .. n : s \in 1 .. Len(w)
    BY <1>2, <1>4 DEF Returns, n
  <2> QED
    BY <2>1 DEF Restores, n
<1>8. Returns(P2, w, B, kp, v, cur, Q, e, f, L)
  BY <1>4, <1>7 DEF Returns
<1>9. InScope(P2, w, B, E2, kp, v, Q, e)
  <2>1. \A k \in 2 .. Len(E) : Declares(P, w, Q, B[k - 1], B[k], k, E[k][v])
    BY <1>4 DEF InScope
  <2>2. ASSUME NEW k \in 2 .. Len(E2)
        PROVE  Declares(P2, w, Q, B[k - 1], B[k], k, E2[k][v])
    BY <2>1, <1>3, <1>5 DEF Declares, L
  <2>3. kp \/ \A p \in 1 .. Len(w) : P2[w[p]].v = v => p \in Q
    BY <1>4 DEF InScope
  <2> QED
    BY <2>2, <2>3, <1>3, <1>4 DEF InScope
<1>10. Chained(P2, w, B, E2, kp, v, cur, Q, e, f)
  BY <1>3, <1>6, <1>8, <1>9 DEF Chained
<1> QED
  BY <1>3, <1>10 DEF Chain, n
-----------------------------------------------------------------------------
\* A set of numbers that holds 0 and, up to n, the successors of its members,
\* holds all numbers up to n.
LEMMA UpTo ==
  ASSUME NEW n \in Nat, NEW S, 0 \in S, \A k \in 0 .. n : k \in S /\ k < n => k + 1 \in S
  PROVE  \A k \in 0 .. n : k \in S
<1> DEFINE F == {k \in 0 .. n : k \notin S}
<1>1. SUFFICES ASSUME F # {} PROVE FALSE
  OBVIOUS
<1>2. F \subseteq Nat
  OBVIOUS
<1>3. PICK x \in F : \A y \in F : ~ (<<y, x>> \in OpToRel(<, Nat))
  BY <1>1, <1>2, NatLessThanWellFounded, WFMin
<1>4. x # 0 /\ x - 1 \in 0 .. n /\ x - 1 < x /\ x - 1 \in Nat
  OBVIOUS
<1>5. x - 1 \notin F
  BY <1>2, <1>3, <1>4 DEF OpToRel
<1>6. x - 1 \in S /\ x - 1 < n /\ x - 1 + 1 = x
  BY <1>4, <1>5
<1> QED
  BY <1>3, <1>4, <1>6

\* One more cell of a chain.
Extended(s, i) == IF Onward(s, i) = 0 THEN s ELSE Append(s, Onward(s, i))

\* prev_tok leads from a cell of the pool to another or to NULL.
LEMMA ExtendedIs ==
  ASSUME pool \in [SymIndex -> Syms], NEW i \in 0 .. MaxPool, NEW s \in Seq(SymIndex)
  PROVE  Onward(s, i) \in 0 .. MaxPool /\ Extended(s, i) \in Seq(SymIndex)
<1>1. Onward(s, i) \in 0 .. MaxPool
  <2>1. CASE s = << >>
    BY <2>1 DEF Onward
  <2>2. CASE s # << >>
    <3>1. Last(s) \in SymIndex
      BY <2>2 DEF Last
    <3>2. pool[Last(s)].prev_tok \in 0 .. MaxPool
      BY <3>1 DEF Syms
    <3> QED
      BY <2>2, <3>2 DEF Onward
  <2> QED
    BY <2>1, <2>2
<1>2. Onward(s, i) # 0 => Onward(s, i) \in SymIndex
  BY <1>1, ScopeAssumption DEF SymIndex
<1> QED
  BY <1>1, <1>2 DEF Extended

\* The first n steps along a chain.
Part(c, i, n) == c[0] = << >> /\ \A k \in 1 .. n : c[k] = Extended(c[k - 1], i)

\* Following prev_tok step by step is possible for as many steps as there are cells.
LEMMA PartExists ==
  ASSUME pool \in [SymIndex -> Syms], NEW i \in 0 .. MaxPool
  PROVE  \E c \in [0 .. MaxPool -> Seq(SymIndex)] : Part(c, i, MaxPool)
<1> DEFINE J == 0 .. MaxPool
           S == {n \in J : \E c \in [J -> Seq(SymIndex)] : Part(c, i, n)}
<1>1. MaxPool \in Nat
  BY ScopeAssumption
<1>2. 0 \in S
  <2> DEFINE c == [k \in J |-> << >>]
  <2>1. c \in [J -> Seq(SymIndex)]
    OBVIOUS
  <2>2. Part(c, i, 0)
    BY <1>1 DEF Part
  <2> QED
    BY <2>1, <2>2, <1>1
<1>3. ASSUME NEW n \in 0 .. MaxPool, n \in S, n < MaxPool PROVE n + 1 \in S
  <2>1. PICK c \in [J -> Seq(SymIndex)] : Part(c, i, n)
    BY <1>3
  <2> DEFINE x == Extended(c[n], i)
             d == [c EXCEPT ![n + 1] = x]
  <2>2. x \in Seq(SymIndex) /\ n + 1 \in J
    BY <1>1, <1>3, ExtendedIs
  <2> HIDE DEF x
  <2>3. d \in [J -> Seq(SymIndex)] /\ d[n + 1] = x /\ \A k \in 0 .. n : d[k] = c[k]
    BY <2>2, <1>1
  <2> HIDE DEF d
  <2>4. ASSUME NEW k \in 1 .. n + 1 PROVE d[k] = Extended(d[k - 1], i)
    <3>1. k - 1 \in 0 .. n /\ d[k - 1] = c[k - 1]
      BY <2>3
    <3>2. CASE k = n + 1
      <4>1. k - 1 = n
        BY <3>2
      <4> QED
        BY <3>1, <3>2, <4>1, <2>3 DEF x
    <3>3. CASE k # n + 1
      <4>1. k \in 1 .. n /\ k \in 0 .. n
        BY <3>3
      <4> QED
        BY <3>1, <4>1, <2>1, <2>3 DEF Part
    <3> QED
      BY <3>2, <3>3
  <2>5. d[0] = << >>
    BY <2>1, <2>3 DEF Part
  <2>6. Part(d, i, n + 1)
    BY <2>4, <2>5 DEF Part
  <2> QED
    BY <2>2, <2>3, <2>6
<1>4. MaxPool \in S
  <2> HIDE DEF S
  <2>1. \A k \in 0 .. MaxPool : k \in S
    BY <1>1, <1>2, <1>3, UpTo
  <2> QED
    BY <2>1, <1>1
<1> QED
  BY <1>4

\* Covered is what MaxPool steps along the chain give.
LEMMA CoveredIs ==
  ASSUME pool \in [SymIndex -> Syms], NEW i \in 0 .. MaxPool
  PROVE  \E c \in [0 .. MaxPool -> Seq(SymIndex)] :
           Part(c, i, MaxPool) /\ Covered(i) = c[MaxPool]
<1> DEFINE Rec(c) == c = [k \in 0 .. MaxPool |->
                            IF k = 0 THEN << >>
                            ELSE LET j == Onward(c[k - 1], i) IN
                                 IF j = 0 THEN c[k - 1] ELSE Append(c[k - 1], j)]
           c == CHOOSE c : Rec(c)
<1>1. MaxPool \in Nat
  BY ScopeAssumption
<1>2. \E d : Rec(d)
  <2>1. PICK d \in [0 .. MaxPool -> Seq(SymIndex)] : Part(d, i, MaxPool)
    BY PartExists
  <2>2. d = [k \in 0 .. MaxPool |-> d[k]]
    BY <2>1
  <2>3. ASSUME NEW k \in 0 .. MaxPool
        PROVE  d[k] = IF k = 0 THEN << >>
                      ELSE LET j == Onward(d[k - 1], i) IN
                           IF j = 0 THEN d[k - 1] ELSE Append(d[k - 1], j)
    <3>1. CASE k = 0
      BY <3>1, <2>1 DEF Part
    <3>2. CASE k # 0
      <4>1. k \in 1 .. MaxPool
        BY <3>2, <1>1
      <4>2. d[k] = Extended(d[k - 1], i)
        BY <4>1, <2>1 DEF Part
      <4> QED
        BY <3>2, <4>2 DEF Extended
    <3> QED
      BY <3>1, <3>2
  <2>4. Rec(d)
    BY <2>1, <2>3
  <2> QED
    BY <2>4
<1>3. Rec(c)
  BY <1>2, Zenon
<1>4. Covered(i) = c[MaxPool]
  BY DEF Covered
<1> HIDE DEF c
<1>8. \A k \in 0 .. MaxPool :
        c[k] = IF k = 0 THEN << >>
               ELSE LET j == Onward(c[k - 1], i) IN
                    IF j = 0 THEN c[k - 1] ELSE Append(c[k - 1], j)
  BY <1>3
<1> HIDE DEF Rec
<1>5. c[0] = << >> /\ \A k \in 1 .. MaxPool : c[k] = Extended(c[k - 1], i)
  <2>1. c[0] = << >>
    BY <1>1, <1>8
  <2>2. ASSUME NEW k \in 1 .. MaxPool PROVE c[k] = Extended(c[k - 1], i)
    <3>1. k \in 0 .. MaxPool /\ k # 0
      BY <1>1
    <3> QED
      BY <3>1, <1>8 DEF Extended
  <2> QED
    BY <2>1, <2>2
<1>6. Part(c, i, MaxPool)
  BY <1>5 DEF Part
<1>7. c \in [0 .. MaxPool -> Seq(SymIndex)]
  <2> DEFINE S == {k \in 0 .. MaxPool : c[k] \in Seq(SymIndex)}
  <2>1. 0 \in S
    <3>1. 0 \in 0 .. MaxPool
      BY <1>1
    <3>2. << >> \in Seq(SymIndex)
      OBVIOUS
    <3> QED
      BY <3>1, <3>2, <1>5
  <2>2. ASSUME NEW k \in 0 .. MaxPool, k \in S, k < MaxPool PROVE k + 1 \in S
    <3>1. k + 1 \in 1 .. MaxPool /\ k + 1 - 1 = k
      BY <1>1, <2>2
    <3>2. c[k + 1] = Extended(c[k], i)
      BY <3>1, <1>5
    <3> QED
      BY <2>2, <3>1, <3>2, ExtendedIs
  <2> HIDE DEF S
  <2>3. \A k \in 0 .. MaxPool : k \in S
    BY <2>1, <2>2, <1>1, UpTo
  <2>4. \A k \in 0 .. MaxPool : c[k] \in Seq(SymIndex)
    BY <2>3 DEF S
  <2> QED
    BY <2>4, <1>3 DEF Rec
<1> QED
  BY <1>4, <1>6, <1>7
-----------------------------------------------------------------------------
\* A set of numbers that is not empty has a first one.
LEMMA FirstOf ==
  ASSUME NEW I, I \subseteq Nat, I # {}
  PROVE  Min(I) \in I /\ \A y \in I : Min(I) <= y
<1>1. \E x \in I : \A y \in I : ~ (<<y, x>> \in OpToRel(<, Nat))
  BY NatLessThanWellFounded, WFMin
<1>2. \A x, y \in I : ~ (<<y, x>> \in OpToRel(<, Nat)) => x =< y
  BY DEF OpToRel
<1>3. \E x \in I : \A y \in I : x =< y
  BY <1>1, <1>2
<1> QED
  BY <1>3 DEF Min

\* The Syms on the stack are alive, local and different.
Held(P, w) ==
  /\ \A p \in 1 .. Len(w) : P[w[p]].live /\ P[w[p]].scope > 0
  /\ \A p, r \in 1 .. Len(w) : w[p] = w[r] => p = r

\* A file scope symbol of v is alive, covers nothing and is not on the stack.
Rooted(P, w, g, v) ==
  g # 0 => /\ P[g].live /\ P[g].v = v /\ P[g].scope = 0 /\ P[g].prev_tok = 0
           /\ \A p \in 1 .. Len(w) : w[p] # g

\* The stack is no higher than the pool has Syms to put there.
LEMMA StackFits ==
  ASSUME NEW w \in Seq(SymIndex), NEW X \in SUBSET SymIndex, \A p \in 1 .. Len(w) : w[p] \in X,
         \A p, r \in 1 .. Len(w) : w[p] = w[r] => p = r
  PROVE  Len(w) <= Cardinality(X)
<1>1. IsFiniteSet(X)
  <2>1. MaxPool \in Int /\ 1 \in Int
    BY ScopeAssumption
  <2>2. IsFiniteSet(SymIndex)
    BY <2>1, FS_Interval DEF SymIndex
  <2> QED
    BY <2>2, FS_Subset
<1>2. Len(w) \in Nat /\ w \in [1 .. Len(w) -> X]
  OBVIOUS
<1>3. IsFiniteSet(1 .. Len(w)) /\ Cardinality(1 .. Len(w)) = Len(w)
  <2>1. 1 \in Int /\ Len(w) \in Int /\ Len(w) \in Nat
    BY <1>2
  <2>2. IsFiniteSet(1 .. Len(w))
        /\ Cardinality(1 .. Len(w)) = IF 1 > Len(w) THEN 0 ELSE Len(w) - 1 + 1
    BY <2>1, FS_Interval
  <2> QED
    BY <2>1, <2>2
<1>4. ~ (Cardinality(X) < Cardinality(1 .. Len(w)))
  BY <1>1, <1>2, <1>3, FS_PigeonHole
<1> QED
  BY <1>1, <1>2, <1>3, <1>4, FS_CardinalityType

\* No Sym is twice on local_stack, so it has no more entries than the pool.
LEMMA StackRoom ==
  ASSUME NEW w \in Seq(SymIndex), \A p, r \in 1 .. Len(w) : w[p] = w[r] => p = r
  PROVE  /\ Len(w) <= MaxPool
         /\ \A e \in SymIndex : (\A p \in 1 .. Len(w) : w[p] # e) => Len(w) < MaxPool
<1>1. IsFiniteSet(SymIndex) /\ Cardinality(SymIndex) = MaxPool /\ MaxPool \in Nat
  BY FS_Interval, ScopeAssumption DEF SymIndex
<1>2. \A p \in 1 .. Len(w) : w[p] \in SymIndex
  OBVIOUS
<1>3. Len(w) <= MaxPool
  BY <1>1, <1>2, StackFits
<1>4. ASSUME NEW e \in SymIndex, \A p \in 1 .. Len(w) : w[p] # e PROVE Len(w) < MaxPool
  <2>1. \A p \in 1 .. Len(w) : w[p] \in SymIndex \ {e}
    BY <1>2, <1>4
  <2>2. Len(w) <= Cardinality(SymIndex \ {e})
    BY <1>1, <2>1, StackFits
  <2>3. Cardinality(SymIndex \ {e}) = MaxPool - 1
    BY <1>1, FS_RemoveElement
  <2> QED
    BY <1>1, <2>2, <2>3
<1> QED
  BY <1>3, <1>4

\* What is still ahead after k steps along the chain of v.
Ahead(w, Q, e, k, x) ==
  \/ x = 0
  \/ \E q \in Q : x = w[q] /\ k + q <= Len(w)
  \/ e # 0 /\ x = e /\ k <= Len(w)

\* The cells on the chain of v.
OnChain(w, Q, e) == {w[q] : q \in Q} \cup ({e} \ {0})

\* Walking on from the top of the chain.
LEMMA AheadOf ==
  ASSUME NEW w, Len(w) \in Nat, NEW Q \in SUBSET (1 .. Len(w)), NEW e, NEW n \in 0 .. Len(w),
         NEW k \in Nat, k + n <= Len(w), NEW x, Top(w, Q, e, 0, n, x)
  PROVE  Ahead(w, Q, e, k, x)
<1>1. CASE x = e
  BY <1>1 DEF Ahead
<1>2. CASE \E r \in Q : 0 < r /\ r <= n /\ x = w[r]
  BY <1>2 DEF Ahead
<1> QED
  BY <1>1, <1>2 DEF Top

\* The chain of v never leaves its Syms, and one step gets nearer to its end.
LEMMA StepsAhead ==
  ASSUME pool \in [SymIndex -> Syms], NEW w \in Seq(SymIndex), NEW v, NEW cur \in 0 .. MaxPool,
         NEW Q \in SUBSET (1 .. Len(w)), NEW e \in 0 .. MaxPool, LinkedBy(pool, w, v, cur, Q, e),
         e # 0 => pool[e].prev_tok = 0,
         NEW k \in Nat, NEW s \in Seq(OnChain(w, Q, e)), Ahead(w, Q, e, k, Onward(s, cur))
  PROVE  /\ Extended(s, cur) \in Seq(OnChain(w, Q, e))
         /\ Ahead(w, Q, e, k + 1, Onward(Extended(s, cur), cur))
<1> DEFINE x == Onward(s, cur) t == Extended(s, cur) X == OnChain(w, Q, e)
<1>1. Len(w) \in Nat
  OBVIOUS
<1> HIDE DEF x
<1>2. CASE x = 0
  <2>1. t = s
    BY <1>2 DEF Extended, x
  <2> QED
    BY <2>1, <1>2 DEF Ahead, x
<1>3. CASE x # 0
  <2>1. x \in X
    BY <1>3 DEF Ahead, OnChain, x
  <2>2. t = Append(s, x)
    BY <1>3 DEF Extended, x
  <2>3. t \in Seq(X) /\ t # << >> /\ Last(t) = x
    <3> HIDE DEF X
    <3>1. Append(s, x) \in Seq(X) /\ Append(s, x) # << >>
          /\ Append(s, x)[Len(Append(s, x))] = x
      BY <2>1 DEF X
    <3> QED
      BY <3>1, <2>2 DEF Last
  <2>4. Onward(t, cur) = pool[x].prev_tok
    BY <2>3 DEF Onward
  <2>5. CASE \E q \in Q : x = w[q] /\ k + q <= Len(w)
    <3>1. PICK q \in Q : x = w[q] /\ k + q <= Len(w)
      BY <2>5
    <3>2. Top(w, Q, e, 0, q - 1, pool[x].prev_tok)
      BY <3>1 DEF LinkedBy
    <3>3. q - 1 \in 0 .. Len(w) /\ k + 1 + (q - 1) <= Len(w) /\ k + 1 \in Nat
      BY <3>1, <1>1
    <3>4. Ahead(w, Q, e, k + 1, pool[x].prev_tok)
      BY <3>2, <3>3, <1>1, AheadOf
    <3> QED
      BY <2>3, <2>4, <3>4
  <2>6. CASE e # 0 /\ x = e
    <3>1. Onward(t, cur) = 0
      BY <2>4, <2>6
    <3> QED
      BY <2>3, <3>1 DEF Ahead
  <2> QED
    BY <1>3, <2>5, <2>6 DEF Ahead, x
<1> QED
  BY <1>2, <1>3

\* Covered(cur) is the whole chain of v: only Syms of v, the file scope one last.
WholeChain(w, Q, e, s) ==
  /\ \A k \in 1 .. Len(s) : (e # 0 /\ s[k] = e) \/ \E q \in Q : s[k] = w[q]
  /\ e # 0 => \E k \in 1 .. Len(s) : s[k] = e
  /\ e = 0 => \A m \in Q : (\A q \in Q : m <= q) => s # << >> /\ Last(s) = w[m]

\* A walk that has stopped has come to the end of the chain.
LEMMA ChainEnds ==
  ASSUME pool \in [SymIndex -> Syms], NEW w \in Seq(SymIndex), NEW v, NEW cur \in 0 .. MaxPool,
         NEW Q \in SUBSET (1 .. Len(w)), NEW e \in 0 .. MaxPool, LinkedBy(pool, w, v, cur, Q, e),
         NEW s \in Seq(OnChain(w, Q, e)), Onward(s, cur) = 0
  PROVE  WholeChain(w, Q, e, s)
<1>1. \A p \in 1 .. Len(w) : w[p] # 0
  BY ScopeAssumption DEF SymIndex
<1>2. \A k \in 1 .. Len(s) : (e # 0 /\ s[k] = e) \/ \E q \in Q : s[k] = w[q]
  <2>1. \A k \in 1 .. Len(s) : s[k] \in OnChain(w, Q, e)
    OBVIOUS
  <2> QED
    BY <2>1 DEF OnChain
<1>3. CASE s = << >>
  <2>1. Top(w, Q, e, 0, Len(w), 0)
    BY <1>3 DEF LinkedBy, Onward
  <2>2. e = 0 /\ Q = {}
    BY <1>1, <2>1 DEF Top
  <2> QED
    BY <1>2, <2>2 DEF WholeChain
<1>4. CASE s # << >>
  <2> DEFINE n == Len(s)
  <2>1. n \in Nat /\ n \in 1 .. n /\ Last(s) = s[n] /\ pool[s[n]].prev_tok = 0
    BY <1>4 DEF Last, Onward
  <2> HIDE DEF n
  <2>2. CASE e # 0 /\ s[n] = e
    BY <1>2, <2>1, <2>2 DEF WholeChain, n
  <2>3. CASE \E q \in Q : s[n] = w[q]
    <3>1. PICK q \in Q : s[n] = w[q]
      BY <2>3
    <3>2. Top(w, Q, e, 0, q - 1, 0)
      BY <2>1, <3>1 DEF LinkedBy
    <3>3. e = 0 /\ \A r \in Q : ~ (r <= q - 1)
      BY <1>1, <3>2 DEF Top
    <3>4. \A m \in Q : (\A r \in Q : m <= r) => m = q
      BY <3>3
    <3> QED
      BY <1>2, <1>4, <2>1, <3>1, <3>3, <3>4 DEF WholeChain
  <2> QED
    BY <1>2, <2>1, <2>2, <2>3 DEF n
<1> QED
  BY <1>3, <1>4

\* Covered() returns the whole chain.
LEMMA CoveredWhole ==
  ASSUME pool \in [SymIndex -> Syms], NEW w \in Seq(SymIndex), NEW v, NEW cur \in 0 .. MaxPool,
         NEW Q \in SUBSET (1 .. Len(w)), NEW e \in 0 .. MaxPool, LinkedBy(pool, w, v, cur, Q, e),
         Held(pool, w), Rooted(pool, w, e, v)
  PROVE  /\ Covered(cur) \in Seq(SymIndex)
         /\ WholeChain(w, Q, e, Covered(cur))
<1>1. PICK c \in [0 .. MaxPool -> Seq(SymIndex)] : Part(c, cur, MaxPool) /\ Covered(cur) = c[MaxPool]
  BY CoveredIs
<1>2. MaxPool \in Nat /\ Len(w) \in Nat
  BY ScopeAssumption
<1> DEFINE X == OnChain(w, Q, e)
           S == {k \in 0 .. MaxPool : c[k] \in Seq(X) /\ Ahead(w, Q, e, k, Onward(c[k], cur))}
<1>3. 0 \in S
  <2>1. c[0] = << >> /\ Onward(c[0], cur) = cur /\ 0 \in 0 .. MaxPool
    BY <1>1, <1>2 DEF Part, Onward
  <2>2. Top(w, Q, e, 0, Len(w), cur)
    BY DEF LinkedBy
  <2>3. Ahead(w, Q, e, 0, cur)
    BY <1>2, <2>2, AheadOf
  <2>4. << >> \in Seq(X)
    OBVIOUS
  <2> QED
    BY <2>1, <2>3, <2>4
<1>4. ASSUME NEW k \in 0 .. MaxPool, k \in S, k < MaxPool PROVE k + 1 \in S
  <2>1. k \in Nat /\ k + 1 \in 1 .. MaxPool /\ k + 1 - 1 = k /\ k + 1 \in 0 .. MaxPool
    BY <1>2, <1>4
  <2>2. c[k + 1] = Extended(c[k], cur)
    BY <1>1, <2>1 DEF Part
  <2>3. e # 0 => pool[e].prev_tok = 0
    BY DEF Rooted
  <2>4. c[k] \in Seq(X) /\ Ahead(w, Q, e, k, Onward(c[k], cur))
    BY <1>4
  <2>5. Extended(c[k], cur) \in Seq(X) /\ Ahead(w, Q, e, k + 1, Onward(Extended(c[k], cur), cur))
    BY <2>1, <2>3, <2>4, StepsAhead
  <2> QED
    BY <2>1, <2>2, <2>5
<1>5. c[MaxPool] \in Seq(X) /\ Ahead(w, Q, e, MaxPool, Onward(c[MaxPool], cur))
  <2> HIDE DEF S
  <2>1. \A k \in 0 .. MaxPool : k \in S
    BY <1>2, <1>3, <1>4, UpTo
  <2>2. MaxPool \in S
    BY <2>1, <1>2
  <2> QED
    BY <2>2 DEF S
<1>6. Onward(c[MaxPool], cur) = 0
  <2>1. Len(w) <= MaxPool
    BY StackRoom DEF Held
  <2>2. e # 0 => Len(w) < MaxPool
    <3>1. e # 0 => e \in SymIndex /\ \A p \in 1 .. Len(w) : w[p] # e
      BY <1>2 DEF Rooted, SymIndex
    <3> QED
      BY <3>1, StackRoom DEF Held
  <2>3. \A q \in Q : ~ (MaxPool + q <= Len(w))
    BY <1>2, <2>1
  <2> QED
    BY <1>2, <1>5, <2>2, <2>3 DEF Ahead
<1>7. WholeChain(w, Q, e, c[MaxPool])
  BY <1>5, <1>6, ChainEnds
<1> QED
  BY <1>1, <1>2, <1>7
-----------------------------------------------------------------------------
\* Where the scopes of E end on the stack w, given the marks M of the block scopes.
BasesOf(w, E, M) ==
  [j \in 1 .. Len(E) |->
     IF j = Len(E) THEN Len(w) ELSE IF j = 1 THEN 0 ELSE M[j - 1]]

\* Pool, stack and token table agree with the scopes: the invariant's main part.
Sound(P, w, E, M, kp, vis) ==
  /\ Frame(P, w, BasesOf(w, E, M), E)
  /\ Held(P, w)
  /\ vis \in [Ident -> 0 .. MaxPool]
  /\ \A v \in Ident : Rooted(P, w, E[1][v], v)
  /\ \A v \in Ident : Chain(P, w, BasesOf(w, E, M), E, kp, v, vis[v])

\* The symbol that a name leads to is that of the innermost scope declaring it;
\* only file scope symbols can be lost, after a statement expression.
LEMMA Lookup ==
  ASSUME NEW P, NEW w, NEW B, NEW E, Frame(P, w, B, E), NEW kp \in BOOLEAN,
         NEW v \in Ident, NEW cur, Chain(P, w, B, E, kp, v, cur)
  PROVE  \/ \E k \in 2 .. Len(E) :
              /\ cur = E[k][v] /\ cur # 0 /\ P[cur].scope = ScopeNo(k)
              /\ \A j \in k + 1 .. Len(E) : E[j][v] = 0
         \/ /\ \A k \in 2 .. Len(E) : E[k][v] = 0
            /\ cur = E[1][v] \/ (kp /\ cur = 0)
<1> DEFINE L == Len(E) n == Len(w)
<1>1. PICK Q \in SUBSET (1 .. n), e \in 0 .. MaxPool, f \in [1 .. L -> 0 .. MaxPool] :
        Chained(P, w, B, E, kp, v, cur, Q, e, f)
  BY DEF Chain
<1>2. /\ L \in Nat /\ L >= 1 /\ n \in Nat /\ B[1] = 0 /\ B[L] = n
      /\ \A j \in 1 .. L : B[j] \in 0 .. n /\ B[j] \in Nat
      /\ \A i, j \in 1 .. L : i <= j => B[i] <= B[j]
  BY FrameBases
<1>3. \A p \in 1 .. n : w[p] # 0
  BY FrameCells
<1> HIDE DEF L, n
<1>4. LinkedBy(P, w, v, cur, Q, e) /\ InScope(P, w, B, E, kp, v, Q, e)
  BY <1>1 DEF Chained
<1>5. \A k \in 2 .. L : Declares(P, w, Q, B[k - 1], B[k], k, E[k][v])
  BY <1>4 DEF InScope, L
<1>6. Top(w, Q, e, 0, n, cur)
  BY <1>4 DEF LinkedBy, n
<1>7. CASE (\A r \in Q : ~ (0 < r /\ r <= n)) /\ cur = e
  <2>1. Q = {}
    BY <1>2, <1>7
  <2>2. \A k \in 2 .. L : E[k][v] = 0
    BY <2>1, <1>5 DEF Declares, Top
  <2>3. e = E[1][v] \/ (kp /\ e = 0)
    BY <1>4 DEF InScope
  <2> QED
    BY <2>2, <2>3, <1>7 DEF L
<1>8. CASE \E r \in Q : 0 < r /\ r <= n /\ (\A s \in Q : s <= n => s <= r) /\ cur = w[r]
  <2>1. PICK q \in Q : (\A s \in Q : s <= n => s <= q) /\ cur = w[q]
    BY <1>8
  <2>2. q \in 1 .. n /\ cur # 0 /\ \A s \in Q : s <= q
    BY <2>1, <1>2, <1>3
  <2> DEFINE I == {j \in 1 .. L : q <= B[j]}
             k == Min(I)
  <2>3. L \in I /\ I \subseteq Nat
    BY <2>2, <1>2
  <2>4. k \in I /\ \A y \in I : k <= y
    BY <2>3, FirstOf
  <2> HIDE DEF k
  <2>5. k \in 2 .. L /\ q <= B[k] /\ k - 1 \in 1 .. L
    BY <2>2, <2>4, <1>2
  <2>6. B[k - 1] < q
    BY <2>2, <2>4, <2>5, <1>2
  <2>7. Top(w, Q, 0, B[k - 1], B[k], E[k][v])
        /\ \A p \in Q : B[k - 1] < p /\ p <= B[k] => P[w[p]].scope = ScopeNo(k)
    BY <2>5, <1>5 DEF Declares
  <2>8. P[cur].scope = ScopeNo(k)
    BY <2>1, <2>5, <2>6, <2>7
  <2>9. E[k][v] = cur
    <3>1. PICK r \in Q : (\A s \in Q : s <= B[k] => s <= r) /\ E[k][v] = w[r]
      BY <2>5, <2>6, <2>7 DEF Top
    <3>2. r = q
      <4>1. q <= r
        BY <3>1, <2>5
      <4>2. r <= q /\ r \in Nat /\ q \in Nat
        BY <2>2
      <4> QED
        BY <4>1, <4>2
    <3> QED
      BY <3>1, <3>2, <2>1
  <2>10. ASSUME NEW j \in k + 1 .. L PROVE E[j][v] = 0
    <3>1. j \in 2 .. L /\ j - 1 \in 1 .. L /\ k \in 1 .. L /\ k <= j - 1
      BY <2>5, <1>2
    <3>2. B[k] <= B[j - 1] /\ B[k] \in Nat /\ B[j - 1] \in Nat
      BY <3>1, <1>2
    <3>3. \A r \in Q : ~ (B[j - 1] < r)
      BY <3>2, <2>2, <2>5
    <3>4. Declares(P, w, Q, B[j - 1], B[j], j, E[j][v])
      BY <3>1, <1>5
    <3> QED
      BY <3>3, <3>4 DEF Declares, Top
  <2> QED
    BY <2>2, <2>5, <2>8, <2>9, <2>10 DEF L
<1> QED
  BY <1>6, <1>7, <1>8 DEF Top

\* A scope begins.
LEMMA OpenSound ==
  ASSUME NEW P, NEW w, NEW E, NEW M, NEW kp, NEW vis, Sound(P, w, E, M, kp, vis),
         NEW E2, E2 \in Seq([Ident -> 0 .. MaxPool]), NEW M2,
         Opened(E, BasesOf(w, E, M), Len(w), E2, BasesOf(w, E2, M2))
  PROVE  Sound(P, w, E2, M2, kp, vis)
<1> DEFINE B == BasesOf(w, E, M)  C == BasesOf(w, E2, M2)  L == Len(E)
<1>1. /\ Frame(P, w, B, E) /\ Held(P, w) /\ vis \in [Ident -> 0 .. MaxPool]
      /\ \A v \in Ident : Rooted(P, w, E[1][v], v)
      /\ \A v \in Ident : Chain(P, w, B, E, kp, v, vis[v])
  BY DEF Sound
<1>2. /\ L \in Nat /\ L >= 1 /\ Len(w) \in Nat /\ B[1] = 0 /\ B[L] = Len(w)
      /\ \A j \in 1 .. L : B[j] \in 0 .. Len(w) /\ B[j] \in Nat
      /\ \A i, j \in 1 .. L : i <= j => B[i] <= B[j]
  BY <1>1, FrameBases
<1>3. DOMAIN C = 1 .. Len(E2)
  BY DEF BasesOf
<1>6. C = [j \in 1 .. Len(E2) |-> C[j]]
  BY DEF BasesOf
<1> HIDE DEF B, C, L
<1>4. /\ Len(E2) = L + 1 /\ (\A k \in 1 .. L : C[k] = B[k]) /\ C[L + 1] = Len(w)
      /\ E2[1] = E[1] /\ Opened(E, B, Len(w), E2, C)
  BY <1>2 DEF Opened, B, C, L
<1>5. Frame(P, w, C, E2)
  <2>1. \A j \in 1 .. Len(E2) : C[j] \in 0 .. Len(w)
    <3> TAKE j \in 1 .. Len(E2)
    <3>1. j \in 1 .. L \/ j = L + 1
      BY <1>2, <1>4
    <3>2. CASE j \in 1 .. L
      <4>1. C[j] = B[j]
        BY <3>2, <1>4
      <4> QED
        BY <3>2, <4>1, <1>2
    <3>3. CASE j = L + 1
      <4>1. Len(w) \in 0 .. Len(w)
        BY <1>2
      <4>2. C[j] = Len(w)
        BY <3>3, <1>4
      <4> QED
        BY <4>1, <4>2
    <3> QED
      BY <3>1, <3>2, <3>3
  <2>2. C \in [1 .. Len(E2) -> 0 .. Len(w)]
    BY <1>6, <2>1
  <2>3. ASSUME NEW i \in 1 .. Len(E2), NEW j \in 1 .. Len(E2), i <= j PROVE C[i] <= C[j]
    <3>1. CASE j = L + 1
      BY <3>1, <2>1, <1>2, <1>4
    <3>2. CASE j # L + 1
      BY <3>2, <2>3, <1>2, <1>4
    <3> QED
      BY <3>1, <3>2
  <2> QED
    BY <2>2, <2>3, <1>1, <1>2, <1>4 DEF Frame
<1>7. \A v \in Ident : Chain(P, w, C, E2, kp, v, vis[v])
  BY <1>1, <1>4, OpenChain
<1> QED
  BY <1>1, <1>4, <1>5, <1>7 DEF Sound, C

\* One entry of one scope's map changes.
LEMMA EntryChanged ==
  ASSUME NEW E \in Seq([Ident -> 0 .. MaxPool]), NEW i \in 1 .. Len(E), NEW v \in Ident,
         NEW s \in 0 .. MaxPool
  PROVE  LET F == [E EXCEPT ![i][v] = s] IN
         /\ F \in Seq([Ident -> 0 .. MaxPool]) /\ Len(F) = Len(E)
         /\ \A k \in 1 .. Len(E) : \A u \in Ident :
              F[k][u] = IF k = i /\ u = v THEN s ELSE E[k][u]
<1> DEFINE m == [E[i] EXCEPT ![v] = s]
           F == [E EXCEPT ![i] = m]
<1>1. E[i] \in [Ident -> 0 .. MaxPool]
  OBVIOUS
<1>2. m \in [Ident -> 0 .. MaxPool] /\ \A u \in Ident : m[u] = IF u = v THEN s ELSE E[i][u]
  BY <1>1
<1> HIDE DEF m
<1>3. F \in Seq([Ident -> 0 .. MaxPool]) /\ Len(F) = Len(E)
      /\ \A k \in 1 .. Len(E) : F[k] = IF k = i THEN m ELSE E[k]
  BY <1>2, ExceptSeq
<1> HIDE DEF F
<1>4. \A k \in 1 .. Len(E) : \A u \in Ident :
        F[k][u] = IF k = i /\ u = v THEN s ELSE E[k][u]
  BY <1>2, <1>3
<1>5. F = [E EXCEPT ![i][v] = s]
  BY DEF F, m
<1> QED
  BY <1>3, <1>4, <1>5

\* A free Sym is on no stack and in no chain.
LEMMA FreeIsNowhere ==
  ASSUME NEW P, NEW w, NEW E, NEW M, NEW kp, NEW vis, Sound(P, w, E, M, kp, vis),
         NEW s \in SymIndex, ~ P[s].live
  PROVE  /\ \A p \in 1 .. Len(w) : w[p] # s
         /\ \A u \in Ident : E[1][u] # 0 => E[1][u] # s
BY DEF Sound, Held, Rooted

\* The stack after a push.
LEMMA AppendIs ==
  ASSUME NEW S, NEW w \in Seq(S), NEW s \in S
  PROVE  /\ Append(w, s) \in Seq(S) /\ Len(Append(w, s)) = Len(w) + 1
         /\ Append(w, s)[Len(w) + 1] = s
         /\ \A p \in 1 .. Len(w) : Append(w, s)[p] = w[p]
OBVIOUS

\* The new Sym s of v in scope number sc, and nothing else, changes.
Links(P, vis, v, s, sc, P2, vis2) ==
  /\ P2 \in [SymIndex -> Syms] /\ \A i \in SymIndex : i # s => P2[i] = P[i]
  /\ P2[s].v = v /\ P2[s].scope = sc /\ P2[s].prev_tok = vis[v] /\ P2[s].live
  /\ vis2 \in [Ident -> 0 .. MaxPool] /\ vis2[v] = s
  /\ \A u \in Ident : u # v => vis2[u] = vis[u]

\* sym_link() does that.
LEMMA LinkedIs ==
  ASSUME NEW P \in [SymIndex -> Syms], NEW vis \in [Ident -> 0 .. MaxPool], NEW v \in Ident,
         NEW s \in SymIndex, NEW sc \in Nat
  PROVE  Links(P, vis, v, s, sc,
               [P EXCEPT ![s] = [v |-> v, scope |-> sc, prev_tok |-> vis[v], live |-> TRUE]],
               [vis EXCEPT ![v] = s])
<1> DEFINE c == [v |-> v, scope |-> sc, prev_tok |-> vis[v], live |-> TRUE]
<1>1. c \in Syms /\ c.v = v /\ c.scope = sc /\ c.prev_tok = vis[v] /\ c.live
  BY DEF Syms
<1>2. s \in 0 .. MaxPool
  BY ScopeAssumption DEF SymIndex
<1> HIDE DEF c
<1>3. /\ [P EXCEPT ![s] = c] \in [SymIndex -> Syms] /\ [P EXCEPT ![s] = c][s] = c
      /\ \A i \in SymIndex : i # s => [P EXCEPT ![s] = c][i] = P[i]
  BY <1>1
<1>4. Links(P, vis, v, s, sc, [P EXCEPT ![s] = c], [vis EXCEPT ![v] = s])
  BY <1>1, <1>2, <1>3 DEF Links
<1> QED
  BY <1>4 DEF c

\* A Sym is pushed in the innermost scope, at least that of the parameters.
LEMMA PushSound ==
  ASSUME NEW P, NEW w, NEW E, NEW M, NEW kp, NEW vis, Sound(P, w, E, M, kp, vis),
         Len(E) >= 2, NEW v \in Ident, NEW s \in SymIndex, ~ P[s].live,
         NEW P2, NEW vis2, Links(P, vis, v, s, ScopeNo(Len(E)), P2, vis2)
  PROVE  Sound(P2, Append(w, s), [E EXCEPT ![Len(E)][v] = s], M, kp, vis2)
<1> DEFINE L == Len(E)  x == Append(w, s)  F == [E EXCEPT ![L][v] = s]
           B == BasesOf(w, E, M)  C == BasesOf(x, F, M)
<1>1. /\ Frame(P, w, B, E) /\ Held(P, w) /\ vis \in [Ident -> 0 .. MaxPool]
      /\ \A u \in Ident : Rooted(P, w, E[1][u], u)
      /\ \A u \in Ident : Chain(P, w, B, E, kp, u, vis[u])
  BY DEF Sound
<1>2. /\ L \in Nat /\ L >= 2 /\ Len(w) \in Nat /\ B[1] = 0 /\ B[L] = Len(w)
      /\ \A j \in 1 .. L : B[j] \in 0 .. Len(w) /\ B[j] \in Nat
      /\ \A i, j \in 1 .. L : i <= j => B[i] <= B[j]
  BY <1>1, FrameBases
<1>3. w \in Seq(SymIndex) /\ E \in Seq([Ident -> 0 .. MaxPool]) /\ s \in 0 .. MaxPool /\ s # 0
      /\ s \in SymIndex /\ L \in 1 .. Len(E)
  BY <1>1, <1>2, ScopeAssumption DEF Frame, SymIndex
<1>4. /\ F \in Seq([Ident -> 0 .. MaxPool]) /\ Len(F) = L
      /\ \A k \in 1 .. L : \A u \in Ident : F[k][u] = IF k = L /\ u = v THEN s ELSE E[k][u]
  BY <1>3, EntryChanged
<1>5. /\ x \in Seq(SymIndex) /\ Len(x) = Len(w) + 1 /\ x[Len(w) + 1] = s
      /\ \A p \in 1 .. Len(w) : x[p] = w[p]
  BY <1>3, AppendIs
<1> HIDE DEF x, F
<1>6. /\ C = [j \in 1 .. L |-> C[j]] /\ C[L] = Len(w) + 1
      /\ \A j \in 1 .. L - 1 : C[j] = B[j]
  BY <1>2, <1>4, <1>5 DEF BasesOf
<1> HIDE DEF B, C, L
<1>7. /\ \A p \in 1 .. Len(w) : w[p] # s /\ P2[w[p]] = P[w[p]]
      /\ \A u \in Ident : E[1][u] # 0 => E[1][u] # s /\ E[1][u] \in SymIndex
  <2>1. /\ \A p \in 1 .. Len(w) : w[p] # s
        /\ \A u \in Ident : E[1][u] # 0 => E[1][u] # s
    BY FreeIsNowhere
  <2>2. \A p \in 1 .. Len(w) : w[p] \in SymIndex
    BY <1>3
  <2>3. \A u \in Ident : E[1][u] \in 0 .. MaxPool
    BY <1>2, <1>3 DEF L
  <2> QED
    BY <2>1, <2>2, <2>3, ScopeAssumption DEF Links, SymIndex
<1>8. Frame(P2, x, C, F)
  <2>1. \A j \in 1 .. L : C[j] \in 0 .. Len(x)
    <3> TAKE j \in 1 .. L
    <3>1. CASE j = L
      BY <3>1, <1>2, <1>5, <1>6
    <3>2. CASE j # L
      <4>0. j \in 1 .. L - 1
        BY <3>2, <1>2
      <4>1. C[j] = B[j] /\ B[j] \in 0 .. Len(w)
        BY <4>0, <1>2, <1>6
      <4> QED
        BY <4>1, <1>2, <1>5
    <3> QED
      BY <3>1, <3>2
  <2>2. C \in [1 .. L -> 0 .. Len(x)]
    BY <1>6, <2>1
  <2>3. ASSUME NEW i \in 1 .. L, NEW j \in 1 .. L, i <= j PROVE C[i] <= C[j]
    <3>1. CASE j = L
      BY <3>1, <2>1, <1>2, <1>5, <1>6
    <3>2. CASE j # L
      <4>0. j \in 1 .. L - 1 /\ i \in 1 .. L - 1
        BY <3>2, <2>3, <1>2
      <4>1. C[j] = B[j] /\ C[i] = B[i]
        BY <4>0, <1>6
      <4> QED
        BY <4>1, <2>3, <1>2
    <3> QED
      BY <3>1, <3>2
  <2>4. 1 \in 1 .. L - 1
    BY <1>2
  <2>5. C[1] = 0 /\ C[Len(F)] = Len(x)
    BY <2>4, <1>2, <1>4, <1>5, <1>6
  <2> QED
    BY <2>2, <2>3, <2>5, <1>2, <1>4, <1>5 DEF Frame, Links
<1>9. Held(P2, x)
  <2>1. \A p \in 1 .. Len(x) : p = Len(w) + 1 \/ p \in 1 .. Len(w)
    BY <1>2, <1>5
  <2>2. P2[s].live /\ P2[s].scope > 0
    BY <1>2 DEF Links, ScopeNo, L
  <2>3. ASSUME NEW p \in 1 .. Len(x) PROVE P2[x[p]].live /\ P2[x[p]].scope > 0
    BY <2>1, <2>2, <1>1, <1>5, <1>7 DEF Held
  <2>4. ASSUME NEW p \in 1 .. Len(x), NEW r \in 1 .. Len(x), x[p] = x[r] PROVE p = r
    BY <2>1, <2>4, <1>1, <1>5, <1>7 DEF Held
  <2> QED
    BY <2>3, <2>4 DEF Held
<1>10. ASSUME NEW u \in Ident PROVE Rooted(P2, x, F[1][u], u)
  <2>1. F[1][u] = E[1][u]
    BY <1>2, <1>4
  <2>2. Rooted(P, w, E[1][u], u)
    BY <1>1
  <2>3. E[1][u] # 0 => P2[E[1][u]] = P[E[1][u]] /\ E[1][u] # s
    BY <1>7 DEF Links
  <2>4. \A p \in 1 .. Len(x) : p = Len(w) + 1 \/ p \in 1 .. Len(w)
    BY <1>2, <1>5
  <2> QED
    BY <2>1, <2>2, <2>3, <2>4, <1>5 DEF Rooted
<1>11. ASSUME NEW u \in Ident PROVE Chain(P2, x, C, F, kp, u, vis2[u])
  <2>1. Chain(P, w, B, E, kp, u, vis[u])
    BY <1>1
  <2>2. CASE u = v
    <3>1. Pushed(P, w, B, E, v, vis[v], s, P2, x, C, F)
      BY <1>4, <1>5, <1>6, <1>7 DEF Pushed, Links, L
    <3>2. Chain(P2, x, C, F, kp, v, s)
      BY <2>1, <2>2, <3>1, <1>1, PushChain
    <3> QED
      BY <2>2, <3>2 DEF Links
  <2>3. CASE u # v
    <3>1. PushedOther(P, w, B, E, u, s, P2, x, C, F)
      BY ZenonT(40), <2>3, <1>4, <1>5, <1>6, <1>7 DEF PushedOther, Links, L
    <3>2. Chain(P2, x, C, F, kp, u, vis[u])
      BY <2>1, <3>1, <1>1, PushOther
    <3> QED
      BY <2>3, <3>2 DEF Links
  <2> QED
    BY <2>2, <2>3
<1>12. vis2 \in [Ident -> 0 .. MaxPool]
  BY DEF Links
<1>13. Sound(P2, x, F, M, kp, vis2)
  BY <1>8, <1>9, <1>10, <1>11, <1>12 DEF Sound, C
<1> QED
  BY <1>13 DEF x, F, L
-----------------------------------------------------------------------------
\* The outermost map has another entry for v, which changes no base.
OuterSet(w, E, M, v, g, F) ==
  /\ F \in Seq([Ident -> 0 .. MaxPool]) /\ Len(F) = Len(E)
  /\ Known(E, v, g, F)
  /\ \A u \in Ident : u # v => Known(E, u, E[1][u], F)
  /\ BasesOf(w, F, M) = BasesOf(w, E, M)

\* A declaration of file scope changes one entry of the outermost scope only.
LEMMA OuterChanged ==
  ASSUME NEW P, NEW w, NEW E, NEW M, Frame(P, w, BasesOf(w, E, M), E), NEW v \in Ident,
         NEW g \in SymIndex
  PROVE  OuterSet(w, E, M, v, g, [E EXCEPT ![1][v] = g])
<1> DEFINE F == [E EXCEPT ![1][v] = g]
<1>1. /\ Len(E) \in Nat /\ Len(E) >= 1 /\ 1 \in 1 .. Len(E)
      /\ E \in Seq([Ident -> 0 .. MaxPool]) /\ g \in 0 .. MaxPool
  BY FrameBases, ScopeAssumption DEF Frame, SymIndex
<1>2. /\ F \in Seq([Ident -> 0 .. MaxPool]) /\ Len(F) = Len(E)
      /\ \A k \in 1 .. Len(E) : \A u \in Ident :
           F[k][u] = IF k = 1 /\ u = v THEN g ELSE E[k][u]
  BY <1>1, EntryChanged
<1> HIDE DEF F
<1>3. \A k \in 2 .. Len(E) : k \in 1 .. Len(E) /\ k # 1
  BY <1>1
<1>4. Known(E, v, g, F)
  BY <1>1, <1>2, <1>3 DEF Known
<1>5. \A u \in Ident : u # v => Known(E, u, E[1][u], F)
  BY <1>1, <1>2, <1>3 DEF Known
<1>6. BasesOf(w, F, M) = BasesOf(w, E, M)
  BY <1>2 DEF BasesOf
<1>7. OuterSet(w, E, M, v, g, F)
  BY <1>2, <1>4, <1>5, <1>6 DEF OuterSet
<1> QED
  BY <1>7 DEF F

\* The same frame around a pool whose Syms have changed.
LEMMA SameFrame ==
  ASSUME NEW P, NEW w, NEW B, NEW E, Frame(P, w, B, E), NEW P2 \in [SymIndex -> Syms],
         NEW F \in Seq([Ident -> 0 .. MaxPool]), Len(F) = Len(E)
  PROVE  Frame(P2, w, B, F)
BY DEF Frame

\* A name without any symbol gets one at file scope, on top.
LEMMA UnderNoneSound ==
  ASSUME NEW P, NEW w, NEW E, NEW M, NEW kp \in BOOLEAN, NEW vis, Sound(P, w, E, M, kp, vis),
         NEW v \in Ident, vis[v] = 0, NEW g \in SymIndex, ~ P[g].live,
         NEW P2, NEW vis2, Links(P, vis, v, g, 0, P2, vis2)
  PROVE  Sound(P2, w, [E EXCEPT ![1][v] = g], M, kp, vis2)
<1> DEFINE F == [E EXCEPT ![1][v] = g]  B == BasesOf(w, E, M)
<1>1. /\ Frame(P, w, B, E) /\ Held(P, w) /\ vis \in [Ident -> 0 .. MaxPool]
      /\ \A u \in Ident : Rooted(P, w, E[1][u], u)
      /\ \A u \in Ident : Chain(P, w, B, E, kp, u, vis[u])
  BY DEF Sound
<1>0. OuterSet(w, E, M, v, g, F)
  BY <1>1, OuterChanged
<1> HIDE DEF F, B
<1>2. /\ F \in Seq([Ident -> 0 .. MaxPool]) /\ Len(F) = Len(E)
      /\ Known(E, v, g, F) /\ \A u \in Ident : u # v => Known(E, u, E[1][u], F)
  BY <1>0 DEF OuterSet
<1>20. BasesOf(w, F, M) = B
  BY <1>0 DEF OuterSet, B
<1>3. /\ \A p \in 1 .. Len(w) : w[p] # g /\ P2[w[p]] = P[w[p]]
      /\ \A u \in Ident : E[1][u] # 0 => E[1][u] # g /\ P2[E[1][u]] = P[E[1][u]]
  <2>1. /\ \A p \in 1 .. Len(w) : w[p] # g
        /\ \A u \in Ident : E[1][u] # 0 => E[1][u] # g
    BY FreeIsNowhere
  <2>2. \A p \in 1 .. Len(w) : w[p] \in SymIndex
    BY <1>1, FrameCells
  <2>3. \A u \in Ident : E[1][u] \in 0 .. MaxPool
    BY <1>1 DEF Frame
  <2> QED
    BY <2>1, <2>2, <2>3, ScopeAssumption DEF Links, SymIndex
<1>4. Frame(P2, w, B, F)
  BY <1>1, <1>2, SameFrame DEF Links
<1>5. Held(P2, w)
  BY <1>1, <1>3 DEF Held
<1>6. ASSUME NEW u \in Ident PROVE Rooted(P2, w, F[1][u], u)
  <2>1. CASE u = v
    <3>1. F[1][u] = g
      BY <2>1, <1>2 DEF Known
    <3>2. Rooted(P2, w, g, v)
      BY <1>3 DEF Rooted, Links
    <3> QED
      BY <2>1, <3>1, <3>2
  <2>2. CASE u # v
    <3>1. F[1][u] = E[1][u]
      BY <2>2, <1>2 DEF Known
    <3> QED
      BY <3>1, <1>1, <1>3 DEF Rooted
  <2> QED
    BY <2>1, <2>2
<1>7. ASSUME NEW u \in Ident PROVE Chain(P2, w, B, F, kp, u, vis2[u])
  <2>1. Chain(P, w, B, E, kp, u, vis[u])
    BY <1>1
  <2>2. CASE u = v
    <3>1. Chain(P, w, B, E, kp, v, 0)
      BY <2>1, <2>2
    <3>2. Untouched(P, w, P2)
      BY <1>3 DEF Untouched
    <3>4. Frame(P, w, B, E) /\ Known(E, v, g, F)
      BY <1>1, <1>2
    <3>3. Chain(P2, w, B, F, kp, v, g)
      BY <3>1, <3>2, <3>4, UnderNone
    <3> QED
      BY <2>2, <3>3 DEF Links
  <2>3. CASE u # v
    <3>1. Chain(P2, w, B, F, kp, u, vis[u])
      BY <2>1, <2>3, <1>1, <1>2, <1>3, UnderOther
    <3> QED
      BY <2>3, <3>1 DEF Links
  <2> QED
    BY <2>2, <2>3
<1>8. vis2 \in [Ident -> 0 .. MaxPool]
  BY DEF Links
<1>9. Sound(P2, w, F, M, kp, vis2)
  BY <1>20, <1>4, <1>5, <1>6, <1>7, <1>8 DEF Sound
<1> QED
  BY <1>9 DEF F

\* external_sym() finds the file scope symbol that the chain of the name ends in.
LEMMA GlobalIs ==
  ASSUME pool \in [SymIndex -> Syms], NEW w \in Seq(SymIndex), NEW v \in Ident,
         visible[v] \in 0 .. MaxPool,
         NEW Q \in SUBSET (1 .. Len(w)), NEW e \in 0 .. MaxPool,
         LinkedBy(pool, w, v, visible[v], Q, e), Held(pool, w), Rooted(pool, w, e, v)
  PROVE  GlobalOf(v) = e
<1> DEFINE s == Covered(visible[v])
           I == {k \in 1 .. Len(s) : pool[s[k]].scope = 0}
<1>1. s \in Seq(SymIndex) /\ WholeChain(w, Q, e, s)
  BY CoveredWhole
<1>2. Outside(visible[v]) = IF I # {} THEN Min(I) ELSE 0
  BY DEF Outside, SelectInSeq
<1> HIDE DEF s
<1>3. Len(s) \in Nat /\ I \subseteq Nat
  BY <1>1
<1>4. \A k \in I : k # 0 /\ e # 0 /\ s[k] = e
  <2>1. \A k \in 1 .. Len(s) : (e # 0 /\ s[k] = e) \/ \E q \in Q : s[k] = w[q]
    BY <1>1 DEF WholeChain
  <2>2. \A q \in Q : ~ (pool[w[q]].scope = 0)
    <3> TAKE q \in Q
    <3>1. w[q] \in SymIndex /\ pool[w[q]].scope > 0
      BY DEF Held
    <3> QED
      BY <3>1 DEF Syms
  <2> QED
    BY <2>1, <2>2, <1>3
<1>5. CASE e = 0
  <2>1. I = {}
    BY <1>4, <1>5
  <2> QED
    BY <2>1, <1>2, <1>5 DEF GlobalOf
<1>6. CASE e # 0
  <2>1. PICK k \in 1 .. Len(s) : s[k] = e
    BY <1>1, <1>6 DEF WholeChain
  <2>2. k \in I
    BY <2>1, <1>6 DEF Rooted
  <2> DEFINE m == Min(I)
  <2>3. m \in I
    BY <2>2, <1>3, FirstOf
  <2>4. Outside(visible[v]) = m
    BY <2>2, <1>2
  <2> HIDE DEF m, I
  <2>5. Outside(visible[v]) # 0 /\ s[Outside(visible[v])] = e
    BY <2>3, <2>4, <1>4
  <2> QED
    BY <2>5 DEF GlobalOf, s
<1> QED
  BY <1>5, <1>6

\* A new file scope Sym g of v goes under c, the lowest of its name.
Slips(P, v, g, c, P2) ==
  /\ P2 \in [SymIndex -> Syms]
  /\ \A i \in SymIndex : i # g /\ i # c => P2[i] = P[i]
  /\ P2[g].v = v /\ P2[g].scope = 0 /\ P2[g].prev_tok = 0 /\ P2[g].live
  /\ P2[c].v = P[c].v /\ P2[c].scope = P[c].scope /\ P2[c].live = P[c].live
  /\ P2[c].prev_tok = g

\* The lowest Sym of a name without a file scope symbol is the one that the walk of
\* global_identifier_push() stops at.
LEMMA LowestLocal ==
  ASSUME NEW w, NEW E, NEW M, NEW kp \in BOOLEAN, Sound(pool, w, E, M, kp, visible),
         NEW v \in Ident, visible[v] # 0, GlobalOf(v) = 0
  PROVE  \E Q \in SUBSET (1 .. Len(w)), f \in [1 .. Len(E) -> 0 .. MaxPool] : \E m \in Q :
           /\ Chained(pool, w, BasesOf(w, E, M), E, kp, v, visible[v], Q, 0, f)
           /\ \A q \in Q : m <= q
           /\ Last(Covered(visible[v])) = w[m]
<1> DEFINE B == BasesOf(w, E, M)  P == pool  cur == visible[v]  c == Last(Covered(cur))
<1>1. /\ Frame(P, w, B, E) /\ Held(P, w) /\ visible \in [Ident -> 0 .. MaxPool]
      /\ \A u \in Ident : Rooted(P, w, E[1][u], u)
      /\ \A u \in Ident : Chain(P, w, B, E, kp, u, visible[u])
  BY DEF Sound
<1>3. P \in [SymIndex -> Syms] /\ w \in Seq(SymIndex) /\ cur \in 0 .. MaxPool
  BY <1>1 DEF Frame
<1> HIDE DEF B, P, c
<1>4. PICK Q \in SUBSET (1 .. Len(w)), e \in 0 .. MaxPool, f \in [1 .. Len(E) -> 0 .. MaxPool] :
        Chained(P, w, B, E, kp, v, cur, Q, e, f)
  BY <1>1 DEF Chain
<1>5. LinkedBy(P, w, v, cur, Q, e) /\ InScope(P, w, B, E, kp, v, Q, e)
  BY <1>4 DEF Chained
<1>6. Rooted(P, w, e, v)
  <2>1. e = E[1][v] \/ e = 0
    BY <1>5 DEF InScope
  <2>2. Rooted(P, w, 0, v)
    BY DEF Rooted
  <2> QED
    BY <2>1, <2>2, <1>1
<1>7. e = 0
  BY <1>1, <1>3, <1>5, <1>6, GlobalIs DEF P
<1>8. WholeChain(w, Q, e, Covered(cur))
  BY <1>1, <1>3, <1>5, <1>6, CoveredWhole DEF P
<1>9. Q # {}
  <2>1. Top(w, Q, e, 0, Len(w), cur)
    BY <1>5 DEF LinkedBy
  <2> QED
    BY <2>1, <1>7 DEF Top
<1> DEFINE m == Min(Q)
<1>10. m \in Q /\ \A q \in Q : m <= q
  <2>1. Q \subseteq Nat
    BY <1>3
  <2> QED
    BY <2>1, <1>9, FirstOf
<1> HIDE DEF m
<1>11. c = w[m] /\ m \in 1 .. Len(w)
  BY <1>7, <1>8, <1>10 DEF WholeChain, c
<1>12. Chained(P, w, B, E, kp, v, cur, Q, 0, f)
  BY <1>4, <1>7
<1> QED
  BY <1>10, <1>11, <1>12 DEF B, P, c

\* The lowest local Sym of a name without a file scope symbol covers the new one.
LEMMA UnderLocalsSound ==
  ASSUME NEW w, NEW E, NEW M, NEW kp \in BOOLEAN, Sound(pool, w, E, M, kp, visible),
         NEW v \in Ident, visible[v] # 0, GlobalOf(v) = 0, NEW g \in SymIndex, ~ pool[g].live,
         NEW P2, Slips(pool, v, g, Last(Covered(visible[v])), P2)
  PROVE  Sound(P2, w, [E EXCEPT ![1][v] = g], M, kp, visible)
<1> DEFINE F == [E EXCEPT ![1][v] = g]  B == BasesOf(w, E, M)  P == pool
           cur == visible[v]  c == Last(Covered(cur))
<1>1. /\ Frame(P, w, B, E) /\ Held(P, w) /\ visible \in [Ident -> 0 .. MaxPool]
      /\ \A u \in Ident : Rooted(P, w, E[1][u], u)
      /\ \A u \in Ident : Chain(P, w, B, E, kp, u, visible[u])
  BY DEF Sound
<1>0. OuterSet(w, E, M, v, g, F)
  BY <1>1, OuterChanged
<1> HIDE DEF F, B
<1>2. /\ F \in Seq([Ident -> 0 .. MaxPool]) /\ Len(F) = Len(E)
      /\ Known(E, v, g, F) /\ \A u \in Ident : u # v => Known(E, u, E[1][u], F)
  BY <1>0 DEF OuterSet
<1>20. BasesOf(w, F, M) = B
  BY <1>0 DEF OuterSet, B
<1>3. /\ P \in [SymIndex -> Syms] /\ w \in Seq(SymIndex) /\ cur \in 0 .. MaxPool
      /\ Slips(P, v, g, c, P2)
  BY <1>1 DEF Frame
<1> HIDE DEF P, c
<1>30. PICK Q \in SUBSET (1 .. Len(w)), f \in [1 .. Len(E) -> 0 .. MaxPool] : \E m \in Q :
         /\ Chained(P, w, B, E, kp, v, cur, Q, 0, f)
         /\ \A q \in Q : m <= q
         /\ c = w[m]
  BY LowestLocal DEF B, P, c
<1>4. PICK m \in Q :
        /\ Chained(P, w, B, E, kp, v, cur, Q, 0, f)
        /\ \A q \in Q : m <= q
        /\ c = w[m]
  BY <1>30
<1>5. LinkedBy(P, w, v, cur, Q, 0)
  BY <1>4 DEF Chained
<1>10. m \in Q /\ \A q \in Q : m <= q
  BY <1>4
<1>11. c = w[m] /\ m \in 1 .. Len(w)
  BY <1>4
<1>12. /\ \A p \in 1 .. Len(w) : w[p] # g /\ w[p] \in SymIndex
       /\ \A u \in Ident : E[1][u] # 0 => E[1][u] # g /\ E[1][u] # c /\ E[1][u] \in SymIndex
  <2>1. /\ \A p \in 1 .. Len(w) : w[p] # g
        /\ \A u \in Ident : E[1][u] # 0 => E[1][u] # g
    BY FreeIsNowhere DEF P
  <2>2. \A p \in 1 .. Len(w) : w[p] \in SymIndex
    BY <1>1, FrameCells
  <2>3. \A u \in Ident : E[1][u] \in 0 .. MaxPool
    BY <1>1 DEF Frame
  <2>4. \A u \in Ident : E[1][u] # 0 => E[1][u] # c
    BY <1>1, <1>11 DEF Rooted
  <2> QED
    BY <2>1, <2>2, <2>3, <2>4, ScopeAssumption DEF SymIndex
<1>13. \A p \in 1 .. Len(w) : p # m => P2[w[p]] = P[w[p]]
  <2> TAKE p \in 1 .. Len(w)
  <2> HAVE p # m
  <2>1. w[p] # c
    BY <1>1, <1>11 DEF Held
  <2> QED
    BY <2>1, <1>3, <1>12 DEF Slips
<1>14. /\ P2[w[m]].v = P[w[m]].v /\ P2[w[m]].scope = P[w[m]].scope
       /\ P2[w[m]].live = P[w[m]].live /\ P2[w[m]].prev_tok = g
  BY <1>3, <1>11 DEF Slips
<1>15. Frame(P2, w, B, F)
  BY <1>1, <1>2, <1>3, SameFrame DEF Slips
<1>16. Held(P2, w)
  <2>1. ASSUME NEW p \in 1 .. Len(w) PROVE P2[w[p]].live /\ P2[w[p]].scope > 0
    BY <1>1, <1>13, <1>14 DEF Held
  <2> QED
    BY <2>1, <1>1 DEF Held
<1>17. ASSUME NEW u \in Ident PROVE Rooted(P2, w, F[1][u], u)
  <2>1. CASE u = v
    <3>1. F[1][u] = g
      BY <2>1, <1>2 DEF Known
    <3>2. Rooted(P2, w, g, v)
      BY <1>3, <1>12 DEF Rooted, Slips
    <3> QED
      BY <2>1, <3>1, <3>2
  <2>2. CASE u # v
    <3>1. F[1][u] = E[1][u]
      BY <2>2, <1>2 DEF Known
    <3>2. E[1][u] # 0 => P2[E[1][u]] = P[E[1][u]]
      BY <1>3, <1>12 DEF Slips
    <3> QED
      BY <3>1, <3>2, <1>1 DEF Rooted
  <2> QED
    BY <2>1, <2>2
<1>18. ASSUME NEW u \in Ident PROVE Chain(P2, w, B, F, kp, u, visible[u])
  <2>1. CASE u = v
    <3>1. Slipped(P, w, m, g, P2)
      BY <1>13, <1>14 DEF Slipped
    <3>2. Chained(P, w, B, E, kp, v, cur, Q, 0, f)
      BY <1>4
    <3>3. Chain(P2, w, B, F, kp, v, cur)
      BY <3>1, <3>2, <1>1, <1>2, <1>10, UnderLocals
    <3> QED
      BY <2>1, <3>3
  <2>2. CASE u # v
    <3>1. P[w[m]].v = v
      BY <1>5, <1>10 DEF LinkedBy
    <3>2. \A p \in 1 .. Len(w) : P2[w[p]].v = P[w[p]].v
      BY <1>13, <1>14
    <3>3. \A p \in 1 .. Len(w) : P[w[p]].v = u => P2[w[p]] = P[w[p]]
      BY <2>2, <3>1, <1>13
    <3>4. Chain(P, w, B, E, kp, u, visible[u]) /\ Known(E, u, E[1][u], F)
      BY <2>2, <1>1, <1>2
    <3> QED
      BY <3>2, <3>3, <3>4, <1>1, UnderOther
  <2> QED
    BY <2>1, <2>2
<1>19. Sound(P2, w, F, M, kp, visible)
  BY <1>1, <1>20, <1>15, <1>16, <1>17, <1>18 DEF Sound
<1> QED
  BY <1>19 DEF F
-----------------------------------------------------------------------------
\* The Syms that sym_pop() takes off.
LEMMA PoppedIs ==
  ASSUME NEW w \in Seq(SymIndex), NEW b \in 0 .. Len(w)
  PROVE  /\ Len(Popped(w, b)) = Len(w) - b
         /\ \A k \in 1 .. Len(Popped(w, b)) : Popped(w, b)[k] = w[b + k]
<1> DEFINE gone == Popped(w, b)
<1>1. Len(w) \in Nat /\ b \in Nat /\ b <= Len(w)
  OBVIOUS
<1>2. \A i \in b + 1 .. Len(w) : w[i] \in SymIndex
  BY <1>1
<1>3. b + 1 \in Int /\ Len(w) \in Int
  BY <1>1
<1>4. /\ Len(gone) = IF b + 1 <= Len(w) THEN Len(w) - (b + 1) + 1 ELSE 0
      /\ \A k \in 1 .. Len(w) - (b + 1) + 1 : gone[k] = w[b + 1 + k - 1]
  BY <1>2, <1>3, SubSeqProperties DEF Popped
<1> HIDE DEF gone
<1>5. Len(gone) = Len(w) - b
  BY <1>1, <1>4
<1>6. \A k \in 1 .. Len(gone) : k \in 1 .. Len(w) - (b + 1) + 1 /\ b + 1 + k - 1 = b + k
  BY <1>1, <1>5
<1>7. \A k \in 1 .. Len(gone) : gone[k] = w[b + k]
  BY <1>4, <1>6
<1> QED
  BY <1>5, <1>7 DEF gone

\* What sym_pop() leaves visible of a name.
LEMMA UnlinkedIs ==
  ASSUME NEW w \in Seq(SymIndex), NEW b \in 0 .. Len(w), NEW tbl, NEW v \in Ident, NEW x,
         Restores(pool, w, v, tbl[v], b, x)
  PROVE  Unlinked(tbl, Popped(w, b))[v] = x
<1> DEFINE gone == Popped(w, b)
           I == {k \in 1 .. Len(gone) : pool[gone[k]].v = v}
           at == SelectInSeq(gone, LAMBDA s : pool[s].v = v)
<1>1. Len(w) \in Nat /\ b \in Nat /\ b <= Len(w)
  OBVIOUS
<1>2. /\ Len(gone) = Len(w) - b
      /\ \A k \in 1 .. Len(gone) : gone[k] = w[b + k]
  BY PoppedIs
<1>3. at = IF I # {} THEN Min(I) ELSE 0
  BY DEF SelectInSeq
<1>4. Unlinked(tbl, gone)[v] = IF at = 0 THEN tbl[v] ELSE pool[gone[at]].prev_tok
  BY DEF Unlinked
<1> HIDE DEF gone, at
<1>5. I \subseteq Nat /\ 0 \notin I
  BY <1>1, <1>2
<1>6. CASE \A s \in b + 1 .. Len(w) : pool[w[s]].v # v
  <2>1. x = tbl[v]
    BY <1>6 DEF Restores
  <2>2. \A k \in 1 .. Len(gone) : b + k \in b + 1 .. Len(w)
    BY <1>1, <1>2
  <2>3. I = {}
    BY <1>2, <1>6, <2>2
  <2> QED
    BY <1>3, <1>4, <2>1, <2>3 DEF gone
<1>7. CASE ~ \A s \in b + 1 .. Len(w) : pool[w[s]].v # v
  <2>1. PICK r \in b + 1 .. Len(w) :
          /\ pool[w[r]].v = v /\ x = pool[w[r]].prev_tok
          /\ \A s \in b + 1 .. Len(w) : pool[w[s]].v = v => r <= s
    BY <1>7 DEF Restores
  <2>2. r - b \in 1 .. Len(gone) /\ gone[r - b] = w[r]
    <3>1. r - b \in 1 .. Len(gone) /\ b + (r - b) = r
      BY <1>1, <1>2
    <3> QED
      BY <3>1, <1>2
  <2>3. r - b \in I
    BY <2>1, <2>2
  <2>4. Min(I) \in I /\ \A y \in I : Min(I) <= y
    BY <1>5, <2>3, FirstOf
  <2>5. at = Min(I)
    BY <1>3, <2>3
  <2> DEFINE k == Min(I)
  <2>6. k \in 1 .. Len(gone) /\ pool[gone[k]].v = v /\ gone[k] = w[b + k] /\ k <= r - b
    BY <2>3, <2>4, <1>2
  <2> HIDE DEF k
  <2>7. b + k \in b + 1 .. Len(w) /\ pool[w[b + k]].v = v
    BY <2>6, <1>1, <1>2
  <2>8. r <= b + k
    BY <2>1, <2>7
  <2>9. k = r - b
    BY <2>6, <2>8, <1>1
  <2>10. at = r - b /\ at # 0
    BY <2>5, <2>9, <2>2 DEF k
  <2> QED
    BY <2>1, <2>2, <2>10, <1>4 DEF gone
<1> QED
  BY <1>6, <1>7

\* sym_pop() changes only the Syms above b.
Spared(w, b, P2) ==
  /\ P2 \in [SymIndex -> Syms]
  /\ \A i \in SymIndex : (\A p \in 1 .. Len(w) : w[p] # i) => P2[i] = pool[i]

\* The scopes above number m end.
LEMMA CloseSound ==
  ASSUME NEW w, NEW E, NEW M, NEW kp \in BOOLEAN, Sound(pool, w, E, M, kp, visible),
         NEW m \in 1 .. Len(E) - 1, NEW b, b = BasesOf(w, E, M)[m], NEW n \in b .. Len(w),
         m = 1 => n = 0, NEW P2, Spared(w, b, P2), NEW w2 \in Seq(SymIndex),
         NEW E2 \in Seq([Ident -> 0 .. MaxPool]), NEW M2, NEW kp2 \in BOOLEAN,
         Closed(pool, w, BasesOf(w, E, M), E, kp, m, n, P2, w2, BasesOf(w2, E2, M2), E2, kp2)
  PROVE  Sound(P2, w2, E2, M2, kp2, Unlinked(visible, Popped(w, b)))
<1> DEFINE B == BasesOf(w, E, M)  C == BasesOf(w2, E2, M2)
           vis2 == Unlinked(visible, Popped(w, b))
<1>1. /\ Frame(pool, w, B, E) /\ Held(pool, w) /\ visible \in [Ident -> 0 .. MaxPool]
      /\ \A u \in Ident : Rooted(pool, w, E[1][u], u)
      /\ \A u \in Ident : Chain(pool, w, B, E, kp, u, visible[u])
  BY DEF Sound
<1>2. /\ Len(E) \in Nat /\ Len(E) >= 1 /\ Len(w) \in Nat /\ B[1] = 0 /\ B[Len(E)] = Len(w)
      /\ \A j \in 1 .. Len(E) : B[j] \in 0 .. Len(w) /\ B[j] \in Nat
      /\ \A i, j \in 1 .. Len(E) : i <= j => B[i] <= B[j]
  BY <1>1, FrameBases
<1>3. C = [j \in 1 .. Len(E2) |-> C[j]]
  BY DEF BasesOf
<1>4. b = B[m] /\ Closed(pool, w, B, E, kp, m, n, P2, w2, C, E2, kp2)
  OBVIOUS
<1> HIDE DEF B, C
<1>5. /\ Len(E2) = m /\ \A k \in 1 .. m : E2[k] = E[k]
      /\ C[m] = n /\ \A j \in 1 .. m - 1 : C[j] = B[j]
      /\ Len(w2) = n /\ \A p \in 1 .. n : w2[p] = w[p] /\ P2[w[p]] = pool[w[p]]
  BY <1>4 DEF Closed
<1>6. /\ m \in Nat /\ m >= 1 /\ m \in 1 .. Len(E) /\ b \in Nat /\ b \in 0 .. Len(w)
      /\ n \in Nat /\ b <= n /\ n <= Len(w)
      /\ \A j \in 1 .. m : j \in 1 .. Len(E) /\ B[j] \in 0 .. b /\ B[j] \in Nat
  BY <1>2, <1>4
<1>7. Frame(P2, w2, C, E2)
  <2>1. ASSUME NEW j \in 1 .. m PROVE C[j] \in 0 .. n
    <3>1. CASE j = m
      BY <3>1, <1>5, <1>6
    <3>2. CASE j # m
      <4>1. j \in 1 .. m - 1
        BY <3>2, <1>6
      <4>2. C[j] = B[j] /\ B[j] \in 0 .. b
        BY <4>1, <1>5, <1>6
      <4> QED
        BY <4>2, <1>6
    <3> QED
      BY <3>1, <3>2
  <2>2. C \in [1 .. m -> 0 .. n]
    BY <1>3, <1>5, <2>1
  <2>3. ASSUME NEW i \in 1 .. m, NEW j \in 1 .. m, i <= j PROVE C[i] <= C[j]
    <3>1. CASE j = m
      BY <3>1, <2>1, <1>5, <1>6
    <3>2. CASE j # m
      <4>1. j \in 1 .. m - 1 /\ i \in 1 .. m - 1
        BY <3>2, <2>3, <1>6
      <4>2. C[j] = B[j] /\ C[i] = B[i]
        BY <4>1, <1>5
      <4> QED
        BY <4>1, <4>2, <2>3, <1>2, <1>6
    <3> QED
      BY <3>1, <3>2
  <2>4. C[1] = 0
    <3>1. CASE m = 1
      BY <3>1, <1>5
    <3>2. CASE m # 1
      <4>1. 1 \in 1 .. m - 1
        BY <3>2, <1>6
      <4> QED
        BY <4>1, <1>2, <1>5
    <3> QED
      BY <3>1, <3>2
  <2> QED
    BY <2>2, <2>3, <2>4, <1>5, <1>6 DEF Frame, Spared
<1>8. Held(P2, w2)
  <2>1. ASSUME NEW p \in 1 .. Len(w2) PROVE P2[w2[p]].live /\ P2[w2[p]].scope > 0
    <3>1. p \in 1 .. n /\ p \in 1 .. Len(w)
      BY <1>5, <1>6
    <3> QED
      BY <3>1, <1>1, <1>5 DEF Held
  <2>2. ASSUME NEW p \in 1 .. Len(w2), NEW r \in 1 .. Len(w2), w2[p] = w2[r] PROVE p = r
    <3>1. p \in 1 .. n /\ p \in 1 .. Len(w) /\ r \in 1 .. n /\ r \in 1 .. Len(w)
      BY <1>5, <1>6
    <3>2. w[p] = w[r]
      BY <3>1, <2>2, <1>5
    <3> QED
      BY <3>1, <3>2, <1>1 DEF Held
  <2> QED
    BY <2>1, <2>2 DEF Held
<1>9. ASSUME NEW u \in Ident PROVE Rooted(P2, w2, E2[1][u], u)
  <2>1. E2[1] = E[1] /\ Rooted(pool, w, E[1][u], u)
    BY <1>1, <1>5, <1>6
  <2>2. E[1][u] \in 0 .. MaxPool
    BY <1>1, <1>2 DEF Frame
  <2>3. E[1][u] # 0 => P2[E[1][u]] = pool[E[1][u]]
    <3>1. E[1][u] # 0 => E[1][u] \in SymIndex
      BY <2>2, ScopeAssumption DEF SymIndex
    <3>2. E[1][u] # 0 => \A p \in 1 .. Len(w) : w[p] # E[1][u]
      BY <2>1 DEF Rooted
    <3> QED
      BY <3>1, <3>2 DEF Spared
  <2>4. \A p \in 1 .. Len(w2) : p \in 1 .. Len(w) /\ w2[p] = w[p]
    BY <1>5, <1>6
  <2> QED
    BY <2>1, <2>3, <2>4 DEF Rooted
<1>10. ASSUME NEW u \in Ident
       PROVE  vis2[u] \in 0 .. MaxPool /\ Chain(P2, w2, C, E2, kp2, u, vis2[u])
  <2>1. Chain(pool, w, B, E, kp, u, visible[u])
    BY <1>1
  <2>2. n \in B[m] .. Len(w) /\ Closed(pool, w, B, E, kp, m, n, P2, w2, C, E2, kp2)
        /\ Frame(pool, w, B, E)
    BY <1>1, <1>4
  <2>3. PICK x \in 0 .. MaxPool :
          Restores(pool, w, u, visible[u], B[m], x) /\ Chain(P2, w2, C, E2, kp2, u, x)
    BY <2>1, <2>2, CloseChain
  <2>4. Restores(pool, w, u, visible[u], b, x) /\ w \in Seq(SymIndex)
    BY <2>3, <1>1, <1>4 DEF Frame
  <2>5. vis2[u] = x
    BY <2>4, <1>6, UnlinkedIs
  <2> QED
    BY <2>3, <2>5
<1>11. vis2 \in [Ident -> 0 .. MaxPool]
  <2>1. vis2 = [u \in Ident |-> vis2[u]]
    BY DEF Unlinked
  <2> QED
    BY <2>1, <1>10
<1>12. Sound(P2, w2, E2, M2, kp2, vis2)
  BY <1>7, <1>8, <1>9, <1>10, <1>11 DEF Sound, C
<1> QED
  BY <1>12
-----------------------------------------------------------------------------
\* How many scopes are open in each phase, and the number local_scope then has.
Depth ==
  /\ phase = "file" => /\ Len(env) = 1 /\ marks = << >> /\ local_stack = << >>
                       /\ local_scope = 0
  /\ phase = "params" => Len(env) = 2 /\ marks = << >> /\ local_scope = 1
  /\ phase = "body" => /\ marks \in Seq(Nat) /\ marks # << >>
                       /\ Len(env) = Len(marks) + 2 /\ local_scope = Len(marks)

\* Between compilations nothing is in scope.
Idle ==
  /\ env = <<NoSyms>> /\ local_stack = << >> /\ marks = << >>
  /\ local_scope = 0 /\ kept = FALSE

\* The inductive invariant.
ScopeInv ==
  /\ kept \in BOOLEAN
  /\ phase \in {"file", "params", "body"} =>
       Sound(pool, local_stack, env, marks, kept, visible) /\ Depth
  /\ phase = "finished" => Idle

\* A pool without Syms, and nothing visible.
LEMMA NoneSound ==
  Sound([i \in SymIndex |-> NoSym], << >>, <<NoSyms>>, << >>, FALSE, NoSyms)
<1> DEFINE P == [i \in SymIndex |-> NoSym]  E == <<NoSyms>>  w == << >>
           B == BasesOf(w, E, << >>)
<1>1. NoSym \in Syms
  BY ScopeAssumption DEF NoSym, Syms
<1>2. P \in [SymIndex -> Syms]
  BY <1>1
<1>3. NoSyms \in [Ident -> 0 .. MaxPool] /\ \A v \in Ident : NoSyms[v] = 0
  BY ScopeAssumption DEF NoSyms
<1>4. E \in Seq([Ident -> 0 .. MaxPool]) /\ Len(E) = 1 /\ E[1] = NoSyms
  BY <1>3
<1>5. w \in Seq(SymIndex) /\ Len(w) = 0
  OBVIOUS
<1> HIDE DEF E, w, P
<1>6. B \in [1 .. Len(E) -> 0 .. Len(w)] /\ B[1] = 0 /\ B[Len(E)] = Len(w)
      /\ \A i, j \in 1 .. Len(E) : i <= j => B[i] <= B[j]
  BY <1>4, <1>5 DEF BasesOf
<1> HIDE DEF B
<1>7. Frame(P, w, B, E)
  BY <1>2, <1>4, <1>5, <1>6 DEF Frame
<1>8. Held(P, w)
  BY <1>5 DEF Held
<1>9. \A v \in Ident : Rooted(P, w, E[1][v], v)
  BY <1>3, <1>4 DEF Rooted
<1>10. ASSUME NEW v \in Ident PROVE Chain(P, w, B, E, FALSE, v, NoSyms[v])
  <2> DEFINE f == [j \in 1 .. Len(E) |-> 0]
  <2>1. f \in [1 .. Len(E) -> 0 .. MaxPool] /\ \A j \in 1 .. Len(E) : f[j] = 0
    BY ScopeAssumption
  <2> HIDE DEF f
  <2>2. LinkedBy(P, w, v, NoSyms[v], {}, 0)
    BY <1>3 DEF LinkedBy, Top
  <2>3. ASSUME NEW j \in 1 .. Len(E)
        PROVE  Restores(P, w, v, NoSyms[v], B[j], f[j]) /\ Top(w, {}, 0, 0, B[j], f[j])
    <3>1. j = 1 /\ B[j] = 0
      BY <1>4, <1>6
    <3>2. B[j] + 1 .. Len(w) = {}
      BY <3>1, <1>5
    <3> QED
      BY <3>2, <2>1, <1>3 DEF Restores, Top
  <2>4. Returns(P, w, B, FALSE, v, NoSyms[v], {}, 0, f, Len(E))
    BY <2>1, <2>3 DEF Returns
  <2>5. InScope(P, w, B, E, FALSE, v, {}, 0)
    BY <1>3, <1>4, <1>5 DEF InScope
  <2>6. Chained(P, w, B, E, FALSE, v, NoSyms[v], {}, 0, f)
    BY <2>2, <2>4, <2>5 DEF Chained
  <2>7. {} \in SUBSET (1 .. Len(w)) /\ 0 \in 0 .. MaxPool
    BY ScopeAssumption
  <2> QED
    BY <2>1, <2>6, <2>7 DEF Chain
<1>11. Sound(P, w, E, << >>, FALSE, NoSyms)
  BY <1>3, <1>7, <1>8, <1>9, <1>10 DEF Sound, B, w
<1> QED
  BY <1>11 DEF P, E, w

\* Before a file and after it no scope is open.
LEMMA ScopeInitInv == ScopeInit => ScopeInv
BY NoneSound DEF ScopeInit, ScopeInv, Depth

\* sym_malloc() gives a cell that is not in use.
LEMMA FreshIs ==
  ASSUME FreeSyms # {}
  PROVE  Fresh \in SymIndex /\ ~ pool[Fresh].live
<1>1. FreeSyms \subseteq Nat
  BY DEF FreeSyms, SymIndex
<1>2. Fresh \in FreeSyms
  BY <1>1, FirstOf DEF Fresh
<1> QED
  BY <1>2 DEF FreeSyms

\* A second one, while another is taken.
LEMMA SecondIs ==
  ASSUME Cardinality(FreeSyms) >= 2, NEW g \in SymIndex
  PROVE  LET copy == Min(FreeSyms \ {g}) IN
         copy \in SymIndex /\ copy # g /\ ~ pool[copy].live
<1> DEFINE S == FreeSyms \ {g}
<1>1. S \subseteq Nat
  BY DEF FreeSyms, SymIndex
<1>2. S # {}
  <2> SUFFICES ASSUME S = {} PROVE FALSE
    OBVIOUS
  <2>1. FreeSyms \in SUBSET {g}
    OBVIOUS
  <2>2. IsFiniteSet({g}) /\ Cardinality({g}) = 1
    BY FS_Singleton
  <2>3. Cardinality(FreeSyms) <= 1
    BY <2>1, <2>2, FS_Subset
  <2>4. Cardinality(FreeSyms) \in Nat
    BY <2>1, <2>2, FS_Subset, FS_CardinalityType
  <2> QED
    BY <2>3, <2>4
<1>3. Min(S) \in S
  BY <1>1, <1>2, FirstOf
<1> QED
  BY <1>3 DEF FreeSyms

\* global_identifier_push(): the chains keep their shape, and no other free cell
\* is taken.
LEMMA UnderSound ==
  ASSUME NEW w, NEW E, NEW M, NEW kp \in BOOLEAN, Sound(pool, w, E, M, kp, visible),
         NEW v \in Ident, GlobalOf(v) = 0, NEW g \in SymIndex, ~ pool[g].live
  PROVE  LET r == PushUnder(v, g) IN
         /\ Sound(r.pool, w, [E EXCEPT ![1][v] = g], M, kp, r.visible)
         /\ \A i \in SymIndex : i # g /\ ~ pool[i].live => ~ r.pool[i].live
<1> DEFINE r == PushUnder(v, g)
           new == [v |-> v, scope |-> 0, prev_tok |-> 0, live |-> TRUE]
           N == [pool EXCEPT ![g] = new]
<1>1. pool \in [SymIndex -> Syms] /\ visible \in [Ident -> 0 .. MaxPool]
  BY DEF Sound, Frame
<1>2. CASE visible[v] = 0
  <2>1. Links(pool, visible, v, g, 0,
              [pool EXCEPT ![g] = [v |-> v, scope |-> 0, prev_tok |-> visible[v], live |-> TRUE]],
              [visible EXCEPT ![v] = g])
    BY <1>1, LinkedIs
  <2>2. Links(pool, visible, v, g, 0, N, [visible EXCEPT ![v] = g])
    BY <1>2, <2>1
  <2>3. r.pool = N /\ r.visible = [visible EXCEPT ![v] = g]
    BY <1>2 DEF PushUnder
  <2> HIDE DEF N, r
  <2>4. Links(pool, visible, v, g, 0, r.pool, r.visible)
    BY <2>2, <2>3
  <2>5. Sound(r.pool, w, [E EXCEPT ![1][v] = g], M, kp, r.visible)
    BY <1>2, <2>4, UnderNoneSound
  <2>6. \A i \in SymIndex : i # g /\ ~ pool[i].live => ~ r.pool[i].live
    BY <2>4 DEF Links
  <2> QED
    BY <2>5, <2>6 DEF r
<1>3. CASE visible[v] # 0
  <2> DEFINE c == Last(Covered(visible[v]))
  <2>1. PICK p \in 1 .. Len(w) : c = w[p]
    BY <1>3, LowestLocal
  <2>2. c \in SymIndex /\ pool[c].live /\ c # g
    BY <2>1 DEF Sound, Held, Frame
  <2>3. r.pool = [N EXCEPT ![c].prev_tok = g] /\ r.visible = visible
    BY <1>3 DEF PushUnder
  <2> HIDE DEF r, c
  <2>4. new \in Syms /\ g \in 0 .. MaxPool
    BY ScopeAssumption DEF Syms, SymIndex
  <2>5. N \in [SymIndex -> Syms] /\ N[g] = new /\ N[c] = pool[c]
        /\ \A i \in SymIndex : i # g => N[i] = pool[i]
    BY <1>1, <2>2, <2>4
  <2> HIDE DEF N, new
  <2> DEFINE low == [N[c] EXCEPT !.prev_tok = g]
  <2>6. low \in Syms /\ low.v = N[c].v /\ low.scope = N[c].scope /\ low.live = N[c].live
        /\ low.prev_tok = g
    BY <2>2, <2>4, <2>5 DEF Syms
  <2>7. r.pool = [N EXCEPT ![c] = low]
    BY <2>3
  <2> HIDE DEF low
  <2>8. Slips(pool, v, g, c, r.pool)
    <3>1. r.pool \in [SymIndex -> Syms] /\ r.pool[c] = low /\ r.pool[g] = new
          /\ \A i \in SymIndex : i # g /\ i # c => r.pool[i] = pool[i]
      BY <2>2, <2>5, <2>6, <2>7
    <3>2. new.v = v /\ new.scope = 0 /\ new.prev_tok = 0 /\ new.live
      BY DEF new
    <3> QED
      BY <2>5, <2>6, <3>1, <3>2 DEF Slips
  <2>9. Sound(r.pool, w, [E EXCEPT ![1][v] = g], M, kp, r.visible)
    <3>1. Sound(r.pool, w, [E EXCEPT ![1][v] = g], M, kp, visible)
      BY <1>3, <2>8, UnderLocalsSound DEF c
    <3> QED
      BY <2>3, <3>1
  <2>10. \A i \in SymIndex : i # g /\ ~ pool[i].live => ~ r.pool[i].live
    BY <2>2, <2>8 DEF Slips
  <2> QED
    BY <2>9, <2>10 DEF r
<1> QED
  BY <1>2, <1>3

\* The declarations E with one entry, or two, set.
SetEntry(E, i, v, s) == [E EXCEPT ![i][v] = s]
SetBoth(E, i, s, j, t, v) == [E EXCEPT ![i][v] = s, ![j][v] = t]

\* Entries of two scopes' maps change in either order.
LEMMA EntriesCommute ==
  ASSUME NEW E \in Seq([Ident -> 0 .. MaxPool]), NEW i \in 1 .. Len(E), NEW j \in 1 .. Len(E),
         i # j, NEW v \in Ident, NEW s \in 0 .. MaxPool, NEW t \in 0 .. MaxPool
  PROVE  SetBoth(E, i, s, j, t, v) = SetEntry(SetEntry(E, j, v, t), i, v, s)
<1> DEFINE F == [E EXCEPT ![i][v] = s]  G == [E EXCEPT ![j][v] = t]
           X == [F EXCEPT ![j][v] = t]  Y == [G EXCEPT ![i][v] = s]
<1>1. F = [E EXCEPT ![i] = [E[i] EXCEPT ![v] = s]]
  OBVIOUS
<1>2. G = [E EXCEPT ![j] = [E[j] EXCEPT ![v] = t]]
  OBVIOUS
<1>3. F[j] = E[j] /\ G[i] = E[i]
  BY <1>1, <1>2
<1>4. X = [F EXCEPT ![j] = [E[j] EXCEPT ![v] = t]]
  BY <1>3
<1>5. Y = [G EXCEPT ![i] = [E[i] EXCEPT ![v] = s]]
  BY <1>3
<1> DEFINE a == [E[i] EXCEPT ![v] = s]  b == [E[j] EXCEPT ![v] = t]
<1>6. X = [[E EXCEPT ![i] = a] EXCEPT ![j] = b] /\ Y = [[E EXCEPT ![j] = b] EXCEPT ![i] = a]
  BY <1>1, <1>2, <1>4, <1>5
<1>7. X = Y
  <2> HIDE DEF a, b, X, Y
  <2> QED
    BY <1>6
<1> QED
  BY <1>7 DEF SetBoth, SetEntry

\* Scope j declares t as v.
EntryIs(E, j, v, t) == E[j][v] = t

\* Setting an entry to what it is changes nothing.
LEMMA EntryTheSame ==
  ASSUME NEW E \in Seq([Ident -> 0 .. MaxPool]), NEW i \in 1 .. Len(E), NEW j \in 1 .. Len(E),
         i # j, NEW v \in Ident, NEW s \in 0 .. MaxPool, NEW t, EntryIs(E, j, v, t)
  PROVE  SetBoth(E, i, s, j, t, v) = SetEntry(E, i, v, s)
<1> DEFINE F == [E EXCEPT ![i][v] = s]
<1>0. F \in Seq([Ident -> 0 .. MaxPool]) /\ Len(F) = Len(E)
  BY EntryChanged
<1>1. F[j] = E[j] /\ F = [F EXCEPT ![j] = F[j]]
  <2>1. F[j] = E[j]
    OBVIOUS
  <2> HIDE DEF F
  <2>2. F \in [1 .. Len(E) -> [Ident -> 0 .. MaxPool]]
    BY <1>0
  <2>3. F = [F EXCEPT ![j] = F[j]]
    BY <2>2
  <2> QED
    BY <2>1, <2>3
<1>2. E[j] = [E[j] EXCEPT ![v] = t]
  <2>1. E[j] \in [Ident -> 0 .. MaxPool]
    OBVIOUS
  <2>2. E[j] = [E[j] EXCEPT ![v] = E[j][v]]
    BY <2>1
  <2> QED
    BY <2>2 DEF EntryIs
<1>3. [F EXCEPT ![j][v] = t] = [F EXCEPT ![j] = [F[j] EXCEPT ![v] = t]]
  OBVIOUS
<1> HIDE DEF F
<1>4. [F[j] EXCEPT ![v] = t] = F[j]
  BY <1>1, <1>2
<1>5. [F EXCEPT ![j][v] = t] = F
  BY <1>1, <1>3, <1>4
<1> QED
  BY <1>5 DEF F, SetBoth, SetEntry
-----------------------------------------------------------------------------
\* All but the last.
LEMMA FrontIs ==
  ASSUME NEW S, NEW s \in Seq(S), s # << >>
  PROVE  /\ Front(s) \in Seq(S) /\ Len(Front(s)) = Len(s) - 1
         /\ \A i \in 1 .. Len(s) - 1 : Front(s)[i] = s[i]
<1> DEFINE n == Len(s)  f == SubSeq(s, 1, n - 1)
<1>1. n \in Nat /\ n >= 1 /\ n - 1 \in Int /\ 1 \in Int
  OBVIOUS
<1>2. \A i \in 1 .. n - 1 : s[i] \in S
  BY <1>1
<1> HIDE DEF n
<1>3. /\ f \in Seq(S) /\ Len(f) = IF 1 <= n - 1 THEN n - 1 - 1 + 1 ELSE 0
      /\ \A i \in 1 .. n - 1 - 1 + 1 : f[i] = s[1 + i - 1]
  BY <1>1, <1>2, SubSeqProperties
<1> HIDE DEF f
<1>4. Len(f) = n - 1
  BY <1>1, <1>3
<1>5. \A i \in 1 .. n - 1 : i \in 1 .. n - 1 - 1 + 1 /\ 1 + i - 1 = i
  BY <1>1
<1>6. \A i \in 1 .. n - 1 : f[i] = s[i]
  BY <1>3, <1>5
<1> QED
  BY <1>3, <1>4, <1>6 DEF Front, f, n

\* The Syms that are not taken off keep their contents.
LEMMA ReclaimedIs ==
  ASSUME pool \in [SymIndex -> Syms], NEW w \in Seq(SymIndex), Held(pool, w),
         NEW b \in 0 .. Len(w)
  PROVE  /\ Spared(w, b, Reclaimed(Popped(w, b)))
         /\ \A p \in 1 .. b : Reclaimed(Popped(w, b))[w[p]] = pool[w[p]]
<1> DEFINE gone == Popped(w, b)  P2 == Reclaimed(gone)
<1>1. Len(w) \in Nat /\ b \in Nat /\ b <= Len(w) /\ \A p \in 1 .. Len(w) : w[p] \in SymIndex
  OBVIOUS
<1>2. Len(gone) = Len(w) - b /\ \A k \in 1 .. Len(gone) : gone[k] = w[b + k]
  BY PoppedIs
<1>3. \A i \in SymIndex : P2[i] = IF Contains(gone, i) THEN NoSym ELSE pool[i]
  BY DEF Reclaimed
<1>4. NoSym \in Syms
  BY ScopeAssumption DEF NoSym, Syms
<1>5. P2 \in [SymIndex -> Syms]
  BY <1>4 DEF Reclaimed
<1> HIDE DEF gone, P2
<1>6. \A k \in 1 .. Len(gone) : b + k \in 1 .. Len(w) /\ b + k > b /\ gone[k] = w[b + k]
  BY <1>1, <1>2
<1>7. ASSUME NEW i \in SymIndex, \A p \in 1 .. Len(w) : w[p] # i PROVE P2[i] = pool[i]
  <2>1. ~ Contains(gone, i)
    BY <1>6, <1>7 DEF Contains
  <2> QED
    BY <2>1, <1>3
<1>8. ASSUME NEW p \in 1 .. b PROVE P2[w[p]] = pool[w[p]]
  <2>1. p \in 1 .. Len(w) /\ w[p] \in SymIndex /\ p <= b /\ p \in Nat
    BY <1>1
  <2>2. \A k \in 1 .. Len(gone) : b + k # p
    BY <2>1, <1>1, <1>2
  <2>3. ~ Contains(gone, w[p])
    BY <2>1, <2>2, <1>6 DEF Contains, Held
  <2> QED
    BY <2>1, <2>3, <1>3
<1> QED
  BY <1>5, <1>7, <1>8 DEF Spared, P2, gone

\* decl() at file scope keeps the invariant.
LEMMA StepDeclGlobal ==
  ASSUME ScopeInv, NEW v \in Ident, DeclGlobal(v)
  PROVE  ScopeInv'
<1>1. /\ phase = "file" /\ visible[v] = 0 /\ FreeSyms # {}
      /\ Linked(v, 0, Fresh) /\ Declare(v, Fresh)
      /\ UNCHANGED <<local_stack, local_scope, marks, phase, kept>>
  BY DEF DeclGlobal
<1>2. Sound(pool, local_stack, env, marks, kept, visible) /\ Depth /\ kept \in BOOLEAN
      /\ Len(env) = 1
  BY <1>1 DEF ScopeInv, Depth
<1>3. Fresh \in SymIndex /\ ~ pool[Fresh].live
  BY <1>1, FreshIs
<1> DEFINE s == Fresh
<1> HIDE DEF s
<1>4. pool \in [SymIndex -> Syms] /\ visible \in [Ident -> 0 .. MaxPool]
      /\ env \in Seq([Ident -> 0 .. MaxPool])
  BY <1>2 DEF Sound, Frame
<1>5. Links(pool, visible, v, s, 0, pool', visible')
  <2>1. Links(pool, visible, v, s, 0,
              [pool EXCEPT ![s] = [v |-> v, scope |-> 0, prev_tok |-> visible[v], live |-> TRUE]],
              [visible EXCEPT ![v] = s])
    BY <1>3, <1>4, LinkedIs DEF s
  <2>2. /\ pool' = [pool EXCEPT ![s] = [v |-> v, scope |-> 0, prev_tok |-> visible[v],
                                        live |-> TRUE]]
        /\ visible' = [visible EXCEPT ![v] = s]
    BY <1>1 DEF Linked, s
  <2> QED
    BY <2>1, <2>2
<1>6. env' = [env EXCEPT ![1][v] = s]
  BY <1>1, <1>2 DEF Declare, s
<1>7. Sound(pool', local_stack, [env EXCEPT ![1][v] = s], marks, kept, visible')
  <2>1. visible[v] = 0 /\ s \in SymIndex /\ ~ pool[s].live
    BY <1>1, <1>3 DEF s
  <2>2. Sound(pool, local_stack, env, marks, kept, visible) /\ kept \in BOOLEAN
    BY <1>2
  <2> QED
    BY <1>5, <2>1, <2>2, UnderNoneSound
<1>8. Sound(pool', local_stack', env', marks', kept', visible')
  BY <1>1, <1>6, <1>7
<1>9. Len(env') = 1
  BY <1>2, <1>4, <1>6
<1>10. Depth'
  BY <1>1, <1>2, <1>9 DEF Depth
<1> QED
  BY <1>1, <1>2, <1>8, <1>10 DEF ScopeInv

\* gen_function() opens the parameters' scope.
LEMMA StepBeginFunction ==
  ASSUME ScopeInv, BeginFunction
  PROVE  ScopeInv'
<1>1. /\ phase = "file" /\ phase' = "params" /\ local_scope' = 1 /\ env' = Append(env, NoSyms)
      /\ UNCHANGED <<pool, visible, local_stack, marks, kept>>
  BY DEF BeginFunction
<1>2. Sound(pool, local_stack, env, marks, kept, visible) /\ kept \in BOOLEAN
      /\ Len(env) = 1 /\ marks = << >> /\ local_stack = << >>
  BY <1>1 DEF ScopeInv, Depth
<1>3. env \in Seq([Ident -> 0 .. MaxPool]) /\ NoSyms \in [Ident -> 0 .. MaxPool]
  BY <1>2, ScopeAssumption DEF Sound, Frame, NoSyms
<1> DEFINE E2 == Append(env, NoSyms)
<1>4. E2 \in Seq([Ident -> 0 .. MaxPool]) /\ Len(E2) = 2 /\ E2[1] = env[1] /\ E2[2] = NoSyms
  <2> DEFINE T == [Ident -> 0 .. MaxPool]
  <2> HIDE DEF T
  <2>1. env \in Seq(T) /\ NoSyms \in T
    BY <1>3 DEF T
  <2>2. /\ E2 \in Seq(T) /\ Len(E2) = Len(env) + 1 /\ E2[Len(env) + 1] = NoSyms
        /\ \A p \in 1 .. Len(env) : E2[p] = env[p]
    BY <2>1, AppendIs
  <2> QED
    BY <2>2, <1>2 DEF T
<1> HIDE DEF E2
<1>5. Opened(env, BasesOf(local_stack, env, marks), Len(local_stack), E2,
             BasesOf(local_stack, E2, marks))
  <2>1. Len(local_stack) = 0
    BY <1>2
  <2> QED
    BY <2>1, <1>2, <1>4 DEF Opened, BasesOf
<1>6. Sound(pool, local_stack, E2, marks, kept, visible)
  BY <1>2, <1>4, <1>5, OpenSound
<1>7. Sound(pool', local_stack', env', marks', kept', visible')
  BY <1>1, <1>6 DEF E2
<1>8. Depth'
  BY <1>1, <1>2, <1>4 DEF Depth, E2
<1> QED
  BY <1>1, <1>2, <1>7, <1>8 DEF ScopeInv

\* block() opens the body's scope.
LEMMA StepBeginBody ==
  ASSUME ScopeInv, BeginBody
  PROVE  ScopeInv'
<1>1. /\ phase = "params" /\ phase' = "body" /\ marks' = <<Len(local_stack)>>
      /\ env' = Append(env, NoSyms)
      /\ UNCHANGED <<pool, visible, local_stack, local_scope, kept>>
  BY DEF BeginBody
<1>2. Sound(pool, local_stack, env, marks, kept, visible) /\ kept \in BOOLEAN
      /\ Len(env) = 2 /\ marks = << >> /\ local_scope = 1
  BY <1>1 DEF ScopeInv, Depth
<1>3. env \in Seq([Ident -> 0 .. MaxPool]) /\ NoSyms \in [Ident -> 0 .. MaxPool]
      /\ Len(local_stack) \in Nat
  BY <1>2, ScopeAssumption DEF Sound, Frame, NoSyms
<1> DEFINE E2 == Append(env, NoSyms)  M2 == <<Len(local_stack)>>
<1>4. E2 \in Seq([Ident -> 0 .. MaxPool]) /\ Len(E2) = 3 /\ E2[1] = env[1] /\ E2[2] = env[2]
      /\ E2[3] = NoSyms
  <2> DEFINE T == [Ident -> 0 .. MaxPool]
  <2> HIDE DEF T
  <2>1. env \in Seq(T) /\ NoSyms \in T
    BY <1>3 DEF T
  <2>2. /\ E2 \in Seq(T) /\ Len(E2) = Len(env) + 1 /\ E2[Len(env) + 1] = NoSyms
        /\ \A p \in 1 .. Len(env) : E2[p] = env[p]
    BY <2>1, AppendIs
  <2> QED
    BY <2>2, <1>2 DEF T
<1>5. M2 \in Seq(Nat) /\ Len(M2) = 1 /\ M2[1] = Len(local_stack) /\ M2 # << >>
  BY <1>3
<1> HIDE DEF E2, M2
<1>6. Opened(env, BasesOf(local_stack, env, marks), Len(local_stack), E2,
             BasesOf(local_stack, E2, M2))
  BY <1>2, <1>4, <1>5 DEF Opened, BasesOf
<1>7. Sound(pool, local_stack, E2, M2, kept, visible)
  BY <1>2, <1>4, <1>6, OpenSound
<1>8. Sound(pool', local_stack', env', marks', kept', visible')
  BY <1>1, <1>7 DEF E2, M2
<1>9. Depth'
  BY <1>1, <1>2, <1>4, <1>5 DEF Depth, E2, M2
<1> QED
  BY <1>1, <1>2, <1>8, <1>9 DEF ScopeInv

\* new_scope() opens a block's scope.
LEMMA StepNewScope ==
  ASSUME ScopeInv, NewScope
  PROVE  ScopeInv'
<1>1. /\ phase = "body" /\ marks' = Append(marks, Len(local_stack))
      /\ local_scope' = local_scope + 1 /\ env' = Append(env, NoSyms)
      /\ UNCHANGED <<pool, visible, local_stack, phase, kept>>
  BY DEF NewScope
<1>2. Sound(pool, local_stack, env, marks, kept, visible) /\ kept \in BOOLEAN
      /\ marks \in Seq(Nat) /\ marks # << >> /\ Len(env) = Len(marks) + 2
      /\ local_scope = Len(marks)
  BY <1>1 DEF ScopeInv, Depth
<1>3. env \in Seq([Ident -> 0 .. MaxPool]) /\ NoSyms \in [Ident -> 0 .. MaxPool]
      /\ Len(local_stack) \in Nat
  BY <1>2, ScopeAssumption DEF Sound, Frame, NoSyms
<1> DEFINE E2 == Append(env, NoSyms)  M2 == Append(marks, Len(local_stack))  k == Len(marks)
<1>4. E2 \in Seq([Ident -> 0 .. MaxPool]) /\ Len(E2) = k + 3
      /\ (\A j \in 1 .. k + 2 : E2[j] = env[j]) /\ E2[k + 3] = NoSyms
  BY <1>2, <1>3
<1>5. M2 \in Seq(Nat) /\ Len(M2) = k + 1 /\ M2[k + 1] = Len(local_stack) /\ M2 # << >>
      /\ (\A j \in 1 .. k : M2[j] = marks[j]) /\ k \in Nat /\ k >= 1 /\ Len(env) = k + 2
  BY <1>2, <1>3
<1> HIDE DEF E2, M2, k
<1> DEFINE B == BasesOf(local_stack, env, marks)  C == BasesOf(local_stack, E2, M2)
<1>6. ASSUME NEW j \in 1 .. k + 2 PROVE C[j] = B[j]
  <2>1. j \in 1 .. Len(env) /\ j \in 1 .. Len(E2) /\ j # Len(E2)
    BY <1>4, <1>5
  <2>2. CASE j = 1
    BY <2>1, <2>2, <1>5 DEF BasesOf
  <2>3. CASE j = k + 2
    <3>1. j - 1 = k + 1 /\ j # 1
      BY <2>3, <1>5
    <3> QED
      BY <2>1, <2>3, <3>1, <1>5 DEF BasesOf
  <2>4. CASE j # 1 /\ j # k + 2
    <3>1. j - 1 \in 1 .. k
      BY <2>4, <1>5
    <3> QED
      BY <2>1, <2>4, <3>1, <1>5 DEF BasesOf
  <2> QED
    BY <2>2, <2>3, <2>4
<1>7. C[k + 3] = Len(local_stack)
  BY <1>4, <1>5 DEF BasesOf
<1> HIDE DEF B, C
<1>8. Opened(env, B, Len(local_stack), E2, C)
  <2>1. Len(E2) = Len(env) + 1 /\ Len(env) + 1 = k + 3
    BY <1>4, <1>5
  <2> QED
    BY <2>1, <1>4, <1>5, <1>6, <1>7 DEF Opened
<1>9. Sound(pool, local_stack, E2, M2, kept, visible)
  BY <1>2, <1>4, <1>8, OpenSound DEF B, C
<1>10. Sound(pool', local_stack', env', marks', kept', visible')
  BY <1>1, <1>9 DEF E2, M2
<1>11. Depth'
  <2>1. marks' = M2 /\ env' = E2 /\ local_scope' = k + 1 /\ phase' = "body"
    BY <1>1, <1>2 DEF M2, E2, k
  <2> QED
    BY <2>1, <1>4, <1>5 DEF Depth
<1> QED
  BY <1>1, <1>2, <1>10, <1>11 DEF ScopeInv
-----------------------------------------------------------------------------
\* A Sym pushed on local_stack in the innermost scope keeps the chains.
LEMMA StepPush ==
  ASSUME Sound(pool, local_stack, env, marks, kept, visible), Len(env) >= 2,
         NEW v \in Ident, FreeSyms # {}, local_scope = ScopeNo(Len(env)),
         Linked(v, local_scope, Fresh), Declare(v, Fresh),
         local_stack' = Append(local_stack, Fresh), marks' = marks, kept' = kept
  PROVE  Sound(pool', local_stack', env', marks', kept', visible') /\ Len(env') = Len(env)
<1> DEFINE s == Fresh  F == [env EXCEPT ![Len(env)][v] = s]
<1>1. s \in SymIndex /\ ~ pool[s].live
  BY FreshIs
<1>2. pool \in [SymIndex -> Syms] /\ visible \in [Ident -> 0 .. MaxPool]
      /\ env \in Seq([Ident -> 0 .. MaxPool]) /\ Len(env) \in 1 .. Len(env)
      /\ Len(env) \in Nat
  BY DEF Sound, Frame
<1>3. pool' = [pool EXCEPT ![s] = [v |-> v, scope |-> local_scope, prev_tok |-> visible[v],
                                   live |-> TRUE]]
      /\ visible' = [visible EXCEPT ![v] = s]
  BY DEF Linked
<1>4. env' = F /\ local_stack' = Append(local_stack, s)
  BY DEF Declare
<1> HIDE DEF s
<1>5. ScopeNo(Len(env)) \in Nat
  BY <1>2 DEF ScopeNo
<1>6. Links(pool, visible, v, s, ScopeNo(Len(env)),
            [pool EXCEPT ![s] = [v |-> v, scope |-> ScopeNo(Len(env)), prev_tok |-> visible[v],
                                 live |-> TRUE]],
            [visible EXCEPT ![v] = s])
  BY <1>1, <1>2, <1>5, LinkedIs
<1>7. Links(pool, visible, v, s, ScopeNo(Len(env)), pool', visible')
  BY <1>3, <1>6
<1>8. Sound(pool', Append(local_stack, s), F, marks, kept, visible')
  BY <1>1, <1>7, PushSound
<1>9. Len(F) = Len(env)
  BY <1>2
<1> QED
  BY <1>4, <1>8, <1>9

\* sym_push_params() keeps the invariant.
LEMMA StepDeclParam ==
  ASSUME ScopeInv, NEW v \in Ident, DeclParam(v)
  PROVE  ScopeInv'
<1>1. /\ phase = "params" /\ FreeSyms # {} /\ Linked(v, local_scope, Fresh) /\ Declare(v, Fresh)
      /\ local_stack' = Append(local_stack, Fresh)
      /\ UNCHANGED <<local_scope, marks, phase, kept>>
  BY DEF DeclParam
<1>2. Sound(pool, local_stack, env, marks, kept, visible) /\ Depth /\ kept \in BOOLEAN
  BY <1>1 DEF ScopeInv
<1>3. Len(env) = 2 /\ local_scope = 1 /\ marks = << >>
  BY <1>1, <1>2 DEF Depth
<1>4. local_scope = ScopeNo(Len(env)) /\ Len(env) >= 2 /\ marks' = marks /\ kept' = kept
  BY <1>1, <1>3 DEF ScopeNo
<1>5. Sound(pool', local_stack', env', marks', kept', visible') /\ Len(env') = Len(env)
  BY <1>1, <1>2, <1>4, StepPush
<1>6. Depth'
  BY <1>1, <1>3, <1>5 DEF Depth
<1> QED
  BY <1>1, <1>2, <1>5, <1>6 DEF ScopeInv

\* In a body, the number of the innermost scope is that of its symbols.
LEMMA BodyDepth ==
  ASSUME Depth, phase = "body"
  PROVE  /\ Len(marks) \in Nat /\ Len(marks) >= 1 /\ Len(env) = Len(marks) + 2
         /\ local_scope = ScopeNo(Len(env)) /\ Len(env) >= 3 /\ Len(env) \in Nat
<1>1. marks \in Seq(Nat) /\ marks # << >> /\ Len(env) = Len(marks) + 2 /\ local_scope = Len(marks)
  BY DEF Depth
<1>2. Len(marks) \in Nat /\ Len(marks) >= 1
  BY <1>1
<1> QED
  BY <1>1, <1>2 DEF ScopeNo

\* sym_push() of a local variable keeps the invariant.
LEMMA StepDeclLocal ==
  ASSUME ScopeInv, NEW v \in Ident, DeclLocal(v)
  PROVE  ScopeInv'
<1>1. /\ phase = "body" /\ FreeSyms # {} /\ Linked(v, local_scope, Fresh) /\ Declare(v, Fresh)
      /\ local_stack' = Append(local_stack, Fresh)
      /\ UNCHANGED <<local_scope, marks, kept>>
      /\ phase' \in {"body", "error"}
  BY DEF DeclLocal
<1>2. Sound(pool, local_stack, env, marks, kept, visible) /\ Depth /\ kept \in BOOLEAN
  BY <1>1 DEF ScopeInv
<1>3. local_scope = ScopeNo(Len(env)) /\ Len(env) >= 2 /\ marks' = marks /\ kept' = kept
  BY <1>1, <1>2, BodyDepth
<1>4. Sound(pool', local_stack', env', marks', kept', visible') /\ Len(env') = Len(env)
  BY <1>1, <1>2, <1>3, StepPush
<1>5. Depth'
  BY <1>1, <1>2, <1>4 DEF Depth
<1> QED
  BY <1>1, <1>2, <1>4, <1>5 DEF ScopeInv

\* A name that leads nowhere has no file scope symbol to find.
LEMMA NowhereNoGlobal ==
  ASSUME NEW w, NEW E, NEW M, NEW kp \in BOOLEAN, Sound(pool, w, E, M, kp, visible),
         NEW v \in Ident
  PROVE  /\ visible[v] = 0 => GlobalOf(v) = 0
         /\ GlobalOf(v) # 0 => GlobalOf(v) = E[1][v]
<1> DEFINE B == BasesOf(w, E, M)
<1>1. /\ Frame(pool, w, B, E) /\ Held(pool, w) /\ visible \in [Ident -> 0 .. MaxPool]
      /\ \A u \in Ident : Rooted(pool, w, E[1][u], u)
      /\ \A u \in Ident : Chain(pool, w, B, E, kp, u, visible[u])
  BY DEF Sound
<1>2. pool \in [SymIndex -> Syms] /\ w \in Seq(SymIndex) /\ visible[v] \in 0 .. MaxPool
  BY <1>1 DEF Frame
<1> HIDE DEF B
<1>3. PICK Q \in SUBSET (1 .. Len(w)), e \in 0 .. MaxPool, f \in [1 .. Len(E) -> 0 .. MaxPool] :
        Chained(pool, w, B, E, kp, v, visible[v], Q, e, f)
  BY <1>1 DEF Chain
<1>4. LinkedBy(pool, w, v, visible[v], Q, e) /\ InScope(pool, w, B, E, kp, v, Q, e)
  BY <1>3 DEF Chained
<1>5. e = E[1][v] \/ e = 0
  BY <1>4 DEF InScope
<1>6. Rooted(pool, w, e, v)
  <2>1. Rooted(pool, w, 0, v)
    BY DEF Rooted
  <2> QED
    BY <2>1, <1>1, <1>5
<1>7. GlobalOf(v) = e
  BY <1>1, <1>2, <1>4, <1>6, GlobalIs
<1>8. visible[v] = 0 => e = 0
  <2>1. \A p \in 1 .. Len(w) : w[p] # 0
    BY <1>1, FrameCells
  <2>2. Top(w, Q, e, 0, Len(w), visible[v])
    BY <1>4 DEF LinkedBy
  <2> QED
    BY <2>1, <2>2 DEF Top
<1> QED
  BY <1>5, <1>7, <1>8

\* external_global_sym() keeps the invariant.
LEMMA StepDeclImplicit ==
  ASSUME ScopeInv, NEW v \in Ident, DeclImplicit(v)
  PROVE  ScopeInv'
<1> DEFINE s == Fresh  r == PushUnder(v, s)
<1>1. /\ phase = "body" /\ visible[v] = 0 /\ FreeSyms # {}
      /\ pool' = r.pool /\ visible' = r.visible
      /\ env' = [env EXCEPT ![1][v] = s]
      /\ UNCHANGED <<local_stack, local_scope, marks, phase, kept>>
  BY DEF DeclImplicit
<1>2. Sound(pool, local_stack, env, marks, kept, visible) /\ Depth /\ kept \in BOOLEAN
  BY <1>1 DEF ScopeInv
<1>3. s \in SymIndex /\ ~ pool[s].live /\ GlobalOf(v) = 0
  BY <1>1, <1>2, FreshIs, NowhereNoGlobal
<1> HIDE DEF s
<1>4. Sound(r.pool, local_stack, [env EXCEPT ![1][v] = s], marks, kept, r.visible)
  BY <1>2, <1>3, UnderSound
<1> HIDE DEF r
<1>5. Sound(pool', local_stack', env', marks', kept', visible')
  BY <1>1, <1>4
<1>6. Len(env') = Len(env)
  <2>1. env \in Seq([Ident -> 0 .. MaxPool])
    BY <1>2 DEF Sound, Frame
  <2> QED
    BY <2>1, <1>1
<1>7. Depth'
  BY <1>1, <1>2, <1>6 DEF Depth
<1> QED
  BY <1>1, <1>2, <1>5, <1>7 DEF ScopeInv

\* external_sym() and sym_copy() keep the invariant.
LEMMA StepDeclExtern ==
  ASSUME ScopeInv, NEW v \in Ident, DeclExtern(v)
  PROVE  ScopeInv'
<1> DEFINE known == GlobalOf(v) # 0
           g == IF known THEN GlobalOf(v) ELSE Fresh
           copy == Min(FreeSyms \ {g})
           under == IF known THEN [pool |-> pool, visible |-> visible] ELSE PushUnder(v, g)
           E1 == IF known THEN env ELSE [env EXCEPT ![1][v] = g]
           L == Len(env)
<1>1. /\ phase = "body" /\ Cardinality(FreeSyms) >= 2
      /\ pool' = [under.pool EXCEPT ![copy] = [v |-> v, scope |-> local_scope,
                                               prev_tok |-> under.visible[v], live |-> TRUE]]
      /\ visible' = [visible EXCEPT ![v] = copy]
      /\ local_stack' = Append(local_stack, copy)
      /\ env' = [env EXCEPT ![L][v] = copy, ![1][v] = g]
      /\ UNCHANGED <<local_scope, marks, phase, kept>>
  BY DEF DeclExtern
<1>2. Sound(pool, local_stack, env, marks, kept, visible) /\ Depth /\ kept \in BOOLEAN
  BY <1>1 DEF ScopeInv
<1>3. L >= 3 /\ L \in Nat /\ local_scope = ScopeNo(L)
  BY <1>1, <1>2, BodyDepth
<1>31. L \in 1 .. Len(env) /\ 1 \in 1 .. Len(env) /\ L # 1
  <2>1. \A n \in Nat : n >= 3 => n \in 1 .. n /\ 1 \in 1 .. n /\ n # 1
    OBVIOUS
  <2>2. Len(env) \in Nat /\ Len(env) >= 3
    BY <1>3
  <2> QED
    BY <2>1, <2>2
<1>4. env \in Seq([Ident -> 0 .. MaxPool]) /\ pool \in [SymIndex -> Syms]
      /\ visible \in [Ident -> 0 .. MaxPool]
  BY <1>2 DEF Sound, Frame
<1>5. known => g = env[1][v] /\ g \in SymIndex
  <2>1. env[1][v] \in 0 .. MaxPool
    BY <1>3, <1>4
  <2> QED
    BY <2>1, <1>2, NowhereNoGlobal, ScopeAssumption DEF SymIndex
<1>6. ~ known => g \in SymIndex /\ ~ pool[g].live
  <2>1. FreeSyms # {}
    <3> SUFFICES ASSUME FreeSyms = {} PROVE FALSE
      OBVIOUS
    <3>1. Cardinality({}) = 0
      BY FS_EmptySet
    <3> QED
      BY <3>1, <1>1
  <2> QED
    BY <2>1, FreshIs
<1>7. g \in SymIndex /\ g \in 0 .. MaxPool
  BY <1>5, <1>6, ScopeAssumption DEF SymIndex
<1>8. copy \in SymIndex /\ copy # g /\ ~ pool[copy].live /\ copy \in 0 .. MaxPool
  <2> HIDE DEF g
  <2>1. copy \in SymIndex /\ copy # g /\ ~ pool[copy].live
    BY <1>1, <1>7, SecondIs
  <2> QED
    BY <2>1, ScopeAssumption DEF SymIndex
<1>9. /\ Sound(under.pool, local_stack, E1, marks, kept, under.visible)
      /\ ~ under.pool[copy].live
      /\ \A u \in Ident : u # v => under.visible[u] = visible[u]
      /\ Len(E1) = L
  <2>1. CASE known
    <3>1. under.pool = pool /\ under.visible = visible /\ E1 = env
      BY <2>1
    <3> QED
      BY <3>1, <1>2, <1>8
  <2>2. CASE ~ known
    <3> DEFINE r == PushUnder(v, g)
    <3> HIDE DEF copy, g
    <3>1. Sound(r.pool, local_stack, [env EXCEPT ![1][v] = g], marks, kept, r.visible)
          /\ \A i \in SymIndex : i # g /\ ~ pool[i].live => ~ r.pool[i].live
      BY <2>2, <1>2, <1>6, <1>7, UnderSound
    <3>2. \A u \in Ident : u # v => r.visible[u] = visible[u]
      BY <1>4 DEF PushUnder
    <3> HIDE DEF r
    <3>3. under = r /\ E1 = [env EXCEPT ![1][v] = g]
      BY <2>2 DEF r
    <3>4. Len([env EXCEPT ![1][v] = g]) = L
      BY <1>4
    <3> QED
      BY <3>1, <3>2, <3>3, <3>4, <1>8
  <2> QED
    BY <2>1, <2>2
<1> HIDE DEF copy, under, g, known
<1> DEFINE P2 == [under.pool EXCEPT ![copy] = [v |-> v, scope |-> ScopeNo(L),
                                               prev_tok |-> under.visible[v], live |-> TRUE]]
           vis2 == [under.visible EXCEPT ![v] = copy]
<1>10. Links(under.pool, under.visible, v, copy, ScopeNo(L), P2, vis2)
  <2>1. under.pool \in [SymIndex -> Syms] /\ under.visible \in [Ident -> 0 .. MaxPool]
    BY <1>9 DEF Sound, Frame
  <2>2. ScopeNo(L) \in Nat
    BY <1>3 DEF ScopeNo
  <2> QED
    BY <2>1, <2>2, <1>8, LinkedIs
<1>11. pool' = P2 /\ visible' = vis2
  <2>1. under.visible \in [Ident -> 0 .. MaxPool]
    BY <1>9 DEF Sound
  <2>2. vis2 = [visible EXCEPT ![v] = copy]
    BY <2>1, <1>4, <1>9
  <2> QED
    BY <2>2, <1>1, <1>3
<1> HIDE DEF P2, vis2, E1
<1>12. Sound(P2, Append(local_stack, copy), [E1 EXCEPT ![Len(E1)][v] = copy], marks, kept, vis2)
  <2>1. Links(under.pool, under.visible, v, copy, ScopeNo(Len(E1)), P2, vis2) /\ Len(E1) >= 2
    BY <1>3, <1>9, <1>10
  <2> QED
    BY <2>1, <1>8, <1>9, PushSound
<1>13. env' = [E1 EXCEPT ![L][v] = copy] /\ Len(env') = L
  <2>1. CASE known
    <3>1. E1 = env /\ g = env[1][v]
      BY <2>1, <1>5 DEF E1
    <3>2. [env EXCEPT ![L][v] = copy, ![1][v] = g] = [env EXCEPT ![L][v] = copy]
      <4>1. EntryIs(env, 1, v, g)
        BY <3>1 DEF EntryIs
      <4> QED
        <5>1. SetBoth(env, L, copy, 1, g, v) = SetEntry(env, L, v, copy)
          BY <4>1, <1>31, <1>4, <1>8, EntryTheSame
        <5> QED
          BY <5>1 DEF SetBoth, SetEntry
    <3>3. Len([env EXCEPT ![L][v] = copy]) = L
      BY <1>4
    <3> QED
      BY <3>1, <3>2, <3>3, <1>1
  <2>2. CASE ~ known
    <3>1. E1 = [env EXCEPT ![1][v] = g]
      BY <2>2 DEF E1
    <3>2. [env EXCEPT ![L][v] = copy, ![1][v] = g] = [[env EXCEPT ![1][v] = g] EXCEPT ![L][v] = copy]
      <4>1. SetBoth(env, L, copy, 1, g, v) = SetEntry(SetEntry(env, 1, v, g), L, v, copy)
        BY ZenonT(40), <1>31, <1>4, <1>7, <1>8, EntriesCommute
      <4> QED
        BY <4>1 DEF SetBoth, SetEntry
    <3>3. Len([[env EXCEPT ![1][v] = g] EXCEPT ![L][v] = copy]) = L
      BY <1>4
    <3> QED
      BY <3>1, <3>2, <3>3, <1>1
  <2> QED
    BY <2>1, <2>2
<1>14. Sound(pool', local_stack', env', marks', kept', visible')
  <2>1. Sound(P2, Append(local_stack, copy), [E1 EXCEPT ![L][v] = copy], marks, kept, vis2)
    BY <1>9, <1>12
  <2> QED
    BY <2>1, <1>1, <1>11, <1>13
<1>15. Depth'
  BY <1>1, <1>2, <1>13 DEF Depth
<1> QED
  BY <1>1, <1>2, <1>14, <1>15 DEF ScopeInv
-----------------------------------------------------------------------------
\* prev_scope() keeps the invariant, with or without the scope's symbols.
LEMMA StepPrevScope ==
  ASSUME ScopeInv, NEW keep \in BOOLEAN, PrevScope(keep)
  PROVE  ScopeInv'
<1> DEFINE k == Len(marks)  b == Last(marks)  w == local_stack
           gone == Popped(w, b)  E2 == Front(env)  M2 == Front(marks)
           B == BasesOf(w, env, marks)  m == k + 1
<1>1. /\ phase = "body" /\ local_scope > 1
      /\ visible' = Unlinked(visible, gone)
      /\ IF keep THEN pool' = pool /\ local_stack' = w
         ELSE pool' = Reclaimed(gone) /\ local_stack' = SubSeq(w, 1, b)
      /\ marks' = M2 /\ local_scope' = local_scope - 1 /\ env' = E2
      /\ kept' = (kept \/ (keep /\ gone # << >>))
      /\ phase' = phase
  BY DEF PrevScope
<1>2. Sound(pool, w, env, marks, kept, visible) /\ Depth /\ kept \in BOOLEAN
  BY <1>1 DEF ScopeInv
<1>3. /\ marks \in Seq(Nat) /\ marks # << >> /\ Len(env) = k + 2 /\ k \in Nat /\ k >= 2
      /\ local_scope = k
  BY <1>1, <1>2 DEF Depth
<1>4. Frame(pool, w, B, env) /\ Held(pool, w) /\ pool \in [SymIndex -> Syms]
      /\ w \in Seq(SymIndex) /\ env \in Seq([Ident -> 0 .. MaxPool]) /\ env # << >>
  <2>1. Frame(pool, w, B, env) /\ Held(pool, w)
    BY <1>2 DEF Sound
  <2> HIDE DEF B
  <2>2. pool \in [SymIndex -> Syms] /\ w \in Seq(SymIndex) /\ env \in Seq([Ident -> 0 .. MaxPool])
        /\ Len(env) # 0
    BY <2>1 DEF Frame
  <2> QED
    BY <2>1, <2>2
<1>5. /\ E2 \in Seq([Ident -> 0 .. MaxPool]) /\ Len(E2) = m
      /\ \A i \in 1 .. m : E2[i] = env[i]
  <2> DEFINE T == [Ident -> 0 .. MaxPool]
  <2> HIDE DEF T
  <2>1. env \in Seq(T) /\ env # << >>
    BY <1>4 DEF T
  <2>2. E2 \in Seq(T) /\ Len(E2) = Len(env) - 1 /\ \A i \in 1 .. Len(env) - 1 : E2[i] = env[i]
    BY <2>1, FrontIs
  <2>3. Len(env) - 1 = m
    BY <1>3
  <2> QED
    BY <2>2, <2>3 DEF T
<1>6. /\ M2 \in Seq(Nat) /\ Len(M2) = k - 1
      /\ \A i \in 1 .. k - 1 : M2[i] = marks[i]
  BY <1>3, FrontIs
<1>7. B[m] = b
  <2>1. m \in 1 .. Len(env) /\ m # Len(env) /\ m # 1 /\ m - 1 = k
    BY <1>3
  <2> QED
    BY <2>1 DEF BasesOf, Last
<1>8. b \in 0 .. Len(w) /\ b \in Nat /\ Len(w) \in Nat
  <2>1. m \in 1 .. Len(env)
    BY <1>3
  <2>2. /\ Len(w) \in Nat
        /\ \A j \in 1 .. Len(env) : B[j] \in 0 .. Len(w) /\ B[j] \in Nat
    BY <1>4, FrameBases
  <2> QED
    BY <2>1, <2>2, <1>7
<1> DEFINE w2 == IF keep THEN w ELSE SubSeq(w, 1, b)
           P2 == IF keep THEN pool ELSE Reclaimed(gone)
           n == IF keep THEN Len(w) ELSE b
           kp2 == kept \/ (keep /\ gone # << >>)
           C == BasesOf(w2, E2, M2)
<1>9. /\ w2 \in Seq(SymIndex) /\ Len(w2) = n /\ \A p \in 1 .. n : w2[p] = w[p]
      /\ n \in b .. Len(w)
  <2>1. CASE keep
    BY <2>1, <1>4, <1>8
  <2>2. CASE ~ keep
    <3>1. /\ SubSeq(w, 1, b) \in Seq(SymIndex) /\ Len(SubSeq(w, 1, b)) = b
          /\ \A p \in 1 .. b : SubSeq(w, 1, b)[p] = w[p]
      BY <1>4, <1>8
    <3> QED
      BY <2>2, <3>1, <1>8
  <2> QED
    BY <2>1, <2>2
<1>10. Spared(w, b, P2) /\ \A p \in 1 .. n : P2[w[p]] = pool[w[p]]
  <2>1. CASE keep
    BY <2>1, <1>4 DEF Spared
  <2>2. CASE ~ keep
    BY <2>2, <1>4, <1>8, ReclaimedIs
  <2> QED
    BY <2>1, <2>2
<1>11. kp2 \in BOOLEAN /\ (kept => kp2) /\ (kp2 \/ n = b)
  <2>1. CASE keep /\ gone = << >>
    <3>1. Len(gone) = Len(w) - b
      BY <1>4, <1>8, PoppedIs
    <3>2. Len(gone) = 0
      BY <2>1
    <3> QED
      BY <2>1, <3>1, <3>2, <1>2, <1>8
  <2>2. CASE ~ (keep /\ gone = << >>)
    BY <2>2, <1>2
  <2> QED
    BY <2>1, <2>2
<1> HIDE DEF w2, P2, kp2, n, gone, E2, M2
<1>12. C[m] = n /\ \A j \in 1 .. m - 1 : C[j] = B[j]
  <2>1. m \in 1 .. Len(E2)
    BY <1>3, <1>5
  <2>2. C[m] = n
    BY <2>1, <1>5, <1>9 DEF BasesOf
  <2>3. ASSUME NEW j \in 1 .. m - 1 PROVE C[j] = B[j]
    <3>1. j \in 1 .. Len(E2) /\ j # Len(E2) /\ j \in 1 .. Len(env) /\ j # Len(env)
      BY <1>3, <1>5
    <3>2. CASE j = 1
      BY <3>1, <3>2 DEF BasesOf
    <3>3. CASE j # 1
      <4>1. j - 1 \in 1 .. k - 1
        BY <3>3, <1>3
      <4>2. M2[j - 1] = marks[j - 1]
        BY <4>1, <1>6
      <4> QED
        BY <3>1, <3>3, <4>2 DEF BasesOf
    <3> QED
      BY <3>2, <3>3
  <2> QED
    BY <2>2, <2>3
<1>13. Closed(pool, w, B, env, kept, m, n, P2, w2, C, E2, kp2)
  <2> HIDE DEF B, C, m, b
  <2>1. kp2 \/ n = B[m]
    BY <1>7, <1>11
  <2> QED
    BY <2>1, <1>5, <1>9, <1>10, <1>11, <1>12 DEF Closed
<1>14. Sound(P2, w2, E2, M2, kp2, Unlinked(visible, gone))
  <2>1. m \in 1 .. Len(env) - 1 /\ (m = 1 => n = 0)
    BY <1>3
  <2> HIDE DEF m, b, k
  <2>2. b = BasesOf(w, env, marks)[m]
    BY <1>7
  <2>3. Closed(pool, w, BasesOf(w, env, marks), env, kept, m, n, P2, w2,
               BasesOf(w2, E2, M2), E2, kp2)
    BY <1>13
  <2>4. Sound(P2, w2, E2, M2, kp2, Unlinked(visible, Popped(w, b)))
    BY <2>1, <2>2, <2>3, <1>2, <1>5, <1>9, <1>10, <1>11, CloseSound
  <2> QED
    BY <2>4 DEF gone
<1>15. Sound(pool', local_stack', env', marks', kept', visible')
  <2>1. pool' = P2 /\ local_stack' = w2 /\ kept' = kp2
    BY <1>1 DEF P2, w2, kp2
  <2> QED
    BY <2>1, <1>1, <1>14
<1>16. Depth'
  <2>1. M2 # << >> /\ Len(E2) = Len(M2) + 2 /\ local_scope - 1 = Len(M2)
    BY <1>3, <1>5, <1>6
  <2> QED
    BY <2>1, <1>1, <1>6 DEF Depth
<1>17. kept' \in BOOLEAN /\ phase' = "body"
  BY <1>1, <1>2
<1> QED
  BY <1>15, <1>16, <1>17 DEF ScopeInv

\* The end of gen_function() keeps the invariant.
LEMMA StepEndFunction ==
  ASSUME ScopeInv, EndFunction
  PROVE  ScopeInv'
<1> DEFINE w == local_stack  E2 == <<env[1]>>  B == BasesOf(w, env, marks)
           C == BasesOf(<< >>, E2, << >>)
<1>1. /\ phase = "body" /\ visible' = Unlinked(visible, w) /\ pool' = Reclaimed(w)
      /\ local_stack' = << >> /\ marks' = << >> /\ local_scope' = 0 /\ phase' = "file"
      /\ env' = E2 /\ kept' = kept
  BY DEF EndFunction
<1>2. Sound(pool, w, env, marks, kept, visible) /\ Depth /\ kept \in BOOLEAN
  BY <1>1 DEF ScopeInv
<1>3. Len(env) >= 3 /\ Len(env) \in Nat
  BY <1>1, <1>2, BodyDepth
<1>4. Frame(pool, w, B, env) /\ Held(pool, w)
  BY <1>2 DEF Sound
<1>5. B[1] = 0 /\ Len(w) \in Nat
  <2> HIDE DEF B
  <2> QED
    BY <1>4, FrameBases
<1>6. pool \in [SymIndex -> Syms] /\ w \in Seq(SymIndex) /\ env \in Seq([Ident -> 0 .. MaxPool])
  <2> HIDE DEF B
  <2> QED
    BY <1>4 DEF Frame
<1>7. Popped(w, 0) = w
  BY <1>6, SubSeqFull DEF Popped
<1>8. Spared(w, 0, Reclaimed(w))
  <2>1. 0 \in 0 .. Len(w)
    BY <1>5
  <2>2. Spared(w, 0, Reclaimed(Popped(w, 0)))
    BY <2>1, <1>4, <1>6, ReclaimedIs
  <2> QED
    BY <2>2, <1>7
<1>9. E2 \in Seq([Ident -> 0 .. MaxPool]) /\ Len(E2) = 1 /\ E2[1] = env[1]
  <2>1. env[1] \in [Ident -> 0 .. MaxPool]
    BY <1>3, <1>6
  <2> QED
    BY <2>1
<1> HIDE DEF E2
<1>10. C[1] = 0
  BY <1>9 DEF BasesOf
<1> DEFINE e == << >>
<1>11. e \in Seq(SymIndex) /\ Len(e) = 0
  OBVIOUS
<1> HIDE DEF e
<1>12. Closed(pool, w, B, env, kept, 1, 0, Reclaimed(w), e, BasesOf(e, E2, << >>), E2, kept)
  <2>1. BasesOf(e, E2, << >>)[1] = 0
    BY <1>10 DEF e
  <2> HIDE DEF B
  <2> QED
    BY <2>1, <1>5, <1>9, <1>11 DEF Closed
<1>13. Sound(Reclaimed(w), e, E2, << >>, kept, Unlinked(visible, Popped(w, 0)))
  <2> DEFINE z == 0  o == 1
  <2>1. o \in 1 .. Len(env) - 1 /\ z = BasesOf(w, env, marks)[o] /\ z \in z .. Len(w)
        /\ (o = 1 => z = 0)
    BY <1>3, <1>5
  <2>2. Spared(w, z, Reclaimed(w))
        /\ Closed(pool, w, BasesOf(w, env, marks), env, kept, o, z, Reclaimed(w), e,
                  BasesOf(e, E2, << >>), E2, kept)
    BY <1>8, <1>12
  <2> HIDE DEF z, o
  <2>3. Sound(Reclaimed(w), e, E2, << >>, kept, Unlinked(visible, Popped(w, z)))
    BY ZenonT(40), <2>1, <2>2, <1>2, <1>9, <1>11, CloseSound
  <2> QED
    BY <2>3 DEF z
<1>14. Sound(pool', local_stack', env', marks', kept', visible')
  BY <1>1, <1>7, <1>13 DEF e
<1>15. Depth'
  BY <1>1, <1>9 DEF Depth
<1> QED
  BY <1>1, <1>2, <1>14, <1>15 DEF ScopeInv

\* Every step keeps the invariant.
LEMMA ScopeStep == ScopeInv /\ [ScopeNext]_scope_vars => ScopeInv'
<1> SUFFICES ASSUME ScopeInv, [ScopeNext]_scope_vars PROVE ScopeInv'
  OBVIOUS
<1>1. ASSUME NEW v \in Ident, DeclGlobal(v) PROVE ScopeInv'
  BY <1>1, StepDeclGlobal
<1>2. ASSUME NEW v \in Ident, DeclParam(v) PROVE ScopeInv'
  BY <1>2, StepDeclParam
<1>3. ASSUME NEW v \in Ident, DeclLocal(v) PROVE ScopeInv'
  BY <1>3, StepDeclLocal
<1>4. ASSUME NEW v \in Ident, DeclImplicit(v) PROVE ScopeInv'
  BY <1>4, StepDeclImplicit
<1>5. ASSUME NEW v \in Ident, DeclExtern(v) PROVE ScopeInv'
  BY <1>5, StepDeclExtern
<1>6. CASE BeginFunction
  BY <1>6, StepBeginFunction
<1>7. CASE BeginBody
  BY <1>7, StepBeginBody
<1>8. CASE NewScope
  BY <1>8, StepNewScope
<1>9. ASSUME NEW keep \in BOOLEAN, PrevScope(keep) PROVE ScopeInv'
  BY <1>9, StepPrevScope
<1>10. CASE EndFunction
  BY <1>10, StepEndFunction
<1>11. CASE ParseError
  BY <1>11 DEF ParseError, ScopeInv
<1>12. CASE TccgenFinish
  BY <1>12 DEF TccgenFinish, ScopeInv, Idle
<1>13. CASE NewFile
  <2>1. /\ phase = "finished" /\ visible' = NoSyms /\ pool' = [i \in SymIndex |-> NoSym]
        /\ phase' = "file"
        /\ UNCHANGED <<local_stack, local_scope, marks, env, kept>>
    BY <1>13 DEF NewFile
  <2>2. env = <<NoSyms>> /\ local_stack = << >> /\ marks = << >> /\ local_scope = 0
        /\ kept = FALSE
    BY <2>1 DEF ScopeInv, Idle
  <2>3. Sound(pool', local_stack', env', marks', kept', visible')
    BY <2>1, <2>2, NoneSound
  <2>4. Depth'
    BY <2>1, <2>2 DEF Depth
  <2> QED
    BY <2>1, <2>2, <2>3, <2>4 DEF ScopeInv
<1>14. CASE UNCHANGED scope_vars
  BY <1>14 DEF scope_vars, ScopeInv, Depth, Idle
<1> QED
  BY <1>1, <1>2, <1>3, <1>4, <1>5, <1>6, <1>7, <1>8, <1>9, <1>10, <1>11, <1>12, <1>13, <1>14
  DEF ScopeNext

\* The invariant holds in every state of the compiler's scopes.
THEOREM ScopeInvariant == ScopeSpec => []ScopeInv
BY ScopeInitInv, ScopeStep, PTL DEF ScopeSpec
-----------------------------------------------------------------------------
\* The innermost declaration of a name in scope.
LEMMA InnermostIs ==
  ASSUME NEW v \in Ident, Len(env) \in Nat, NEW k \in 1 .. Len(env), env[k][v] # 0,
         \A j \in k + 1 .. Len(env) : env[j][v] = 0
  PROVE  Innermost(v) = env[k][v]
<1> DEFINE I == {i \in 1 .. Len(env) : env[i][v] # 0}
           at == SelectLastInSeq(env, LAMBDA e : e[v] # 0)
<1>1. k \in I /\ \A y \in I : k >= y
  <2>1. \A y \in I : y > k => y \in k + 1 .. Len(env)
    OBVIOUS
  <2> QED
    BY <2>1
<1>2. Max(I) \in I /\ \A y \in I : Max(I) >= y
  BY <1>1 DEF Max
<1>3. at = Max(I)
  BY <1>1 DEF SelectLastInSeq
<1>4. Max(I) = k
  <2>1. \A x, y \in I : x >= y /\ y >= x => x = y
    OBVIOUS
  <2> QED
    BY <2>1, <1>1, <1>2
<1>5. at = k /\ k # 0
  BY <1>3, <1>4
<1> HIDE DEF at
<1> QED
  BY <1>5 DEF Innermost, at

\* No scope declares a name.
LEMMA InnermostNone ==
  ASSUME NEW v \in Ident, \A k \in 1 .. Len(env) : env[k][v] = 0
  PROVE  Innermost(v) = 0
BY DEF Innermost, SelectLastInSeq

\* What the chains say of a visible symbol: it is the innermost one declared,
\* unless a file scope symbol was lost, and nothing it covers is freed.
LEMMA SoundFinds ==
  ASSUME ScopeInv, phase \in {"file", "params", "body"}, NEW v \in Ident
  PROVE  /\ \/ visible[v] = Innermost(v)
            \/ kept /\ visible[v] = 0 /\ Innermost(v) # 0 /\ pool[Innermost(v)].scope = 0
         /\ LET c == Covered(visible[v]) IN
            \A k \in 1 .. Len(c) : pool[c[k]].live /\ pool[c[k]].v = v
<1> DEFINE B == BasesOf(local_stack, env, marks)  w == local_stack  L == Len(env)
<1>1. Sound(pool, w, env, marks, kept, visible) /\ kept \in BOOLEAN
  BY DEF ScopeInv
<1>2. /\ Frame(pool, w, B, env) /\ Held(pool, w) /\ visible \in [Ident -> 0 .. MaxPool]
      /\ Rooted(pool, w, env[1][v], v)
      /\ Chain(pool, w, B, env, kept, v, visible[v])
  BY <1>1 DEF Sound
<1> HIDE DEF B
<1>3. L \in Nat /\ L >= 1 /\ pool \in [SymIndex -> Syms] /\ w \in Seq(SymIndex)
      /\ visible[v] \in 0 .. MaxPool
  BY <1>2 DEF Frame
<1>4. \/ visible[v] = Innermost(v)
      \/ kept /\ visible[v] = 0 /\ Innermost(v) # 0 /\ pool[Innermost(v)].scope = 0
  <2>1. \/ \E k \in 2 .. L :
              /\ visible[v] = env[k][v] /\ visible[v] # 0 /\ pool[visible[v]].scope = ScopeNo(k)
              /\ \A j \in k + 1 .. L : env[j][v] = 0
        \/ /\ \A k \in 2 .. L : env[k][v] = 0
           /\ visible[v] = env[1][v] \/ (kept /\ visible[v] = 0)
    BY <1>1, <1>2, Lookup
  <2>2. CASE \E k \in 2 .. L : /\ visible[v] = env[k][v] /\ visible[v] # 0
                              /\ \A j \in k + 1 .. L : env[j][v] = 0
    <3>1. PICK k \in 2 .. L : /\ visible[v] = env[k][v] /\ visible[v] # 0
                             /\ \A j \in k + 1 .. L : env[j][v] = 0
      BY <2>2
    <3>2. k \in 1 .. Len(env) /\ env[k][v] # 0
      BY <3>1, <1>3
    <3>3. Innermost(v) = env[k][v]
      BY <3>1, <3>2, <1>3, InnermostIs
    <3> QED
      BY <3>1, <3>3
  <2>3. CASE /\ \A k \in 2 .. L : env[k][v] = 0
             /\ visible[v] = env[1][v] \/ (kept /\ visible[v] = 0)
    <3>1. CASE env[1][v] # 0
      <4>1. \A j \in 1 + 1 .. L : env[j][v] = 0
        BY <2>3, <1>3
      <4>2. 1 \in 1 .. Len(env)
        BY <1>3
      <4>3. Innermost(v) = env[1][v]
        BY <3>1, <4>1, <4>2, <1>3, InnermostIs
      <4> QED
        BY <2>3, <3>1, <4>3, <1>2 DEF Rooted
    <3>2. CASE env[1][v] = 0
      <4>1. \A k \in 1 .. Len(env) : k = 1 \/ k \in 2 .. L
        BY <1>3
      <4>2. \A k \in 1 .. Len(env) : env[k][v] = 0
        BY <3>2, <4>1, <2>3
      <4> QED
        BY <2>3, <3>2, <4>2, InnermostNone
    <3> QED
      BY <3>1, <3>2
  <2> QED
    BY <2>1, <2>2, <2>3
<1>5. PICK Q \in SUBSET (1 .. Len(w)), e \in 0 .. MaxPool, f \in [1 .. L -> 0 .. MaxPool] :
        Chained(pool, w, B, env, kept, v, visible[v], Q, e, f)
  BY <1>2 DEF Chain
<1>6. LinkedBy(pool, w, v, visible[v], Q, e) /\ InScope(pool, w, B, env, kept, v, Q, e)
  BY <1>5 DEF Chained
<1>7. Rooted(pool, w, e, v)
  <2>1. e = env[1][v] \/ e = 0
    BY <1>6 DEF InScope
  <2>2. Rooted(pool, w, 0, v)
    BY DEF Rooted
  <2> QED
    BY <2>1, <2>2, <1>2
<1> DEFINE c == Covered(visible[v])
<1>8. WholeChain(w, Q, e, c)
  BY <1>2, <1>3, <1>6, <1>7, CoveredWhole
<1> HIDE DEF c
<1>9. ASSUME NEW k \in 1 .. Len(c) PROVE pool[c[k]].live /\ pool[c[k]].v = v
  <2>1. (e # 0 /\ c[k] = e) \/ \E q \in Q : c[k] = w[q]
    BY <1>8 DEF WholeChain
  <2>2. \A q \in Q : pool[w[q]].live /\ pool[w[q]].v = v
    BY <1>2, <1>6 DEF Held, LinkedBy
  <2> QED
    BY <2>1, <2>2, <1>7 DEF Rooted
<1> QED
  BY <1>4, <1>9 DEF c

\* sym_find() never returns a symbol of a closed scope and misses none but file
\* scope ones after a statement expression; no chain leads to a freed Sym.
THEOREM FindsInnermost == ScopeSpec => []FindIsSound
<1>1. ScopeInv => FindIsSound
  BY SoundFinds DEF FindIsSound
<1> QED
  BY <1>1, ScopeInvariant, PTL

\* The compiler's scope numbers: the parameters and the body block of a function
\* share one, every other open scope has its own, and none has file scope's 0.
LEMMA SameNumber ==
  \A n \in Nat : n >= 3 =>
    /\ ScopeNo(n) # 0
    /\ \A j \in 2 .. n : (ScopeNo(j) = ScopeNo(n)) <=> (j = n \/ (n = 3 /\ j = 2))
BY DEF ScopeNo

\* A local declaration is refused exactly if the scope, parameters and body
\* counting as one, declares the name already.
LEMMA RefusedExactly ==
  ASSUME ScopeInv, NEW v \in Ident, DeclLocal(v)
  PROVE  phase' = "error" <=> \/ env[Len(env)][v] # 0
                              \/ Len(env) = 3 /\ env[2][v] # 0
<1> DEFINE B == BasesOf(local_stack, env, marks)  w == local_stack  L == Len(env)
<1>1. phase = "body" /\ (phase' = "error" <=> visible[v] # 0 /\ pool[visible[v]].scope = local_scope)
  BY DEF DeclLocal
<1>2. Sound(pool, w, env, marks, kept, visible) /\ kept \in BOOLEAN /\ Depth
  BY <1>1 DEF ScopeInv
<1>3. /\ Frame(pool, w, B, env) /\ Rooted(pool, w, env[1][v], v)
      /\ Chain(pool, w, B, env, kept, v, visible[v])
  BY <1>2 DEF Sound
<1> HIDE DEF B
<1>4. L \in Nat /\ L >= 3 /\ local_scope = ScopeNo(L)
  BY <1>1, <1>2, BodyDepth
<1>5. \/ \E k \in 2 .. L :
            /\ visible[v] = env[k][v] /\ visible[v] # 0 /\ pool[visible[v]].scope = ScopeNo(k)
            /\ \A j \in k + 1 .. L : env[j][v] = 0
      \/ /\ \A k \in 2 .. L : env[k][v] = 0
         /\ visible[v] = env[1][v] \/ (kept /\ visible[v] = 0)
  BY <1>2, <1>3, Lookup
<1>6. CASE \E k \in 2 .. L :
            /\ visible[v] = env[k][v] /\ visible[v] # 0 /\ pool[visible[v]].scope = ScopeNo(k)
            /\ \A j \in k + 1 .. L : env[j][v] = 0
  <2>1. PICK k \in 2 .. L :
          /\ visible[v] = env[k][v] /\ visible[v] # 0 /\ pool[visible[v]].scope = ScopeNo(k)
          /\ \A j \in k + 1 .. L : env[j][v] = 0
    BY <1>6
  <2>2. ScopeNo(k) = ScopeNo(L) <=> (k = L \/ (L = 3 /\ k = 2))
    BY <1>4, SameNumber
  <2>3. (env[L][v] # 0) <=> (k = L)
    BY <2>1, <1>4
  <2>4. L = 3 /\ k # L => k = 2
    BY <1>4
  <2>5. L = 3 /\ env[2][v] # 0 => k = L \/ k = 2
    BY <2>4
  <2>6. k = 2 => env[2][v] # 0
    BY <2>1
  <2>7. phase' = "error" <=> ScopeNo(k) = ScopeNo(L)
    BY <2>1, <1>1, <1>4
  <2> QED
    BY <2>2, <2>3, <2>5, <2>6, <2>7
<1>7. CASE /\ \A k \in 2 .. L : env[k][v] = 0
           /\ visible[v] = env[1][v] \/ (kept /\ visible[v] = 0)
  <2>1. env[L][v] = 0 /\ env[2][v] = 0
    BY <1>4, <1>7
  <2>2. ~ (visible[v] # 0 /\ pool[visible[v]].scope = local_scope)
    <3>1. local_scope # 0
      BY <1>4, SameNumber
    <3> QED
      BY <3>1, <1>3, <1>7 DEF Rooted
  <2> QED
    BY <2>1, <2>2, <1>1
<1> QED
  BY <1>5, <1>6, <1>7

\* The same of every step of the compiler's scopes.
THEOREM RedeclarationsRefused == ScopeSpec => RedeclarationExact
<1> DEFINE Exact == \A v \in Ident :
             DeclLocal(v) =>
               (phase' = "error"
                  <=> \/ env[Len(env)][v] # 0
                      \/ Len(env) = 3 /\ env[2][v] # 0)
<1>1. ScopeInv => Exact
  BY RefusedExactly
<1>2. ScopeInv /\ [ScopeNext]_scope_vars => [Exact]_scope_vars
  BY <1>1
<1> QED
  BY <1>2, ScopeInvariant, PTL DEF ScopeSpec, RedeclarationExact
====
