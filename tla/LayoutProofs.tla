---------------------------- MODULE LayoutProofs ----------------------------
(***************************************************************************)
(* Proofs about StructLayout, for any members, in any number, under any    *)
(* packing: the members of a type share no bit and are accessed inside it, *)
(* and without -mms-bitfields all of them are where gcc's rule puts them.  *)
(*                                                                         *)
(* The invariant has three parts.  The members lie, in their order, before *)
(* a frontier that c, bit_pos and, in MSVC's mode, offset determine, and   *)
(* the frontier lies in what is used of the object; in MSVC's mode that    *)
(* needs the unit of a run of bit-fields to be reserved, and so that every *)
(* field of no width ends a run that was begun.  In gcc's mode 8 * c +     *)
(* bit_pos is gcc's counter of bits, and maxalign the greatest alignment.  *)
(* And once the type is complete, the unit chosen for every bit-field has  *)
(* all its bits and lies in the object, or it is accessed byte by byte.    *)
(***************************************************************************)
EXTENDS StructLayout, FiniteSetTheorems, WellFoundedInduction, TLAPS

-----------------------------------------------------------------------------
(* Arithmetic.                                                             *)

\* A set of numbers that holds 0 and, up to n, the successors of its members,
\* holds all up to n.
LEMMA UpTo ==
  ASSUME NEW n \in Nat, NEW S, 0 \in S, \A k \in 0 .. n : k \in S /\ k < n => k + 1 \in S
  PROVE  \A k \in 0 .. n : k \in S
<1> DEFINE F == {k \in 0 .. n : k \notin S}
<1>1. SUFFICES ASSUME F # {} PROVE FALSE
  OBVIOUS
<1>2. F \subseteq Nat
  OBVIOUS
<1>3. PICK x \in F : \A y \in F : ~ (<<y, x>> \in OpToRel(<, Nat))
  BY <1>1, <1>2, NatLessThanWellFounded, WFMin
<1>4. x # 0 /\ x - 1 \in 0 .. n /\ x - 1 < x /\ x - 1 \in Nat
  OBVIOUS
<1>5. x - 1 \notin F
  BY <1>2, <1>3, <1>4 DEF OpToRel
<1>6. x - 1 \in S /\ x - 1 < n /\ x - 1 + 1 = x
  BY <1>4, <1>5
<1> QED
  BY <1>3, <1>4, <1>6

\* A quotient is the number whose multiple is next below.
LEMMA Quotient ==
  ASSUME NEW x \in Nat, NEW d \in Nat \ {0}
  PROVE  /\ x \div d \in Nat /\ (x \div d) * d \in Nat
         /\ (x \div d) * d <= x /\ x < (x \div d) * d + d
         /\ x % d = x - (x \div d) * d
  OBVIOUS

\* A larger number has the larger multiple.
LEMMA Multiples ==
  ASSUME NEW p \in Nat, NEW q \in Nat, NEW d \in Nat \ {0}, p < q
  PROVE  p * d \in Nat /\ q * d \in Nat /\ p * d + d <= q * d
  OBVIOUS

\* There is only one such number.
LEMMA OneQuotient ==
  ASSUME NEW x \in Nat, NEW d \in Nat \ {0}, NEW q \in Nat, q * d <= x, x < q * d + d
  PROVE  x \div d = q
<1> DEFINE r == x \div d
<1>1. r \in Nat /\ r * d \in Nat /\ r * d <= x /\ x < r * d + d
  BY Quotient
<1> HIDE DEF r
<1>2. q * d \in Nat
  OBVIOUS
<1>3. ~ (r < q)
  <2> SUFFICES ASSUME r < q PROVE FALSE
    OBVIOUS
  <2>1. r * d + d <= q * d
    BY <1>1, Multiples
  <2> QED
    BY <1>1, <1>2, <2>1
<1>4. ~ (q < r)
  <2> SUFFICES ASSUME q < r PROVE FALSE
    OBVIOUS
  <2>1. q * d + d <= r * d
    BY <1>1, Multiples
  <2> QED
    BY <1>1, <1>2, <2>1
<1>5. r = q
  BY <1>1, <1>3, <1>4
<1> QED
  BY <1>5 DEF r

\* c = (c + a - 1) & -a.
LEMMA UpFacts ==
  ASSUME NEW n \in Nat, NEW a \in Nat \ {0}
  PROVE  /\ Up(n, a) \in Nat /\ n <= Up(n, a) /\ Up(n, a) <= n + a - 1
         /\ Up(n, a) % a = 0
<1> DEFINE x == n + a - 1
           q == x \div a
<1>1. x \in Nat
  OBVIOUS
<1>2. q \in Nat /\ q * a \in Nat /\ q * a <= x /\ x < q * a + a
  BY <1>1, Quotient
<1>3. Up(n, a) = q * a
  BY DEF Up
<1> HIDE DEF q
<1>4. (q * a) \div a = q
  BY <1>2, OneQuotient
<1>5. (q * a) % a = q * a - ((q * a) \div a) * a
  BY <1>2, Quotient
<1>6. (q * a) % a = q * a - q * a
  BY <1>4, <1>5
<1>7. (q * a) % a = 0
  BY <1>2, <1>6
<1> QED
  BY <1>1, <1>2, <1>3, <1>7

\* Aligning the bytes that b bits need is aligning the bits.
LEMMA UpBits ==
  ASSUME NEW c \in Nat, NEW b \in Nat, NEW a \in Nat \ {0}
  PROVE  Up(8 * c + b, 8 * a) = 8 * Up(c + BytesOf(b), a)
<1> DEFINE t == BytesOf(b)
           x == c + t + a - 1
           q == x \div a
           y == 8 * c + b + 8 * a - 1
           m == q * a
<1>1. t \in Nat /\ b <= 8 * t /\ 8 * t <= b + 7
  BY DEF BytesOf
<1> HIDE DEF t
<1>2. x \in Nat
  BY <1>1
<1>3. q \in Nat /\ m \in Nat /\ m <= x /\ x < m + a
  BY <1>2, Quotient
<1>4. Up(c + t, a) = m
  BY DEF Up
<1> HIDE DEF q
<1>5. y \in Nat /\ 8 * a \in Nat \ {0} /\ 8 * m <= y /\ y < 8 * m + 8 * a
  <2> HIDE DEF m
  <2> QED
    BY <1>1, <1>3
<1>6. q * (8 * a) = 8 * m
  BY <1>3
<1>7. y \div (8 * a) = q
  BY <1>3, <1>5, <1>6, OneQuotient
<1>8. Up(8 * c + b, 8 * a) = q * (8 * a)
  BY <1>7 DEF Up
<1> QED
  BY <1>4, <1>6, <1>8 DEF t

-----------------------------------------------------------------------------
(* The unit a bit-field is accessed by.                                    *)

Sizes == {1, 2, 4, 8}

\* Every type is one, two, four or eight bytes long.
LEMMA SizeOfType == \A bt \in DOMAIN TypeSize : TypeSize[bt] \in Sizes
  BY DEF TypeSize, Sizes

\* The aligned place around a position.
Around(at, s) == ((at \div 8) \div s) * s

\* It lies at or before the position, and a longer unit begins no later.
LEMMA AroundFacts ==
  ASSUME NEW at \in Nat
  PROVE  /\ \A s \in Sizes : Around(at, s) \in Nat /\ 8 * Around(at, s) <= at
         /\ \A s, t \in Sizes : s <= t => Around(at, t) <= Around(at, s)
<1>1. \A s \in Sizes : Around(at, s) \in Nat /\ 8 * Around(at, s) <= at
  BY DEF Around, Sizes
<1>2. /\ Around(at, 2) <= Around(at, 1) /\ Around(at, 4) <= Around(at, 2)
      /\ Around(at, 8) <= Around(at, 4)
  BY DEF Around
<1>3. \A s \in Sizes : Around(at, s) <= Around(at, s)
  BY <1>1
<1>4. /\ Around(at, 4) <= Around(at, 1) /\ Around(at, 8) <= Around(at, 1)
      /\ Around(at, 8) <= Around(at, 2)
  BY <1>1, <1>2 DEF Sizes
<1> QED
  BY <1>1, <1>2, <1>3, <1>4 DEF Sizes

\* The smallest type with room for so many bits.
LEMMA UnitForIs ==
  ASSUME NEW b \in Nat
  PROVE  /\ b > 32 => UnitFor(b) = 8
         /\ b > 16 /\ b <= 32 => UnitFor(b) = 4
         /\ b > 8 /\ b <= 16 => UnitFor(b) = 2
         /\ b <= 8 => UnitFor(b) = 1
BY DEF UnitFor

\* More bits ask for no smaller type.
LEMMA UnitForFacts ==
  ASSUME NEW m \in Nat, NEW n \in Nat, m <= n
  PROVE  UnitFor(m) \in Sizes /\ UnitFor(m) <= UnitFor(n)
<1>1. ASSUME NEW b \in Nat
      PROVE  UnitFor(b) = IF b > 32 THEN 8 ELSE IF b > 16 THEN 4 ELSE IF b > 8 THEN 2 ELSE 1
  BY UnitForIs
<1> QED
  BY <1>1 DEF Sizes

\* The unit struct_layout() finds is one of an integer type and leaves the bits where
\* they are: the sizes tried only grow, so two of five in a row are the same.
LEMMA SearchFacts ==
  ASSUME NEW at \in Nat, NEW width \in Nat
  PROVE  LET u == Search(at, width) IN
         /\ u.size \in Sizes /\ u.off \in Nat /\ u.pos \in Nat
         /\ 8 * u.off + u.pos = at
<1> DEFINE place(s) == Around(at, s)
           asked(s) == UnitFor(at - 8 * place(s) + width)
           s1 == asked(1)
           s2 == asked(s1)
           s3 == asked(s2)
           s4 == asked(s3)
           tried == <<1, s1, s2, s3, s4>>
           Same(k) == place(tried[k]) = place(tried[k - 1])
           end == CHOOSE k \in 2 .. 5 :
                    /\ place(tried[k]) = place(tried[k - 1])
                    /\ \A j \in 2 .. k - 1 : place(tried[j]) # place(tried[j - 1])
<1>1. \A s \in Sizes : asked(s) \in Sizes
  <2> SUFFICES ASSUME NEW s \in Sizes PROVE asked(s) \in Sizes
    OBVIOUS
  <2>1. at - 8 * place(s) + width \in Nat
    BY AroundFacts
  <2> QED
    BY <2>1, UnitForFacts
<1>2. \A s, t \in Sizes : s <= t => asked(s) <= asked(t)
  <2> SUFFICES ASSUME NEW s \in Sizes, NEW t \in Sizes, s <= t PROVE asked(s) <= asked(t)
    OBVIOUS
  <2>1. place(t) <= place(s) /\ place(s) \in Nat /\ place(t) \in Nat
    BY AroundFacts
  <2>2. /\ at - 8 * place(s) + width \in Nat /\ at - 8 * place(t) + width \in Nat
        /\ at - 8 * place(s) + width <= at - 8 * place(t) + width
    BY <2>1, AroundFacts
  <2> QED
    BY <2>2, UnitForFacts
<1> HIDE DEF place, asked
<1>3. 1 \in Sizes /\ s1 \in Sizes
  BY <1>1 DEF Sizes
<1>4. s2 \in Sizes /\ s1 <= s2
  BY <1>1, <1>2, <1>3 DEF Sizes
<1>5. s3 \in Sizes /\ s2 <= s3
  BY <1>1, <1>2, <1>3, <1>4
<1>6. s4 \in Sizes /\ s3 <= s4
  BY <1>1, <1>2, <1>4, <1>5
<1> HIDE DEF s1, s2, s3, s4
<1>7. \/ 1 = s1 \/ s1 = s2 \/ s2 = s3 \/ s3 = s4
  BY <1>3, <1>4, <1>5, <1>6 DEF Sizes
<1>8. Same(2) \/ Same(3) \/ Same(4) \/ Same(5)
  BY <1>7
<1>9. end \in 2 .. 5
  <2>1. \E k \in 2 .. 5 : Same(k) /\ \A j \in 2 .. k - 1 : ~ Same(j)
    <3> HIDE DEF Same
    <3>1. CASE Same(2)
      BY <3>1
    <3>2. CASE ~ Same(2) /\ Same(3)
      BY <3>2
    <3>3. CASE ~ Same(2) /\ ~ Same(3) /\ Same(4)
      BY <3>3
    <3>4. CASE ~ Same(2) /\ ~ Same(3) /\ ~ Same(4) /\ Same(5)
      BY <3>4
    <3> QED
      BY <1>8, <3>1, <3>2, <3>3, <3>4
  <2> QED
    BY <2>1
<1> DEFINE s == tried[end]
<1>10. s \in Sizes
  <2> HIDE DEF end
  <2> QED
    BY <1>3, <1>4, <1>5, <1>6, <1>9
<1>11. Search(at, width) = [off |-> place(s), pos |-> at - 8 * place(s), size |-> s]
  BY DEF Search, place, asked, Around, s1, s2, s3, s4
<1> HIDE DEF s
<1>12. place(s) \in Nat /\ 8 * place(s) <= at
  BY <1>10, AroundFacts DEF place
<1> QED
  BY <1>10, <1>11, <1>12

-----------------------------------------------------------------------------
(* Byte by byte.                                                           *)

\* What round k of load_packed_bf()'s loop takes.
Piece(o, bit, width, k) ==
  LET left == MaxOf(0, width + bit - 8 * k) IN
  IF k = 0 THEN [byte |-> o, bit |-> bit, n |-> MinOf(8 - bit, width), left |-> width]
  ELSE [byte |-> o + k, bit |-> 0, n |-> MinOf(8, left), left |-> left]

\* What a round makes of what the one before it took.
NextPiece(o, p, k) ==
  [byte |-> o + k, bit |-> 0, n |-> MinOf(8, p.left - p.n), left |-> p.left - p.n]

\* The loop goes from one piece to the next.
LEMMA NextPieceIs ==
  ASSUME NEW o \in Nat, NEW bit \in 0 .. 7, NEW width \in Nat, NEW k \in Nat \ {0}
  PROVE  NextPiece(o, Piece(o, bit, width, k - 1), k) = Piece(o, bit, width, k)
<1> DEFINE p == Piece(o, bit, width, k - 1)
           left == MaxOf(0, width + bit - 8 * k)
<1>1. p.left - p.n = left
  <2>1. CASE k = 1
    BY <2>1 DEF Piece, MinOf, MaxOf
  <2>2. CASE k # 1
    <3> DEFINE l == MaxOf(0, width + bit - 8 * (k - 1))
    <3>1. p.left = l /\ p.n = MinOf(8, l)
      BY <2>2 DEF Piece
    <3>2. l - MinOf(8, l) = left
      BY DEF MinOf, MaxOf
    <3> QED
      BY <3>1, <3>2
  <2> QED
    BY <2>1, <2>2
<1>2. Piece(o, bit, width, k) = [byte |-> o + k, bit |-> 0, n |-> MinOf(8, left), left |-> left]
  BY DEF Piece
<1> HIDE DEF p, left
<1> QED
  BY <1>1, <1>2 DEF NextPiece, p

\* load_packed_bf() and store_packed_bf() take these pieces.
LEMMA BytewiseIs ==
  ASSUME NEW o \in Nat, NEW bit \in 0 .. 7, NEW width \in Nat
  PROVE  Bytewise(o, bit, width) =
           {Piece(o, bit, width, k) : k \in {j \in 0 .. width : Piece(o, bit, width, j).left > 0}}
<1> DEFINE first == [byte |-> o, bit |-> bit, n |-> MinOf(8 - bit, width), left |-> width]
           G(c) == [k \in 0 .. width |-> IF k = 0 THEN first ELSE NextPiece(o, c[k - 1], k)]
           from == CHOOSE c : c = G(c)
           e == [k \in 0 .. width |-> Piece(o, bit, width, k)]
<1>1. Piece(o, bit, width, 0) = first
  BY DEF Piece
<1> HIDE DEF first
<1>2. e = G(e)
  <2>1. ASSUME NEW k \in 0 .. width
        PROVE  e[k] = IF k = 0 THEN first ELSE NextPiece(o, e[k - 1], k)
    <3>1. CASE k = 0
      BY <1>1, <3>1
    <3>2. CASE k # 0
      <4>1. k \in Nat \ {0} /\ k - 1 \in 0 .. width
        BY <3>2
      <4>2. e[k - 1] = Piece(o, bit, width, k - 1) /\ e[k] = Piece(o, bit, width, k)
        BY <4>1
      <4> HIDE DEF e
      <4> QED
        BY <4>1, <4>2, <3>2, NextPieceIs
    <3> QED
      BY <3>1, <3>2
  <2> QED
    BY <2>1
<1>3. from = G(from)
  BY <1>2
<1> HIDE DEF from
<1>4. \A k \in 0 .. width : from[k] = Piece(o, bit, width, k)
  <2> DEFINE S == {k \in 0 .. width : from[k] = Piece(o, bit, width, k)}
  <2>1. 0 \in S
    BY <1>1, <1>3
  <2>2. ASSUME NEW k \in 0 .. width, k \in S, k < width PROVE k + 1 \in S
    <3>1. k + 1 \in 0 .. width /\ k + 1 # 0 /\ k + 1 \in Nat \ {0} /\ k + 1 - 1 = k
      BY <2>2
    <3>2. from[k + 1] = NextPiece(o, from[k], k + 1)
      BY <1>3, <3>1
    <3>3. from[k] = Piece(o, bit, width, k + 1 - 1)
      BY <2>2, <3>1
    <3>4. NextPiece(o, Piece(o, bit, width, k + 1 - 1), k + 1) = Piece(o, bit, width, k + 1)
      BY <3>1, NextPieceIs
    <3> QED
      BY <3>1, <3>2, <3>3, <3>4
  <2> HIDE DEF S
  <2>3. \A k \in 0 .. width : k \in S
    BY <2>1, <2>2, UpTo
  <2> QED
    BY <2>3 DEF S
<1>5. Bytewise(o, bit, width) = {from[k] : k \in {j \in 0 .. width : from[j].left > 0}}
  BY DEF Bytewise, from, first, NextPiece
<1> QED
  BY <1>4, <1>5

\* What a piece takes is what the member has of the byte.
Takes(o, bit, width, k, p) ==
  /\ p.byte \in Nat /\ p.n \in Nat \ {0} /\ 8 * p.byte + p.bit \in Nat
  /\ p.byte = o + k
  /\ 8 * p.byte + p.bit = MaxOf(8 * (o + k), 8 * o + bit)
  /\ 8 * p.byte + p.bit + p.n = MinOf(8 * (o + k) + 8, 8 * o + bit + width)

\* Every round that has bits left takes some of its byte.
LEMMA PieceFacts ==
  ASSUME NEW o \in Nat, NEW bit \in 0 .. 7, NEW width \in Nat, NEW k \in 0 .. width,
         NEW p, p = Piece(o, bit, width, k), p.left > 0
  PROVE  Takes(o, bit, width, k, p)
<1> USE DEF Takes
<1>1. CASE k = 0
  BY <1>1 DEF Piece, MinOf, MaxOf
<1>2. CASE k # 0
  <2> DEFINE left == MaxOf(0, width + bit - 8 * k)
  <2>1. Piece(o, bit, width, k) = [byte |-> o + k, bit |-> 0, n |-> MinOf(8, left), left |-> left]
    BY <1>2 DEF Piece
  <2>2. left > 0 /\ left \in Nat /\ left = width + bit - 8 * k
    BY <2>1 DEF MaxOf
  <2> HIDE DEF left
  <2> QED
    BY <1>2, <2>1, <2>2 DEF MinOf, MaxOf
<1> QED
  BY <1>1, <1>2

\* Together they take every bit of the member and nothing else.
LEMMA BytewiseFacts ==
  ASSUME NEW o \in Nat, NEW bit \in 0 .. 7, NEW width \in Nat \ {0}
  PROVE  LET ps == Bytewise(o, bit, width) IN
         /\ UNION {8 * p.byte + p.bit .. 8 * p.byte + p.bit + p.n - 1 : p \in ps}
              = 8 * o + bit .. 8 * o + bit + width - 1
         /\ \A p \in ps : p.byte \in Nat /\ 8 * p.byte < 8 * o + bit + width
<1> DEFINE ps == Bytewise(o, bit, width)
           P(k) == Piece(o, bit, width, k)
           K == {j \in 0 .. width : P(j).left > 0}
           bits(p) == 8 * p.byte + p.bit .. 8 * p.byte + p.bit + p.n - 1
           all == 8 * o + bit .. 8 * o + bit + width - 1
<1>1. ps = {P(k) : k \in K}
  BY BytewiseIs
<1> HIDE DEF ps, P
<1>2. ASSUME NEW k \in K
      PROVE  /\ P(k).byte \in Nat /\ 8 * P(k).byte < 8 * o + bit + width
             /\ bits(P(k)) = MaxOf(8 * (o + k), 8 * o + bit)
                               .. MinOf(8 * (o + k) + 8, 8 * o + bit + width) - 1
  <2>1. k \in 0 .. width /\ P(k).left > 0
    OBVIOUS
  <2> DEFINE p == P(k)
             first == 8 * p.byte + p.bit
             last == first + p.n
  <2>0. p.left > 0 /\ p = Piece(o, bit, width, k)
    BY <2>1 DEF P
  <2> HIDE DEF p
  <2>2. /\ p.byte \in Nat /\ p.n \in Nat \ {0} /\ first \in Nat /\ p.byte = o + k
        /\ first = MaxOf(8 * (o + k), 8 * o + bit)
        /\ last = MinOf(8 * (o + k) + 8, 8 * o + bit + width)
    <3>1. Takes(o, bit, width, k, p)
      BY <2>0, <2>1, PieceFacts
    <3> QED
      BY <3>1 DEF Takes
  <2>3. first < last /\ last <= 8 * o + bit + width /\ 8 * p.byte <= first /\ last \in Nat
    <3>1. last = first + p.n
      OBVIOUS
    <3>2. MinOf(8 * (o + k) + 8, 8 * o + bit + width) <= 8 * o + bit + width
      BY DEF MinOf
    <3>3. 8 * (o + k) <= MaxOf(8 * (o + k), 8 * o + bit)
      BY DEF MaxOf
    <3>4. 8 * p.byte <= first
      BY <2>2, <3>3
    <3> HIDE DEF first, last
    <3> QED
      BY <2>2, <3>1, <3>2, <3>4
  <2>4. bits(p) = first .. last - 1
    BY <2>2
  <2> HIDE DEF first, last
  <2>5. p.byte \in Nat /\ 8 * p.byte < 8 * o + bit + width
    BY <2>2, <2>3
  <2> QED
    BY <2>2, <2>4, <2>5 DEF p
<1> HIDE DEF P
<1>3. \A p \in ps : p.byte \in Nat /\ 8 * p.byte < 8 * o + bit + width
  BY <1>1, <1>2
<1>4. ASSUME NEW p \in ps PROVE bits(p) \subseteq all
  <2>1. PICK k \in K : p = P(k)
    BY <1>1
  <2>2. bits(p) = MaxOf(8 * (o + k), 8 * o + bit)
                    .. MinOf(8 * (o + k) + 8, 8 * o + bit + width) - 1
    BY <1>2, <2>1
  <2> HIDE DEF bits
  <2>3. k \in Nat
    OBVIOUS
  <2> HIDE DEF K
  <2> QED
    BY <2>2, <2>3 DEF MaxOf, MinOf
<1>5. ASSUME NEW x \in all PROVE \E p \in ps : x \in bits(p)
  <2> DEFINE k == (x - 8 * o) \div 8
  <2>1. x \in Nat /\ x - 8 * o \in Nat /\ x - 8 * o < bit + width
    OBVIOUS
  <2>2. k \in Nat /\ 8 * k <= x - 8 * o /\ x - 8 * o < 8 * k + 8
    BY <2>1
  <2> HIDE DEF k
  <2>3. k \in 0 .. width
    BY <2>1, <2>2
  <2>4. P(k).left > 0
    <3>1. CASE k = 0
      BY <3>1 DEF P, Piece
    <3>2. CASE k # 0
      <4>1. P(k).left = MaxOf(0, width + bit - 8 * k)
        BY <3>2 DEF P, Piece
      <4>2. width + bit - 8 * k > 0
        BY <2>1, <2>2
      <4> QED
        BY <4>1, <4>2, <2>2 DEF MaxOf
    <3> QED
      BY <3>1, <3>2
  <2>5. k \in K
    BY <2>3, <2>4
  <2>6. bits(P(k)) = MaxOf(8 * (o + k), 8 * o + bit)
                       .. MinOf(8 * (o + k) + 8, 8 * o + bit + width) - 1
    BY <1>2, <2>5
  <2>7. x \in bits(P(k))
    <3> HIDE DEF bits, K
    <3> QED
      BY <2>1, <2>2, <2>6 DEF MaxOf, MinOf
  <2> QED
    BY <1>1, <2>5, <2>7
<1>6. UNION {bits(p) : p \in ps} = all
  <2> HIDE DEF bits, all
  <2> QED
    BY <1>4, <1>5
<1> QED
  BY <1>3, <1>6 DEF ps

-----------------------------------------------------------------------------
(* What an access touches.                                                 *)

\* A member as it is laid out.
Members ==
  [bt : DOMAIN TypeSize, width : Plain .. 64, anon : BOOLEAN, packed : BOOLEAN, aligned : Nat,
   size : Sizes, off : Nat, pos : Nat, unit : Sizes \cup {0, 7}]

\* Its place: the first bit, and how many there are.
First(m) == 8 * m.off + m.pos
Bits(m) == IF m.width = Plain THEN 8 * TypeSize[m.bt] ELSE m.width

\* A plain member is whole bytes.
Whole(m) == m.width = Plain => m.pos = 0 /\ m.unit = 0 /\ m.size = TypeSize[m.bt]

\* The unit of a bit-field has all its bits and lies in an object of this size.
Fits(m, size) ==
  LET own == IF m.unit = 0 THEN m.size ELSE m.unit IN
  m.width > 0 /\ m.unit # 7 => m.pos + m.width <= 8 * own /\ m.off + own <= size

\* An access touches all bits of the member and stays in the object.
LEMMA AccessFacts ==
  ASSUME NEW m \in Members, NEW size \in Nat, Whole(m), Fits(m, size), m.width # 0,
         First(m) + Bits(m) <= 8 * size
  PROVE  /\ Access(m).bits = First(m) .. First(m) + Bits(m) - 1
         /\ Access(m).bytes \subseteq 0 .. size - 1
<1> DEFINE own == IF m.unit = 0 THEN m.size ELSE m.unit
<1>1. /\ m.off \in Nat /\ m.pos \in Nat /\ m.width \in Plain .. 64 /\ m.size \in Sizes
      /\ m.unit \in Sizes \cup {0, 7} /\ m.bt \in DOMAIN TypeSize
  BY DEF Members
<1>2. CASE m.width = Plain
  <2>1. own \in Sizes /\ m.pos = 0 /\ Bits(m) = 8 * own
    BY <1>1, <1>2 DEF Whole, Bits
  <2>2. /\ Access(m).bits = 8 * m.off .. 8 * m.off + 8 * own - 1
        /\ Access(m).bytes = m.off .. m.off + own - 1
    BY <1>2 DEF Access
  <2> HIDE DEF own
  <2>3. First(m) = 8 * m.off /\ m.off + own <= size /\ own \in Nat
    BY <1>1, <2>1 DEF First, Sizes
  <2> QED
    BY <1>1, <2>1, <2>2, <2>3
<1>3. CASE m.width # Plain /\ m.unit # 7
  <2>1. own \in Sizes /\ Bits(m) = m.width /\ m.width > 0
    BY <1>1, <1>3 DEF Bits, Plain
  <2>2. m.pos + m.width <= 8 * own /\ m.off + own <= size
    BY <1>3, <2>1 DEF Fits
  <2>3. /\ Access(m).bits = 8 * m.off + m.pos
                              .. 8 * m.off + m.pos + MinOf(m.width, 8 * own - m.pos) - 1
        /\ Access(m).bytes = m.off .. m.off + own - 1
    BY <1>3 DEF Access
  <2> HIDE DEF own
  <2>4. own \in Nat
    BY <2>1 DEF Sizes
  <2>5. MinOf(m.width, 8 * own - m.pos) = m.width
    BY <1>1, <2>2, <2>4 DEF MinOf
  <2>6. Access(m).bits = First(m) .. First(m) + Bits(m) - 1
    BY <2>1, <2>3, <2>5 DEF First
  <2>7. Access(m).bytes \subseteq 0 .. size - 1
    BY <1>1, <2>2, <2>3, <2>4
  <2> QED
    BY <2>6, <2>7
<1>4. CASE m.width # Plain /\ m.unit = 7
  <2> DEFINE o == m.off + m.pos \div 8
             bit == m.pos % 8
             ps == Bytewise(o, bit, m.width)
  <2>1. /\ o \in Nat /\ bit \in 0 .. 7 /\ m.width \in Nat \ {0} /\ Bits(m) = m.width
        /\ 8 * o + bit = First(m)
    BY <1>1, <1>4 DEF Bits, Plain, First
  <2>2. /\ Access(m).bytes = {p.byte : p \in ps}
        /\ Access(m).bits =
             UNION {8 * p.byte + p.bit .. 8 * p.byte + p.bit + p.n - 1 : p \in ps}
    BY <1>4 DEF Access
  <2> HIDE DEF o, bit
  <2>3. /\ UNION {8 * p.byte + p.bit .. 8 * p.byte + p.bit + p.n - 1 : p \in ps}
             = 8 * o + bit .. 8 * o + bit + m.width - 1
        /\ \A p \in ps : p.byte \in Nat /\ 8 * p.byte < 8 * o + bit + m.width
    BY <2>1, BytewiseFacts
  <2> HIDE DEF ps
  <2>4. Access(m).bits = First(m) .. First(m) + Bits(m) - 1
    BY <2>1, <2>2, <2>3
  <2>5. ASSUME NEW p \in ps PROVE p.byte \in 0 .. size - 1
    <3>1. p.byte \in Nat /\ 8 * p.byte < First(m) + Bits(m)
      BY <2>1, <2>3
    <3>2. First(m) + Bits(m) \in Nat
      BY <1>1, <2>1 DEF First
    <3> QED
      BY <3>1, <3>2
  <2> QED
    BY <2>2, <2>4, <2>5
<1> QED
  BY <1>2, <1>3, <1>4

\* What is declared of a member: its place does not depend on anything else.
Same(m, f) ==
  m.bt = f.bt /\ m.width = f.width /\ m.anon = f.anon /\ m.packed = f.packed
    /\ m.aligned = f.aligned

\* The unit struct_layout() chooses last leaves the member where it is.
LEMMA AccessedFacts ==
  ASSUME NEW f \in Members, f.unit = 0, Whole(f), NEW size \in Nat
  PROVE  LET m == Accessed(f, size) IN
         /\ m \in Members /\ Same(m, f) /\ Whole(m) /\ Fits(m, size)
         /\ First(m) = First(f) /\ (f.width = Plain => m.off = f.off)
<1> DEFINE m == Accessed(f, size)
           u == Search(8 * f.off + f.pos, f.width)
<1>1. /\ f.off \in Nat /\ f.pos \in Nat /\ f.width \in Plain .. 64 /\ f.size \in Sizes
      /\ Sizes \subseteq Nat
  BY DEF Members, Sizes
<1>2. CASE f.width <= 0 \/ (f.pos + f.width <= 8 * f.size /\ f.off + f.size <= size)
  <2>1. m = f
    BY <1>2 DEF Accessed
  <2>2. f.width > 0 => f.pos + f.width <= 8 * f.size /\ f.off + f.size <= size
    BY <1>1, <1>2
  <2> HIDE DEF m
  <2> QED
    BY <2>1, <2>2 DEF Same, Fits, m
<1>3. CASE ~ (f.width <= 0 \/ (f.pos + f.width <= 8 * f.size /\ f.off + f.size <= size))
  <2>1. 8 * f.off + f.pos \in Nat /\ f.width \in Nat /\ f.width > 0 /\ f.width # Plain
    BY <1>1, <1>3 DEF Plain
  <2>2. /\ u.size \in Sizes /\ u.off \in Nat /\ u.pos \in Nat
        /\ 8 * u.off + u.pos = 8 * f.off + f.pos
    BY <2>1, SearchFacts
  <2>3. CASE u.pos + f.width <= 8 * u.size /\ u.off + u.size <= size
    <3> DEFINE unit == IF u.size # f.size THEN u.size ELSE 0
    <3>1. m = [f EXCEPT !.off = u.off, !.pos = u.pos, !.unit = unit]
      BY <1>3, <2>3 DEF Accessed
    <3>2. unit \in Sizes \cup {0, 7} /\ unit # 7 /\ (IF unit = 0 THEN f.size ELSE unit) = u.size
      BY <2>2 DEF Sizes
    <3> HIDE DEF unit, u, m
    <3>3. /\ m \in Members /\ m.off = u.off /\ m.pos = u.pos /\ m.unit = unit /\ m.size = f.size
          /\ Same(m, f)
      BY <2>2, <3>1, <3>2 DEF Members, Same
    <3> QED
      BY <2>1, <2>2, <2>3, <3>2, <3>3 DEF m, Whole, Fits, First, Same
  <2>4. CASE ~ (u.pos + f.width <= 8 * u.size /\ u.off + u.size <= size)
    <3>1. m = [f EXCEPT !.unit = 7]
      BY <1>3, <2>4 DEF Accessed
    <3> HIDE DEF m, u
    <3>2. /\ m \in Members /\ m.off = f.off /\ m.pos = f.pos /\ m.unit = 7 /\ m.size = f.size
          /\ Same(m, f)
      BY <3>1 DEF Members, Same
    <3> QED
      BY <2>1, <3>2 DEF m, Whole, Fits, First, Same
  <2> QED
    BY <2>3, <2>4
<1> QED
  BY <1>2, <1>3

-----------------------------------------------------------------------------
(* Laying out one member.                                                  *)

\* What can be declared, and the values of struct_layout()'s locals.
Declared ==
  [bt : DOMAIN TypeSize, width : Plain .. 64, anon : BOOLEAN, packed : BOOLEAN, aligned : Nat]
Flags ==
  [pcc : BOOLEAN, union : BOOLEAN, pack : {0, 1, 2, 4, 8, 16},
   packed : {"no", "before", "after"}, aligned : Nat]
Locals ==
  [c : Nat, bit_pos : Nat, prevbt : {"none"} \cup DOMAIN TypeSize, prev_bit_size : Nat,
   maxalign : Nat \ {0}, offset : Nat]

\* No type is called "none".
LEMMA NoneIsNoType == "none" \notin DOMAIN TypeSize
  BY DEF TypeSize

\* A member has a number of bits.
LEMMA BitsAreNumbers ==
  ASSUME NEW f, f.bt \in DOMAIN TypeSize, f.width \in Plain .. 64
  PROVE  Bits(f) \in Nat /\ TypeSize[f.bt] \in Nat
<1>1. TypeSize[f.bt] \in Nat
  BY SizeOfType DEF Sizes
<1>2. f.width # Plain => f.width \in Nat
  BY DEF Plain
<1> QED
  BY <1>1, <1>2 DEF Bits

\* What struct_decl() accepts fits its type.
LEMMA AsDeclaredFacts ==
  ASSUME NEW d \in Declared, Accepted(d)
  PROVE  LET f == AsDeclared(d) IN
         /\ f \in Declared /\ f.bt = d.bt /\ Bits(f) <= 8 * TypeSize[f.bt] /\ Bits(f) \in Nat
         /\ (f.width = d.width \/ f.width = Plain)
<1>1. /\ d.bt \in DOMAIN TypeSize /\ d.width \in Plain .. 64 /\ TypeSize[d.bt] \in Nat
      /\ d.width <= 8 * TypeSize[d.bt]
  BY SizeOfType DEF Declared, Accepted, Sizes
<1>2. AsDeclared(d) = d \/ AsDeclared(d) = [d EXCEPT !.width = Plain]
  BY DEF AsDeclared
<1>3. CASE AsDeclared(d) = d
  BY <1>1, <1>3 DEF Bits, Plain
<1>4. CASE AsDeclared(d) = [d EXCEPT !.width = Plain]
  <2> DEFINE f == AsDeclared(d)
  <2>1. f \in Declared /\ f.bt = d.bt /\ f.width = Plain
    BY <1>4 DEF Declared, Plain
  <2> HIDE DEF f
  <2> QED
    BY <1>1, <2>1 DEF Bits, f
<1> QED
  BY <1>2, <1>3, <1>4

\* Every alignment struct_layout() computes is a positive number.
LEMMA AlignmentFacts ==
  ASSUME how \in Flags, NEW f, f.bt \in DOMAIN TypeSize, f.aligned \in Nat
  PROVE  /\ Alignment(f).align \in Nat \ {0} /\ Alignment(f).packed \in BOOLEAN
<1>1. TypeSize[f.bt] \in Sizes
  BY SizeOfType
<1> QED
  BY <1>1 DEF Alignment, MinOf, Sizes, Flags

\* No bit of the members before lies at or behind the frontier, and none behind
\* what is used of the object.
Used(l) == 8 * l.c + (IF how.pcc THEN l.bit_pos ELSE 0)
Frontier(l) ==
  IF how.union THEN 8 * l.c
  ELSE IF how.pcc THEN 8 * l.c + l.bit_pos
  ELSE IF l.prevbt = "none" THEN 8 * l.c
  ELSE 8 * l.offset + l.bit_pos

\* In MSVC's mode a run of bit-fields has reserved the unit it is in.
Reserved(l) ==
  ~ how.pcc /\ ~ how.union /\ l.prevbt # "none" =>
    l.bit_pos <= 8 * TypeSize[l.prevbt] /\ l.offset + TypeSize[l.prevbt] <= l.c

\* A member p.f as f says, of a proper shape.
Formed(p, f) ==
  /\ p.f \in Members /\ p.f.unit = 0 /\ Whole(p.f) /\ Same(p.f, f)
  /\ p.lay \in Locals /\ p.align \in Nat \ {0}
  /\ f.width = Plain => p.f.off % Alignment(f).align = 0

\* It is put behind the frontier, which moves behind it.
Behind(p, f, l) ==
  /\ Frontier(l) <= Frontier(p.lay) /\ Frontier(p.lay) <= Used(p.lay)
  /\ f.width # 0 => /\ ~ how.union => Frontier(l) <= First(p.f)
                    /\ First(p.f) + Bits(p.f) <= Frontier(p.lay)

PlacedAt(m, f, off, pos, size) ==
  /\ m \in Members /\ Same(m, f) /\ m.unit = 0 /\ m.off = off /\ m.pos = pos
  /\ m.size = size /\ Bits(m) = Bits(f)

\* At() puts a member at its place and keeps what is declared of it.
LEMMA AtFacts ==
  ASSUME NEW f \in Declared, NEW off \in Nat, NEW pos \in Nat, NEW size \in Sizes
  PROVE  PlacedAt(At(f, off, pos, size), f, off, pos, size)
  BY DEF At, Members, Declared, Same, Bits, PlacedAt

\* A member of a union is put at its start, and the union is no shorter.
LEMMA UnionPlaced ==
  ASSUME how \in Flags, how.union, NEW f \in Declared, Bits(f) <= 8 * TypeSize[f.bt],
         lay \in Locals
  PROVE  LET p == InUnion(f, Alignment(f)) IN Formed(p, f) /\ Behind(p, f, lay)
<1> DEFINE al == Alignment(f)
           p == InUnion(f, al)
           size == IF how.pcc /\ f.width >= 0 THEN BytesOf(f.width) ELSE TypeSize[f.bt]
           m == At(f, 0, 0, TypeSize[f.bt])
           l == [lay EXCEPT !.c = MaxOf(@, size), !.offset = 0]
<1>1. f.bt \in DOMAIN TypeSize /\ f.aligned \in Nat /\ f.width \in Plain .. 64
  BY DEF Declared
<1>2. al.align \in Nat \ {0}
  BY <1>1, AlignmentFacts
<1>3. TypeSize[f.bt] \in Sizes /\ Sizes \subseteq Nat
  BY <1>1, SizeOfType DEF Sizes
<1>4. size \in Nat /\ (f.width # 0 => Bits(f) <= 8 * size)
  <2>1. CASE how.pcc /\ f.width >= 0
    <3>1. Bits(f) = f.width /\ f.width \in Nat
      BY <1>1, <2>1 DEF Bits, Plain
    <3>2. BytesOf(f.width) \in Nat /\ f.width <= 8 * BytesOf(f.width)
      BY <3>1 DEF BytesOf
    <3> QED
      BY <2>1, <3>1, <3>2
  <2>2. CASE ~ (how.pcc /\ f.width >= 0)
    BY <1>3, <2>2
  <2> QED
    BY <2>1, <2>2
<1>5. p = [lay |-> l, f |-> m, align |-> al.align]
  BY DEF InUnion
<1>6. /\ m \in Members /\ Same(m, f) /\ m.unit = 0 /\ m.off = 0 /\ m.pos = 0
      /\ m.size = TypeSize[f.bt] /\ First(m) = 0 /\ Bits(m) = Bits(f)
  <2>1. PlacedAt(m, f, 0, 0, TypeSize[f.bt])
    BY <1>3, AtFacts
  <2> HIDE DEF m
  <2> QED
    BY <2>1 DEF First, PlacedAt
<1> HIDE DEF m, size, al
<1>7. /\ l \in Locals /\ l.c = MaxOf(lay.c, size) /\ l.bit_pos = lay.bit_pos
      /\ lay.c \in Nat /\ lay.bit_pos \in Nat
  BY <1>4 DEF Locals, MaxOf
<1>8. lay.c <= l.c /\ size <= l.c /\ l.c \in Nat
  BY <1>4, <1>7 DEF MaxOf
<1> HIDE DEF l
<1>9. Whole(m)
  BY <1>6 DEF Whole, Same
<1>10. m.off % al.align = 0
  BY <1>2, <1>6
<1>11. Formed(p, f)
  BY <1>2, <1>5, <1>6, <1>7, <1>9, <1>10 DEF Formed, al
<1>12. Behind(p, f, lay)
  <2>1. Bits(f) \in Nat
    BY <1>1, BitsAreNumbers
  <2>2. p.lay = l /\ p.f = m
    BY <1>5
  <2>3. Frontier(lay) = 8 * lay.c /\ Frontier(l) = 8 * l.c
    BY DEF Frontier
  <2>4. Frontier(l) <= Used(l)
    BY <1>7, <1>8, <2>3 DEF Used
  <2> QED
    BY <1>4, <1>6, <1>7, <1>8, <2>1, <2>2, <2>3, <2>4 DEF Behind
<1> QED
  BY <1>11, <1>12 DEF al

\* What lies before the frontier lies in whole bytes of what is used.
LEMMA FrontierFacts ==
  ASSUME lay \in Locals, Reserved(lay), ~ how.union
  PROVE  /\ Frontier(lay) \in Nat /\ lay.c \in Nat /\ lay.bit_pos \in Nat
         /\ ~ how.pcc => Frontier(lay) <= 8 * lay.c
         /\ how.pcc => Frontier(lay) <= 8 * (lay.c + BytesOf(lay.bit_pos))
<1>1. /\ lay.c \in Nat /\ lay.bit_pos \in Nat /\ lay.offset \in Nat
      /\ lay.prevbt \in {"none"} \cup DOMAIN TypeSize
  BY DEF Locals
<1>2. CASE how.pcc
  <2>1. Frontier(lay) = 8 * lay.c + lay.bit_pos
    BY <1>2 DEF Frontier
  <2>2. BytesOf(lay.bit_pos) \in Nat /\ lay.bit_pos <= 8 * BytesOf(lay.bit_pos)
    BY <1>1 DEF BytesOf
  <2> QED
    BY <1>1, <1>2, <2>1, <2>2
<1>3. CASE ~ how.pcc /\ lay.prevbt = "none"
  BY <1>1, <1>3 DEF Frontier
<1>4. CASE ~ how.pcc /\ lay.prevbt # "none"
  <2>1. TypeSize[lay.prevbt] \in Nat
    BY <1>1, <1>4, SizeOfType DEF Sizes
  <2>2. /\ lay.bit_pos <= 8 * TypeSize[lay.prevbt]
        /\ lay.offset + TypeSize[lay.prevbt] <= lay.c
    BY <1>4 DEF Reserved
  <2>3. Frontier(lay) = 8 * lay.offset + lay.bit_pos
    BY <1>4 DEF Frontier
  <2> QED
    BY <1>1, <1>4, <2>1, <2>2, <2>3
<1> QED
  BY <1>2, <1>3, <1>4

\* A member that is no bit-field is put behind all others.
LEMMA PlainPlaced ==
  ASSUME how \in Flags, ~ how.union, NEW f \in Declared, f.width = Plain,
         lay \in Locals
  PROVE  LET p == PlainMember(f, Alignment(f)) IN
         Formed(p, f) /\ (Reserved(lay) => Behind(p, f, lay) /\ Reserved(p.lay))
<1> DEFINE al == Alignment(f)
           p == PlainMember(f, al)
           b == lay.c + (IF how.pcc THEN BytesOf(lay.bit_pos) ELSE 0)
           c == Up(b, al.align)
           size == TypeSize[f.bt]
           m == At(f, c, 0, size)
           l == [lay EXCEPT !.c = c + size, !.offset = c, !.bit_pos = 0,
                            !.prevbt = "none", !.prev_bit_size = 0]
<1>1. f.bt \in DOMAIN TypeSize /\ f.aligned \in Nat /\ f.width \in Plain .. 64
  BY DEF Declared
<1>2. al.align \in Nat \ {0}
  BY <1>1, AlignmentFacts
<1>3. size \in Sizes /\ size \in Nat /\ Bits(f) = 8 * size
  BY <1>1, SizeOfType DEF Sizes, Bits
<1>4. p = [lay |-> l, f |-> m, align |-> al.align]
  BY DEF PlainMember
<1> HIDE DEF al
<1>5. lay.c \in Nat /\ lay.bit_pos \in Nat /\ b \in Nat
  BY DEF Locals, BytesOf
<1>16. Reserved(lay) => Frontier(lay) \in Nat /\ Frontier(lay) <= 8 * b
  BY FrontierFacts
<1> HIDE DEF b
<1>6. c \in Nat /\ b <= c /\ c % al.align = 0
  BY <1>2, <1>5, UpFacts
<1> HIDE DEF c, size
<1>7. PlacedAt(m, f, c, 0, size)
  BY <1>3, <1>6, AtFacts
<1> HIDE DEF m
<1>8. /\ l \in Locals /\ l.c = c + size /\ l.bit_pos = 0 /\ l.prevbt = "none"
  <2> DEFINE d == c + size
  <2>1. d \in Nat /\ 0 \in Nat
    BY <1>3, <1>6
  <2> HIDE DEF d
  <2>2. /\ l = [lay EXCEPT !.c = d, !.offset = c, !.bit_pos = 0, !.prevbt = "none",
                           !.prev_bit_size = 0]
        /\ d = c + size
    BY DEF d
  <2> HIDE DEF l
  <2> QED
    BY <1>6, <2>1, <2>2 DEF Locals
<1> HIDE DEF l
<1>9. Whole(m)
  BY <1>7 DEF Whole, PlacedAt, Same, size
<1>10. Formed(p, f)
  BY <1>2, <1>4, <1>6, <1>7, <1>8, <1>9 DEF Formed, PlacedAt, al
<1>11. p.lay = l /\ p.f = m
  BY <1>4
<1>12. Frontier(l) = 8 * (c + size) /\ Used(l) = 8 * (c + size)
  BY <1>3, <1>6, <1>8 DEF Frontier, Used
<1>13. First(m) = 8 * c /\ Bits(m) = 8 * size
  BY <1>3, <1>6, <1>7 DEF First, PlacedAt
<1>14. Reserved(lay) => Behind(p, f, lay)
  BY <1>3, <1>5, <1>6, <1>11, <1>12, <1>13, <1>16 DEF Behind
<1>15. Reserved(p.lay)
  BY <1>8, <1>11 DEF Reserved
<1> QED
  BY <1>10, <1>14, <1>15 DEF al

\* So is a bit-field without -mms-bitfields, be it in a new unit or not.
LEMMA PccPlaced ==
  ASSUME how \in Flags, ~ how.union, how.pcc, NEW f \in Declared, f.width # Plain,
         lay \in Locals, Reserved(lay)
  PROVE  LET p == PccBitField(f, Alignment(f)) IN
         Formed(p, f) /\ Behind(p, f, lay) /\ Reserved(p.lay)
<1> DEFINE al == Alignment(f)
           p == PccBitField(f, al)
           fresh == PccFresh(f, al)
           b == lay.c + BytesOf(lay.bit_pos)
           c == IF fresh THEN Up(b, al.align) ELSE lay.c
           pos == IF fresh THEN 0 ELSE lay.bit_pos
           over == (pos \div (8 * al.align)) * al.align
           size == IF TypeSize[f.bt] = 8 /\ f.width <= 32 THEN 4 ELSE TypeSize[f.bt]
           m == At(f, c + over, pos - 8 * over, size)
           l == [lay EXCEPT !.c = c + over, !.offset = c + over,
                            !.bit_pos = pos - 8 * over + f.width]
           a == IF f.anon THEN 1 ELSE al.align
<1>1. /\ f.bt \in DOMAIN TypeSize /\ f.aligned \in Nat /\ f.width \in Nat
      /\ f.width \in Plain .. 64
  BY DEF Declared, Plain
<1>2. al.align \in Nat \ {0}
  BY <1>1, AlignmentFacts
<1>3. size \in Sizes /\ Bits(f) = f.width
  BY <1>1, SizeOfType DEF Sizes, Bits
<1>4. p = [lay |-> l, f |-> m, align |-> a]
  BY DEF PccBitField
<1> HIDE DEF fresh, al
<1>5. /\ Frontier(lay) \in Nat /\ lay.c \in Nat /\ lay.bit_pos \in Nat
      /\ Frontier(lay) <= 8 * b /\ b \in Nat
  <2>1. BytesOf(lay.bit_pos) \in Nat \/ lay.bit_pos \notin Nat
    BY DEF BytesOf
  <2> QED
    BY <2>1, FrontierFacts
<1>6. Frontier(lay) = 8 * lay.c + lay.bit_pos
  BY DEF Frontier
<1> HIDE DEF b
<1>7. c \in Nat /\ pos \in Nat /\ Frontier(lay) <= 8 * c + pos
  <2>1. CASE fresh
    <3>1. Up(b, al.align) \in Nat /\ b <= Up(b, al.align)
      BY <1>2, <1>5, UpFacts
    <3> QED
      BY <1>5, <2>1, <3>1
  <2>2. CASE ~ fresh
    BY <1>5, <1>6, <2>2
  <2> QED
    BY <2>1, <2>2
<1> HIDE DEF c, pos
<1>8. over \in Nat /\ 8 * over <= pos
  <2> DEFINE q == pos \div (8 * al.align)
  <2>0. 8 * al.align \in Nat \ {0}
    BY <1>2
  <2>1. q \in Nat /\ q * (8 * al.align) <= pos
    BY <2>0, <1>7, Quotient
  <2> HIDE DEF q
  <2>2. 8 * (q * al.align) = q * (8 * al.align) /\ q * al.align \in Nat
    BY <1>2, <2>1
  <2> QED
    BY <2>1, <2>2 DEF q
<1> HIDE DEF over, size
<1>9. c + over \in Nat /\ pos - 8 * over \in Nat
  BY <1>7, <1>8
<1>10. PlacedAt(m, f, c + over, pos - 8 * over, size)
  BY <1>3, <1>9, AtFacts
<1> HIDE DEF m
<1>11. /\ l \in Locals /\ l.c = c + over /\ l.bit_pos = pos - 8 * over + f.width
  <2> DEFINE d == c + over
             e == pos - 8 * over + f.width
  <2>1. d \in Nat /\ e \in Nat
    BY <1>1, <1>9
  <2> HIDE DEF d, e
  <2>2. l = [lay EXCEPT !.c = d, !.offset = d, !.bit_pos = e] /\ d = c + over
        /\ e = pos - 8 * over + f.width
    BY DEF d, e
  <2> HIDE DEF l
  <2> QED
    BY <2>1, <2>2 DEF Locals
<1> HIDE DEF l
<1>12. a \in Nat \ {0}
  BY <1>2
<1> HIDE DEF a
<1>13. Whole(m) /\ f.width # Plain
  BY <1>10 DEF Whole, PlacedAt, Same
<1>14. Formed(p, f)
  BY <1>4, <1>10, <1>11, <1>12, <1>13 DEF Formed, PlacedAt
<1>15. p.lay = l /\ p.f = m
  BY <1>4
<1>16. /\ Frontier(l) = 8 * (c + over) + (pos - 8 * over + f.width)
       /\ Used(l) = 8 * (c + over) + (pos - 8 * over + f.width)
  BY <1>11 DEF Frontier, Used
<1>17. First(m) = 8 * (c + over) + (pos - 8 * over) /\ Bits(m) = f.width
  BY <1>3, <1>10 DEF First, PlacedAt
<1>18. Behind(p, f, lay)
  BY <1>1, <1>5, <1>7, <1>8, <1>15, <1>16, <1>17 DEF Behind
<1>19. Reserved(p.lay)
  BY DEF Reserved
<1> QED
  BY <1>14, <1>18, <1>19 DEF al

\* A field of no width has a run of its type to end.
Runs(f, l) == f.width = 0 => l.prevbt = f.bt /\ l.prev_bit_size # 0

\* With -mms-bitfields it is, when the run it is in has reserved its unit.
LEMMA MsPlaced ==
  ASSUME how \in Flags, ~ how.union, ~ how.pcc, NEW f \in Declared, f.width # Plain,
         Bits(f) <= 8 * TypeSize[f.bt], lay \in Locals
  PROVE  LET p == MsBitField(f, Alignment(f)) IN
         /\ Formed(p, f) /\ p.lay.prevbt = f.bt /\ p.lay.prev_bit_size = f.width
         /\ Reserved(lay) /\ Runs(f, lay) => Behind(p, f, lay) /\ Reserved(p.lay)
<1> DEFINE al == Alignment(f)
           p == MsBitField(f, al)
           size == TypeSize[f.bt]
           fresh == \/ lay.bit_pos + f.width > 8 * size
                    \/ (f.width > 0) = (f.bt # lay.prevbt)
           c == IF fresh THEN Up(lay.c, al.align) ELSE lay.c
           off == IF fresh THEN c ELSE lay.offset
           pos == IF fresh THEN 0 ELSE lay.bit_pos
           takes == fresh /\ (f.width # 0 \/ lay.prev_bit_size # 0)
           m == At(f, off, pos, size)
           d == IF takes THEN c + size ELSE c
           e == pos + f.width
           l == [lay EXCEPT !.c = d, !.offset = off, !.bit_pos = e,
                            !.prevbt = f.bt, !.prev_bit_size = f.width]
           a == IF f.width = 0 /\ lay.prevbt # f.bt THEN 1 ELSE al.align
<1>1. /\ f.bt \in DOMAIN TypeSize /\ f.aligned \in Nat /\ f.width \in Nat
      /\ f.width \in Plain .. 64
  BY DEF Declared, Plain
<1>2. al.align \in Nat \ {0}
  BY <1>1, AlignmentFacts
<1>3. size \in Sizes /\ size \in Nat /\ Bits(f) = f.width /\ f.width <= 8 * size
  BY <1>1, SizeOfType DEF Sizes, Bits
<1>4. p = [lay |-> l, f |-> m, align |-> a]
  BY DEF MsBitField
<1> HIDE DEF al
<1>5. /\ lay.c \in Nat /\ lay.bit_pos \in Nat /\ lay.offset \in Nat
      /\ lay.prevbt \in {"none"} \cup DOMAIN TypeSize /\ lay.prev_bit_size \in Nat
  BY DEF Locals
<1> HIDE DEF size
<1>6. CASE fresh
  <2>1. c \in Nat /\ lay.c <= c /\ off = c /\ pos = 0
    BY <1>2, <1>5, <1>6, UpFacts
  <2>2. f.width # 0 \/ lay.prev_bit_size # 0 => d = c + size
    BY <1>6
  <2>3. c <= d /\ d \in Nat
    BY <1>3, <2>1
  <2> QED
    <3> HIDE DEF c, off, pos, d, fresh, takes
    <3>1. PlacedAt(m, f, off, pos, size)
      BY <1>3, <2>1, AtFacts
    <3> HIDE DEF m
    <3>2. e \in Nat /\ e = f.width
      BY <1>1, <2>1
    <3> HIDE DEF e
    <3>3. /\ l \in Locals /\ l.c = d /\ l.bit_pos = e /\ l.offset = off /\ l.prevbt = f.bt
          /\ l.prev_bit_size = f.width
      BY <1>1, <2>1, <2>3, <3>2 DEF Locals
    <3> HIDE DEF l
    <3>4. a \in Nat \ {0}
      BY <1>2
    <3> HIDE DEF a
    <3>5. Whole(m)
      BY <3>1 DEF Whole, PlacedAt, Same
    <3>6. Formed(p, f)
      BY <1>4, <3>1, <3>3, <3>4, <3>5 DEF Formed, PlacedAt
    <3>7. p.lay = l /\ p.f = m
      BY <1>4
    <3>8. ASSUME Reserved(lay), Runs(f, lay) PROVE Behind(p, f, lay) /\ Reserved(p.lay)
      <4>1. Frontier(lay) \in Nat /\ Frontier(lay) <= 8 * lay.c
        BY <3>8, FrontierFacts
      <4>2. d = c + size
        BY <2>2, <3>8 DEF Runs
      <4>3. l.prevbt # "none"
        BY <1>1, <3>3, NoneIsNoType
      <4>4. Frontier(l) = 8 * c + f.width /\ Used(l) = 8 * d
        BY <1>5, <2>1, <2>3, <3>2, <3>3, <4>3 DEF Frontier, Used
      <4>5. First(m) = 8 * c /\ Bits(m) = f.width
        BY <1>3, <2>1, <3>1 DEF First, PlacedAt
      <4>6. Behind(p, f, lay)
        BY <1>1, <1>3, <1>5, <2>1, <3>7, <4>1, <4>2, <4>4, <4>5 DEF Behind
      <4>7. Reserved(p.lay)
        BY <1>3, <2>1, <3>2, <3>3, <3>7, <4>2 DEF Reserved, size
      <4> QED
        BY <4>6, <4>7
    <3> QED
      BY <3>3, <3>6, <3>7, <3>8 DEF al
<1>7. CASE ~ fresh
  <2>1. c = lay.c /\ off = lay.offset /\ pos = lay.bit_pos /\ d = c /\ pos + f.width <= 8 * size
    BY <1>1, <1>3, <1>5, <1>7
  <2>2. ~ ((f.width > 0) = (f.bt # lay.prevbt))
    BY <1>7
  <2> QED
    <3> HIDE DEF c, off, pos, d, fresh, takes
    <3>1. PlacedAt(m, f, off, pos, size)
      BY <1>3, <1>5, <2>1, AtFacts
    <3> HIDE DEF m
    <3>2. e \in Nat /\ e = pos + f.width /\ d \in Nat /\ off \in Nat
      BY <1>1, <1>5, <2>1
    <3> HIDE DEF e
    <3>3. /\ l \in Locals /\ l.c = d /\ l.bit_pos = e /\ l.offset = off /\ l.prevbt = f.bt
          /\ l.prev_bit_size = f.width
      BY <1>1, <3>2 DEF Locals
    <3> HIDE DEF l
    <3>4. a \in Nat \ {0}
      BY <1>2
    <3> HIDE DEF a
    <3>5. Whole(m)
      BY <3>1 DEF Whole, PlacedAt, Same
    <3>6. Formed(p, f)
      BY <1>4, <3>1, <3>3, <3>4, <3>5 DEF Formed, PlacedAt
    <3>7. p.lay = l /\ p.f = m
      BY <1>4
    <3>8. ASSUME Reserved(lay), Runs(f, lay) PROVE Behind(p, f, lay) /\ Reserved(p.lay)
      <4>1. f.bt = lay.prevbt
        <5>1. CASE f.width = 0
          BY <3>8, <5>1 DEF Runs
        <5>2. CASE f.width # 0
          BY <1>1, <2>2, <5>2
        <5> QED
          BY <5>1, <5>2
      <4>2. lay.prevbt # "none" /\ l.prevbt # "none"
        BY <1>1, <3>3, <4>1, NoneIsNoType
      <4>3. lay.offset + size <= lay.c
        BY <4>1, <4>2, <3>8 DEF Reserved, size
      <4>4. /\ Frontier(lay) = 8 * lay.offset + lay.bit_pos
            /\ Frontier(l) = 8 * off + (pos + f.width)
            /\ Used(l) = 8 * d
        BY <1>5, <2>1, <3>2, <3>3, <4>2 DEF Frontier, Used
      <4>5. First(m) = 8 * off + pos /\ Bits(m) = f.width
        BY <1>3, <3>1 DEF First, PlacedAt
      <4>6. Behind(p, f, lay)
        BY <1>1, <1>3, <1>5, <2>1, <3>7, <4>3, <4>4, <4>5 DEF Behind
      <4>7. Reserved(p.lay)
        BY <1>3, <2>1, <3>2, <3>3, <3>7, <4>3 DEF Reserved, size
      <4> QED
        BY <4>6, <4>7
    <3> QED
      BY <3>3, <3>6, <3>7, <3>8 DEF al
<1> QED
  BY <1>6, <1>7

-----------------------------------------------------------------------------
(* One member by gcc's rule.                                               *)

\* The least of a set is the only one.
LEMMA LeastIs ==
  ASSUME NEW S \in SUBSET Nat, NEW x \in S, \A y \in S : x <= y
  PROVE  (CHOOSE a \in S : \A b \in S : a <= b) = x
<1> DEFINE c == CHOOSE a \in S : \A b \in S : a <= b
<1>1. c \in S /\ \A b \in S : c <= b
  OBVIOUS
<1> HIDE DEF c
<1>2. c = x
  BY <1>1
<1> QED
  BY <1>2 DEF c

\* So is the greatest.
LEMMA GreatestIs ==
  ASSUME NEW S \in SUBSET Nat, NEW x \in S, \A y \in S : y <= x
  PROVE  (CHOOSE a \in S : \A b \in S : b <= a) = x
<1> DEFINE c == CHOOSE a \in S : \A b \in S : b <= a
<1>1. c \in S /\ \A b \in S : b <= c
  OBVIOUS
<1> HIDE DEF c
<1>2. c = x
  BY <1>1
<1> QED
  BY <1>2 DEF c

\* Where a member goes depends on what is declared of it only.
LEMMA SameFacts ==
  ASSUME NEW m, NEW f, Same(m, f)
  PROVE  /\ Alignment(m) = Alignment(f) /\ AbiAlign(m) = AbiAlign(f) /\ Bits(m) = Bits(f)
         /\ \A p : AbiFirst(m, p) = AbiFirst(f, p)
<1>1. Alignment(m) = Alignment(f)
  BY DEF Same, Alignment
<1>2. AbiAlign(m) = AbiAlign(f)
  BY DEF Same, AbiAlign
<1>3. Bits(m) = Bits(f)
  BY DEF Same, Bits
<1>4. AbiPacked(m) = AbiPacked(f)
  BY DEF Same, AbiPacked
<1>5. ASSUME NEW p PROVE AbiFirst(m, p) = AbiFirst(f, p)
  BY <1>2, <1>4 DEF Same, AbiFirst
<1> QED
  BY <1>1, <1>2, <1>3, <1>5

\* The alignment struct_layout() computes is gcc's.
LEMMA AlignmentIsAbi ==
  ASSUME how \in Flags, how.pcc, NEW f, f.bt \in DOMAIN TypeSize, f.aligned \in Nat,
         f.packed \in BOOLEAN
  PROVE  AbiAlign(f) = Alignment(f).align
<1> DEFINE tight == f.packed \/ how.packed # "no"
           natural == IF tight THEN 1 ELSE TypeSize[f.bt]
           S == ({8} \cup ({how.pack} \ {0})) \cup {natural}
           x == IF how.pack # 0 THEN MinOf(how.pack, natural) ELSE natural
<1>1. TypeSize[f.bt] \in Sizes
  BY SizeOfType
<1>2. how.pack \in {0, 1, 2, 4, 8, 16}
  BY DEF Flags
<1>3. natural \in Sizes
  BY <1>1 DEF Sizes
<1>4. (CHOOSE a \in S : \A b \in S : a <= b) = x
  <2> HIDE DEF natural
  <2>1. S \in SUBSET Nat /\ x \in S /\ \A y \in S : x <= y
    BY <1>2, <1>3 DEF Sizes, MinOf
  <2> HIDE DEF S, x
  <2> QED
    BY <2>1, LeastIs
<1>5. CASE f.width = 0
  BY <1>5 DEF AbiAlign, Alignment
<1>6. CASE f.width # 0 /\ f.aligned # 0 /\ (how.pack = 0 \/ f.aligned <= how.pack)
  <2>1. ~ (how.pack # 0 /\ how.pack < f.aligned)
    BY <1>2, <1>6
  <2>2. AbiAlign(f) = f.aligned
    BY <1>6 DEF AbiAlign
  <2>3. Alignment(f).align = f.aligned
    BY <1>6, <2>1 DEF Alignment
  <2> QED
    BY <2>2, <2>3
<1>7. CASE f.width # 0 /\ ~ (f.aligned # 0 /\ (how.pack = 0 \/ f.aligned <= how.pack))
  <2>1. AbiAlign(f) = x
    BY <1>4, <1>7 DEF AbiAlign
  <2>2. f.aligned = 0 \/ (how.pack # 0 /\ how.pack < f.aligned)
    BY <1>2, <1>7
  <2>3. Alignment(f).align = IF how.pack # 0 THEN MinOf(how.pack, natural) ELSE natural
    BY <1>7, <2>2 DEF Alignment
  <2> QED
    BY <2>1, <2>3
<1> QED
  BY <1>5, <1>6, <1>7

\* Two numbers lie in the same unit.
LEMMA Straddles ==
  ASSUME NEW p \in Nat, NEW w \in Nat \ {0}, NEW s \in Sizes
  PROVE  ((p % (8 * s)) + w + 8 * s - 1) \div (8 * s) > s \div s
           <=> p \div (8 * s) # (p + w - 1) \div (8 * s)
<1>1. CASE s = 1
  BY <1>1
<1>2. CASE s = 2
  BY <1>2
<1>3. CASE s = 4
  BY <1>3
<1>4. CASE s = 8
  BY <1>4
<1> QED
  BY <1>1, <1>2, <1>3, <1>4 DEF Sizes

\* A bit-field begins a new unit where gcc's does.
LEMMA FreshIsAbi ==
  ASSUME how \in Flags, how.pcc, NEW f \in Declared, f.width # Plain, lay \in Locals
  PROVE  LET p == 8 * lay.c + lay.bit_pos IN
         AbiFirst(f, p) = IF PccFresh(f, Alignment(f)) THEN Up(p, 8 * AbiAlign(f)) ELSE p
<1> DEFINE al == Alignment(f)
           p == 8 * lay.c + lay.bit_pos
           size == TypeSize[f.bt]
           within == p \div (8 * size) = (p + f.width - 1) \div (8 * size)
           stays == f.width > 0 /\ f.aligned = 0 /\ (AbiPacked(f) \/ within)
<1>1. /\ f.bt \in DOMAIN TypeSize /\ f.aligned \in Nat /\ f.width \in Nat /\ size \in Sizes
      /\ f.packed \in BOOLEAN
  BY SizeOfType DEF Declared, Plain
<1>2. AbiFirst(f, p) = IF stays THEN p ELSE Up(p, 8 * AbiAlign(f))
  BY DEF AbiFirst
<1>3. p \in Nat /\ lay.c * 8 + lay.bit_pos = p
  BY DEF Locals
<1>4. PccFresh(f, al) <=> ~ stays
  <2>1. CASE f.width = 0
    BY <2>1 DEF PccFresh
  <2>2. CASE f.width # 0 /\ f.aligned # 0
    BY <2>2 DEF PccFresh
  <2>3. CASE f.width # 0 /\ f.aligned = 0
    <3>1. al.packed <=> AbiPacked(f)
      BY <1>1, <2>3 DEF Alignment, AbiPacked
    <3>2. CASE AbiPacked(f)
      <4>1. ~ PccFresh(f, al)
        BY <2>3, <3>1, <3>2 DEF PccFresh
      <4> QED
        BY <1>1, <2>3, <3>2, <4>1
    <3>3. CASE ~ AbiPacked(f)
      <4>1. al.align = size
        BY <2>3, <3>3 DEF Alignment, AbiPacked
      <4>2. ((p % (8 * size)) + f.width + 8 * size - 1) \div (8 * size) > size \div size
              <=> ~ within
        BY <1>1, <1>3, <2>3, Straddles
      <4>3. PccFresh(f, al)
              <=> ((p % (8 * size)) + f.width + 8 * size - 1) \div (8 * size) > size \div size
        <5> HIDE DEF al, size, p
        <5> QED
          BY <1>3, <2>3, <3>1, <3>3, <4>1 DEF PccFresh, size
      <4> HIDE DEF within
      <4> QED
        BY <1>1, <2>3, <3>3, <4>2, <4>3
    <3> QED
      BY <3>2, <3>3
  <2> QED
    BY <2>1, <2>2, <2>3
<1> QED
  BY <1>2, <1>4

\* The member is where gcc has it, and as many bits are used then.
AbiPlaced(p, f, l) ==
  /\ First(p.f) = AbiFirst(f, 8 * l.c + l.bit_pos)
  /\ 8 * p.lay.c + p.lay.bit_pos = First(p.f) + Bits(f)
  /\ p.align = IF f.width # Plain /\ f.anon THEN 1 ELSE AbiAlign(f)
  /\ p.lay.maxalign = l.maxalign

\* A member that is no bit-field goes where gcc puts it.
LEMMA PlainIsAbi ==
  ASSUME how \in Flags, how.pcc, NEW f \in Declared, f.width = Plain, lay \in Locals
  PROVE  AbiPlaced(PlainMember(f, Alignment(f)), f, lay)
<1> DEFINE al == Alignment(f)
           p == PlainMember(f, al)
           b == lay.c + BytesOf(lay.bit_pos)
           c == Up(b, al.align)
           size == TypeSize[f.bt]
<1>1. /\ f.bt \in DOMAIN TypeSize /\ f.aligned \in Nat /\ f.packed \in BOOLEAN
      /\ lay.c \in Nat /\ lay.bit_pos \in Nat
  BY DEF Declared, Locals
<1>2. al.align \in Nat \ {0} /\ AbiAlign(f) = al.align
  BY <1>1, AlignmentFacts, AlignmentIsAbi
<1>3. size \in Nat /\ Bits(f) = 8 * size
  BY <1>1, SizeOfType DEF Sizes, Bits
<1>4. Up(8 * lay.c + lay.bit_pos, 8 * al.align) = 8 * c
  BY <1>1, <1>2, UpBits
<1>5. /\ p.f.off = c /\ p.f.pos = 0 /\ p.lay.c = c + size /\ p.lay.bit_pos = 0
      /\ p.align = al.align /\ p.lay.maxalign = lay.maxalign
  BY DEF PlainMember, At, Locals
<1>6. b \in Nat
  BY <1>1 DEF BytesOf
<1>7. c \in Nat
  BY <1>2, <1>6, UpFacts
<1> HIDE DEF b, c, p, al, size
<1>8. ~ (f.width > 0)
  BY DEF Plain
<1>9. AbiFirst(f, 8 * lay.c + lay.bit_pos) = 8 * c
  BY <1>2, <1>4, <1>8 DEF AbiFirst
<1>10. First(p.f) = 8 * c
  BY <1>5, <1>7 DEF First
<1>11. 8 * p.lay.c + p.lay.bit_pos = 8 * c + 8 * size
  BY <1>3, <1>5, <1>7
<1> QED
  BY <1>2, <1>3, <1>5, <1>9, <1>10, <1>11 DEF AbiPlaced, p, al

\* So does a bit-field: c and bit_pos divide the position, but do not change it.
LEMMA PccIsAbi ==
  ASSUME how \in Flags, how.pcc, NEW f \in Declared, f.width # Plain, lay \in Locals
  PROVE  AbiPlaced(PccBitField(f, Alignment(f)), f, lay)
<1> DEFINE al == Alignment(f)
           p == PccBitField(f, al)
           fresh == PccFresh(f, al)
           q == 8 * lay.c + lay.bit_pos
           b == lay.c + BytesOf(lay.bit_pos)
           c == IF fresh THEN Up(b, al.align) ELSE lay.c
           pos == IF fresh THEN 0 ELSE lay.bit_pos
           over == (pos \div (8 * al.align)) * al.align
<1>1. /\ f.bt \in DOMAIN TypeSize /\ f.aligned \in Nat /\ f.packed \in BOOLEAN
      /\ f.width \in Nat /\ lay.c \in Nat /\ lay.bit_pos \in Nat
  BY DEF Declared, Locals, Plain
<1>2. al.align \in Nat \ {0} /\ AbiAlign(f) = al.align
  BY <1>1, AlignmentFacts, AlignmentIsAbi
<1>3. AbiFirst(f, q) = IF fresh THEN Up(q, 8 * AbiAlign(f)) ELSE q
  BY FreshIsAbi
<1>4. Bits(f) = f.width
  BY DEF Bits
<1>5. /\ p.f.off = c + over /\ p.f.pos = pos - 8 * over
      /\ p.lay.c = c + over /\ p.lay.bit_pos = pos - 8 * over + f.width
      /\ p.align = (IF f.anon THEN 1 ELSE al.align)
      /\ p.lay.maxalign = lay.maxalign
  BY DEF PccBitField, At, Locals
<1>6. b \in Nat
  BY <1>1 DEF BytesOf
<1>7. Up(b, al.align) \in Nat
  BY <1>2, <1>6, UpFacts
<1>8. Up(q, 8 * al.align) = 8 * Up(b, al.align)
  BY <1>1, <1>2, UpBits
<1> HIDE DEF fresh, p, al
<1>9. c \in Nat /\ pos \in Nat /\ AbiFirst(f, q) = 8 * c + pos
  <2>1. CASE fresh
    <3> HIDE DEF b, q
    <3> QED
      BY <1>2, <1>3, <1>7, <1>8, <2>1
  <2>2. CASE ~ fresh
    BY <1>1, <1>3, <2>2
  <2> QED
    BY <2>1, <2>2
<1> HIDE DEF c, pos, b
<1>10. over \in Nat
  <2>1. 8 * al.align \in Nat \ {0}
    BY <1>2
  <2>2. pos \div (8 * al.align) \in Nat
    BY <1>9, <2>1, Quotient
  <2> QED
    BY <1>2, <2>2
<1> HIDE DEF over
<1>11. First(p.f) = 8 * c + pos
  BY <1>5, <1>9, <1>10 DEF First
<1>12. 8 * p.lay.c + p.lay.bit_pos = 8 * c + pos + f.width
  BY <1>1, <1>5, <1>9, <1>10
<1> QED
  BY <1>2, <1>4, <1>5, <1>9, <1>11, <1>12 DEF AbiPlaced, p, al

-----------------------------------------------------------------------------
(* gcc's counter of bits.                                                  *)

\* e[k] bits are used by the first k of ms.
Ends(e, ms) ==
  /\ e \in [0 .. Len(ms) -> Nat] /\ e[0] = 0
  /\ \A j \in 1 .. Len(ms) : e[j] = AbiFirst(ms[j], e[j - 1]) + Bits(ms[j])

\* There is one such counter.
LEMMA AbiEndIs ==
  ASSUME members \in Seq(Members), NEW e, Ends(e, members)
  PROVE  \A k \in 0 .. Len(members) : AbiEnd(k) = e[k]
<1> DEFINE n == Len(members)
           G(x) == [j \in 0 .. n |->
                      IF j = 0 THEN 0
                      ELSE AbiFirst(members[j], x[j - 1])
                             + (IF members[j].width = Plain THEN 8 * TypeSize[members[j].bt]
                                ELSE members[j].width)]
           H(x) == [j \in 0 .. n |->
                      IF j = 0 THEN 0 ELSE AbiFirst(members[j], x[j - 1]) + Bits(members[j])]
           end == CHOOSE x : x = G(x)
<1>1. n \in Nat
  OBVIOUS
<1>2. ASSUME NEW x PROVE G(x) = H(x)
  BY DEF Bits
<1> HIDE DEF n
<1>3. e = H(e)
  <2>1. ASSUME NEW j \in 0 .. n
        PROVE  e[j] = IF j = 0 THEN 0 ELSE AbiFirst(members[j], e[j - 1]) + Bits(members[j])
    <3>1. CASE j = 0
      BY <3>1 DEF Ends
    <3>2. CASE j # 0
      <4>1. j \in 1 .. n
        BY <1>1, <3>2
      <4> QED
        BY <3>2, <4>1 DEF Ends, n
    <3> QED
      BY <3>1, <3>2
  <2>2. e = [j \in 0 .. n |-> e[j]]
    BY DEF Ends, n
  <2> QED
    BY <2>1, <2>2
<1>4. \E x : x = G(x)
  <2> HIDE DEF G, H
  <2>1. e = G(e)
    BY <1>2, <1>3
  <2> QED
    BY <2>1
<1>5. end = G(end)
  <2> HIDE DEF G
  <2> QED
    BY <1>4
<1>6. end = H(end)
  BY <1>2, <1>5
<1>7. \A k : AbiEnd(k) = end[k]
  BY DEF AbiEnd, n
<1> HIDE DEF end, G
<1>8. \A k \in 0 .. n : end[k] = e[k]
  <2> DEFINE S == {k \in 0 .. n : end[k] = e[k]}
  <2>1. 0 \in S
    BY <1>1, <1>3, <1>6
  <2>2. ASSUME NEW k \in 0 .. n, k \in S, k < n PROVE k + 1 \in S
    <3>1. k + 1 \in 0 .. n /\ k + 1 # 0 /\ k + 1 - 1 = k
      BY <1>1, <2>2
    <3>2. end[k + 1] = AbiFirst(members[k + 1], end[k]) + Bits(members[k + 1])
      BY <1>6, <3>1
    <3>3. e[k + 1] = AbiFirst(members[k + 1], e[k]) + Bits(members[k + 1])
      BY <1>3, <3>1
    <3> QED
      BY <2>2, <3>1, <3>2, <3>3
  <2> HIDE DEF S
  <2>3. \A k \in 0 .. n : k \in S
    BY <1>1, <2>1, <2>2, UpTo
  <2> QED
    BY <2>3 DEF S
<1> QED
  BY <1>7, <1>8 DEF n

-----------------------------------------------------------------------------
(* The invariant.                                                          *)

\* The size and alignment struct_layout() gives an object.
Extent(l) ==
  LET asked == MaxOf(how.aligned, 1)
      a     == MaxOf(asked, l.maxalign)
      round == IF how.pack # 0 /\ how.pack < l.maxalign /\ ~ how.pcc
               THEN MaxOf(how.pack, asked) ELSE a
  IN [size |-> Up(l.c + (IF how.pcc THEN BytesOf(l.bit_pos) ELSE 0), round), align |-> a]

\* The values the variables have.
LayoutTypes ==
  /\ how \in Flags /\ members \in Seq(Members) /\ lay \in Locals
  /\ extent.size = -1 \/ extent = Extent(lay)
  /\ \A i \in 1 .. Len(members) :
       /\ Whole(members[i])
       /\ members[i].width = Plain => members[i].off % Alignment(members[i]).align = 0
       /\ extent.size = -1 => members[i].unit = 0
       /\ extent.size # -1 => Fits(members[i], extent.size)

\* Every field of no width ends a run that was begun.
Begun(ms) ==
  ~ how.pcc /\ ~ how.union =>
    \A i \in 1 .. Len(ms) :
      ms[i].width = 0 => i # 1 /\ ms[i - 1].width \notin {Plain, 0} /\ ms[i - 1].bt = ms[i].bt

\* The members lie one behind the other before the frontier.
Apart(ms, l) ==
  /\ \A i \in 1 .. Len(ms) : ms[i].width # 0 => First(ms[i]) + Bits(ms[i]) <= Frontier(l)
  /\ ~ how.union =>
       \A i, j \in 1 .. Len(ms) :
         i < j /\ ms[i].width # 0 /\ ms[j].width # 0
           => First(ms[i]) + Bits(ms[i]) <= First(ms[j])

\* In MSVC's mode prevbt and prev_bit_size are what the last member was.
Last(ms, l) ==
  ~ how.pcc /\ ~ how.union =>
    IF ms = << >> \/ ms[Len(ms)].width = Plain THEN l.prevbt = "none"
    ELSE l.prevbt = ms[Len(ms)].bt /\ l.prev_bit_size = ms[Len(ms)].width

Room ==
  /\ Last(members, lay)
  /\ Begun(members) =>
       Apart(members, lay) /\ Reserved(lay) /\ Frontier(lay) <= Used(lay)

\* In gcc's mode every member is where gcc has it, and c and bit_pos, together,
\* are gcc's counter.
Counted(ms, l) ==
  \E e : /\ Ends(e, ms) /\ e[Len(ms)] = 8 * l.c + l.bit_pos
         /\ \A i \in 1 .. Len(ms) : First(ms[i]) = AbiFirst(ms[i], e[i - 1])

\* maxalign is the greatest alignment of a named member.
Greatest(ms, l) ==
  (\A i \in 1 .. Len(ms) : ~ (ms[i].anon /\ ms[i].width = Plain)) =>
    /\ \A i \in 1 .. Len(ms) : ~ ms[i].anon => AbiAlign(ms[i]) <= l.maxalign
    /\ l.maxalign = 1 \/ \E i \in 1 .. Len(ms) : ~ ms[i].anon /\ l.maxalign = AbiAlign(ms[i])

AbiInv == how.pcc /\ ~ how.union => Counted(members, lay) /\ Greatest(members, lay)

LayoutInv == LayoutTypes /\ Room /\ AbiInv

\* It holds of a struct without members.
LEMMA LayoutInitInv == LayoutInit => LayoutInv
<1> SUFFICES ASSUME LayoutInit PROVE LayoutInv
  OBVIOUS
<1>1. /\ members = << >> /\ extent.size = -1 /\ how \in Flags
      /\ lay = [c |-> 0, bit_pos |-> 0, prevbt |-> "none", prev_bit_size |-> 0,
                maxalign |-> 1, offset |-> 0]
  BY LayoutAssumption DEF LayoutInit, Flags
<1>2. lay \in Locals
  BY <1>1 DEF Locals
<1>3. Len(members) = 0 /\ members \in Seq(Members) /\ 1 .. Len(members) = {}
  BY <1>1
<1>4. LayoutTypes
  BY <1>1, <1>2, <1>3 DEF LayoutTypes
<1>5. Room
  <2>1. Last(members, lay)
    BY <1>1 DEF Last
  <2>2. Apart(members, lay)
    BY <1>3 DEF Apart
  <2>3. Reserved(lay)
    BY <1>1 DEF Reserved
  <2>4. Frontier(lay) <= Used(lay)
    BY <1>1 DEF Frontier, Used
  <2> QED
    BY <2>1, <2>2, <2>3, <2>4 DEF Room
<1>6. AbiInv
  <2> DEFINE e == [j \in 0 .. 0 |-> 0]
  <2>1. Ends(e, members)
    BY <1>3 DEF Ends
  <2>2. e[Len(members)] = 8 * lay.c + lay.bit_pos
    BY <1>1, <1>3
  <2> HIDE DEF e
  <2>3. Counted(members, lay)
    BY <1>3, <2>1, <2>2 DEF Counted
  <2>4. Greatest(members, lay)
    BY <1>1, <1>3 DEF Greatest
  <2> QED
    BY <2>3, <2>4 DEF AbiInv
<1> QED
  BY <1>4, <1>5, <1>6 DEF LayoutInv

-----------------------------------------------------------------------------
(* A step lays out one member.                                             *)

Pushed(ms, x, t) == t = Append(ms, x)

\* One member more leaves the others where they are in the list.
LEMMA PushedFacts ==
  ASSUME NEW ms \in Seq(Members), NEW x \in Members, NEW t, Pushed(ms, x, t)
  PROVE  /\ t \in Seq(Members) /\ Len(t) = Len(ms) + 1 /\ t[Len(t)] = x /\ t # << >>
         /\ \A i \in 1 .. Len(ms) : t[i] = ms[i]
         /\ \A i \in 1 .. Len(t) : i \in 1 .. Len(ms) \/ i = Len(t)
  BY DEF Pushed

\* What struct_layout() makes of a member, whatever its kind.
LEMMA PlacedFacts ==
  ASSUME how \in Flags, NEW f \in Declared, Bits(f) <= 8 * TypeSize[f.bt], lay \in Locals
  PROVE  LET p == PlacedMember(f) IN
         /\ Formed(p, f)
         /\ how.union => Behind(p, f, lay)
         /\ Reserved(lay) /\ (~ how.pcc /\ ~ how.union /\ f.width # Plain => Runs(f, lay))
              => Behind(p, f, lay) /\ Reserved(p.lay)
         /\ how.pcc /\ ~ how.union => AbiPlaced(p, f, lay)
         /\ ~ how.pcc /\ ~ how.union =>
              IF f.width = Plain THEN p.lay.prevbt = "none"
              ELSE p.lay.prevbt = f.bt /\ p.lay.prev_bit_size = f.width
<1> DEFINE p == PlacedMember(f)
           al == Alignment(f)
<1>1. CASE how.union
  <2>1. p = InUnion(f, al)
    BY <1>1 DEF PlacedMember
  <2>2. Formed(p, f) /\ Behind(p, f, lay)
    BY <1>1, <2>1, UnionPlaced
  <2>3. Reserved(p.lay)
    BY <1>1 DEF Reserved
  <2> HIDE DEF p
  <2> QED
    BY <1>1, <2>2, <2>3 DEF p
<1>2. CASE ~ how.union /\ f.width = Plain
  <2>1. p = PlainMember(f, al)
    BY <1>2 DEF PlacedMember
  <2>2. Formed(p, f) /\ (Reserved(lay) => Behind(p, f, lay) /\ Reserved(p.lay))
    BY <1>2, <2>1, PlainPlaced
  <2>4. how.pcc => AbiPlaced(p, f, lay)
    BY <1>2, <2>1, PlainIsAbi
  <2>5. p.lay.prevbt = "none"
    <3> HIDE DEF p, al
    <3>1. \E x, y : p.lay = [lay EXCEPT !.c = x, !.offset = y, !.bit_pos = 0,
                                        !.prevbt = "none", !.prev_bit_size = 0]
      BY <2>1 DEF PlainMember
    <3> QED
      BY <3>1 DEF Locals
  <2> HIDE DEF p
  <2> QED
    BY <1>2, <2>2, <2>4, <2>5 DEF p
<1>3. CASE ~ how.union /\ f.width # Plain /\ how.pcc
  <2>1. p = PccBitField(f, al)
    BY <1>3 DEF PlacedMember
  <2>2. Reserved(lay)
    BY <1>3 DEF Reserved
  <2>3. Formed(p, f) /\ Behind(p, f, lay) /\ Reserved(p.lay)
    BY <1>3, <2>1, <2>2, PccPlaced
  <2>4. AbiPlaced(p, f, lay)
    BY <1>3, <2>1, PccIsAbi
  <2> HIDE DEF p
  <2> QED
    BY <1>3, <2>3, <2>4 DEF p
<1>4. CASE ~ how.union /\ f.width # Plain /\ ~ how.pcc
  <2>1. p = MsBitField(f, al)
    BY <1>4 DEF PlacedMember
  <2>2. /\ Formed(p, f) /\ p.lay.prevbt = f.bt /\ p.lay.prev_bit_size = f.width
        /\ Reserved(lay) /\ Runs(f, lay) => Behind(p, f, lay) /\ Reserved(p.lay)
    BY <1>4, <2>1, MsPlaced
  <2> HIDE DEF p
  <2> QED
    BY <1>4, <2>2 DEF p
<1> QED
  BY <1>1, <1>2, <1>3, <1>4

\* Only maxalign is new.
MaxMoved(l, q, a) == l = [q EXCEPT !.maxalign = MaxOf(@, a)]

\* It changes nothing that a place depends on.
LEMMA MaxMovedFacts ==
  ASSUME NEW q \in Locals, NEW a \in Nat \ {0}, NEW l, MaxMoved(l, q, a)
  PROVE  /\ l \in Locals /\ l.maxalign = MaxOf(q.maxalign, a)
         /\ l.c = q.c /\ l.bit_pos = q.bit_pos /\ l.offset = q.offset
         /\ l.prevbt = q.prevbt /\ l.prev_bit_size = q.prev_bit_size
         /\ Frontier(l) = Frontier(q) /\ Used(l) = Used(q) /\ (Reserved(q) => Reserved(l))
<1> DEFINE x == MaxOf(q.maxalign, a)
<1>1. x \in Nat \ {0}
  BY DEF Locals, MaxOf
<1>2. l = [q EXCEPT !.maxalign = x]
  BY DEF MaxMoved, Locals
<1>3. x = MaxOf(q.maxalign, a)
  OBVIOUS
<1> HIDE DEF x
<1>4. /\ l \in Locals /\ l.maxalign = x
      /\ l.c = q.c /\ l.bit_pos = q.bit_pos /\ l.offset = q.offset
      /\ l.prevbt = q.prevbt /\ l.prev_bit_size = q.prev_bit_size
  BY <1>1, <1>2 DEF Locals
<1>5. Frontier(l) = Frontier(q) /\ Used(l) = Used(q) /\ (Reserved(q) => Reserved(l))
  BY <1>4 DEF Frontier, Used, Reserved
<1> QED
  BY <1>3, <1>4, <1>5

\* Places are natural numbers.
LEMMA PlacesAreNumbers ==
  /\ \A l \in Locals : Frontier(l) \in Nat /\ Used(l) \in Nat
  /\ \A m \in Members : First(m) \in Nat /\ Bits(m) \in Nat
<1>1. ASSUME NEW l \in Locals PROVE Frontier(l) \in Nat /\ Used(l) \in Nat
  <2>1. l.c \in Nat /\ l.bit_pos \in Nat /\ l.offset \in Nat
    BY DEF Locals
  <2> QED
    BY <2>1 DEF Frontier, Used
<1>2. ASSUME NEW m \in Members PROVE First(m) \in Nat /\ Bits(m) \in Nat
  <2>1. m.off \in Nat /\ m.pos \in Nat /\ m.bt \in DOMAIN TypeSize /\ m.width \in Plain .. 64
    BY DEF Members
  <2> QED
    BY <2>1, BitsAreNumbers DEF First
<1> QED
  BY <1>1, <1>2

\* A member more leaves the members apart.
LEMMA RoomKept ==
  ASSUME how \in Flags, members \in Seq(Members), lay \in Locals, Room,
         NEW f \in Declared, NEW p, Formed(p, f),
         how.union => Behind(p, f, lay),
         Reserved(lay) /\ (~ how.pcc /\ ~ how.union /\ f.width # Plain => Runs(f, lay))
           => Behind(p, f, lay) /\ Reserved(p.lay),
         ~ how.pcc /\ ~ how.union =>
           IF f.width = Plain THEN p.lay.prevbt = "none"
           ELSE p.lay.prevbt = f.bt /\ p.lay.prev_bit_size = f.width,
         NEW t, Pushed(members, p.f, t), NEW l, MaxMoved(l, p.lay, p.align)
  PROVE  /\ Last(t, l)
         /\ Begun(t) => Apart(t, l) /\ Reserved(l) /\ Frontier(l) <= Used(l)
<1> DEFINE n == Len(members)
           m == p.f
<1>1. /\ m \in Members /\ m.bt = f.bt /\ m.width = f.width /\ p.lay \in Locals
      /\ p.align \in Nat \ {0}
  BY DEF Formed, Same
<1>2. /\ t \in Seq(Members) /\ Len(t) = n + 1 /\ t[n + 1] = m /\ t # << >> /\ n \in Nat
      /\ \A i \in 1 .. n : t[i] = members[i]
      /\ \A i \in 1 .. n + 1 : i \in 1 .. n \/ i = n + 1
  BY <1>1, PushedFacts
<1>3. /\ Frontier(l) = Frontier(p.lay) /\ Used(l) = Used(p.lay)
      /\ (Reserved(p.lay) => Reserved(l))
      /\ l.prevbt = p.lay.prevbt /\ l.prev_bit_size = p.lay.prev_bit_size
  BY <1>1, MaxMovedFacts
<1> HIDE DEF n, m
<1>4. Last(t, l)
  BY <1>1, <1>2, <1>3 DEF Last
<1>5. ASSUME Begun(t) PROVE Apart(t, l) /\ Reserved(l) /\ Frontier(l) <= Used(l)
  <2>1. Begun(members)
    <3> SUFFICES ASSUME ~ how.pcc, ~ how.union, NEW i \in 1 .. n, members[i].width = 0
                 PROVE  /\ i # 1 /\ members[i - 1].width \notin {Plain, 0}
                        /\ members[i - 1].bt = members[i].bt
      BY DEF Begun, n
    <3>1. i \in 1 .. Len(t) /\ t[i] = members[i]
      BY <1>2
    <3>2. i # 1 /\ t[i - 1].width \notin {Plain, 0} /\ t[i - 1].bt = t[i].bt
      BY <1>5, <3>1 DEF Begun
    <3>3. i - 1 \in 1 .. n
      BY <1>2, <3>2
    <3> QED
      BY <1>2, <3>1, <3>2, <3>3
  <2>2. Apart(members, lay) /\ Reserved(lay) /\ Frontier(lay) <= Used(lay)
    BY <2>1 DEF Room
  <2>3. ~ how.pcc /\ ~ how.union /\ f.width # Plain => Runs(f, lay)
    <3> SUFFICES ASSUME ~ how.pcc, ~ how.union, f.width = 0
                 PROVE  lay.prevbt = f.bt /\ lay.prev_bit_size # 0
      BY DEF Runs
    <3>1. n + 1 \in 1 .. Len(t) /\ n + 1 - 1 = n
      BY <1>2
    <3>2. n + 1 # 1 /\ t[n].width \notin {Plain, 0} /\ t[n].bt = t[n + 1].bt
      BY <1>1, <1>2, <1>5, <3>1 DEF Begun
    <3>3. n \in 1 .. n
      BY <1>2, <3>2
    <3>4. members[n].width \notin {Plain, 0} /\ members[n].bt = f.bt
      BY <1>1, <1>2, <3>2, <3>3
    <3>5. members # << >>
      BY <3>3 DEF n
    <3> QED
      BY <3>4, <3>5 DEF Room, Last, n
  <2>4. Behind(p, f, lay) /\ Reserved(p.lay)
    BY <2>2, <2>3
  <2>5. /\ Frontier(lay) <= Frontier(l) /\ Frontier(l) <= Used(l) /\ Reserved(l)
        /\ f.width # 0 => /\ ~ how.union => Frontier(lay) <= First(m)
                          /\ First(m) + Bits(m) <= Frontier(l)
    BY <1>3, <2>4 DEF Behind, m
  <2>6. Frontier(lay) \in Nat /\ Frontier(l) \in Nat
    BY <1>1, <1>3, PlacesAreNumbers
  <2>7. \A i \in 1 .. n + 1 : First(t[i]) \in Nat /\ Bits(t[i]) \in Nat
    BY <1>2, PlacesAreNumbers
  <2>8. ASSUME NEW i \in 1 .. n, t[i].width # 0 PROVE First(t[i]) + Bits(t[i]) <= Frontier(lay)
    BY <1>2, <2>2, <2>8 DEF Apart, n
  <2>9. ASSUME NEW i \in 1 .. n + 1, t[i].width # 0
        PROVE  First(t[i]) + Bits(t[i]) <= Frontier(l)
    <3>1. CASE i \in 1 .. n
      BY <2>5, <2>6, <2>7, <2>8, <2>9, <3>1
    <3>2. CASE i = n + 1
      BY <1>1, <1>2, <2>5, <2>9, <3>2
    <3> QED
      BY <1>2, <3>1, <3>2
  <2>10. ASSUME ~ how.union, NEW i \in 1 .. n + 1, NEW j \in 1 .. n + 1,
                i < j, t[i].width # 0, t[j].width # 0
         PROVE  First(t[i]) + Bits(t[i]) <= First(t[j])
    <3>1. i \in 1 .. n
      BY <1>2, <2>10
    <3>2. CASE j \in 1 .. n
      BY <1>2, <2>2, <2>10, <3>1, <3>2 DEF Apart, n
    <3>3. CASE j = n + 1
      <4>1. Frontier(lay) <= First(t[j])
        BY <1>1, <1>2, <2>5, <2>10, <3>3
      <4>2. First(t[i]) + Bits(t[i]) <= Frontier(lay)
        BY <2>8, <2>10, <3>1
      <4> QED
        BY <2>6, <2>7, <4>1, <4>2
    <3> QED
      BY <1>2, <3>2, <3>3
  <2>11. Apart(t, l)
    BY <1>2, <2>9, <2>10 DEF Apart
  <2> QED
    BY <2>5, <2>11
<1> QED
  BY <1>4, <1>5

\* A member more leaves the counter gcc's.
LEMMA CountedKept ==
  ASSUME members \in Seq(Members), lay \in Locals, Counted(members, lay),
         NEW f \in Declared, NEW p, Formed(p, f), AbiPlaced(p, f, lay),
         NEW t, Pushed(members, p.f, t), NEW l, MaxMoved(l, p.lay, p.align)
  PROVE  Counted(t, l)
<1> DEFINE n == Len(members)
           m == p.f
           x == First(m) + Bits(m)
<1>1. /\ m \in Members /\ Same(m, f) /\ p.lay \in Locals /\ p.align \in Nat \ {0}
  BY DEF Formed
<1>2. /\ t \in Seq(Members) /\ Len(t) = n + 1 /\ t[n + 1] = m /\ n \in Nat
      /\ \A i \in 1 .. n : t[i] = members[i]
      /\ \A i \in 1 .. n + 1 : i \in 1 .. n \/ i = n + 1
  BY <1>1, PushedFacts
<1>3. l.c = p.lay.c /\ l.bit_pos = p.lay.bit_pos
  BY <1>1, MaxMovedFacts
<1>4. PICK e : /\ Ends(e, members) /\ e[n] = 8 * lay.c + lay.bit_pos
               /\ \A i \in 1 .. n : First(members[i]) = AbiFirst(members[i], e[i - 1])
  BY DEF Counted
<1>5. Bits(m) = Bits(f) /\ \A k : AbiFirst(m, k) = AbiFirst(f, k)
  BY <1>1, SameFacts
<1>6. /\ First(m) = AbiFirst(m, e[n])
      /\ 8 * l.c + l.bit_pos = x
  BY <1>3, <1>4, <1>5 DEF AbiPlaced
<1>7. x \in Nat
  BY <1>1, PlacesAreNumbers
<1>8. x = AbiFirst(m, e[n]) + Bits(m)
  BY <1>6
<1> HIDE DEF n, m, x
<1> DEFINE d == [j \in 0 .. n + 1 |-> IF j = n + 1 THEN x ELSE e[j]]
<1>9. /\ e \in [0 .. n -> Nat] /\ e[0] = 0
      /\ \A j \in 1 .. n : e[j] = AbiFirst(members[j], e[j - 1]) + Bits(members[j])
  BY <1>4 DEF Ends, n
<1>10. d \in [0 .. n + 1 -> Nat] /\ d[n + 1] = x /\ \A j \in 0 .. n : d[j] = e[j]
  BY <1>2, <1>7, <1>9
<1> HIDE DEF d
<1>11. ASSUME NEW j \in 1 .. n + 1
       PROVE  /\ d[j] = AbiFirst(t[j], d[j - 1]) + Bits(t[j])
              /\ First(t[j]) = AbiFirst(t[j], d[j - 1])
  <2>1. j - 1 \in 0 .. n /\ d[j - 1] = e[j - 1]
    BY <1>2, <1>10
  <2>2. CASE j \in 1 .. n
    BY <1>2, <1>4, <1>9, <1>10, <2>1, <2>2
  <2>3. CASE j = n + 1
    <3>1. j - 1 = n
      BY <1>2, <2>3
    <3> QED
      BY <1>2, <1>6, <1>8, <1>10, <2>1, <2>3, <3>1
  <2> QED
    BY <1>2, <2>2, <2>3
<1>12. Ends(d, t)
  <2>1. d[0] = 0
    BY <1>2, <1>9, <1>10
  <2> QED
    BY <1>2, <1>10, <1>11, <2>1 DEF Ends
<1>13. d[Len(t)] = 8 * l.c + l.bit_pos
  BY <1>2, <1>6, <1>10
<1>14. \A i \in 1 .. Len(t) : First(t[i]) = AbiFirst(t[i], d[i - 1])
  BY <1>2, <1>11
<1> QED
  BY <1>12, <1>13, <1>14 DEF Counted

\* and maxalign the greatest.
LEMMA GreatestKept ==
  ASSUME how \in Flags, members \in Seq(Members), lay \in Locals, Greatest(members, lay),
         NEW f \in Declared, NEW p, Formed(p, f), AbiPlaced(p, f, lay),
         \A i \in 1 .. Len(members) : ~ members[i].anon => AbiAlign(members[i]) \in Nat,
         NEW t, Pushed(members, p.f, t), NEW l, MaxMoved(l, p.lay, p.align)
  PROVE  Greatest(t, l)
<1> DEFINE n == Len(members)
           m == p.f
<1>1. /\ m \in Members /\ Same(m, f) /\ p.lay \in Locals /\ p.align \in Nat \ {0}
  BY DEF Formed
<1>2. /\ t \in Seq(Members) /\ Len(t) = n + 1 /\ t[n + 1] = m /\ n \in Nat
      /\ \A i \in 1 .. n : t[i] = members[i]
      /\ \A i \in 1 .. n + 1 : i \in 1 .. n \/ i = n + 1
  BY <1>1, PushedFacts
<1>3. l.maxalign = MaxOf(lay.maxalign, p.align) /\ lay.maxalign \in Nat \ {0}
  <2>1. l.maxalign = MaxOf(p.lay.maxalign, p.align)
    BY <1>1, MaxMovedFacts
  <2>2. p.lay.maxalign = lay.maxalign /\ lay.maxalign \in Nat \ {0}
    BY DEF AbiPlaced, Locals
  <2> QED
    BY <2>1, <2>2
<1>4. /\ p.align = (IF f.width # Plain /\ f.anon THEN 1 ELSE AbiAlign(f))
      /\ AbiAlign(m) = AbiAlign(f) /\ m.anon = f.anon /\ m.width = f.width
  BY <1>1, SameFacts DEF AbiPlaced, Same
<1> HIDE DEF n, m
<1> SUFFICES ASSUME \A i \in 1 .. Len(t) : ~ (t[i].anon /\ t[i].width = Plain)
             PROVE  /\ \A i \in 1 .. Len(t) : ~ t[i].anon => AbiAlign(t[i]) <= l.maxalign
                    /\ \/ l.maxalign = 1
                       \/ \E i \in 1 .. Len(t) : ~ t[i].anon /\ l.maxalign = AbiAlign(t[i])
  BY DEF Greatest
<1>5. /\ \A i \in 1 .. n : ~ members[i].anon => AbiAlign(members[i]) <= lay.maxalign
      /\ \/ lay.maxalign = 1
         \/ \E i \in 1 .. n : ~ members[i].anon /\ lay.maxalign = AbiAlign(members[i])
  BY <1>2 DEF Greatest, n
<1>6. ~ (f.anon /\ f.width = Plain) /\ n + 1 \in 1 .. Len(t)
  BY <1>2, <1>4
<1>7. p.align = IF f.anon THEN 1 ELSE AbiAlign(m)
  BY <1>4, <1>6
<1>8. ASSUME NEW i \in 1 .. Len(t), ~ t[i].anon PROVE AbiAlign(t[i]) <= l.maxalign
  <2>1. CASE i \in 1 .. n
    <3>1. AbiAlign(t[i]) \in Nat /\ AbiAlign(t[i]) <= lay.maxalign
      BY <1>2, <1>5, <1>8, <2>1 DEF n
    <3> QED
      BY <1>1, <1>3, <3>1 DEF MaxOf
  <2>2. CASE i = n + 1
    <3>1. AbiAlign(t[i]) = p.align
      BY <1>2, <1>4, <1>7, <1>8, <2>2
    <3> QED
      BY <1>1, <1>3, <3>1 DEF MaxOf
  <2> QED
    BY <1>2, <2>1, <2>2
<1>9. \/ l.maxalign = 1
      \/ \E i \in 1 .. Len(t) : ~ t[i].anon /\ l.maxalign = AbiAlign(t[i])
  <2>1. CASE lay.maxalign < p.align
    <3>1. l.maxalign = p.align /\ ~ f.anon
      BY <1>1, <1>3, <1>7, <2>1 DEF MaxOf
    <3> QED
      BY <1>2, <1>4, <1>6, <1>7, <3>1
  <2>2. CASE ~ (lay.maxalign < p.align)
    <3>1. l.maxalign = lay.maxalign
      BY <1>1, <1>3, <2>2 DEF MaxOf
    <3>2. \A i \in 1 .. n : i \in 1 .. Len(t)
      BY <1>2
    <3> QED
      BY <1>2, <1>5, <3>1, <3>2
  <2> QED
    BY <2>1, <2>2
<1> QED
  BY <1>8, <1>9

\* The flags do not change, nor what is said of members and locals under them.
LEMMA HowKept ==
  ASSUME how' = how
  PROVE  /\ \A m : Alignment(m)' = Alignment(m)
         /\ \A l : /\ Reserved(l)' <=> Reserved(l)
                   /\ Frontier(l)' = Frontier(l) /\ Used(l)' = Used(l) /\ Extent(l)' = Extent(l)
         /\ \A ms : Begun(ms)' <=> Begun(ms)
         /\ \A ms, l : /\ Last(ms, l)' <=> Last(ms, l)
                       /\ Apart(ms, l)' <=> Apart(ms, l)
                       /\ Counted(ms, l)' <=> Counted(ms, l)
                       /\ Greatest(ms, l)' <=> Greatest(ms, l)
<1>1. \A m : Alignment(m)' = Alignment(m)
  BY DEF Alignment
<1>2. \A m : AbiAlign(m)' = AbiAlign(m)
  BY DEF AbiAlign
<1>3. \A m : AbiPacked(m)' = AbiPacked(m)
  BY DEF AbiPacked
<1>4. \A m, p : AbiFirst(m, p)' = AbiFirst(m, p)
  BY <1>2, <1>3 DEF AbiFirst
<1>5. \A l : (Reserved(l)' <=> Reserved(l)) /\ Used(l)' = Used(l)
  BY DEF Reserved, Used
<1>6. \A l : Frontier(l)' = Frontier(l)
  BY DEF Frontier
<1>7. \A l : Extent(l)' = Extent(l)
  BY DEF Extent
<1>8. \A ms : Begun(ms)' <=> Begun(ms)
  BY DEF Begun
<1>9. \A ms, l : Last(ms, l)' <=> Last(ms, l)
  BY DEF Last
<1>10. \A ms, l : Apart(ms, l)' <=> Apart(ms, l)
  BY <1>6 DEF Apart
<1>11. \A e, ms : Ends(e, ms)' <=> Ends(e, ms)
  BY <1>4 DEF Ends
<1>12. \A ms, l : Counted(ms, l)' <=> Counted(ms, l)
  BY <1>4, <1>11 DEF Counted
<1>13. \A ms, l : Greatest(ms, l)' <=> Greatest(ms, l)
  BY <1>2 DEF Greatest
<1> QED
  BY <1>1, <1>5, <1>6, <1>7, <1>8, <1>9, <1>10, <1>12, <1>13

\* A round of the first loop of struct_layout() preserves the invariant.
LEMMA MemberStep ==
  ASSUME LayoutInv, LayMember
  PROVE  LayoutInv'
<1>1. PICK d \in Member :
        /\ Accepted(d)
        /\ LET p == PlacedMember(AsDeclared(d)) IN
             /\ lay' = [p.lay EXCEPT !.maxalign = MaxOf(@, p.align)]
             /\ members' = Append(members, p.f)
  BY DEF LayMember
<1> DEFINE f == AsDeclared(d)
           p == PlacedMember(f)
           m == p.f
<1>2. /\ how \in Flags /\ members \in Seq(Members) /\ lay \in Locals
      /\ extent.size = -1 /\ how' = how /\ extent' = extent
  BY DEF LayMember, LayoutInv, LayoutTypes
<1>3. d \in Declared
  BY LayoutAssumption DEF Declared
<1>4. f \in Declared /\ Bits(f) <= 8 * TypeSize[f.bt]
  BY <1>1, <1>3, AsDeclaredFacts
<1>5. Pushed(members, m, members') /\ MaxMoved(lay', p.lay, p.align)
  BY <1>1 DEF Pushed, MaxMoved
<1> HIDE DEF f
<1>6. /\ Formed(p, f)
      /\ how.union => Behind(p, f, lay)
      /\ Reserved(lay) /\ (~ how.pcc /\ ~ how.union /\ f.width # Plain => Runs(f, lay))
           => Behind(p, f, lay) /\ Reserved(p.lay)
      /\ how.pcc /\ ~ how.union => AbiPlaced(p, f, lay)
      /\ ~ how.pcc /\ ~ how.union =>
           IF f.width = Plain THEN p.lay.prevbt = "none"
           ELSE p.lay.prevbt = f.bt /\ p.lay.prev_bit_size = f.width
  BY <1>2, <1>4, PlacedFacts
<1> HIDE DEF p
<1>7. /\ m \in Members /\ Same(m, f) /\ p.lay \in Locals /\ p.align \in Nat \ {0}
      /\ m.unit = 0 /\ Whole(m) /\ (m.width = Plain => m.off % Alignment(m).align = 0)
  <2>1. Alignment(m) = Alignment(f) /\ m.width = f.width
    BY <1>6, SameFacts DEF Formed, Same
  <2> QED
    BY <1>6, <2>1 DEF Formed
<1>8. /\ members' \in Seq(Members) /\ Len(members') = Len(members) + 1
      /\ members'[Len(members')] = m
      /\ \A i \in 1 .. Len(members) : members'[i] = members[i]
      /\ \A i \in 1 .. Len(members') : i \in 1 .. Len(members) \/ i = Len(members')
  BY <1>2, <1>5, <1>7, PushedFacts
<1>9. lay' \in Locals
  BY <1>5, <1>7, MaxMovedFacts
<1> HIDE DEF m
<1>10. LayoutTypes'
  <2>1. ASSUME NEW i \in 1 .. Len(members')
        PROVE  /\ Whole(members'[i]) /\ members'[i].unit = 0
               /\ members'[i].width = Plain =>
                    members'[i].off % Alignment(members'[i]).align = 0
    <3>1. CASE i \in 1 .. Len(members)
      BY <1>2, <1>8, <3>1 DEF LayoutInv, LayoutTypes
    <3>2. CASE i = Len(members')
      BY <1>7, <1>8, <3>2
    <3> QED
      BY <1>8, <3>1, <3>2
  <2> QED
    BY <1>2, <1>8, <1>9, <2>1, HowKept DEF LayoutTypes
<1>11. Room'
  <2>1. /\ Last(members', lay')
        /\ Begun(members') =>
             Apart(members', lay') /\ Reserved(lay') /\ Frontier(lay') <= Used(lay')
    BY <1>2, <1>4, <1>5, <1>6, RoomKept DEF m, LayoutInv
  <2> QED
    BY <1>2, <2>1, HowKept DEF Room
<1>12. AbiInv'
  <2> SUFFICES ASSUME how.pcc, ~ how.union
               PROVE  Counted(members', lay') /\ Greatest(members', lay')
    BY <1>2, HowKept DEF AbiInv
  <2>1. Counted(members, lay) /\ Greatest(members, lay)
    BY DEF LayoutInv, AbiInv
  <2>2. ASSUME NEW i \in 1 .. Len(members) PROVE AbiAlign(members[i]) \in Nat
    <3>1. /\ members[i].bt \in DOMAIN TypeSize /\ members[i].aligned \in Nat
          /\ members[i].packed \in BOOLEAN
      <4>1. members[i] \in Members
        BY <1>2
      <4> QED
        BY <4>1 DEF Members
    <3> QED
      BY <1>2, <3>1, AlignmentFacts, AlignmentIsAbi
  <2>3. Counted(members', lay')
    BY <1>2, <1>4, <1>5, <1>6, <2>1, CountedKept DEF m
  <2>4. Greatest(members', lay')
    BY <1>2, <1>4, <1>5, <1>6, <2>1, <2>2, GreatestKept DEF m
  <2> QED
    BY <2>3, <2>4
<1> QED
  BY <1>10, <1>11, <1>12 DEF LayoutInv

-----------------------------------------------------------------------------
(* LayoutEnd ends the type.                                                *)

\* The object is as long as what is used of it, rounded up to its alignment.
LEMMA ExtentFacts ==
  ASSUME how \in Flags, lay \in Locals
  PROVE  /\ Extent(lay).size \in Nat /\ Used(lay) <= 8 * Extent(lay).size
         /\ Extent(lay).align = MaxOf(MaxOf(how.aligned, 1), lay.maxalign)
         /\ how.pcc => Extent(lay).size
                         = Up(lay.c + BytesOf(lay.bit_pos), Extent(lay).align)
         /\ Extent(lay).align \in Nat \ {0}
<1> DEFINE asked == MaxOf(how.aligned, 1)
           a == MaxOf(asked, lay.maxalign)
           round == IF how.pack # 0 /\ how.pack < lay.maxalign /\ ~ how.pcc
                    THEN MaxOf(how.pack, asked) ELSE a
           b == lay.c + (IF how.pcc THEN BytesOf(lay.bit_pos) ELSE 0)
<1>1. /\ lay.c \in Nat /\ lay.bit_pos \in Nat /\ lay.maxalign \in Nat \ {0}
      /\ how.aligned \in Nat /\ how.pack \in Nat
  BY DEF Locals, Flags
<1>2. Extent(lay) = [size |-> Up(b, round), align |-> a]
  BY DEF Extent
<1>3. asked \in Nat \ {0}
  BY <1>1 DEF MaxOf
<1>4. a \in Nat \ {0} /\ round \in Nat \ {0} /\ (how.pcc => round = a)
  BY <1>1, <1>3 DEF MaxOf
<1>5. b \in Nat /\ Used(lay) <= 8 * b
  BY <1>1 DEF BytesOf, Used
<1>6. how.pcc => b = lay.c + BytesOf(lay.bit_pos)
  OBVIOUS
<1>7. a = MaxOf(MaxOf(how.aligned, 1), lay.maxalign)
  OBVIOUS
<1> HIDE DEF a, round, b
<1>8. Up(b, round) \in Nat /\ b <= Up(b, round)
  BY <1>4, <1>5, UpFacts
<1>9. Used(lay) \in Nat
  BY PlacesAreNumbers
<1>10. Used(lay) <= 8 * Up(b, round)
  BY <1>5, <1>8, <1>9
<1> QED
  BY <1>2, <1>4, <1>6, <1>7, <1>8, <1>10

\* The second loop of struct_layout() preserves the invariant: it moves no member.
LEMMA EndStep ==
  ASSUME LayoutInv, LayoutEnd
  PROVE  LayoutInv'
<1> DEFINE n == Len(members)
           size == Extent(lay).size
           X(i) == Accessed(members[i], size)
<1>1. /\ how \in Flags /\ members \in Seq(Members) /\ lay \in Locals
      /\ extent.size = -1 /\ how' = how /\ lay' = lay /\ extent' = Extent(lay)
      /\ members' = [i \in DOMAIN members |-> X(i)]
  BY DEF LayoutEnd, Extent, LayoutInv, LayoutTypes
<1>2. size \in Nat
  BY <1>1, ExtentFacts
<1> HIDE DEF size, X
<1>3. ASSUME NEW i \in 1 .. n
      PROVE  /\ members'[i] \in Members /\ Same(members'[i], members[i])
             /\ Whole(members'[i]) /\ Fits(members'[i], size)
             /\ First(members'[i]) = First(members[i])
             /\ members[i].width = Plain => members'[i].off = members[i].off
  <2>1. members[i] \in Members /\ members[i].unit = 0 /\ Whole(members[i])
    BY <1>1 DEF LayoutInv, LayoutTypes
  <2>2. members'[i] = Accessed(members[i], size)
    BY <1>1 DEF X
  <2> QED
    BY <1>2, <2>1, <2>2, AccessedFacts
<1>4. /\ members' \in Seq(Members) /\ Len(members') = n
  <2>1. DOMAIN members = 1 .. n /\ n \in Nat
    BY <1>1
  <2>2. members' = [i \in 1 .. n |-> X(i)] /\ \A i \in 1 .. n : X(i) \in Members
    BY <1>1, <1>3, <2>1
  <2> HIDE DEF n
  <2> QED
    BY <2>1, <2>2
<1>5. ASSUME NEW i \in 1 .. n
      PROVE  /\ members'[i].bt = members[i].bt /\ members'[i].width = members[i].width
             /\ members'[i].anon = members[i].anon
             /\ Alignment(members'[i]) = Alignment(members[i])
             /\ AbiAlign(members'[i]) = AbiAlign(members[i])
             /\ Bits(members'[i]) = Bits(members[i])
             /\ \A k : AbiFirst(members'[i], k) = AbiFirst(members[i], k)
  <2>1. Same(members'[i], members[i])
    BY <1>3
  <2> QED
    BY <2>1, SameFacts DEF Same
<1>6. n \in Nat /\ (members' = << >> <=> members = << >>)
  BY <1>1, <1>4
<1>7. LayoutTypes'
  <2>1. extent'.size = size /\ extent'.size # -1
    BY <1>1, <1>2 DEF size
  <2>2. ASSUME NEW i \in 1 .. n
        PROVE  /\ Whole(members'[i]) /\ Fits(members'[i], size)
               /\ members'[i].width = Plain =>
                    members'[i].off % Alignment(members'[i]).align = 0
    BY <1>3, <1>5 DEF LayoutInv, LayoutTypes, n
  <2>3. extent' = Extent(lay)'
    BY <1>1, HowKept
  <2> QED
    BY <1>1, <1>4, <2>1, <2>2, <2>3, HowKept DEF LayoutTypes
<1>8. Room'
  <2>1. Last(members', lay)
    <3>1. Last(members, lay)
      BY DEF LayoutInv, Room
    <3>2. members # << >> => n \in 1 .. n
      BY <1>1, <1>6
    <3> QED
      BY <1>4, <1>5, <1>6, <3>1, <3>2 DEF Last, n
  <2>2. Begun(members') => Begun(members)
    <3> SUFFICES ASSUME Begun(members'), ~ how.pcc, ~ how.union,
                        NEW i \in 1 .. n, members[i].width = 0
                 PROVE  /\ i # 1 /\ members[i - 1].width \notin {Plain, 0}
                        /\ members[i - 1].bt = members[i].bt
      BY DEF Begun, n
    <3>1. /\ i # 1 /\ members'[i - 1].width \notin {Plain, 0}
          /\ members'[i - 1].bt = members'[i].bt
      BY <1>4, <1>5 DEF Begun
    <3>2. i - 1 \in 1 .. n
      BY <1>6, <3>1
    <3> QED
      BY <1>5, <3>1, <3>2
  <2>3. Apart(members, lay) => Apart(members', lay)
    BY <1>3, <1>4, <1>5 DEF Apart, n
  <2> QED
    BY <1>1, <2>1, <2>2, <2>3, HowKept DEF Room, LayoutInv
<1>9. AbiInv'
  <2> SUFFICES ASSUME how.pcc, ~ how.union
               PROVE  Counted(members', lay) /\ Greatest(members', lay)
    BY <1>1, HowKept DEF AbiInv
  <2>1. Counted(members, lay) /\ Greatest(members, lay)
    BY DEF LayoutInv, AbiInv
  <2>2. Counted(members', lay)
    <3>1. PICK e : /\ Ends(e, members) /\ e[n] = 8 * lay.c + lay.bit_pos
                   /\ \A i \in 1 .. n : First(members[i]) = AbiFirst(members[i], e[i - 1])
      BY <2>1 DEF Counted
    <3>2. Ends(e, members')
      BY <1>4, <1>5, <3>1 DEF Ends, n
    <3>3. \A i \in 1 .. n : First(members'[i]) = AbiFirst(members'[i], e[i - 1])
      BY <1>3, <1>5, <3>1
    <3> QED
      BY <1>4, <3>1, <3>2, <3>3 DEF Counted
  <2>3. Greatest(members', lay)
    BY <1>4, <1>5, <2>1 DEF Greatest, n
  <2> QED
    BY <2>2, <2>3
<1> QED
  BY <1>7, <1>8, <1>9 DEF LayoutInv

\* So every step does.
LEMMA LayoutStep ==
  ASSUME LayoutInv, [LayoutNext]_layout_vars
  PROVE  LayoutInv'
<1>1. CASE LayMember
  BY <1>1, MemberStep
<1>2. CASE LayoutEnd
  BY <1>2, EndStep
<1>3. CASE UNCHANGED layout_vars
  <2>1. how' = how /\ members' = members /\ lay' = lay /\ extent' = extent
    BY <1>3 DEF layout_vars
  <2>2. LayoutTypes'
    BY <2>1, HowKept DEF LayoutInv, LayoutTypes
  <2>3. Room'
    BY <2>1, HowKept DEF LayoutInv, Room
  <2>4. AbiInv'
    BY <2>1, HowKept DEF LayoutInv, AbiInv
  <2> QED
    BY <2>2, <2>3, <2>4 DEF LayoutInv
<1> QED
  BY <1>1, <1>2, <1>3 DEF LayoutNext

-----------------------------------------------------------------------------
(* The theorems.                                                           *)

\* Members in order, inside the object, share no bit and are accessed inside of it.
LEMMA ApartFromInv ==
  ASSUME LayoutInv
  PROVE  MembersApart
<1> DEFINE n == Len(members)
           size == extent.size
           acc == [i \in Real |-> Access(members[i])]
<1> SUFFICES ASSUME size # -1, ~ NeverBegun PROVE NoOverlap
  BY DEF MembersApart
<1>1. /\ how \in Flags /\ members \in Seq(Members) /\ lay \in Locals
      /\ DOMAIN members = 1 .. n /\ n \in Nat
  BY DEF LayoutInv, LayoutTypes
<1>2. size = Extent(lay).size
  BY DEF LayoutInv, LayoutTypes
<1> HIDE DEF n
<1>3. Begun(members)
  BY <1>1 DEF Begun, NeverBegun, n
<1>4. Apart(members, lay) /\ Frontier(lay) <= Used(lay)
  BY <1>3 DEF LayoutInv, Room
<1>5. size \in Nat /\ Used(lay) <= 8 * size
  BY <1>1, <1>2, ExtentFacts
<1> HIDE DEF size
<1>6. Real = {i \in 1 .. n : members[i].width # 0}
  BY <1>1 DEF Real
<1>7. Frontier(lay) \in Nat /\ Used(lay) \in Nat
  BY <1>1, PlacesAreNumbers
<1>8. ASSUME NEW i \in Real
      PROVE  /\ members[i] \in Members /\ members[i].width # 0 /\ i \in 1 .. n
             /\ First(members[i]) \in Nat /\ Bits(members[i]) \in Nat
             /\ acc[i].bits = First(members[i]) .. First(members[i]) + Bits(members[i]) - 1
             /\ acc[i].bytes \subseteq 0 .. size - 1
             /\ members[i].width = Plain => members[i].off % Alignment(members[i]).align = 0
  <2>1. members[i] \in Members /\ members[i].width # 0 /\ i \in 1 .. n
    BY <1>1, <1>6
  <2>2. /\ Whole(members[i]) /\ Fits(members[i], size)
        /\ members[i].width = Plain => members[i].off % Alignment(members[i]).align = 0
    BY <2>1 DEF LayoutInv, LayoutTypes, n, size
  <2>3. First(members[i]) \in Nat /\ Bits(members[i]) \in Nat
    BY <2>1, PlacesAreNumbers
  <2>4. First(members[i]) + Bits(members[i]) <= Frontier(lay)
    BY <1>4, <2>1 DEF Apart, n
  <2>5. First(members[i]) + Bits(members[i]) <= 8 * size
    BY <1>4, <1>5, <1>7, <2>3, <2>4
  <2>6. /\ Access(members[i]).bits
             = First(members[i]) .. First(members[i]) + Bits(members[i]) - 1
        /\ Access(members[i]).bytes \subseteq 0 .. size - 1
    BY <1>5, <2>1, <2>2, <2>5, AccessFacts
  <2> QED
    BY <2>1, <2>2, <2>3, <2>6
<1> HIDE DEF acc
<1>9. ASSUME NEW i \in Real, members[i].width # Plain
      PROVE  Cardinality(acc[i].bits) = members[i].width
  <2> DEFINE a == First(members[i])
             w == members[i].width
  <2>1. w \in Nat \ {0} /\ Bits(members[i]) = w
    BY <1>8, <1>9 DEF Members, Bits, Plain
  <2>2. a \in Nat /\ acc[i].bits = a .. a + w - 1
    BY <1>8, <2>1
  <2> HIDE DEF a, w
  <2>3. a + w - 1 \in Int /\ a \in Int /\ ~ (a > a + w - 1) /\ (a + w - 1) - a + 1 = w
    BY <2>1, <2>2
  <2>4. Cardinality(a .. a + w - 1) = w
    BY <2>3, FS_Interval
  <2> QED
    BY <2>2, <2>4 DEF w
<1>10. ASSUME ~ how.union, NEW i \in Real, NEW j \in Real, i < j
       PROVE  acc[i].bits \cap acc[j].bits = {}
  <2>1. First(members[i]) + Bits(members[i]) <= First(members[j])
    BY <1>4, <1>8, <1>10 DEF Apart, n
  <2> DEFINE a == First(members[i])
             x == Bits(members[i])
             b == First(members[j])
             y == Bits(members[j])
  <2>2. /\ a \in Nat /\ x \in Nat /\ b \in Nat /\ y \in Nat /\ a + x <= b
        /\ acc[i].bits = a .. a + x - 1 /\ acc[j].bits = b .. b + y - 1
    BY <1>8, <2>1
  <2> HIDE DEF a, x, b, y
  <2> QED
    BY <2>2
<1>11. ASSUME ~ how.union, NEW i \in Real, NEW j \in Real, i # j
       PROVE  acc[i].bits \cap acc[j].bits = {}
  <2>1. i \in Nat /\ j \in Nat
    BY <1>1, <1>8
  <2>2. CASE i < j
    BY <1>10, <1>11, <2>2
  <2>3. CASE j < i
    BY <1>10, <1>11, <2>3
  <2> QED
    BY <1>11, <2>1, <2>2, <2>3
<1> QED
  BY <1>8, <1>9, <1>11 DEF NoOverlap, acc, size

\* gcc's counter and the greatest alignment are those of its rule.
LEMMA AbiFromInv ==
  ASSUME LayoutInv
  PROVE  LayoutIsAbi
<1> DEFINE n == Len(members)
           asked == MaxOf(how.aligned, 1)
           aligns == {asked}
                       \cup {AbiAlign(members[i]) : i \in {k \in DOMAIN members : ~ members[k].anon}}
           a == CHOOSE x \in aligns : \A y \in aligns : y <= x
           x == MaxOf(asked, lay.maxalign)
           used == 8 * lay.c + lay.bit_pos
<1> SUFFICES ASSUME extent.size # -1, how.pcc, ~ how.union
             PROVE  /\ \A i \in Real :
                         8 * members[i].off + members[i].pos
                           = AbiFirst(members[i], AbiEnd(i - 1))
                    /\ ~ UnnamedWhole =>
                         extent = [size |-> Up(AbiEnd(n), 8 * a) \div 8, align |-> a]
  BY DEF LayoutIsAbi
<1>1. /\ how \in Flags /\ members \in Seq(Members) /\ lay \in Locals
      /\ DOMAIN members = 1 .. n /\ n \in Nat /\ extent = Extent(lay)
  BY DEF LayoutInv, LayoutTypes
<1>2. Counted(members, lay) /\ Greatest(members, lay)
  BY DEF LayoutInv, AbiInv
<1>3. PICK e : /\ Ends(e, members) /\ e[n] = used
               /\ \A i \in 1 .. n : First(members[i]) = AbiFirst(members[i], e[i - 1])
  BY <1>2 DEF Counted
<1> HIDE DEF n, a, aligns
<1>4. \A k \in 0 .. n : AbiEnd(k) = e[k]
  BY <1>1, <1>3, AbiEndIs DEF n
<1>5. ASSUME NEW i \in Real
      PROVE  8 * members[i].off + members[i].pos = AbiFirst(members[i], AbiEnd(i - 1))
  <2>1. i \in 1 .. n /\ i - 1 \in 0 .. n
    BY <1>1 DEF Real
  <2> QED
    BY <1>3, <1>4, <2>1 DEF First
<1>6. ASSUME ~ UnnamedWhole
      PROVE  extent = [size |-> Up(AbiEnd(n), 8 * a) \div 8, align |-> a]
  <2>1. \A i \in 1 .. n : ~ (members[i].anon /\ members[i].width = Plain)
    BY <1>1, <1>6 DEF UnnamedWhole
  <2>2. /\ \A i \in 1 .. n : ~ members[i].anon => AbiAlign(members[i]) <= lay.maxalign
        /\ \/ lay.maxalign = 1
           \/ \E i \in 1 .. n : ~ members[i].anon /\ lay.maxalign = AbiAlign(members[i])
    BY <1>2, <2>1 DEF Greatest, n
  <2>3. ASSUME NEW i \in 1 .. n PROVE AbiAlign(members[i]) \in Nat
    <3>1. members[i] \in Members
      BY <1>1 DEF n
    <3>2. /\ members[i].bt \in DOMAIN TypeSize /\ members[i].aligned \in Nat
          /\ members[i].packed \in BOOLEAN
      BY <3>1 DEF Members
    <3> QED
      BY <1>1, <3>2, AlignmentFacts, AlignmentIsAbi
  <2>4. how.aligned \in Nat /\ lay.maxalign \in Nat \ {0} /\ lay.c \in Nat /\ lay.bit_pos \in Nat
    BY <1>1 DEF Flags, Locals
  <2>5. asked \in Nat \ {0}
    BY <2>4 DEF MaxOf
  <2>6. aligns = {asked} \cup {AbiAlign(members[i]) : i \in {k \in 1 .. n : ~ members[k].anon}}
    BY <1>1 DEF aligns
  <2> HIDE DEF asked
  <2>7. aligns \in SUBSET Nat
    BY <2>3, <2>5, <2>6
  <2>8. x \in aligns
    <3>1. CASE asked < lay.maxalign
      <4>1. x = lay.maxalign /\ lay.maxalign # 1
        BY <2>4, <2>5, <3>1 DEF MaxOf
      <4> QED
        BY <2>2, <2>6, <4>1
    <3>2. CASE ~ (asked < lay.maxalign)
      BY <2>6, <3>2 DEF MaxOf
    <3> QED
      BY <3>1, <3>2
  <2>9. asked <= x /\ lay.maxalign <= x /\ x \in Nat \ {0}
    BY <2>4, <2>5 DEF MaxOf
  <2> HIDE DEF x
  <2>10. ASSUME NEW y \in aligns PROVE y <= x
    <3>1. CASE y = asked
      BY <2>9, <3>1
    <3>2. CASE y # asked
      <4>1. PICK i \in 1 .. n : ~ members[i].anon /\ y = AbiAlign(members[i])
        BY <2>6, <3>2
      <4>2. y \in Nat /\ y <= lay.maxalign
        BY <2>2, <2>3, <4>1
      <4> QED
        BY <2>4, <2>9, <4>2
    <3> QED
      BY <3>1, <3>2
  <2>11. a = x
    BY <2>7, <2>8, <2>10, GreatestIs DEF a
  <2>12. /\ Extent(lay).align = x
         /\ Extent(lay).size = Up(lay.c + BytesOf(lay.bit_pos), x)
    BY <1>1, ExtentFacts DEF x, asked
  <2>13. AbiEnd(n) = used
    BY <1>1, <1>3, <1>4
  <2>14. Up(used, 8 * x) = 8 * Up(lay.c + BytesOf(lay.bit_pos), x)
    BY <2>4, <2>9, UpBits
  <2>15. Up(lay.c + BytesOf(lay.bit_pos), x) \in Nat
    BY <1>1, <2>12, ExtentFacts
  <2>16. Up(used, 8 * x) \div 8 = Up(lay.c + BytesOf(lay.bit_pos), x)
    BY <2>14, <2>15
  <2>17. Extent(lay) = [size |-> Extent(lay).size, align |-> Extent(lay).align]
    BY DEF Extent
  <2> QED
    BY <1>1, <2>11, <2>12, <2>13, <2>16, <2>17
<1> QED
  BY <1>5, <1>6

\* Whatever members are declared and however they are packed, none shares a bit
\* with another, each has all its bits, and each is accessed inside the object and
\* aligned (struct_layout, load_packed_bf, store_packed_bf).
THEOREM MembersApartAlways == LayoutSpec => []MembersApart
<1>1. LayoutInit => LayoutInv
  BY LayoutInitInv
<1>2. LayoutInv /\ [LayoutNext]_layout_vars => LayoutInv'
  BY LayoutStep
<1>3. LayoutInv => MembersApart
  BY ApartFromInv
<1> QED
  BY <1>1, <1>2, <1>3, PTL DEF LayoutSpec

\* Without -mms-bitfields every struct is laid out by gcc's rule on one counter of
\* bits, however many members it has (struct_layout).
THEOREM LayoutIsAbiAlways == LayoutSpec => []LayoutIsAbi
<1>1. LayoutInit => LayoutInv
  BY LayoutInitInv
<1>2. LayoutInv /\ [LayoutNext]_layout_vars => LayoutInv'
  BY LayoutStep
<1>3. LayoutInv => LayoutIsAbi
  BY AbiFromInv
<1> QED
  BY <1>1, <1>2, <1>3, PTL DEF LayoutSpec

-----------------------------------------------------------------------------
(* A position is kept in six bits of the type.                             *)

\* In MSVC's mode the run going on is in one unit of its type.
InUnit(l) ==
  ~ how.pcc /\ ~ how.union =>
    IF l.prevbt = "none" THEN l.bit_pos = 0 ELSE l.bit_pos <= 8 * TypeSize[l.prevbt]

\* A bit-field begins in the first 64 bits of its unit.
LEMMA PositionPlaced ==
  ASSUME how \in Flags, NEW f \in Declared, Bits(f) <= 8 * TypeSize[f.bt],
         lay \in Locals, InUnit(lay)
  PROVE  LET p == PlacedMember(f) IN
         p.f.pos < 64 /\ InUnit(p.lay) /\ p.f.unit = 0 /\ p.f.width = f.width
<1> DEFINE p == PlacedMember(f)
           al == Alignment(f)
           size == TypeSize[f.bt]
<1>1. /\ f.bt \in DOMAIN TypeSize /\ f.aligned \in Nat /\ f.width \in Plain .. 64
      /\ size \in Sizes /\ size \in Nat /\ size <= 8
      /\ lay.c \in Nat /\ lay.bit_pos \in Nat /\ lay.prevbt \in {"none"} \cup DOMAIN TypeSize
  BY SizeOfType DEF Declared, Locals, Sizes
<1>2. al.align \in Nat \ {0}
  BY <1>1, AlignmentFacts
<1>3. p.f.unit = 0 /\ p.f.width = f.width
  BY PlacedFacts DEF Formed, Same
<1>4. CASE how.union
  <2>1. p.f.pos = 0
    BY <1>4 DEF PlacedMember, InUnion, At
  <2>2. InUnit(p.lay)
    BY <1>4 DEF InUnit
  <2> QED
    BY <1>3, <2>1, <2>2
<1>5. CASE ~ how.union /\ f.width = Plain
  <2>1. p = PlainMember(f, al)
    BY <1>5 DEF PlacedMember
  <2> HIDE DEF p, al
  <2>2. \E x, y : p.lay = [lay EXCEPT !.c = x, !.offset = y, !.bit_pos = 0,
                                      !.prevbt = "none", !.prev_bit_size = 0]
    BY <2>1 DEF PlainMember
  <2>3. p.f.pos = 0
    BY <2>1 DEF PlainMember, At
  <2>4. InUnit(p.lay)
    BY <2>2 DEF InUnit, Locals
  <2> QED
    BY <1>3, <2>3, <2>4 DEF p
<1>6. CASE ~ how.union /\ f.width # Plain /\ how.pcc
  <2> DEFINE fresh == PccFresh(f, al)
             pos == IF fresh THEN 0 ELSE lay.bit_pos
             q == pos \div (8 * al.align)
             over == q * al.align
  <2>1. p.f.pos = pos - 8 * over
    BY <1>6 DEF PlacedMember, PccBitField, At
  <2>2. InUnit(p.lay)
    BY <1>6 DEF InUnit
  <2>3. pos \in Nat
    BY <1>1
  <2>4. ~ fresh => al.align <= 8
    <3> SUFFICES ASSUME ~ fresh PROVE al.align <= 8
      OBVIOUS
    <3>1. f.aligned = 0
      BY DEF PccFresh
    <3> QED
      BY <1>1, <3>1 DEF Alignment, MinOf, Flags
  <2> HIDE DEF fresh, p, al
  <2>5. 8 * al.align \in Nat \ {0}
    BY <1>2
  <2>6. /\ q \in Nat /\ q * (8 * al.align) <= pos /\ pos < q * (8 * al.align) + 8 * al.align
        /\ q * (8 * al.align) \in Nat
    BY <2>3, <2>5, Quotient
  <2>7. pos = 0 => q = 0
    BY <2>5
  <2> HIDE DEF q
  <2>8. 8 * over = q * (8 * al.align)
    BY <1>2, <2>6
  <2>9. pos - 8 * over < 64
    <3>1. CASE fresh
      BY <2>3, <2>6, <2>8, <3>1
    <3>2. CASE ~ fresh
      <4> HIDE DEF over, pos
      <4> QED
        BY <1>2, <2>3, <2>4, <2>6, <2>8, <3>2
    <3> QED
      BY <3>1, <3>2
  <2> QED
    BY <1>3, <2>1, <2>2, <2>9 DEF p
<1>7. CASE ~ how.union /\ f.width # Plain /\ ~ how.pcc
  <2> DEFINE fresh == \/ lay.bit_pos + f.width > 8 * size
                      \/ (f.width > 0) = (f.bt # lay.prevbt)
             pos == IF fresh THEN 0 ELSE lay.bit_pos
  <2>1. p = MsBitField(f, al)
    BY <1>7 DEF PlacedMember
  <2>2. f.width \in Nat /\ Bits(f) = f.width
    BY <1>1, <1>7 DEF Bits, Plain
  <2>3. p.f.pos = pos
    BY <2>1 DEF MsBitField, At
  <2> HIDE DEF p, al
  <2>4. p.lay.prevbt = f.bt /\ p.lay.bit_pos = pos + f.width
    <3> HIDE DEF fresh
    <3>1. \E x, y : p.lay = [lay EXCEPT !.c = x, !.offset = y, !.bit_pos = pos + f.width,
                                        !.prevbt = f.bt, !.prev_bit_size = f.width]
      BY <2>1 DEF MsBitField, fresh
    <3> HIDE DEF pos
    <3> QED
      BY <3>1 DEF Locals
  <2>5. pos \in Nat /\ pos + f.width <= 8 * size
    BY <1>1, <2>2
  <2>6. InUnit(p.lay)
    BY <1>1, <2>4, <2>5, NoneIsNoType DEF InUnit
  <2>7. pos < 64
    <3>1. CASE f.width > 0
      BY <1>1, <2>2, <2>5, <3>1
    <3>2. CASE f.width = 0 /\ ~ fresh
      <4>1. f.bt # lay.prevbt /\ pos = lay.bit_pos
        BY <3>2
      <4>2. CASE lay.prevbt = "none"
        BY <1>7, <4>1, <4>2 DEF InUnit
      <4>3. CASE lay.prevbt # "none"
        <5>1. lay.prevbt \in DOMAIN TypeSize /\ pos <= 8 * TypeSize[lay.prevbt]
          BY <1>1, <1>7, <4>1, <4>3 DEF InUnit
        <5>2. TypeSize[lay.prevbt] <= 4 \/ size <= 4
          BY <1>1, <4>1, <5>1 DEF TypeSize
        <5>3. TypeSize[lay.prevbt] \in Nat
          BY <5>1, SizeOfType DEF Sizes
        <5> HIDE DEF pos, size
        <5> QED
          BY <1>1, <2>2, <2>5, <5>1, <5>2, <5>3
      <4> QED
        BY <4>2, <4>3
    <3>3. CASE fresh
      BY <3>3
    <3> QED
      BY <2>2, <3>1, <3>2, <3>3
  <2> QED
    BY <1>3, <2>3, <2>6, <2>7 DEF p
<1> QED
  BY <1>4, <1>5, <1>6, <1>7

\* The unit chosen last has its bits in its first 64.
LEMMA PositionAccessed ==
  ASSUME NEW f \in Members, f.pos < 64, NEW size \in Nat
  PROVE  Accessed(f, size).pos < 64
<1> DEFINE m == Accessed(f, size)
           u == Search(8 * f.off + f.pos, f.width)
<1>1. f.off \in Nat /\ f.pos \in Nat /\ f.width \in Plain .. 64
  BY DEF Members
<1>2. CASE f.width <= 0 \/ (f.pos + f.width <= 8 * f.size /\ f.off + f.size <= size)
  BY <1>2 DEF Accessed
<1>3. CASE ~ (f.width <= 0 \/ (f.pos + f.width <= 8 * f.size /\ f.off + f.size <= size))
  <2>1. 8 * f.off + f.pos \in Nat /\ f.width \in Nat \ {0}
    BY <1>1, <1>3 DEF Plain
  <2>2. u.size \in Sizes /\ u.pos \in Nat
    BY <2>1, SearchFacts
  <2>3. CASE u.pos + f.width <= 8 * u.size /\ u.off + u.size <= size
    <3>1. m = [f EXCEPT !.off = u.off, !.pos = u.pos,
                        !.unit = IF u.size # f.size THEN u.size ELSE 0]
      BY <1>3, <2>3 DEF Accessed
    <3> HIDE DEF u, m
    <3>2. m.pos = u.pos
      BY <3>1 DEF Members
    <3> QED
      BY <2>1, <2>2, <2>3, <3>2 DEF Sizes, m
  <2>4. CASE ~ (u.pos + f.width <= 8 * u.size /\ u.off + u.size <= size)
    <3>1. m = [f EXCEPT !.unit = 7]
      BY <1>3, <2>4 DEF Accessed
    <3> HIDE DEF u, m
    <3> QED
      BY <3>1 DEF Members, m
  <2> QED
    BY <2>3, <2>4
<1> QED
  BY <1>2, <1>3

PositionInv == InUnit(lay) /\ \A i \in 1 .. Len(members) : members[i].pos < 64

\* No step puts one behind them.
LEMMA PositionStep ==
  ASSUME LayoutInv, PositionInv, [LayoutNext]_layout_vars
  PROVE  PositionInv'
<1>1. /\ how \in Flags /\ members \in Seq(Members) /\ lay \in Locals
      /\ InUnit(lay) /\ \A i \in 1 .. Len(members) : members[i].pos < 64
      /\ DOMAIN members = 1 .. Len(members) /\ Len(members) \in Nat
  BY DEF LayoutInv, LayoutTypes, PositionInv
<1>2. how' = how
  BY DEF LayoutNext, LayMember, LayoutEnd, layout_vars
<1>3. \A l : InUnit(l)' <=> InUnit(l)
  BY <1>2 DEF InUnit
<1>4. CASE LayMember
  <2>1. PICK d \in Member :
          /\ Accepted(d)
          /\ LET p == PlacedMember(AsDeclared(d)) IN
               /\ lay' = [p.lay EXCEPT !.maxalign = MaxOf(@, p.align)]
               /\ members' = Append(members, p.f)
    BY <1>4 DEF LayMember
  <2> DEFINE f == AsDeclared(d)
             p == PlacedMember(f)
  <2>2. d \in Declared
    BY LayoutAssumption DEF Declared
  <2>3. f \in Declared /\ Bits(f) <= 8 * TypeSize[f.bt]
    BY <2>1, <2>2, AsDeclaredFacts
  <2>4. Pushed(members, p.f, members') /\ MaxMoved(lay', p.lay, p.align)
    BY <2>1 DEF Pushed, MaxMoved
  <2> HIDE DEF f
  <2>5. p.f.pos < 64 /\ InUnit(p.lay)
    BY <1>1, <2>3, PositionPlaced
  <2>6. p.f \in Members /\ p.lay \in Locals /\ p.align \in Nat \ {0}
    BY <1>1, <2>3, PlacedFacts DEF Formed
  <2> HIDE DEF p
  <2>7. lay'.prevbt = p.lay.prevbt /\ lay'.bit_pos = p.lay.bit_pos
    BY <2>4, <2>6, MaxMovedFacts
  <2>8. InUnit(lay')
    BY <2>5, <2>7 DEF InUnit
  <2>9. ASSUME NEW i \in 1 .. Len(members') PROVE members'[i].pos < 64
    <3>1. /\ members'[Len(members')] = p.f
          /\ \A k \in 1 .. Len(members) : members'[k] = members[k]
          /\ i \in 1 .. Len(members) \/ i = Len(members')
      BY <1>1, <2>4, <2>6, PushedFacts
    <3> QED
      BY <1>1, <2>5, <3>1
  <2> QED
    BY <1>3, <2>8, <2>9 DEF PositionInv
<1>5. CASE LayoutEnd
  <2> DEFINE size == Extent(lay).size
  <2>1. /\ lay' = lay
        /\ members' = [i \in DOMAIN members |-> Accessed(members[i], size)]
    BY <1>5 DEF LayoutEnd, Extent
  <2>2. size \in Nat
    BY <1>1, ExtentFacts
  <2> HIDE DEF size
  <2>3. ASSUME NEW i \in 1 .. Len(members) PROVE Accessed(members[i], size).pos < 64
    <3>1. members[i] \in Members /\ members[i].pos < 64
      BY <1>1
    <3> QED
      BY <2>2, <3>1, PositionAccessed
  <2>4. DOMAIN members' = 1 .. Len(members)
    BY <1>1, <2>1
  <2>5. Len(members') = Len(members)
    BY <1>1, <2>1, <2>4
  <2> QED
    BY <1>1, <1>3, <2>1, <2>3, <2>5 DEF PositionInv
<1>6. CASE UNCHANGED layout_vars
  BY <1>1, <1>3, <1>6 DEF layout_vars, PositionInv
<1> QED
  BY <1>4, <1>5, <1>6 DEF LayoutNext

\* struct_layout() keeps the position of every bit-field in six bits of its type, and
\* every position fits: however the fields are declared, it is less than 64.
THEOREM PositionsFit == LayoutSpec => [](\A i \in 1 .. Len(members) : members[i].pos < 64)
<1>1. LayoutInit => LayoutInv /\ PositionInv
  <2> SUFFICES ASSUME LayoutInit PROVE PositionInv
    BY LayoutInitInv
  <2>1. members = << >> /\ lay.prevbt = "none" /\ lay.bit_pos = 0
    BY DEF LayoutInit
  <2> QED
    BY <2>1 DEF PositionInv, InUnit
<1>2. LayoutInv /\ PositionInv /\ [LayoutNext]_layout_vars => (LayoutInv /\ PositionInv)'
  BY LayoutStep, PositionStep
<1>3. PositionInv => \A i \in 1 .. Len(members) : members[i].pos < 64
  BY DEF PositionInv
<1> QED
  BY <1>1, <1>2, <1>3, PTL DEF LayoutSpec
====
