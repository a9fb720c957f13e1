------------------------------- MODULE SeqFacts -------------------------------
(***************************************************************************)
(* Lemmas on numbers, sequences and folds that the proofs of several       *)
(* components cite.  Induction is stated for sets of numbers, so that the  *)
(* provers have no operator to instantiate; and that a function defined by *)
(* recursion exists, for a step that is a function.                        *)
(***************************************************************************)
EXTENDS Integers, Sequences, SequenceTheorems, WellFoundedInduction, TLAPS

-----------------------------------------------------------------------------
(* Induction.                                                              *)

LEMMA NatOrder ==
  \E R : IsWellFoundedOn(R, Nat) /\ \A x, y \in Nat : <<x, y>> \notin R => y <= x
<1> WITNESS OpToRel(<, Nat)
<1>1. \A x, y \in Nat : <<x, y>> \notin OpToRel(<, Nat) => y <= x
  BY DEF OpToRel
<1> QED
  BY NatLessThanWellFounded, <1>1, Zenon

(* A set of numbers has a least one. *)
LEMMA LeastNat ==
  ASSUME NEW S, S \subseteq Nat, S # {}
  PROVE  \E m \in S : \A k \in S : m <= k
<1>1. PICK R : IsWellFoundedOn(R, Nat) /\ \A x, y \in Nat : <<x, y>> \notin R => y <= x
  BY NatOrder
<1>2. \E m \in S : \A y \in S : ~ (<<y, m>> \in R)
  <2>1. IsWellFoundedOn(R, Nat)
    BY <1>1
  <2> QED
    BY <2>1, WFMin, Zenon
<1>3. PICK m \in S : \A y \in S : ~ (<<y, m>> \in R)
  BY <1>2
<1>4. ASSUME NEW k \in S PROVE m <= k
  <2>1. k \in Nat /\ m \in Nat /\ <<k, m>> \notin R
    BY <1>3
  <2> QED
    BY <2>1, <1>1
<1> QED
  BY <1>4

(* Induction: a set that has 0, and n + 1 with every n, has every number.  *)
LEMMA NatSetInduction ==
  ASSUME NEW P, 0 \in P, \A n \in Nat : n \in P => n + 1 \in P
  PROVE  \A n \in Nat : n \in P
<1> SUFFICES ASSUME Nat \ P # {} PROVE FALSE
  OBVIOUS
<1>1. PICK m \in Nat \ P : \A k \in Nat \ P : m <= k
  BY LeastNat
<1>2. m # 0 /\ m - 1 \in Nat
  BY <1>1
<1>3. m - 1 \in P
  BY <1>1, <1>2
<1>4. (m - 1) + 1 \in P
  BY <1>2, <1>3
<1> QED
  BY <1>1, <1>4

-----------------------------------------------------------------------------
(* Parts of sequences.                                                     *)

LEMMA Part ==
  ASSUME NEW S, NEW s \in Seq(S), NEW m \in Nat, NEW n \in Nat, 1 <= m, m <= n + 1, n <= Len(s)
  PROVE  /\ SubSeq(s, m, n) \in Seq(S)
         /\ Len(SubSeq(s, m, n)) = n + 1 - m
         /\ \A i \in 1 .. n + 1 - m : SubSeq(s, m, n)[i] = s[m + i - 1]
<1>0. \A i \in m .. n : s[i] \in S
  OBVIOUS
<1> QED
  BY <1>0, SubSeqProperties

LEMMA Joined ==
  ASSUME NEW S, NEW s \in Seq(S), NEW t \in Seq(S)
  PROVE  /\ s \o t \in Seq(S) /\ Len(s \o t) = Len(s) + Len(t)
         /\ \A i \in 1..Len(s) : (s \o t)[i] = s[i]
         /\ \A i \in 1..Len(t) : (s \o t)[Len(s) + i] = t[i]
BY ConcatProperties

(* A sequence that was put together can be taken apart. *)
LEMMA TakeApart ==
  ASSUME NEW S, NEW s \in Seq(S), NEW t \in Seq(S), NEW n \in Nat, n = Len(s)
  PROVE  /\ SubSeq(s \o t, 1, n) = s
         /\ SubSeq(s \o t, n + 1, Len(s \o t)) = t
<1> DEFINE st == s \o t
<1>1. /\ st \in Seq(S) /\ Len(st) = n + Len(t) /\ Len(st) \in Nat /\ Len(t) \in Nat
      /\ \A i \in 1..n : st[i] = s[i]
      /\ \A i \in 1..Len(t) : st[n + i] = t[i]
  BY Joined
<1> HIDE DEF st
<1>2. SubSeq(st, 1, n) = s
  <2>1. 1 \in Nat /\ 1 <= n + 1 /\ n <= Len(st)
    BY <1>1
  <2>2. /\ SubSeq(st, 1, n) \in Seq(S) /\ Len(SubSeq(st, 1, n)) = n + 1 - 1
        /\ \A i \in 1 .. n + 1 - 1 : SubSeq(st, 1, n)[i] = st[1 + i - 1]
    BY <1>1, <2>1, Part
  <2> DEFINE part == SubSeq(st, 1, n)
  <2>3. part \in Seq(S) /\ Len(part) = n /\ \A i \in 1..n : part[i] = st[i]
    BY <2>2
  <2> HIDE DEF part
  <2>4. part = s
    BY <1>1, <2>3, SeqEqual
  <2> QED
    BY <2>4 DEF part
<1>3. SubSeq(st, n + 1, Len(st)) = t
  <2> DEFINE m == n + 1
             len == Len(st)
  <2>1. m \in Nat /\ len \in Nat /\ 1 <= m /\ m <= len + 1 /\ len <= Len(st) /\ len = n + Len(t)
    BY <1>1
  <2> HIDE DEF m, len
  <2>5. /\ SubSeq(st, m, len) \in Seq(S) /\ Len(SubSeq(st, m, len)) = len + 1 - m
        /\ \A i \in 1 .. len + 1 - m : SubSeq(st, m, len)[i] = st[m + i - 1]
    <3>1. st \in Seq(S) /\ m \in Nat /\ len \in Nat /\ 1 <= m /\ m <= len + 1 /\ len <= Len(st)
      BY <1>1, <2>1
    <3> QED
      BY <3>1, Part
  <2> DEFINE part == SubSeq(st, m, len)
  <2>2. part \in Seq(S) /\ Len(part) = len + 1 - m /\ \A i \in 1 .. len + 1 - m : part[i] = st[m + i - 1]
    BY <2>5
  <2>3. Len(part) = Len(t) /\ \A i \in 1..Len(t) : part[i] = st[n + i]
    BY <1>1, <2>1, <2>2 DEF m
  <2> HIDE DEF part
  <2>4. part = t
    BY <1>1, <2>2, <2>3, SeqEqual
  <2> QED
    BY <2>4 DEF part, m, len
<1> QED
  BY <1>2, <1>3 DEF st

(* The least of a set. *)
Least(S) == CHOOSE x \in S : \A y \in S : x <= y

LEMMA LeastIs ==
  ASSUME NEW n \in Nat, NEW S, S \subseteq Nat, n \in S, \A y \in S : n <= y
  PROVE  Least(S) = n
<1>1. \A x \in S : (\A y \in S : x <= y) => x = n
  OBVIOUS
<1> QED
  BY <1>1 DEF Least

-----------------------------------------------------------------------------
(* Recursion.                                                              *)

(* A function on 1..n, of which each value follows from the one before.    *)
IsIterated(f, T, base, step, n) ==
  f \in [0..n -> T] /\ f[0] = base /\ \A k \in 1..n : f[k] = step[<<f[k-1], k>>]

LEMMA Iterates ==
  ASSUME NEW T, NEW base \in T, NEW step \in [T \X Nat -> T], NEW len \in Nat
  PROVE  \E f : IsIterated(f, T, base, step, len)
<1> DEFINE Is(f, n) == f[0] = base /\ \A k \in 1..n : f[k] = step[<<f[k-1], k>>]
           P == {n \in Nat : \E f \in [0..n -> T] : Is(f, n)}
<1>1. 0 \in P
  <2> DEFINE f == [i \in 0..0 |-> base]
  <2>1. f \in [0..0 -> T] /\ Is(f, 0)
    OBVIOUS
  <2> QED
    BY <2>1
<1>2. ASSUME NEW n \in Nat, n \in P PROVE n + 1 \in P
  <2>1. PICK f \in [0..n -> T] : Is(f, n)
    BY <1>2
  <2> DEFINE v == step[<<f[n], n + 1>>]
             g == [i \in 0..n+1 |-> IF i = n + 1 THEN v ELSE f[i]]
  <2>2. v \in T
    OBVIOUS
  <2>3. g \in [0..n+1 -> T]
    BY <2>2
  <2>4. g[0] = base
    BY <2>1
  <2>5. ASSUME NEW k \in 1..n+1 PROVE g[k] = step[<<g[k-1], k>>]
    <3>1. CASE k = n + 1
      <4>1. g[k-1] = f[n] /\ g[k] = v
        BY <3>1
      <4> QED
        BY <3>1, <4>1
    <3>2. CASE k \in 1..n
      <4>1. g[k-1] = f[k-1] /\ g[k] = f[k]
        BY <3>2
      <4> QED
        BY <2>1, <3>2, <4>1
    <3> QED
      BY <3>1, <3>2
  <2> HIDE DEF g, v
  <2>6. Is(g, n + 1)
    BY <2>4, <2>5
  <2> QED
    BY <2>3, <2>6
<1> HIDE DEF P
<1>3. len \in P
  BY <1>1, <1>2, NatSetInduction
<1> QED
  BY <1>3 DEF P, IsIterated

(* A function that starts with base and takes one step after another, as   *)
(* long as it is in T, is in T.                                            *)
TakesSteps(f, T, base, step, n) ==
  /\ f = [k \in 0..n |-> f[k]]
  /\ f[0] = base
  /\ \A k \in 1..n : f[k-1] \in T => f[k] = step[<<f[k-1], k>>]

LEMMA StepsIterate ==
  ASSUME NEW T, NEW base \in T, NEW step \in [T \X Nat -> T], NEW n \in Nat, NEW f,
         TakesSteps(f, T, base, step, n)
  PROVE  IsIterated(f, T, base, step, n)
<1> DEFINE P == {k \in Nat : k <= n => f[k] \in T}
<1>1. 0 \in P
  BY DEF TakesSteps
<1>2. ASSUME NEW k \in Nat, k \in P PROVE k + 1 \in P
  <2>1. CASE k + 1 <= n
    <3> DEFINE j == k + 1
    <3>1. j \in 1..n /\ j - 1 = k /\ j \in Nat /\ k <= n
      BY <2>1
    <3> HIDE DEF j
    <3>2. f[k] \in T
      BY <1>2, <3>1
    <3>3. f[j] = step[<<f[k], j>>]
      BY <3>1, <3>2 DEF TakesSteps
    <3>4. f[j] \in T
      BY <3>1, <3>2, <3>3
    <3> QED
      BY <3>1, <3>4 DEF j
  <2>2. CASE ~(k + 1 <= n)
    BY <2>2
  <2> QED
    BY <2>1, <2>2
<1> HIDE DEF P
<1>3. \A k \in Nat : k \in P
  BY <1>1, <1>2, NatSetInduction
<1>4. ASSUME NEW k \in 0..n PROVE f[k] \in T
  BY <1>3 DEF P
<1>5. f \in [0..n -> T]
  <2>1. [k \in 0..n |-> f[k]] \in [0..n -> T]
    BY <1>4
  <2> QED
    BY <2>1 DEF TakesSteps
<1>6. ASSUME NEW k \in 1..n PROVE f[k] = step[<<f[k-1], k>>]
  <2>1. k - 1 \in 0..n
    OBVIOUS
  <2> QED
    BY <1>4, <2>1 DEF TakesSteps
<1> QED
  BY <1>5, <1>6 DEF IsIterated, TakesSteps

(* The greatest of a set. *)
Greatest(S) == CHOOSE x \in S : \A y \in S : x >= y

LEMMA GreatestIs ==
  ASSUME NEW n \in Nat, NEW S, S \subseteq 1..n, n \in S
  PROVE  Greatest(S) = n
<1>1. \A y \in S : n >= y
  OBVIOUS
<1>2. \A x \in S : (\A y \in S : x >= y) => x = n
  OBVIOUS
<1> QED
  BY <1>1, <1>2 DEF Greatest

(* A set of numbers up to n has one. *)
LEMMA GreatestExists ==
  ASSUME NEW n \in Nat, NEW S, S \subseteq 1..n, S # {}
  PROVE  Greatest(S) \in S /\ \A y \in S : Greatest(S) >= y
<1> DEFINE R == {n - x : x \in S}
<1>1. R \subseteq Nat /\ R # {}
  <2>1. \A x \in S : x \in 1..n
    OBVIOUS
  <2>2. \A x \in S : n - x \in Nat
    BY <2>1
  <2> QED
    BY <2>2
<1>2. PICK m \in R : \A k \in R : m <= k
  BY <1>1, LeastNat
<1>3. PICK x \in S : m = n - x
  BY <1>2
<1>4. ASSUME NEW y \in S PROVE x >= y
  <2>1. n - y \in R /\ x \in 1..n /\ y \in 1..n
    OBVIOUS
  <2> QED
    BY <1>2, <1>3, <2>1
<1> QED
  BY <1>4 DEF Greatest

LEMMA UpTo ==
  ASSUME NEW k \in Nat, k > 0
  PROVE  1..k # {} /\ (1..k) \ {k} = 1..(k-1) /\ Greatest(1..k) = k
<1>1. 1..k # {} /\ (1..k) \ {k} = 1..(k-1) /\ k \in 1..k
  OBVIOUS
<1> QED
  BY <1>1, GreatestIs

(***************************************************************************)
(* A fold over sets of numbers that takes the greatest first, which is how *)
(* FoldLeft is defined: the function exists, and from one number to the    *)
(* next it takes one step.                                                 *)
(***************************************************************************)
IsFold(f, T, base, step, n) ==
  /\ f \in [SUBSET (1..n) -> T]
  /\ \A S \in SUBSET (1..n) :
       f[S] = IF S = {} THEN base ELSE step[<<f[S \ {Greatest(S)}], Greatest(S)>>]

LEMMA FoldExists ==
  ASSUME NEW T, NEW base \in T, NEW step \in [T \X Nat -> T], NEW len \in Nat
  PROVE  \E f : IsFold(f, T, base, step, len)
<1> DEFINE Is(f, n) == \A S \in SUBSET (1..n) :
             f[S] = IF S = {} THEN base ELSE step[<<f[S \ {Greatest(S)}], Greatest(S)>>]
           P == {n \in Nat : \E f \in [SUBSET (1..n) -> T] : Is(f, n)}
<1>1. 0 \in P
  <2> DEFINE f == [S \in SUBSET (1..0) |-> base]
  <2>1. f \in [SUBSET (1..0) -> T] /\ Is(f, 0)
    OBVIOUS
  <2> QED
    BY <2>1
<1>2. ASSUME NEW n \in Nat, n \in P PROVE n + 1 \in P
  <2>1. PICK f \in [SUBSET (1..n) -> T] : Is(f, n)
    BY <1>2
  <2> DEFINE Below(S) == S \ {n + 1}
             g == [S \in SUBSET (1..n+1) |-> IF n + 1 \in S THEN step[<<f[Below(S)], n + 1>>] ELSE f[S]]
  <2>2. ASSUME NEW S \in SUBSET (1..n+1)
        PROVE  /\ Below(S) \in SUBSET (1..n)
               /\ n + 1 \notin S => S \in SUBSET (1..n)
    OBVIOUS
  <2>3. g \in [SUBSET (1..n+1) -> T]
    BY <2>2
  <2>4. ASSUME NEW S \in SUBSET (1..n) PROVE g[S] = f[S]
    <3>1. S \in SUBSET (1..n+1) /\ n + 1 \notin S
      OBVIOUS
    <3> QED
      BY <3>1
  <2>5. ASSUME NEW S \in SUBSET (1..n+1)
        PROVE  g[S] = IF S = {} THEN base ELSE step[<<g[S \ {Greatest(S)}], Greatest(S)>>]
    <3>1. CASE n + 1 \in S
      <4>1. Greatest(S) = n + 1
        <5>1. n + 1 \in Nat /\ S \subseteq 1..n+1
          OBVIOUS
        <5> QED
          BY <3>1, <5>1, GreatestIs
      <4>2. g[S \ {Greatest(S)}] = f[Below(S)]
        BY <2>2, <2>4, <4>1
      <4> QED
        BY <3>1, <4>1, <4>2
    <3>2. CASE n + 1 \notin S
      <4>1. S \in SUBSET (1..n) /\ g[S] = f[S]
        BY <2>2, <2>4, <3>2
      <4>2. S \ {Greatest(S)} \in SUBSET (1..n)
        BY <4>1
      <4>3. g[S \ {Greatest(S)}] = f[S \ {Greatest(S)}]
        BY <4>2, <2>4
      <4>4. f[S] = IF S = {} THEN base ELSE step[<<f[S \ {Greatest(S)}], Greatest(S)>>]
        BY <2>1, <4>1
      <4> QED
        BY <4>1, <4>3, <4>4
    <3> QED
      BY <3>1, <3>2
  <2> HIDE DEF g
  <2>6. Is(g, n + 1)
    BY <2>5
  <2> HIDE DEF Is
  <2> QED
    BY <2>3, <2>6
<1> HIDE DEF P
<1>3. len \in P
  BY <1>1, <1>2, NatSetInduction
<1> QED
  BY <1>3 DEF P, IsFold

(* There is one such function, and it goes on for ever. *)
LEMMA IteratesOnce ==
  ASSUME NEW T, NEW base, NEW step, NEW n \in Nat, NEW m \in Nat, n <= m,
         NEW f, NEW g, IsIterated(f, T, base, step, n), IsIterated(g, T, base, step, m)
  PROVE  \A k \in 0..n : f[k] = g[k]
<1> DEFINE P == {k \in Nat : k <= n => f[k] = g[k]}
<1>1. 0 \in P
  BY DEF IsIterated
<1>2. ASSUME NEW k \in Nat, k \in P PROVE k + 1 \in P
  <2> SUFFICES ASSUME k + 1 <= n PROVE f[k + 1] = g[k + 1]
    OBVIOUS
  <2>1. f[k] = g[k] /\ k + 1 \in 1..n /\ k + 1 \in 1..m
    BY <1>2
  <2>2. f[k + 1] = step[<<f[(k + 1) - 1], k + 1>>] /\ g[k + 1] = step[<<g[(k + 1) - 1], k + 1>>]
    BY <2>1 DEF IsIterated
  <2>3. (k + 1) - 1 = k
    OBVIOUS
  <2> QED
    BY <2>1, <2>2, <2>3
<1> HIDE DEF P
<1>3. \A k \in Nat : k \in P
  BY <1>1, <1>2, NatSetInduction
<1> QED
  BY <1>3 DEF P

IsRecursion(f, T, base, step) ==
  f \in [Nat -> T] /\ f[0] = base /\ \A k \in Nat \ {0} : f[k] = step[<<f[k-1], k>>]

LEMMA IteratesOn ==
  ASSUME NEW T, NEW base \in T, NEW step \in [T \X Nat -> T]
  PROVE  \E f : IsRecursion(f, T, base, step)
<1> DEFINE g == [n \in Nat |-> CHOOSE h : IsIterated(h, T, base, step, n)]
           f == [n \in Nat |-> g[n][n]]
<1>1. ASSUME NEW n \in Nat PROVE IsIterated(g[n], T, base, step, n)
  <2>1. \E h : IsIterated(h, T, base, step, n)
    BY Iterates
  <2>2. g[n] = CHOOSE h : IsIterated(h, T, base, step, n)
    OBVIOUS
  <2> HIDE DEF g
  <2> QED
    BY <2>1, <2>2, Zenon
<1> HIDE DEF g
<1>2. f \in [Nat -> T] /\ f[0] = base
  BY <1>1 DEF IsIterated
<1>3. ASSUME NEW k \in Nat \ {0} PROVE f[k] = step[<<f[k-1], k>>]
  <2> DEFINE j == k - 1
  <2>1. j \in Nat /\ j <= k /\ j \in 0..j /\ k \in 1..k /\ k \in Nat
    OBVIOUS
  <2>2. g[k][k] = step[<<g[k][j], k>>]
    BY <1>1, <2>1 DEF IsIterated
  <2> HIDE DEF j
  <2>3. g[j][j] = g[k][j]
    <3> DEFINE a == g[j]
               b == g[k]
    <3>1. IsIterated(a, T, base, step, j) /\ IsIterated(b, T, base, step, k)
      BY <1>1, <2>1
    <3> HIDE DEF a, b
    <3>2. \A i \in 0..j : a[i] = b[i]
      BY <2>1, <3>1, IteratesOnce
    <3> QED
      BY <2>1, <3>2 DEF a, b
  <2>4. f[k] = g[k][k] /\ f[j] = g[j][j]
    BY <2>1
  <2> QED
    BY <2>2, <2>3, <2>4 DEF j
<1> HIDE DEF f
<1> QED
  BY <1>2, <1>3 DEF IsRecursion
===============================================================================
