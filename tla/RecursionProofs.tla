--------------------------- MODULE RecursionProofs ---------------------------
(***************************************************************************)
(* Induction over the natural numbers without an operator parameter: with  *)
(* it a function defined by recursion is known to exist, and what it       *)
(* computes can be proved.  Lemmas for the other proof modules.            *)
(***************************************************************************)
EXTENDS Sublists, SequenceTheorems, WellFoundedInduction, TLAPS

(* A set of numbers has a least one. *)
LEMMA LeastNumber ==
    ASSUME NEW N \in SUBSET Nat, N # {}
    PROVE  \E m \in N : \A n \in N : m <= n
<1>1. IsWellFoundedOn(OpToRel(<, Nat), Nat)
  BY NatLessThanWellFounded
<1>2. PICK m \in N : \A n \in N : ~(<<n, m>> \in OpToRel(<, Nat))
  BY <1>1, WFMin
<1>3. ASSUME NEW n \in N PROVE m <= n
  <2>1. ~(n < m)
    BY <1>2 DEF OpToRel
  <2> QED BY <2>1
<1> QED BY <1>3

(* What holds of 0, and passes from a number to the next, holds of all.     *)
LEMMA CountUp ==
    ASSUME NEW n \in Nat, NEW P, 0 \in P,
           \A i \in 0..n : i < n /\ i \in P => i + 1 \in P
    PROVE  0..n \subseteq P
<1> SUFFICES ASSUME (0..n) \ P # {}
             PROVE  FALSE
  OBVIOUS
<1>1. PICK m \in (0..n) \ P : \A k \in (0..n) \ P : m <= k
  <2>1. (0..n) \ P \in SUBSET Nat
    OBVIOUS
  <2> QED BY <2>1, LeastNumber
<1>2. m \in Nat /\ m # 0 /\ m <= n
  OBVIOUS
<1>3. m - 1 \in 0..n /\ m - 1 < n /\ (m - 1) + 1 = m
  BY <1>2
<1>4. m - 1 \in P
  BY <1>1, <1>2, <1>3
<1> QED BY <1>3, <1>4

-----------------------------------------------------------------------------
(* The values that a recursion from e takes in n steps, g[i] being the     *)
(* i-th.                                                                   *)
Recurs(f, S, e, n, g) ==
    f \in [0..n -> S] /\ f[0] = e /\ \A i \in 1..n : f[i] = g[i][f[i - 1]]

LEMMA Recursion ==
    ASSUME NEW S, NEW e \in S, NEW n \in Nat, NEW g \in [1..n -> [S -> S]]
    PROVE  \E f : Recurs(f, S, e, n, g)
<1> DEFINE Steps(f, k) == f[0] = e /\ \A i \in 1..k : f[i] = g[i][f[i - 1]]
           P == {k \in 0..n : \E f \in [0..k -> S] : Steps(f, k)}
<1>1. 0 \in P
  <2> DEFINE f == [i \in 0..0 |-> e]
  <2>1. f \in [0..0 -> S] /\ f[0] = e /\ 1..0 = {}
    OBVIOUS
  <2>2. Steps(f, 0)
    BY <2>1
  <2> HIDE DEF Steps, f
  <2> QED BY <2>1, <2>2
<1>2. ASSUME NEW k \in 0..n, k < n, k \in P
      PROVE  k + 1 \in P
  <2>1. PICK f \in [0..k -> S] : Steps(f, k)
    BY <1>2
  <2>2. /\ k \in Nat /\ k + 1 \in 0..n /\ k + 1 \in 1..n /\ k \in 0..k
        /\ 0 \in 0..k + 1 /\ 0 <= k /\ k + 1 \in 0..k + 1 /\ ~(k + 1 <= k)
    BY <1>2
  <2> DEFINE h == [i \in 0..k + 1 |-> IF i <= k THEN f[i] ELSE g[k + 1][f[k]]]
  <2>3. g[k + 1][f[k]] \in S
    BY <2>2
  <2>4. \A i \in 0..k + 1 : i <= k => i \in 0..k
    BY <2>2
  <2>5. h \in [0..k + 1 -> S]
    BY <2>3, <2>4
  <2>6. h[0] = f[0] /\ h[k + 1] = g[k + 1][f[k]] /\ \A i \in 0..k : h[i] = f[i]
    <3>1. \A i \in 0..k : i \in 0..k + 1 /\ i <= k
      BY <2>2
    <3> QED BY <2>2, <3>1
  <2> HIDE DEF h
  <2>7. ASSUME NEW i \in 1..k + 1 PROVE h[i] = g[i][h[i - 1]]
    <3>1. CASE i \in 1..k
      <4>1. i \in 0..k /\ i - 1 \in 0..k
        BY <2>2, <3>1
      <4> QED BY <2>1, <2>6, <3>1, <4>1
    <3>2. CASE i = k + 1
      <4>1. i - 1 = k
        BY <2>2, <3>2
      <4> QED BY <2>2, <2>6, <3>2, <4>1
    <3>3. i \in 1..k \/ i = k + 1
      BY <2>2
    <3> QED BY <3>1, <3>2, <3>3
  <2>8. Steps(h, k + 1)
    BY <2>1, <2>6, <2>7
  <2> QED BY <2>2, <2>5, <2>8
<1>3. 0..n \subseteq P
  <2> HIDE DEF P
  <2> QED BY <1>1, <1>2, CountUp
<1>4. n \in 0..n
  OBVIOUS
<1> QED BY <1>3, <1>4 DEF Recurs

(* What takes the steps of a recursion while it stays in S stays in S.      *)
LEMMA FollowsRecursion ==
    ASSUME NEW S, NEW e \in S, NEW n \in Nat, NEW g \in [1..n -> [S -> S]],
           NEW h, h = [i \in 0..n |-> h[i]], h[0] = e,
           \A i \in 1..n : h[i - 1] \in S => h[i] = g[i][h[i - 1]]
    PROVE  Recurs(h, S, e, n, g)
<1> DEFINE P == {i \in 0..n : h[i] \in S}
<1>1. 0 \in P
  OBVIOUS
<1>2. ASSUME NEW i \in 0..n, i < n, i \in P
      PROVE  i + 1 \in P
  <2>1. i + 1 \in 0..n /\ (i + 1) - 1 = i /\ i + 1 \in 1..n
    BY <1>2
  <2>2. h[i + 1] = g[i + 1][h[i]] /\ h[i] \in S
    BY <1>2, <2>1
  <2>3. g[i + 1] \in [S -> S]
    BY <2>1
  <2> QED BY <2>1, <2>2, <2>3
<1>3. 0..n \subseteq P
  <2> HIDE DEF P
  <2> QED BY <1>1, <1>2, CountUp
<1>4. h \in [0..n -> S]
  <2>1. \A i \in 0..n : h[i] \in S
    BY <1>3
  <2> QED BY <2>1
<1>5. \A i \in 1..n : h[i] = g[i][h[i - 1]]
  <2> SUFFICES ASSUME NEW i \in 1..n PROVE h[i] = g[i][h[i - 1]]
    OBVIOUS
  <2>1. i - 1 \in 0..n
    OBVIOUS
  <2> QED BY <1>3, <2>1
<1> QED BY <1>4, <1>5 DEF Recurs

(* A recursion of one step more takes the same values, and then one more.  *)
Agree(g, k, n) == \A i \in 1..n : g[i] = k[i]

LEMMA OneStepMore ==
    ASSUME NEW S, NEW e \in S, NEW n \in Nat, NEW m, m = n + 1,
           NEW g, NEW k, Agree(g, k, n),
           NEW f, Recurs(f, S, e, n, g),
           NEW h, Recurs(h, S, e, m, k)
    PROVE  h[n] = f[n] /\ h[m] = k[m][f[n]]
<1> DEFINE P == {i \in 0..n : h[i] = f[i]}
<1>1. 0 \in P
  BY DEF Recurs
<1>2. ASSUME NEW i \in 0..n, i < n, i \in P
      PROVE  i + 1 \in P
  <2>1. i + 1 \in 1..n /\ i + 1 \in 1..n + 1 /\ i + 1 \in 0..n /\ (i + 1) - 1 = i
    BY <1>2
  <2>2. f[i + 1] = g[i + 1][f[i]] /\ h[i + 1] = k[i + 1][h[i]]
    BY <2>1 DEF Recurs
  <2>3. h[i] = f[i] /\ g[i + 1] = k[i + 1]
    BY <1>2, <2>1 DEF Agree
  <2> QED BY <2>1, <2>2, <2>3
<1>3. 0..n \subseteq P
  <2> HIDE DEF P
  <2> QED BY <1>1, <1>2, CountUp
<1>4. n \in 0..n /\ n + 1 \in 1..n + 1 /\ (n + 1) - 1 = n
  OBVIOUS
<1>5. h[n] = f[n]
  BY <1>3, <1>4
<1> QED BY <1>4, <1>5 DEF Recurs

-----------------------------------------------------------------------------
(* The walk of Sublist. *)
Walks(f, n, s, T) ==
    f = [i \in 0..n |->
            IF i = 0 THEN <<>>
            ELSE IF s[i] \in T THEN Append(f[i - 1], s[i]) ELSE f[i - 1]]

LEMMA WalkExists ==
    ASSUME NEW S, NEW s \in Seq(S), NEW T
    PROVE  \E f : Walks(f, Len(s), s, T) /\ Sublist(s, T) = f[Len(s)]
<1> DEFINE n == Len(s)
           g == [i \in 1..n |-> [q \in Seq(S) |-> IF s[i] \in T THEN Append(q, s[i]) ELSE q]]
           h == CHOOSE f : Walks(f, n, s, T)
<1>1. n \in Nat /\ \A i \in 1..n : s[i] \in S
  OBVIOUS
<1>2. g \in [1..n -> [Seq(S) -> Seq(S)]]
  <2>1. \A i \in 1..n : \A q \in Seq(S) : Append(q, s[i]) \in Seq(S)
    BY <1>1
  <2> QED BY <2>1
<1>3. \A i \in 1..n : \A q \in Seq(S) : g[i][q] = IF s[i] \in T THEN Append(q, s[i]) ELSE q
  OBVIOUS
<1> HIDE DEF g, n
<1>4. PICK f : Recurs(f, Seq(S), <<>>, n, g)
  <2>1. <<>> \in Seq(S)
    OBVIOUS
  <2> QED BY <1>1, <1>2, <2>1, Recursion
<1>5. \A i \in 0..n : f[i] = IF i = 0 THEN <<>>
                             ELSE IF s[i] \in T THEN Append(f[i - 1], s[i]) ELSE f[i - 1]
  <2> SUFFICES ASSUME NEW i \in 0..n, i # 0
               PROVE  f[i] = IF s[i] \in T THEN Append(f[i - 1], s[i]) ELSE f[i - 1]
    BY <1>4 DEF Recurs
  <2>1. i \in 1..n /\ i - 1 \in 0..n
    BY <1>1
  <2>2. f[i - 1] \in Seq(S) /\ f[i] = g[i][f[i - 1]]
    BY <1>4, <2>1 DEF Recurs
  <2> QED BY <1>3, <2>1, <2>2
<1>6. Walks(f, n, s, T)
  <2>1. f = [i \in 0..n |-> f[i]]
    BY <1>4 DEF Recurs
  <2> QED BY <1>5, <2>1 DEF Walks
<1>7. Walks(h, n, s, T)
  BY <1>6
<1>8. Sublist(s, T) = h[n]
  BY DEF Sublist, Walks, n
<1> HIDE DEF h
<1> QED BY <1>7, <1>8 DEF n
=============================================================================
