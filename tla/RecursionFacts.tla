--------------------------- MODULE RecursionFacts ---------------------------
(***************************************************************************)
(* Induction over the natural numbers, stated of sets of numbers instead   *)
(* of predicates, and what it gives: functions that are defined by         *)
(* recursion satisfy the equation of their definition.  The end of a       *)
(* metadata block and the check sum of a packet are such functions.        *)
(***************************************************************************)
EXTENDS Integers, FiniteSetTheorems, TLAPS

-----------------------------------------------------------------------------
(* Induction.                                                              *)

(* A set that holds 0, and with each number the next, holds all up to N:   *)
(* the step back from a number that is missing puts the missing ones below *)
(* it into a smaller set.                                                  *)
LEMMA InductionUpTo ==
  ASSUME NEW S, NEW N \in Nat, 0 \in S,
         \A n \in 0 .. N - 1 : n \in S => n + 1 \in S
  PROVE  0 .. N \subseteq S
<1>1. SUFFICES ASSUME NEW m \in 0 .. N, m \notin S PROVE FALSE
  OBVIOUS
<1> DEFINE Bad  == {k \in 0 .. m : k \notin S}
           Good == Bad \ {m}
           f    == [k \in Bad |-> k - 1]
<1>2. IsFiniteSet(Bad)
  <2>1. IsFiniteSet(0 .. m)
    BY FS_Interval
  <2>2. Bad \in SUBSET (0 .. m)
    OBVIOUS
  <2> HIDE DEF Bad
  <2> QED BY <2>1, <2>2, FS_Subset
<1>3. ASSUME NEW k \in Bad PROVE k \in Int /\ k - 1 \in Good
  <2>1. k \in 1 .. m
    BY <1>1
  <2>2. (k - 1) \in 0 .. N - 1 /\ (k - 1) + 1 = k /\ (k - 1) \in 0 .. m - 1
    BY <2>1
  <2>3. (k - 1) \notin S
    BY <2>2
  <2> QED BY <2>2, <2>3
<1>4. m \in Bad
  BY <1>1
<1>5. f \in [Bad -> Good]
  <2> HIDE DEF Bad, Good
  <2> QED BY <1>3
<1>6. IsFiniteSet(Good) /\ Cardinality(Good) < Cardinality(Bad)
  <2> HIDE DEF Bad
  <2>1. Cardinality(Bad) \in Nat
    BY <1>2, FS_CardinalityType
  <2>2. IsFiniteSet(Good) /\ Cardinality(Good) = Cardinality(Bad) - 1
    BY <1>2, <1>4, FS_RemoveElement
  <2> QED BY <2>1, <2>2
<1>7. PICK x, y \in Bad : x # y /\ f[x] = f[y]
  <2> HIDE DEF Bad, Good, f
  <2> QED BY <1>2, <1>5, <1>6, FS_PigeonHole
<1> QED
  <2>1. x - 1 = y - 1
    BY <1>7
  <2> HIDE DEF Bad
  <2> QED BY <2>1, <1>3, <1>7

(* The same where each number may use all before it.                       *)
LEMMA InductionOverAll ==
  ASSUME NEW S, NEW N \in Nat,
         \A n \in 0 .. N : (\A k \in 0 .. n - 1 : k \in S) => n \in S
  PROVE  0 .. N \subseteq S
<1> DEFINE T == {n \in 0 .. N : \A k \in 0 .. n : k \in S}
<1>1. 0 \in T
  <2>1. 0 \in S
    OBVIOUS
  <2> QED BY <2>1
<1>2. ASSUME NEW n \in 0 .. N - 1, n \in T PROVE n + 1 \in T
  <2>1. n + 1 \in 0 .. N /\ (n + 1) - 1 = n
    OBVIOUS
  <2>2. n + 1 \in S
    BY <1>2, <2>1
  <2>3. \A k \in 0 .. n + 1 : k \in 0 .. n \/ k = n + 1
    OBVIOUS
  <2> QED BY <1>2, <2>1, <2>2, <2>3
<1>3. 0 .. N \subseteq T
  <2> HIDE DEF T
  <2> QED BY <1>1, <1>2, InductionUpTo
<1>4. \A k \in 0 .. N : k \in 0 .. k
  OBVIOUS
<1> QED BY <1>3, <1>4

(* The same from N down to 0, by steps of any length.                      *)
LEMMA InductionDownFrom ==
  ASSUME NEW S, NEW N \in Nat,
         \A n \in 0 .. N : (\A k \in n + 1 .. N : k \in S) => n \in S
  PROVE  0 .. N \subseteq S
<1> DEFINE T == {j \in 0 .. N : \A k \in N - j .. N : k \in S}
<1>1. 0 \in T
  OBVIOUS
<1>2. ASSUME NEW j \in 0 .. N - 1, j \in T PROVE j + 1 \in T
  <2>1. \A k \in (N - (j + 1)) + 1 .. N : k \in S
    BY <1>2
  <2>2. (N - (j + 1)) \in 0 .. N
    OBVIOUS
  <2>3. N - (j + 1) \in S
    BY <2>1, <2>2
  <2>4. \A k \in N - (j + 1) .. N : k = N - (j + 1) \/ k \in (N - (j + 1)) + 1 .. N
    OBVIOUS
  <2> QED BY <2>1, <2>3, <2>4
<1>3. N \in T
  <2> HIDE DEF T
  <2> QED BY <1>1, <1>2, InductionUpTo
<1> QED BY <1>3

-----------------------------------------------------------------------------
(* Functions defined by recursion.                                         *)

\* A value for each number from 0, each from the one before.
Iterates(f, z, g, N) == f[0] = z /\ \A k \in 1 .. N : f[k] = g[k][f[k - 1]]

(* There is such a function.                                               *)
LEMMA RecursionUpTo ==
  ASSUME NEW N \in Nat, NEW T, NEW z \in T, NEW g \in [1 .. N -> [T -> T]]
  PROVE  \E f \in [0 .. N -> T] : Iterates(f, z, g, N)
<1> DEFINE Is(f, n) == f[0] = z /\ \A k \in 1 .. n : f[k] = g[k][f[k - 1]]
           S == {n \in 0 .. N : \E f \in [0 .. n -> T] : Is(f, n)}
<1>1. 0 \in S
  <2> DEFINE h == [k \in 0 .. 0 |-> z]
  <2>1. h \in [0 .. 0 -> T]
    OBVIOUS
  <2>2. Is(h, 0)
    OBVIOUS
  <2> HIDE DEF Is, h
  <2> QED BY <2>1, <2>2
<1>2. ASSUME NEW n \in 0 .. N - 1, n \in S PROVE n + 1 \in S
  <2>1. PICK f \in [0 .. n -> T] : Is(f, n)
    BY <1>2
  <2> DEFINE h == [k \in 0 .. n + 1 |-> IF k = n + 1 THEN g[n + 1][f[n]] ELSE f[k]]
  <2>2. h \in [0 .. n + 1 -> T]
    OBVIOUS
  <2>3. h[0] = z
    BY <2>1
  <2>4. ASSUME NEW k \in 1 .. n + 1 PROVE h[k] = g[k][h[k - 1]]
    <3>1. CASE k = n + 1
      BY <3>1
    <3>2. CASE k # n + 1
      BY <3>2, <2>1
    <3> QED BY <3>1, <3>2
  <2>5. Is(h, n + 1)
    BY <2>3, <2>4
  <2> HIDE DEF h, Is
  <2> QED BY <2>2, <2>5
<1>3. N \in S
  <2> HIDE DEF S
  <2>1. \A n \in 0 .. N - 1 : n \in S => n + 1 \in S
    BY <1>2
  <2>2. 0 .. N \subseteq S
    BY <1>1, <2>1, InductionUpTo
  <2> QED BY <2>2
<1> QED BY <1>3 DEF Iterates

\* Where the steps up from the members of C end that lead to a number which
\* is not in C.
Follows(f, nxt, C, N) ==
  \A p \in 0 .. N : /\ p \in C => f[p] = f[nxt[p]]
                    /\ p \notin C => f[p] = p

(* There is such a function.                                               *)
LEMMA RecursionDownFrom ==
  ASSUME NEW N \in Nat, NEW C \in SUBSET (0 .. N), NEW nxt,
         \A p \in C : nxt[p] \in p + 1 .. N
  PROVE  \E f \in [0 .. N -> 0 .. N] : Follows(f, nxt, C, N)
<1> DEFINE Is(f, n) == \A p \in n .. N : f[p] = IF p \in C THEN f[nxt[p]] ELSE p
           S == {n \in 0 .. N : \E f \in [n .. N -> 0 .. N] : Is(f, n)}
<1>1. ASSUME NEW n \in 0 .. N, \A k \in n + 1 .. N : k \in S PROVE n \in S
  <2>1. CASE n = N
    <3>1. n \notin C
      BY <2>1
    <3>2. [p \in n .. N |-> p] \in [n .. N -> 0 .. N] /\ Is([p \in n .. N |-> p], n)
      BY <2>1, <3>1
    <3> QED BY <3>2
  <2>2. CASE n # N
    <3>1. PICK f \in [n + 1 .. N -> 0 .. N] : Is(f, n + 1)
      <4>1. n + 1 \in S
        <5>1. n + 1 \in n + 1 .. N
          BY <2>2
        <5> HIDE DEF S
        <5> QED BY <1>1, <5>1
      <4> HIDE DEF Is
      <4> QED BY <4>1
    <3> DEFINE h == [p \in n .. N |-> IF p # n THEN f[p]
                                     ELSE IF p \in C THEN f[nxt[p]] ELSE p]
    <3>2. h \in [n .. N -> 0 .. N]
      OBVIOUS
    <3>3. ASSUME NEW p \in n .. N PROVE h[p] = IF p \in C THEN h[nxt[p]] ELSE p
      <4>1. CASE p = n
        BY <4>1
      <4>2. CASE p # n
        BY <4>2, <3>1
      <4> QED BY <4>1, <4>2
    <3>4. Is(h, n)
      BY <3>3
    <3> HIDE DEF h, Is
    <3> QED BY <3>2, <3>4
  <2> QED BY <2>1, <2>2
<1>2. 0 \in S
  <2> HIDE DEF S
  <2>1. \A n \in 0 .. N : (\A k \in n + 1 .. N : k \in S) => n \in S
    BY <1>1
  <2>2. 0 .. N \subseteq S
    BY <2>1, InductionDownFrom
  <2> QED BY <2>2
<1> QED BY <1>2 DEF Follows

(* A value for each number: for the members of C from that of an earlier   *)
(* number, for the others that of base.                                    *)
Descends(f, base, prev, g, C, N) ==
  \A n \in 0 .. N : f[n] = IF n \in C THEN g[n][f[prev[n]]] ELSE base[n]

(* There is such a function.                                               *)
LEMMA RecursionBack ==
  ASSUME NEW N \in Nat, NEW T, NEW base \in [0 .. N -> T], NEW C \in SUBSET (0 .. N),
         NEW prev, \A n \in C : prev[n] \in 0 .. n - 1, NEW g \in [C -> [T -> T]]
  PROVE  \E f \in [0 .. N -> T] : Descends(f, base, prev, g, C, N)
<1> DEFINE At(f, n) == f[n] = IF n \in C THEN g[n][f[prev[n]]] ELSE base[n]
           Is(f, n) == \A k \in 0 .. n : At(f, k)
           S == {n \in 0 .. N : \E f \in [0 .. n -> T] : Is(f, n)}
<1>1. 0 \in S
  <2> DEFINE h == [k \in 0 .. 0 |-> base[0]]
  <2>1. 0 \notin C
    <3>1. SUFFICES ASSUME 0 \in C PROVE FALSE
      OBVIOUS
    <3>2. prev[0] \in 0 .. 0 - 1
      BY <3>1
    <3> QED BY <3>2
  <2>2. h \in [0 .. 0 -> T] /\ h[0] = base[0]
    OBVIOUS
  <2> HIDE DEF h
  <2>3. Is(h, 0)
    BY <2>1, <2>2
  <2> HIDE DEF Is
  <2> QED BY <2>2, <2>3
<1>2. ASSUME NEW n \in 0 .. N - 1, n \in S PROVE n + 1 \in S
  <2>1. PICK f \in [0 .. n -> T] : Is(f, n)
    BY <1>2
  <2> DEFINE v == IF n + 1 \in C THEN g[n + 1][f[prev[n + 1]]] ELSE base[n + 1]
             h == [k \in 0 .. n + 1 |-> IF k = n + 1 THEN v ELSE f[k]]
  <2>2. n + 1 \in 0 .. N /\ n + 1 \in Nat
    OBVIOUS
  <2>3. n + 1 \in C => prev[n + 1] \in 0 .. n
    <3>1. n + 1 \in C => prev[n + 1] \in 0 .. (n + 1) - 1
      OBVIOUS
    <3> QED BY <3>1
  <2>4. v \in T
    BY <2>2, <2>3
  <2> HIDE DEF v
  <2>5. h \in [0 .. n + 1 -> T] /\ h[n + 1] = v /\ \A k \in 0 .. n : h[k] = f[k]
    BY <2>4
  <2> HIDE DEF h
  <2>6. At(h, n + 1)
    BY <2>3, <2>5 DEF v
  <2>7. ASSUME NEW k \in 0 .. n PROVE At(h, k)
    <3>1. At(f, k)
      BY <2>1
    <3>2. k \in C => prev[k] \in 0 .. k - 1
      OBVIOUS
    <3>3. k \in C => prev[k] \in 0 .. n
      BY <3>2
    <3> QED BY <2>5, <3>1, <3>3
  <2>8. Is(h, n + 1)
    <3>1. \A k \in 0 .. n + 1 : k \in 0 .. n \/ k = n + 1
      OBVIOUS
    <3> HIDE DEF At
    <3> QED BY <2>6, <2>7, <3>1
  <2> HIDE DEF Is
  <2> QED BY <2>2, <2>5, <2>8
<1>3. N \in S
  <2> HIDE DEF S
  <2>1. \A n \in 0 .. N - 1 : n \in S => n + 1 \in S
    BY <1>2
  <2>2. 0 .. N \subseteq S
    BY <1>1, <2>1, InductionUpTo
  <2> QED BY <2>2
<1>4. PICK f \in [0 .. N -> T] : \A n \in 0 .. N : At(f, n)
  BY <1>3
<1> QED BY <1>4 DEF Descends
=============================================================================
