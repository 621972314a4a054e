---------------------------- MODULE LfsFileProofs ----------------------------
(***************************************************************************)
(* The upload inside LittleFS, for all sizes of volumes, blocks, lookahead *)
(* buffers and records, all other files and any number of bad blocks.      *)
(*                                                                         *)
(* First numbers: the population count of the next number is greater by    *)
(* one at most (BitsNext) and by as much as lfs_ctz() says (PopcNext);     *)
(* that of a number below 2^n - 1 is less than n (BitsFew); lfs_ctz() is   *)
(* the power of two that divides a number (CtzDivides).  So the estimate   *)
(* of lfs_ctz_index() is one too high at most (IndexCases), and each word  *)
(* of a file has a place in a block behind the pointers of it (Located),   *)
(* and only one (SamePlace).                                               *)
(*                                                                         *)
(* Then the pointers: if the blocks of a chain point back as they should   *)
(* (Linked), lfs_ctz_find() and lfs_ctz_traverse() find them (FindIs,      *)
(* TraverseIs).                                                            *)
(*                                                                         *)
(* The invariant FileInv says where the end of the open file is (Place)    *)
(* and that the log is what was sent (Sent).  Parts says that each file is *)
(* a chain with its words in it, and that the allocator offers no block of *)
(* one.  It holds with bad blocks too, under the premise ScansWhole; what  *)
(* goes wrong without it is what the run lfs_lost shows.  Looked says      *)
(* which blocks an allocation has not looked at yet.                       *)
(***************************************************************************)
EXTENDS LfsFile, RecursionFacts, SequenceTheorems

-----------------------------------------------------------------------------
(* Numbers and their bits.                                                 *)

\* What \div and % return.
LEMMA DivMod ==
  ASSUME NEW p \in Nat \ {0}, NEW a \in Nat
  PROVE  /\ a \div p \in Nat /\ a % p \in 0 .. p - 1
         /\ a = (a \div p) * p + (a % p)
BY Z3

\* And what they return of a number that is written with quotient and rest.
LEMMA DivModOf ==
  ASSUME NEW p \in Nat \ {0}, NEW q \in Nat, NEW r \in 0 .. p - 1
  PROVE  (q * p + r) \div p = q /\ (q * p + r) % p = r
BY Z3

\* The recursion of Pow2.
LEMMA Powers ==
  /\ Pow2 \in [0 .. 30 -> Nat \ {0}] /\ Pow2[0] = 1
  /\ \A k \in 1 .. 30 : Pow2[k] = 2 * Pow2[k - 1]
<1> DEFINE Is(f) == f = [k \in 0 .. 30 |-> IF k = 0 THEN 1 ELSE 2 * f[k - 1]]
           step  == [k \in 1 .. 30 |-> [v \in Nat |-> 2 * v]]
<1>1. PICK f \in [0 .. 30 -> Nat] : Iterates(f, 1, step, 30)
  <2>1. step \in [1 .. 30 -> [Nat -> Nat]]
    OBVIOUS
  <2> HIDE DEF step
  <2> QED BY <2>1, RecursionUpTo
<1>2. Is(f)
  <2>1. f[0] = 1 /\ \A k \in 1 .. 30 : f[k] = step[k][f[k - 1]]
    BY <1>1 DEF Iterates
  <2>2. \A k \in 1 .. 30 : f[k - 1] \in Nat
    OBVIOUS
  <2>3. \A k \in 1 .. 30 : f[k] = 2 * f[k - 1]
    BY <2>1, <2>2
  <2>4. \A k \in 0 .. 30 : f[k] = IF k = 0 THEN 1 ELSE 2 * f[k - 1]
    BY <2>1, <2>3
  <2> HIDE DEF step
  <2> QED BY <2>4
<1>3. Is(Pow2)
  <2> DEFINE g == CHOOSE h : Is(h)
  <2> HIDE DEF Is
  <2>1. Is(g)
    BY <1>2
  <2> HIDE DEF g
  <2>2. g = [k \in 0 .. 30 |-> g[k]]
    BY <2>1 DEF Is
  <2>3. Pow2 = [k \in 0 .. 30 |-> g[k]]
    BY DEF Pow2, g, Is
  <2> QED BY <2>1, <2>2, <2>3
<1>4. Pow2[0] = 1 /\ \A k \in 1 .. 30 : Pow2[k] = 2 * Pow2[k - 1]
  <2>1. \A k \in 0 .. 30 : Pow2[k] = IF k = 0 THEN 1 ELSE 2 * Pow2[k - 1]
    BY <1>3
  <2> QED BY <2>1
<1>5. \A k \in 0 .. 30 : Pow2[k] \in Nat \ {0}
  <2> DEFINE S == {k \in 0 .. 30 : Pow2[k] \in Nat \ {0}}
  <2>1. 0 \in S
    BY <1>4
  <2>2. ASSUME NEW k \in 0 .. 29, k \in S PROVE k + 1 \in S
    <3>1. k + 1 \in 1 .. 30 /\ (k + 1) - 1 = k
      OBVIOUS
    <3>2. Pow2[k + 1] = 2 * Pow2[k]
      BY <1>4, <3>1
    <3> QED BY <2>2, <3>1, <3>2
  <2>3. 0 .. 30 \subseteq S
    <3> HIDE DEF S
    <3>1. \A k \in 0 .. 30 - 1 : k \in S => k + 1 \in S
      BY <2>2
    <3> QED BY <2>1, <3>1, InductionUpTo
  <2> QED BY <2>3
<1>6. Pow2 = [k \in 0 .. 30 |-> IF k = 0 THEN 1 ELSE 2 * Pow2[k - 1]]
  BY <1>3
<1> HIDE DEF Is
<1>7. Pow2 \in [0 .. 30 -> Nat \ {0}]
  BY <1>5, <1>6
<1> QED BY <1>4, <1>7

\* A bit above another one is worth an even number of it.
LEMMA PowMultiple ==
  ASSUME NEW k \in 0 .. 30, NEW j \in k + 1 .. 30
  PROVE  \E m \in Nat \ {0} : Pow2[j] = 2 * (m * Pow2[k])
<1> DEFINE S == {i \in 0 .. 30 : i > k => \E m \in Nat \ {0} : Pow2[i] = 2 * (m * Pow2[k])}
<1>1. 0 \in S
  OBVIOUS
<1>2. ASSUME NEW i \in 0 .. 29, i \in S PROVE i + 1 \in S
  <2>1. i + 1 \in 1 .. 30 /\ (i + 1) - 1 = i
    OBVIOUS
  <2>2. Pow2[i + 1] = 2 * Pow2[i] /\ Pow2[k] \in Nat
    BY <2>1, Powers
  <2>3. CASE i = k
    <3>1. Pow2[i + 1] = 2 * (1 * Pow2[k])
      BY <2>2, <2>3
    <3> QED BY <2>1, <3>1
  <2>4. CASE i > k
    <3>1. PICK m \in Nat \ {0} : Pow2[i] = 2 * (m * Pow2[k])
      BY <1>2, <2>4
    <3>2. m * Pow2[k] \in Nat
      BY <2>2, Z3
    <3> DEFINE p == Pow2[k]
               x == 2 * m
    <3>3. x * p = 2 * (m * p)
      <4>1. p \in Nat /\ m \in Nat
        BY <2>2
      <4> HIDE DEF p
      <4> QED BY <4>1, Z3
    <3>4. Pow2[i + 1] = 2 * (x * p) /\ x \in Nat \ {0}
      BY <2>2, <3>1, <3>3
    <3> HIDE DEF x
    <3> QED BY <2>1, <3>4
  <2>5. CASE i < k
    <3>1. ~(i + 1 > k)
      BY <2>5
    <3> QED BY <2>1, <3>1
  <2> QED BY <2>3, <2>4, <2>5
<1>3. 0 .. 30 \subseteq S
  <2>1. \A i \in 0 .. 30 - 1 : i \in S => i + 1 \in S
    BY <1>2
  <2> HIDE DEF S
  <2> QED BY <1>1, <2>1, InductionUpTo
<1> QED BY <1>3

\* The bits of a number are finitely many.
LEMMA BitsFinite ==
  ASSUME NEW a
  PROVE  IsFiniteSet(Bits(a)) /\ lfs_popc(a) \in Nat /\ Bits(a) \subseteq Bit
<1>1. Bits(a) \subseteq Bit
  BY DEF Bits
<1>2. IsFiniteSet(Bit)
  <2>1. 0 \in Int /\ 29 \in Int
    OBVIOUS
  <2>2. IsFiniteSet(0 .. 29)
    BY <2>1, FS_Interval
  <2> QED BY <2>2 DEF Bit
<1>3. IsFiniteSet(Bits(a))
  BY <1>1, <1>2, FS_Subset
<1> QED BY <1>1, <1>3, FS_CardinalityType DEF lfs_popc

\* A quotient changes only where the next number is a multiple.
LEMMA NextQuotient ==
  ASSUME NEW p \in Nat \ {0}, NEW a \in Nat, (a + 1) \div p # a \div p
  PROVE  a + 1 = ((a + 1) \div p) * p
<1> DEFINE q == a \div p
           r == a % p
<1>1. q \in Nat /\ r \in 0 .. p - 1 /\ a = q * p + r
  BY DivMod
<1> HIDE DEF q, r
<1>2. r = p - 1
  <2>1. SUFFICES ASSUME r # p - 1 PROVE FALSE
    OBVIOUS
  <2>2. r + 1 \in 0 .. p - 1
    BY <1>1, <2>1
  <2>3. (q * p + (r + 1)) \div p = q
    BY <1>1, <2>2, DivModOf
  <2>4. q * p \in Nat
    BY <1>1, Z3
  <2>5. a + 1 = q * p + (r + 1)
    BY <1>1, <2>4
  <2> QED BY <2>3, <2>5 DEF q
<1>3. a + 1 = (q + 1) * p + 0
  <2> DEFINE x == q * p
             y == (q + 1) * p
  <2>1. y = x + p
    <3>1. q \in Nat /\ p \in Nat
      BY <1>1
    <3> QED BY ONLY <3>1, Z3
  <2>2. x \in Nat /\ y \in Nat
    BY <1>1, Z3
  <2>3. a = x + r
    BY <1>1
  <2> HIDE DEF x, y
  <2>4. a + 1 = y + 0
    BY ONLY <1>1, <1>2, <2>1, <2>2, <2>3, p \in Nat \ {0}, a \in Nat
  <2> QED BY <2>4 DEF y
<1>4. (a + 1) \div p = q + 1
  <2>1. 0 \in 0 .. p - 1 /\ q + 1 \in Nat
    BY <1>1
  <2>2. ((q + 1) * p + 0) \div p = q + 1
    BY <2>1, DivModOf
  <2> QED BY ONLY <1>3, <2>2
<1>5. (q + 1) * p \in Nat
  BY <1>1, Z3
<1> QED BY <1>3, <1>4, <1>5

(* The next number has one bit more at most: the lowest one that was not   *)
(* set.                                                                    *)
LEMMA BitsNext ==
  ASSUME NEW a \in Nat
  PROVE  lfs_popc(a + 1) <= lfs_popc(a) + 1
<1> DEFINE New == Bits(a + 1) \ Bits(a)
<1>1. ASSUME NEW k \in New
      PROVE  /\ k \in Bit /\ ((a + 1) \div Pow2[k]) % 2 = 1
             /\ a + 1 = ((a + 1) \div Pow2[k]) * Pow2[k]
  <2>1. /\ k \in Bit /\ ((a + 1) \div Pow2[k]) % 2 = 1
        /\ ~((a \div Pow2[k]) % 2 = 1)
    BY DEF Bits
  <2>2. Pow2[k] \in Nat \ {0}
    BY <2>1, Powers DEF Bit
  <2>3. (a + 1) \div Pow2[k] # a \div Pow2[k]
    BY <2>1
  <2> QED BY <2>1, <2>2, <2>3, NextQuotient
<1>2. ASSUME NEW k \in New, NEW j \in New, k < j PROVE FALSE
  <2> DEFINE p == Pow2[k]
             q == (a + 1) \div Pow2[j]
  <2>1. k \in 0 .. 30 /\ j \in k + 1 .. 30 /\ j \in 0 .. 30
    BY <1>1, <1>2 DEF Bit
  <2>2. PICK m \in Nat \ {0} : Pow2[j] = 2 * (m * p)
    BY <2>1, PowMultiple
  <2>3. p \in Nat \ {0} /\ Pow2[j] \in Nat \ {0}
    BY <2>1, Powers
  <2>4. q \in Nat /\ a + 1 = q * (2 * (m * p))
    <3>1. q \in Nat
      <4> DEFINE c == a + 1
                 d == Pow2[j]
      <4>1. c \in Nat /\ d \in Nat \ {0}
        BY <2>3
      <4> HIDE DEF c, d
      <4>2. c \div d \in Nat
        BY <4>1, DivMod
      <4> QED BY <4>2 DEF c, d
    <3> QED BY <1>1, <2>2, <3>1
  <2>5. (a + 1) \div p = 2 * (q * m)
    <3> HIDE DEF p, q
    <3>1. q * (2 * (m * p)) = (2 * (q * m)) * p
      BY <2>2, <2>3, <2>4, Z3
    <3> DEFINE x == 2 * (q * m)
    <3>2. x \in Nat
      BY <2>2, <2>4, Z3
    <3> HIDE DEF x
    <3>3. x * p \in Nat
      BY <2>3, <3>2, Z3
    <3>4. (x * p + 0) \div p = x
      <4>1. 0 \in 0 .. p - 1
        BY <2>3
      <4> QED BY <2>3, <3>2, <4>1, DivModOf
    <3>5. a + 1 = x * p + 0
      BY <2>4, <3>1, <3>3 DEF x
    <3> QED BY <3>4, <3>5 DEF x
  <2>6. (2 * (q * m)) % 2 = 0
    <3> HIDE DEF q
    <3>1. q * m \in Nat
      BY <2>2, <2>4, Z3
    <3> QED BY <3>1
  <2> QED BY <1>1, <2>5, <2>6
<1>3. /\ IsFiniteSet(Bits(a)) /\ IsFiniteSet(Bits(a + 1))
      /\ lfs_popc(a) \in Nat /\ lfs_popc(a + 1) \in Nat
  BY BitsFinite
<1>4. CASE New = {}
  <2>1. Bits(a + 1) \subseteq Bits(a)
    BY <1>4
  <2> QED BY <1>3, <2>1, FS_Subset DEF lfs_popc
<1>5. CASE New # {}
  <2>1. PICK k \in New : TRUE
    BY <1>5
  <2>2. \A j \in New : j = k
    <3>1. ASSUME NEW j \in New PROVE j = k
      <4>1. j \in Int /\ k \in Int
        BY <1>1 DEF Bit
      <4> HIDE DEF New
      <4> QED BY <1>2, <4>1
    <3> QED BY <3>1
  <2>3. Bits(a + 1) \subseteq Bits(a) \cup {k}
    BY <2>2
  <2>4. /\ IsFiniteSet(Bits(a) \cup {k})
        /\ Cardinality(Bits(a) \cup {k}) = Cardinality(Bits(a)) + 1
    BY <1>3, <2>1, FS_AddElement
  <2>5. Cardinality(Bits(a + 1)) <= Cardinality(Bits(a) \cup {k})
    BY <2>3, <2>4, FS_Subset
  <2> QED BY <1>3, <2>4, <2>5 DEF lfs_popc
<1> QED BY <1>4, <1>5

\* The rest of a number at the next bit.
LEMMA RestNext ==
  ASSUME NEW a \in Nat, NEW k \in Bit
  PROVE  a % Pow2[k + 1] = IF k \in Bits(a) THEN (a % Pow2[k]) + Pow2[k] ELSE a % Pow2[k]
<1> DEFINE p == Pow2[k]
           q == a \div p
           r == a % p
           h == q \div 2
           s == q % 2
<1>1. p \in Nat \ {0} /\ Pow2[k + 1] = 2 * p
  <2>1. k \in 0 .. 30 /\ k + 1 \in 1 .. 30 /\ (k + 1) - 1 = k
    BY DEF Bit
  <2> QED BY <2>1, Powers
<1>2. k \in Bits(a) <=> s = 1
  BY DEF Bits
<1> HIDE DEF p
<1>3. q \in Nat /\ r \in 0 .. p - 1 /\ a = q * p + r
  BY <1>1, DivMod
<1> HIDE DEF q, r
<1>4. h \in Nat /\ s \in 0 .. 1 /\ q = h * 2 + s
  <2>1. 2 \in Nat \ {0}
    OBVIOUS
  <2> QED BY <1>3, <2>1, DivMod
<1> HIDE DEF h, s
<1>5. s * p + r \in 0 .. 2 * p - 1 /\ (s = 0 => s * p + r = r) /\ (s = 1 => s * p + r = r + p)
  <2>1. s = 0 \/ s = 1
    BY <1>4
  <2>2. s = 0 => s * p = 0
    BY <1>1
  <2>3. s = 1 => s * p = p
    BY <1>1
  <2> QED BY <1>1, <1>3, <2>1, <2>2, <2>3
<1>6. a = h * (2 * p) + (s * p + r)
  <2>1. (h * 2 + s) * p = h * (2 * p) + s * p
    BY <1>1, <1>4, Z3
  <2>2. h * (2 * p) \in Nat /\ s * p \in Nat
    BY <1>1, <1>4, Z3
  <2> QED BY <1>3, <1>4, <2>1, <2>2
<1>7. a % (2 * p) = s * p + r
  <2> DEFINE w == 2 * p
             t == s * p + r
  <2>1. w \in Nat \ {0} /\ t \in 0 .. w - 1
    BY <1>1, <1>5
  <2> HIDE DEF w, t
  <2>2. (h * w + t) % w = t
    BY <1>4, <2>1, DivModOf
  <2> QED BY <1>6, <2>2 DEF w, t
<1>8. s = 0 \/ s = 1
  BY <1>4
<1> QED BY <1>1, <1>2, <1>5, <1>7, <1>8 DEF p, r

\* A bit is worth less than one above it.
LEMMA PowMonotone ==
  ASSUME NEW i \in 0 .. 30, NEW j \in i .. 30
  PROVE  Pow2[i] <= Pow2[j]
<1>1. Pow2[i] \in Nat
  BY Powers
<1>2. CASE i = j
  BY <1>1, <1>2
<1>3. CASE i # j
  <2>1. j \in i + 1 .. 30
    BY <1>3
  <2>2. PICK m \in Nat \ {0} : Pow2[j] = 2 * (m * Pow2[i])
    BY <2>1, PowMultiple
  <2> DEFINE p == Pow2[i]
  <2>3. p \in Nat
    BY <1>1
  <2> HIDE DEF p
  <2>4. 2 * (m * p) >= p
    BY <2>3, Z3
  <2> QED BY <2>2, <2>4 DEF p
<1> QED BY <1>2, <1>3

\* A number that is less than the divisor is the rest.
LEMMA SmallRest ==
  ASSUME NEW p \in Nat \ {0}, NEW a \in 0 .. p - 1
  PROVE  a \div p = 0 /\ a % p = a
BY Z3

(* A number below 2^n - 1 has less than n bits.                            *)
LEMMA BitsFew ==
  ASSUME NEW n \in Bit, NEW a \in Nat, a < Pow2[n] - 1
  PROVE  lfs_popc(a) <= n - 1
<1>1. n \in 0 .. 29 /\ n \in 0 .. 30 /\ Pow2[n] \in Nat \ {0} /\ a \in 0 .. Pow2[n] - 1
  <2>1. n \in 0 .. 29 /\ n \in 0 .. 30
    BY DEF Bit
  <2>2. Pow2[n] \in Nat \ {0}
    BY <2>1, Powers
  <2> QED BY <2>1, <2>2
<1>2. Bits(a) \subseteq 0 .. n - 1
  <2>1. SUFFICES ASSUME NEW k \in Bits(a), ~(k < n) PROVE FALSE
    BY <1>1 DEF Bits, Bit
  <2>2. k \in 0 .. 30 /\ n \in 0 .. 30 /\ k \in n .. 30 /\ (a \div Pow2[k]) % 2 = 1
    BY <1>1, <2>1 DEF Bits, Bit
  <2>3. Pow2[n] <= Pow2[k] /\ Pow2[k] \in Nat \ {0}
    BY <2>2, PowMonotone, Powers
  <2>4. a \in 0 .. Pow2[k] - 1
    BY <1>1, <2>3
  <2>5. a \div Pow2[k] = 0
    BY <2>3, <2>4, SmallRest
  <2> QED BY <2>2, <2>5
<1>3. PICK j \in 0 .. n - 1 : j \notin Bits(a)
  <2>1. SUFFICES ASSUME \A j \in 0 .. n - 1 : j \in Bits(a) PROVE FALSE
    OBVIOUS
  <2> DEFINE S == {k \in 0 .. n : a % Pow2[k] = Pow2[k] - 1}
  <2>2. 0 \in S
    <3>1. a % 1 = 0
      OBVIOUS
    <3> QED BY <1>1, <3>1, Powers
  <2>3. ASSUME NEW k \in 0 .. n - 1, k \in S PROVE k + 1 \in S
    <3>1. k \in Bit /\ k + 1 \in 0 .. n /\ k + 1 \in 1 .. 30 /\ (k + 1) - 1 = k /\ k \in 0 .. 30
      BY <1>1 DEF Bit
    <3>2. a % Pow2[k + 1] = (a % Pow2[k]) + Pow2[k]
      BY <2>1, <3>1, RestNext
    <3>3. Pow2[k + 1] = 2 * Pow2[k] /\ Pow2[k] \in Nat
      BY <3>1, Powers
    <3> QED BY <2>3, <3>1, <3>2, <3>3
  <2>4. n \in S
    <3> HIDE DEF S
    <3>1. 0 .. n \subseteq S
      BY <1>1, <2>2, <2>3, InductionUpTo
    <3> QED BY <1>1, <3>1
  <2>5. a % Pow2[n] = a
    BY <1>1, SmallRest
  <2> QED BY <1>1, <2>4, <2>5
<1>4. /\ IsFiniteSet((0 .. n - 1) \ {j}) /\ Cardinality((0 .. n - 1) \ {j}) = n - 1
  <2>1. 0 \in Int /\ n - 1 \in Int /\ n >= 1
    BY <1>1, <1>3
  <2>2. IsFiniteSet(0 .. n - 1) /\ Cardinality(0 .. n - 1) = n
    <3>1. Cardinality(0 .. n - 1) = IF 0 > n - 1 THEN 0 ELSE (n - 1) - 0 + 1
      BY <2>1, FS_Interval
    <3> QED BY <1>1, <2>1, <3>1, FS_Interval
  <2> QED BY <1>3, <2>2, FS_RemoveElement
<1>5. Bits(a) \subseteq (0 .. n - 1) \ {j}
  BY <1>2, <1>3
<1> QED BY <1>4, <1>5, FS_Subset DEF lfs_popc

(* A number up to 2^n that is not 0 has a bit, and none above n at that.   *)
LEMMA BitsSome ==
  ASSUME NEW n \in Bit, NEW a \in 1 .. Pow2[n]
  PROVE  \E k \in Bits(a) : k <= n
<1>1. n \in 0 .. 29 /\ n + 1 \in 0 .. 30 /\ n + 1 \in Nat
      /\ Pow2[n] \in Nat \ {0} /\ Pow2[n + 1] = 2 * Pow2[n]
  <2>1. n \in 0 .. 29 /\ n \in 0 .. 30 /\ n + 1 \in 1 .. 30 /\ (n + 1) - 1 = n
    BY DEF Bit
  <2>2. Pow2[n] \in Nat \ {0} /\ Pow2[n + 1] = 2 * Pow2[n]
    BY <2>1, Powers
  <2> QED BY <2>1, <2>2
<1>2. SUFFICES ASSUME \A k \in 0 .. n : k \notin Bits(a) PROVE FALSE
  <2>1. \A k \in 0 .. n : k <= n
    BY <1>1
  <2> QED BY <2>1
<1> DEFINE S == {k \in 0 .. n + 1 : a % Pow2[k] = 0}
<1>3. 0 \in S
  <2>1. a % 1 = 0 /\ 0 \in 0 .. n + 1
    BY <1>1
  <2> QED BY <2>1, Powers
<1>4. ASSUME NEW k \in 0 .. (n + 1) - 1, k \in S PROVE k + 1 \in S
  <2>1. k \in Bit /\ k \in 0 .. n /\ k + 1 \in 0 .. n + 1
    BY <1>1 DEF Bit
  <2>2. a % Pow2[k + 1] = a % Pow2[k]
    BY <1>1, <1>2, <2>1, RestNext
  <2> QED BY <1>4, <2>1, <2>2
<1>5. n + 1 \in S
  <2> HIDE DEF S
  <2>1. 0 .. n + 1 \subseteq S
    BY <1>1, <1>3, <1>4, InductionUpTo
  <2>2. n + 1 \in 0 .. n + 1
    BY <1>1
  <2> QED BY <2>1, <2>2
<1>6. a \in 0 .. Pow2[n + 1] - 1 /\ Pow2[n + 1] \in Nat \ {0}
  BY <1>1
<1>7. a % Pow2[n + 1] = a
  BY <1>6, SmallRest
<1> QED BY <1>5, <1>7

\* A set of numbers has a least one.
LEMMA LeastOf ==
  ASSUME NEW S \in SUBSET Nat, S # {}
  PROVE  Min(S) \in S /\ \A y \in S : Min(S) <= y
<1>1. SUFFICES \E x \in S : \A y \in S : x =< y
  BY DEF Min
<1>2. SUFFICES ASSUME \A x \in S : \E y \in S : ~(x <= y) PROVE FALSE
  OBVIOUS
<1>3. PICK m \in S : TRUE
  OBVIOUS
<1> DEFINE T == {n \in 0 .. m : \A k \in 0 .. n : k \notin S}
<1>4. 0 \in T
  <2>1. 0 \notin S
    BY <1>2
  <2> QED BY <1>3, <2>1
<1>5. ASSUME NEW n \in 0 .. m - 1, n \in T PROVE n + 1 \in T
  <2>1. n + 1 \notin S
    <3>1. SUFFICES ASSUME n + 1 \in S PROVE FALSE
      OBVIOUS
    <3>2. PICK y \in S : ~(n + 1 <= y)
      BY <1>2, <3>1
    <3>3. y \in 0 .. n
      BY <1>3, <3>2
    <3> QED BY <1>5, <3>3
  <2>2. \A k \in 0 .. n + 1 : k \in 0 .. n \/ k = n + 1
    BY <1>3
  <2>3. n + 1 \in 0 .. m
    BY <1>3
  <2> QED BY <1>5, <2>1, <2>2, <2>3
<1>6. m \in T
  <2> HIDE DEF T
  <2>1. 0 .. m \subseteq T
    BY <1>3, <1>4, <1>5, InductionUpTo
  <2>2. m \in 0 .. m
    BY <1>3
  <2> QED BY <2>1, <2>2
<1>7. m \in 0 .. m
  BY <1>3
<1> QED BY <1>3, <1>6, <1>7

\* Zero has no bits.
LEMMA NoBits == lfs_popc(0) = 0
<1>1. ASSUME NEW k \in Bit PROVE ~((0 \div Pow2[k]) % 2 = 1)
  <2>1. k \in 0 .. 30
    BY DEF Bit
  <2>2. Pow2[k] \in Nat \ {0} /\ 0 \in 0 .. Pow2[k] - 1
    BY <2>1, Powers
  <2>3. 0 \div Pow2[k] = 0
    BY <2>2, SmallRest
  <2> QED BY <2>3
<1>2. Bits(0) = {}
  BY <1>1 DEF Bits
<1> QED BY <1>2, FS_EmptySet DEF lfs_popc

-----------------------------------------------------------------------------
(* The lowest bit of a number.                                             *)

\* lfs_ctz() is the lowest bit that is set.
LEMMA CtzBits ==
  ASSUME NEW y \in 1 .. Pow2[29]
  PROVE  /\ lfs_ctz(y) \in Bit /\ lfs_ctz(y) \in Bits(y)
         /\ \A k \in Bits(y) : lfs_ctz(y) <= k
<1>1. PICK k \in Bits(y) : k <= 29
  <2>1. 29 \in Bit
    BY DEF Bit
  <2> QED BY <2>1, BitsSome
<1>2. Bits(y) \in SUBSET Nat /\ Bits(y) # {}
  BY <1>1 DEF Bits, Bit
<1>3. lfs_ctz(y) \in Bits(y) /\ \A j \in Bits(y) : lfs_ctz(y) <= j
  BY <1>2, LeastOf DEF lfs_ctz
<1> QED BY <1>3 DEF Bits

\* What a multiple of 2^k is in multiples of 2^j.
LEMMA MultipleOf ==
  ASSUME NEW k \in Bit, NEW j \in Bit, j < k
  PROVE  \E c \in Nat \ {0} : \A m \in Nat : m * Pow2[k] = (2 * (m * c)) * Pow2[j]
<1>1. j \in 0 .. 30 /\ k \in j + 1 .. 30
  BY DEF Bit
<1>2. PICK c \in Nat \ {0} : Pow2[k] = 2 * (c * Pow2[j])
  BY <1>1, PowMultiple
<1>3. Pow2[j] \in Nat
  BY <1>1, Powers
<1>4. ASSUME NEW m \in Nat PROVE m * Pow2[k] = (2 * (m * c)) * Pow2[j]
  <2> DEFINE p == Pow2[j]
  <2>1. p \in Nat
    BY <1>3
  <2> HIDE DEF p
  <2>2. m * (2 * (c * p)) = (2 * (m * c)) * p
    BY ONLY <2>1, m \in Nat, c \in Nat \ {0}, Z3
  <2> QED BY <1>2, <2>2 DEF p
<1> QED BY <1>4

\* A multiple of 2^k has none of the bits below k.
LEMMA NoBitBelow ==
  ASSUME NEW k \in Bit, NEW j \in Bit, j < k, NEW m \in Nat
  PROVE  j \notin Bits(m * Pow2[k])
<1>1. PICK c \in Nat \ {0} : m * Pow2[k] = (2 * (m * c)) * Pow2[j]
  BY MultipleOf
<1>2. Pow2[j] \in Nat \ {0}
  <2>1. j \in 0 .. 30
    BY DEF Bit
  <2> QED BY <2>1, Powers
<1> DEFINE x == m * c
           p == Pow2[j]
<1>3. x \in Nat
  BY Z3
<1>4. (m * Pow2[k]) \div p = 2 * x
  <2>1. p \in Nat \ {0} /\ 0 \in 0 .. p - 1 /\ 2 * x \in Nat
    BY <1>2, <1>3
  <2> HIDE DEF x, p
  <2>2. ((2 * x) * p + 0) \div p = 2 * x
    BY <2>1, DivModOf
  <2>3. (2 * x) * p \in Nat
    BY <1>3, <2>1, Z3
  <2>4. (2 * x) * p + 0 = (2 * x) * p
    BY <2>3
  <2>5. m * Pow2[k] = (2 * x) * p
    BY <1>1 DEF x, p
  <2> QED BY ONLY <2>2, <2>4, <2>5
<1>5. (2 * x) % 2 = 0
  <2> HIDE DEF x
  <2> QED BY <1>3
<1> HIDE DEF x
<1> QED BY <1>4, <1>5 DEF Bits

\* 2^k divides a number if k is at most its lowest bit, and only then.
LEMMA CtzDivides ==
  ASSUME NEW y \in 1 .. Pow2[29], NEW k \in 0 .. lfs_ctz(y)
  PROVE  k \in Bit /\ \E m \in Nat \ {0} : y = m * Pow2[k]
<1> DEFINE z == lfs_ctz(y)
           S == {i \in 0 .. z : y % Pow2[i] = 0}
<1>1. z \in 0 .. 29 /\ \A i \in Bits(y) : z <= i
  BY CtzBits DEF Bit
<1> HIDE DEF z
<1>2. y \in Nat /\ y # 0
  <2>1. Pow2[29] \in Nat
    BY Powers
  <2> QED BY <2>1
<1>3. 0 \in S
  <2>1. y % 1 = 0
    BY <1>2
  <2> QED BY <1>1, <2>1, Powers
<1>4. ASSUME NEW i \in 0 .. z - 1, i \in S PROVE i + 1 \in S
  <2>1. i \in Bit /\ i \notin Bits(y) /\ i + 1 \in 0 .. z
    BY <1>1 DEF Bit
  <2>2. y % Pow2[i + 1] = y % Pow2[i]
    BY <1>2, <2>1, RestNext
  <2> QED BY <1>4, <2>1, <2>2
<1>5. k \in S
  <2> HIDE DEF S
  <2>1. 0 .. z \subseteq S
    BY <1>1, <1>3, <1>4, InductionUpTo
  <2> QED BY <2>1 DEF z
<1>6. k \in Bit /\ k \in 0 .. 30 /\ y % Pow2[k] = 0
  BY <1>1, <1>5 DEF Bit, z
<1>7. Pow2[k] \in Nat \ {0}
  BY <1>6, Powers
<1> DEFINE p == Pow2[k]
           m == y \div p
<1>8. m \in Nat /\ y = m * p + 0
  <2> HIDE DEF p
  <2>1. y % p = 0 /\ p \in Nat \ {0}
    BY <1>6, <1>7 DEF p
  <2> QED BY <1>2, <2>1, DivMod
<1>9. m * p \in Nat /\ (m = 0 => m * p = 0)
  <2>1. p \in Nat
    BY <1>7
  <2> HIDE DEF p, m
  <2> QED BY <1>8, <2>1, Z3
<1>10. y = m * p /\ m # 0
  <2> HIDE DEF p, m
  <2> QED BY <1>2, <1>8, <1>9
<1> QED BY <1>6, <1>8, <1>10

\* The lowest bit of a multiple of 2^k is not below k.
LEMMA CtzOfMultiple ==
  ASSUME NEW k \in Bit, NEW m \in Nat \ {0}, NEW y \in 1 .. Pow2[29], y = m * Pow2[k]
  PROVE  k <= lfs_ctz(y)
<1> DEFINE z == lfs_ctz(y)
<1>1. z \in Bit /\ z \in Bits(y)
  BY CtzBits
<1> HIDE DEF z
<1>2. ~(z < k)
  <2>1. SUFFICES ASSUME z < k PROVE FALSE
    OBVIOUS
  <2>2. m \in Nat
    OBVIOUS
  <2>3. z \notin Bits(m * Pow2[k])
    BY <1>1, <2>1, <2>2, NoBitBelow
  <2> QED BY <1>1, <2>3
<1> QED BY <1>1, <1>2 DEF Bit, z

-----------------------------------------------------------------------------
(* The population count of the next number.  Its lowest bit takes the      *)
(* place of all those below.                                               *)

\* The bits of a number and of the one before it.
LEMMA PopcNext ==
  ASSUME NEW a \in Nat, a + 1 <= Pow2[29]
  PROVE  lfs_popc(a + 1) + lfs_ctz(a + 1) = lfs_popc(a) + 1
<1> DEFINE y == a + 1
           z == lfs_ctz(y)
           H == {k \in Bits(a) : k > z}
<1>1. y \in 1 .. Pow2[29] /\ y \in Nat
  <2>1. Pow2[29] \in Nat
    BY Powers
  <2> QED BY <2>1
<1>2. z \in 0 .. 29 /\ z \in Bit /\ z \in Bits(y) /\ \A k \in Bits(y) : z <= k
  <2> HIDE DEF y
  <2> QED BY <1>1, CtzBits DEF Bit
<1>3. PICK q \in Nat \ {0} : y = q * Pow2[z]
  <2> HIDE DEF y
  <2>1. z \in 0 .. lfs_ctz(y)
    BY <1>2
  <2> QED BY <1>1, <2>1, CtzDivides
<1> HIDE DEF z
<1>4. ASSUME NEW k \in Bit, k < z PROVE k \in Bits(a) /\ k \notin Bits(y)
  <2>1. k \notin Bits(y)
    BY <1>2, <1>4 DEF Bit
  <2> DEFINE p == Pow2[k]
  <2>2. PICK c \in Nat \ {0} : \A m \in Nat : m * Pow2[z] = (2 * (m * c)) * p
    BY <1>2, <1>4, MultipleOf
  <2>3. p \in Nat \ {0}
    <3>1. k \in 0 .. 30
      BY DEF Bit
    <3> QED BY <3>1, Powers
  <2> DEFINE x == q * c
  <2>4. x \in Nat \ {0}
    BY ONLY q \in Nat \ {0}, c \in Nat \ {0}, Z3
  <2>5. a = (2 * x - 1) * p + (p - 1)
    <3>1. a + 1 = (2 * x) * p
      BY <1>3, <2>2
    <3> HIDE DEF x, p
    <3>2. (2 * x - 1) * p = (2 * x) * p - p
      BY ONLY <2>3, <2>4, Z3
    <3>3. (2 * x) * p \in Nat
      BY ONLY <2>3, <2>4, Z3
    <3> QED BY ONLY <2>3, <3>1, <3>2, <3>3, a \in Nat
  <2>6. a \div p = 2 * x - 1
    <3> DEFINE w == 2 * x - 1
    <3> HIDE DEF x, p
    <3>1. w \in Nat /\ p - 1 \in 0 .. p - 1
      BY <2>3, <2>4
    <3> HIDE DEF w
    <3>2. (w * p + (p - 1)) \div p = w
      BY <2>3, <3>1, DivModOf
    <3> QED BY <2>5, <3>2 DEF w
  <2>7. (2 * x - 1) % 2 = 1
    <3> HIDE DEF x
    <3> QED BY <2>4
  <2> HIDE DEF x
  <2> QED BY <2>1, <2>6, <2>7 DEF Bits
<1>5. z \notin Bits(a)
  <2> DEFINE p == Pow2[z]
             w == q - 1
  <2>1. p \in Nat \ {0}
    <3>1. z \in 0 .. 30
      BY <1>2
    <3> QED BY <3>1, Powers
  <2>2. w \in Nat /\ p - 1 \in 0 .. p - 1 /\ 0 \in 0 .. p - 1
    BY <2>1
  <2>3. y \div p = q
    <3> HIDE DEF p, y
    <3>1. (q * p + 0) \div p = q
      BY <2>1, <2>2, DivModOf
    <3>2. q * p \in Nat /\ y = q * p
      BY <1>1, <1>3 DEF p
    <3>3. q * p + 0 = q * p
      BY ONLY <3>2
    <3> QED BY ONLY <3>1, <3>2, <3>3
  <2>4. q % 2 = 1
    <3> HIDE DEF y
    <3> QED BY <1>2, <2>3 DEF Bits
  <2>5. a = w * p + (p - 1)
    <3>1. a + 1 = q * p
      BY <1>3
    <3> HIDE DEF p
    <3>2. w * p = q * p - p
      BY ONLY <2>1, q \in Nat \ {0}, Z3 DEF w
    <3>3. q * p \in Nat
      BY ONLY <2>1, q \in Nat \ {0}, Z3
    <3> QED BY ONLY <2>1, <3>1, <3>2, <3>3, a \in Nat
  <2>6. a \div p = w
    <3> HIDE DEF p, w
    <3>1. (w * p + (p - 1)) \div p = w
      BY <2>1, <2>2, DivModOf
    <3> QED BY ONLY <2>5, <3>1
  <2>7. w % 2 = 0
    BY ONLY <2>4, q \in Nat \ {0} DEF w
  <2> HIDE DEF w
  <2> QED BY <2>6, <2>7 DEF Bits
<1>6. ASSUME NEW k \in Bit, k > z PROVE k \in Bits(y) <=> k \in Bits(a)
  <2> DEFINE p == Pow2[k]
  <2>1. p \in Nat \ {0}
    <3>1. k \in 0 .. 30
      BY DEF Bit
    <3> QED BY <3>1, Powers
  <2>2. (a + 1) \div p = a \div p
    <3>1. SUFFICES ASSUME (a + 1) \div p # a \div p PROVE FALSE
      OBVIOUS
    <3> DEFINE m == (a + 1) \div p
    <3> HIDE DEF p
    <3>2. a + 1 = m * p /\ m \in Nat
      <4>1. a + 1 = m * p
        BY <2>1, <3>1, NextQuotient
      <4>2. m \in Nat
        <5>1. y \div p \in Nat
          <6> HIDE DEF y
          <6> QED BY <1>1, <2>1, DivMod
        <5> QED BY <5>1
      <4> QED BY <4>1, <4>2
    <3> HIDE DEF m
    <3>3. z \notin Bits(m * Pow2[k])
      BY <1>2, <1>6, <3>2, NoBitBelow
    <3>4. y = m * Pow2[k]
      BY <3>2 DEF p
    <3> HIDE DEF y
    <3> QED BY <1>2, <3>3, <3>4
  <2> QED BY <2>2 DEF Bits
<1>7. Bits(y) = H \cup {z}
  <2>1. \A k \in Bits(y) : k \in Bit /\ k \in Int /\ z <= k
    BY <1>2 DEF Bits, Bit
  <2>2. \A k \in Bits(a) : k \in Bit
    BY DEF Bits
  <2> HIDE DEF y
  <2>3. \A k \in Bits(y) : k = z \/ k > z
    BY <1>2, <2>1
  <2> QED BY <1>2, <1>6, <2>1, <2>2, <2>3
<1>8. Bits(a) = H \cup (0 .. z - 1)
  <2>1. \A k \in Bits(a) : k \in Bit /\ k \in Int /\ k >= 0
    BY DEF Bits, Bit
  <2>2. \A k \in 0 .. z - 1 : k \in Bit /\ k < z
    BY <1>2 DEF Bit
  <2>3. \A k \in Bits(a) : k > z \/ k \in 0 .. z - 1
    BY <1>2, <1>5, <2>1
  <2> QED BY <1>4, <2>2, <2>3
<1>9. IsFiniteSet(H)
  <2>1. IsFiniteSet(Bits(a))
    BY BitsFinite
  <2>2. H \subseteq Bits(a)
    OBVIOUS
  <2> QED BY <2>1, <2>2, FS_Subset
<1>10. Cardinality(H \cup {z}) = Cardinality(H) + 1
  <2>1. z \notin H
    BY <1>2
  <2> HIDE DEF H
  <2> QED BY <1>9, <2>1, FS_AddElement
<1>11. Cardinality(H \cup (0 .. z - 1)) = Cardinality(H) + z
  <2>1. 0 \in Int /\ z - 1 \in Int
    BY <1>2
  <2>2. IsFiniteSet(0 .. z - 1)
        /\ Cardinality(0 .. z - 1) = IF 0 > z - 1 THEN 0 ELSE (z - 1) - 0 + 1
    BY <2>1, FS_Interval
  <2>3. Cardinality(0 .. z - 1) = z
    BY <1>2, <2>2
  <2>4. H \cap (0 .. z - 1) = {}
    BY <1>2
  <2>5. Cardinality(H) \in Nat
    BY <1>9, FS_CardinalityType
  <2> HIDE DEF H
  <2>6. Cardinality(H \cup (0 .. z - 1)) =
          Cardinality(H) + Cardinality(0 .. z - 1) - Cardinality(H \cap (0 .. z - 1))
    BY <1>9, <2>2, FS_Union
  <2>7. Cardinality(H \cap (0 .. z - 1)) = 0
    BY <2>4, FS_EmptySet
  <2> QED BY <1>2, <2>3, <2>5, <2>6, <2>7
<1>12. Cardinality(H) \in Nat
  BY <1>9, FS_CardinalityType
<1>13. lfs_popc(y) = Cardinality(H) + 1 /\ lfs_popc(a) = Cardinality(H) + z
  <2> HIDE DEF H, y
  <2> QED BY <1>7, <1>8, <1>10, <1>11 DEF lfs_popc
<1> DEFINE h == Cardinality(H)
<1> HIDE DEF h
<1>14. h \in Nat /\ lfs_popc(y) = h + 1 /\ lfs_popc(a) = h + z
  BY <1>12, <1>13 DEF h
<1>15. (h + 1) + z = (h + z) + 1
  BY <1>2, <1>14
<1> QED BY <1>14, <1>15 DEF z

-----------------------------------------------------------------------------
(* Where the words of a file are.                                          *)

\* The words a file can have.
FileWords == MaxRecords * RecordWords

\* The positions in a file.
Position == 0 .. MaxRecords * RecordWords - 1

\* The sizes are numbers.
LEMMA Sizes ==
  /\ BlockCount \in Nat /\ BlockCount > 2 /\ BlockWords \in Nat /\ BlockWords > 3
  /\ RecordWords \in Nat \ {0} /\ MaxRecords \in Nat /\ Lookahead \in Nat \ {0}
  /\ FileWords \in Nat
<1>1. /\ BlockCount \in Nat /\ BlockCount > 2 /\ BlockWords \in Nat /\ BlockWords > 3
      /\ RecordWords \in Nat \ {0} /\ MaxRecords \in Nat /\ Lookahead \in Nat \ {0}
  BY FileAssumption
<1>2. MaxRecords * RecordWords \in Nat
  BY <1>1, Z3
<1> QED BY <1>1, <1>2 DEF FileWords

(* The index of the block of a word, and its place in it, in the two cases *)
(* of the estimate: it is the block, or the one behind it.                 *)
LEMMA IndexCases ==
  ASSUME NEW b \in Nat, b >= 2, b = BlockWords - 2,
         NEW i \in Nat \ {0}, NEW r \in 0 .. b - 1,
         NEW c \in 0 .. b - 2, c = lfs_popc(i - 1)
  PROVE  /\ r >= c + 2 => /\ lfs_ctz_index(i * b + r) = i
                          /\ Offset(i * b + r) = r - lfs_popc(i)
         /\ r < c + 2 => /\ lfs_ctz_index(i * b + r) = i - 1
                         /\ Offset(i * b + r) = b + r - c
<1> DEFINE pos == i * b + r
           x   == lfs_ctz_index(pos)
<1>1. i * b \in Nat
  BY Z3
<1>2. pos \in Nat /\ pos \div b = i /\ b \in Nat \ {0}
  <2>1. b \in Nat \ {0}
    OBVIOUS
  <2>2. (i * b + r) \div b = i
    BY <2>1, DivModOf
  <2>3. pos \in Nat
    BY <1>1
  <2> QED BY <2>1, <2>2, <2>3
<1>3. x = (pos - (c + 2)) \div b
  <2> HIDE DEF pos
  <2>1. BlockWords - 2 = b /\ lfs_popc(i - 1) = c
    OBVIOUS
  <2> QED BY <1>2, <2>1 DEF lfs_ctz_index
<1>4. Offset(pos) = IF x = 0 THEN pos ELSE pos - b * x - lfs_popc(x)
  <2> HIDE DEF pos
  <2> QED BY DEF Offset
<1>5. lfs_popc(i) \in Nat
  BY BitsFinite
<1>6. ASSUME r >= c + 2 PROVE x = i /\ Offset(pos) = r - lfs_popc(i)
  <2>1. r - (c + 2) \in 0 .. b - 1 /\ pos - (c + 2) = i * b + (r - (c + 2))
    BY <1>1, <1>6
  <2>2. x = i
    <3> DEFINE t == r - (c + 2)
    <3>1. t \in 0 .. b - 1
      BY <2>1
    <3> HIDE DEF t
    <3>2. (i * b + t) \div b = i
      BY <1>2, <3>1, DivModOf
    <3> QED BY <1>3, <2>1, <3>2 DEF t
  <2>3. b * i = i * b
    BY Z3
  <2> HIDE DEF x
  <2> QED BY <1>1, <1>4, <1>5, <2>2, <2>3
<1>7. ASSUME r < c + 2 PROVE x = i - 1 /\ Offset(pos) = b + r - c
  <2>1. b + r - (c + 2) \in 0 .. b - 1 /\ i - 1 \in Nat
    BY <1>7
  <2>2. (i - 1) * b = i * b - b
    BY Z3
  <2>3. pos - (c + 2) = (i - 1) * b + (b + r - (c + 2))
    BY <1>1, <2>2
  <2>4. x = i - 1
    <3> DEFINE t == b + r - (c + 2)
               j == i - 1
    <3>1. t \in 0 .. b - 1 /\ j \in Nat
      BY <2>1
    <3> HIDE DEF t, j
    <3>2. (j * b + t) \div b = j
      BY <1>2, <3>1, DivModOf
    <3> QED BY <1>3, <2>3, <3>2 DEF t, j
  <2>5. b * (i - 1) = i * b - b
    BY Z3
  <2>6. CASE i = 1
    <3>1. x = 0 /\ c = 0 /\ i * b = b
      BY <2>4, <2>6, NoBits
    <3> HIDE DEF x
    <3> QED BY <1>4, <2>4, <3>1
  <2>7. CASE i # 1
    <3>1. x # 0 /\ lfs_popc(x) = c
      BY <2>4, <2>7
    <3> HIDE DEF x
    <3>2. Offset(pos) = pos - b * (i - 1) - c
      BY <1>4, <2>4, <3>1
    <3> QED BY <1>1, <2>4, <2>5, <3>2
  <2> QED BY <2>6, <2>7
<1> QED BY <1>6, <1>7

\* Where the words of the file begin in block i of a chain.
Start(i) == IF i = 0 THEN 0 ELSE lfs_ctz(i) + 1

\* A chain can have a block i.
Fits(i) == i \in Nat /\ \E K \in Bit : K <= BlockWords - 3 /\ i + 1 <= Pow2[K]

\* Word pos of a file is word o of block i.
At(pos, i, o) ==
  /\ Fits(i) /\ o \in Start(i) .. BlockWords - 1
  /\ pos = (BlockWords - 2) * i + lfs_popc(i) + o

\* The numbers that go with a block of a chain.
LEMMA FitsFacts ==
  ASSUME NEW i, Fits(i)
  PROVE  /\ i \in Nat /\ i \in Index /\ i + 1 \in 1 .. Pow2[29]
         /\ lfs_popc(i) \in 0 .. BlockWords - 3
         /\ Start(i) \in 0 .. BlockWords - 2 /\ Start(i + 1) \in 1 .. BlockWords - 2
<1>1. PICK K \in Bit : K <= BlockWords - 3 /\ i + 1 <= Pow2[K]
  BY DEF Fits
<1>2. i \in Nat /\ K \in 0 .. 29 /\ BlockWords \in Nat
  BY Sizes DEF Fits, Bit
<1>3. Pow2[K] \in Nat /\ Pow2[29] \in Nat /\ Pow2[K] <= Pow2[29]
  <2>1. K \in 0 .. 30 /\ 29 \in K .. 30 /\ 29 \in 0 .. 30
    BY <1>2
  <2> QED BY <2>1, Powers, PowMonotone
<1>4. i \in Index /\ i + 1 \in 1 .. Pow2[29]
  BY <1>1, <1>2, <1>3 DEF Index
<1>5. ASSUME NEW j \in 1 .. i + 1 PROVE lfs_ctz(j) \in 0 .. BlockWords - 3
  <2>1. j \in 1 .. Pow2[K] /\ j \in 1 .. Pow2[29]
    BY <1>1, <1>2, <1>3
  <2>2. PICK k \in Bits(j) : k <= K
    BY <2>1, BitsSome
  <2>3. lfs_ctz(j) \in Bit /\ lfs_ctz(j) <= k
    BY <2>1, CtzBits
  <2>4. lfs_ctz(j) \in Nat /\ k \in Nat
    BY <2>2, <2>3 DEF Bit, Bits
  <2> QED BY <1>1, <1>2, <2>2, <2>3, <2>4
<1>6. Start(i + 1) \in 1 .. BlockWords - 2
  <2>1. i + 1 \in 1 .. i + 1 /\ i + 1 # 0
    BY <1>2
  <2>2. lfs_ctz(i + 1) \in 0 .. BlockWords - 3
    BY <1>5, <2>1
  <2> QED BY <1>2, <2>1, <2>2 DEF Start
<1>7. Start(i) \in 0 .. BlockWords - 2
  <2>1. CASE i = 0
    BY <2>1, Sizes DEF Start
  <2>2. CASE i # 0
    <3>1. i \in 1 .. i + 1
      BY <1>2, <2>2
    <3>2. lfs_ctz(i) \in 0 .. BlockWords - 3
      BY <1>5, <3>1
    <3> QED BY <1>2, <2>2, <3>2 DEF Start
  <2> QED BY <2>1, <2>2
<1>8. lfs_popc(i) \in 0 .. BlockWords - 3
  <2>1. CASE i = 0
    BY <2>1, NoBits, Sizes
  <2>2. CASE i # 0
    <3> DEFINE a == i - 1
    <3>1. a \in Nat /\ a + 1 = i /\ a < Pow2[K] - 1
      BY <1>1, <1>2, <1>3, <2>2
    <3> HIDE DEF a
    <3>2. lfs_popc(a) <= K - 1
      BY <3>1, BitsFew
    <3>3. lfs_popc(a + 1) <= lfs_popc(a) + 1 /\ lfs_popc(a) \in Nat /\ lfs_popc(i) \in Nat
      BY <3>1, BitsNext, BitsFinite
    <3> QED BY <1>1, <1>2, <3>1, <3>2, <3>3
  <2> QED BY <2>1, <2>2
<1> QED BY <1>2, <1>4, <1>6, <1>7, <1>8

(* lfs_ctz_index() finds a place in a block for every word of a file, as   *)
(* far as the sizes go that lfs_init() checks.                             *)
LEMMA Located ==
  ASSUME NEW pos \in Position
  PROVE  At(pos, lfs_ctz_index(pos), Offset(pos))
<1>1. PICK K \in Bit : /\ K <= BlockWords - 3
                       /\ MaxRecords * RecordWords <= (BlockWords - 2) * Pow2[K]
  BY FileAssumption
<1> DEFINE b == BlockWords - 2
           w == MaxRecords * RecordWords
           P == Pow2[K]
           i == pos \div b
           r == pos % b
<1>2. /\ b \in Nat /\ b >= 2 /\ b \in Nat \ {0} /\ w \in Nat /\ K <= b - 1
      /\ BlockWords \in Nat /\ BlockWords = b + 2 /\ K \in Nat
  <2>1. MaxRecords \in Nat /\ RecordWords \in Nat /\ BlockWords \in Nat /\ BlockWords > 3
    BY FileAssumption
  <2>2. w \in Nat
    BY <2>1, Z3
  <2> QED BY <1>1, <2>1, <2>2 DEF Bit
<1>3. P \in Nat \ {0} /\ w <= b * P /\ P <= Pow2[29] /\ Pow2[29] \in Nat
  <2>1. K \in 0 .. 30 /\ 29 \in K .. 30 /\ 29 \in 0 .. 30
    BY DEF Bit
  <2> QED BY <1>1, <2>1, Powers, PowMonotone
<1>4. pos \in Nat /\ pos < w
  BY <1>2 DEF Position
<1>5. BlockWords - 2 = b
  OBVIOUS
<1> HIDE DEF b, w, P
<1>6. i \in Nat /\ r \in 0 .. b - 1 /\ pos = i * b + r
  BY <1>2, <1>4, DivMod
<1>7. lfs_ctz_index(pos) = IF i = 0 THEN 0 ELSE (pos - (lfs_popc(i - 1) + 2)) \div b
  BY <1>5 DEF lfs_ctz_index
<1> HIDE DEF i, r
<1>8. i < P
  <2>1. SUFFICES ASSUME i >= P PROVE FALSE
    BY <1>3, <1>6
  <2>2. b * P <= i * b
    BY ONLY <1>2, <1>3, <1>6, <2>1, Z3
  <2>3. b * P \in Nat /\ i * b \in Nat
    BY ONLY <1>2, <1>3, <1>6, Z3
  <2> QED BY <1>2, <1>3, <1>4, <1>6, <2>2, <2>3
<1>9. ASSUME NEW j \in 0 .. i PROVE Fits(j)
  <2>1. j \in Nat /\ j + 1 <= P /\ K <= BlockWords - 3
    BY <1>2, <1>3, <1>6, <1>8
  <2> QED BY <2>1 DEF Fits, P
<1>10. CASE i = 0
  <2>1. lfs_ctz_index(pos) = 0 /\ Offset(pos) = pos
    BY <1>7, <1>10 DEF Offset
  <2>2. pos = r /\ b * 0 = 0
    BY <1>2, <1>6, <1>10
  <2>3. pos \in 0 .. BlockWords - 1 /\ pos = b * 0 + 0 + pos
    BY <1>2, <1>4, <1>6, <2>2
  <2>4. Fits(0)
    BY <1>9, <1>10
  <2> QED BY <1>5, <2>1, <2>3, <2>4, NoBits DEF At, Start
<1>11. CASE i # 0
  <2> DEFINE a == i - 1
             c == lfs_popc(a)
             d == lfs_popc(i)
  <2>1. i \in Nat \ {0} /\ a \in Nat /\ a + 1 = i /\ a < P - 1 /\ a + 1 <= Pow2[29] /\ i # 0
    BY <1>3, <1>6, <1>8, <1>11
  <2>2. c \in Nat /\ d \in Nat
    BY BitsFinite
  <2>3. c <= K - 1
    <3> HIDE DEF a
    <3> QED BY <2>1, BitsFew DEF P
  <2>4. d + lfs_ctz(i) = c + 1
    <3> HIDE DEF a
    <3> QED BY <2>1, PopcNext
  <2>5. c \in 0 .. b - 2
    <3> HIDE DEF c
    <3> QED BY <1>2, <2>2, <2>3
  <2>6. /\ r >= c + 2 => lfs_ctz_index(pos) = i /\ Offset(pos) = r - d
        /\ r < c + 2 => lfs_ctz_index(pos) = i - 1 /\ Offset(pos) = b + r - c
    <3>1. b = BlockWords - 2
      BY <1>2
    <3> QED BY <1>2, <1>6, <2>1, <2>5, <3>1, IndexCases
  <2>7. lfs_ctz(i) \in Nat
    <3>1. i \in 1 .. Pow2[29]
      BY <2>1, <1>3
    <3> QED BY <3>1, CtzBits DEF Bit
  <2>8. i * b = b * i /\ b * a = i * b - b /\ i * b \in Nat
    BY ONLY <1>2, <2>1, Z3 DEF a
  <2> HIDE DEF c, d
  <2>9. CASE r >= c + 2
    <3> DEFINE o == r - d
               t == lfs_ctz(i)
    <3>1. Fits(i)
      BY <1>6, <1>9
    <3>2. o \in t + 1 .. BlockWords - 1 /\ pos = b * i + d + o
      <4>1. t \in Nat /\ d + t = c + 1
        BY <2>4, <2>7
      <4> HIDE DEF t
      <4> QED BY ONLY <1>2, <1>6, <2>2, <2>8, <2>9, <4>1 DEF o
    <3> HIDE DEF o
    <3> QED BY <1>5, <2>1, <2>6, <2>9, <3>1, <3>2 DEF At, Start, o, d
  <2>10. CASE r < c + 2
    <3> DEFINE o == b + r - c
    <3>1. Fits(a)
      BY <1>6, <1>9, <2>1
    <3>2. o \in 0 .. BlockWords - 1 /\ pos = b * a + c + o /\ o >= b - c
      BY ONLY <1>2, <1>6, <2>2, <2>5, <2>8, <2>10 DEF o
    <3>3. Start(a) <= b - c
      <4>1. CASE a = 0
        BY <1>2, <2>5, <4>1 DEF Start
      <4>2. CASE a # 0
        <5> DEFINE e == a - 1
        <5>1. e \in Nat /\ e + 1 = a /\ e < P - 1 /\ e + 1 <= Pow2[29] /\ a \in 1 .. Pow2[29]
          BY <1>3, <2>1, <4>2
        <5> HIDE DEF e, a
        <5>2. c + lfs_ctz(a) = lfs_popc(e) + 1
          BY <5>1, PopcNext DEF c
        <5>3. lfs_popc(e) <= K - 1 /\ lfs_popc(e) \in Nat
          BY <5>1, BitsFew, BitsFinite DEF P
        <5>4. lfs_ctz(a) \in Nat
          BY <5>1, CtzBits DEF Bit
        <5>5. lfs_ctz(a) + 1 <= b - c
          BY <1>2, <2>2, <5>2, <5>3, <5>4
        <5> QED BY <4>2, <5>5 DEF Start
      <4> QED BY <4>1, <4>2
    <3>4. Start(a) \in Nat
      BY <3>1, FitsFacts
    <3>5. o \in Start(a) .. BlockWords - 1
      BY <1>2, <2>2, <3>2, <3>3, <3>4
    <3>6. lfs_ctz_index(pos) = a /\ Offset(pos) = o
      BY <2>6, <2>10
    <3> HIDE DEF o, a
    <3> QED BY <1>5, <3>1, <3>2, <3>5, <3>6 DEF At, c
  <2> QED BY <1>6, <2>2, <2>9, <2>10
<1> QED BY <1>10, <1>11

(* Blocks follow each other: a word of an earlier block is earlier.        *)
LEMMA InOrder ==
  ASSUME NEW p, NEW q, NEW i, NEW j, NEW o, NEW u, At(p, i, o), At(q, j, u), i < j
  PROVE  p < q
<1> DEFINE b == BlockWords - 2
<1>1. /\ b \in Nat /\ b >= 2 /\ BlockWords = b + 2 /\ BlockWords \in Nat /\ BlockWords - 2 = b
  BY Sizes
<1>2. /\ i \in Nat /\ j \in Nat /\ lfs_popc(i) \in 0 .. BlockWords - 3 /\ lfs_popc(j) \in Nat
      /\ Start(i) \in Nat /\ Start(j) \in Nat /\ j + 1 \in 1 .. Pow2[29] /\ Pow2[29] \in Nat
  BY FitsFacts, BitsFinite, Powers DEF At
<1> DEFINE a == j - 1
<1>3. a \in Nat /\ a + 1 = j /\ a + 1 <= Pow2[29] /\ j # 0 /\ i <= a
  BY <1>2
<1> HIDE DEF a
<1>4. lfs_popc(j) + lfs_ctz(j) = lfs_popc(a) + 1 /\ lfs_popc(a) \in Nat
  BY <1>3, PopcNext, BitsFinite
<1>5. Start(j) = lfs_ctz(j) + 1
  BY <1>3 DEF Start
<1>6. j \in 1 .. Pow2[29]
  BY <1>2, <1>3
<1>7. lfs_ctz(j) \in Nat
  BY <1>6, CtzBits DEF Bit
<1>8. /\ p = b * i + lfs_popc(i) + o /\ o \in 0 .. b + 1
      /\ q = b * j + lfs_popc(j) + u /\ u \in Nat /\ u >= lfs_ctz(j) + 1
  BY <1>1, <1>2, <1>5, <1>7 DEF At
<1> HIDE DEF b
<1>9. b * j = b * a + b /\ b * i \in Nat /\ b * j \in Nat /\ b * a \in Nat
  BY ONLY <1>1, <1>2, <1>3, Z3
<1> DEFINE bi == b * i
           bj == b * j
           ba == b * a
           pi == lfs_popc(i)
           pj == lfs_popc(j)
           pa == lfs_popc(a)
           t  == lfs_ctz(j)
<1>10. CASE i = a
  <2>1. bi = ba /\ pi = pa
    BY <1>10
  <2>2. /\ pi \in Nat /\ pj \in Nat /\ pa \in Nat /\ t \in Nat /\ pj + t = pa + 1
        /\ p = bi + pi + o /\ o \in 0 .. b + 1 /\ q = bj + pj + u /\ u \in Nat /\ u >= t + 1
        /\ bj = ba + b /\ bi \in Nat /\ bj \in Nat /\ ba \in Nat /\ b \in Nat
    BY <1>1, <1>2, <1>4, <1>7, <1>8, <1>9
  <2> HIDE DEF bi, bj, ba, pi, pj, pa, t
  <2> QED BY ONLY <2>1, <2>2
<1>11. CASE i # a
  <2>1. i + 1 <= a
    BY <1>2, <1>3, <1>11
  <2>2. bi + b <= ba
    <3>1. b * (i + 1) = b * i + b /\ b * (i + 1) <= b * a
      BY ONLY <1>1, <1>2, <1>3, <2>1, Z3
    <3> QED BY <3>1
  <2>3. /\ pi \in 0 .. b - 1 /\ pj \in Nat /\ pa \in Nat /\ t \in Nat /\ pj + t = pa + 1
        /\ p = bi + pi + o /\ o \in 0 .. b + 1 /\ q = bj + pj + u /\ u \in Nat /\ u >= t + 1
        /\ bj = ba + b /\ bi \in Nat /\ bj \in Nat /\ ba \in Nat /\ b \in Nat
    BY <1>1, <1>2, <1>4, <1>7, <1>8, <1>9
  <2> HIDE DEF bi, bj, ba, pi, pj, pa, t
  <2> QED BY ONLY <2>2, <2>3
<1> QED BY <1>10, <1>11

\* A chain that can have block j can have those before it.
LEMMA FitsDown ==
  ASSUME NEW j, Fits(j), NEW i \in 0 .. j
  PROVE  Fits(i)
<1>1. PICK K \in Bit : K <= BlockWords - 3 /\ j + 1 <= Pow2[K]
  BY DEF Fits
<1>2. j \in Nat /\ Pow2[K] \in Nat
  BY Powers DEF Fits, Bit
<1>3. i \in Nat /\ i + 1 <= Pow2[K]
  BY <1>1, <1>2
<1> QED BY <1>1, <1>3 DEF Fits

\* A word has one place.
LEMMA SamePlace ==
  ASSUME NEW p, NEW i, NEW o, NEW j, NEW u, At(p, i, o), At(p, j, u)
  PROVE  i = j /\ o = u
<1>1. i \in Nat /\ j \in Nat /\ p \in Nat
  <2>1. /\ i \in Nat /\ j \in Nat /\ lfs_popc(i) \in Nat /\ Start(i) \in Nat
        /\ BlockWords - 2 \in Nat /\ BlockWords \in Nat
    BY FitsFacts, Sizes DEF At
  <2>2. o \in Nat
    BY <2>1 DEF At
  <2>3. (BlockWords - 2) * i \in Nat
    BY <2>1, Z3
  <2> QED BY <2>1, <2>2, <2>3 DEF At
<1>2. i = j
  <2>1. ~(i < j) /\ ~(j < i)
    BY <1>1, InOrder
  <2> QED BY <1>1, <2>1
<1> DEFINE x == (BlockWords - 2) * i + lfs_popc(i)
<1>3. x \in Nat /\ o \in Nat /\ u \in Nat
  <2>1. /\ i \in Nat /\ lfs_popc(i) \in Nat /\ Start(i) \in Nat
        /\ BlockWords - 2 \in Nat /\ BlockWords \in Nat
    BY FitsFacts, Sizes DEF At
  <2>2. (BlockWords - 2) * i \in Nat
    BY <2>1, Z3
  <2>3. o \in Start(i) .. BlockWords - 1 /\ u \in Start(i) .. BlockWords - 1
    BY <1>2 DEF At
  <2> QED BY <2>1, <2>2, <2>3
<1>4. p = x + o /\ p = x + u
  BY <1>2 DEF At
<1> HIDE DEF x
<1> QED BY <1>2, <1>3, <1>4

\* The place of a word of a file is the one that lfs_ctz_index() finds.
LEMMA PlaceOf ==
  ASSUME NEW pos \in Position, NEW i, NEW o, At(pos, i, o)
  PROVE  lfs_ctz_index(pos) = i /\ Offset(pos) = o
BY Located, SamePlace

\* What is known of the place of a word.
LEMMA PlaceFacts ==
  ASSUME NEW p, NEW i, NEW o, At(p, i, o)
  PROVE  /\ p \in Nat /\ i \in Nat /\ i \in Index /\ o \in 0 .. BlockWords - 1
         /\ Start(i) \in 0 .. BlockWords - 2 /\ Start(i) <= o
         /\ i + 1 \in 1 .. Pow2[29] /\ Start(i + 1) \in 1 .. BlockWords - 2
         /\ (BlockWords - 2) * i + lfs_popc(i) \in Nat
<1>1. /\ i \in Nat /\ lfs_popc(i) \in Nat /\ Start(i) \in 0 .. BlockWords - 2
      /\ BlockWords - 2 \in Nat /\ BlockWords \in Nat /\ i \in Index /\ i + 1 \in 1 .. Pow2[29]
      /\ Start(i + 1) \in 1 .. BlockWords - 2
  BY FitsFacts, Sizes DEF At
<1>2. (BlockWords - 2) * i \in Nat
  BY <1>1, Z3
<1>3. (BlockWords - 2) * i + lfs_popc(i) \in Nat
  BY <1>1, <1>2
<1>4. o \in Start(i) .. BlockWords - 1
  BY DEF At
<1>5. p = (BlockWords - 2) * i + lfs_popc(i) + o
  BY DEF At
<1> QED BY <1>1, <1>3, <1>4, <1>5

\* The other words of the block.
LEMMA Shift ==
  ASSUME NEW p, NEW i, NEW o, At(p, i, o),
         NEW d \in Int, Start(i) <= o + d, o + d <= BlockWords - 1
  PROVE  At(p + d, i, o + d)
<1> DEFINE x == (BlockWords - 2) * i + lfs_popc(i)
<1>1. x \in Nat /\ o \in Int /\ Start(i) \in Nat /\ BlockWords \in Nat
  BY PlaceFacts, Sizes
<1>2. p = x + o
  BY DEF At
<1>3. p + d = x + (o + d)
  <2> HIDE DEF x
  <2> QED BY <1>1, <1>2
<1>4. o + d \in Start(i) .. BlockWords - 1
  BY <1>1
<1> HIDE DEF x
<1>5. Fits(i)
  BY DEF At
<1> QED BY <1>3, <1>4, <1>5 DEF At, x

\* An earlier word is in an earlier block, or earlier in the same one.
LEMMA Earlier ==
  ASSUME NEW q \in Position, NEW p \in 0 .. q
  PROVE  /\ p \in Position
         /\ lfs_ctz_index(p) \in 0 .. lfs_ctz_index(q)
         /\ lfs_ctz_index(p) = lfs_ctz_index(q) => Offset(p) = Offset(q) - (q - p)
<1> DEFINE i == lfs_ctz_index(p)
           j == lfs_ctz_index(q)
           o == Offset(p)
           u == Offset(q)
<1>1. p \in Position /\ p \in Nat /\ q \in Nat
  BY Sizes DEF Position, FileWords
<1>2. At(p, i, o) /\ At(q, j, u)
  BY <1>1, Located
<1> HIDE DEF i, j, o, u
<1>3. i \in Nat /\ j \in Nat /\ o \in Int /\ u \in Int
  BY <1>2, PlaceFacts
<1>4. ~(j < i)
  <2>1. SUFFICES ASSUME j < i PROVE FALSE
    OBVIOUS
  <2>2. q < p
    BY <1>2, <2>1, InOrder
  <2> QED BY <1>1, <2>2
<1>5. i = j => o = u - (q - p)
  <2>1. SUFFICES ASSUME i = j PROVE o = u - (q - p)
    OBVIOUS
  <2> DEFINE x == (BlockWords - 2) * i + lfs_popc(i)
  <2>2. x \in Nat
    BY <1>2, PlaceFacts
  <2>3. p = x + o /\ q = x + u
    BY <1>2, <2>1 DEF At
  <2> HIDE DEF x
  <2> QED BY ONLY <1>1, <1>3, <2>2, <2>3
<1>6. i \in 0 .. j
  BY <1>3, <1>4
<1> QED BY <1>1, <1>5, <1>6 DEF i, j, o, u

\* The first word of a block follows the last one of the block before.
LEMMA FirstWord ==
  ASSUME NEW n \in Nat, Fits(n + 1)
  PROVE  /\ Fits(n)
         /\ (BlockWords - 2) * (n + 1) + lfs_popc(n + 1) + Start(n + 1) =
              (BlockWords - 2) * n + lfs_popc(n) + BlockWords
<1> DEFINE b == BlockWords - 2
           t == lfs_ctz(n + 1)
<1>1. b \in Nat /\ BlockWords = b + 2 /\ BlockWords \in Nat
  BY Sizes
<1>2. Fits(n)
  BY FitsDown
<1>3. n + 1 \in 1 .. Pow2[29] /\ n + 1 <= Pow2[29]
  <2>1. n + 1 \in 1 .. Pow2[29]
    BY <1>2, FitsFacts
  <2>2. Pow2[29] \in Nat
    BY Powers
  <2> QED BY <2>1, <2>2
<1>4. lfs_popc(n + 1) + t = lfs_popc(n) + 1 /\ t \in Nat
  BY <1>3, PopcNext, CtzBits DEF Bit
<1>5. lfs_popc(n + 1) \in Nat /\ lfs_popc(n) \in Nat
  BY BitsFinite
<1>6. Start(n + 1) = t + 1
  <2>1. n + 1 # 0
    OBVIOUS
  <2> QED BY <2>1 DEF Start
<1> HIDE DEF b, t
<1>7. b * (n + 1) = b * n + b /\ b * n \in Nat /\ b * (n + 1) \in Nat
  BY ONLY <1>1, n \in Nat, Z3
<1> DEFINE x == b * n
           y == b * (n + 1)
           c == lfs_popc(n)
           d == lfs_popc(n + 1)
           s == Start(n + 1)
<1>8. y + d + s = x + c + BlockWords
  <2>1. /\ y = x + b /\ x \in Nat /\ y \in Nat /\ c \in Nat /\ d \in Nat /\ d + t = c + 1
        /\ t \in Nat /\ s = t + 1 /\ BlockWords = b + 2 /\ b \in Nat
    BY <1>1, <1>4, <1>5, <1>6, <1>7
  <2> HIDE DEF x, y, c, d, s
  <2> QED BY ONLY <2>1
<1> QED BY <1>2, <1>8 DEF b

\* Behind a full block, the words go on behind the pointers of the next.
LEMMA NextBlock ==
  ASSUME NEW n, NEW p, At(p, n, BlockWords - 1), p + 1 \in Position
  PROVE  At(p + 1, n + 1, Start(n + 1))
<1> DEFINE j == lfs_ctz_index(p + 1)
           u == Offset(p + 1)
<1>1. At(p + 1, j, u)
  BY Located
<1> HIDE DEF j, u
<1>2. /\ p \in Nat /\ n \in Nat /\ j \in Nat /\ u \in 0 .. BlockWords - 1 /\ BlockWords \in Nat
      /\ BlockWords > 3
  BY <1>1, PlaceFacts, Sizes
<1>3. ~(j < n)
  <2>1. SUFFICES ASSUME j < n PROVE FALSE
    OBVIOUS
  <2>2. p + 1 < p
    BY <1>1, <2>1, InOrder
  <2> QED BY <1>2, <2>2
<1>4. j # n
  <2>1. SUFFICES ASSUME j = n PROVE FALSE
    OBVIOUS
  <2> DEFINE x == (BlockWords - 2) * n + lfs_popc(n)
  <2>2. x \in Nat
    BY PlaceFacts
  <2>3. p = x + (BlockWords - 1) /\ p + 1 = x + u
    BY <1>1, <2>1 DEF At
  <2> HIDE DEF x
  <2> QED BY ONLY <1>2, <2>2, <2>3
<1>5. Fits(n + 1)
  <2>1. n + 1 \in 0 .. j
    BY <1>2, <1>3, <1>4
  <2>2. Fits(j)
    BY <1>1 DEF At
  <2> QED BY <2>1, <2>2, FitsDown
<1>6. Start(n + 1) \in Start(n + 1) .. BlockWords - 1
  <2>1. Start(n + 1) \in 0 .. BlockWords - 2
    BY <1>5, FitsFacts
  <2> QED BY <1>2, <2>1
<1>7. p + 1 = (BlockWords - 2) * (n + 1) + lfs_popc(n + 1) + Start(n + 1)
  <2> DEFINE x == (BlockWords - 2) * n + lfs_popc(n)
             y == (BlockWords - 2) * (n + 1) + lfs_popc(n + 1) + Start(n + 1)
  <2>1. x \in Nat /\ p = x + (BlockWords - 1)
    BY PlaceFacts DEF At
  <2>2. y = x + BlockWords
    BY <1>2, <1>5, FirstWord
  <2> HIDE DEF x, y
  <2>3. p + 1 = y
    BY ONLY <1>2, <2>1, <2>2
  <2> QED BY <2>3 DEF y
<1> QED BY <1>5, <1>6, <1>7 DEF At

\* Every block of a chain up to that of word p has a word that is not later.
LEMMA SomeWord ==
  ASSUME NEW p \in Position, NEW i \in 0 .. lfs_ctz_index(p)
  PROVE  \E q \in 0 .. p : lfs_ctz_index(q) = i
<1> DEFINE n == lfs_ctz_index(p)
           o == Offset(p)
<1>1. At(p, n, o)
  BY Located
<1>2. n \in Nat /\ i \in Nat /\ i <= n
  BY <1>1, PlaceFacts
<1>3. CASE i = n
  <2>1. p \in 0 .. p
    BY <1>1, PlaceFacts
  <2> QED BY <1>3, <2>1
<1>4. CASE i < n
  <2> DEFINE q == (BlockWords - 2) * i + lfs_popc(i) + Start(i)
  <2> HIDE DEF n, o
  <2>1. Fits(n)
    BY <1>1 DEF At
  <2>2. i \in 0 .. n
    BY <1>2
  <2>3. Fits(i)
    BY <2>1, <2>2, FitsDown
  <2>4. Start(i) \in Start(i) .. BlockWords - 1
    <3>1. Start(i) \in 0 .. BlockWords - 2 /\ BlockWords \in Nat
      BY <2>3, FitsFacts, Sizes
    <3> QED BY <3>1
  <2>5. At(q, i, Start(i))
    BY <2>3, <2>4 DEF At
  <2> HIDE DEF q
  <2>6. q < p
    BY <1>1, <1>4, <2>5, InOrder
  <2>7. q \in Nat /\ p \in Nat
    BY <1>1, <2>5, PlaceFacts
  <2>8. q \in 0 .. p
    BY <2>6, <2>7
  <2>9. q \in Position
    BY <2>8, Earlier
  <2> QED BY <2>5, <2>8, <2>9, PlaceOf
<1> QED BY <1>2, <1>3, <1>4

-----------------------------------------------------------------------------
(* The pointers of a chain.                                                *)

\* Min of two numbers.
LEMMA MinOfTwo ==
  ASSUME NEW x \in Nat, NEW y \in Nat
  PROVE  /\ Min({x, y}) \in Nat /\ (Min({x, y}) = x \/ Min({x, y}) = y)
         /\ Min({x, y}) <= x /\ Min({x, y}) <= y
<1>1. {x, y} \in SUBSET Nat /\ {x, y} # {}
  OBVIOUS
<1>2. Min({x, y}) \in {x, y} /\ \A z \in {x, y} : Min({x, y}) <= z
  BY <1>1, LeastOf
<1> QED BY <1>2

\* A chain is followed back by a pointer that its block has, not past the target.
LEMMA SkipTo ==
  ASSUME NEW c \in Index, NEW t \in Nat, c > t
  PROVE  /\ Skip(c, t) \in 0 .. lfs_ctz(c) /\ Skip(c, t) \in Bit
         /\ c - Pow2[Skip(c, t)] \in t .. c - 1
<1> DEFINE N == {k \in Bit : Pow2[k] >= c - t + 1}
           j == lfs_npw2(c - t + 1)
           z == lfs_ctz(c)
           s == Skip(c, t)
<1>1. Pow2[29] \in Nat /\ c \in Nat /\ c + 1 <= Pow2[29] /\ Pow2[0] = 1 /\ c \in 1 .. Pow2[29]
  <2>1. Pow2[29] \in Nat /\ Pow2[0] = 1
    BY Powers
  <2> QED BY <2>1 DEF Index
<1>2. j \in 1 .. 29 /\ ~(Pow2[j - 1] >= c - t + 1)
  <2>1. 29 \in N
    <3>1. 29 \in Bit
      BY DEF Bit
    <3> QED BY <1>1, <3>1
  <2>2. N \in SUBSET Nat /\ N # {}
    BY <2>1 DEF Bit
  <2>3. j = Min(N)
    BY DEF lfs_npw2
  <2> HIDE DEF N, j
  <2>4. j \in N /\ \A y \in N : j <= y
    BY <2>2, <2>3, LeastOf
  <2>5. j \in 0 .. 29 /\ Pow2[j] >= c - t + 1
    BY <2>4 DEF N, Bit
  <2>6. j # 0
    BY <1>1, <2>5
  <2>7. j - 1 \notin N
    BY <2>4, <2>5
  <2>8. j - 1 \in Bit
    BY <2>5, <2>6 DEF Bit
  <2> QED BY <2>5, <2>6, <2>7, <2>8 DEF N
<1>3. z \in 0 .. 29
  BY <1>1, CtzBits DEF Bit
<1>4. s \in Nat /\ s <= z /\ s <= j - 1
  <2>1. s = Min({j - 1, z})
    BY DEF Skip
  <2>2. z \in Nat /\ j - 1 \in Nat
    BY <1>2, <1>3
  <2> HIDE DEF j, z, s
  <2> QED BY <2>1, <2>2, MinOfTwo
<1> HIDE DEF j, z, s
<1>5. s \in Bit /\ s \in 0 .. 30 /\ (j - 1) \in s .. 30 /\ s \in 0 .. z /\ j - 1 \in 0 .. 30
  BY <1>2, <1>3, <1>4 DEF Bit
<1>6. Pow2[s] <= Pow2[j - 1] /\ Pow2[s] \in Nat \ {0} /\ Pow2[j - 1] \in Nat
  BY <1>5, PowMonotone, Powers
<1>7. c - Pow2[s] \in t .. c - 1
  BY <1>1, <1>2, <1>6
<1> QED BY <1>5, <1>7 DEF s, z

\* A pointer is told apart from other words.
LEMMA PointerWord ==
  /\ \A h : <<h>> \notin Plain /\ <<h>>[1] = h
  /\ Number \subseteq Nat /\ Block \subseteq Number /\ Corrupt \notin Number /\ Corrupt \notin Block
<1>1. ASSUME NEW h PROVE <<h>> \notin Plain /\ <<h>>[1] = h
  <2>1. Len(<<h>>) = 1
    OBVIOUS
  <2>2. Len(Erased) = 0 /\ Len(Spoilt) = 2
    BY DEF Erased, Spoilt
  <2>3. \A w \in Data : Len(w) = 2
    BY DEF Data
  <2> DEFINE w == <<h>>
  <2>4. Len(w) = 1
    BY <2>1
  <2> HIDE DEF w
  <2>5. w # Erased /\ w # Spoilt /\ w \notin Data
    BY <2>2, <2>3, <2>4
  <2>6. w \notin Plain
    BY <2>5 DEF Plain
  <2> QED BY <2>6 DEF w
<1>2. \A w \in Plain : AsBlock[w] \in Nat
  BY FileAssumption
<1>3. Block \subseteq Nat
  BY FileAssumption DEF Block
<1>4. Number \subseteq Nat /\ Block \subseteq Number
  BY <1>2, <1>3 DEF Number
<1>5. Corrupt \notin Nat
  BY DEF Corrupt
<1> QED BY <1>1, <1>3, <1>4, <1>5

Content == [0 .. BlockWords - 1 -> Word]

WordsType == words \in [Block -> Content]

\* What is read as a pointer is a block number.
LEMMA PtrNumber ==
  ASSUME WordsType, NEW h, NEW k \in Nat, Readable(h, k)
  PROVE  Ptr(h, k) \in Number
<1>1. words[h][k] \in Word
  <2>1. h \in Block /\ k \in 0 .. BlockWords - 1
    BY Sizes DEF Readable
  <2> QED BY <2>1 DEF WordsType, Content
<1>2. CASE words[h][k] \in Plain
  BY <1>2 DEF Ptr, Number
<1>3. CASE words[h][k] \notin Plain
  <2>1. PICK x \in Number : words[h][k] = <<x>>
    BY <1>1, <1>3 DEF Word, Pointer
  <2> QED BY <1>3, <2>1, PointerWord DEF Ptr
<1> QED BY <1>2, <1>3

(* The recursion of lfs_ctz_find().                                        *)
FindStep(f, c, t) ==
  f[c] = [h \in Number |->
           IF c <= t THEN h
           ELSE IF ~Readable(h, Skip(c, t)) THEN Corrupt
           ELSE f[c - Pow2[Skip(c, t)]][Ptr(h, Skip(c, t))]]

\* lfs_ctz_find() satisfies it.
LEMMA FindFunction ==
  ASSUME WordsType, NEW chain, NEW pos, lfs_ctz_index(pos) \in Nat
  PROVE  \E find : /\ \A c \in Index : FindStep(find, c, lfs_ctz_index(pos))
                   /\ lfs_ctz_find(chain, pos) =
                        find[lfs_ctz_index(chain.size - 1)][chain.head]
<1> DEFINE t == lfs_ctz_index(pos)
           N == Pow2[29] - 1
           T == [Number -> Number \cup {Corrupt}]
           C == {c \in 0 .. N : c > t}
           skip == [c \in 0 .. N |-> Skip(c, t)]
           base == [c \in 0 .. N |-> [h \in Number |-> h]]
           prev == [c \in 0 .. N |-> c - Pow2[skip[c]]]
           more(s, m) == [h \in Number |-> IF ~Readable(h, s) THEN Corrupt ELSE m[Ptr(h, s)]]
           g == [c \in C |-> [m \in T |-> more(skip[c], m)]]
           Is(f) == f = [current \in Index |->
                          [h \in Number |->
                            IF current <= t THEN h
                            ELSE IF ~Readable(h, Skip(current, t)) THEN Corrupt
                            ELSE f[current - Pow2[Skip(current, t)]][Ptr(h, Skip(current, t))]]]
           find == CHOOSE f : Is(f)
<1>1. N \in Nat /\ Index = 0 .. N
  <2>1. Pow2[29] \in Nat \ {0}
    BY Powers
  <2> QED BY <2>1 DEF Index
<1> HIDE DEF N
<1>2. \A c \in C : Skip(c, t) \in Bit /\ c - Pow2[Skip(c, t)] \in 0 .. c - 1
  <2> HIDE DEF t
  <2>1. \A c \in C : c \in Index /\ c > t /\ t \in Nat /\ c \in Nat
    BY <1>1 DEF t
  <2> HIDE DEF C
  <2>2. \A c \in C : Skip(c, t) \in Bit /\ c - Pow2[Skip(c, t)] \in t .. c - 1
    BY <2>1, SkipTo
  <2> QED BY <2>1, <2>2
<1>3. \E f \in [0 .. N -> T] : Is(f)
  <2> HIDE DEF t
  <2>1. base \in [0 .. N -> T] /\ C \in SUBSET (0 .. N)
    OBVIOUS
  <2>2. g \in [C -> [T -> T]]
    <3>1. ASSUME NEW c \in C, NEW m \in T PROVE more(skip[c], m) \in T
      <4> DEFINE s == skip[c]
      <4>1. s \in Nat
        BY <1>2 DEF Bit
      <4> HIDE DEF s, C, skip
      <4>2. ASSUME NEW h \in Number
            PROVE  (IF ~Readable(h, s) THEN Corrupt ELSE m[Ptr(h, s)]) \in Number \cup {Corrupt}
        BY <4>1, PtrNumber
      <4>3. more(s, m) \in T
        BY <4>2
      <4> QED BY <4>3 DEF s
    <3> HIDE DEF T, C, skip, more
    <3> QED BY <3>1
  <2>3. \A n \in C : prev[n] \in 0 .. n - 1
    BY <1>2
  <2>4. PICK f \in [0 .. N -> T] : Descends(f, base, prev, g, C, N)
    <3> HIDE DEF base, prev, g, C, T
    <3> QED BY <1>1, <2>1, <2>2, <2>3, RecursionBack
  <2>5. ASSUME NEW c \in 0 .. N
        PROVE  f[c] = [h \in Number |->
                        IF c <= t THEN h
                        ELSE IF ~Readable(h, Skip(c, t)) THEN Corrupt
                        ELSE f[c - Pow2[Skip(c, t)]][Ptr(h, Skip(c, t))]]
    <3>1. f[c] = IF c \in C THEN g[c][f[prev[c]]] ELSE base[c]
      <4> HIDE DEF base, prev, g, C, T
      <4> QED BY <2>4 DEF Descends
    <3>2. CASE c \in C
      <4>1. ~(c <= t)
        BY <3>2 DEF t
      <4>2. prev[c] = c - Pow2[Skip(c, t)] /\ prev[c] \in 0 .. N /\ skip[c] = Skip(c, t)
        <5>1. prev[c] = c - Pow2[Skip(c, t)] /\ prev[c] \in 0 .. c - 1 /\ skip[c] = Skip(c, t)
          BY <2>3, <3>2
        <5> QED BY <1>1, <5>1
      <4>3. f[prev[c]] \in T
        <5> HIDE DEF T, prev
        <5> QED BY <4>2
      <4> DEFINE m == f[prev[c]]
      <4> HIDE DEF prev
      <4>4. g[c][m] = more(skip[c], m)
        <5> HIDE DEF m, T, skip, C, more
        <5> QED BY <3>2, <4>3 DEF m
      <4> HIDE DEF skip, g, base, C, T
      <4> QED BY <3>1, <3>2, <4>1, <4>2, <4>4
    <3>3. CASE c \notin C
      <4>1. c <= t
        BY <1>1, <3>3 DEF t
      <4>2. f[c] = [h \in Number |-> h]
        BY <3>1, <3>3
      <4> QED BY <4>1, <4>2
    <3> QED BY <3>2, <3>3
  <2>6. Is(f)
    <3> HIDE DEF T
    <3>1. f = [c \in 0 .. N |-> f[c]]
      OBVIOUS
    <3>2. [c \in 0 .. N |-> f[c]] = [c \in 0 .. N |-> [h \in Number |->
                        IF c <= t THEN h
                        ELSE IF ~Readable(h, Skip(c, t)) THEN Corrupt
                        ELSE f[c - Pow2[Skip(c, t)]][Ptr(h, Skip(c, t))]]]
      BY <2>5
    <3> QED BY <1>1, <3>1, <3>2
  <2> HIDE DEF Is, T
  <2> QED BY <2>6
<1>4. Is(find)
  <2> HIDE DEF Is
  <2> QED BY <1>3
<1>5. lfs_ctz_find(chain, pos) = find[lfs_ctz_index(chain.size - 1)][chain.head]
  BY DEF lfs_ctz_find
<1>6. \A c \in Index : FindStep(find, c, t)
  <2> HIDE DEF find, t
  <2> QED BY <1>4 DEF FindStep
<1> HIDE DEF find
<1> QED BY <1>5, <1>6

\* The word of a chain is looked for in a block, or the search fails.
LEMMA FindsBlock ==
  ASSUME WordsType, NEW chain, chain.head \in Number, lfs_ctz_index(chain.size - 1) \in Index,
         NEW pos, lfs_ctz_index(pos) \in Nat
  PROVE  lfs_ctz_find(chain, pos) \in Number \cup {Corrupt}
<1> DEFINE t == lfs_ctz_index(pos)
           N == Pow2[29] - 1
           T == [Number -> Number \cup {Corrupt}]
<1>1. N \in Nat /\ Index = 0 .. N
  <2>1. Pow2[29] \in Nat \ {0}
    BY Powers
  <2> QED BY <2>1 DEF Index
<1> HIDE DEF N
<1>2. PICK find : /\ \A c \in Index : FindStep(find, c, t)
                  /\ lfs_ctz_find(chain, pos) = find[lfs_ctz_index(chain.size - 1)][chain.head]
  BY FindFunction
<1> DEFINE S == {c \in 0 .. N : find[c] \in T}
<1>3. ASSUME NEW c \in 0 .. N, \A k \in 0 .. c - 1 : k \in S PROVE c \in S
  <2>1. find[c] = [h \in Number |->
                    IF c <= t THEN h
                    ELSE IF ~Readable(h, Skip(c, t)) THEN Corrupt
                    ELSE find[c - Pow2[Skip(c, t)]][Ptr(h, Skip(c, t))]]
    BY <1>1, <1>2 DEF FindStep
  <2>2. c \in Index /\ c \in Nat /\ t \in Nat
    BY <1>1
  <2> HIDE DEF t
  <2>3. CASE c > t
    <3>1. Skip(c, t) \in Nat /\ c - Pow2[Skip(c, t)] \in t .. c - 1
      BY <2>2, <2>3, SkipTo DEF Bit
    <3> DEFINE d == c - Pow2[Skip(c, t)]
    <3>2. d \in 0 .. c - 1
      <4> HIDE DEF d
      <4>1. d \in t .. c - 1
        BY <3>1 DEF d
      <4> QED BY <2>2, <4>1
    <3>3. find[d] \in T /\ \A h : Readable(h, Skip(c, t)) => Ptr(h, Skip(c, t)) \in Number
      BY <1>3, <3>1, <3>2, PtrNumber
    <3> QED BY <2>1, <2>2, <2>3, <3>3
  <2>4. CASE ~(c > t)
    BY <2>1, <2>2, <2>4
  <2> QED BY <2>3, <2>4
<1>4. lfs_ctz_index(chain.size - 1) \in S
  <2> HIDE DEF S
  <2>1. 0 .. N \subseteq S
    BY <1>1, <1>3, InductionOverAll
  <2> QED BY <1>1, <2>1
<1> QED BY <1>2, <1>4

\* The blocks b[0] .. b[n] are a chain: block i has pointers to the blocks
\* i - 2^k, for each 2^k that divides i.
Linked(w, b, n) ==
  /\ b \in [0 .. n -> Block]
  /\ \A i \in 1 .. n : \A k \in 0 .. lfs_ctz(i) :
       k < BlockWords /\ w[b[i]][k] = <<b[i - Pow2[k]]>>

Blocks(b, n) == {b[i] : i \in 0 .. n}

\* The pointers of a block of a chain, and what is read of them.
LEMMA LinkedPtr ==
  ASSUME NEW n \in Index, NEW b, Linked(words, b, n), NEW i \in 1 .. n, NEW k \in 0 .. lfs_ctz(i)
  PROVE  i - Pow2[k] \in 0 .. i - 1 /\ b[i - Pow2[k]] \in Block
         /\ Ptr(b[i], k) = b[i - Pow2[k]] /\ Readable(b[i], k)
<1>1. i \in 1 .. Pow2[29] /\ n \in Nat
  <2>1. Pow2[29] \in Nat
    BY Powers
  <2> QED BY <2>1 DEF Index
<1>2. k \in Bit /\ \E m \in Nat \ {0} : i = m * Pow2[k]
  BY <1>1, CtzDivides
<1>3. Pow2[k] \in Nat \ {0}
  BY <1>2, Powers DEF Bit
<1>4. Pow2[k] <= i
  <2> DEFINE p == Pow2[k]
  <2>1. p \in Nat
    BY <1>3
  <2>2. PICK m \in Nat \ {0} : i = m * p
    BY <1>2
  <2> HIDE DEF p
  <2>3. m * p >= p
    BY ONLY <2>1, m \in Nat \ {0}, Z3
  <2> QED BY <2>2, <2>3 DEF p
<1>5. i - Pow2[k] \in 0 .. i - 1 /\ i - Pow2[k] \in 0 .. n
  BY <1>1, <1>3, <1>4
<1>6. b[i - Pow2[k]] \in Block
  BY <1>5 DEF Linked
<1>7. words[b[i]][k] = <<b[i - Pow2[k]]>> /\ k < BlockWords
  BY DEF Linked
<1>8. Readable(b[i], k)
  BY <1>1, <1>7 DEF Linked, Readable
<1>9. Ptr(b[i], k) = b[i - Pow2[k]]
  BY <1>7, PointerWord DEF Ptr
<1> QED BY <1>5, <1>6, <1>8, <1>9

(* lfs_ctz_find() follows a chain to the block of the word.                *)
LEMMA FindIs ==
  ASSUME WordsType, NEW n \in Index, NEW b, Linked(words, b, n),
         NEW chain, lfs_ctz_index(chain.size - 1) = n, chain.head = b[n],
         NEW pos, lfs_ctz_index(pos) \in 0 .. n
  PROVE  lfs_ctz_find(chain, pos) = b[lfs_ctz_index(pos)]
<1> DEFINE t == lfs_ctz_index(pos)
<1>1. n \in Nat /\ t \in Nat /\ t \in 0 .. n /\ \A c \in 0 .. n : c \in Index
  BY Powers DEF Index
<1> HIDE DEF t
<1>2. PICK find : /\ \A c \in Index : FindStep(find, c, t)
                  /\ lfs_ctz_find(chain, pos) = find[n][b[n]]
  BY <1>1, FindFunction DEF t
<1> DEFINE S == {c \in 0 .. n : c >= t => find[c][b[c]] = b[t]}
<1>3. ASSUME NEW c \in 0 .. n, \A k \in 0 .. c - 1 : k \in S PROVE c \in S
  <2>1. SUFFICES ASSUME c >= t PROVE find[c][b[c]] = b[t]
    OBVIOUS
  <2>2. b[c] \in Number
    BY PointerWord DEF Linked
  <2>3. find[c][b[c]] = IF c <= t THEN b[c]
                        ELSE IF ~Readable(b[c], Skip(c, t)) THEN Corrupt
                        ELSE find[c - Pow2[Skip(c, t)]][Ptr(b[c], Skip(c, t))]
    <3>1. FindStep(find, c, t)
      BY <1>1, <1>2
    <3> HIDE DEF S
    <3> QED BY ONLY <2>2, <3>1 DEF FindStep
  <2>4. CASE c = t
    BY <1>1, <2>3, <2>4
  <2>5. CASE c # t
    <3>1. c > t /\ c \in 1 .. n /\ ~(c <= t) /\ c \in Index
      BY <1>1, <2>1, <2>5
    <3> DEFINE s == Skip(c, t)
    <3>2. s \in 0 .. lfs_ctz(c) /\ c - Pow2[s] \in t .. c - 1
      BY <1>1, <3>1, SkipTo
    <3> HIDE DEF s
    <3>3. Ptr(b[c], s) = b[c - Pow2[s]] /\ Readable(b[c], s)
      BY <3>1, <3>2, LinkedPtr
    <3> DEFINE d == c - Pow2[s]
    <3>4. d \in t .. c - 1
      BY <3>2
    <3> HIDE DEF d
    <3>5. d \in 0 .. c - 1 /\ d >= t
      BY <1>1, <3>4
    <3>6. d \in S
      BY <1>3, <3>5
    <3>7. find[c][b[c]] = find[d][b[d]]
      BY <2>3, <3>1, <3>3 DEF s, d
    <3> QED BY <3>5, <3>6, <3>7
  <2> QED BY <2>4, <2>5
<1>4. n \in S
  <2> HIDE DEF S
  <2>1. 0 .. n \subseteq S
    BY <1>1, <1>3, InductionOverAll
  <2> QED BY <1>1, <2>1
<1> QED BY <1>1, <1>2, <1>4 DEF t

(* The recursion of lfs_ctz_traverse().                                    *)
WalkStep(w, i) ==
  w[i] = [h \in Number |->
           IF i = 0 THEN {h}
           ELSE IF ~Readable(h, 1) THEN {h, Corrupt}
           ELSE IF i % 2 = 1 THEN {h} \cup w[i - 1][Ptr(h, 0)]
           ELSE {h, Ptr(h, 0)} \cup w[i - 2][Ptr(h, 1)]]

\* lfs_ctz_traverse() satisfies it.
LEMMA WalkFunction ==
  ASSUME WordsType, NEW chain, chain.size # 0
  PROVE  \E walk : /\ \A i \in Index : WalkStep(walk, i)
                   /\ lfs_ctz_traverse(chain) =
                        walk[lfs_ctz_index(chain.size - 1)][chain.head]
<1> DEFINE N == Pow2[29] - 1
           T == [Number -> SUBSET (Number \cup {Corrupt})]
           C == 1 .. N
           base == [i \in 0 .. N |-> [h \in Number |-> {h}]]
           prev == [i \in 0 .. N |-> IF i % 2 = 1 THEN i - 1 ELSE i - 2]
           more(i, m) == [h \in Number |-> IF ~Readable(h, 1) THEN {h, Corrupt}
                                           ELSE IF i % 2 = 1 THEN {h} \cup m[Ptr(h, 0)]
                                           ELSE {h, Ptr(h, 0)} \cup m[Ptr(h, 1)]]
           g == [i \in C |-> [m \in T |-> more(i, m)]]
           Is(f) == f = [index \in Index |->
                          [h \in Number |->
                            IF index = 0 THEN {h}
                            ELSE IF ~Readable(h, 1) THEN {h, Corrupt}
                            ELSE IF index % 2 = 1 THEN {h} \cup f[index - 1][Ptr(h, 0)]
                            ELSE {h, Ptr(h, 0)} \cup f[index - 2][Ptr(h, 1)]]]
           walk == CHOOSE f : Is(f)
<1>1. N \in Nat /\ Index = 0 .. N
  <2>1. Pow2[29] \in Nat \ {0}
    BY Powers
  <2> QED BY <2>1 DEF Index
<1> HIDE DEF N
<1>2. \E f \in [0 .. N -> T] : Is(f)
  <2>1. base \in [0 .. N -> T] /\ C \in SUBSET (0 .. N)
    OBVIOUS
  <2>2. g \in [C -> [T -> T]]
    <3>1. ASSUME NEW i \in C, NEW m \in T PROVE more(i, m) \in T
      <4>1. \A h : Readable(h, 1) => Ptr(h, 0) \in Number /\ Ptr(h, 1) \in Number
        <5>1. \A h : Readable(h, 1) => Readable(h, 0)
          BY Sizes DEF Readable
        <5> QED BY <5>1, PtrNumber
      <4>2. ASSUME NEW h \in Number
            PROVE (IF ~Readable(h, 1) THEN {h, Corrupt}
                   ELSE IF i % 2 = 1 THEN {h} \cup m[Ptr(h, 0)]
                   ELSE {h, Ptr(h, 0)} \cup m[Ptr(h, 1)]) \in SUBSET (Number \cup {Corrupt})
        BY <4>1
      <4> QED BY <4>2
    <3> HIDE DEF T, C, more
    <3> QED BY <3>1
  <2>3. ASSUME NEW i \in C PROVE prev[i] \in 0 .. i - 1 /\ prev[i] \in 0 .. N
    <3>1. i \in Nat /\ i # 0 /\ i \in 0 .. N
      OBVIOUS
    <3>2. CASE i % 2 = 1
      BY <1>1, <3>1, <3>2
    <3>3. CASE i % 2 # 1
      <4>1. i # 1
        BY <3>3
      <4> QED BY <1>1, <3>1, <3>3, <4>1
    <3> QED BY <3>2, <3>3
  <2>4. PICK f \in [0 .. N -> T] : Descends(f, base, prev, g, C, N)
    <3> HIDE DEF base, prev, g, C, T
    <3> QED BY <1>1, <2>1, <2>2, <2>3, RecursionBack
  <2>5. ASSUME NEW i \in 0 .. N
        PROVE  f[i] = [h \in Number |->
                        IF i = 0 THEN {h}
                        ELSE IF ~Readable(h, 1) THEN {h, Corrupt}
                        ELSE IF i % 2 = 1 THEN {h} \cup f[i - 1][Ptr(h, 0)]
                        ELSE {h, Ptr(h, 0)} \cup f[i - 2][Ptr(h, 1)]]
    <3>1. f[i] = IF i \in C THEN g[i][f[prev[i]]] ELSE base[i]
      <4> HIDE DEF base, prev, g, C, T
      <4> QED BY <2>4 DEF Descends
    <3>2. CASE i \in C
      <4>1. i # 0
        BY <3>2
      <4>2. prev[i] = (IF i % 2 = 1 THEN i - 1 ELSE i - 2) /\ prev[i] \in 0 .. N
        BY <2>3, <3>2
      <4> DEFINE m == f[prev[i]]
      <4> HIDE DEF prev
      <4>3. m \in T
        <5> HIDE DEF T
        <5> QED BY <4>2
      <4> HIDE DEF m
      <4>4. g[i][m] = more(i, m)
        <5> HIDE DEF T, C, more
        <5> QED BY <3>2, <4>3
      <4> HIDE DEF g, base, C, T
      <4>5. f[i] = more(i, m)
        BY <3>1, <3>2, <4>4 DEF m
      <4>6. CASE i % 2 = 1
        <5>1. m = f[i - 1]
          BY <4>2, <4>6 DEF m
        <5> QED BY <4>1, <4>5, <4>6, <5>1
      <4>7. CASE i % 2 # 1
        <5>1. m = f[i - 2]
          BY <4>2, <4>7 DEF m
        <5> QED BY <4>1, <4>5, <4>7, <5>1
      <4> QED BY <4>6, <4>7
    <3>3. CASE i \notin C
      <4>1. i = 0
        BY <1>1, <3>3
      <4>2. f[i] = [h \in Number |-> {h}]
        BY <3>1, <3>3
      <4> QED BY <4>1, <4>2
    <3> QED BY <3>2, <3>3
  <2>6. Is(f)
    <3> HIDE DEF T
    <3>1. f = [i \in 0 .. N |-> f[i]]
      OBVIOUS
    <3>2. [i \in 0 .. N |-> f[i]] =
            [i \in 0 .. N |-> [h \in Number |->
               IF i = 0 THEN {h}
               ELSE IF ~Readable(h, 1) THEN {h, Corrupt}
               ELSE IF i % 2 = 1 THEN {h} \cup f[i - 1][Ptr(h, 0)]
               ELSE {h, Ptr(h, 0)} \cup f[i - 2][Ptr(h, 1)]]]
      BY <2>5
    <3> QED BY <1>1, <3>1, <3>2
  <2> HIDE DEF Is, T
  <2> QED BY <2>6
<1>3. Is(walk)
  <2> HIDE DEF Is
  <2> QED BY <1>2
<1>4. lfs_ctz_traverse(chain) = walk[lfs_ctz_index(chain.size - 1)][chain.head]
  BY DEF lfs_ctz_traverse
<1>5. \A i \in Index : WalkStep(walk, i)
  <2> HIDE DEF walk
  <2> QED BY <1>3 DEF WalkStep
<1> HIDE DEF walk
<1> QED BY <1>4, <1>5

\* Powers and bits of the first two pointers.
LEMMA FirstPointers ==
  /\ Pow2[0] = 1 /\ Pow2[1] = 2
  /\ \A i \in 1 .. Pow2[29] : 0 \in 0 .. lfs_ctz(i) /\ (i % 2 # 1 => 1 \in 0 .. lfs_ctz(i))
<1>1. Pow2[0] = 1 /\ Pow2[1] = 2 /\ Pow2[29] \in Nat
  BY Powers
<1>2. ASSUME NEW i \in 1 .. Pow2[29] PROVE lfs_ctz(i) \in Nat
  BY CtzBits DEF Bit
<1>3. ASSUME NEW i \in 1 .. Pow2[29], i % 2 # 1 PROVE 1 <= lfs_ctz(i)
  <2>1. i \in Nat \ {0}
    BY <1>1
  <2> DEFINE m == i \div 2
  <2>2. i = m * 2 /\ m \in Nat \ {0}
    BY <1>3, <2>1
  <2>3. 1 \in Bit
    BY DEF Bit
  <2> HIDE DEF m
  <2>4. i = m * Pow2[1]
    BY <1>1, <2>2
  <2> QED BY <2>2, <2>3, <2>4, CtzOfMultiple
<1> QED BY <1>1, <1>2, <1>3

(* lfs_ctz_traverse() visits the blocks of a chain.                        *)
LEMMA TraverseIs ==
  ASSUME WordsType, NEW n \in Index, NEW b, Linked(words, b, n),
         NEW chain, chain.size # 0, lfs_ctz_index(chain.size - 1) = n, chain.head = b[n]
  PROVE  lfs_ctz_traverse(chain) = Blocks(b, n)
<1>1. n \in Nat /\ (\A c \in 0 .. n : c \in Index) /\ \A c \in 1 .. n : c \in 1 .. Pow2[29]
  BY Powers DEF Index
<1>2. PICK walk : /\ \A i \in Index : WalkStep(walk, i)
                  /\ lfs_ctz_traverse(chain) = walk[n][b[n]]
  BY <1>1, WalkFunction
<1> DEFINE S == {c \in 0 .. n : walk[c][b[c]] = Blocks(b, c)}
<1>3. ASSUME NEW c \in 0 .. n, \A k \in 0 .. c - 1 : k \in S PROVE c \in S
  <2>1. b[c] \in Number /\ Readable(b[c], 1)
    <3> HIDE DEF S
    <3>1. b[c] \in Block
      BY DEF Linked
    <3>2. b[c] \in Number
      BY <3>1, PointerWord
    <3> QED BY <3>1, <3>2, Sizes DEF Readable
  <2>2. walk[c][b[c]] =
          IF c = 0 THEN {b[c]}
          ELSE IF ~Readable(b[c], 1) THEN {b[c], Corrupt}
          ELSE IF c % 2 = 1 THEN {b[c]} \cup walk[c - 1][Ptr(b[c], 0)]
          ELSE {b[c], Ptr(b[c], 0)} \cup walk[c - 2][Ptr(b[c], 1)]
    <3>1. WalkStep(walk, c)
      BY <1>1, <1>2
    <3> HIDE DEF S
    <3> QED BY ONLY <2>1, <3>1 DEF WalkStep
  <2>3. CASE c = 0
    <3>1. Blocks(b, c) = {b[c]}
      BY <2>3 DEF Blocks
    <3> QED BY <2>2, <2>3, <3>1
  <2>4. CASE c # 0
    <3>1. c \in 1 .. n /\ c - 1 \in 0 .. c - 1 /\ c \in 1 .. Pow2[29]
      BY <1>1, <2>4
    <3>2. 0 \in 0 .. lfs_ctz(c)
      BY <3>1, FirstPointers
    <3>3. Ptr(b[c], 0) = b[c - Pow2[0]]
      BY <3>1, <3>2, LinkedPtr
    <3>4. Ptr(b[c], 0) = b[c - 1]
      BY <3>3, FirstPointers
    <3>5. Blocks(b, c) = {b[c]} \cup Blocks(b, c - 1)
      <4>1. 0 .. c = {c} \cup (0 .. c - 1)
        BY <3>1
      <4> QED BY <4>1 DEF Blocks
    <3>6. CASE c % 2 = 1
      <4>1. c - 1 \in S
        BY <1>3, <3>1
      <4> QED BY <2>1, <2>2, <2>4, <3>4, <3>5, <3>6, <4>1
    <3>7. CASE c % 2 # 1
      <4>1. c # 1 /\ c - 2 \in 0 .. c - 1
        BY <3>1, <3>7
      <4>2. 1 \in 0 .. lfs_ctz(c)
        BY <3>1, <3>7, FirstPointers
      <4>3. Ptr(b[c], 1) = b[c - Pow2[1]]
        BY <3>1, <4>2, LinkedPtr
      <4>4. Ptr(b[c], 1) = b[c - 2]
        BY <4>3, FirstPointers
      <4>5. Blocks(b, c - 1) = {b[c - 1]} \cup Blocks(b, c - 2)
        <5>1. 0 .. c - 1 = {c - 1} \cup (0 .. c - 2)
          BY <3>1, <4>1
        <5> QED BY <5>1 DEF Blocks
      <4>6. c - 2 \in S
        BY <1>3, <4>1
      <4>7. walk[c - 2][b[c - 2]] = Blocks(b, c - 2)
        BY <4>6
      <4> HIDE DEF S
      <4>8. walk[c][b[c]] = {b[c], b[c - 1]} \cup Blocks(b, c - 2)
        BY <2>1, <2>2, <2>4, <3>4, <3>7, <4>4, <4>7
      <4>9. walk[c][b[c]] = Blocks(b, c)
        BY <3>5, <4>5, <4>8
      <4> QED BY <4>9 DEF S
    <3> QED BY <3>6, <3>7
  <2> QED BY <2>3, <2>4
<1>4. n \in S
  <2> HIDE DEF S
  <2>1. 0 .. n \subseteq S
    BY <1>1, <1>3, InductionOverAll
  <2> QED BY <1>1, <2>1
<1> QED BY <1>2, <1>4

(* lfs_ctz_extend() reads the pointers of the next block from the chain.   *)
LEMMA NextPointers ==
  ASSUME NEW n \in Index, NEW b, Linked(words, b, n), NEW f, f[0] = b[n],
         n + 1 <= Pow2[29],
         \A k \in 1 .. lfs_ctz(n + 1) :
           f[k] = IF ~Readable(f[k - 1], k - 1) THEN Corrupt ELSE Ptr(f[k - 1], k - 1)
  PROVE  \A k \in 0 .. lfs_ctz(n + 1) : f[k] = b[(n + 1) - Pow2[k]]
<1> DEFINE y == n + 1
           z == lfs_ctz(y)
           S == {k \in 0 .. z : f[k] = b[y - Pow2[k]]}
<1>1. n \in Nat /\ y \in 1 .. Pow2[29] /\ Pow2[29] \in Nat /\ y \in Nat
  BY Powers DEF Index
<1>2. z \in 0 .. 29
  <2> HIDE DEF y
  <2> QED BY <1>1, CtzBits DEF Bit
<1>3. 0 \in S
  <2>1. y - Pow2[0] = n
    BY <1>1, FirstPointers
  <2> QED BY <1>2, <2>1
<1>4. ASSUME NEW k \in 0 .. z - 1, k \in S PROVE k + 1 \in S
  <2> DEFINE i == k + 1
             p == Pow2[k]
             a == y - p
  <2>1. i \in 1 .. z /\ i - 1 = k /\ i \in 0 .. z /\ k \in Bit /\ i \in 1 .. 30 /\ k \in 0 .. 30
    BY <1>2 DEF Bit
  <2>2. f[i] = IF ~Readable(f[k], k) THEN Corrupt ELSE Ptr(f[k], k)
    <3>1. i \in 1 .. lfs_ctz(n + 1)
      BY <2>1
    <3> HIDE DEF S
    <3> QED BY <2>1, <3>1
  <2> HIDE DEF z, y, i
  <2>3. p \in Nat \ {0} /\ Pow2[i] = 2 * p
    BY <2>1, Powers
  <2>4. PICK m \in Nat \ {0} : y = m * Pow2[i]
    BY <1>1, <2>1, CtzDivides DEF z
  <2> DEFINE q == 2 * m - 1
  <2>5. q \in Nat \ {0} /\ a = q * p /\ m * (2 * p) >= 2 * p
    <3> HIDE DEF p
    <3>1. y = m * (2 * p)
      BY <2>3, <2>4
    <3>2. q * p = m * (2 * p) - p /\ m * (2 * p) >= 2 * p
      BY ONLY <2>3, m \in Nat \ {0}, Z3 DEF q
    <3> QED BY <3>1, <3>2
  <2>6. a \in 1 .. n /\ a \in 1 .. Pow2[29] /\ a - p = y - Pow2[i]
    <3>1. y >= 2 * p /\ y = n + 1
      BY <2>3, <2>4, <2>5 DEF y
    <3> QED BY <1>1, <2>3, <3>1
  <2> HIDE DEF q, a
  <2>7. k <= lfs_ctz(a)
    BY <2>1, <2>5, <2>6, CtzOfMultiple DEF p
  <2>8. lfs_ctz(a) \in Nat
    BY <2>6, CtzBits DEF Bit
  <2>9. k \in 0 .. lfs_ctz(a)
    BY <2>1, <2>7, <2>8
  <2>10. Ptr(b[a], k) = b[a - Pow2[k]] /\ Readable(b[a], k)
    BY <2>6, <2>9, LinkedPtr
  <2>11. f[k] = b[a]
    BY <1>4 DEF a, y, p
  <2>12. f[i] = b[y - Pow2[i]]
    BY <2>2, <2>6, <2>10, <2>11 DEF p
  <2> QED BY <2>1, <2>12 DEF z, y, i
<1>5. 0 .. z \subseteq S
  <2> HIDE DEF S, z
  <2> QED BY <1>2, <1>3, <1>4, InductionUpTo
<1>6. \A k \in 0 .. z : f[k] = b[y - Pow2[k]]
  <2> HIDE DEF z, y
  <2> QED BY <1>5
<1> HIDE DEF S
<1> QED BY ONLY <1>6

-----------------------------------------------------------------------------
(* The invariant.                                                          *)

FreeList == [off : Block, size : Nat, i : Nat, ack : Nat, used : SUBSET Nat]

FreeType ==
  /\ free \in FreeList
  /\ free.i <= free.size /\ free.size - free.i <= free.ack /\ free.ack <= BlockCount

OpenFile ==
  [block : Number, off : 0 .. BlockWords, pos : 0 .. FileWords, ctz : Chain,
   inline : BOOLEAN, writing : BOOLEAN, dirty : BOOLEAN, erred : BOOLEAN]

OpenType == file \in OpenFile

RestType ==
  /\ entry \in Chain /\ nblock \in Block
  /\ phase \in {"closed", "idle", "write", "alloc", "got", "stuck", "again", "hung"}
  /\ why \in {"extend", "relocate"}
  /\ todo \in 0 .. RecordWords /\ sent \in 0 .. MaxRecords
  /\ failed \in BOOLEAN /\ log \in Seq(Data)

(* The end of the file: what is left of the record still fits, a file that *)
(* has a chain and is not being written ends with it, and a block more is  *)
(* asked for only when there is one to extend.  The block that is written  *)
(* or moved is one of the volume.                                          *)
Place ==
  /\ file.inline => file.pos = 0 /\ file.off = 0 /\ ~file.writing
  /\ file.off > 0 => file.pos > 0
  /\ ~file.inline /\ ~file.writing => file.pos > 0 /\ file.pos = file.ctz.size
  /\ file.pos + todo <= sent * RecordWords
  /\ phase = "write" => ~file.inline
  /\ phase \in {"alloc", "got"} /\ why = "extend" => file.pos > 0
  /\ phase \in {"alloc", "got"} /\ why = "relocate" => (file.inline \/ file.writing)
  /\ (file.inline \/ file.writing) => file.block \in Block
  /\ IF phase \in {"closed", "idle", "stuck"} THEN todo = 0 ELSE sent > 0

\* Word k of an upload.
WordAt(k) == <<((k - 1) \div RecordWords) + 1, ((k - 1) % RecordWords) + 1>>

(* As long as no write has failed, the log is all that was sent, but for   *)
(* what is left of the record, and a file with a part of the record in it  *)
(* is marked as being written: closing it commits it.                      *)
Sent ==
  phase # "closed" /\ ~failed =>
    /\ ~file.erred
    /\ Len(log) = sent * RecordWords - todo
    /\ \A k \in 1 .. Len(log) : log[k] = WordAt(k)
    /\ todo < RecordWords /\ sent > 0 => file.writing

FileInv == FreeType /\ OpenType /\ WordsType /\ RestType /\ Place /\ Sent

-----------------------------------------------------------------------------
(* What the actions begin with and put into the variables.                 *)

\* The records that were sent, in words.
LEMMA SentWords ==
  ASSUME NEW n \in 0 .. MaxRecords
  PROVE  /\ n * RecordWords \in 0 .. FileWords
         /\ (n + 1) * RecordWords = n * RecordWords + RecordWords
         /\ n > 0 => (n - 1) * RecordWords = n * RecordWords - RecordWords
<1>1. MaxRecords \in Nat /\ RecordWords \in Nat \ {0} /\ n \in Nat /\ n <= MaxRecords
  BY Sizes
<1>2. n * RecordWords \in Nat /\ (n + 1) * RecordWords = n * RecordWords + RecordWords
  BY <1>1, Z3
<1>3. (n - 1) * RecordWords = n * RecordWords - RecordWords
  BY <1>1, Z3
<1>4. n * RecordWords <= MaxRecords * RecordWords
  BY <1>1, Z3
<1>5. MaxRecords * RecordWords = FileWords /\ FileWords \in Nat
  BY Sizes DEF FileWords
<1> QED BY <1>2, <1>3, <1>4, <1>5

\* What actions put into the variables has their types.
LEMMA NewFileType == NewFile \in OpenFile /\ NewFile.block \in Block /\ Empty \in Chain
<1>1. 0 \in Block /\ 0 \in 0 .. BlockWords /\ 0 \in 0 .. FileWords
  BY Sizes DEF Block
<1>2. Empty \in Chain
  BY <1>1 DEF Empty, Chain, FileWords
<1> QED BY <1>1, <1>2, PointerWord DEF NewFile, OpenFile

\* A block whose words are spoilt, and one that another one is copied to.
LEMMA Contents ==
  ASSUME WordsType
  PROVE  /\ [i \in 0 .. BlockWords - 1 |-> Spoilt] \in Content
         /\ \A b \in Block, n \in Int :
              [i \in 0 .. BlockWords - 1 |-> IF i < n THEN words[b][i] ELSE Erased] \in Content
<1>1. Spoilt \in Word /\ Erased \in Word
  BY DEF Word, Plain
<1>2. ASSUME NEW b \in Block, NEW n \in Int
      PROVE [i \in 0 .. BlockWords - 1 |-> IF i < n THEN words[b][i] ELSE Erased] \in Content
  <2>1. \A i \in 0 .. BlockWords - 1 : words[b][i] \in Word
    BY DEF WordsType, Content
  <2> QED BY <1>1, <2>1 DEF Content
<1> QED BY <1>1, <1>2 DEF Content

LEMMA StaleType == Stale \in [Block -> Content]
<1>1. Spoilt \in Word
  BY DEF Word, Plain
<1> QED BY <1>1 DEF Stale, Content

LEMMA DropType ==
  ASSUME NEW off \in Block
  PROVE  /\ lfs_alloc_drop(off) \in FreeList
         /\ lfs_alloc_drop(off).i = 0 /\ lfs_alloc_drop(off).size = 0
         /\ lfs_alloc_drop(off).ack = BlockCount
BY Sizes DEF lfs_alloc_drop, FreeList

\* After lfs_alloc_ack() all blocks may be looked at again.
LEMMA AckType ==
  ASSUME FreeType, free' = lfs_alloc_ack
  PROVE  FreeType'
BY Sizes DEF FreeType, FreeList, lfs_alloc_ack

LEMMA NoWords == <<>> \in Seq(Data)
OBVIOUS

\* The invariant holds at first, and each action keeps it.
LEMMA InitInv == FileInit => FileInv
<1> SUFFICES ASSUME FileInit PROVE FileInv
  OBVIOUS
<1> USE DEF FileInit
<1>1. 0 \in Block
  BY Sizes DEF Block
<1>2. FreeType
  BY <1>1, Sizes, DropType DEF FreeType
<1>3. OpenType /\ WordsType
  BY NewFileType, StaleType DEF OpenType, WordsType
<1>4. RestType
  <2>1. todo \in 0 .. RecordWords /\ sent \in 0 .. MaxRecords
    BY Sizes
  <2>2. log \in Seq(Data) /\ entry \in Chain
    BY NoWords, NewFileType
  <2> QED BY <1>1, <2>1, <2>2 DEF RestType
<1>5. Place
  BY NewFileType, SentWords, Sizes DEF Place, NewFile
<1> QED BY <1>2, <1>3, <1>4, <1>5 DEF FileInv, Sent

LEMMA FopenInv ==
  ASSUME FileInv, Fopen
  PROVE  FileInv'
<1> USE DEF Fopen
<1>1. FreeType'
  <2>1. PICK off \in Block : free' = lfs_alloc_drop(off)
    OBVIOUS
  <2> QED BY <2>1, Sizes, DropType DEF FreeType
<1>2. OpenType' /\ WordsType'
  BY NewFileType, StaleType DEF OpenType, WordsType
<1>3. RestType'
  <2>1. sent' \in 0 .. MaxRecords
    BY Sizes
  <2>2. log' \in Seq(Data) /\ entry' \in Chain
    BY NoWords, NewFileType
  <2> QED BY <2>1, <2>2 DEF RestType, FileInv
<1>4. todo' = 0
  BY DEF FileInv, Place
<1>5. Place'
  BY <1>4, NewFileType, SentWords, Sizes DEF Place, NewFile
<1>6. Sent'
  <2>1. sent' * RecordWords = 0 /\ Len(log') = 0
    BY Sizes
  <2> QED BY <1>4, <2>1 DEF Sent, NewFile
<1> QED BY <1>1, <1>2, <1>3, <1>5, <1>6 DEF FileInv

\* lfs_file_rewind() and LFS_O_APPEND leave the position where it is.
LEMMA RewoundFile ==
  ASSUME OpenType, Place
  PROVE  /\ Rewound \in OpenFile /\ Rewound.pos = file.pos /\ Rewound.off = file.off
         /\ Rewound.inline = file.inline /\ Rewound.erred = file.erred
         /\ ~file.inline /\ ~Rewound.writing => file.pos > 0 /\ Rewound.ctz.size = file.pos
         /\ file.inline => ~Rewound.writing
         /\ Rewound.block = file.block /\ (Rewound.writing => file.writing)
<1> DEFINE flushed == lfs_file_flush
<1>1. (file.writing => Growing \in Chain) /\ Growing.size = file.pos
  BY DEF Growing, Chain, OpenType, OpenFile, FileWords, Place
<1>2. /\ flushed \in OpenFile /\ flushed.pos = file.pos /\ flushed.off = file.off
      /\ flushed.inline = file.inline /\ flushed.erred = file.erred /\ ~flushed.writing
      /\ flushed.block = file.block
      /\ file.writing => flushed.ctz = Growing
      /\ ~file.writing => flushed = file
  BY <1>1 DEF lfs_file_flush, OpenType, OpenFile
<1>3. CASE file.pos = 0
  <2>1. Rewound = file
    BY <1>3 DEF Rewound
  <2> QED BY <1>3, <2>1 DEF OpenType, OpenFile, Place
<1>4. CASE file.pos # 0
  <2>1. Rewound = [flushed EXCEPT !.pos = flushed.ctz.size] /\ ~file.inline
    BY <1>4 DEF Rewound, Place
  <2>2. flushed.ctz.size = file.pos /\ file.pos > 0 /\ file.pos \in 0 .. FileWords
    <3>1. ~file.writing => file.pos = file.ctz.size
      BY <2>1 DEF Place
    <3>2. file.pos \in 0 .. FileWords
      BY DEF OpenType, OpenFile
    <3> HIDE DEF flushed
    <3> QED BY <1>1, <1>2, <1>4, <3>1, <3>2, Sizes DEF OpenType, OpenFile
  <2> HIDE DEF flushed
  <2> QED BY <1>2, <2>1, <2>2 DEF OpenFile
<1> QED BY <1>3, <1>4

-----------------------------------------------------------------------------
(* The actions keep the invariant.                                         *)

LEMMA ExtWriteInv ==
  ASSUME FileInv, ExtWrite
  PROVE  FileInv'
<1>1. /\ FreeType /\ OpenType /\ WordsType /\ RestType /\ Place /\ Sent
      /\ phase = "idle" /\ sent < MaxRecords /\ sent' = sent + 1 /\ todo' = RecordWords
      /\ file' = [Rewound EXCEPT !.off = IF file.inline THEN file.pos ELSE @]
      /\ failed' = failed /\ log' = log /\ entry' = entry /\ nblock' = nblock
      /\ words' = words
      /\ \/ file.inline /\ phase' = "alloc" /\ why' = "relocate" /\ free' = lfs_alloc_ack
         \/ ~file.inline /\ phase' = "write" /\ why' = why /\ free' = free
  BY DEF FileInv, ExtWrite
<1>2. FreeType'
  BY <1>1, AckType DEF FreeType
<1>3. /\ Rewound \in OpenFile /\ Rewound.pos = file.pos /\ Rewound.off = file.off
      /\ Rewound.inline = file.inline /\ Rewound.erred = file.erred
      /\ ~file.inline /\ ~Rewound.writing => file.pos > 0 /\ Rewound.ctz.size = file.pos
      /\ file.inline => ~Rewound.writing
      /\ Rewound.block = file.block /\ (Rewound.writing => file.writing)
  BY <1>1, RewoundFile
<1>4. file' \in OpenFile /\ file'.pos = file.pos /\ file'.off = file.off
      /\ file'.inline = file.inline /\ file'.erred = file.erred
      /\ file'.writing = Rewound.writing /\ file'.ctz = Rewound.ctz /\ file'.block = file.block
  <2>1. file.inline => file.pos = file.off
    BY <1>1 DEF Place
  <2>2. file' = [Rewound EXCEPT !.off = Rewound.off]
    BY <1>1, <1>3, <2>1
  <2> HIDE DEF Rewound
  <2> QED BY <1>3, <2>2 DEF OpenFile
<1>5. WordsType' /\ OpenType' /\ RestType'
  <2>1. WordsType' /\ OpenType'
    BY <1>1, <1>4 DEF WordsType, OpenType
  <2>2. todo' \in 0 .. RecordWords /\ sent' \in 0 .. MaxRecords
    BY <1>1, Sizes DEF RestType
  <2>3. RestType'
    BY <1>1, <2>2 DEF RestType
  <2> QED BY <2>1, <2>3
<1>6. /\ sent * RecordWords \in Nat
      /\ (sent + 1) * RecordWords = sent * RecordWords + RecordWords
  BY <1>1, SentWords, Sizes DEF RestType
<1>7. Place'
  <2>1. file'.pos + todo' <= sent' * RecordWords
    <3>1. file.pos \in Nat /\ file.pos + 0 <= sent * RecordWords /\ RecordWords \in Nat
      BY <1>1, Sizes DEF Place, OpenType, OpenFile
    <3> QED BY <1>1, <1>4, <1>6, <3>1
  <2>2. sent' > 0
    BY <1>1 DEF RestType
  <2> QED BY <1>1, <1>3, <1>4, <2>1, <2>2 DEF Place
<1>8. Sent'
  <2>1. todo = 0
    BY <1>1 DEF Place
  <2>2. ~failed' => ~file'.erred /\ Len(log') = sent' * RecordWords - todo'
    BY <1>1, <1>4, <1>6, <2>1, Sizes DEF Sent
  <2>3. ~failed' => \A k \in 1 .. Len(log') : log'[k] = WordAt(k)
    BY <1>1 DEF Sent
  <2>4. ~(todo' < RecordWords)
    BY <1>1, Sizes
  <2> QED BY <2>2, <2>3, <2>4 DEF Sent, WordAt
<1> QED BY <1>2, <1>5, <1>7, <1>8 DEF FileInv

LEMMA ExtWriteStuckInv ==
  ASSUME FileInv, ExtWriteStuck
  PROVE  FileInv'
<1>1. /\ FreeType /\ OpenType /\ WordsType /\ RestType /\ Place /\ Sent
      /\ phase = "stuck" /\ sent < MaxRecords /\ sent' = sent + 1 /\ todo' = RecordWords
      /\ phase' = "again" /\ todo = 0
      /\ UNCHANGED <<words, entry, why, nblock, free, file, log, failed>>
  BY DEF FileInv, ExtWriteStuck, Place
<1>2. FreeType' /\ OpenType' /\ WordsType'
  BY <1>1 DEF FreeType, OpenType, WordsType
<1>3. RestType' /\ sent' > 0
  <2>1. todo' \in 0 .. RecordWords /\ sent' \in 0 .. MaxRecords /\ sent' > 0
    BY <1>1, Sizes DEF RestType
  <2> QED BY <1>1, <2>1 DEF RestType
<1>4. /\ sent * RecordWords \in Nat
      /\ (sent + 1) * RecordWords = sent * RecordWords + RecordWords
  BY <1>1, SentWords, Sizes DEF RestType
<1>5. Place'
  <2>1. file'.pos + todo' <= sent' * RecordWords
    <3>1. file.pos \in Nat /\ file.pos + 0 <= sent * RecordWords /\ RecordWords \in Nat
      BY <1>1, Sizes DEF Place, OpenType, OpenFile
    <3> QED BY <1>1, <1>4, <3>1
  <2> QED BY <1>1, <1>3, <2>1 DEF Place
<1>6. Sent'
  <2>1. ~failed' => ~file'.erred /\ Len(log') = sent' * RecordWords - todo'
    BY <1>1, <1>4, Sizes DEF Sent
  <2>2. ~failed' => \A k \in 1 .. Len(log') : log'[k] = WordAt(k)
    BY <1>1 DEF Sent
  <2>3. ~(todo' < RecordWords)
    BY <1>1, Sizes
  <2> QED BY <2>1, <2>2, <2>3 DEF Sent, WordAt
<1> QED BY <1>2, <1>3, <1>5, <1>6 DEF FileInv

LEMMA FcloseInv ==
  ASSUME FileInv, Fclose
  PROVE  FileInv'
<1>1. /\ FreeType /\ OpenType /\ WordsType /\ RestType /\ Place
      /\ phase' = "closed" /\ phase \in {"idle", "stuck"} /\ file' = NewFile /\ words' = words /\ free' = free
      /\ entry' = entry \/ entry' = lfs_file_flush.ctz
      /\ UNCHANGED <<todo, why, nblock, log, sent, failed>>
  BY DEF FileInv, Fclose
<1>2. FreeType' /\ WordsType' /\ OpenType'
  BY <1>1, NewFileType DEF FreeType, WordsType, OpenType
<1>3. lfs_file_flush.ctz \in Chain
  <2>1. file.writing => Growing \in Chain
    BY <1>1 DEF Growing, Chain, OpenType, OpenFile, FileWords, Place
  <2> QED BY <1>1, <2>1 DEF lfs_file_flush, OpenType, OpenFile
<1>4. RestType'
  BY <1>1, <1>3 DEF RestType
<1>5. Place'
  BY <1>1, NewFileType, SentWords, Sizes DEF Place, NewFile, RestType
<1> QED BY <1>1, <1>2, <1>4, <1>5 DEF FileInv, Sent

LEMMA PowerLossInv ==
  ASSUME FileInv, PowerLoss
  PROVE  FileInv'
<1>1. /\ FreeType /\ OpenType /\ WordsType /\ RestType /\ Place
      /\ phase' = "closed" /\ file' = NewFile /\ todo' = 0
      /\ UNCHANGED <<words, free, entry, why, nblock, log, sent, failed>>
  BY DEF FileInv, PowerLoss
<1>2. FreeType' /\ WordsType' /\ OpenType'
  BY <1>1, NewFileType DEF FreeType, WordsType, OpenType
<1>3. RestType'
  BY <1>1, Sizes DEF RestType
<1>4. Place'
  BY <1>1, NewFileType, SentWords, Sizes DEF Place, NewFile, RestType
<1> QED BY <1>1, <1>2, <1>3, <1>4 DEF FileInv, Sent

LEMMA AllocTakeInv ==
  ASSUME FileInv, AllocTake
  PROVE  FileInv'
<1>1. /\ FreeType /\ OpenType /\ WordsType /\ RestType /\ Place /\ Sent
      /\ phase = "alloc" /\ phase' = "got" /\ Ahead # {}
      /\ nblock' = (free.off + Min(Ahead)) % BlockCount
      /\ UNCHANGED <<words, entry, todo, why, file, log, sent, failed>>
  BY DEF FileInv, AllocTake
<1>2. PICK next \in {Min((Ahead \ {Min(Ahead)}) \cup {free.size})} :
        free' = [free EXCEPT !.i = next, !.ack = @ - (next - free.i)]
  BY DEF AllocTake
<1>3. free \in FreeList /\ free.i \in Nat /\ free.size \in Nat /\ free.off \in Nat
      /\ free.ack \in Nat
  BY <1>1 DEF FreeType, FreeList, Block
<1>4. Ahead \in SUBSET Nat /\ \A j \in Ahead : free.i <= j /\ j < free.size
  BY <1>3 DEF Ahead
<1>5. next \in free.i .. free.size
  <2> DEFINE S == (Ahead \ {Min(Ahead)}) \cup {free.size}
  <2>1. S \in SUBSET Nat /\ S # {} /\ \A j \in S : free.i <= j /\ j <= free.size
    <3>1. free.i <= free.size
      BY <1>1 DEF FreeType
    <3>2. \A j \in S : (j \in Ahead \/ j = free.size)
      OBVIOUS
    <3>3. S # {}
      OBVIOUS
    <3> HIDE DEF S
    <3>4. ASSUME NEW j \in S PROVE j \in Nat /\ free.i <= j /\ j <= free.size
      <4>1. CASE j \in Ahead
        <5>1. j \in Nat /\ free.i <= j /\ j < free.size
          BY <1>4, <4>1
        <5> QED BY <1>3, <5>1
      <4>2. CASE j = free.size
        BY <1>3, <3>1, <4>2
      <4> QED BY <3>2, <4>1, <4>2
    <3> QED BY <3>3, <3>4
  <2>2. next = Min(S)
    OBVIOUS
  <2> HIDE DEF S
  <2>3. next \in S
    BY <2>1, <2>2, LeastOf
  <2>4. next \in Nat
    BY <2>1, <2>3
  <2> QED BY <1>3, <2>1, <2>3, <2>4
<1>6. nblock' \in Block
  <2>1. Min(Ahead) \in Nat
    BY <1>1, <1>4, LeastOf
  <2> DEFINE x == free.off + Min(Ahead)
  <2>2. x \in Nat /\ BlockCount \in Nat \ {0}
    BY <1>3, <2>1, Sizes
  <2> HIDE DEF x
  <2>3. x % BlockCount \in 0 .. BlockCount - 1
    BY <2>2, DivMod
  <2> QED BY <1>1, <2>3 DEF Block, x
<1>7. FreeType'
  <2>1. /\ free.i <= free.size /\ free.size - free.i <= free.ack /\ free.ack <= BlockCount
        /\ BlockCount \in Nat
    BY <1>1, Sizes DEF FreeType
  <2> HIDE DEF Ahead
  <2>2. next \in Nat /\ free.ack - (next - free.i) \in Nat /\ next <= free.size
        /\ free.size - next <= free.ack - (next - free.i)
        /\ free.ack - (next - free.i) <= BlockCount
    BY <1>3, <1>5, <2>1
  <2>3. /\ free'.i = next /\ free'.ack = free.ack - (next - free.i) /\ free'.size = free.size
        /\ free' \in FreeList
    BY <1>2, <1>3, <2>2 DEF FreeList
  <2> QED BY <2>2, <2>3 DEF FreeType
<1>8. OpenType' /\ WordsType' /\ RestType'
  BY <1>1, <1>6 DEF OpenType, WordsType, RestType
<1>9. Place' /\ Sent'
  BY <1>1 DEF Place, Sent, WordAt
<1> QED BY <1>7, <1>8, <1>9 DEF FileInv

\* The next part of the volume begins at one of its blocks.
LEMMA NextOffBlock ==
  ASSUME FreeType
  PROVE  NextOff \in Block
<1> DEFINE x == free.off + free.size
<1>1. x \in Nat /\ BlockCount \in Nat \ {0}
  BY Sizes DEF FreeType, FreeList, Block
<1> HIDE DEF x
<1>2. x % BlockCount \in 0 .. BlockCount - 1
  BY <1>1, DivMod
<1> QED BY <1>2 DEF Block, NextOff, x

LEMMA AllocScanInv ==
  ASSUME FileInv, AllocScan
  PROVE  FileInv'
<1> DEFINE off  == NextOff
           size == Part(Left)
           used == Bitmap(off, size)
<1>1. /\ FreeType /\ OpenType /\ WordsType /\ RestType /\ Place /\ Sent
      /\ free' = [off |-> off, size |-> size, i |-> 0, ack |-> Left, used |-> used]
      /\ Left > 0
      /\ UNCHANGED <<words, entry, phase, todo, why, nblock, file, log, sent, failed>>
  BY DEF FileInv, AllocScan
<1>2. Left \in Nat /\ Left <= BlockCount
  BY <1>1, Sizes DEF Left, FreeType, FreeList
<1>3. size \in Nat /\ size <= Left
  <2>1. Lookahead \in Nat
    BY Sizes
  <2> HIDE DEF Left
  <2> QED BY <1>2, <2>1, MinOfTwo DEF Part
<1>4. off \in Block
  BY <1>1, NextOffBlock
<1>5. used \in SUBSET Nat
  <2> HIDE DEF size, off
  <2> QED BY <1>3 DEF Bitmap
<1> HIDE DEF off, size, used
<1>6. FreeType'
  BY <1>1, <1>2, <1>3, <1>4, <1>5 DEF FreeType, FreeList
<1>7. OpenType' /\ WordsType' /\ RestType'
  BY <1>1 DEF OpenType, WordsType, RestType
<1>8. Place' /\ Sent'
  BY <1>1 DEF Place, Sent, WordAt
<1> QED BY <1>6, <1>7, <1>8 DEF FileInv

\* A write that fails.
LEMMA WriteFailsInv ==
  ASSUME FileInv, WriteFails, FreeType', WordsType', UNCHANGED <<entry, why, nblock, log, sent>>
  PROVE  FileInv'
<1>1. /\ OpenType /\ RestType /\ Place
      /\ phase' \in {"idle", "stuck"} /\ todo' = 0 /\ failed' = TRUE
      /\ file' = [file EXCEPT !.erred = TRUE]
      /\ UNCHANGED <<entry, why, nblock, log, sent>>
  BY DEF FileInv, WriteFails
<1>2. /\ file' \in OpenFile /\ file'.pos = file.pos /\ file'.off = file.off
      /\ file'.ctz = file.ctz /\ file'.inline = file.inline /\ file'.writing = file.writing
      /\ file'.block = file.block
  BY <1>1 DEF OpenType, OpenFile
<1>3. OpenType' /\ RestType'
  BY <1>1, <1>2, Sizes DEF OpenType, RestType
<1>4. Place'
  <2>1. file'.pos + todo' <= sent' * RecordWords
    <3>1. /\ file.pos \in Nat /\ todo \in Nat /\ sent * RecordWords \in Nat
          /\ file.pos + todo <= sent * RecordWords
      BY <1>1, SentWords, Sizes DEF Place, OpenType, OpenFile, RestType
    <3> QED BY <1>1, <1>2, <3>1
  <2> QED BY <1>1, <1>2, <2>1 DEF Place
<1> QED BY <1>1, <1>3, <1>4 DEF FileInv, Sent

LEMMA AllocFailInv ==
  ASSUME FileInv, AllocFail
  PROVE  FileInv'
<1>1. /\ FreeType /\ WordsType /\ WriteFails
      /\ free' = [free EXCEPT !.i = free.size, !.ack = 0]
      /\ UNCHANGED <<words, entry, why, nblock, log, sent>>
  BY DEF FileInv, AllocFail
<1>2. FreeType'
  <2>1. free \in FreeList /\ free.size \in Nat
    BY <1>1 DEF FreeType, FreeList
  <2>2. free'.i = free.size /\ free'.ack = 0 /\ free'.size = free.size /\ free' \in FreeList
    BY <1>1, <2>1 DEF FreeList
  <2> QED BY <2>1, <2>2, Sizes DEF FreeType
<1>3. WordsType'
  BY <1>1 DEF WordsType
<1> QED BY <1>1, <1>2, <1>3, WriteFailsInv

LEMMA AllocCorruptInv ==
  ASSUME FileInv, AllocCorrupt
  PROVE  FileInv'
<1>1. /\ FreeType /\ WordsType /\ WriteFails /\ free' = lfs_alloc_drop(NextOff)
      /\ UNCHANGED <<words, entry, why, nblock, log, sent>>
  BY DEF FileInv, AllocCorrupt
<1>2. FreeType'
  <2>1. NextOff \in Block
    BY <1>1, NextOffBlock
  <2> QED BY <1>1, <2>1, DropType, Sizes DEF FreeType
<1>3. WordsType'
  BY <1>1 DEF WordsType
<1> QED BY <1>1, <1>2, <1>3, WriteFailsInv

LEMMA ExtendFailsInv ==
  ASSUME FileInv, ExtendFails
  PROVE  FileInv'
<1> DEFINE block == [i \in 0 .. BlockWords - 1 |-> Erased]
<1>1. /\ FreeType /\ WordsType /\ WriteFails /\ words' = [words EXCEPT ![nblock] = block]
      /\ UNCHANGED <<free, entry, why, nblock, log, sent>>
  BY DEF FileInv, ExtendFails
<1>2. FreeType'
  BY <1>1 DEF FreeType
<1>3. WordsType'
  <2>1. block \in Content
    BY DEF Content, Word, Plain
  <2> HIDE DEF block
  <2> QED BY <1>1, <2>1 DEF WordsType
<1> QED BY <1>1, <1>2, <1>3, WriteFailsInv

\* The last word of a file that has one is in a block.
LEMMA LastPlace ==
  ASSUME OpenType, file.pos > 0
  PROVE  /\ file.pos - 1 \in Position
         /\ At(file.pos - 1, lfs_ctz_index(file.pos - 1), Offset(file.pos - 1))
<1>1. file.pos - 1 \in Position
  <2>1. file.pos \in 0 .. FileWords
    BY DEF OpenType, OpenFile
  <2> QED BY <2>1, Sizes DEF Position, FileWords
<1> QED BY <1>1, Located

LEMMA ExtendInv ==
  ASSUME FileInv, Extend
  PROVE  FileInv'
<1>1. /\ FreeType /\ OpenType /\ WordsType /\ RestType /\ Place /\ Sent
      /\ phase = "write" /\ todo > 0 /\ NeedsBlock
      /\ UNCHANGED <<words, entry, nblock, log, sent>>
      /\ IF Last = Corrupt THEN WriteFails /\ UNCHANGED <<why, free>>
         ELSE /\ phase' = "alloc" /\ why' = "extend" /\ free' = lfs_alloc_ack
              /\ file' = [file EXCEPT !.block = Last] /\ UNCHANGED <<todo, failed>>
  BY DEF FileInv, Extend
<1>2. CASE Last = Corrupt
  <2>1. FreeType' /\ WordsType' /\ WriteFails /\ UNCHANGED <<entry, why, nblock, log, sent>>
    BY <1>1, <1>2 DEF FreeType, WordsType
  <2> QED BY <2>1, WriteFailsInv
<1>3. CASE Last # Corrupt
  <2>1. /\ phase' = "alloc" /\ why' = "extend" /\ free' = lfs_alloc_ack
        /\ file' = [file EXCEPT !.block = Last] /\ UNCHANGED <<todo, failed>>
    BY <1>1, <1>3
  <2>2. FreeType'
    BY <1>1, <2>1, AckType
  <2>3. file.pos > 0
    <3>1. CASE ~file.writing
      BY <1>1, <3>1 DEF Place
    <3>2. CASE file.writing
      BY <1>1, <3>2, Sizes DEF NeedsBlock, Place
    <3> QED BY <3>1, <3>2
  <2>4. Last \in Number /\ (file.writing => Last = file.block)
    <3>1. CASE file.writing
      BY <1>1, <3>1 DEF Last, OpenType, OpenFile
    <3>2. CASE ~file.writing
      <4>1. file.ctz.size = file.pos /\ file.ctz.head \in Number
        BY <1>1, <3>2, PointerWord DEF Place, OpenType, OpenFile, Chain
      <4>2. lfs_ctz_index(file.pos - 1) \in Nat /\ lfs_ctz_index(file.pos - 1) \in Index
        BY <1>1, <2>3, LastPlace, PlaceFacts
      <4>3. lfs_ctz_index(file.ctz.size - 1) \in Index
        BY <4>1, <4>2
      <4>4. Last \in Number \cup {Corrupt}
        BY <1>1, <3>2, <4>1, <4>2, <4>3, FindsBlock DEF Last
      <4> QED BY <1>3, <3>2, <4>4
    <3> QED BY <3>1, <3>2
  <2>5. /\ file' \in OpenFile /\ file'.pos = file.pos /\ file'.off = file.off
        /\ file'.ctz = file.ctz /\ file'.inline = file.inline /\ file'.block = Last
        /\ file'.writing = file.writing /\ file'.erred = file.erred
    BY <1>1, <2>1, <2>4 DEF OpenType, OpenFile
  <2>6. OpenType' /\ WordsType' /\ RestType'
    BY <1>1, <2>1, <2>5 DEF OpenType, WordsType, RestType
  <2>7. Place' /\ Sent'
    BY <1>1, <2>1, <2>3, <2>4, <2>5 DEF Place, Sent, WordAt
  <2> QED BY <2>2, <2>6, <2>7 DEF FileInv
<1> QED BY <1>2, <1>3

\* The words that are programmed are words of a record, and fit.
LEMMA DiffFits ==
  ASSUME FileInv, phase \in {"write", "again"}, todo > 0, ~NeedsBlock
  PROVE  /\ Diff \in 1 .. todo /\ file.off + Diff <= BlockWords
         /\ file.pos + Diff + (todo - Diff) <= sent * RecordWords
         /\ NextWord \in 1 .. RecordWords /\ NextWord + Diff - 1 <= RecordWords
         /\ sent \in 1 .. MaxRecords /\ file.writing /\ ~file.inline /\ file.block \in Block
<1>1. /\ todo \in 1 .. RecordWords /\ file.off \in 0 .. BlockWords - 1 /\ file.writing
      /\ sent \in 1 .. MaxRecords /\ ~file.inline /\ file.pos \in 0 .. FileWords
      /\ file.pos + todo <= sent * RecordWords
  <2>1. OpenType /\ Place /\ RestType
    BY DEF FileInv
  <2>2. todo \in 1 .. RecordWords /\ sent \in 0 .. MaxRecords /\ sent > 0
    BY <2>1, Sizes DEF RestType, Place
  <2>3. file.writing /\ file.off # BlockWords
    BY DEF NeedsBlock
  <2>4. file.off \in 0 .. BlockWords /\ file.pos \in 0 .. FileWords
    BY <2>1 DEF OpenType, OpenFile
  <2>5. ~file.inline /\ file.pos + todo <= sent * RecordWords
    BY <2>1, <2>3 DEF Place
  <2> QED BY <2>2, <2>3, <2>4, <2>5, Sizes
<1> DEFINE d == Diff
           e == BlockWords - file.off
<1>2. e \in Nat \ {0}
  BY <1>1, Sizes
<1>3. d \in Nat /\ (d = todo \/ d = e) /\ d <= todo /\ d <= e
  <2>1. d = Min({todo, e})
    BY DEF Diff
  <2>2. todo \in Nat
    BY <1>1
  <2> HIDE DEF d, e
  <2> QED BY <1>2, <2>1, <2>2, MinOfTwo
<1>4. sent * RecordWords \in Nat
  BY <1>1, SentWords, Sizes
<1> HIDE DEF d
<1>5. d \in 1 .. todo /\ file.off + d <= BlockWords /\ file.pos + d + (todo - d) <= sent * RecordWords
  <2>1. d >= 1
    BY <1>1, <1>2, <1>3
  <2> QED BY <1>1, <1>2, <1>3, <1>4, <2>1, Sizes
<1>6. NextWord \in 1 .. RecordWords /\ NextWord + d - 1 <= RecordWords
  BY <1>1, <1>3, Sizes DEF NextWord
<1>7. file.block \in Block
  BY <1>1 DEF FileInv, Place
<1> QED BY <1>1, <1>5, <1>6, <1>7 DEF d

\* The words that are programmed are logged.
LEMMA ProgramLog ==
  ASSUME FileInv, Program
  PROVE  /\ log' \in Seq(Data) /\ Len(log') = Len(log) + Diff /\ Len(log) \in Nat
         /\ \A k \in 1 .. Len(log) : log'[k] = log[k]
         /\ \A k \in 1 .. Diff : log'[Len(log) + k] = <<sent, NextWord + k - 1>>
<1> DEFINE d == Diff
           new == [k \in 1 .. d |-> <<sent, NextWord + k - 1>>]
<1>1. log' = log \o new /\ phase = "write" /\ todo > 0 /\ ~NeedsBlock /\ log \in Seq(Data)
      /\ todo \in 0 .. RecordWords
  BY DEF Program, FileInv, RestType
<1>2. /\ d \in 1 .. todo /\ NextWord \in 1 .. RecordWords /\ NextWord + d - 1 <= RecordWords
      /\ sent \in 1 .. MaxRecords
  BY <1>1, DiffFits
<1> HIDE DEF d
<1>3. d \in Nat /\ RecordWords \in Nat
  BY <1>1, <1>2, Sizes
<1>4. \A k \in 1 .. d : <<sent, NextWord + k - 1>> \in Data
  <2>1. \A k \in 1 .. d : NextWord + k - 1 \in 1 .. RecordWords
    BY <1>2, <1>3
  <2> QED BY <1>2, <2>1 DEF Data
<1>5. new \in [1 .. d -> Data] /\ \A k \in 1 .. d : new[k] = <<sent, NextWord + k - 1>>
  <2>1. new \in [1 .. d -> Data]
    BY ONLY <1>4
  <2>2. \A k \in 1 .. d : new[k] = <<sent, NextWord + k - 1>>
    BY ONLY TRUE
  <2> QED BY <2>1, <2>2
<1> HIDE DEF new
<1>6. new \in Seq(Data) /\ Len(new) = d
  BY <1>3, <1>5, SeqDef
<1>7. /\ log \o new \in Seq(Data) /\ Len(log \o new) = Len(log) + d /\ Len(log) \in Nat
      /\ \A k \in 1 .. Len(log) + d :
           (log \o new)[k] = IF k <= Len(log) THEN log[k] ELSE new[k - Len(log)]
  BY <1>1, <1>6, ConcatProperties, LenProperties
<1>8. \A k \in 1 .. Len(log) : (log \o new)[k] = log[k]
  BY <1>3, <1>7
<1>9. ASSUME NEW k \in 1 .. d PROVE (log \o new)[Len(log) + k] = new[k]
  <2> DEFINE n == Len(log)
  <2>1. n \in Nat
    BY <1>7
  <2> HIDE DEF n
  <2>2. n + k \in 1 .. n + d /\ ~(n + k <= n) /\ (n + k) - n = k
    BY <1>3, <2>1
  <2> QED BY <1>7, <2>2 DEF n
<1> QED BY <1>1, <1>5, <1>7, <1>8, <1>9 DEF d

\* What is programmed are words.
LEMMA ProgrammedType ==
  ASSUME FileInv, phase \in {"write", "again"}, todo > 0, ~NeedsBlock, Programmed
  PROVE  WordsType'
<1> DEFINE d == Diff
           block == [i \in 0 .. BlockWords - 1 |->
                      IF Writing(i) THEN <<sent, NextWord + i - file.off>>
                      ELSE words[file.block][i]]
<1>1. /\ d \in 1 .. todo /\ file.off + d <= BlockWords
      /\ NextWord \in 1 .. RecordWords /\ NextWord + d - 1 <= RecordWords
      /\ sent \in 1 .. MaxRecords /\ file.block \in Block
  BY DiffFits
<1> HIDE DEF d
<1>2. /\ file.off \in 0 .. BlockWords /\ todo \in 0 .. RecordWords /\ WordsType
      /\ RecordWords \in Nat /\ BlockWords \in Nat
  BY Sizes DEF FileInv, OpenType, OpenFile, RestType
<1>3. block \in Content
  <2>1. ASSUME NEW i \in 0 .. BlockWords - 1
        PROVE  (IF Writing(i) THEN <<sent, NextWord + i - file.off>>
                ELSE words[file.block][i]) \in Word
    <3>1. CASE Writing(i)
      <4>1. i \in file.off .. file.off + d - 1
        BY <3>1 DEF Writing, d
      <4>2. NextWord + i - file.off \in 1 .. RecordWords
        BY <1>1, <1>2, <4>1
      <4>3. <<sent, NextWord + i - file.off>> \in Data
        BY <1>1, <4>2 DEF Data
      <4> QED BY <3>1, <4>3 DEF Word, Plain
    <3>2. CASE ~Writing(i)
      BY <1>1, <1>2, <3>2 DEF WordsType, Content
    <3> QED BY <3>1, <3>2
  <2> QED BY <2>1 DEF Content
<1>4. words' = [words EXCEPT ![file.block] = block]
  BY DEF Programmed
<1> HIDE DEF block
<1> QED BY <1>2, <1>3, <1>4 DEF WordsType

LEMMA ProgramInv ==
  ASSUME FileInv, Program
  PROVE  FileInv'
<1> DEFINE d == Diff
<1>1. /\ FreeType /\ OpenType /\ WordsType /\ RestType /\ Place /\ Sent
      /\ phase = "write" /\ todo > 0 /\ ~NeedsBlock
      /\ Programmed
      /\ file' = [file EXCEPT !.pos = @ + d, !.off = @ + d]
      /\ todo' = todo - d /\ free' = lfs_alloc_ack
      /\ UNCHANGED <<entry, phase, why, nblock, sent, failed>>
  BY DEF FileInv, Program
<1>2. /\ d \in 1 .. todo /\ file.off + d <= BlockWords
      /\ file.pos + d + (todo - d) <= sent * RecordWords
      /\ NextWord \in 1 .. RecordWords /\ NextWord + d - 1 <= RecordWords
      /\ sent \in 1 .. MaxRecords /\ file.writing /\ ~file.inline /\ file.block \in Block
  BY <1>1, DiffFits
<1> HIDE DEF d
<1>3. FreeType'
  BY <1>1, AckType
<1>4. /\ file.pos \in 0 .. FileWords /\ file.off \in 0 .. BlockWords
      /\ todo \in 0 .. RecordWords /\ sent * RecordWords \in 0 .. FileWords
      /\ RecordWords \in Nat /\ BlockWords \in Nat /\ FileWords \in Nat /\ NextWord = RecordWords - todo + 1
  BY <1>1, SentWords, Sizes DEF OpenType, OpenFile, RestType, NextWord
<1>5. file.pos + d \in 1 .. FileWords /\ file.off + d \in 1 .. BlockWords
      /\ todo - d \in 0 .. RecordWords
  BY <1>2, <1>4
<1>6. /\ file' \in OpenFile /\ file'.pos = file.pos + d /\ file'.off = file.off + d
      /\ file'.ctz = file.ctz /\ file'.inline = file.inline
      /\ file'.writing = file.writing /\ file'.erred = file.erred /\ file'.block = file.block
  <2> DEFINE p == file.pos + d
             o == file.off + d
  <2>1. file' = [file EXCEPT !.pos = p, !.off = o]
    BY <1>1
  <2>2. p \in 0 .. FileWords /\ o \in 0 .. BlockWords
    BY <1>4, <1>5
  <2> HIDE DEF p, o
  <2>3. file \in OpenFile
    BY <1>1 DEF OpenType
  <2>4. /\ file' \in OpenFile /\ file'.pos = p /\ file'.off = o
        /\ file'.ctz = file.ctz /\ file'.inline = file.inline
        /\ file'.writing = file.writing /\ file'.erred = file.erred /\ file'.block = file.block
    BY ONLY <2>1, <2>2, <2>3 DEF OpenFile
  <2> QED BY <2>4 DEF p, o
<1>9. WordsType'
  BY <1>1, ProgrammedType
<1>10. /\ log' \in Seq(Data) /\ Len(log') = Len(log) + d /\ Len(log) \in Nat
       /\ \A k \in 1 .. Len(log) : log'[k] = log[k]
       /\ \A k \in 1 .. d : log'[Len(log) + k] = <<sent, NextWord + k - 1>>
  BY ProgramLog DEF d
<1>11. OpenType' /\ RestType'
  <2>1. todo' \in 0 .. RecordWords
    BY <1>1, <1>5
  <2> QED BY <1>1, <1>6, <1>10, <2>1 DEF OpenType, RestType
<1>12. Place'
  <2>1. file'.pos + todo' <= sent' * RecordWords /\ file'.pos > 0
    <3> DEFINE S == sent * RecordWords
    <3>1. S \in Nat /\ file.pos + d + (todo - d) <= S /\ sent' * RecordWords = S
      BY <1>1, <1>2, <1>4
    <3> HIDE DEF S
    <3> QED BY ONLY <1>1, <1>4, <1>5, <1>6, <3>1
  <2> QED BY <1>1, <1>2, <1>6, <2>1 DEF Place
<1>13. Sent'
  <2>1. SUFFICES ASSUME ~failed PROVE
          /\ ~file'.erred /\ Len(log') = sent' * RecordWords - todo'
          /\ \A k \in 1 .. Len(log') : log'[k] = WordAt(k)
    BY <1>1, <1>2, <1>6 DEF Sent, WordAt
  <2>2. /\ ~file.erred /\ Len(log) = sent * RecordWords - todo
        /\ \A k \in 1 .. Len(log) : log[k] = WordAt(k)
    BY <1>1, <2>1 DEF Sent
  <2>3. Len(log') = sent' * RecordWords - todo'
    <3> DEFINE S == sent * RecordWords
               n == Len(log)
    <3>1. S \in Nat /\ n = S - todo /\ sent' * RecordWords = S /\ Len(log') = n + d
      <4>1. sent' = sent
        BY <1>1
      <4>2. S \in Nat
        BY <1>4
      <4>3. n = S - todo
        BY <2>2
      <4>4. Len(log') = n + d
        BY <1>10
      <4> QED BY ONLY <4>1, <4>2, <4>3, <4>4
    <3>2. todo' = todo - d /\ todo \in Nat /\ d \in Nat
      BY <1>1, <1>2, <1>4
    <3> HIDE DEF S, n
    <3> QED BY ONLY <3>1, <3>2
  <2>4. ASSUME NEW k \in 1 .. d PROVE <<sent, NextWord + k - 1>> = WordAt(Len(log) + k)
    <3> DEFINE q == sent - 1
               r == RecordWords - todo + (k - 1)
    <3>1. q \in Nat /\ r \in 0 .. RecordWords - 1 /\ RecordWords \in Nat \ {0}
      BY <1>2, <1>4, Sizes
    <3>2. q * RecordWords = sent * RecordWords - RecordWords
      <4>1. sent \in Nat /\ sent \in 0 .. MaxRecords /\ sent > 0
        BY <1>2, Sizes
      <4> QED BY <4>1, SentWords
    <3>3. Len(log) + k - 1 = q * RecordWords + r
      BY <1>2, <1>4, <2>2, <3>2
    <3> HIDE DEF q, r
    <3>4. (Len(log) + k - 1) \div RecordWords = q /\ (Len(log) + k - 1) % RecordWords = r
      BY <3>1, <3>3, DivModOf
    <3>5. q + 1 = sent /\ r + 1 = NextWord + k - 1
      BY <1>2, <1>4 DEF q, r
    <3> QED BY <3>4, <3>5 DEF WordAt
  <2>5. ASSUME NEW k \in 1 .. Len(log') PROVE log'[k] = WordAt(k)
    <3>1. CASE k \in 1 .. Len(log)
      BY <1>10, <2>2, <3>1
    <3>2. CASE k \notin 1 .. Len(log)
      <4> DEFINE j == k - Len(log)
      <4>1. j \in 1 .. d /\ k = Len(log) + j
        BY <1>2, <1>4, <1>10, <3>2
      <4> HIDE DEF j
      <4> QED BY <1>10, <2>4, <4>1
    <3> QED BY <3>1, <3>2
  <2> QED BY <1>6, <2>2, <2>3, <2>5
<1> QED BY <1>3, <1>9, <1>11, <1>12, <1>13 DEF FileInv

LEMMA ProgramCorruptInv ==
  ASSUME FileInv, ProgramCorrupt
  PROVE  FileInv'
<1>1. /\ FreeType /\ OpenType /\ RestType /\ Place /\ Sent
      /\ phase \in {"write", "again"} /\ todo > 0 /\ ~NeedsBlock /\ Programmed
      /\ phase' = "alloc" /\ why' = "relocate"
      /\ UNCHANGED <<entry, todo, nblock, free, file, log, sent, failed>>
  BY DEF FileInv, ProgramCorrupt
<1>2. WordsType' /\ file.writing
  BY <1>1, ProgrammedType, DiffFits
<1>3. FreeType' /\ OpenType' /\ RestType'
  BY <1>1 DEF FreeType, OpenType, RestType
<1>4. Place' /\ Sent'
  BY <1>1, <1>2 DEF Place, Sent, WordAt
<1> QED BY <1>2, <1>3, <1>4 DEF FileInv

LEMMA AssertFailsInv ==
  ASSUME FileInv, AssertFails
  PROVE  FileInv'
<1>1. /\ FreeType /\ OpenType /\ WordsType /\ RestType /\ Place /\ Sent
      /\ phase = "again" /\ phase' = "hung"
      /\ UNCHANGED <<words, entry, todo, why, nblock, free, file, log, sent, failed>>
  BY DEF FileInv, AssertFails
<1>2. FreeType' /\ OpenType' /\ WordsType' /\ RestType'
  BY <1>1 DEF FreeType, OpenType, WordsType, RestType
<1>3. Place' /\ Sent'
  BY <1>1 DEF Place, Sent, WordAt
<1> QED BY <1>2, <1>3 DEF FileInv

LEMMA WrittenInv ==
  ASSUME FileInv, Written
  PROVE  FileInv'
<1>1. /\ FreeType /\ OpenType /\ WordsType /\ RestType /\ Place /\ Sent
      /\ phase = "write" /\ todo = 0 /\ phase' = "idle"
      /\ file' = [file EXCEPT !.erred = FALSE]
      /\ UNCHANGED <<words, entry, todo, why, nblock, free, log, sent, failed>>
  BY DEF FileInv, Written
<1>2. /\ file' \in OpenFile /\ file'.pos = file.pos /\ file'.off = file.off
      /\ file'.ctz = file.ctz /\ file'.inline = file.inline
      /\ file'.writing = file.writing /\ ~file'.erred /\ file'.block = file.block
  BY <1>1 DEF OpenType, OpenFile
<1>3. FreeType' /\ OpenType' /\ WordsType' /\ RestType'
  BY <1>1, <1>2 DEF FreeType, OpenType, WordsType, RestType
<1>4. Place' /\ Sent'
  BY <1>1, <1>2 DEF Place, Sent, WordAt
<1> QED BY <1>3, <1>4 DEF FileInv

\* The file goes on in a new block.
LEMMA NewBlockInv ==
  ASSUME FileInv, phase = "got", NEW off \in 0 .. BlockWords, off > 0 => file.pos > 0,
         NewBlock(off), WordsType'
  PROVE  FileInv'
<1>1. /\ FreeType /\ OpenType /\ RestType /\ Place /\ Sent /\ phase' = "write"
      /\ file' = [file EXCEPT !.block = nblock, !.off = off,
                              !.writing = TRUE, !.inline = FALSE]
      /\ UNCHANGED <<entry, todo, why, nblock, free, log, sent, failed>>
  BY DEF FileInv, NewBlock
<1>2. /\ file' \in OpenFile /\ file'.pos = file.pos /\ file'.off = off
      /\ file'.ctz = file.ctz /\ ~file'.inline
      /\ file'.writing /\ file'.erred = file.erred /\ file'.block \in Block
  BY <1>1, PointerWord DEF OpenType, OpenFile, RestType
<1>3. FreeType' /\ OpenType' /\ RestType'
  BY <1>1, <1>2 DEF FreeType, OpenType, RestType
<1>4. Place' /\ Sent'
  BY <1>1, <1>2 DEF Place, Sent, WordAt
<1> QED BY <1>3, <1>4 DEF FileInv

\* A copy of a block is a block.
LEMMA CopiedType ==
  ASSUME FileInv, NEW b \in Block, NEW n \in Int, Copied(b, n)
  PROVE  WordsType'
<1> DEFINE block == [i \in 0 .. BlockWords - 1 |-> IF i < n THEN words[b][i] ELSE Erased]
<1>1. block \in Content
  BY Contents DEF FileInv
<1>2. words' = [words EXCEPT ![nblock] = block]
  BY DEF Copied
<1> HIDE DEF block
<1> QED BY <1>1, <1>2 DEF WordsType, FileInv

LEMMA RelocateInv ==
  ASSUME FileInv, Relocate
  PROVE  FileInv'
<1>1. /\ phase = "got" /\ Copied(file.block, file.off) /\ NewBlock(file.off)
      /\ file.block \in Block /\ file.off \in 0 .. BlockWords /\ (file.off > 0 => file.pos > 0)
  BY DEF Relocate, FileInv, OpenType, OpenFile, Place
<1>2. WordsType'
  BY <1>1, CopiedType
<1> QED BY <1>1, <1>2, NewBlockInv

LEMMA ExtendCopyInv ==
  ASSUME FileInv, ExtendCopy
  PROVE  FileInv'
<1>1. CASE file.block \notin Block
  BY <1>1, ExtendFailsInv DEF ExtendCopy
<1>2. CASE file.block \in Block
  <2>1. /\ phase = "got" /\ Copied(file.block, Used) /\ NewBlock(Used)
        /\ file.pos > 0 /\ OpenType
    BY <1>2 DEF ExtendCopy, FileInv, Place
  <2>2. Used \in 0 .. BlockWords
    <3>1. Offset(file.pos - 1) \in 0 .. BlockWords - 1
      BY <2>1, LastPlace, PlaceFacts
    <3> QED BY <3>1, Sizes DEF Used
  <2>3. WordsType'
    BY <1>2, <2>1, <2>2, CopiedType
  <2> QED BY <2>1, <2>2, <2>3, NewBlockInv
<1> QED BY <1>1, <1>2

(* The recursion of lfs_ctz_extend(): nhead, the pointers that it writes,  *)
(* or those that it could read up to the first one that it could not.      *)
LinkStep(f, k) ==
  f[k] = IF ~Readable(f[k - 1], k - 1) THEN Corrupt ELSE Ptr(f[k - 1], k - 1)

LinkOutcome(f, skips) ==
  IF f[skips - 1] = Corrupt THEN ExtendFails
  ELSE /\ words' = [words EXCEPT ![nblock] =
                     [i \in 0 .. BlockWords - 1 |-> IF i < skips THEN <<f[i]>> ELSE Erased]]
       /\ NewBlock(skips)

LEMMA LinkFunction ==
  ASSUME FileInv, ExtendLink, NEW skips, skips = lfs_ctz(lfs_ctz_index(file.pos - 1) + 1) + 1,
         skips \in 1 .. BlockWords
  PROVE  \E f : /\ f[0] = file.block
                /\ \A k \in 1 .. skips - 1 : LinkStep(f, k)
                /\ \A k \in 0 .. skips - 1 : f[k] \in Number \cup {Corrupt}
                /\ LinkOutcome(f, skips)
<1> DEFINE T == Number \cup {Corrupt}
           next(h, k) == IF ~Readable(h, k - 1) THEN Corrupt ELSE Ptr(h, k - 1)
           Is(f) == f = [k \in 0 .. skips - 1 |->
                          IF k = 0 THEN file.block
                          ELSE IF ~Readable(f[k - 1], k - 1) THEN Corrupt
                          ELSE Ptr(f[k - 1], k - 1)]
           nhead == CHOOSE f : Is(f)
<1>1. LinkOutcome(nhead, skips) /\ file.block \in T /\ WordsType
  BY DEF ExtendLink, FileInv, OpenType, OpenFile, LinkOutcome
<1>2. skips - 1 \in Nat
  BY Sizes
<1>3. \E f \in [0 .. skips - 1 -> T] : Is(f)
  <2> DEFINE step == [k \in 1 .. skips - 1 |-> [h \in T |-> next(h, k)]]
  <2>1. step \in [1 .. skips - 1 -> [T -> T]]
    <3>1. ASSUME NEW k \in 1 .. skips - 1, NEW h PROVE next(h, k) \in T
      <4>1. k - 1 \in Nat
        BY <1>2
      <4> QED BY <1>1, <4>1, PtrNumber
    <3> HIDE DEF T, next
    <3> QED BY <3>1
  <2>2. PICK f \in [0 .. skips - 1 -> T] : Iterates(f, file.block, step, skips - 1)
    <3> HIDE DEF step, T
    <3> QED BY <1>1, <1>2, <2>1, RecursionUpTo
  <2> HIDE DEF T
  <2>3. ASSUME NEW k \in 0 .. skips - 1
        PROVE  f[k] = IF k = 0 THEN file.block
                      ELSE IF ~Readable(f[k - 1], k - 1) THEN Corrupt ELSE Ptr(f[k - 1], k - 1)
    <3>1. CASE k = 0
      BY <2>2, <3>1 DEF Iterates
    <3>2. CASE k # 0
      <4>1. k \in 1 .. skips - 1 /\ k - 1 \in 0 .. skips - 1
        BY <1>2, <3>2
      <4>2. f[k] = step[k][f[k - 1]] /\ f[k - 1] \in T
        BY <2>2, <4>1 DEF Iterates
      <4> HIDE DEF next
      <4>3. step[k][f[k - 1]] = next(f[k - 1], k)
        BY <4>1, <4>2
      <4> HIDE DEF step
      <4> QED BY <3>2, <4>2, <4>3 DEF next
    <3> QED BY <3>1, <3>2
  <2>4. Is(f)
    <3>1. f = [k \in 0 .. skips - 1 |-> f[k]]
      OBVIOUS
    <3> QED BY <2>3, <3>1
  <2> HIDE DEF Is
  <2> QED BY <2>4
<1>4. Is(nhead)
  <2> HIDE DEF Is
  <2> QED BY <1>3
<1> HIDE DEF nhead
<1>5. \A k \in 0 .. skips - 1 :
        nhead[k] = IF k = 0 THEN file.block
                   ELSE IF ~Readable(nhead[k - 1], k - 1) THEN Corrupt
                   ELSE Ptr(nhead[k - 1], k - 1)
  BY <1>4
<1> HIDE DEF Is
<1>6. nhead[0] = file.block
  BY <1>2, <1>5
<1>7. \A k \in 1 .. skips - 1 : LinkStep(nhead, k)
  BY <1>2, <1>5 DEF LinkStep
<1>8. ASSUME NEW k \in 0 .. skips - 1 PROVE nhead[k] \in T
  <2>1. CASE k = 0
    BY <1>1, <1>6, <2>1
  <2>2. CASE k # 0
    <3>1. k - 1 \in Nat
      BY <1>2, <2>2
    <3> QED BY <1>1, <1>5, <2>2, <3>1, PtrNumber
  <2> QED BY <2>1, <2>2
<1> QED BY <1>1, <1>6, <1>7, <1>8

\* If the last one could be read, so could those before it.
LEMMA LinkWhole ==
  ASSUME NEW f, NEW n \in Nat, f[n] # Corrupt,
         \A k \in 1 .. n : LinkStep(f, k),
         \A k \in 0 .. n : f[k] \in Number \cup {Corrupt}
  PROVE  \A k \in 0 .. n : f[k] \in Number
<1> DEFINE S == {j \in 0 .. n : f[n - j] # Corrupt}
<1>1. 0 \in S
  OBVIOUS
<1>2. ASSUME NEW j \in 0 .. n - 1, j \in S PROVE j + 1 \in S
  <2> DEFINE k == n - j
  <2>1. k \in 1 .. n /\ f[k] # Corrupt /\ k - 1 = n - (j + 1) /\ j + 1 \in 0 .. n
    BY <1>2
  <2> HIDE DEF k
  <2>2. Readable(f[k - 1], k - 1)
    BY <2>1 DEF LinkStep
  <2>3. f[k - 1] # Corrupt
    BY <2>2, PointerWord DEF Readable
  <2> QED BY <2>1, <2>3
<1>3. 0 .. n \subseteq S
  <2> HIDE DEF S
  <2> QED BY <1>1, <1>2, InductionUpTo
<1>4. ASSUME NEW k \in 0 .. n PROVE f[k] \in Number
  <2>1. n - k \in 0 .. n /\ n - (n - k) = k
    OBVIOUS
  <2>2. f[k] # Corrupt
    BY <1>3, <2>1
  <2> QED BY <2>2
<1> QED BY <1>4

LEMMA ExtendLinkInv ==
  ASSUME FileInv, ExtendLink
  PROVE  FileInv'
<1> DEFINE x == lfs_ctz_index(file.pos - 1)
           skips == lfs_ctz(x + 1) + 1
<1>1. /\ phase = "got" /\ file.pos > 0 /\ OpenType /\ WordsType
  BY DEF ExtendLink, FileInv, Place
<1>2. skips \in 1 .. BlockWords
  <2>1. x \in Nat /\ Start(x + 1) \in 1 .. BlockWords - 2
    BY <1>1, LastPlace, PlaceFacts
  <2> HIDE DEF x
  <2>2. Start(x + 1) = skips
    BY <2>1 DEF Start
  <2> HIDE DEF skips
  <2> QED BY <2>1, <2>2, Sizes
<1>3. skips = lfs_ctz(lfs_ctz_index(file.pos - 1) + 1) + 1
  OBVIOUS
<1> HIDE DEF skips
<1>4. PICK f : /\ \A k \in 1 .. skips - 1 : LinkStep(f, k)
               /\ \A k \in 0 .. skips - 1 : f[k] \in Number \cup {Corrupt}
               /\ LinkOutcome(f, skips)
  BY <1>2, <1>3, LinkFunction
<1>5. CASE f[skips - 1] = Corrupt
  BY <1>4, <1>5, ExtendFailsInv DEF LinkOutcome
<1>6. CASE f[skips - 1] # Corrupt
  <2> DEFINE block == [i \in 0 .. BlockWords - 1 |-> IF i < skips THEN <<f[i]>> ELSE Erased]
             n == skips - 1
  <2>1. n \in Nat
    BY <1>2, Sizes
  <2>2. \A k \in 0 .. n : f[k] \in Number
    <3>1. f[n] # Corrupt /\ (\A k \in 1 .. n : LinkStep(f, k))
          /\ \A k \in 0 .. n : f[k] \in Number \cup {Corrupt}
      BY <1>4, <1>6
    <3> HIDE DEF n
    <3> QED BY <2>1, <3>1, LinkWhole
  <2>3. block \in Content
    <3>1. ASSUME NEW i \in 0 .. BlockWords - 1, i < skips PROVE <<f[i]>> \in Word
      <4>1. i \in 0 .. n
        BY <1>2, <3>1, Sizes
      <4> QED BY <2>2, <4>1 DEF Word, Pointer
    <3>2. Erased \in Word
      BY DEF Word, Plain
    <3> QED BY <3>1, <3>2 DEF Content
  <2>4. words' = [words EXCEPT ![nblock] = block] /\ NewBlock(skips)
    BY <1>4, <1>6 DEF LinkOutcome
  <2>5. WordsType'
    <3> HIDE DEF block
    <3> QED BY <1>1, <2>3, <2>4 DEF WordsType
  <2>6. skips \in 0 .. BlockWords
    BY <1>2, Sizes
  <2> QED BY <1>1, <2>4, <2>5, <2>6, NewBlockInv
<1> QED BY <1>5, <1>6

LEMMA NewBlockBadInv ==
  ASSUME FileInv, NewBlockBad
  PROVE  FileInv'
<1> DEFINE block == [i \in 0 .. BlockWords - 1 |-> Spoilt]
<1>1. /\ FreeType /\ OpenType /\ WordsType /\ RestType /\ Place /\ Sent
      /\ phase = "got" /\ phase' = "alloc" /\ words' = [words EXCEPT ![nblock] = block]
      /\ UNCHANGED <<entry, todo, why, nblock, free, file, log, sent, failed>>
  BY DEF FileInv, NewBlockBad
<1>2. WordsType'
  <2>1. block \in Content
    BY <1>1, Contents
  <2> HIDE DEF block
  <2> QED BY <1>1, <2>1 DEF WordsType
<1>3. FreeType' /\ OpenType' /\ RestType'
  BY <1>1 DEF FreeType, OpenType, RestType
<1>4. Place' /\ Sent'
  BY <1>1 DEF Place, Sent, WordAt
<1> QED BY <1>2, <1>3, <1>4 DEF FileInv

LEMMA StutterInv ==
  ASSUME FileInv, UNCHANGED fileVars
  PROVE  FileInv'
<1>1. FreeType' /\ OpenType' /\ WordsType' /\ RestType'
  BY DEF FileInv, FreeType, OpenType, WordsType, RestType, fileVars
<1>2. Place' /\ Sent'
  BY DEF FileInv, Place, Sent, WordAt, fileVars
<1> QED BY <1>1, <1>2 DEF FileInv

LEMMA NextInv == FileInv /\ [FileNext]_fileVars => FileInv'
<1> SUFFICES ASSUME FileInv, [FileNext]_fileVars PROVE FileInv'
  OBVIOUS
<1>1. CASE Fopen
  BY <1>1, FopenInv
<1>2. CASE ExtWrite
  BY <1>2, ExtWriteInv
<1>3. CASE Fclose
  BY <1>3, FcloseInv
<1>4. CASE PowerLoss
  BY <1>4, PowerLossInv
<1>5. CASE AllocTake
  BY <1>5, AllocTakeInv
<1>6. CASE AllocScan
  BY <1>6, AllocScanInv
<1>7. CASE AllocFail
  BY <1>7, AllocFailInv
<1>8. CASE Extend
  BY <1>8, ExtendInv
<1>9. CASE Program
  BY <1>9, ProgramInv
<1>10. CASE ProgramCorrupt
  BY <1>10, ProgramCorruptInv
<1>11. CASE Written
  BY <1>11, WrittenInv
<1>12. CASE Relocate
  BY <1>12, RelocateInv
<1>13. CASE ExtendCopy
  BY <1>13, ExtendCopyInv
<1>14. CASE ExtendLink
  BY <1>14, ExtendLinkInv
<1>15. CASE NewBlockBad
  BY <1>15, NewBlockBadInv
<1>16. CASE UNCHANGED fileVars
  BY <1>16, StutterInv
<1>17. CASE ExtWriteStuck
  BY <1>17, ExtWriteStuckInv
<1>18. CASE AllocCorrupt
  BY <1>18, AllocCorruptInv
<1>19. CASE AssertFails
  BY <1>19, AssertFailsInv
<1> QED BY <1>1, <1>2, <1>3, <1>4, <1>5, <1>6, <1>7, <1>8, <1>9, <1>10,
           <1>11, <1>12, <1>13, <1>14, <1>15, <1>16, <1>17, <1>18, <1>19 DEF FileNext, FileStep

LEMMA InvHolds == FileSpec => []FileInv
<1>1. FileInit => FileInv
  BY InitInv
<1>2. FileInv /\ [FileNext]_fileVars => FileInv'
  BY NextInv
<1> QED BY <1>1, <1>2, PTL DEF FileSpec

-----------------------------------------------------------------------------
(* What holds of the chains.                                               *)

\* Words 1 to size of s are the words of the file that the chain b holds.
Holds(w, b, size, s) ==
  \A p \in 0 .. size - 1 : w[b[lfs_ctz_index(p)]][Offset(p)] = s[p + 1]

\* The blocks b are the chain c, with the first words of s in it.
Made(w, c, b, s) ==
  /\ Linked(w, b, lfs_ctz_index(c.size - 1)) /\ b[lfs_ctz_index(c.size - 1)] = c.head
  /\ Holds(w, b, c.size, s)

\* The places of the words of a file.
LEMMA Places ==
  ASSUME NEW size \in 1 .. FileWords
  PROVE  /\ size - 1 \in Position /\ lfs_ctz_index(size - 1) \in Index
         /\ lfs_ctz_index(size - 1) \in Nat
         /\ \A p \in 0 .. size - 1 : /\ p \in Position
                                     /\ lfs_ctz_index(p) \in 0 .. lfs_ctz_index(size - 1)
                                     /\ Offset(p) \in 0 .. BlockWords - 1
<1>1. size - 1 \in Position
  BY Sizes DEF Position, FileWords
<1> DEFINE q == size - 1
<1> HIDE DEF q
<1>2. q \in Position
  BY <1>1 DEF q
<1>3. lfs_ctz_index(q) \in Index /\ lfs_ctz_index(q) \in Nat
  BY <1>2, Located, PlaceFacts
<1>4. ASSUME NEW p \in 0 .. q
      PROVE  /\ p \in Position /\ lfs_ctz_index(p) \in 0 .. lfs_ctz_index(q)
             /\ Offset(p) \in 0 .. BlockWords - 1
  <2>1. p \in Position /\ lfs_ctz_index(p) \in 0 .. lfs_ctz_index(q)
    BY <1>2, Earlier
  <2> QED BY <2>1, Located, PlaceFacts
<1> QED BY <1>2, <1>3, <1>4 DEF q

\* A chain is read back.
LEMMA MadeReads ==
  ASSUME WordsType, NEW c, NEW s, c.size \in 0 .. FileWords,
         c.size > 0 => \E b : Made(words, c, b, s)
  PROVE  Reads(c, s)
<1>1. SUFFICES ASSUME NEW pos \in 0 .. c.size - 1
               PROVE  words[lfs_ctz_find(c, pos)][Offset(pos)] = s[pos + 1]
  BY DEF Reads
<1>2. c.size \in 1 .. FileWords
  BY Sizes
<1>3. PICK b : Made(words, c, b, s)
  BY <1>2, Sizes
<1> DEFINE n == lfs_ctz_index(c.size - 1)
<1>4. n \in Index /\ lfs_ctz_index(pos) \in 0 .. n
  BY <1>2, Places
<1>5. Linked(words, b, n) /\ c.head = b[n]
  BY <1>3 DEF Made
<1>6. lfs_ctz_find(c, pos) = b[lfs_ctz_index(pos)]
  BY <1>4, <1>5, FindIs
<1> QED BY <1>3, <1>6 DEF Made, Holds

\* The allocator's walk finds its blocks.
LEMMA MadeTraverse ==
  ASSUME WordsType, NEW c, NEW s, NEW b, c.size \in 1 .. FileWords, Made(words, c, b, s)
  PROVE  /\ lfs_ctz_traverse(c) = Blocks(b, lfs_ctz_index(c.size - 1))
         /\ lfs_ctz_traverse(c) = {lfs_ctz_find(c, pos) : pos \in 0 .. c.size - 1}
<1> DEFINE n == lfs_ctz_index(c.size - 1)
<1>1. /\ n \in Index /\ n \in Nat /\ c.size # 0 /\ c.size - 1 \in Position
      /\ \A pos \in 0 .. c.size - 1 : lfs_ctz_index(pos) \in 0 .. n
  BY Places, Sizes
<1>2. Linked(words, b, n) /\ c.head = b[n]
  BY DEF Made
<1>3. lfs_ctz_traverse(c) = Blocks(b, n)
  BY <1>1, <1>2, TraverseIs
<1>4. \A pos \in 0 .. c.size - 1 : lfs_ctz_find(c, pos) = b[lfs_ctz_index(pos)]
  <2> HIDE DEF n
  <2>1. lfs_ctz_index(c.size - 1) = n
    BY DEF n
  <2> QED BY <1>1, <1>2, <2>1, FindIs
<1>5. \A i \in 0 .. n : \E q \in 0 .. c.size - 1 : lfs_ctz_index(q) = i
  BY <1>1, SomeWord
<1>6. Blocks(b, n) = {lfs_ctz_find(c, pos) : pos \in 0 .. c.size - 1}
  <2> HIDE DEF n
  <2> QED BY <1>1, <1>4, <1>5 DEF Blocks
<1> QED BY <1>3, <1>6

-----------------------------------------------------------------------------
(* The invariant of the chains.                                           *)

\* What the lookahead buffer offers, and the block that was taken from it.
Window == {(free.off + j) % BlockCount : j \in Ahead}

Fresh == Window \cup (IF phase = "got" THEN {nblock} ELSE {})

\* No block of the chain is offered.
Apart(b, n) == \A i \in 0 .. n : b[i] \notin Fresh

\* The file in the directory.
EntryPart ==
  /\ phase # "closed" => entry.size = 0
  /\ entry.size > 0 => \E b : Made(words, entry, b, kept)

\* What was flushed of the open file: its chain is not written any more.
Flushed(b) ==
  /\ Made(words, file.ctz, b, log) /\ Apart(b, lfs_ctz_index(file.ctz.size - 1))
  /\ file.writing => \A i \in 0 .. lfs_ctz_index(file.ctz.size - 1) : b[i] # file.block

FlushedPart ==
  /\ file.ctz.size <= file.pos
  /\ file.ctz.size > 0 => file.dirty /\ ~file.inline /\ \E b : Flushed(b)

\* lfs_file_relocate() is under way.
Moving == phase \in {"alloc", "got"} /\ why = "relocate"

(* The file reaches up to word off of block n: behind a word of it, or     *)
(* where its words begin.                                                  *)
Reaches(n, off) ==
  \/ off > Start(n) /\ At(file.pos - 1, n, off - 1)
  \/ off = Start(n) /\ At(file.pos, n, off)

\* The file ends in block n, and a block that has no word gets one.
Ending(n) ==
  /\ Reaches(n, file.off)
  /\ file.off = Start(n) => todo > 0 /\ (phase = "write" \/ Moving)

\* What is being written.
Grown(n, b) ==
  /\ n \in Nat /\ Linked(words, b, n) /\ b[n] = file.block
  /\ \A i \in 0 .. n - 1 : b[i] # file.block
  /\ Holds(words, b, file.pos, log) /\ Apart(b, n) /\ Ending(n)

GrowingPart == file.writing => \E n, b : Grown(n, b)

\* What the allocator offers is free, and what it is asked for.
FreePart ==
  /\ \A x \in Fresh : x \notin Pair \cup other
  /\ phase = "got" => nblock \notin Window
  /\ free.size <= BlockCount
  /\ phase # "closed" => file.pos = Len(log)
  /\ file.writing => file.block \notin Pair \cup other
  /\ phase \in {"alloc", "got"} => todo > 0
  /\ Moving => file.inline \/ (file.writing /\ file.off < BlockWords)
  /\ phase \in {"alloc", "got"} /\ why = "extend" =>
       /\ ~file.inline /\ (file.writing => file.off = BlockWords)
       /\ ~file.writing => file.block = file.ctz.head

Parts == EntryPart /\ FlushedPart /\ GrowingPart /\ FreePart

(* There are words of the file in the block that is written, up to where   *)
(* it is written next.                                                     *)
Started == file.pos > 0 /\ file.off = Used

(* The premise of the theorems: when lfs_file_relocate() needs a scan of   *)
(* the volume, it moves a block that has words of the file.  A block that  *)
(* turns out bad right after it was linked is moved within the lookahead   *)
(* buffer.                                                                 *)
ScansWhole == phase = "alloc" /\ Ahead = {} /\ Moving /\ file.writing => Started

-----------------------------------------------------------------------------
(* Steps that write nothing.                                               *)

\* Word pos is where the last block ends, or where it goes on.
LEMMA NotStarted ==
  ASSUME NEW n, NEW pos \in 1 .. FileWords, At(pos, n, Start(n))
  PROVE  Offset(pos - 1) + 1 # Start(n)
<1> DEFINE q == pos - 1
           m == lfs_ctz_index(q)
           o == Offset(q)
           u == Start(n)
<1>1. q \in Position /\ pos = q + 1 /\ q \in Nat
  BY Places, Sizes DEF Position
<1>2. At(q, m, o)
  BY <1>1, Located
<1>3. At(q + 1, n, u)
  BY <1>1
<1> HIDE DEF q, m, o
<1>4. /\ o \in 0 .. BlockWords - 1 /\ u \in 0 .. BlockWords - 2 /\ BlockWords \in Nat
      /\ Start(m) \in Nat /\ Start(m) <= o
  BY <1>2, <1>3, PlaceFacts, Sizes
<1>5. SUFFICES ASSUME o + 1 = u PROVE FALSE
  BY DEF o, q
<1>6. Start(m) <= o + 1 /\ o + 1 <= BlockWords - 1
  BY <1>4, <1>5
<1>7. At(q + 1, m, o + 1)
  BY <1>2, <1>6, Shift
<1>8. m = n
  BY <1>3, <1>7, SamePlace
<1>9. u <= o
  BY <1>4, <1>8
<1> QED BY <1>4, <1>5, <1>9

\* There is no block at the end of the file that has no word yet.
Settled ==
  (phase # "write" /\ ~Moving) \/ todo = 0 \/ file.off = BlockWords \/ Started

\* Then the chain that is being written is whole.
LEMMA GrownMade ==
  ASSUME FileInv, NEW n, NEW b, Grown(n, b), Settled
  PROVE  /\ file.pos \in 1 .. FileWords /\ n = lfs_ctz_index(file.pos - 1)
         /\ file.off > Start(n) /\ Offset(file.pos - 1) = file.off - 1
         /\ At(file.pos - 1, n, file.off - 1) /\ Made(words, Growing, b, log)
<1>1. file.pos \in 0 .. FileWords /\ file.off \in 0 .. BlockWords /\ FileWords \in Nat
  BY Sizes DEF FileInv, OpenType, OpenFile
<1>2. file.off > Start(n)
  <2>1. SUFFICES ASSUME ~(file.off > Start(n)) PROVE FALSE
    OBVIOUS
  <2>2. file.off = Start(n) /\ At(file.pos, n, file.off) /\ todo > 0
        /\ (phase = "write" \/ Moving)
    BY <2>1 DEF Grown, Ending, Reaches
  <2>3. todo # 0 /\ file.off \in 0 .. BlockWords - 1 /\ file.off # BlockWords
    BY <2>2, PlaceFacts, Sizes
  <2>4. file.pos > 0 /\ file.off = Offset(file.pos - 1) + 1
    BY <2>2, <2>3 DEF Settled, Started, Used
  <2>5. file.pos \in 1 .. FileWords
    BY <1>1, <2>4
  <2> QED BY <2>2, <2>4, <2>5, NotStarted
<1>3. At(file.pos - 1, n, file.off - 1)
  <2>1. Start(n) \in Nat
    BY PlaceFacts DEF Grown, Ending, Reaches
  <2>2. file.off # Start(n)
    BY <1>1, <1>2, <2>1
  <2> QED BY <1>2, <2>2 DEF Grown, Ending, Reaches
<1>4. file.pos - 1 \in Nat
  BY <1>3, PlaceFacts
<1>5. file.pos \in 1 .. FileWords
  BY <1>1, <1>4
<1>6. file.pos - 1 \in Position
  BY <1>5, Places
<1>7. n = lfs_ctz_index(file.pos - 1) /\ Offset(file.pos - 1) = file.off - 1
  BY <1>3, <1>6, PlaceOf
<1>8. Growing.size = file.pos /\ Growing.head = file.block
  BY DEF Growing
<1>9. Made(words, Growing, b, log)
  BY <1>7, <1>8 DEF Made, Grown
<1> QED BY <1>2, <1>3, <1>5, <1>7, <1>9

\* The blocks of the file are in use.
LEMMA Covered ==
  ASSUME FileInv, Parts
  PROVE  /\ \A b : file.ctz.size > 0 /\ Flushed(b) =>
              \A i \in 0 .. lfs_ctz_index(file.ctz.size - 1) : b[i] \in lfs_fs_rawtraverse
         /\ \A n, b : file.writing /\ Grown(n, b) /\ Settled =>
              \A i \in 0 .. n : b[i] \in lfs_fs_rawtraverse
<1>1. ASSUME file.ctz.size > 0, NEW b, Flushed(b)
      PROVE  \A i \in 0 .. lfs_ctz_index(file.ctz.size - 1) : b[i] \in lfs_fs_rawtraverse
  <2>1. file.dirty /\ ~file.inline
    BY <1>1 DEF Parts, FlushedPart
  <2>2. file.ctz.size \in 1 .. FileWords
    BY <1>1, Sizes DEF FileInv, OpenType, OpenFile, Chain, FileWords
  <2>3. lfs_ctz_traverse(file.ctz) = Blocks(b, lfs_ctz_index(file.ctz.size - 1))
    BY <1>1, <2>2, MadeTraverse DEF Flushed, FileInv
  <2>4. lfs_ctz_traverse(file.ctz) \subseteq lfs_fs_rawtraverse
    BY <2>1 DEF lfs_fs_rawtraverse
  <2> QED BY <2>3, <2>4 DEF Blocks
<1>2. ASSUME file.writing, NEW n, NEW b, Grown(n, b), Settled
      PROVE  \A i \in 0 .. n : b[i] \in lfs_fs_rawtraverse
  <2>1. /\ Growing.size \in 1 .. FileWords /\ n = lfs_ctz_index(Growing.size - 1)
        /\ Made(words, Growing, b, log)
    BY <1>2, GrownMade DEF Growing
  <2>2. lfs_ctz_traverse(Growing) = Blocks(b, n)
    BY <2>1, MadeTraverse DEF FileInv
  <2>3. ~file.inline
    BY <1>2 DEF FileInv, Place
  <2>4. lfs_ctz_traverse(Growing) \subseteq lfs_fs_rawtraverse
    BY <1>2, <2>3 DEF lfs_fs_rawtraverse
  <2> QED BY <2>2, <2>4 DEF Blocks
<1> QED BY <1>1, <1>2

\* Steps that leave the words and the end of the file as they are.
LEMMA QuietStep ==
  ASSUME FileInv, Parts, phase # "closed",
         words' = words, log' = log, entry' = entry,
         file'.ctz = file.ctz, file'.pos = file.pos, file'.off = file.off,
         file'.writing = file.writing, file'.inline = file.inline, file'.dirty = file.dirty,
         file.writing => file'.block = file.block,
         file.writing => Settled \/ (Fresh' \subseteq Fresh /\ Moving' /\ todo' = todo),
         \A x \in Fresh' : x \in Fresh \/ x \notin lfs_fs_rawtraverse
  PROVE  EntryPart' /\ FlushedPart' /\ GrowingPart'
<1>1. entry.size = 0
  BY DEF Parts, EntryPart
<1>2. EntryPart'
  BY <1>1 DEF EntryPart
<1>3. FlushedPart'
  <2>1. file'.ctz.size <= file'.pos
    BY DEF Parts, FlushedPart
  <2>2. SUFFICES ASSUME file.ctz.size > 0
                 PROVE  file'.dirty /\ ~file'.inline /\ \E b : Flushed(b)'
    BY <2>1 DEF FlushedPart
  <2>3. file.dirty /\ ~file.inline
    BY <2>2 DEF Parts, FlushedPart
  <2>4. PICK b : Flushed(b)
    BY <2>2 DEF Parts, FlushedPart
  <2> DEFINE n == lfs_ctz_index(file.ctz.size - 1)
  <2>5. \A i \in 0 .. n : b[i] \in lfs_fs_rawtraverse
    BY <2>2, <2>4, Covered
  <2>6. \A i \in 0 .. n : b[i] \notin Fresh'
    BY <2>4, <2>5 DEF Flushed, Apart
  <2>7. n = lfs_ctz_index(file'.ctz.size - 1)
    OBVIOUS
  <2>8. Made(words', file'.ctz, b, log')
    BY <2>4 DEF Flushed
  <2>9. file'.writing => \A i \in 0 .. n : b[i] # file'.block
    BY <2>4 DEF Flushed
  <2> HIDE DEF n
  <2>10. Flushed(b)'
    BY <2>6, <2>7, <2>8, <2>9 DEF Flushed, Apart
  <2> QED BY <2>3, <2>10
<1>4. GrowingPart'
  <2>1. SUFFICES ASSUME file.writing PROVE \E n, b : Grown(n, b)'
    BY DEF GrowingPart
  <2>2. PICK n, b : Grown(n, b)
    BY <2>1 DEF Parts, GrowingPart
  <2>3. Reaches(n, file.off)'
    BY <2>2 DEF Grown, Ending, Reaches
  <2>4. Ending(n)'
    <3>1. CASE Settled
      <4>1. file'.off > Start(n) /\ Start(n) \in Nat
        BY <2>2, <3>1, GrownMade, PlaceFacts
      <4>2. file'.off # Start(n)
        BY <4>1
      <4> QED BY <2>3, <4>2 DEF Ending
    <3>2. CASE Moving' /\ todo' = todo
      BY <2>2, <2>3, <3>2 DEF Grown, Ending
    <3> QED BY <2>1, <3>1, <3>2
  <2>5. \A i \in 0 .. n : b[i] \notin Fresh'
    <3>1. ASSUME NEW i \in 0 .. n, b[i] \in Fresh' PROVE FALSE
      <4>1. b[i] \notin Fresh
        BY <2>2 DEF Grown, Apart
      <4>2. b[i] \notin lfs_fs_rawtraverse /\ ~(Fresh' \subseteq Fresh)
        BY <3>1, <4>1
      <4>3. Settled
        BY <2>1, <4>2
      <4> QED BY <2>1, <2>2, <4>2, <4>3, Covered
    <3> QED BY <3>1
  <2>6. Grown(n, b)'
    BY <2>1, <2>2, <2>4, <2>5 DEF Grown, Apart
  <2> QED BY <2>6
<1> QED BY <1>2, <1>3, <1>4

\* The blocks that are offered if the lookahead buffer stays.
LEMMA SameWindow ==
  ASSUME free'.off = free.off, free'.i = free.i, free'.size = free.size, free'.used = free.used
  PROVE  Window' = Window
BY DEF Window, Ahead

\* The block that is taken was offered.
LEMMA AllocTakeChains ==
  ASSUME FileInv, Parts, AllocTake
  PROVE  Parts'
<1> DEFINE m == Min(Ahead)
<1>1. /\ phase = "alloc" /\ Ahead # {} /\ phase' = "got" /\ phase # "closed"
      /\ nblock' = (free.off + m) % BlockCount
      /\ UNCHANGED <<words, other, entry, todo, why, file, log, kept>>
  BY DEF AllocTake
<1>2. PICK next \in {Min((Ahead \ {m}) \cup {free.size})} :
        free' = [free EXCEPT !.i = next, !.ack = @ - (next - free.i)]
  BY DEF AllocTake
<1>3. free \in FreeList /\ free.i \in Nat /\ free.size \in Nat /\ free.off \in 0 .. BlockCount - 1
      /\ free.ack \in Nat /\ free.size <= BlockCount /\ BlockCount \in Nat \ {0}
  BY Sizes DEF FileInv, FreeType, FreeList, Block, Parts, FreePart
<1>4. Ahead \in SUBSET Nat /\ \A j \in Ahead : free.i <= j /\ j < free.size
  BY <1>3 DEF Ahead
<1>5. m \in Ahead /\ \A j \in Ahead : m <= j
  BY <1>1, <1>4, LeastOf
<1> HIDE DEF m
<1>6. next \in Nat /\ next > m
  <2> DEFINE S == (Ahead \ {m}) \cup {free.size}
  <2>1. ASSUME NEW j \in S PROVE j \in Nat /\ j > m
    <3>1. CASE j \in Ahead /\ j # m
      <4>1. j \in Nat /\ m \in Nat /\ m <= j
        BY <1>4, <1>5, <3>1
      <4> QED BY <3>1, <4>1
    <3>2. CASE j = free.size
      <4>1. m \in Nat /\ m < free.size
        BY <1>4, <1>5
      <4> QED BY <1>3, <3>2, <4>1
    <3> QED BY <3>1, <3>2
  <2>2. S # {}
    OBVIOUS
  <2>3. next = Min(S)
    OBVIOUS
  <2> HIDE DEF S
  <2>4. S \in SUBSET Nat
    BY <2>1
  <2>5. next \in S
    BY <2>2, <2>3, <2>4, LeastOf
  <2> QED BY <2>1, <2>5
<1>7. /\ free'.i = next /\ free'.size = free.size /\ free'.off = free.off
      /\ free'.used = free.used
  BY <1>2, <1>3 DEF FreeList
<1>8. Ahead' \subseteq Ahead \ {m}
  <2>1. SUFFICES ASSUME NEW j \in Ahead' PROVE j \in Ahead /\ j # m
    OBVIOUS
  <2>2. j \in next .. free.size - 1 /\ j \notin free.used
    BY <1>7 DEF Ahead
  <2>3. m \in Nat /\ free.i <= m
    BY <1>4, <1>5
  <2>4. j \in free.i .. free.size - 1 /\ j # m
    BY <1>3, <1>6, <2>2, <2>3
  <2> QED BY <2>2, <2>4 DEF Ahead
<1>9. nblock' \in Window
  BY <1>1, <1>5 DEF Window
<1>10. Window' \subseteq Window
  BY <1>7, <1>8 DEF Window
<1>11. Fresh' \subseteq Fresh
  BY <1>1, <1>9, <1>10 DEF Fresh
<1>12. EntryPart' /\ FlushedPart' /\ GrowingPart'
  <2>1. Settled \/ Moving'
    BY <1>1 DEF Settled, Moving
  <2> QED BY <1>1, <1>11, <2>1, QuietStep
<1>13. nblock' \notin Window'
  <2>1. SUFFICES ASSUME NEW j \in Ahead \ {m},
                        (free.off + j) % BlockCount = (free.off + m) % BlockCount
                 PROVE  FALSE
    BY <1>1, <1>7, <1>8 DEF Window
  <2>2. j \in 0 .. BlockCount - 1 /\ m \in 0 .. BlockCount - 1 /\ j # m
    BY <1>3, <1>4, <1>5
  <2> DEFINE o == free.off
  <2>3. o \in 0 .. BlockCount - 1
    BY <1>3
  <2> HIDE DEF o
  <2>4. ASSUME NEW x \in 0 .. BlockCount - 1
        PROVE (o + x) % BlockCount = IF o + x < BlockCount THEN o + x ELSE o + x - BlockCount
    <3>1. CASE o + x < BlockCount
      <4>1. o + x \in 0 .. BlockCount - 1
        BY <1>3, <2>3, <3>1
      <4> QED BY <1>3, <3>1, <4>1, SmallRest
    <3>2. CASE ~(o + x < BlockCount)
      <4> DEFINE r == o + x - BlockCount
      <4>1. r \in 0 .. BlockCount - 1 /\ 1 \in Nat /\ 1 * BlockCount + r = o + x
        BY <1>3, <2>3, <3>2
      <4> HIDE DEF r
      <4>2. (1 * BlockCount + r) % BlockCount = r
        BY <1>3, <4>1, DivModOf
      <4> QED BY <3>2, <4>1, <4>2 DEF r
    <3> QED BY <3>1, <3>2
  <2>5. (o + j) % BlockCount = (o + m) % BlockCount
    BY <2>1 DEF o
  <2> QED BY ONLY <1>3, <2>2, <2>3, <2>4, <2>5
<1>14. FreePart'
  <2>1. FreePart
    BY DEF Parts
  <2>2. \A x \in Fresh' : x \notin Pair \cup other'
    BY <1>1, <1>11, <2>1 DEF FreePart
  <2> QED BY <1>1, <1>7, <1>13, <2>1, <2>2 DEF FreePart, Moving
<1> QED BY <1>12, <1>14 DEF Parts

\* What is offered next was free when it was looked at.
LEMMA AllocScanChains ==
  ASSUME FileInv, Parts, ScansWhole, AllocScan
  PROVE  Parts'
<1> DEFINE off  == NextOff
           size == Part(Left)
           used == Bitmap(off, size)
<1>1. /\ phase = "alloc" /\ phase' = "alloc" /\ Left > 0 /\ Ahead = {}
      /\ free' = [off |-> off, size |-> size, i |-> 0, ack |-> Left, used |-> used]
      /\ UNCHANGED <<words, other, entry, todo, why, file, log, kept>>
  BY DEF AllocScan
<1>2. free'.off = off /\ free'.size = size /\ free'.i = 0 /\ free'.used = used
  <2> HIDE DEF off, size, used
  <2> QED BY <1>1
<1>3. \A x \in Fresh' : x \notin lfs_fs_rawtraverse
  <2>1. SUFFICES ASSUME NEW j \in Ahead', (free'.off + j) % BlockCount \in lfs_fs_rawtraverse
                 PROVE  FALSE
    BY <1>1 DEF Fresh, Window
  <2>2. j \in 0 .. size - 1 /\ j \notin used
    <3> HIDE DEF off, size, used
    <3> QED BY <1>2 DEF Ahead
  <2> DEFINE x == (off + j) % BlockCount
  <2>3. x \in 0 .. BlockCount - 1 /\ BlockCount \in Nat \ {0}
    <3>1. off \in Nat /\ BlockCount \in Nat \ {0}
      BY NextOffBlock, Sizes DEF FileInv, Block
    <3> HIDE DEF off, size
    <3>2. off + j \in Nat
      BY <2>2, <3>1
    <3> QED BY <3>1, <3>2, DivMod
  <2>4. x % BlockCount = x /\ x \in lfs_fs_rawtraverse
    <3>1. x \in lfs_fs_rawtraverse
      BY <1>2, <2>1
    <3> HIDE DEF x
    <3> QED BY <2>3, <3>1, SmallRest
  <2>5. j \in used
    <3> HIDE DEF off, size
    <3> QED BY <2>2, <2>4 DEF Bitmap
  <2> QED BY <2>2, <2>5
<1>4. size <= BlockCount
  <2>1. Left \in Nat /\ Left <= BlockCount /\ BlockCount \in Nat /\ Lookahead \in Nat
    BY <1>1, Sizes DEF Left, FileInv, FreeType, FreeList
  <2> HIDE DEF Left
  <2> QED BY <2>1, MinOfTwo DEF Part
<1> HIDE DEF off, size, used
<1>5. EntryPart' /\ FlushedPart' /\ GrowingPart'
  <2>1. file.writing => Settled
    BY <1>1 DEF ScansWhole, Settled
  <2> QED BY <1>1, <1>3, <2>1, QuietStep
<1>6. FreePart'
  <2>1. FreePart
    BY DEF Parts
  <2>2. Pair \cup other \subseteq lfs_fs_rawtraverse
    BY DEF lfs_fs_rawtraverse
  <2>3. \A x \in Fresh' : x \notin Pair \cup other'
    BY <1>1, <1>3, <2>2
  <2> QED BY <1>1, <1>2, <1>4, <2>1, <2>3 DEF FreePart, Moving
<1> QED BY <1>5, <1>6 DEF Parts

\* Nothing is offered when a write has failed.
LEMMA WriteFailsChains ==
  ASSUME FileInv, Parts, phase # "closed", file.writing => Settled, WriteFails,
         Ahead' = {}, free'.size <= BlockCount,
         UNCHANGED <<words, other, entry, why, log, kept>>
  PROVE  Parts'
<1>1. phase' \in {"idle", "stuck"} /\ file' = [file EXCEPT !.erred = TRUE]
  BY DEF WriteFails
<1>2. /\ file'.ctz = file.ctz /\ file'.pos = file.pos /\ file'.off = file.off
      /\ file'.writing = file.writing /\ file'.inline = file.inline
      /\ file'.dirty = file.dirty /\ file'.block = file.block
  BY <1>1 DEF FileInv, OpenType, OpenFile
<1>3. Fresh' = {}
  BY <1>1 DEF Fresh, Window
<1>4. EntryPart' /\ FlushedPart' /\ GrowingPart'
  BY <1>2, <1>3, QuietStep
<1>5. FreePart'
  <2>1. FreePart
    BY DEF Parts
  <2> QED BY <1>1, <1>2, <1>3, <2>1 DEF FreePart, Moving
<1> QED BY <1>4, <1>5 DEF Parts

LEMMA AllocFailChains ==
  ASSUME FileInv, Parts, ScansWhole, AllocFail
  PROVE  Parts'
<1>1. /\ phase = "alloc" /\ Ahead = {} /\ WriteFails
      /\ free' = [free EXCEPT !.i = free.size, !.ack = 0]
      /\ UNCHANGED <<words, other, entry, why, log, kept>>
  BY DEF AllocFail
<1>2. free'.i = free.size /\ free'.size = free.size /\ free.size \in Nat
  BY <1>1 DEF FileInv, FreeType, FreeList
<1>3. Ahead' = {} /\ free'.size <= BlockCount
  BY <1>2 DEF Ahead, Parts, FreePart
<1>4. file.writing => Settled
  BY <1>1 DEF ScansWhole, Settled
<1> QED BY <1>1, <1>3, <1>4, WriteFailsChains

LEMMA AllocCorruptChains ==
  ASSUME FileInv, Parts, ScansWhole, AllocCorrupt
  PROVE  Parts'
<1>1. /\ phase = "alloc" /\ Ahead = {} /\ WriteFails /\ free' = lfs_alloc_drop(NextOff)
      /\ UNCHANGED <<words, other, entry, why, log, kept>>
  BY DEF AllocCorrupt
<1>2. Ahead' = {} /\ free'.size <= BlockCount
  BY <1>1, Sizes DEF lfs_alloc_drop, Ahead
<1>3. file.writing => Settled
  BY <1>1 DEF ScansWhole, Settled
<1> QED BY <1>1, <1>2, <1>3, WriteFailsChains

\* Words that could not be moved are tried again, in vain.
LEMMA StuckChains ==
  ASSUME FileInv, Parts, ExtWriteStuck \/ AssertFails
  PROVE  Parts'
<1>1. /\ phase \in {"stuck", "again"} /\ phase' \in {"again", "hung"}
      /\ UNCHANGED <<words, other, entry, why, nblock, free, file, log, kept>>
  BY DEF ExtWriteStuck, AssertFails
<1>2. Fresh' = Fresh
  BY <1>1, SameWindow DEF Fresh
<1>3. Settled
  BY <1>1 DEF Settled, Moving
<1>4. EntryPart' /\ FlushedPart' /\ GrowingPart'
  BY <1>1, <1>2, <1>3, QuietStep
<1>5. FreePart'
  <2>1. FreePart
    BY DEF Parts
  <2> QED BY <1>1, <1>2, <2>1 DEF FreePart, Moving
<1> QED BY <1>4, <1>5 DEF Parts

\* What is extended is the chain that was written, or that was flushed.
LEMMA ExtendChains ==
  ASSUME FileInv, Parts, Extend
  PROVE  Parts'
<1>1. /\ phase = "write" /\ todo > 0 /\ NeedsBlock
      /\ UNCHANGED <<words, other, entry, nblock, log, kept>>
  BY DEF Extend
<1>2. ~file.inline /\ (file.writing => file.off = BlockWords)
  BY <1>1 DEF FileInv, Place, NeedsBlock
<1>3. Last \in Block /\ (file.writing => Last = file.block)
      /\ (~file.writing => Last = file.ctz.head)
  <2>1. CASE file.writing
    BY <2>1 DEF Last, FileInv, Place
  <2>2. CASE ~file.writing
    <3>1. file.pos > 0 /\ file.ctz.size = file.pos /\ file.pos \in 0 .. FileWords
      BY <1>2, <2>2 DEF FileInv, Place, OpenType, OpenFile
    <3>2. file.pos \in 1 .. FileWords
      BY <3>1, Sizes
    <3>3. PICK b : Flushed(b)
      BY <3>1 DEF Parts, FlushedPart
    <3> DEFINE n == lfs_ctz_index(file.pos - 1)
    <3>4. n \in Index /\ n \in Nat
      BY <3>2, Places
    <3>5. Linked(words, b, n) /\ file.ctz.head = b[n] /\ lfs_ctz_index(file.ctz.size - 1) = n
      BY <3>1, <3>3 DEF Flushed, Made
    <3>6. lfs_ctz_index(file.pos - 1) \in 0 .. n
      BY <3>4
    <3>7. lfs_ctz_find(file.ctz, file.pos - 1) = b[lfs_ctz_index(file.pos - 1)]
      <4> HIDE DEF n
      <4> QED BY <3>4, <3>5, <3>6, FindIs DEF FileInv
    <3>8. file.ctz.head \in Block
      BY DEF FileInv, OpenType, OpenFile, Chain
    <3> QED BY <2>2, <3>5, <3>7, <3>8 DEF Last
  <2> QED BY <2>1, <2>2
<1>4. /\ phase' = "alloc" /\ why' = "extend" /\ free' = lfs_alloc_ack
      /\ file' = [file EXCEPT !.block = Last] /\ UNCHANGED todo
  <2>1. Last # Corrupt
    BY <1>3, PointerWord
  <2> QED BY <2>1 DEF Extend
<1>5. /\ file'.ctz = file.ctz /\ file'.pos = file.pos /\ file'.off = file.off
      /\ file'.writing = file.writing /\ file'.inline = file.inline
      /\ file'.dirty = file.dirty /\ file'.block = Last
  BY <1>4 DEF FileInv, OpenType, OpenFile
<1>6. /\ free'.off = free.off /\ free'.i = free.i /\ free'.size = free.size
      /\ free'.used = free.used
  BY <1>4 DEF FileInv, FreeType, FreeList, lfs_alloc_ack
<1>7. Fresh' = Fresh
  BY <1>1, <1>4, <1>6, SameWindow DEF Fresh
<1>8. EntryPart' /\ FlushedPart' /\ GrowingPart'
  <2>1. file.writing => Settled
    BY <1>2 DEF Settled
  <2> QED BY <1>1, <1>3, <1>5, <1>7, <2>1, QuietStep
<1>9. FreePart'
  <2>1. FreePart
    BY DEF Parts
  <2> QED BY <1>1, <1>2, <1>3, <1>4, <1>5, <1>6, <1>7, <2>1 DEF FreePart, Moving
<1> QED BY <1>8, <1>9 DEF Parts

\* A record has been written.
LEMMA WrittenChains ==
  ASSUME FileInv, Parts, Written
  PROVE  Parts'
<1>1. /\ phase = "write" /\ todo = 0 /\ phase' = "idle" /\ phase # "closed"
      /\ file' = [file EXCEPT !.erred = FALSE]
      /\ UNCHANGED <<words, other, entry, todo, why, free, log, kept>>
  BY DEF Written
<1>2. /\ file'.ctz = file.ctz /\ file'.pos = file.pos /\ file'.off = file.off
      /\ file'.writing = file.writing /\ file'.inline = file.inline
      /\ file'.dirty = file.dirty /\ file'.block = file.block
  BY <1>1 DEF FileInv, OpenType, OpenFile
<1>3. Fresh' = Fresh
  BY <1>1, SameWindow DEF Fresh
<1>4. EntryPart' /\ FlushedPart' /\ GrowingPart'
  <2>1. Settled
    BY <1>1 DEF Settled
  <2> QED BY <1>1, <1>2, <1>3, <2>1, QuietStep
<1>5. FreePart'
  <2>1. FreePart
    BY DEF Parts
  <2> QED BY <1>1, <1>2, <1>3, <2>1 DEF FreePart, Moving
<1> QED BY <1>4, <1>5 DEF Parts

\* A file that is not open, or is open and empty.
LEMMA NewFileParts ==
  file = NewFile => FlushedPart /\ GrowingPart /\ ~file.writing /\ file.pos = 0
<1> SUFFICES ASSUME file = NewFile
             PROVE  FlushedPart /\ GrowingPart /\ ~file.writing /\ file.pos = 0
  OBVIOUS
<1>1. file.ctz.size = 0 /\ file.pos = 0 /\ ~file.writing
  BY DEF NewFile, Empty
<1> QED BY <1>1 DEF FlushedPart, GrowingPart

\* After lfs_mount() the lookahead buffer is empty.
LEMMA DropFresh ==
  ASSUME NEW off \in Block, free = lfs_alloc_drop(off), phase # "got"
  PROVE  Fresh = {} /\ free.size = 0
<1>1. free.i = 0 /\ free.size = 0
  BY DEF lfs_alloc_drop
<1>2. Ahead = {}
  BY <1>1 DEF Ahead
<1> QED BY <1>1, <1>2 DEF Fresh, Window

\* What FOPEN leaves, and how a volume begins that was not mounted yet.
Opened ==
  /\ file = NewFile /\ entry = Empty /\ log = <<>> /\ phase \in {"closed", "idle"}
  /\ \E off \in Block : free = lfs_alloc_drop(off)

\* It has no chains, and offers nothing.
LEMMA OpenedParts == Opened => Parts
<1> SUFFICES ASSUME Opened PROVE Parts
  OBVIOUS
<1>1. FlushedPart /\ GrowingPart /\ ~file.writing /\ file.pos = 0
  BY NewFileParts DEF Opened
<1>2. Fresh = {} /\ free.size = 0
  BY DropFresh DEF Opened
<1>3. EntryPart
  BY DEF EntryPart, Empty, Opened
<1>4. Len(log) = 0
  BY DEF Opened
<1>5. FreePart
  BY <1>1, <1>2, <1>4, Sizes DEF FreePart, Moving, Opened
<1> QED BY <1>1, <1>3, <1>5 DEF Parts

\* A file is opened.
LEMMA FopenChains == Fopen => Parts'
<1>1. Opened' => Parts'
  BY OpenedParts, PTL
<1>2. Fopen => Opened'
  BY DEF Fopen, Opened
<1> QED BY <1>1, <1>2

\* No file is open.
LEMMA ClosedParts == file' = NewFile => FlushedPart' /\ GrowingPart' /\ ~file'.writing
<1>1. (file = NewFile)' => FlushedPart' /\ GrowingPart' /\ (~file.writing)'
  BY NewFileParts, PTL
<1>2. file' = NewFile => (file = NewFile)'
  BY DEF NewFile
<1> QED BY <1>1, <1>2

\* The file in the directory stays.
LEMMA PowerLossChains ==
  ASSUME FileInv, Parts, PowerLoss
  PROVE  Parts'
<1>1. /\ phase' = "closed" /\ file' = NewFile /\ phase # "closed"
      /\ UNCHANGED <<words, other, entry, free, kept>>
  BY DEF PowerLoss
<1>2. FlushedPart' /\ GrowingPart' /\ ~file'.writing
  BY <1>1, ClosedParts
<1>3. Window' = Window
  BY <1>1, SameWindow
<1>4. EntryPart'
  BY <1>1 DEF Parts, EntryPart
<1>5. FreePart'
  BY <1>1, <1>2, <1>3 DEF Parts, FreePart, Moving, Fresh
<1> QED BY <1>2, <1>4, <1>5 DEF Parts

\* The file that is committed is the one that was flushed.
LEMMA FcloseChains ==
  ASSUME FileInv, Parts, Fclose
  PROVE  Parts'
<1>1. /\ phase \in {"idle", "stuck"} /\ phase' = "closed" /\ file' = NewFile
      /\ UNCHANGED <<words, other, free>>
      /\ \/ entry' = entry /\ kept' = kept
         \/ entry' = lfs_file_flush.ctz /\ kept' = log
  BY DEF Fclose
<1>2. FlushedPart' /\ GrowingPart' /\ ~file'.writing
  BY <1>1, ClosedParts
<1>3. Window' = Window
  BY <1>1, SameWindow
<1>4. EntryPart'
  <2>1. CASE entry' = entry /\ kept' = kept
    BY <1>1, <2>1 DEF Parts, EntryPart
  <2>2. CASE entry' = lfs_file_flush.ctz /\ kept' = log
    <3>1. SUFFICES ASSUME lfs_file_flush.ctz.size > 0
                   PROVE  \E b : Made(words, lfs_file_flush.ctz, b, log)
      BY <1>1, <2>2 DEF EntryPart
    <3>2. CASE file.writing
      <4>1. lfs_file_flush.ctz = Growing
        BY <3>2 DEF lfs_file_flush, FileInv, OpenType, OpenFile
      <4>2. PICK n, b : Grown(n, b)
        BY <3>2 DEF Parts, GrowingPart
      <4>3. Settled
        BY <1>1 DEF Settled, Moving
      <4>4. Made(words, Growing, b, log)
        BY <4>2, <4>3, GrownMade
      <4> QED BY <4>1, <4>4
    <3>3. CASE ~file.writing
      <4>1. lfs_file_flush.ctz = file.ctz
        BY <3>3 DEF lfs_file_flush
      <4>2. PICK b : Flushed(b)
        BY <3>1, <4>1 DEF Parts, FlushedPart
      <4> QED BY <4>1, <4>2 DEF Flushed
    <3> QED BY <3>2, <3>3
  <2> QED BY <1>1, <2>1, <2>2
<1>5. FreePart'
  BY <1>1, <1>2, <1>3 DEF Parts, FreePart, Moving, Fresh
<1> QED BY <1>2, <1>4, <1>5 DEF Parts

\* Rewinding flushes the chain that was written.
LEMMA ExtWriteChains ==
  ASSUME FileInv, Parts, ExtWrite
  PROVE  Parts'
<1>1. /\ phase = "idle" /\ sent' = sent + 1 /\ todo' = RecordWords
      /\ file' = [Rewound EXCEPT !.off = IF file.inline THEN file.pos ELSE @]
      /\ UNCHANGED <<words, other, entry, nblock, log, kept>>
      /\ \/ file.inline /\ phase' = "alloc" /\ why' = "relocate" /\ free' = lfs_alloc_ack
         \/ ~file.inline /\ phase' = "write" /\ why' = why /\ free' = free
  BY DEF ExtWrite
<1>2. OpenType /\ Place /\ FreePart /\ file \in OpenFile /\ RecordWords > 0
  BY Sizes DEF FileInv, OpenType, Parts
<1>3. /\ free'.off = free.off /\ free'.i = free.i /\ free'.size = free.size
      /\ free'.used = free.used
  BY <1>1 DEF FileInv, FreeType, FreeList, lfs_alloc_ack
<1>4. Fresh' = Fresh
  BY <1>1, <1>3, SameWindow DEF Fresh
<1>5. CASE file.inline
  <2>1. file.pos = 0 /\ file.off = 0 /\ ~file.writing
    BY <1>2, <1>5 DEF Place
  <2>2. file' = [file EXCEPT !.off = 0]
    BY <1>1, <1>5, <2>1 DEF Rewound
  <2>3. /\ file'.ctz = file.ctz /\ file'.pos = file.pos /\ file'.off = file.off
        /\ file'.writing = file.writing /\ file'.inline = file.inline
        /\ file'.dirty = file.dirty /\ file'.block = file.block
    BY <1>2, <2>1, <2>2 DEF OpenFile
  <2>4. EntryPart' /\ FlushedPart' /\ GrowingPart'
    BY <1>1, <1>4, <2>1, <2>3, QuietStep
  <2>5. FreePart'
    BY <1>1, <1>2, <1>3, <1>4, <1>5, <2>1, <2>3 DEF FreePart, Moving
  <2> QED BY <2>4, <2>5 DEF Parts
<1>6. CASE ~file.inline /\ ~file.writing
  <2>1. file.pos > 0 /\ file.pos = file.ctz.size
    BY <1>2, <1>6 DEF Place
  <2>2. file' = [[file EXCEPT !.pos = file.ctz.size] EXCEPT !.off = @]
    BY <1>1, <1>6, <2>1 DEF Rewound, lfs_file_flush
  <2>3. /\ file'.ctz = file.ctz /\ file'.pos = file.pos /\ file'.off = file.off
        /\ file'.writing = file.writing /\ file'.inline = file.inline
        /\ file'.dirty = file.dirty /\ file'.block = file.block
    BY <1>2, <2>1, <2>2 DEF OpenFile
  <2>4. EntryPart' /\ FlushedPart' /\ GrowingPart'
    BY <1>1, <1>4, <1>6, <2>3, QuietStep
  <2>5. FreePart'
    BY <1>1, <1>2, <1>3, <1>4, <1>6, <2>3 DEF FreePart, Moving
  <2> QED BY <2>4, <2>5 DEF Parts
<1>7. CASE ~file.inline /\ file.writing
  <2>1. PICK n, b : Grown(n, b)
    BY <1>7 DEF Parts, GrowingPart
  <2>2. /\ file.pos \in 1 .. FileWords /\ n = lfs_ctz_index(file.pos - 1)
        /\ Made(words, Growing, b, log)
    <3>1. Settled
      BY <1>1 DEF Settled, Moving
    <3> QED BY <2>1, <3>1, GrownMade
  <2>3. Growing.size = file.pos
    BY DEF Growing
  <2> DEFINE flushed == [file EXCEPT !.ctz = Growing, !.writing = FALSE, !.dirty = TRUE]
  <2>4. lfs_file_flush = flushed /\ file.pos # 0
    BY <1>7, <2>2, Sizes DEF lfs_file_flush
  <2>5. /\ flushed.ctz = Growing /\ ~flushed.writing /\ flushed.dirty
        /\ flushed.inline = file.inline /\ flushed.pos = file.pos /\ flushed.off = file.off
        /\ flushed.block = file.block /\ DOMAIN flushed = DOMAIN file
    BY <1>2 DEF OpenFile
  <2>6. file' = [[flushed EXCEPT !.pos = flushed.ctz.size] EXCEPT !.off = @]
    BY <1>1, <1>7, <2>4 DEF Rewound
  <2>7. DOMAIN file = {"block", "off", "pos", "ctz", "inline", "writing", "dirty", "erred"}
    BY <1>2 DEF OpenFile
  <2> HIDE DEF flushed
  <2>8. /\ file'.ctz = Growing /\ file'.pos = file.pos
        /\ ~file'.writing /\ file'.inline = file.inline /\ file'.dirty
    BY <2>3, <2>5, <2>6, <2>7
  <2>9. Flushed(b)'
    <3>1. lfs_ctz_index(file'.ctz.size - 1) = n
      BY <2>2, <2>3, <2>8
    <3>2. Apart(b, n)
      BY <2>1 DEF Grown
    <3>3. \A i \in 0 .. n : b[i] \notin Fresh'
      BY <1>4, <3>2 DEF Apart
    <3>4. Made(words', file'.ctz, b, log')
      BY <1>1, <2>2, <2>8
    <3> QED BY <2>8, <3>1, <3>3, <3>4 DEF Flushed, Apart
  <2>10. FlushedPart'
    <3>1. file'.ctz.size <= file'.pos
      BY <2>2, <2>3, <2>8, Sizes
    <3> QED BY <1>7, <2>8, <2>9, <3>1 DEF FlushedPart
  <2>11. EntryPart' /\ GrowingPart'
    BY <1>1, <2>8 DEF Parts, EntryPart, GrowingPart
  <2>12. FreePart'
    BY <1>1, <1>2, <1>3, <1>4, <1>7, <2>8 DEF FreePart, Moving
  <2> QED BY <2>10, <2>11, <2>12 DEF Parts
<1> QED BY <1>5, <1>6, <1>7

\* A chain whose blocks stay as they are.
LEMMA LinkedStays ==
  ASSUME NEW w, NEW v, NEW n, NEW b, Linked(w, b, n), n \in Nat,
         \A i \in 0 .. n : v[b[i]] = w[b[i]]
  PROVE  Linked(v, b, n)
<1>1. \A i \in 1 .. n : v[b[i]] = w[b[i]]
  OBVIOUS
<1> QED BY <1>1 DEF Linked

\* A chain none of whose blocks is written stays as it is.
LEMMA MadeStays ==
  ASSUME NEW w, NEW v, NEW c, NEW b, NEW s, NEW t,
         c.size \in 1 .. FileWords, Made(w, c, b, s),
         \A i \in 0 .. lfs_ctz_index(c.size - 1) : v[b[i]] = w[b[i]],
         \A k \in 1 .. c.size : t[k] = s[k]
  PROVE  Made(v, c, b, t)
<1> DEFINE n == lfs_ctz_index(c.size - 1)
<1>1. n \in Nat /\ c.size \in Nat /\ \A p \in 0 .. c.size - 1 : lfs_ctz_index(p) \in 0 .. n
  BY Places, Sizes
<1>2. Linked(w, b, n) /\ b[n] = c.head /\ Holds(w, b, c.size, s)
  BY DEF Made
<1> HIDE DEF n
<1>3. \A i \in 0 .. n : v[b[i]] = w[b[i]]
  BY DEF n
<1>4. Linked(v, b, n)
  BY <1>1, <1>2, <1>3, LinkedStays
<1>5. Holds(v, b, c.size, t)
  <2>1. SUFFICES ASSUME NEW p \in 0 .. c.size - 1
                 PROVE  v[b[lfs_ctz_index(p)]][Offset(p)] = t[p + 1]
    BY DEF Holds
  <2>2. p + 1 \in 1 .. c.size
    BY <1>1
  <2>3. w[b[lfs_ctz_index(p)]][Offset(p)] = s[p + 1]
    BY <1>2 DEF Holds
  <2>4. v[b[lfs_ctz_index(p)]] = w[b[lfs_ctz_index(p)]]
    BY <1>1, <1>3
  <2> QED BY <2>2, <2>3, <2>4
<1> QED BY <1>2, <1>4, <1>5 DEF Made, n

(* What was flushed is not touched by what is written after it: that goes  *)
(* to a block that was free, or to the one that is being written.          *)
LEMMA FlushedStays ==
  ASSUME FileInv, Parts, phase # "closed",
         file'.ctz = file.ctz, file.pos <= file'.pos, file'.pos \in Nat,
         ~file'.inline, file'.dirty = file.dirty,
         \A k \in 1 .. Len(log) : log'[k] = log[k],
         \A c \in Block : c # file'.block => words'[c] = words[c],
         file'.block \in Fresh \/ (file.writing /\ file'.block = file.block),
         Fresh' \subseteq Fresh
  PROVE  FlushedPart'
<1>1. file.ctz.size \in 0 .. FileWords /\ file.pos \in 0 .. FileWords /\ FileWords \in Nat
  BY Sizes DEF FileInv, OpenType, OpenFile, Chain, FileWords
<1>2. file'.ctz.size <= file'.pos
  <2>1. file.ctz.size <= file.pos
    BY DEF Parts, FlushedPart
  <2> QED BY <1>1, <2>1
<1>3. SUFFICES ASSUME file.ctz.size > 0 PROVE file.dirty /\ \E b : Flushed(b)'
  BY <1>2 DEF FlushedPart
<1>4. PICK b : Flushed(b)
  BY <1>3 DEF Parts, FlushedPart
<1> DEFINE n == lfs_ctz_index(file.ctz.size - 1)
<1>5. file.ctz.size \in 1 .. FileWords /\ n = lfs_ctz_index(file'.ctz.size - 1)
  BY <1>1, <1>3
<1>6. Linked(words, b, n) /\ Apart(b, n) /\ (file.writing => \A i \in 0 .. n : b[i] # file.block)
      /\ Made(words, file.ctz, b, log)
  BY <1>4 DEF Flushed, Made
<1>7. \A k \in 1 .. file.ctz.size : log'[k] = log[k]
  <2>1. file.ctz.size <= file.pos /\ file.pos = Len(log)
    BY DEF Parts, FlushedPart, FreePart
  <2> QED BY <1>1, <2>1
<1>8. \A i \in 0 .. n : b[i] # file'.block
  BY <1>6 DEF Apart
<1>9. \A i \in 0 .. n : words'[b[i]] = words[b[i]]
  <2>1. \A i \in 0 .. n : b[i] \in Block
    BY <1>6 DEF Linked
  <2> QED BY <1>8, <2>1
<1>10. Made(words', file'.ctz, b, log')
  <2>1. Made(words', file.ctz, b, log')
    BY <1>5, <1>6, <1>7, <1>9, MadeStays
  <2> QED BY <2>1
<1>11. \A i \in 0 .. n : b[i] \notin Fresh'
  BY <1>6 DEF Apart
<1> HIDE DEF n
<1>12. Flushed(b)'
  BY <1>5, <1>8, <1>10, <1>11 DEF Flushed, Apart
<1> QED BY <1>3, <1>12 DEF Parts, FlushedPart

-----------------------------------------------------------------------------
(* The last block of a chain, up to where the file ends in it.             *)

\* What is left of a record fits into a file.
LEMMA Room == ASSUME FileInv, todo > 0 PROVE file.pos \in Position
<1>1. /\ file.pos \in 0 .. FileWords /\ todo \in 0 .. RecordWords /\ sent \in 0 .. MaxRecords
      /\ file.pos + todo <= sent * RecordWords
  BY DEF FileInv, OpenType, OpenFile, RestType, Place
<1>2. sent * RecordWords \in 0 .. FileWords /\ FileWords \in Nat /\ RecordWords \in Nat
  BY <1>1, SentWords, Sizes
<1> DEFINE x == sent * RecordWords
<1> HIDE DEF x
<1>3. x \in 0 .. FileWords /\ file.pos + todo <= x
  BY <1>1, <1>2 DEF x
<1>4. file.pos \in 0 .. FileWords - 1
  BY <1>1, <1>2, <1>3
<1> QED BY <1>4 DEF Position, FileWords

\* The words up to the one at the end of the file.
LEMMA UpTo ==
  ASSUME NEW q \in Position, NEW n, NEW o, At(q, n, o), NEW p \in 0 .. q
  PROVE  /\ lfs_ctz_index(p) \in 0 .. n /\ Offset(p) \in 0 .. BlockWords - 1
         /\ lfs_ctz_index(p) = n => Offset(p) = o - (q - p)
<1>1. lfs_ctz_index(q) = n /\ Offset(q) = o
  BY PlaceOf
<1>2. p \in Position
  BY Earlier
<1>3. Offset(p) \in 0 .. BlockWords - 1
  BY <1>2, Located, PlaceFacts
<1> QED BY <1>1, <1>3, Earlier

\* The file and the pointers of its last block are before that.
LEMMA Placed ==
  ASSUME FileInv, file.pos \in Position, NEW n, NEW off \in Nat, Reaches(n, off)
  PROVE  /\ n \in Nat /\ n \in Index /\ Start(n) \in Nat /\ Start(n) <= off
         /\ \A p \in 0 .. file.pos - 1 :
              /\ lfs_ctz_index(p) \in 0 .. n /\ Offset(p) \in 0 .. BlockWords - 1
              /\ lfs_ctz_index(p) = n => Offset(p) < off
         /\ n # 0 => \A k \in 0 .. lfs_ctz(n) : k < off /\ k \in 0 .. BlockWords - 1
<1>1. file.pos \in Nat /\ BlockWords \in Nat
  BY Sizes DEF Position
<1>2. /\ n \in Nat /\ n \in Index /\ Start(n) \in 0 .. BlockWords - 2 /\ Start(n) <= off
      /\ \A p \in 0 .. file.pos - 1 :
           /\ lfs_ctz_index(p) \in 0 .. n /\ Offset(p) \in 0 .. BlockWords - 1
           /\ lfs_ctz_index(p) = n => Offset(p) < off
  <2>1. CASE off > Start(n) /\ At(file.pos - 1, n, off - 1)
    <3> DEFINE q == file.pos - 1
               o == off - 1
    <3>1. /\ q \in Nat /\ At(q, n, o) /\ n \in Nat /\ n \in Index
          /\ Start(n) \in 0 .. BlockWords - 2
      BY <2>1, PlaceFacts
    <3>2. q \in Position
      BY <1>1, <3>1, Sizes DEF Position
    <3>3. q = file.pos - 1 /\ o = off - 1
      OBVIOUS
    <3> HIDE DEF q, o
    <3>4. ASSUME NEW p \in 0 .. q
          PROVE  /\ lfs_ctz_index(p) \in 0 .. n /\ Offset(p) \in 0 .. BlockWords - 1
                 /\ lfs_ctz_index(p) = n => Offset(p) < off
      <4>1. /\ lfs_ctz_index(p) \in 0 .. n /\ Offset(p) \in 0 .. BlockWords - 1
            /\ lfs_ctz_index(p) = n => Offset(p) = o - (q - p)
        BY <3>1, <3>2, UpTo
      <4>2. o - (q - p) < off
        BY <3>1, <3>3
      <4> QED BY <4>1, <4>2
    <3>5. Start(n) <= off
      BY <1>1, <2>1, <3>1
    <3> QED BY <3>1, <3>3, <3>4, <3>5
  <2>2. CASE off = Start(n) /\ At(file.pos, n, off)
    <3>1. n \in Nat /\ n \in Index /\ Start(n) \in 0 .. BlockWords - 2
      BY <2>2, PlaceFacts
    <3>2. ASSUME NEW p \in 0 .. file.pos - 1
          PROVE  /\ lfs_ctz_index(p) \in 0 .. n /\ Offset(p) \in 0 .. BlockWords - 1
                 /\ lfs_ctz_index(p) = n => Offset(p) < off
      <4>1. p \in 0 .. file.pos
        BY <1>1
      <4>2. /\ lfs_ctz_index(p) \in 0 .. n /\ Offset(p) \in 0 .. BlockWords - 1
            /\ lfs_ctz_index(p) = n => Offset(p) = off - (file.pos - p)
        BY <2>2, <4>1, UpTo
      <4>3. off - (file.pos - p) < off
        BY <1>1
      <4> QED BY <4>2, <4>3
    <3> QED BY <2>2, <3>1, <3>2
  <2> QED BY <2>1, <2>2 DEF Reaches
<1>3. ASSUME n # 0, NEW k \in 0 .. lfs_ctz(n) PROVE k < off /\ k \in 0 .. BlockWords - 1
  <2>1. Start(n) = lfs_ctz(n) + 1
    BY <1>3 DEF Start
  <2>2. lfs_ctz(n) \in Int
    <3>1. n \in 1 .. Pow2[29]
      BY <1>2, <1>3, Powers DEF Index
    <3> QED BY <3>1, CtzBits DEF Bit
  <2> QED BY <1>1, <1>2, <2>1, <2>2
<1> QED BY <1>1, <1>2, <1>3

(* All blocks of the chain but the last stay as they are, and of this one, *)
(* which may become another, the first off words.                          *)
SameUpTo(w, v, a, b, n, off) ==
  /\ b \in [0 .. n -> Block]
  /\ \A i \in 0 .. n - 1 : b[i] = a[i] /\ v[a[i]] = w[a[i]]
  /\ \A o \in 0 .. BlockWords - 1 : o < off => v[b[n]][o] = w[a[n]][o]

\* The chain stays whole.
LEMMA KeepsFirst ==
  ASSUME FileInv, file.pos \in Position, NEW n, NEW off \in Nat, Reaches(n, off),
         NEW a, NEW b, NEW v, Linked(words, a, n), Holds(words, a, file.pos, log),
         SameUpTo(words, v, a, b, n, off)
  PROVE  Linked(v, b, n) /\ Holds(v, b, file.pos, log)
<1>1. /\ n \in Nat /\ n \in Index
      /\ \A p \in 0 .. file.pos - 1 :
           /\ lfs_ctz_index(p) \in 0 .. n /\ Offset(p) \in 0 .. BlockWords - 1
           /\ lfs_ctz_index(p) = n => Offset(p) < off
      /\ n # 0 => \A k \in 0 .. lfs_ctz(n) : k < off /\ k \in 0 .. BlockWords - 1
  BY Placed
<1> USE DEF SameUpTo
<1>2. Linked(v, b, n)
  <2>1. SUFFICES ASSUME NEW i \in 1 .. n, NEW k \in 0 .. lfs_ctz(i)
                 PROVE  k < BlockWords /\ v[b[i]][k] = <<b[i - Pow2[k]]>>
    BY DEF Linked
  <2>2. k < BlockWords /\ words[a[i]][k] = <<a[i - Pow2[k]]>>
    BY DEF Linked
  <2>3. b[i - Pow2[k]] = a[i - Pow2[k]]
    <3>1. i - Pow2[k] \in 0 .. i - 1
      BY <1>1, LinkedPtr
    <3>2. i - Pow2[k] \in 0 .. n - 1
      BY <1>1, <3>1
    <3> QED BY <3>2
  <2>4. CASE i = n
    <3>1. k < off /\ k \in 0 .. BlockWords - 1
      BY <1>1, <2>4
    <3> QED BY <2>2, <2>3, <2>4, <3>1
  <2>5. CASE i # n
    <3>1. i \in 0 .. n - 1
      BY <1>1, <2>5
    <3> QED BY <2>2, <2>3, <3>1
  <2> QED BY <2>4, <2>5
<1>3. Holds(v, b, file.pos, log)
  <2>1. SUFFICES ASSUME NEW p \in 0 .. file.pos - 1
                 PROVE  v[b[lfs_ctz_index(p)]][Offset(p)] = log[p + 1]
    BY DEF Holds
  <2>2. words[a[lfs_ctz_index(p)]][Offset(p)] = log[p + 1]
    BY DEF Holds
  <2>3. CASE lfs_ctz_index(p) = n
    BY <1>1, <2>2, <2>3
  <2>4. CASE lfs_ctz_index(p) # n
    <3>1. lfs_ctz_index(p) \in 0 .. n - 1
      BY <1>1, <2>4
    <3> QED BY <2>2, <3>1
  <2> QED BY <2>3, <2>4
<1> QED BY <1>2, <1>3

-----------------------------------------------------------------------------
(* Program.                                                                *)

\* What lfs_bd_prog() does to the words.
LEMMA ProgramWords ==
  ASSUME FileInv, Programmed, file.block \in Block
  PROVE  /\ \A c \in Block : c # file.block => words'[c] = words[c]
         /\ \A o \in 0 .. BlockWords - 1 :
              words'[file.block][o] = IF Writing(o) THEN <<sent, NextWord + o - file.off>>
                                      ELSE words[file.block][o]
<1> DEFINE block == [i \in 0 .. BlockWords - 1 |->
                      IF Writing(i) THEN <<sent, NextWord + i - file.off>>
                      ELSE words[file.block][i]]
<1>1. words' = [words EXCEPT ![file.block] = block]
  BY DEF Programmed
<1>2. words \in [Block -> Content]
  BY DEF FileInv, WordsType
<1>3. words'[file.block] = block
  <2> HIDE DEF block
  <2> QED BY <1>1, <1>2
<1>4. \A c \in Block : c # file.block => words'[c] = words[c]
  <2> HIDE DEF block
  <2> QED BY <1>1, <1>2
<1> QED BY <1>3, <1>4

\* The words are programmed behind those of the block.
LEMMA ProgramChains ==
  ASSUME FileInv, Parts, Program
  PROVE  Parts'
<1> DEFINE d == Diff
<1>1. /\ phase = "write" /\ phase' = "write" /\ todo > 0 /\ ~NeedsBlock
      /\ file' = [file EXCEPT !.pos = @ + d, !.off = @ + d]
      /\ free' = lfs_alloc_ack /\ todo' = todo - d
      /\ UNCHANGED <<other, entry, why, nblock, sent, kept>>
  BY DEF Program
<1>2. /\ d \in 1 .. todo /\ file.off + d <= BlockWords
      /\ file.pos + d + (todo - d) <= sent * RecordWords
      /\ sent \in 1 .. MaxRecords /\ file.writing /\ ~file.inline /\ file.block \in Block
  BY <1>1, DiffFits
<1>3. /\ file.pos \in 0 .. FileWords /\ file.off \in 0 .. BlockWords
      /\ todo \in 0 .. RecordWords /\ sent * RecordWords \in 0 .. FileWords
      /\ RecordWords \in Nat /\ BlockWords \in Nat /\ FileWords \in Nat /\ file \in OpenFile
  BY <1>2, SentWords, Sizes DEF FileInv, OpenType, OpenFile, RestType
<1>4. /\ \A c \in Block : c # file.block => words'[c] = words[c]
      /\ \A o \in 0 .. BlockWords - 1 :
           words'[file.block][o] = IF Writing(o) THEN <<sent, NextWord + o - file.off>>
                                   ELSE words[file.block][o]
  BY <1>2, ProgramWords DEF Program
<1>5. /\ Len(log') = Len(log) + d /\ Len(log) \in Nat
      /\ \A k \in 1 .. Len(log) : log'[k] = log[k]
      /\ \A k \in 1 .. d : log'[Len(log) + k] = <<sent, NextWord + k - 1>>
  BY ProgramLog
<1>6. \A o : Writing(o) <=> o \in file.off .. file.off + d - 1
  BY DEF Writing
<1> HIDE DEF d
<1>7. file.pos + d \in 1 .. FileWords
  BY <1>2, <1>3
<1>8. /\ file'.pos = file.pos + d /\ file'.off = file.off + d /\ file'.ctz = file.ctz
      /\ file'.inline = file.inline /\ file'.writing = file.writing
      /\ file'.dirty = file.dirty /\ file'.block = file.block
  BY <1>1, <1>3 DEF OpenFile
<1>9. /\ free'.off = free.off /\ free'.i = free.i /\ free'.size = free.size
      /\ free'.used = free.used
  BY <1>1 DEF FileInv, FreeType, FreeList, lfs_alloc_ack
<1>10. Fresh' = Fresh
  BY <1>1, <1>9, SameWindow DEF Fresh
<1>11. FlushedPart'
  <2>1. /\ file.pos <= file'.pos /\ file'.pos \in Nat /\ phase # "closed" /\ ~file'.inline
        /\ \A c \in Block : c # file'.block => words'[c] = words[c]
    BY <1>1, <1>2, <1>3, <1>4, <1>7, <1>8
  <2>2. \A k \in 1 .. Len(log) : log'[k] = log[k]
    BY <1>5
  <2> QED BY <1>2, <1>8, <1>10, <2>1, <2>2, FlushedStays
<1>12. EntryPart'
  BY <1>1 DEF Parts, EntryPart
<1>13. FreePart'
  <2>1. FreePart
    BY DEF Parts
  <2>2. file'.pos = Len(log')
    BY <1>1, <1>5, <1>8, <2>1 DEF FreePart
  <2> QED BY <1>1, <1>2, <1>8, <1>9, <1>10, <2>1, <2>2 DEF FreePart, Moving
<1>14. PICK n, b : Grown(n, b)
  BY <1>2 DEF Parts, GrowingPart
<1>15. /\ n \in Nat /\ Linked(words, b, n) /\ b[n] = file.block
       /\ \A i \in 0 .. n - 1 : b[i] # file.block
       /\ Holds(words, b, file.pos, log) /\ Apart(b, n) /\ Ending(n)
  BY <1>14 DEF Grown
<1>16. /\ Start(n) \in Nat /\ Start(n) <= file.off
       /\ \A k \in 0 .. d - 1 : At(file.pos + k, n, file.off + k)
  <2>1. CASE file.off > Start(n)
    <3> DEFINE p == file.pos - 1
               o == file.off - 1
    <3>1. At(p, n, o)
      BY <1>15, <2>1, PlaceFacts DEF Ending, Reaches
    <3>2. Start(n) \in Nat
      BY <3>1, PlaceFacts
    <3>3. ASSUME NEW k \in 0 .. d - 1 PROVE At(file.pos + k, n, file.off + k)
      <4> DEFINE e == k + 1
      <4>1. e \in Int /\ Start(n) <= o + e /\ o + e <= BlockWords - 1
        BY <1>2, <1>3, <2>1, <3>2
      <4>2. p + e = file.pos + k /\ o + e = file.off + k
        BY <1>2, <1>3
      <4> HIDE DEF p, o, e
      <4>3. At(p + e, n, o + e)
        BY <3>1, <4>1, Shift
      <4> QED BY <4>2, <4>3
    <3>4. Start(n) <= file.off
      BY <1>3, <2>1, <3>2
    <3> QED BY <3>2, <3>3, <3>4
  <2>2. CASE ~(file.off > Start(n))
    <3>1. At(file.pos, n, file.off) /\ file.off = Start(n)
      BY <1>15, <2>2 DEF Ending, Reaches
    <3>2. Start(n) \in Nat
      BY <3>1, PlaceFacts
    <3>3. ASSUME NEW k \in 0 .. d - 1 PROVE At(file.pos + k, n, file.off + k)
      <4>1. k \in Int /\ Start(n) <= file.off + k /\ file.off + k <= BlockWords - 1
        BY <1>2, <1>3, <3>1, <3>2
      <4> QED BY <3>1, <4>1, Shift
    <3> QED BY <3>1, <3>2, <3>3
  <2> QED BY <2>1, <2>2
<1>17. \A k \in 0 .. d - 1 : /\ file.pos + k \in Position
                             /\ lfs_ctz_index(file.pos + k) = n /\ Offset(file.pos + k) = file.off + k
  <2>1. \A k \in 0 .. d - 1 : file.pos + k \in 0 .. (file.pos + d) - 1
    BY <1>2, <1>3
  <2>2. \A k \in 0 .. d - 1 : file.pos + k \in Position
    BY <1>7, <2>1, Places
  <2> QED BY <1>16, <2>2, PlaceOf
<1>18. Linked(words', b, n) /\ Holds(words', b, file.pos, log)
  <2>1. Reaches(n, file.off) /\ file.pos \in Position /\ file.off \in Nat
    BY <1>1, <1>3, <1>15, Room DEF Ending
  <2>2. b \in [0 .. n -> Block]
    BY <1>15 DEF Linked
  <2>3. \A i \in 0 .. n - 1 : b[i] \in Block
    BY <1>15, <2>2
  <2>4. \A i \in 0 .. n - 1 : words'[b[i]] = words[b[i]]
    BY <1>4, <1>15, <2>3
  <2>5. \A o \in 0 .. BlockWords - 1 : o < file.off => words'[b[n]][o] = words[b[n]][o]
    <3>1. ASSUME NEW o \in 0 .. BlockWords - 1, o < file.off PROVE ~Writing(o)
      BY <1>3, <1>6, <3>1
    <3> QED BY <1>4, <1>15, <3>1
  <2>6. SameUpTo(words, words', b, b, n, file.off)
    BY <2>2, <2>4, <2>5 DEF SameUpTo
  <2> QED BY <1>15, <2>1, <2>6, KeepsFirst
<1>19. Holds(words', b, file.pos + d, log')
  <2>1. SUFFICES ASSUME NEW p \in 0 .. (file.pos + d) - 1
                 PROVE  words'[b[lfs_ctz_index(p)]][Offset(p)] = log'[p + 1]
    BY DEF Holds
  <2>2. file.pos = Len(log)
    BY <1>1 DEF Parts, FreePart
  <2>3. CASE p \in 0 .. file.pos - 1
    <3>1. log'[p + 1] = log[p + 1]
      BY <1>3, <1>5, <2>2, <2>3
    <3>2. words'[b[lfs_ctz_index(p)]][Offset(p)] = log[p + 1]
      BY <1>18, <2>3 DEF Holds
    <3> QED BY <3>1, <3>2
  <2>4. CASE ~(p \in 0 .. file.pos - 1)
    <3> DEFINE k == p - file.pos
    <3>1. k \in 0 .. d - 1 /\ p = file.pos + k /\ k + 1 \in 1 .. d /\ k \in Int
      BY <1>2, <1>3, <2>4
    <3> HIDE DEF k
    <3>2. lfs_ctz_index(p) = n /\ Offset(p) = file.off + k
      BY <1>17, <3>1
    <3>3. file.off + k \in 0 .. BlockWords - 1 /\ Writing(file.off + k)
      BY <1>2, <1>3, <1>6, <3>1
    <3>4. words'[file.block][file.off + k] = <<sent, NextWord + (file.off + k) - file.off>>
      BY <1>4, <3>3
    <3>5. log'[Len(log) + (k + 1)] = <<sent, NextWord + (k + 1) - 1>>
      BY <1>5, <3>1
    <3>6. Len(log) + (k + 1) = p + 1
      BY <1>3, <2>2, <3>1
    <3>7. NextWord + (file.off + k) - file.off = NextWord + (k + 1) - 1
      <4>1. NextWord \in Int
        BY <1>3 DEF NextWord
      <4> QED BY <1>3, <3>1, <4>1
    <3> QED BY <1>15, <3>2, <3>4, <3>5, <3>6, <3>7
  <2> QED BY <2>3, <2>4
<1>20. Ending(n)'
  <2> DEFINE k == d - 1
  <2>1. k \in 0 .. d - 1
    BY <1>2, <1>3
  <2>2. At(file.pos + k, n, file.off + k)
    BY <1>16, <2>1
  <2>3. /\ file.pos + k = file'.pos - 1 /\ file.off + k = file'.off - 1
        /\ file'.off > Start(n) /\ file'.off # Start(n)
    BY <1>2, <1>3, <1>8, <1>16
  <2> HIDE DEF k
  <2>4. At(file'.pos - 1, n, file'.off - 1)
    BY <2>2, <2>3
  <2> QED BY <2>3, <2>4 DEF Ending, Reaches
<1>21. Grown(n, b)'
  <2>1. \A i \in 0 .. n : b[i] \notin Fresh'
    BY <1>10, <1>15 DEF Apart
  <2>2. Holds(words', b, file'.pos, log')
    BY <1>8, <1>19
  <2> QED BY <1>8, <1>15, <1>18, <1>20, <2>1, <2>2 DEF Grown, Apart
<1> QED BY <1>11, <1>12, <1>13, <1>21 DEF Parts, GrowingPart

\* A block that turns out bad keeps the words before those that were to be written.
LEMMA ProgramCorruptChains ==
  ASSUME FileInv, Parts, ProgramCorrupt
  PROVE  Parts'
<1>1. /\ phase \in {"write", "again"} /\ phase' = "alloc" /\ why' = "relocate"
      /\ todo > 0 /\ ~NeedsBlock /\ Programmed
      /\ UNCHANGED <<other, entry, todo, nblock, free, file, log, kept>>
  BY DEF ProgramCorrupt
<1>2. /\ file.off \in 0 .. BlockWords - 1 /\ file.off \in Nat /\ file.pos \in Nat
      /\ file.writing /\ ~file.inline /\ BlockWords \in Nat
  BY <1>1, Sizes DEF NeedsBlock, FileInv, OpenType, OpenFile, Place
<1>3. file.block \in Block /\ \A o \in 0 .. BlockWords - 1 : o < file.off => ~Writing(o)
  BY <1>1, <1>2, DiffFits DEF Writing
<1>4. \A o \in 0 .. BlockWords - 1 : o < file.off => words'[file.block][o] = words[file.block][o]
  BY <1>1, <1>3, ProgramWords
<1>5. \A c \in Block : c # file.block => words'[c] = words[c]
  BY <1>1, <1>3, ProgramWords
<1>6. Fresh' = Fresh
  BY <1>1, SameWindow DEF Fresh
<1>7. EntryPart'
  BY <1>1 DEF Parts, EntryPart
<1>8. FlushedPart'
  <2>1. /\ file'.ctz = file.ctz /\ file'.pos = file.pos /\ file'.inline = file.inline
        /\ file'.dirty = file.dirty /\ file'.block = file.block /\ file.pos <= file'.pos
    BY <1>1, <1>2
  <2>2. \A k \in 1 .. Len(log) : log'[k] = log[k]
    BY <1>1
  <2> QED BY <1>1, <1>2, <1>5, <1>6, <2>1, <2>2, FlushedStays
<1>9. FreePart'
  <2>1. FreePart
    BY DEF Parts
  <2>2. Moving'
    BY <1>1 DEF Moving
  <2>3. file.off < BlockWords
    BY <1>2
  <2> QED BY <1>1, <1>2, <1>6, <2>1, <2>2, <2>3 DEF FreePart
<1>10. PICK n, b : Grown(n, b)
  BY <1>2 DEF Parts, GrowingPart
<1>11. /\ n \in Nat /\ Linked(words, b, n) /\ b[n] = file.block /\ Reaches(n, file.off)
       /\ \A i \in 0 .. n - 1 : b[i] # file.block
       /\ Holds(words, b, file.pos, log) /\ Apart(b, n) /\ b \in [0 .. n -> Block]
  BY <1>10 DEF Grown, Ending, Linked
<1>12. Linked(words', b, n) /\ Holds(words', b, file.pos, log)
  <2>1. \A i \in 0 .. n - 1 : b[i] \in Block
    BY <1>11
  <2>2. \A i \in 0 .. n - 1 : words'[b[i]] = words[b[i]]
    BY <1>5, <1>11, <2>1
  <2>3. \A o \in 0 .. BlockWords - 1 : o < file.off => words'[b[n]][o] = words[b[n]][o]
    BY <1>4, <1>5, <1>11
  <2>4. file.pos \in Position
    BY <1>1, Room
  <2>5. SameUpTo(words, words', b, b, n, file.off)
    BY <1>11, <2>2, <2>3 DEF SameUpTo
  <2> QED BY <1>2, <1>11, <2>4, <2>5, KeepsFirst
<1>13. Grown(n, b)'
  <2>1. \A i \in 0 .. n : b[i] \notin Fresh'
    BY <1>6, <1>11 DEF Apart
  <2>2. Reaches(n, file.off)' /\ Moving'
    BY <1>1, <1>11 DEF Reaches, Moving
  <2>3. Ending(n)'
    BY <1>1, <2>2 DEF Ending
  <2> QED BY <1>1, <1>11, <1>12, <2>1, <2>3 DEF Grown, Apart
<1> QED BY <1>7, <1>8, <1>9, <1>13 DEF Parts, GrowingPart

\* The chain that a block more is for.
ToExtend(b) ==
  /\ Linked(words, b, lfs_ctz_index(file.pos - 1)) /\ b[lfs_ctz_index(file.pos - 1)] = file.block
  /\ Holds(words, b, file.pos, log) /\ Apart(b, lfs_ctz_index(file.pos - 1))

\* There is such a chain, and it is not offered.
LEMMA Extended ==
  ASSUME FileInv, Parts, phase = "got", why = "extend"
  PROVE  /\ file.pos \in 1 .. FileWords /\ ~file.inline /\ \E b : ToExtend(b)
         /\ file.writing => Offset(file.pos - 1) = BlockWords - 1
<1>1. ~file.inline /\ (file.writing => file.off = BlockWords)
      /\ (~file.writing => file.block = file.ctz.head)
  BY DEF Parts, FreePart
<1>2. CASE file.writing
  <2>1. PICK n, b : Grown(n, b)
    BY <1>2 DEF Parts, GrowingPart
  <2>2. /\ file.pos \in 1 .. FileWords /\ n = lfs_ctz_index(file.pos - 1)
        /\ Offset(file.pos - 1) = file.off - 1
    <3>1. Settled
      BY DEF Settled, Moving
    <3> QED BY <2>1, <3>1, GrownMade
  <2>3. ToExtend(b)
    BY <2>1, <2>2 DEF Grown, ToExtend
  <2> QED BY <1>1, <1>2, <2>2, <2>3
<1>3. CASE ~file.writing
  <2>1. file.pos > 0 /\ file.pos = file.ctz.size /\ file.pos \in 0 .. FileWords
    BY <1>1, <1>3 DEF FileInv, Place, OpenType, OpenFile
  <2>2. PICK b : Flushed(b)
    BY <2>1 DEF Parts, FlushedPart
  <2>3. ToExtend(b)
    BY <1>1, <1>3, <2>1, <2>2 DEF Flushed, Made, ToExtend
  <2>4. file.pos \in 1 .. FileWords
    BY <2>1, Sizes
  <2> QED BY <1>1, <1>3, <2>3, <2>4
<1> QED BY <1>2, <1>3

\* What a file is that goes on in a new block.
Begun(n, b, off) ==
  /\ n \in Nat /\ Linked(words', b, n) /\ b[n] = nblock
  /\ \A i \in 0 .. n - 1 : b[i] \notin Fresh
  /\ Holds(words', b, file.pos, log) /\ Reaches(n, off)

\* A file that goes on in the block that was taken.
LEMMA NewBlockChains ==
  ASSUME FileInv, Parts, phase = "got", NEW off, NewBlock(off), off \in Nat,
         \A c \in Block : c # nblock => words'[c] = words[c],
         NEW n, NEW b, Begun(n, b, off)
  PROVE  Parts'
<1>1. /\ phase' = "write"
      /\ file' = [file EXCEPT !.block = nblock, !.off = off,
                              !.writing = TRUE, !.inline = FALSE]
      /\ UNCHANGED <<other, entry, todo, why, nblock, free, log, kept>>
  BY DEF NewBlock
<1>2. /\ file'.block = nblock /\ file'.off = off /\ file'.writing /\ ~file'.inline
      /\ file'.pos = file.pos /\ file'.ctz = file.ctz /\ file'.dirty = file.dirty
      /\ file.pos \in Nat
  BY <1>1, Sizes DEF FileInv, OpenType, OpenFile
<1>3. Window' = Window
  BY <1>1, SameWindow
<1>4. Fresh' = Window /\ Fresh = Window \cup {nblock}
  BY <1>1, <1>3 DEF Fresh
<1>5. nblock \notin Window /\ nblock \notin Pair \cup other /\ todo > 0 /\ FreePart
  BY <1>4 DEF Parts, FreePart
<1>6. EntryPart'
  BY <1>1 DEF Parts, EntryPart
<1>7. FlushedPart'
  <2>1. /\ phase # "closed" /\ file.pos <= file'.pos /\ file'.pos \in Nat
        /\ file'.block \in Fresh /\ Fresh' \subseteq Fresh
        /\ \A k \in 1 .. Len(log) : log'[k] = log[k]
    BY <1>1, <1>2, <1>4
  <2> QED BY <1>2, <2>1, FlushedStays
<1>8. FreePart'
  BY <1>1, <1>2, <1>4, <1>5 DEF FreePart, Moving
<1>9. Grown(n, b)'
  <2>1. /\ n \in Nat /\ Linked(words', b, n) /\ b[n] = file'.block
        /\ Holds(words', b, file'.pos, log')
    BY <1>1, <1>2 DEF Begun
  <2>2. \A i \in 0 .. n - 1 : b[i] # file'.block
    BY <1>2, <1>4 DEF Begun
  <2>3. \A i \in 0 .. n : b[i] \notin Fresh'
    <3>1. b[n] \notin Fresh'
      BY <1>2, <1>4, <1>5, <2>1
    <3>2. \A i \in 0 .. n - 1 : b[i] \notin Fresh'
      BY <1>4 DEF Begun
    <3>3. \A i \in 0 .. n : i = n \/ i \in 0 .. n - 1
      BY <2>1
    <3> QED BY <3>1, <3>2, <3>3
  <2>4. Ending(n)'
    <3>1. Reaches(n, file.off)'
      BY <1>2 DEF Begun, Reaches
    <3> QED BY <1>1, <1>5, <3>1 DEF Ending
  <2> QED BY <2>1, <2>2, <2>3, <2>4 DEF Grown, Apart
<1> QED BY <1>6, <1>7, <1>8, <1>9 DEF Parts, GrowingPart

\* The first block of a file.
LEMMA OutlineChains ==
  ASSUME FileInv, Parts, Relocate, file.inline
  PROVE  Parts'
<1> DEFINE b == [i \in 0 .. 0 |-> nblock]
           block == [i \in 0 .. BlockWords - 1 |->
                      IF i < file.off THEN words[file.block][i] ELSE Erased]
<1>1. /\ phase = "got" /\ why = "relocate" /\ words' = [words EXCEPT ![nblock] = block]
      /\ NewBlock(file.off)
  BY DEF Relocate, Copied
<1>2. file.pos = 0 /\ file.off = 0
  BY DEF FileInv, Place
<1>3. nblock \in Block /\ words \in [Block -> Content]
  BY DEF FileInv, RestType, WordsType
<1>4. \A c \in Block : c # nblock => words'[c] = words[c]
  <2> HIDE DEF block
  <2> QED BY <1>1, <1>3
<1>5. At(0, 0, 0) /\ Start(0) = 0
  <2>1. Fits(0)
    <3>1. PICK K \in Bit : K <= BlockWords - 3
      BY FileAssumption
    <3>2. 0 + 1 <= Pow2[K]
      BY Powers DEF Bit
    <3> QED BY <3>1, <3>2 DEF Fits
  <2>2. Start(0) = 0
    BY DEF Start
  <2>3. 0 \in Start(0) .. BlockWords - 1
    BY <2>2, Sizes
  <2>4. (BlockWords - 2) * 0 = 0
    BY Sizes
  <2> QED BY <2>1, <2>2, <2>3, <2>4, NoBits DEF At
<1>6. Linked(words', b, 0) /\ b[0] = nblock
  BY <1>3 DEF Linked
<1> HIDE DEF b, block
<1>7. Begun(0, b, file.off)
  BY <1>2, <1>5, <1>6 DEF Begun, Reaches, Holds
<1>8. file.off \in Nat
  BY <1>2
<1> QED BY <1>1, <1>4, <1>7, <1>8, NewBlockChains

\* The last block of a chain is copied to the block that was taken.
LEMMA CopyChains ==
  ASSUME FileInv, Parts, phase = "got", NEW off \in Nat, Copied(file.block, off), NewBlock(off),
         NEW n \in Nat, Reaches(n, off), NEW a, Linked(words, a, n), a[n] = file.block,
         Holds(words, a, file.pos, log), Apart(a, n)
  PROVE  Parts'
<1> DEFINE block == [i \in 0 .. BlockWords - 1 |->
                      IF i < off THEN words[file.block][i] ELSE Erased]
           b == [a EXCEPT ![n] = nblock]
<1>1. /\ nblock \in Block /\ words \in [Block -> Content] /\ file.pos \in Position
      /\ words' = [words EXCEPT ![nblock] = block]
  BY Room DEF FileInv, RestType, WordsType, Parts, FreePart, Copied
<1>2. \A o \in 0 .. BlockWords - 1 : o < off => block[o] = words[file.block][o]
  OBVIOUS
<1> HIDE DEF block
<1>3. words'[nblock] = block /\ \A c \in Block : c # nblock => words'[c] = words[c]
  BY <1>1
<1>4. a \in [0 .. n -> Block] /\ n \in 0 .. n /\ \A i \in 0 .. n - 1 : i \in 0 .. n /\ i # n
  BY DEF Linked
<1>5. b \in [0 .. n -> Block] /\ b[n] = nblock /\ \A i \in 0 .. n - 1 : b[i] = a[i]
  BY <1>1, <1>4
<1> HIDE DEF b
<1>6. \A i \in 0 .. n - 1 : a[i] \in Block /\ a[i] \notin Fresh
  BY <1>4 DEF Apart
<1>7. \A i \in 0 .. n - 1 : words'[a[i]] = words[a[i]]
  <2>1. nblock \in Fresh
    BY DEF Fresh
  <2> QED BY <1>3, <1>6, <2>1
<1>8. \A o \in 0 .. BlockWords - 1 : o < off => words'[b[n]][o] = words[a[n]][o]
  BY <1>2, <1>3, <1>5
<1>9. Linked(words', b, n) /\ Holds(words', b, file.pos, log)
  <2>1. SameUpTo(words, words', a, b, n, off)
    BY <1>5, <1>7, <1>8 DEF SameUpTo
  <2> QED BY <1>1, <2>1, KeepsFirst
<1>10. Begun(n, b, off)
  BY <1>5, <1>6, <1>9 DEF Begun
<1> QED BY <1>3, <1>10, NewBlockChains

\* The first block of a file, or one that takes the place of a bad one.
LEMMA RelocateChains ==
  ASSUME FileInv, Parts, Relocate
  PROVE  Parts'
<1>1. /\ phase = "got" /\ why = "relocate" /\ Copied(file.block, file.off) /\ NewBlock(file.off)
      /\ file.off \in Nat
  BY Sizes DEF Relocate, FileInv, OpenType, OpenFile
<1>2. CASE file.inline
  BY <1>2, OutlineChains
<1>3. CASE ~file.inline
  <2>1. file.writing
    BY <1>1, <1>3 DEF Parts, FreePart, Moving
  <2>2. PICK n, a : Grown(n, a)
    BY <2>1 DEF Parts, GrowingPart
  <2>3. /\ n \in Nat /\ Reaches(n, file.off) /\ Linked(words, a, n) /\ a[n] = file.block
        /\ Holds(words, a, file.pos, log) /\ Apart(a, n)
    BY <2>2 DEF Grown, Ending
  <2> QED BY <1>1, <2>3, CopyChains
<1> QED BY <1>2, <1>3

\* The last block is copied when the file grows.
LEMMA ExtendCopyChains ==
  ASSUME FileInv, Parts, ExtendCopy
  PROVE  Parts'
<1> DEFINE n == lfs_ctz_index(file.pos - 1)
           o == Offset(file.pos - 1)
<1>1. phase = "got" /\ why = "extend" /\ Used = o + 1
  BY DEF ExtendCopy, Used
<1>2. file.pos \in 1 .. FileWords
  BY <1>1, Extended
<1>3. PICK a : ToExtend(a)
  BY <1>1, Extended
<1>4. Linked(words, a, n) /\ a[n] = file.block /\ Holds(words, a, file.pos, log) /\ Apart(a, n)
  BY <1>3 DEF ToExtend
<1>5. At(file.pos - 1, n, o)
  BY <1>2, Places, Located
<1> HIDE DEF n, o
<1>6. n \in Nat /\ o \in Nat /\ Start(n) \in Nat /\ Start(n) <= o
  BY <1>5, PlaceFacts
<1>7. Used \in Nat /\ Used > Start(n) /\ Used - 1 = o
  BY <1>1, <1>6
<1>8. Reaches(n, Used)
  BY <1>5, <1>7 DEF Reaches
<1>9. Copied(file.block, Used) /\ NewBlock(Used)
  <2>1. n \in 0 .. n
    BY <1>6
  <2>2. file.block \in Block
    BY <1>4, <2>1 DEF Linked
  <2> QED BY <2>2 DEF ExtendCopy
<1> QED BY <1>1, <1>4, <1>6, <1>7, <1>8, <1>9, CopyChains

\* The block that was taken points back at the chain.
LEMMA ExtendLinkChains ==
  ASSUME FileInv, Parts, ExtendLink
  PROVE  Parts'
<1> DEFINE n == lfs_ctz_index(file.pos - 1)
           y == n + 1
           skips == lfs_ctz(y) + 1
<1>1. phase = "got" /\ why = "extend" /\ Used = BlockWords
  BY DEF ExtendLink
<1>2. nblock \in Block /\ words \in [Block -> Content]
  BY DEF FileInv, RestType, WordsType
<1>3. file.pos \in 1 .. FileWords
  BY <1>1, Extended
<1>4. PICK a : ToExtend(a)
  BY <1>1, Extended
<1>5. /\ Linked(words, a, n) /\ a[n] = file.block /\ Holds(words, a, file.pos, log)
      /\ \A i \in 0 .. n : a[i] \notin Fresh
  BY <1>4 DEF ToExtend, Apart
<1>6. file.pos - 1 \in Position /\ n \in Index /\ n \in Nat
      /\ \A p \in 0 .. file.pos - 1 : lfs_ctz_index(p) \in 0 .. n
  BY <1>3, Places
<1>7. At(file.pos - 1, n, BlockWords - 1)
  <2>1. At(file.pos - 1, n, Offset(file.pos - 1))
    BY <1>6, Located
  <2>2. Offset(file.pos - 1) = BlockWords - 1
    BY <1>1, <2>1, PlaceFacts, Sizes DEF Used
  <2> QED BY <2>1, <2>2
<1>8. file.pos \in Position
  <2>1. /\ todo \in 0 .. RecordWords /\ todo > 0 /\ file.pos + todo <= sent * RecordWords
        /\ sent \in 0 .. MaxRecords
    BY <1>1 DEF Parts, FreePart, FileInv, Place, RestType
  <2>2. sent * RecordWords \in 0 .. FileWords /\ FileWords \in Nat /\ RecordWords \in Nat
    BY <2>1, SentWords, Sizes
  <2> QED BY <1>3, <2>1, <2>2 DEF Position, FileWords
<1>9. At(file.pos, y, Start(y))
  <2> DEFINE p == file.pos - 1
  <2>1. p + 1 = file.pos
    BY <1>3, Sizes
  <2>2. At(p, n, BlockWords - 1) /\ p + 1 \in Position
    BY <1>7, <1>8, <2>1
  <2> HIDE DEF p, n
  <2>3. At(p + 1, n + 1, Start(n + 1))
    BY <2>2, NextBlock
  <2> QED BY <2>1, <2>3
<1>10. y \in 1 .. Pow2[29] /\ Start(y) \in 1 .. BlockWords - 2 /\ y # 0 /\ y \in Nat
  <2> HIDE DEF n
  <2>1. y \in 1 .. Pow2[29] /\ Start(y) \in 1 .. BlockWords - 2
    BY <1>7, PlaceFacts
  <2> QED BY <1>6, <2>1
<1>11. skips = Start(y) /\ skips \in 1 .. BlockWords /\ lfs_ctz(y) \in Nat
  <2> HIDE DEF y
  <2> QED BY <1>10, CtzBits, Sizes DEF Start, Bit
<1>12. PICK f : /\ f[0] = file.block
                /\ \A k \in 1 .. skips - 1 : LinkStep(f, k)
                /\ LinkOutcome(f, skips)
  <2>1. skips = lfs_ctz(lfs_ctz_index(file.pos - 1) + 1) + 1
    OBVIOUS
  <2> HIDE DEF skips, n, y
  <2> QED BY <1>11, <2>1, LinkFunction
<1>13. \A k \in 0 .. lfs_ctz(y) : f[k] = a[y - Pow2[k]]
  <2>1. f[0] = a[n]
    BY <1>5, <1>12
  <2>2. n + 1 <= Pow2[29]
    <3> HIDE DEF n
    <3> QED BY <1>10, Powers
  <2>3. \A k \in 1 .. lfs_ctz(n + 1) :
          f[k] = IF ~Readable(f[k - 1], k - 1) THEN Corrupt ELSE Ptr(f[k - 1], k - 1)
    <3>1. \A k \in 1 .. lfs_ctz(y) : k \in 1 .. skips - 1
      <4> HIDE DEF y
      <4> QED BY <1>11
    <3> QED BY <1>12, <3>1 DEF LinkStep
  <2> HIDE DEF n
  <2>4. \A k \in 0 .. lfs_ctz(n + 1) : f[k] = a[(n + 1) - Pow2[k]]
    BY <1>5, <1>6, <2>1, <2>2, <2>3, NextPointers
  <2> QED BY <2>4
<1>14. ASSUME NEW k \in 0 .. lfs_ctz(y) PROVE y - Pow2[k] \in 0 .. n
  <2>1. y = n + 1
    OBVIOUS
  <2> HIDE DEF n, y
  <2>2. k \in Bit /\ \E m \in Nat \ {0} : y = m * Pow2[k]
    BY <1>10, CtzDivides
  <2> DEFINE p == Pow2[k]
  <2>3. p \in Nat \ {0}
    BY <2>2, Powers DEF Bit
  <2>4. PICK m \in Nat \ {0} : y = m * p
    BY <2>2
  <2> HIDE DEF p
  <2>5. m * p >= p
    BY ONLY <2>3, m \in Nat \ {0}, Z3
  <2> QED BY <1>6, <2>1, <2>3, <2>4, <2>5 DEF p
<1> DEFINE block == [i \in 0 .. BlockWords - 1 |-> IF i < skips THEN <<f[i]>> ELSE Erased]
<1>15. words' = [words EXCEPT ![nblock] = block] /\ NewBlock(skips)
  <2>1. skips - 1 \in 0 .. lfs_ctz(y) /\ skips - 1 = lfs_ctz(y)
    <3> HIDE DEF y
    <3> QED BY <1>11
  <2>2. f[skips - 1] = a[y - Pow2[skips - 1]]
    <3> HIDE DEF skips, y, n
    <3> QED BY <1>13, <2>1
  <2>3. y - Pow2[skips - 1] \in 0 .. n
    <3> HIDE DEF skips, n, y
    <3> QED BY <1>14, <2>1
  <2>4. f[skips - 1] # Corrupt
    <3>1. f[skips - 1] \in Block
      <4> HIDE DEF skips, n, y
      <4> QED BY <1>5, <2>2, <2>3 DEF Linked
    <3> HIDE DEF skips, n, y
    <3> QED BY <3>1, PointerWord
  <2> HIDE DEF skips, n, y
  <2> QED BY <1>12, <2>4 DEF LinkOutcome
<1> HIDE DEF n, y
<1>16. \A c \in Block : c # nblock => words'[c] = words[c]
  <2> HIDE DEF block
  <2> QED BY <1>2, <1>15
<1>17. \A k \in 0 .. lfs_ctz(y) : words'[nblock][k] = <<f[k]>>
  <2>1. words'[nblock] = block
    <3> HIDE DEF block
    <3> QED BY <1>2, <1>15
  <2>2. \A k \in 0 .. lfs_ctz(y) : k < skips /\ k \in 0 .. BlockWords - 1
    BY <1>11, Sizes
  <2> HIDE DEF skips
  <2> QED BY <2>1, <2>2
<1> HIDE DEF block
<1> DEFINE b == [i \in 0 .. y |-> IF i = y THEN nblock ELSE a[i]]
<1>18. y = n + 1
  BY DEF y
<1>19. b \in [0 .. y -> Block] /\ b[y] = nblock /\ \A i \in 0 .. n : b[i] = a[i]
  <2>1. \A i \in 0 .. y : i # y => i \in 0 .. n
    BY <1>6, <1>18
  <2>2. \A i \in 0 .. n : a[i] \in Block /\ i \in 0 .. y /\ i # y
    BY <1>5, <1>6, <1>18 DEF Linked
  <2>3. y \in 0 .. y
    BY <1>10
  <2> QED BY <1>2, <2>1, <2>2, <2>3
<1> HIDE DEF b
<1>20. \A i \in 0 .. n : words'[a[i]] = words[a[i]]
  <2>1. nblock \in Fresh
    BY <1>1 DEF Fresh
  <2>2. \A i \in 0 .. n : a[i] \in Block
    BY <1>5 DEF Linked
  <2> QED BY <1>5, <1>16, <2>1, <2>2
<1>21. Linked(words', b, y)
  <2>1. SUFFICES ASSUME NEW i \in 1 .. y, NEW k \in 0 .. lfs_ctz(i)
                 PROVE  k < BlockWords /\ words'[b[i]][k] = <<b[i - Pow2[k]]>>
    BY <1>19 DEF Linked
  <2>2. CASE i = y
    <3>1. y - Pow2[k] \in 0 .. n
      BY <1>14, <2>2
    <3>2. k < BlockWords
      BY <1>11, <2>2, Sizes
    <3> QED BY <1>13, <1>17, <1>19, <2>2, <3>1, <3>2
  <2>3. CASE i # y
    <3>1. i \in 1 .. n
      BY <1>6, <1>18, <2>3
    <3>2. /\ k < BlockWords /\ words[a[i]][k] = <<a[i - Pow2[k]]>>
          /\ i - Pow2[k] \in 0 .. i - 1
      <4>1. k < BlockWords /\ words[a[i]][k] = <<a[i - Pow2[k]]>>
        BY <1>5, <3>1 DEF Linked
      <4>2. i - Pow2[k] \in 0 .. i - 1
        BY <1>5, <1>6, <3>1, LinkedPtr
      <4> QED BY <4>1, <4>2
    <3>3. i \in 0 .. n /\ i - Pow2[k] \in 0 .. n
      BY <1>6, <3>1, <3>2
    <3> QED BY <1>19, <1>20, <3>2, <3>3
  <2> QED BY <2>2, <2>3
<1>22. Holds(words', b, file.pos, log)
  <2>1. SUFFICES ASSUME NEW p \in 0 .. file.pos - 1
                 PROVE  words'[b[lfs_ctz_index(p)]][Offset(p)] = log[p + 1]
    BY DEF Holds
  <2>2. words[a[lfs_ctz_index(p)]][Offset(p)] = log[p + 1]
    BY <1>5 DEF Holds
  <2>3. lfs_ctz_index(p) \in 0 .. n
    BY <1>6
  <2> QED BY <1>19, <1>20, <2>2, <2>3
<1>23. Begun(y, b, skips)
  <2>1. \A i \in 0 .. y - 1 : b[i] \notin Fresh
    <3>1. \A i \in 0 .. y - 1 : i \in 0 .. n
      BY <1>6, <1>18
    <3> QED BY <1>5, <1>19, <3>1
  <2> HIDE DEF skips
  <2> QED BY <1>9, <1>10, <1>11, <1>19, <1>21, <1>22, <2>1 DEF Begun, Reaches
<1>24. skips \in Nat
  BY <1>11
<1> HIDE DEF skips
<1> QED BY <1>1, <1>15, <1>16, <1>23, <1>24, NewBlockChains

\* A block that was taken and turns out bad is not of a chain.
LEMMA NewBlockBadChains ==
  ASSUME FileInv, Parts, NewBlockBad
  PROVE  Parts'
<1>1. /\ phase = "got" /\ phase' = "alloc"
      /\ \E block : words' = [words EXCEPT ![nblock] = block]
      /\ UNCHANGED <<other, entry, todo, why, nblock, free, file, log, kept>>
  BY DEF NewBlockBad
<1>2. nblock \in Block /\ words \in [Block -> Content] /\ file.pos \in Nat
  BY Sizes DEF FileInv, RestType, WordsType, OpenType, OpenFile
<1>3. \A c \in Block : c # nblock => words'[c] = words[c]
  BY <1>1, <1>2
<1>4. Fresh' \subseteq Fresh /\ nblock \in Fresh /\ Window' = Window
  BY <1>1, SameWindow DEF Fresh
<1>5. EntryPart'
  BY <1>1 DEF Parts, EntryPart
<1>6. \A n, b : Linked(words, b, n) /\ Apart(b, n) =>
        \A i \in 0 .. n : words'[b[i]] = words[b[i]] /\ b[i] \notin Fresh'
  <2>1. ASSUME NEW n, NEW b, Linked(words, b, n), Apart(b, n), NEW i \in 0 .. n
        PROVE  words'[b[i]] = words[b[i]] /\ b[i] \notin Fresh'
    <3>1. b[i] \in Block /\ b[i] \notin Fresh
      BY <2>1 DEF Linked, Apart
    <3> QED BY <1>3, <1>4, <3>1
  <2> QED BY <2>1
<1>7. FlushedPart'
  <2>1. SUFFICES ASSUME file.ctz.size > 0 PROVE \E b : Flushed(b)'
    BY <1>1 DEF Parts, FlushedPart
  <2>2. PICK b : Flushed(b)
    BY <2>1 DEF Parts, FlushedPart
  <2>3. /\ Made(words, file.ctz, b, log) /\ Apart(b, lfs_ctz_index(file.ctz.size - 1))
        /\ Linked(words, b, lfs_ctz_index(file.ctz.size - 1))
    BY <2>2 DEF Flushed, Made
  <2>4. \A i \in 0 .. lfs_ctz_index(file.ctz.size - 1) :
          words'[b[i]] = words[b[i]] /\ b[i] \notin Fresh'
    BY <1>6, <2>3
  <2>5. file.ctz.size \in 1 .. FileWords
    BY <2>1, Sizes DEF FileInv, OpenType, OpenFile, Chain, FileWords
  <2>6. Made(words', file.ctz, b, log)
    BY <2>3, <2>4, <2>5, MadeStays
  <2>7. Flushed(b)'
    BY <1>1, <2>2, <2>4, <2>6 DEF Flushed, Apart
  <2> QED BY <2>7
<1>8. GrowingPart'
  <2>1. SUFFICES ASSUME file.writing PROVE \E n, b : Grown(n, b)'
    BY <1>1 DEF GrowingPart
  <2>2. PICK n, b : Grown(n, b)
    BY <2>1 DEF Parts, GrowingPart
  <2>3. Linked(words, b, n) /\ Apart(b, n) /\ n \in Nat /\ Holds(words, b, file.pos, log)
    BY <2>2 DEF Grown
  <2>4. \A i \in 0 .. n : words'[b[i]] = words[b[i]] /\ b[i] \notin Fresh'
    BY <1>6, <2>3
  <2>5. Linked(words', b, n)
    BY <2>3, <2>4, LinkedStays
  <2>6. Ending(n)'
    BY <1>1, <2>2 DEF Grown, Ending, Reaches, Moving
  <2>7. file.pos \in Position /\ Reaches(n, file.off) /\ file.off \in Nat
    BY <1>1, <2>2, Room, Sizes DEF Grown, Ending, Parts, FreePart, FileInv, OpenType, OpenFile
  <2>8. Holds(words', b, file.pos, log)
    <3>1. \A p \in 0 .. file.pos - 1 : lfs_ctz_index(p) \in 0 .. n
      BY <2>7, Placed
    <3> QED BY <2>3, <2>4, <3>1 DEF Holds
  <2>9. Grown(n, b)'
    BY <1>1, <2>2, <2>4, <2>5, <2>6, <2>8 DEF Grown, Apart
  <2> QED BY <2>9
<1>9. FreePart'
  <2>1. FreePart
    BY DEF Parts
  <2> QED BY <1>1, <1>4, <2>1 DEF FreePart, Moving
<1> QED BY <1>5, <1>7, <1>8, <1>9 DEF Parts

\* An empty file has no blocks.
LEMMA TraverseEmpty == ASSUME NEW c, c.size = 0 PROVE lfs_ctz_traverse(c) = {}
BY DEF lfs_ctz_traverse

\* The invariant of the chains holds at first, and each step keeps it.
LEMMA InitChains == FileInit => Parts
<1> SUFFICES ASSUME FileInit PROVE Parts
  OBVIOUS
<1>1. Opened
  <2>1. 0 \in Block
    BY Sizes DEF Block
  <2> QED BY <2>1 DEF Opened, FileInit
<1> QED BY <1>1, OpenedParts

LEMMA StutterChains == Parts /\ UNCHANGED fileVars => Parts'
<1> SUFFICES ASSUME Parts, UNCHANGED fileVars PROVE Parts'
  OBVIOUS
<1>1. Fresh' = Fresh
  BY DEF fileVars, Fresh, Window, Ahead
<1>2. EntryPart' = EntryPart
  BY DEF fileVars, EntryPart
<1>3. FlushedPart' = FlushedPart
  BY <1>1 DEF fileVars, FlushedPart, Flushed, Apart
<1>4. GrowingPart' = GrowingPart
  BY <1>1 DEF fileVars, GrowingPart, Grown, Ending, Reaches, Moving, Apart
<1>5. FreePart' = FreePart
  BY <1>1 DEF fileVars, FreePart, Moving, Window, Ahead
<1> QED BY <1>2, <1>3, <1>4, <1>5 DEF Parts

LEMMA NextChains == FileInv /\ Parts /\ ScansWhole /\ [FileNext]_fileVars => Parts'
<1> SUFFICES ASSUME FileInv, Parts, ScansWhole, [FileNext]_fileVars PROVE Parts'
  OBVIOUS
<1>1. CASE Fopen \/ ExtWrite \/ Fclose \/ PowerLoss
  BY <1>1, FopenChains, ExtWriteChains, FcloseChains, PowerLossChains
<1>2. CASE AllocTake \/ AllocScan \/ AllocFail \/ AllocCorrupt
  BY <1>2, AllocTakeChains, AllocScanChains, AllocFailChains, AllocCorruptChains
<1>3. CASE Extend \/ Program \/ ProgramCorrupt \/ Written
  BY <1>3, ExtendChains, ProgramChains, ProgramCorruptChains, WrittenChains
<1>4. CASE Relocate \/ ExtendCopy \/ ExtendLink \/ NewBlockBad
  BY <1>4, RelocateChains, ExtendCopyChains, ExtendLinkChains, NewBlockBadChains
<1>5. CASE ExtWriteStuck \/ AssertFails
  BY <1>5, StuckChains
<1>6. CASE UNCHANGED fileVars
  BY <1>6, StutterChains
<1> QED BY <1>1, <1>2, <1>3, <1>4, <1>5, <1>6 DEF FileNext, FileStep

LEMMA ChainHolds == FileSpec /\ []ScansWhole => [](FileInv /\ Parts)
<1>1. FileInit => FileInv /\ Parts
  BY InitInv, InitChains
<1>2. FileInv /\ Parts /\ ScansWhole /\ [FileNext]_fileVars => (FileInv /\ Parts)'
  BY NextInv, NextChains
<1> QED BY <1>1, <1>2, PTL DEF FileSpec

-----------------------------------------------------------------------------
(* Before a block turns out bad, none is moved.                            *)

Unmoved == ~(Moving /\ file.writing) /\ phase \notin {"stuck", "again"}

BadPart == bad \in Nat /\ (bad = 0 => Parts /\ Unmoved)

LEMMA NextMoving ==
  FileInv /\ Unmoved /\ bad \in Nat /\ bad' = bad /\ [FileNext]_fileVars => Unmoved'
<1> SUFFICES ASSUME FileInv, Unmoved, bad \in Nat, bad' = bad, [FileNext]_fileVars
             PROVE  (Moving' => ~file'.writing) /\ phase' \notin {"stuck", "again"}
  BY DEF Unmoved
<1>1. ~ExtWriteStuck /\ ~AssertFails /\ (WriteFails => phase' = "idle")
  BY DEF Unmoved, Moving, ExtWriteStuck, AssertFails, WriteFails
<1>2. ~ProgramCorrupt /\ ~NewBlockBad
  <2>1. ~(bad' = bad + 1)
    OBVIOUS
  <2> QED BY <2>1 DEF ProgramCorrupt, NewBlockBad, Unmoved
<1>3. CASE ExtWrite
  <2>1. CASE file.inline
    <3>1. file' = [Rewound EXCEPT !.off = file.pos] /\ phase' = "alloc"
      BY <1>3, <2>1 DEF ExtWrite
    <3>2. file.pos = 0 /\ ~file.writing /\ file \in OpenFile
      BY <2>1 DEF FileInv, Place, OpenType
    <3> QED BY <3>1, <3>2 DEF Rewound, OpenFile
  <2>2. CASE ~file.inline
    BY <1>3, <2>2 DEF ExtWrite, Moving
  <2> QED BY <2>1, <2>2
<1>4. CASE AllocTake
  BY <1>4 DEF AllocTake, Moving, Unmoved
<1>5. CASE AllocScan
  BY <1>5 DEF AllocScan, Moving, Unmoved
<1>6. CASE UNCHANGED fileVars
  BY <1>6 DEF fileVars, Moving, Unmoved
<1>7. CASE Fopen \/ Fclose \/ PowerLoss \/ Program \/ Written
  BY <1>7 DEF Fopen, Fclose, PowerLoss, Program, Written, Moving
<1>8. CASE AllocFail \/ AllocCorrupt
  BY <1>1, <1>8 DEF AllocFail, AllocCorrupt, Moving
<1>9. CASE Extend
  <2>1. phase' = "idle" \/ (phase' = "alloc" /\ why' = "extend")
    BY <1>1, <1>9 DEF Extend
  <2> QED BY <2>1 DEF Moving
<1>10. CASE Relocate \/ ExtendCopy \/ ExtendLink
  <2>1. phase' \in {"idle", "write"}
    BY <1>1, <1>10 DEF Relocate, ExtendCopy, ExtendLink, ExtendFails, NewBlock
  <2> QED BY <2>1 DEF Moving
<1> QED BY <1>1, <1>2, <1>3, <1>4, <1>5, <1>6, <1>7, <1>8, <1>9, <1>10 DEF FileNext, FileStep

\* What the steps do to the number of bad blocks.
LEMMA BadSteps ==
  ASSUME [FileNext]_fileVars
  PROVE  \/ Fopen /\ bad' = 0
         \/ bad' = bad /\ ~NewBlockBad /\ (ProgramCorrupt => phase = "again")
         \/ bad' = bad + 1 /\ (ProgramCorrupt \/ NewBlockBad)
<1>1. CASE Fopen
  BY <1>1 DEF Fopen
<1>2. CASE ProgramCorrupt \/ NewBlockBad
  BY <1>2 DEF ProgramCorrupt, NewBlockBad
<1>3. CASE ~ProgramCorrupt /\ ~NewBlockBad /\ FileStep
  BY <1>3 DEF FileStep, AllocTake, AllocScan, AllocFail, AllocCorrupt, Extend, Program,
              AssertFails, Written, Relocate, ExtendCopy, ExtendLink, ExtendFails, NewBlock
<1>4. CASE ~ProgramCorrupt /\ ~NewBlockBad /\ ~FileStep /\ ~Fopen
  BY <1>4 DEF FileNext, ExtWrite, ExtWriteStuck, Fclose, PowerLoss, fileVars
<1> QED BY <1>1, <1>2, <1>3, <1>4

LEMMA BadHolds == FileSpec => [](FileInv /\ BadPart)
<1>1. FileInit => FileInv /\ BadPart
  <2>1. FileInit => bad = 0 /\ Unmoved
    BY DEF FileInit, Moving, Unmoved
  <2> QED BY <2>1, InitInv, InitChains DEF BadPart
<1>2. FileInv /\ BadPart /\ [FileNext]_fileVars => BadPart'
  <2> SUFFICES ASSUME FileInv, BadPart, [FileNext]_fileVars PROVE BadPart'
    OBVIOUS
  <2>1. CASE Fopen /\ bad' = 0
    <3>1. Unmoved'
      BY <2>1 DEF Fopen, Moving, Unmoved
    <3> QED BY <2>1, <3>1, FopenChains DEF BadPart
  <2>2. CASE bad' = bad
    <3>1. SUFFICES ASSUME bad = 0 PROVE Parts' /\ Unmoved'
      BY <2>2 DEF BadPart
    <3>2. Parts /\ Unmoved /\ bad \in Nat
      BY <3>1 DEF BadPart
    <3>3. ScansWhole
      BY <3>2 DEF ScansWhole, Unmoved
    <3> QED BY <2>2, <3>2, <3>3, NextChains, NextMoving
  <2>3. CASE bad' = bad + 1
    <3>1. bad' \in Nat /\ bad' # 0
      BY <2>3 DEF BadPart
    <3> QED BY <3>1 DEF BadPart
  <2> QED BY <2>1, <2>2, <2>3, BadSteps
<1> QED BY <1>1, <1>2, NextInv, PTL DEF FileSpec

-----------------------------------------------------------------------------
(* What it says of a state.                                                *)

\* The chain of the file in the directory.
LEMMA EntryMade ==
  ASSUME FileInv, Parts, entry.size # 0
  PROVE  entry.size \in 1 .. FileWords /\ \E b : Made(words, entry, b, kept)
<1>1. entry.size \in 0 .. FileWords
  BY DEF FileInv, RestType, Chain, FileWords
<1>2. entry.size > 0 /\ entry.size \in 1 .. FileWords
  BY <1>1, Sizes
<1> QED BY <1>2 DEF Parts, EntryPart

\* The chain that was flushed.
LEMMA FlushedMade ==
  ASSUME FileInv, Parts, file.ctz.size # 0
  PROVE  /\ file.ctz.size \in 1 .. FileWords
         /\ \E b : Made(words, file.ctz, b, log) /\ Flushed(b)
<1>1. file.ctz.size \in 0 .. FileWords
  BY DEF FileInv, OpenType, OpenFile, Chain, FileWords
<1>2. file.ctz.size > 0 /\ file.ctz.size \in 1 .. FileWords
  BY <1>1, Sizes
<1> QED BY <1>2 DEF Parts, FlushedPart, Flushed

\* Chains that hold their words are read back.
LEMMA PartsRead == FileInv /\ Parts => ReadsBack
<1> SUFFICES ASSUME FileInv, Parts PROVE ReadsBack
  OBVIOUS
<1>1. Reads(entry, kept)
  <2>1. entry.size \in 0 .. FileWords
    BY DEF FileInv, RestType, Chain, FileWords
  <2>2. entry.size > 0 => \E b : Made(words, entry, b, kept)
    BY DEF Parts, EntryPart
  <2> QED BY <2>1, <2>2, MadeReads DEF FileInv
<1>2. Reads(file.ctz, log)
  <2>1. file.ctz.size \in 0 .. FileWords
    BY DEF FileInv, OpenType, OpenFile, Chain, FileWords
  <2>2. file.ctz.size > 0 => \E b : Made(words, file.ctz, b, log)
    BY DEF Parts, FlushedPart, Flushed
  <2> QED BY <2>1, <2>2, MadeReads DEF FileInv
<1>3. ASSUME file.writing, phase = "idle" PROVE Reads(Growing, log)
  <2>1. PICK n, b : Grown(n, b)
    BY <1>3 DEF Parts, GrowingPart
  <2>2. file.pos \in 1 .. FileWords /\ Made(words, Growing, b, log)
    <3>1. Settled
      BY <1>3 DEF Settled, Moving
    <3> QED BY <2>1, <3>1, GrownMade
  <2>3. Growing.size \in 0 .. FileWords
    BY <2>2, Sizes DEF Growing
  <2> QED BY <2>2, <2>3, MadeReads DEF FileInv
<1> QED BY <1>1, <1>2, <1>3 DEF ReadsBack

\* Their blocks are found.
LEMMA PartsTraverse == FileInv /\ Parts => TraverseWhole
<1> SUFFICES ASSUME FileInv, Parts PROVE TraverseWhole
  OBVIOUS
<1>1. ASSUME NEW c, c.size = 0
      PROVE  lfs_ctz_traverse(c) = {lfs_ctz_find(c, pos) : pos \in 0 .. c.size - 1}
  <2>1. 0 .. c.size - 1 = {}
    BY <1>1
  <2> QED BY <1>1, <2>1, TraverseEmpty
<1>2. lfs_ctz_traverse(entry) = {lfs_ctz_find(entry, pos) : pos \in 0 .. entry.size - 1}
  BY <1>1, EntryMade, MadeTraverse DEF FileInv
<1>3. lfs_ctz_traverse(file.ctz)
        = {lfs_ctz_find(file.ctz, pos) : pos \in 0 .. file.ctz.size - 1}
  BY <1>1, FlushedMade, MadeTraverse DEF FileInv
<1> QED BY <1>2, <1>3 DEF TraverseWhole

\* The blocks in use that no step writes.
LEMMA PartsApart ==
  ASSUME FileInv, Parts, phase # "closed"
  PROVE  /\ \A x \in Fresh : x \notin InUse
         /\ file.writing => file.block \notin InUse
<1>1. lfs_ctz_traverse(entry) = {}
  BY TraverseEmpty DEF Parts, EntryPart
<1>2. /\ \A x \in Fresh : x \notin Pair \cup other
      /\ file.writing => file.block \notin Pair \cup other
  BY DEF Parts, FreePart
<1>3. /\ \A x \in Fresh : x \notin lfs_ctz_traverse(file.ctz)
      /\ file.writing => file.block \notin lfs_ctz_traverse(file.ctz)
  <2>1. CASE file.ctz.size = 0
    BY <2>1, TraverseEmpty
  <2>2. CASE file.ctz.size # 0
    <3> DEFINE n == lfs_ctz_index(file.ctz.size - 1)
    <3>1. PICK b : Made(words, file.ctz, b, log) /\ Flushed(b)
      BY <2>2, FlushedMade
    <3>2. lfs_ctz_traverse(file.ctz) = Blocks(b, n)
      BY <2>2, <3>1, FlushedMade, MadeTraverse DEF FileInv
    <3>3. \A i \in 0 .. n : b[i] \notin Fresh
      BY <3>1 DEF Flushed, Apart
    <3>4. file.writing => \A i \in 0 .. n : b[i] # file.block
      BY <3>1 DEF Flushed
    <3> HIDE DEF n
    <3> QED BY <3>2, <3>3, <3>4 DEF Blocks
  <2> QED BY <2>1, <2>2
<1> QED BY <1>1, <1>2, <1>3 DEF InUse

\* The chain that a block is allocated for, with the block that has no word yet.
LEMMA TakenBlocks ==
  ASSUME FileInv, Parts, phase = "alloc", file.writing, NEW n, NEW b, Grown(n, b)
  PROVE  lfs_ctz_traverse(Taken) = Blocks(b, n)
<1>1. n \in Nat /\ Linked(words, b, n) /\ b[n] = file.block /\ Reaches(n, file.off)
  BY DEF Grown, Ending
<1>2. /\ file.off \in 0 .. BlockWords /\ file.pos \in Position /\ BlockWords \in Nat
      /\ file.pos \in Nat /\ file.off \in Nat
  BY Room, Sizes DEF FileInv, OpenType, OpenFile, Parts, FreePart, Position
<1>3. CASE file.off = BlockWords
  <2>1. Settled
    BY <1>3 DEF Settled
  <2>2. /\ file.pos \in 1 .. FileWords /\ n = lfs_ctz_index(file.pos - 1)
        /\ Made(words, Growing, b, log)
    BY <2>1, GrownMade
  <2>3. Taken = Growing
    BY <1>2, <1>3 DEF Taken, Growing
  <2> QED BY <2>2, <2>3, MadeTraverse DEF Growing, FileInv
<1>4. CASE file.off < BlockWords
  <2>1. At(file.pos, n, file.off)
    <3>1. CASE file.off > Start(n) /\ At(file.pos - 1, n, file.off - 1)
      <4> DEFINE q == file.pos - 1
                 o == file.off - 1
      <4>1. At(q, n, o) /\ Start(n) \in Nat
        BY <3>1, PlaceFacts
      <4>2. q + 1 = file.pos /\ o + 1 = file.off /\ Start(n) <= o + 1 /\ o + 1 <= BlockWords - 1
        BY <1>2, <1>4, <3>1, <4>1
      <4> HIDE DEF q, o
      <4>3. At(q + 1, n, o + 1)
        BY <4>1, <4>2, Shift
      <4> QED BY <4>2, <4>3
    <3> QED BY <1>1, <3>1 DEF Reaches
  <2>2. n = lfs_ctz_index(file.pos) /\ n \in Index
    BY <1>2, <2>1, PlaceOf, PlaceFacts
  <2>3. /\ Taken.head = b[n] /\ Taken.size = file.pos + 1 /\ Taken.size # 0
        /\ Taken.size - 1 = file.pos
    BY <1>1, <1>2, <1>4 DEF Taken
  <2>4. lfs_ctz_index(Taken.size - 1) = n
    BY <2>2, <2>3
  <2> QED BY <1>1, <2>2, <2>3, <2>4, TraverseIs DEF FileInv
<1> QED BY <1>2, <1>3, <1>4

\* Other files keep their blocks.
OthersPart == other \in SUBSET Block

\* No action changes what they are.
LEMMA OthersHold == FileSpec => []OthersPart
<1>1. FileInit => OthersPart
  BY FileAssumption DEF FileInit, OthersPart
<1>2. OthersPart /\ [FileNext]_fileVars => OthersPart'
  <2> SUFFICES ASSUME [FileNext]_fileVars PROVE other' = other
    BY DEF OthersPart
  <2>1. CASE FileStep
    BY <2>1 DEF FileStep, AllocTake, AllocScan, AllocFail, AllocCorrupt, Extend, Program,
                ProgramCorrupt, AssertFails, Written, Relocate, ExtendCopy, ExtendLink,
                ExtendFails, NewBlock, NewBlockBad
  <2>2. CASE ~FileStep
    BY <2>2 DEF FileNext, Fopen, ExtWrite, ExtWriteStuck, Fclose, PowerLoss, fileVars
  <2> QED BY <2>1, <2>2
<1> QED BY <1>1, <1>2, PTL DEF FileSpec

\* The blocks in use are blocks of the volume, and so are those that the
\* allocator walks over.
LEMMA InUseBlocks ==
  ASSUME FileInv, Parts, OthersPart
  PROVE  /\ InUse \subseteq Block
         /\ (file.writing => Settled) => lfs_fs_rawtraverse \subseteq Block
<1>1. ASSUME NEW c, NEW b, NEW s, c.size \in 1 .. FileWords, Made(words, c, b, s)
      PROVE  lfs_ctz_traverse(c) \subseteq Block
  <2>1. lfs_ctz_traverse(c) = Blocks(b, lfs_ctz_index(c.size - 1))
    BY <1>1, MadeTraverse DEF FileInv
  <2>2. b \in [0 .. lfs_ctz_index(c.size - 1) -> Block]
    BY <1>1 DEF Made, Linked
  <2> QED BY <2>1, <2>2 DEF Blocks
<1>2. lfs_ctz_traverse(entry) \subseteq Block
  BY <1>1, EntryMade, TraverseEmpty
<1>3. lfs_ctz_traverse(file.ctz) \subseteq Block
  BY <1>1, FlushedMade, TraverseEmpty
<1>4. Pair \subseteq Block
  BY Sizes DEF Pair, Block
<1>5. ASSUME Settled, file.writing PROVE lfs_ctz_traverse(Growing) \subseteq Block
  <2>1. PICK n, b : Grown(n, b)
    BY <1>5 DEF Parts, GrowingPart
  <2>2. Growing.size \in 1 .. FileWords /\ Made(words, Growing, b, log)
    BY <1>5, <2>1, GrownMade DEF Growing
  <2> QED BY <1>1, <2>2
<1> QED BY <1>2, <1>3, <1>4, <1>5 DEF InUse, OthersPart, lfs_fs_rawtraverse

\* A step writes at most one block, and none that is in use.
LEMMA StepKeeps ==
  FileInv /\ Parts /\ OthersPart
    => [FileStep => \A b \in InUse : words'[b] = words[b]]_fileVars
<1> SUFFICES ASSUME FileInv, Parts, OthersPart, FileStep
             PROVE  \A b \in InUse : words'[b] = words[b]
  OBVIOUS
<1>2. InUse \subseteq Block
  BY InUseBlocks
<1>3. words \in [Block -> Content]
  BY DEF FileInv, WordsType
<1>4. CASE words' = words
  BY <1>4
<1>5. CASE Program \/ ProgramCorrupt
  <2>1. /\ file.writing /\ phase # "closed"
        /\ \E block : words' = [words EXCEPT ![file.block] = block]
    BY <1>5 DEF Program, ProgramCorrupt, Programmed, NeedsBlock
  <2>2. file.block \notin InUse
    BY <2>1, PartsApart
  <2> QED BY <1>2, <1>3, <2>1, <2>2
<1>6. CASE Relocate \/ ExtendCopy \/ ExtendLink \/ NewBlockBad
  <2>1. phase = "got" /\ \E block : words' = [words EXCEPT ![nblock] = block]
    BY <1>6 DEF Relocate, ExtendCopy, ExtendLink, ExtendFails, NewBlockBad, Copied
  <2>2. nblock \notin InUse
    BY <2>1, PartsApart DEF Fresh
  <2> QED BY <1>2, <1>3, <2>1, <2>2
<1>7. ASSUME \/ AllocTake \/ AllocScan \/ AllocFail \/ AllocCorrupt
             \/ Extend \/ AssertFails \/ Written
      PROVE  words' = words
  BY <1>7 DEF AllocTake, AllocScan, AllocFail, AllocCorrupt, Extend, AssertFails, Written
<1> QED BY <1>4, <1>5, <1>6, <1>7 DEF FileStep

-----------------------------------------------------------------------------
(* What an allocation has looked at.                                       *)

\* The blocks that are still to be looked at, behind the lookahead buffer.
Unseen == {(free.off + free.size + j) % BlockCount : j \in 0 .. Left - 1}

(* An allocation begins at a free block, or with a buffer that is used up. *)
(* In this case it looks at all blocks, and those that are free are the    *)
(* ones it has not looked at yet.                                          *)
Looked ==
  /\ phase \in {"idle", "write", "got"} /\ Ahead = {} => free.i = free.size
  /\ phase = "alloc" /\ Ahead = {} => Block \ lfs_fs_rawtraverse \subseteq Unseen

\* What a sum leaves is what the rests leave.
LEMMA ModSum ==
  ASSUME NEW p \in Nat \ {0}, NEW q \in Nat, NEW j \in Nat
  PROVE  ((q % p) + j) % p = (q + j) % p
<1> DEFINE d == q \div p
           r == q % p
           e == (r + j) \div p
           s == (r + j) % p
<1>1. d \in Nat /\ r \in 0 .. p - 1 /\ q = d * p + r
  BY DivMod
<1> HIDE DEF d, r
<1>2. r + j \in Nat
  BY <1>1
<1>3. e \in Nat /\ s \in 0 .. p - 1 /\ r + j = e * p + s
  BY <1>2, DivMod
<1> HIDE DEF e, s
<1>4. q + j = (d + e) * p + s
  BY ONLY p \in Nat \ {0}, q \in Nat, j \in Nat, <1>1, <1>3, Z3
<1>5. d + e \in Nat
  BY <1>1, <1>3
<1>6. ((d + e) * p + s) % p = s
  BY <1>3, <1>5, DivModOf
<1> QED BY <1>4, <1>6 DEF r, s

\* From any block on, all blocks are within reach.
LEMMA AllUnseen ==
  ASSUME NEW p \in Nat \ {0}, NEW q \in Nat, NEW x \in 0 .. p - 1
  PROVE  \E j \in 0 .. p - 1 : x = (q + j) % p
<1> DEFINE d == q \div p
           r == q % p
<1>1. d \in Nat /\ r \in 0 .. p - 1 /\ q = d * p + r
  BY DivMod
<1> HIDE DEF d, r
<1>2. CASE x >= r
  <2> DEFINE j == x - r
  <2>1. j \in 0 .. p - 1
    BY <1>1, <1>2
  <2>2. q + j = d * p + x
    BY ONLY p \in Nat \ {0}, q \in Nat, x \in 0 .. p - 1, <1>1, Z3
  <2>3. (d * p + x) % p = x
    BY <1>1, DivModOf
  <2> QED BY <2>1, <2>2, <2>3
<1>3. CASE x < r
  <2> DEFINE j == (x + p) - r
  <2>1. j \in 0 .. p - 1 /\ d + 1 \in Nat
    BY <1>1, <1>3
  <2>2. q + j = (d + 1) * p + x
    BY ONLY p \in Nat \ {0}, q \in Nat, x \in 0 .. p - 1, <1>1, Z3
  <2>3. ((d + 1) * p + x) % p = x
    BY <2>1, DivModOf
  <2> QED BY <2>1, <2>2, <2>3
<1> QED BY <1>1, <1>2, <1>3

\* What is in use stays so while the allocator looks at the volume.
LEMMA SameTraverse ==
  ASSUME words' = words, other' = other, entry' = entry, file' = file
  PROVE  lfs_fs_rawtraverse' = lfs_fs_rawtraverse
<1>1. lfs_ctz_traverse(entry)' = lfs_ctz_traverse(entry)
  BY SMT DEF lfs_ctz_traverse, Ptr, Readable
<1>2. lfs_ctz_traverse(file.ctz)' = lfs_ctz_traverse(file.ctz)
  BY SMT DEF lfs_ctz_traverse, Ptr, Readable
<1>3. lfs_ctz_traverse(Growing)' = lfs_ctz_traverse(Growing)
  BY SMT DEF lfs_ctz_traverse, Ptr, Readable, Growing
<1> QED BY <1>1, <1>2, <1>3 DEF lfs_fs_rawtraverse

\* A write begins to look at all of the volume.
LEMMA AckLooked ==
  ASSUME FileInv, Looked, phase \in {"idle", "write"}, phase' = "alloc", free' = lfs_alloc_ack
  PROVE  Looked'
<1>1. /\ free.off \in Nat /\ free.i \in Nat /\ free.size \in Nat /\ free \in FreeList
      /\ BlockCount \in Nat \ {0}
  BY Sizes DEF FileInv, FreeType, FreeList, Block
<1>2. /\ free'.off = free.off /\ free'.size = free.size /\ free'.i = free.i
      /\ free'.used = free.used /\ free'.ack = BlockCount
  BY <1>1 DEF lfs_alloc_ack, FreeList
<1>3. ASSUME Ahead' = {}, NEW x \in Block PROVE x \in Unseen'
  <2>1. Ahead' = Ahead
    BY <1>2 DEF Ahead
  <2>2. free.i = free.size
    BY <1>3, <2>1 DEF Looked
  <2>3. Left' = BlockCount
    BY <1>1, <1>2, <2>2 DEF Left
  <2> DEFINE q == free.off + free.size
  <2>4. q \in Nat /\ x \in 0 .. BlockCount - 1
    BY <1>1 DEF Block
  <2>5. free'.off + free'.size = q
    BY <1>2
  <2> HIDE DEF q
  <2>6. \E j \in 0 .. BlockCount - 1 : x = (q + j) % BlockCount
    BY <1>1, <2>4, AllUnseen
  <2> QED BY <2>3, <2>5, <2>6 DEF Unseen
<1> QED BY <1>3 DEF Looked

\* The part that is looked at next.
LEMMA ScanLooked ==
  ASSUME FileInv, Looked, AllocScan, lfs_fs_rawtraverse \subseteq Block
  PROVE  Looked'
<1> DEFINE off  == NextOff
           size == Part(Left)
           used == Bitmap(off, size)
           T == lfs_fs_rawtraverse
<1>1. /\ phase = "alloc" /\ phase' = "alloc" /\ Ahead = {} /\ Left > 0
      /\ free' = [off |-> off, size |-> size, i |-> 0, ack |-> Left, used |-> used]
      /\ UNCHANGED <<words, other, entry, file>>
  BY DEF AllocScan
<1>2. free'.off = off /\ free'.size = size /\ free'.i = 0 /\ free'.used = used /\ free'.ack = Left
  <2> HIDE DEF off, size, used
  <2> QED BY <1>1
<1>3. lfs_fs_rawtraverse' = T
  BY <1>1, SameTraverse
<1>4. /\ free.off \in Nat /\ free.size \in Nat /\ BlockCount \in Nat \ {0}
      /\ Left \in Nat /\ Lookahead \in Nat
  BY <1>1, Sizes DEF FileInv, FreeType, FreeList, Block, Left
<1>5. size \in Nat /\ size <= Left
  <2> HIDE DEF Left
  <2> QED BY <1>4, MinOfTwo DEF Part
<1>6. Block \ T \subseteq Unseen
  BY <1>1 DEF Looked
<1>7. Left' = Left - size
  <2> DEFINE l == Left
  <2>1. free'.ack = l /\ l \in Nat
    BY <1>2, <1>4
  <2> HIDE DEF l, size
  <2> QED BY <1>2, <1>5, <2>1 DEF Left, l
<1> DEFINE q == free.off + free.size
<1>8. q \in Nat /\ off = q % BlockCount
  BY <1>4 DEF NextOff
<1> HIDE DEF q, used, off, size, T
<1>9. ASSUME Ahead' = {}, NEW x \in Block, x \notin T PROVE x \in Unseen'
  <2>1. PICK j \in 0 .. Left - 1 : x = (q + j) % BlockCount
    BY <1>6, <1>9 DEF Unseen, q
  <2>2. (off + j) % BlockCount = x
    <3>1. j \in Nat /\ BlockCount \in Nat \ {0} /\ q \in Nat
      BY <1>4, <1>8, <2>1
    <3>2. ((q % BlockCount) + j) % BlockCount = (q + j) % BlockCount
      BY <3>1, ModSum
    <3> QED BY <1>8, <2>1, <3>2
  <2>3. j \notin 0 .. size - 1
    <3>1. SUFFICES ASSUME j \in 0 .. size - 1 PROVE FALSE
      OBVIOUS
    <3>2. j \notin used
      <4>1. SUFFICES ASSUME NEW h \in T, h % BlockCount = (off + j) % BlockCount PROVE FALSE
        BY DEF used, Bitmap, T
      <4>2. h \in 0 .. BlockCount - 1
        BY <4>1 DEF T, Block
      <4>3. h % BlockCount = h
        BY <1>4, <4>2, SmallRest
      <4> QED BY <1>9, <2>2, <4>1, <4>3
    <3>3. j \in Ahead'
      BY <1>2, <3>1, <3>2 DEF Ahead
    <3> QED BY <1>9, <3>3
  <2> DEFINE i == j - size
  <2>4. i \in 0 .. Left' - 1 /\ off \in Nat /\ off + size + i = off + j
    <3>1. off \in Nat
      BY <1>4, <1>8, DivMod
    <3> HIDE DEF Left
    <3>2. Left' = Left - size
      BY <1>7
    <3> QED BY <1>4, <1>5, <2>1, <2>3, <3>1, <3>2
  <2>5. x = (free'.off + free'.size + i) % BlockCount
    BY <1>2, <2>2, <2>4
  <2> HIDE DEF i
  <2> QED BY <2>4, <2>5 DEF Unseen
<1> QED BY <1>1, <1>3, <1>9 DEF Looked, T

\* The entry that is looked at next is free, or the buffer is used up.
LEMMA TakeLooked ==
  ASSUME FileInv, AllocTake
  PROVE  Looked'
<1> DEFINE m == Min(Ahead)
           S == (Ahead \ {m}) \cup {free.size}
           next == Min(S)
<1>1. /\ Ahead # {} /\ phase' = "got"
      /\ free' = [free EXCEPT !.i = next, !.ack = @ - (next - free.i)]
  BY DEF AllocTake
<1>2. free \in FreeList /\ free.i \in Nat /\ free.size \in Nat
  BY DEF FileInv, FreeType, FreeList
<1> HIDE DEF next
<1>3. free'.i = next /\ free'.size = free.size /\ free'.used = free.used
  BY <1>1, <1>2 DEF FreeList
<1>4. Ahead \in SUBSET Nat /\ \A j \in Ahead : free.i <= j /\ j < free.size
  BY <1>2 DEF Ahead
<1>5. ASSUME Ahead' = {} PROVE next = free.size
  <2>1. S \in SUBSET Nat /\ S # {}
    BY <1>2, <1>4
  <2>2. next \in S
    BY <2>1, LeastOf DEF next
  <2>3. next \notin Ahead
    <3>1. SUFFICES ASSUME next \in Ahead PROVE FALSE
      OBVIOUS
    <3>2. next \in free'.i .. free'.size - 1 /\ next \notin free'.used
      BY <1>2, <1>3, <3>1 DEF Ahead
    <3>3. next \in Ahead'
      BY <3>2 DEF Ahead
    <3> QED BY <1>5, <3>3
  <2> QED BY <2>2, <2>3
<1> QED BY <1>1, <1>3, <1>5 DEF Looked

\* The other steps leave the buffer alone, or have used it up.
LEMMA QuietLooked ==
  ASSUME Looked, phase \in {"idle", "write", "got"}, phase' # "alloc",
         free'.i = free.i /\ free'.size = free.size /\ free'.used = free.used
  PROVE  Looked'
BY DEF Looked, Ahead

\* It holds at first, and each step keeps it.
LEMMA InitLooked == FileInit => Looked
BY DEF FileInit, Looked

LEMMA NextLooked ==
  FileInv /\ BadPart /\ OthersPart /\ (bad = 0 => Looked) /\ [FileNext]_fileVars
    => (bad = 0 => Looked)'
<1> SUFFICES ASSUME FileInv, BadPart, OthersPart, bad = 0 => Looked, [FileNext]_fileVars, bad' = 0
             PROVE  Looked'
  OBVIOUS
<1>1. CASE Fopen
  <2>1. phase' = "idle" /\ \E off \in Block : free' = lfs_alloc_drop(off)
    BY <1>1 DEF Fopen
  <2>2. free'.i = free'.size
    BY <2>1 DEF lfs_alloc_drop
  <2> QED BY <2>1, <2>2 DEF Looked
<1>2. CASE Fclose \/ PowerLoss \/ ExtWriteStuck \/ AssertFails
  BY <1>2 DEF Fclose, PowerLoss, ExtWriteStuck, AssertFails, Looked
<1>3. ASSUME ~Fopen
      PROVE  Looked /\ bad = 0 /\ Parts /\ Unmoved /\ ~NewBlockBad /\ ~ProgramCorrupt
  <2>1. ~(bad' = bad + 1)
    BY DEF BadPart
  <2> QED BY <1>3, <2>1, BadSteps DEF BadPart, Unmoved
<1>4. CASE ~Fopen /\ ExtWrite
  <2>1. phase = "idle" /\ (\/ phase' = "alloc" /\ free' = lfs_alloc_ack
                           \/ phase' = "write" /\ free' = free)
    BY <1>4 DEF ExtWrite
  <2> QED BY <1>3, <1>4, <2>1, AckLooked, QuietLooked
<1>5. CASE ~Fopen /\ AllocTake
  BY <1>5, TakeLooked
<1>6. CASE ~Fopen /\ AllocScan
  <2>1. Parts /\ (file.writing => Settled)
    BY <1>3, <1>6 DEF Unmoved, AllocScan, Settled
  <2> QED BY <1>3, <1>6, <2>1, InUseBlocks, ScanLooked
<1>7. CASE ~Fopen /\ (AllocFail \/ AllocCorrupt)
  <2>1. /\ phase' \in {"idle", "stuck"} /\ free \in FreeList
        /\ \/ free' = [free EXCEPT !.i = free.size, !.ack = 0]
           \/ free' = lfs_alloc_drop(NextOff)
    BY <1>7 DEF AllocFail, AllocCorrupt, WriteFails, FileInv, FreeType
  <2>2. lfs_alloc_drop(NextOff).i = lfs_alloc_drop(NextOff).size
    BY DEF lfs_alloc_drop
  <2>3. free'.i = free'.size
    BY <2>1, <2>2 DEF FreeList
  <2> QED BY <2>1, <2>3 DEF Looked
<1>8. CASE ~Fopen /\ Extend
  <2>1. phase = "write" /\ \/ phase' = "alloc" /\ free' = lfs_alloc_ack
                           \/ phase' = "idle" /\ free' = free
    BY <1>8 DEF Extend, WriteFails
  <2> QED BY <1>3, <1>8, <2>1, AckLooked, QuietLooked
<1>9. CASE ~Fopen /\ Program
  <2>1. phase = "write" /\ phase' = "write" /\ free' = lfs_alloc_ack /\ free \in FreeList
    BY <1>9 DEF Program, FileInv, FreeType
  <2>2. free'.i = free.i /\ free'.size = free.size /\ free'.used = free.used
    BY <2>1 DEF lfs_alloc_ack, FreeList
  <2> QED BY <1>3, <1>9, <2>1, <2>2, QuietLooked
<1>10. CASE ~Fopen /\ Written
  BY <1>3, <1>10, QuietLooked DEF Written
<1>11. CASE ~Fopen /\ (Relocate \/ ExtendCopy \/ ExtendLink)
  <2>1. phase = "got" /\ phase' \in {"write", "idle"} /\ free' = free
    BY <1>11 DEF Relocate, ExtendCopy, ExtendLink, ExtendFails, WriteFails, NewBlock
  <2> QED BY <1>3, <1>11, <2>1, QuietLooked
<1>12. CASE UNCHANGED fileVars
  <2>1. phase' = phase /\ free' = free /\ bad' = bad /\ Looked
    BY <1>12 DEF fileVars
  <2>2. lfs_fs_rawtraverse' = lfs_fs_rawtraverse
    BY <1>12, SameTraverse DEF fileVars
  <2> QED BY <2>1, <2>2 DEF Looked, Ahead, Unseen, Left
<1> QED BY <1>1, <1>2, <1>3, <1>4, <1>5, <1>6, <1>7, <1>8, <1>9, <1>10, <1>11, <1>12
        DEF FileNext, FileStep

LEMMA LookedHolds == FileSpec => [](FileInv /\ (bad = 0 => Looked))
<1>1. FileInit => (bad = 0 => Looked)
  BY InitLooked
<1>2. /\ FileInv /\ BadPart /\ OthersPart /\ (bad = 0 => Looked)
      /\ [FileNext]_fileVars
      => (bad = 0 => Looked)'
  BY NextLooked
<1> QED BY <1>1, <1>2, BadHolds, OthersHold, PTL DEF FileSpec

-----------------------------------------------------------------------------
(* The theorems.                                                           *)

(* Every state of an upload is well typed: the offset in the block that is *)
(* written stays within it, the words that are programmed are those of a   *)
(* record, and what lfs_file_write() goes on from is a block number, that  *)
(* of a block or what a word of a bad block was read as.                   *)
THEOREM FileTypeCorrect == FileSpec => []FileTypeOK
<1>1. FileInv => FileTypeOK
  <2> SUFFICES ASSUME FileInv PROVE FileTypeOK
    OBVIOUS
  <2>1. FreeType /\ OpenType /\ WordsType /\ RestType
    BY DEF FileInv
  <2>2. words \in [Block -> [0 .. BlockWords - 1 -> Word]]
    BY <2>1 DEF WordsType, Content
  <2>3. /\ file.ctz \in Chain /\ file.block \in Number /\ file.off \in 0 .. BlockWords
        /\ file.pos \in 0 .. MaxRecords * RecordWords
    BY <2>1 DEF OpenType, OpenFile, FileWords
  <2>4. /\ free.off \in Block /\ free.i \in 0 .. free.size
        /\ free.size - free.i <= free.ack /\ free.ack <= BlockCount
    BY <2>1 DEF FreeType, FreeList
  <2> QED BY <2>1, <2>2, <2>3, <2>4 DEF FileTypeOK, RestType
<1> QED BY <1>1, InvHolds, PTL

(* FCLOSE commits all that was sent since FOPEN, whatever blocks it took   *)
(* and however many of them were bad, unless a write has failed.           *)
THEOREM FileCommitsAllSent == FileSpec => CommitsAllSent
<1>1. FileInv /\ [FileNext]_fileVars
        => [Fclose /\ ~failed /\ sent > 0 => kept' = Whole(sent)]_fileVars
  <2> SUFFICES ASSUME FileInv, Fclose, ~failed, sent > 0 PROVE kept' = Whole(sent)
    OBVIOUS
  <2>1. phase \in {"idle", "stuck"} /\ OpenType /\ RestType /\ Place /\ Sent
    BY DEF FileInv, Fclose
  <2>2. todo = 0 /\ sent \in 0 .. MaxRecords /\ log \in Seq(Data)
    BY <2>1 DEF Place, RestType
  <2>3. /\ ~file.erred /\ file.writing /\ Len(log) = sent * RecordWords
        /\ \A k \in 1 .. Len(log) : log[k] = WordAt(k)
    <3>1. sent * RecordWords \in Nat /\ todo < RecordWords
      BY <2>2, SentWords, Sizes
    <3> QED BY <2>1, <2>2, <3>1 DEF Sent
  <2>4. lfs_file_flush.dirty
    BY <2>1, <2>3 DEF lfs_file_flush, OpenType, OpenFile
  <2>5. kept' = log
    BY <2>3, <2>4 DEF Fclose
  <2>6. log = [k \in 1 .. Len(log) |-> log[k]]
    BY <2>2, LenProperties
  <2>7. [k \in 1 .. Len(log) |-> log[k]] = [k \in 1 .. sent * RecordWords |-> WordAt(k)]
    BY <2>3
  <2>8. Whole(sent) = [k \in 1 .. sent * RecordWords |-> WordAt(k)]
    BY DEF Whole, WordAt
  <2> QED BY <2>5, <2>6, <2>7, <2>8
<1> QED BY <1>1, InvHolds, PTL DEF FileSpec, CommitsAllSent

(* The words of an upload are read back, whatever blocks turn out bad on   *)
(* the way: lfs_ctz_find() finds each of them through the pointers that    *)
(* lfs_ctz_extend() has written, in the file that was committed and in the *)
(* open one, before and after it is flushed.                               *)
THEOREM FileReadsBack == FileSpec /\ []ScansWhole => []ReadsBack
BY ChainHolds, PartsRead, PTL

(* The walk of the allocator, two blocks at a time, misses no block in     *)
(* which lfs_ctz_find() finds a word, and visits no other.                 *)
THEOREM FileTraverseWhole == FileSpec /\ []ScansWhole => []TraverseWhole
BY ChainHolds, PartsTraverse, PTL

(* An upload is copied on write: no step touches a block of the superblock *)
(* pair, of another file, of the committed file, or of what was flushed of *)
(* the open one, neither when it writes nor when a block turns out bad.    *)
THEOREM FileCopiesOnWrite == FileSpec /\ []ScansWhole => CopyOnWrite
BY ChainHolds, OthersHold, StepKeeps, PTL DEF CopyOnWrite

(* The premise holds up to the first bad block, also in the uploads after  *)
(* one in which it did not: FOPEN begins anew.  In these the file is read  *)
(* back and walked over whole.                                             *)
THEOREM FileUntilBad == FileSpec => [](bad = 0 => ScansWhole /\ ReadsBack /\ TraverseWhole)
<1>1. FileInv /\ BadPart => (bad = 0 => ScansWhole /\ ReadsBack /\ TraverseWhole)
  <2> SUFFICES ASSUME FileInv, BadPart, bad = 0
               PROVE  ScansWhole /\ ReadsBack /\ TraverseWhole
    OBVIOUS
  <2>1. Parts /\ ~(Moving /\ file.writing)
    BY DEF BadPart, Unmoved
  <2> QED BY <2>1, PartsRead, PartsTraverse DEF ScansWhole
<1> QED BY <1>1, BadHolds, PTL

(* lfs_alloc_ack(): no block is allocated that the file that is being      *)
(* written is made of, however often the lookahead buffer is filled during *)
(* a write.                                                                *)
THEOREM FileNotCollected == FileSpec /\ []ScansWhole => NotCollected
<1>1. ASSUME FileInv, Parts, AllocTake, file.writing
      PROVE  nblock' \notin lfs_ctz_traverse(Taken)
  <2>1. phase = "alloc" /\ Ahead # {} /\ nblock' = (free.off + Min(Ahead)) % BlockCount
    BY <1>1 DEF AllocTake
  <2>2. Min(Ahead) \in Ahead
    <3>1. free.i \in Nat
      BY <1>1 DEF FileInv, FreeType, FreeList
    <3>2. Ahead \in SUBSET Nat
      BY <3>1 DEF Ahead
    <3> QED BY <2>1, <3>2, LeastOf
  <2>3. nblock' \in Fresh
    BY <2>1, <2>2 DEF Fresh, Window
  <2>4. PICK n, b : Grown(n, b)
    BY <1>1 DEF Parts, GrowingPart
  <2>5. lfs_ctz_traverse(Taken) = Blocks(b, n)
    BY <1>1, <2>1, <2>4, TakenBlocks
  <2> QED BY <2>3, <2>4, <2>5 DEF Grown, Apart, Blocks
<1>2. FileInv /\ Parts
        => [AllocTake /\ file.writing /\ file.pos > 0
             => nblock' \notin lfs_ctz_traverse(Taken)]_fileVars
  BY <1>1
<1> QED BY <1>2, ChainHolds, PTL DEF NotCollected

(* Without bad blocks a write fails only when every block is in use,       *)
(* although the lookahead buffer shows what was in use some writes ago,    *)
(* and the walk of the allocator follows nothing but pointers.             *)
THEOREM FileFailsWhenFull == FileSpec /\ [](bad = 0) => FailsWhenFull
<1>1. ASSUME FileInv, Looked, bad = 0, AllocFail
      PROVE  Cardinality(Block \ lfs_fs_rawtraverse) <= bad
  <2>1. phase = "alloc" /\ Ahead = {} /\ Left = 0
    BY <1>1 DEF AllocFail
  <2>2. Unseen = {}
    BY <2>1 DEF Unseen
  <2>3. Block \ lfs_fs_rawtraverse = {}
    BY <1>1, <2>1, <2>2 DEF Looked
  <2>4. Cardinality(Block \ lfs_fs_rawtraverse) = 0
    BY <2>3, FS_EmptySet
  <2> QED BY <1>1, <2>4
<1>2. ASSUME FileInv, BadPart, OthersPart, bad = 0 PROVE ~AllocCorrupt
  <2>1. SUFFICES ASSUME AllocCorrupt PROVE FALSE
    OBVIOUS
  <2>2. Parts /\ (file.writing => Settled)
    BY <1>2, <2>1 DEF BadPart, Unmoved, AllocCorrupt, Settled
  <2>3. lfs_fs_rawtraverse \subseteq Block
    BY <1>2, <2>2, InUseBlocks
  <2> QED BY <2>1, <2>3, PointerWord DEF AllocCorrupt
<1>3. FileInv /\ BadPart /\ OthersPart /\ (bad = 0 => Looked) /\ bad = 0
        => [/\ AllocFail => Cardinality(Block \ lfs_fs_rawtraverse) <= bad
            /\ AllocCorrupt => JustLinked /\ lfs_ctz_index(file.pos - 1) >= 4]_fileVars
  BY <1>1, <1>2
<1> QED BY <1>3, LookedHolds, BadHolds, OthersHold, PTL DEF FailsWhenFull
=============================================================================
