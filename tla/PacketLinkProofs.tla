-------------------------- MODULE PacketLinkProofs --------------------------
(***************************************************************************)
(* What get_packet() accepts and where it stores, for every number of byte *)
(* values, every size of the buffer and of the FIFO, and all packets that  *)
(* fit the buffer.                                                         *)
(*                                                                         *)
(* The check sum is a recursive function over the data of a packet.        *)
(* SumEquation says that it is the sum of its bytes (RecursionFacts), and  *)
(* AddByte and OtherByte that a sum which has gone wrong stays so.         *)
(*                                                                         *)
(* The inductive invariant says that a receiver which was not led astray   *)
(* is in step (InStep): what it waits for is what comes next (Stage), and  *)
(* of the bytes taken and those on the line at most one is changed, which  *)
(* the sum, or the line, still shows (Intact).                             *)
(***************************************************************************)
EXTENDS PacketLink, RecursionFacts, SequenceTheorems

-----------------------------------------------------------------------------
(* The check sum.                                                          *)

\* The sums that Checksum goes through.
SumOf(s) ==
  LET sum[k \in 0 .. Len(s)] == IF k = 0 THEN 0 ELSE (sum[k - 1] + s[k]) % Base
  IN  sum

\* Two byte values at least.
LEMMA BaseNat == Base \in Nat \ {0, 1} /\ 0 \in Byte /\ 1 \in Byte
BY LinkAssumption DEF Byte

(* Two sums that differ still do when the same byte is added to both.      *)
LEMMA AddByte ==
  ASSUME NEW x \in Byte, NEW y \in Byte, NEW b \in Byte
  PROVE  (x + b) % Base \in Byte /\ (x # y => (x + b) % Base # (y + b) % Base)
<1>1. Base \in Nat \ {0, 1} /\ x \in 0 .. Base - 1 /\ y \in 0 .. Base - 1 /\ b \in 0 .. Base - 1
  BY BaseNat DEF Byte
<1>2. (x + b) % Base = IF x + b < Base THEN x + b ELSE x + b - Base
  BY <1>1, Z3
<1>3. (y + b) % Base = IF y + b < Base THEN y + b ELSE y + b - Base
  BY <1>1, Z3
<1> QED BY <1>1, <1>2, <1>3 DEF Byte

(* The same sum does not come from different bytes.                        *)
LEMMA OtherByte ==
  ASSUME NEW x \in Byte, NEW b \in Byte, NEW c \in Byte, b # c
  PROVE  (x + b) % Base # (x + c) % Base
<1>1. b + x = x + b /\ c + x = x + c
  BY BaseNat DEF Byte
<1>2. (b + x) % Base # (c + x) % Base
  BY AddByte
<1> QED BY <1>1, <1>2

(* The recursion of the check sum over the data of a packet.               *)
LEMMA SumEquation ==
  ASSUME NEW s \in Seq(Byte)
  PROVE  /\ SumOf(s) \in [0 .. Len(s) -> Byte]
         /\ SumOf(s)[0] = 0
         /\ \A k \in 1 .. Len(s) : SumOf(s)[k] = (SumOf(s)[k - 1] + s[k]) % Base
         /\ Checksum(s) = SumOf(s)[Len(s)]
<1> DEFINE N == Len(s)
           Is(f) == f = [k \in 0 .. N |-> IF k = 0 THEN 0 ELSE (f[k - 1] + s[k]) % Base]
           step == [k \in 1 .. N |-> [v \in Byte |-> (v + s[k]) % Base]]
<1>1. N \in Nat /\ \A k \in 1 .. N : s[k] \in Byte
  OBVIOUS
<1>2. \A k \in 1 .. N, v \in Byte : (v + s[k]) % Base \in Byte
  BY <1>1, AddByte
<1>3. PICK f \in [0 .. N -> Byte] : Iterates(f, 0, step, N)
  <2>1. step \in [1 .. N -> [Byte -> Byte]]
    BY <1>2
  <2> HIDE DEF step, N
  <2> QED BY <1>1, <2>1, BaseNat, RecursionUpTo
<1>4. Is(f)
  <2>1. f[0] = 0 /\ \A k \in 1 .. N : f[k] = step[k][f[k - 1]]
    BY <1>3 DEF Iterates
  <2>2. ASSUME NEW k \in 1 .. N PROVE f[k] = (f[k - 1] + s[k]) % Base
    <3>1. k - 1 \in 0 .. N
      BY <1>1
    <3>2. f[k - 1] \in Byte
      BY <3>1
    <3> QED BY <2>1, <3>2
  <2> HIDE DEF N, step
  <2>3. \A k \in 0 .. N : f[k] = IF k = 0 THEN 0 ELSE (f[k - 1] + s[k]) % Base
    BY <1>1, <2>1, <2>2
  <2> QED BY <2>3
<1> DEFINE g == CHOOSE h : Is(h)
<1>5. Is(g)
  <2> HIDE DEF Is
  <2> QED BY <1>4
<1>6. SumOf(s) = g /\ Checksum(s) = g[N]
  BY DEF SumOf, Checksum
<1> HIDE DEF g
<1>7. g[0] = 0 /\ \A k \in 1 .. N : g[k] = (g[k - 1] + s[k]) % Base
  <2> HIDE DEF N
  <2>1. \A k \in 0 .. N : g[k] = IF k = 0 THEN 0 ELSE (g[k - 1] + s[k]) % Base
    BY <1>5
  <2>2. 0 \in 0 .. N /\ \A k \in 1 .. N : k \in 0 .. N /\ k # 0
    BY <1>1
  <2> QED BY <2>1, <2>2
<1>8. \A k \in 0 .. N : g[k] \in Byte
  <2> DEFINE S == {k \in 0 .. N : g[k] \in Byte}
  <2>1. 0 \in S
    BY <1>1, <1>7, BaseNat
  <2>2. ASSUME NEW k \in 0 .. N - 1, k \in S PROVE k + 1 \in S
    <3>1. k + 1 \in 1 .. N /\ (k + 1) - 1 = k /\ g[k] \in Byte
      BY <1>1, <2>2
    <3>2. g[k + 1] = (g[k] + s[k + 1]) % Base
      BY <1>7, <3>1
    <3> QED BY <1>1, <1>2, <3>1, <3>2
  <2>3. 0 .. N \subseteq S
    <3> HIDE DEF S, N
    <3> QED BY <1>1, <2>1, <2>2, InductionUpTo
  <2> QED BY <2>3
<1>9. g \in [0 .. N -> Byte]
  BY <1>5, <1>8
<1> QED BY <1>6, <1>7, <1>9

-----------------------------------------------------------------------------
(* The packets.                                                            *)

\* A packet of the programmer has a command and data that fit the buffer.
LEMMA Packets ==
  ASSUME NEW p \in Outbox
  PROVE  /\ p = [cmd |-> p.cmd, data |-> p.data] /\ p.cmd \in Byte
         /\ p.data \in Seq(Byte) /\ Len(p.data) \in 0 .. BUFFERSIZE
<1>1. p \in [cmd : Byte, data : UNION {[1 .. m -> Byte] : m \in 0 .. BUFFERSIZE}]
  BY LinkAssumption
<1>2. PICK m \in 0 .. BUFFERSIZE : p.data \in [1 .. m -> Byte]
  BY <1>1
<1>3. BUFFERSIZE \in Nat
  BY LinkAssumption
<1>4. p.data \in Seq(Byte) /\ Len(p.data) = m
  BY <1>2, <1>3
<1> QED BY <1>1, <1>4

(* The length of the data, in two bytes.                                   *)
LEMMA LengthBytes ==
  ASSUME NEW m \in 0 .. BUFFERSIZE
  PROVE  /\ m \div Base \in Byte /\ m % Base \in Byte
         /\ (m \div Base) * Base + (m % Base) = m
<1>1. Base \in Nat \ {0, 1} /\ BUFFERSIZE \in 1 .. Base * Base - 1
  BY LinkAssumption
<1>2. Base * Base \in Nat
  BY <1>1
<1>3. m \in Nat /\ m < Base * Base
  BY <1>1, <1>2
<1>4. m % Base \in 0 .. Base - 1 /\ m \div Base \in Nat
  BY <1>1, <1>3
<1>5. (m \div Base) * Base + (m % Base) = m
  BY <1>1, <1>3, Z3
<1>6. m \div Base < Base
  <2> DEFINE q == m \div Base
  <2>1. q \in Nat /\ q * Base <= m
    BY <1>1, <1>3, <1>4, <1>5
  <2> HIDE DEF q
  <2>2. q >= Base => q * Base >= Base * Base
    BY <1>1, <2>1, Z3
  <2>3. q * Base \in Nat
    BY <1>1, <2>1
  <2> QED BY <1>1, <1>2, <1>3, <2>1, <2>2, <2>3 DEF q
<1> QED BY <1>1, <1>4, <1>5, <1>6 DEF Byte

\* Sequence f is made of s and t.
Joined(f, s, t) ==
  /\ f \in Seq(Byte) /\ Len(f) = Len(s) + Len(t)
  /\ \A i \in 1 .. Len(s) : f[i] = s[i]
  /\ \A i \in 1 .. Len(t) : f[Len(s) + i] = t[i]

\* What a concatenation is made of.
LEMMA Concatenated ==
  ASSUME NEW s \in Seq(Byte), NEW t \in Seq(Byte)
  PROVE  Joined(s \o t, s, t)
<1> DEFINE f == s \o t
<1>1. /\ f \in Seq(Byte) /\ Len(f) = Len(s) + Len(t)
      /\ \A i \in 1 .. Len(s) + Len(t) : f[i] = IF i <= Len(s) THEN s[i] ELSE t[i - Len(s)]
  BY ConcatProperties
<1>2. Len(s) \in Nat /\ Len(t) \in Nat
  OBVIOUS
<1>3. \A i \in 1 .. Len(s) : i \in 1 .. Len(s) + Len(t) /\ i <= Len(s)
  BY <1>2
<1>4. \A i \in 1 .. Len(t) : /\ Len(s) + i \in 1 .. Len(s) + Len(t)
                             /\ ~(Len(s) + i <= Len(s)) /\ (Len(s) + i) - Len(s) = i
  BY <1>2
<1> HIDE DEF f
<1>5. Joined(f, s, t)
  BY <1>1, <1>3, <1>4 DEF Joined
<1> QED BY <1>5 DEF f

\* The bytes of packet p, which has m bytes of data, are those of f.
Framed(f, p, m) ==
  /\ f \in Seq(Byte) /\ Len(f) = m + 7 /\ m \in Nat
  /\ f[1] = HEADER /\ f[2] = HEADER /\ f[3] = HEADER /\ f[4] = p.cmd
  /\ f[5] = m \div Base /\ f[6] = m % Base
  /\ \A i \in 1 .. m : f[6 + i] = p.data[i]
  /\ f[m + 7] = SumOf(p.data)[m]

(* What put_packet() sends.                                                *)
LEMMA FrameBytes ==
  ASSUME NEW p \in Outbox
  PROVE  Framed(put_packet(p.cmd, p.data), p, Len(p.data))
<1> DEFINE f == put_packet(p.cmd, p.data)
           d == p.data
           m == Len(d)
           hi == m \div Base
           lo == m % Base
           h == <<HEADER, HEADER, HEADER, p.cmd, hi, lo>>
           sum == Checksum(d)
           c == <<sum>>
<1>1. d \in Seq(Byte) /\ m = Len(d) /\ m \in 0 .. BUFFERSIZE /\ p.cmd \in Byte /\ m \in Nat
  BY Packets, LinkAssumption
<1>2. HEADER \in Byte /\ hi \in Byte /\ lo \in Byte
  BY <1>1, LengthBytes, LinkAssumption
<1>3. sum = SumOf(d)[m] /\ sum \in Byte
  <2> HIDE DEF d, m
  <2> QED BY <1>1, SumEquation
<1>4. f = (h \o d) \o c
  BY DEF put_packet
<1> HIDE DEF hi, lo, sum, d, m, f
<1>5. h \in Seq(Byte) /\ Len(h) = 6
  BY <1>1, <1>2
<1>6. /\ h[1] = HEADER /\ h[2] = HEADER /\ h[3] = HEADER /\ h[4] = p.cmd
      /\ h[5] = hi /\ h[6] = lo
  OBVIOUS
<1>7. c \in Seq(Byte) /\ Len(c) = 1 /\ c[1] = sum
  BY <1>3
<1> HIDE DEF h, c
<1> DEFINE hd == h \o d
<1>8. /\ hd \in Seq(Byte) /\ Len(hd) = 6 + m
      /\ \A i \in 1 .. 6 : hd[i] = h[i]
      /\ \A i \in 1 .. m : hd[6 + i] = d[i]
  <2>1. Joined(hd, h, d)
    BY <1>1, <1>5, Concatenated
  <2> HIDE DEF hd
  <2> QED BY <1>1, <1>5, <2>1 DEF Joined
<1>9. /\ f \in Seq(Byte) /\ Len(f) = (6 + m) + 1
      /\ \A i \in 1 .. 6 + m : f[i] = hd[i]
      /\ \A i \in 1 .. 1 : f[(6 + m) + i] = c[i]
  <2> HIDE DEF hd
  <2>1. Joined(hd \o c, hd, c)
    BY <1>7, <1>8, Concatenated
  <2>2. f = hd \o c
    BY <1>4 DEF hd
  <2> QED BY <1>7, <1>8, <2>1, <2>2 DEF Joined
<1> HIDE DEF hd
<1>10. ASSUME NEW i \in 1 .. m PROVE f[6 + i] = d[i]
  <2>1. 6 + i \in 1 .. 6 + m
    BY <1>1
  <2> QED BY <1>8, <1>9, <2>1
<1>11. \A i \in 1 .. 6 : f[i] = h[i]
  <2>1. \A i \in 1 .. 6 : i \in 1 .. 6 + m
    BY <1>1
  <2> QED BY <1>8, <1>9, <2>1
<1>12. f[m + 7] = c[1] /\ Len(f) = m + 7
  <2>1. m + 7 = (6 + m) + 1 /\ 1 \in 1 .. 1
    BY <1>1
  <2> QED BY <1>9, <2>1
<1>13. Framed(f, p, m)
  BY <1>1, <1>3, <1>6, <1>7, <1>9, <1>10, <1>11, <1>12 DEF d, hi, lo, Framed
<1> QED BY <1>13 DEF f, m, d

-----------------------------------------------------------------------------
(* The types.                                                              *)

\* What the length is while it is received, and where the data loop is.
Place ==
  /\ at \in {"len_h", "len_l"} => n = 0
  /\ at = "len_h" => length = 0
  /\ at = "len_l" => length < Base
  /\ at = "data" => n < length

\* The types of what get_packet() assigns.
PacketOK ==
  /\ at \in At /\ cmd \in Byte /\ length \in 0 .. Base * Base - 1
  /\ buf \in [1 .. BUFFERSIZE -> Byte] /\ behind \in 0 .. Base * Base - 1 - BUFFERSIZE
  /\ n \in 0 .. length /\ chksum \in Byte /\ Place

(* Whatever the byte is, get_packet() keeps its variables in their types:  *)
(* the two bytes of the length make a number of 16 bits, which bounds what *)
(* the data loop can reach behind the buffer.                              *)
LEMMA TakeTypes ==
  ASSUME PacketOK, NEW b \in Byte, Take(b)
  PROVE  PacketOK'
<1>1. /\ Base \in Nat \ {0, 1} /\ BUFFERSIZE \in Nat \ {0} /\ Base * Base \in Nat
      /\ 0 \in Byte /\ b \in 0 .. Base - 1
  BY BaseNat, LinkAssumption DEF Byte
<1>2. CASE Header(b)
  BY <1>2 DEF Header, Again, PacketOK, Place, At
<1>3. CASE CommandByte(b)
  <2>1. 0 \in 0 .. Base * Base - 1 /\ 0 \in 0 .. 0
    <3>1. Base * Base >= 1
      BY <1>1, Z3
    <3> QED BY <1>1, <3>1
  <2> QED BY <1>1, <1>3, <2>1 DEF CommandByte, PacketOK, Place, At
<1>4. CASE Length(b)
  <2>1. length \in Nat /\ n = 0 /\ length < Base /\ (at = "len_h" => length = 0)
    BY <1>1, <1>4 DEF Length, PacketOK, Place
  <2>2. length * Base + b \in 0 .. Base * Base - 1
    <3>1. length * Base <= (Base - 1) * Base /\ length * Base \in Nat
      BY <1>1, <2>1, Z3
    <3>2. (Base - 1) * Base = Base * Base - Base
      BY <1>1, Z3
    <3> QED BY <1>1, <3>1, <3>2
  <2>3. length' \in 0 .. Base * Base - 1 /\ n' = 0
    BY <1>4, <2>1, <2>2 DEF Length
  <2>4. at = "len_h" => length' < Base
    <3>1. at = "len_h" => length' = 0 * Base + b
      BY <1>4, <2>1 DEF Length
    <3> QED BY <1>1, <3>1
  <2>5. n' \in 0 .. length' /\ (length' # 0 => n' < length')
    BY <1>1, <2>3
  <2> QED BY <1>4, <2>3, <2>4, <2>5 DEF Length, PacketOK, Place, At
<1>5. CASE Data(b)
  <2>1. n \in Nat /\ length \in Nat /\ n < length
    BY <1>1, <1>5 DEF Data, PacketOK, Place
  <2>2. chksum' \in Byte
    BY <1>5, AddByte DEF Data, PacketOK
  <2>3. buf' \in [1 .. BUFFERSIZE -> Byte] /\ behind' \in 0 .. Base * Base - 1 - BUFFERSIZE
    <3> DEFINE top == Base * Base
    <3>1. /\ Store(b) /\ top \in Nat /\ BUFFERSIZE \in Nat \ {0} /\ b \in Byte
          /\ buf \in [1 .. BUFFERSIZE -> Byte] /\ behind \in 0 .. top - 1 - BUFFERSIZE
          /\ n \in Nat /\ n < top - 1
      <4>1. length \in 0 .. top - 1
        BY <1>5 DEF PacketOK
      <4>2. top \in Nat
        BY <1>1
      <4> HIDE DEF top
      <4>3. n < top - 1
        BY <2>1, <4>1, <4>2
      <4> QED BY <1>1, <1>5, <2>1, <4>2, <4>3 DEF Data, PacketOK, top
    <3> HIDE DEF top
    <3>2. buf' \in [1 .. BUFFERSIZE -> Byte] /\ behind' \in 0 .. top - 1 - BUFFERSIZE
      <4>1. CASE n < BUFFERSIZE
        BY <3>1, <4>1 DEF Store
      <4>2. CASE ~(n < BUFFERSIZE)
        BY <3>1, <4>2 DEF Store
      <4> QED BY <4>1, <4>2
    <3> QED BY <3>2 DEF top
  <2>4. n' \in 0 .. length /\ (n' # length => n' < length)
    BY <1>5, <2>1 DEF Data
  <2> QED BY <1>5, <2>2, <2>3, <2>4 DEF Data, PacketOK, Place, At
<1>6. CASE Sum(b)
  BY <1>6 DEF Sum, Again, PacketOK, Place, At
<1> QED BY <1>2, <1>3, <1>4, <1>5, <1>6 DEF Take

\* A part of a sequence of bytes is one.
LEMMA PartOfLine ==
  ASSUME NEW s \in Seq(Byte), NEW i \in 1 .. Len(s) + 1, NEW j \in 0 .. Len(s)
  PROVE  SubSeq(s, i, j) \in Seq(Byte)
<1>1. i \in Int /\ j \in Int /\ \A k \in i .. j : s[k] \in Byte
  OBVIOUS
<1> QED BY <1>1, SubSeqProperties

\* The types at the start.
LEMMA LinkTypesInit == LinkInit => LinkTypeOK /\ Place
<1>1. SUFFICES ASSUME LinkInit PROVE LinkTypeOK /\ Place
  OBVIOUS
<1>2. 0 \in 0 .. Base * Base - 1
  <2>1. Base * Base \in Nat /\ Base * Base >= 1
    BY BaseNat, Z3
  <2> QED BY <2>1
<1>3. 0 \in 0 .. MaxFaults /\ 0 \in Byte
  BY BaseNat, LinkAssumption
<1>4. line \in Seq(Byte) /\ buf \in [1 .. BUFFERSIZE -> Byte]
  BY <1>1, <1>3 DEF LinkInit
<1>11. behind \in 0 .. Base * Base - 1 - BUFFERSIZE
  <2>1. behind = 0 /\ BUFFERSIZE \in 1 .. Base * Base - 1 /\ Base * Base \in Nat
    BY <1>1, BaseNat, LinkAssumption DEF LinkInit
  <2> QED BY <2>1
<1>5. /\ at = "head1" /\ cmd = 0 /\ length = 0 /\ n = 0 /\ chksum = 0 /\ slot \in Byte
      /\ sent \in Outbox /\ hurt = FALSE /\ astray = FALSE /\ faults = 0
  BY <1>1 DEF LinkInit
<1>6. Place
  BY <1>5 DEF Place
<1>7. at \in At
  BY <1>5 DEF At
<1>8. length \in 0 .. Base * Base - 1 /\ n \in 0 .. length
  BY <1>2, <1>5
<1>9. cmd \in Byte /\ chksum \in Byte /\ faults \in 0 .. MaxFaults
  BY <1>3, <1>5
<1>10. hurt \in BOOLEAN /\ astray \in BOOLEAN
  BY <1>5
<1> QED BY <1>4, <1>5, <1>6, <1>7, <1>8, <1>9, <1>10, <1>11 DEF LinkTypeOK

\* Every step keeps the types, and the place of the index.
LEMMA LinkTypesNext ==
  ASSUME LinkTypeOK, Place, [LinkNext]_linkVars
  PROVE  LinkTypeOK' /\ Place'
<1>0. /\ PacketOK /\ line \in Seq(Byte) /\ slot \in Byte /\ sent \in Outbox
      /\ hurt \in BOOLEAN /\ astray \in BOOLEAN /\ faults \in 0 .. MaxFaults
      /\ MaxFaults \in Nat
  BY LinkAssumption DEF LinkTypeOK, PacketOK
<1>1. SUFFICES /\ PacketOK' /\ line' \in Seq(Byte) /\ slot' \in Byte /\ sent' \in Outbox
               /\ hurt' \in BOOLEAN /\ astray' \in BOOLEAN /\ faults' \in 0 .. MaxFaults
  BY DEF LinkTypeOK, PacketOK
<1>2. Fault => faults' \in 0 .. MaxFaults
  BY <1>0 DEF Fault
<1>3. UNCHANGED packetVars => PacketOK'
  BY <1>0 DEF packetVars, PacketOK, Place
<1>4. CASE com_channel_getc
  <2>1. Head(line) \in Byte /\ Tail(line) \in Seq(Byte)
    BY <1>0, <1>4, HeadTailProperties DEF com_channel_getc
  <2> QED BY <1>0, <1>4, <2>1, TakeTypes DEF com_channel_getc
<1>5. CASE Handled
  <2>1. BUFFERSIZE \in Nat \ {0} /\ 0 \in Byte /\ 1 \in Byte
    BY BaseNat, LinkAssumption
  <2>2. 1 \in 0 .. Base * Base - 1
    <3>1. Base * Base \in Nat /\ Base * Base >= 2
      BY BaseNat, Z3
    <3> QED BY <3>1
  <2>3. PacketOK'
    BY <1>0, <1>5, <2>1, <2>2 DEF Handled, PacketOK, Place, At
  <2> QED BY <1>0, <1>5, <2>3 DEF Handled
<1>6. CASE TimeOut
  BY <1>0, <1>2, <1>6, TakeTypes DEF TimeOut
<1>7. ASSUME NEW p \in Outbox, Send(p) \/ SendEarly(p)
      PROVE  /\ PacketOK' /\ line' \in Seq(Byte) /\ slot' \in Byte /\ sent' \in Outbox
             /\ hurt' \in BOOLEAN /\ astray' \in BOOLEAN /\ faults' \in 0 .. MaxFaults
  <2> DEFINE f == put_packet(p.cmd, p.data)
  <2>1. f \in Seq(Byte)
    BY FrameBytes DEF Framed
  <2>2. FifoSize \in Nat \ {0}
    BY LinkAssumption
  <2> HIDE DEF f
  <2>3. Len(f) > FifoSize => SubSeq(f, 1, FifoSize) \in Seq(Byte)
    <3>1. Len(f) > FifoSize => FifoSize \in 0 .. Len(f) /\ 1 \in 1 .. Len(f) + 1
      BY <2>1, <2>2
    <3> QED BY <2>1, <3>1, PartOfLine
  <2>4. CASE Send(p)
    BY <1>0, <1>3, <2>1, <2>4 DEF Send, f
  <2>5. CASE SendEarly(p)
    <3>1. /\ line' = IF Len(f) > FifoSize THEN SubSeq(f, 1, FifoSize) ELSE f
          /\ astray' \in BOOLEAN /\ hurt' = FALSE /\ sent' = p /\ slot' = slot
          /\ UNCHANGED packetVars /\ Fault
      BY <2>5 DEF SendEarly, f
    <3>2. line' \in Seq(Byte)
      BY <2>1, <2>3, <3>1
    <3> QED BY <1>0, <1>2, <1>3, <3>1, <3>2
  <2> QED BY <1>7, <2>4, <2>5
<1>8. CASE Change
  <2>1. line' \in Seq(Byte)
    <3>1. PICK k \in 1 .. Len(line), b \in Byte : line' = [line EXCEPT ![k] = b]
      BY <1>8 DEF Change
    <3> QED BY <1>0, <3>1
  <2> QED BY <1>0, <1>2, <1>3, <1>8, <2>1 DEF Change
<1>9. CASE Lose
  <2>1. PICK k \in 1 .. Len(line) :
          line' = SubSeq(line, 1, k - 1) \o SubSeq(line, k + 1, Len(line))
    BY <1>9 DEF Lose
  <2>2. k - 1 \in 0 .. Len(line) /\ k + 1 \in 1 .. Len(line) + 1 /\ Len(line) \in 0 .. Len(line)
        /\ 1 \in 1 .. Len(line) + 1
    BY <1>0
  <2>3. SubSeq(line, 1, k - 1) \in Seq(Byte) /\ SubSeq(line, k + 1, Len(line)) \in Seq(Byte)
    BY <1>0, <2>2, PartOfLine
  <2>4. line' \in Seq(Byte)
    BY <2>1, <2>3
  <2> QED BY <1>0, <1>2, <1>3, <1>9, <2>4 DEF Lose
<1>10. CASE Noise
  <2>1. PICK k \in 0 .. Len(line), b \in Byte :
          line' = SubSeq(line, 1, k) \o <<b>> \o SubSeq(line, k + 1, Len(line))
    BY <1>10 DEF Noise
  <2>2. k \in 0 .. Len(line) /\ k + 1 \in 1 .. Len(line) + 1 /\ Len(line) \in 0 .. Len(line)
        /\ 1 \in 1 .. Len(line) + 1
    BY <1>0
  <2>3. SubSeq(line, 1, k) \in Seq(Byte) /\ SubSeq(line, k + 1, Len(line)) \in Seq(Byte)
    BY <1>0, <2>2, PartOfLine
  <2>4. line' \in Seq(Byte)
    BY <2>1, <2>3
  <2> QED BY <1>0, <1>2, <1>3, <1>10, <2>4 DEF Noise
<1>11. CASE HandlerHangs
  BY <1>0, <1>11 DEF HandlerHangs, PacketOK, Place, At
<1>12. CASE Restart
  <2>1. BUFFERSIZE \in Nat \ {0} /\ 0 \in Byte
    BY BaseNat, LinkAssumption
  <2>2. 0 \in 0 .. Base * Base - 1 /\ 0 \in 0 .. Base * Base - 1 - BUFFERSIZE
    <3>1. BUFFERSIZE \in 1 .. Base * Base - 1 /\ Base * Base \in Nat
      BY BaseNat, LinkAssumption
    <3> QED BY <3>1
  <2>3. PacketOK'
    BY <1>12, <2>1, <2>2 DEF Restart, PacketOK, Place, At
  <2>4. line' \in Seq(Byte)
    BY <1>12 DEF Restart
  <2> QED BY <1>0, <1>12, <2>3, <2>4 DEF Restart
<1>13. CASE UNCHANGED linkVars
  BY <1>0, <1>3, <1>13 DEF linkVars
<1> QED BY <1>4, <1>5, <1>6, <1>7, <1>8, <1>9, <1>10, <1>11, <1>12, <1>13
        DEF LinkNext, Device, Sender

\* The types, and the place of the index, in every state.
LEMMA LinkTypesAlways == LinkSpec => [](LinkTypeOK /\ Place)
<1>1. LinkTypeOK /\ Place /\ [LinkNext]_linkVars => LinkTypeOK' /\ Place'
  BY LinkTypesNext
<1> QED BY <1>1, LinkTypesInit, PTL DEF LinkSpec

(* The variables of get_packet() keep their types whatever is on the line: *)
(* n never passes the length, the length never passes 16 bits, and what is *)
(* stored behind bl_buffer never more than a length of 16 bits leaves over *)
(* its size, though get_packet() does not look at BUFFERSIZE.              *)
THEOREM LinkTypeCorrect == LinkSpec => []LinkTypeOK
BY LinkTypesAlways, PTL

-----------------------------------------------------------------------------
(* The receiver and the packet on the line.                                *)

\* The packet sent last, and how many of its bytes have been taken.
Frame == put_packet(sent.cmd, sent.data)
Pos == Len(Frame) - Len(line)

\* What get_packet() waits for is what comes next.
Stage ==
  \/ Pos = 0 /\ at \in {"head1", "handler"}
  \/ Pos = 1 /\ at = "head2"
  \/ Pos = 2 /\ at = "head3"
  \/ Pos = 3 /\ at = "cmd"
  \/ Pos = 4 /\ at = "len_h" /\ cmd = sent.cmd
  \/ Pos = 5 /\ at = "len_l" /\ cmd = sent.cmd /\ length = Len(sent.data) \div Base
  \/ /\ Pos = n + 6 /\ cmd = sent.cmd /\ length = Len(sent.data)
     /\ at = IF n < Len(sent.data) THEN "data" ELSE "sum"

\* The bytes on the line are the rest of the packet; or one byte of the data
\* or the check sum is not.
Same == \A k \in 1 .. Len(line) : line[k] = Frame[Pos + k]

OneOff ==
  \E j \in 1 .. Len(line) :
    /\ Pos + j > 6 /\ line[j] # Frame[Pos + j]
    /\ \A k \in 1 .. Len(line) \ {j} : line[k] = Frame[Pos + k]

\* The data that has been taken is the data sent; or its sum gives away that
\* it is not.
Good ==
  at \in {"len_h", "len_l", "data", "sum"} =>
    /\ chksum = SumOf(sent.data)[n]
    /\ \A i \in 1 .. n : buf[i] = sent.data[i]

Bad == at \in {"data", "sum"} /\ chksum # SumOf(sent.data)[n]

Intact == IF hurt THEN (OneOff /\ Good) \/ (Same /\ Bad) ELSE Same /\ Good

InStep ==
  IF line = <<>> THEN at \in {"head1", "handler"}
  ELSE Len(line) <= Len(Frame) /\ Stage /\ Intact

LinkInv == LinkTypeOK /\ Place /\ (~astray => InStep)

\* FrameBytes, of the packet sent last.
LEMMA SentBytes ==
  ASSUME LinkTypeOK
  PROVE  /\ Frame \in Seq(Byte) /\ Len(Frame) = Len(sent.data) + 7
         /\ Len(sent.data) \in 0 .. BUFFERSIZE /\ Len(sent.data) \in Nat
         /\ sent.data \in Seq(Byte)
         /\ Frame[1] = HEADER /\ Frame[2] = HEADER /\ Frame[3] = HEADER
         /\ Frame[4] = sent.cmd
         /\ Frame[5] = Len(sent.data) \div Base /\ Frame[6] = Len(sent.data) % Base
         /\ \A i \in 1 .. Len(sent.data) : Frame[6 + i] = sent.data[i]
         /\ Frame[Len(sent.data) + 7] = SumOf(sent.data)[Len(sent.data)]
         /\ SumOf(sent.data) \in [0 .. Len(sent.data) -> Byte]
         /\ SumOf(sent.data)[0] = 0
         /\ \A k \in 1 .. Len(sent.data) :
              SumOf(sent.data)[k] = (SumOf(sent.data)[k - 1] + sent.data[k]) % Base
<1>1. sent \in Outbox
  BY DEF LinkTypeOK
<1>2. sent.data \in Seq(Byte) /\ Len(sent.data) \in 0 .. BUFFERSIZE
  BY <1>1, Packets
<1>4. Framed(Frame, sent, Len(sent.data))
  BY <1>1, FrameBytes DEF Frame
<1>5. /\ SumOf(sent.data) \in [0 .. Len(sent.data) -> Byte]
      /\ SumOf(sent.data)[0] = 0
      /\ \A k \in 1 .. Len(sent.data) :
           SumOf(sent.data)[k] = (SumOf(sent.data)[k - 1] + sent.data[k]) % Base
  BY <1>2, SumEquation
<1> QED BY <1>2, <1>4, <1>5 DEF Framed

(* A byte is taken: it is that of the packet, or it is the changed one.    *)
LEMMA NextByte ==
  ASSUME LinkTypeOK, line # <<>>, Len(line) <= Len(Frame),
         line' = Tail(line), sent' = sent
  PROVE  /\ Len(line) \in Nat \ {0} /\ Len(line') = Len(line) - 1 /\ line' \in Seq(Byte)
         /\ Frame' = Frame /\ Pos \in Nat /\ Pos' = Pos + 1 /\ Head(line) \in Byte
         /\ Same => Head(line) = Frame[Pos + 1] /\ Same'
         /\ OneOff => IF Head(line) = Frame[Pos + 1] THEN OneOff'
                      ELSE Pos >= 6 /\ Same'
<1>1. line \in Seq(Byte) /\ Len(line) \in Nat \ {0} /\ Len(Frame) \in Nat
  <2>1. line \in Seq(Byte)
    BY DEF LinkTypeOK
  <2>2. Len(Frame) \in Nat
    BY SentBytes
  <2>3. Len(line) \in Nat \ {0}
    BY <2>1
  <2> QED BY <2>1, <2>2, <2>3
<1>2. /\ Head(line) \in Byte /\ Head(line) = line[1]
      /\ line' \in Seq(Byte) /\ Len(line') = Len(line) - 1
      /\ \A i \in 1 .. Len(line') : line'[i] = line[i + 1]
  <2>1. Head(line) = line[1]
    BY <1>1
  <2> QED BY <1>1, <2>1, HeadTailProperties
<1>3. Frame' = Frame
  BY DEF Frame
<1>4. Pos \in Nat /\ Pos' = Pos + 1
  BY <1>1, <1>2, <1>3 DEF Pos
<1>5. \A k \in 1 .. Len(line') : /\ k + 1 \in 1 .. Len(line)
                                 /\ Pos' + k = Pos + (k + 1)
  BY <1>1, <1>2, <1>4
<1>6. ASSUME Same PROVE Head(line) = Frame[Pos + 1] /\ Same'
  <2>1. 1 \in 1 .. Len(line)
    BY <1>1
  <2>2. line[1] = Frame[Pos + 1]
    BY <1>6, <2>1 DEF Same
  <2>3. \A k \in 1 .. Len(line') : line'[k] = Frame'[Pos' + k]
    BY <1>2, <1>3, <1>5, <1>6 DEF Same
  <2> QED BY <1>2, <2>2, <2>3 DEF Same
<1>7. ASSUME OneOff
      PROVE  IF Head(line) = Frame[Pos + 1] THEN OneOff' ELSE Pos >= 6 /\ Same'
  <2>1. PICK j \in 1 .. Len(line) :
          /\ Pos + j > 6 /\ line[j] # Frame[Pos + j]
          /\ \A k \in 1 .. Len(line) \ {j} : line[k] = Frame[Pos + k]
    BY <1>7 DEF OneOff
  <2>2. CASE j = 1
    <3>1. Head(line) # Frame[Pos + 1] /\ Pos >= 6
      BY <1>2, <1>4, <2>1, <2>2
    <3>2. \A k \in 1 .. Len(line') : k + 1 # j
      BY <1>2, <1>1, <2>2
    <3>3. \A k \in 1 .. Len(line') : line'[k] = Frame'[Pos' + k]
      BY <1>2, <1>3, <1>5, <2>1, <3>2
    <3> QED BY <3>1, <3>3 DEF Same
  <2>3. CASE j # 1
    <3> DEFINE i == j - 1
    <3>1. i \in 1 .. Len(line') /\ i + 1 = j /\ 1 \in 1 .. Len(line) \ {j}
      BY <1>1, <1>2, <2>3
    <3>2. Head(line) = Frame[Pos + 1]
      BY <1>2, <2>1, <3>1
    <3> HIDE DEF i
    <3>3. Pos' + i > 6 /\ line'[i] # Frame'[Pos' + i]
      BY <1>2, <1>3, <1>5, <2>1, <3>1
    <3>4. \A k \in 1 .. Len(line') \ {i} : line'[k] = Frame'[Pos' + k]
      <4>1. \A k \in 1 .. Len(line') \ {i} : k + 1 \in 1 .. Len(line) \ {j}
        BY <1>1, <1>2, <3>1
      <4> QED BY <1>2, <1>3, <1>5, <2>1, <4>1
    <3>5. OneOff'
      BY <3>1, <3>3, <3>4 DEF OneOff
    <3> QED BY <3>2, <3>5
  <2> QED BY <2>2, <2>3
<1> QED BY <1>1, <1>2, <1>3, <1>4, <1>6, <1>7

\* A byte of a packet is taken by the receiver, which is in step.
TakeNext ==
  /\ line # <<>> /\ line' = Tail(line) /\ Take(Head(line))
  /\ sent' = sent /\ hurt' = hurt

(* The bytes before the data are those sent.                               *)
LEMMA TakeHead ==
  ASSUME LinkTypeOK, Place, InStep, TakeNext, Pos < 6
  PROVE  InStep' /\ at' # "handler" /\ behind' = behind
<1> DEFINE b == Head(line)
           d == sent.data
           m == Len(sent.data)
<1>1. line # <<>> /\ Len(line) <= Len(Frame) /\ Stage /\ Intact /\ Take(b)
      /\ sent' = sent /\ hurt' = hurt
  BY DEF InStep, TakeNext
<1>2. /\ Len(line) \in Nat \ {0} /\ Len(line') = Len(line) - 1 /\ line' \in Seq(Byte)
      /\ Frame' = Frame /\ Pos \in Nat /\ Pos' = Pos + 1
      /\ Same => b = Frame[Pos + 1] /\ Same'
      /\ OneOff => IF b = Frame[Pos + 1] THEN OneOff' ELSE Pos >= 6 /\ Same'
  BY <1>1, NextByte DEF TakeNext
<1>3. /\ Len(Frame) = Len(sent.data) + 7 /\ m \in 0 .. BUFFERSIZE /\ m \in Nat
      /\ Frame[1] = HEADER /\ Frame[2] = HEADER /\ Frame[3] = HEADER
      /\ Frame[4] = sent.cmd /\ Frame[5] = m \div Base /\ Frame[6] = m % Base
      /\ SumOf(d)[0] = 0
  BY SentBytes
<1>4. b = Frame[Pos + 1] /\ (Same => Same') /\ (OneOff => OneOff')
  <2>1. ~(Pos >= 6)
    BY <1>2
  <2> HIDE DEF b
  <2> QED BY <1>1, <1>2, <2>1 DEF Intact
<1>5. Len(line') <= Len(Frame') /\ line' # <<>>
  <2>1. Len(line) > 1
    <3> HIDE DEF m
    <3> QED BY <1>2, <1>3 DEF Pos, m
  <2>2. Len(line') \in Nat \ {0} /\ Len(line') <= Len(Frame)
    <3> DEFINE a == Len(line)
               f == Len(Frame)
    <3>1. a \in Nat /\ a > 1 /\ a <= f /\ f \in Nat
      <4> HIDE DEF m
      <4> QED BY <1>1, <1>2, <1>3, <2>1 DEF m
    <3>2. Len(line') = a - 1
      BY <1>2
    <3> HIDE DEF a, f
    <3> QED BY <3>1, <3>2 DEF f
  <2> QED BY <1>2, <2>2
<1> HIDE DEF b
<1>6. ASSUME Good', Stage', at' # "handler", behind' = behind
      PROVE  InStep' /\ at' # "handler" /\ behind' = behind
  <2>1. at \notin {"data", "sum"}
    BY <1>1, <1>2 DEF Stage, LinkTypeOK
  <2>2. Intact'
    BY <1>1, <1>4, <1>6, <2>1 DEF Intact, Bad
  <2> QED BY <1>5, <1>6, <2>2 DEF InStep
<1>7. CASE at \in {"head1", "head2", "head3"}
  <2>1. Header(b)
    BY <1>1, <1>7 DEF Take, Header, CommandByte, Length, Data, Sum
  <2>2. /\ at = "head1" => Pos = 0
        /\ at = "head2" => Pos = 1
        /\ at = "head3" => Pos = 2
    BY <1>1, <1>7 DEF Stage
  <2>3. b = HEADER
    BY <1>3, <1>4, <1>7, <2>2
  <2>4. /\ at' = IF at = "head1" THEN "head2" ELSE IF at = "head2" THEN "head3" ELSE "cmd"
        /\ UNCHANGED <<cmd, length, buf, behind, n, chksum>>
    BY <2>1, <2>3 DEF Header
  <2>5. Stage'
    BY <1>2, <1>7, <2>2, <2>4 DEF Stage
  <2>6. Good'
    BY <1>7, <2>4 DEF Good
  <2> QED BY <1>6, <1>7, <2>4, <2>5, <2>6
<1>8. CASE at = "cmd"
  <2>1. at' = "len_h" /\ cmd' = b /\ length' = 0 /\ n' = 0 /\ chksum' = 0 /\ behind' = behind
    BY <1>1, <1>8 DEF Take, Header, CommandByte, Length, Data, Sum
  <2>2. Pos = 3
    BY <1>1, <1>8 DEF Stage
  <2>3. Stage'
    BY <1>1, <1>2, <1>3, <1>4, <2>1, <2>2 DEF Stage
  <2>4. Good'
    BY <1>1, <1>3, <2>1 DEF Good
  <2> QED BY <1>6, <2>1, <2>3, <2>4
<1>9. CASE at \in {"len_h", "len_l"}
  <2>1. /\ length' = length * Base + b
        /\ at' = IF at = "len_h" THEN "len_l" ELSE IF length' = 0 THEN "sum" ELSE "data"
        /\ UNCHANGED <<cmd, buf, behind, n, chksum>>
    BY <1>1, <1>9 DEF Take, Header, CommandByte, Length, Data, Sum
  <2>2. n = 0 /\ cmd = sent.cmd /\ (at = "len_h" => length = 0 /\ Pos = 4)
        /\ (at = "len_l" => length = m \div Base /\ Pos = 5)
    BY <1>1, <1>9 DEF Stage, Place
  <2>3. /\ m \div Base \in Byte /\ m % Base \in Byte /\ Base \in Nat
        /\ (m \div Base) * Base + (m % Base) = m
    BY <1>3, LengthBytes, BaseNat
  <2>4. Good'
    <3>1. Good
      BY <1>1, <1>9 DEF Intact, Bad
    <3> QED BY <1>1, <1>9, <2>1, <3>1 DEF Good
  <2>5. CASE at = "len_h"
    <3>1. length' = m \div Base
      <4>1. b = m \div Base
        BY <1>3, <1>4, <2>2, <2>5
      <4>2. length' = 0 * Base + b
        BY <2>1, <2>2, <2>5
      <4>3. \A q \in Byte : 0 * Base + q = q
        BY <2>3 DEF Byte
      <4> QED BY <2>3, <4>1, <4>2, <4>3
    <3>2. Stage'
      BY <1>1, <1>2, <2>1, <2>2, <2>5, <3>1 DEF Stage
    <3> QED BY <1>6, <2>1, <2>4, <2>5, <3>2
  <2>6. CASE at = "len_l"
    <3>1. length' = m
      <4>1. b = m % Base
        BY <1>3, <1>4, <2>2, <2>6
      <4> QED BY <2>1, <2>2, <2>3, <2>6, <4>1
    <3>2. at' = IF n' < m THEN "data" ELSE "sum"
      BY <1>3, <2>1, <2>2, <2>6, <3>1
    <3>3. Pos' = n' + 6
      BY <1>2, <2>1, <2>2, <2>6
    <3>4. Stage'
      BY <1>1, <2>1, <2>2, <3>1, <3>2, <3>3 DEF Stage
    <3> QED BY <1>6, <2>1, <2>4, <3>2, <3>4
  <2> QED BY <1>9, <2>5, <2>6
<1>10. at \in {"head1", "head2", "head3", "cmd", "len_h", "len_l"}
  <2>1. at # "handler"
    BY <1>1 DEF Take, Header, CommandByte, Length, Data, Sum
  <2>2. ~(Pos = n + 6)
    BY <1>2 DEF LinkTypeOK
  <2> QED BY <1>1, <2>1, <2>2 DEF Stage
<1> QED BY <1>7, <1>8, <1>9, <1>10

\* What the invariant says of a receiver that has the head of the packet.
LEMMA BodyFacts ==
  ASSUME LinkTypeOK, Place, InStep, TakeNext, ~(Pos < 6)
  PROVE  /\ line # <<>> /\ Len(line) <= Len(Frame) /\ Intact
         /\ at = IF n < Len(sent.data) THEN "data" ELSE "sum"
         /\ n \in 0 .. Len(sent.data) /\ Pos = n + 6
         /\ cmd = sent.cmd /\ length = Len(sent.data)
         /\ Len(line) = Len(sent.data) + 1 - n
         /\ chksum \in Byte /\ Head(line) \in Byte
         /\ buf \in [1 .. BUFFERSIZE -> Byte]
<1>1. line # <<>> /\ Len(line) <= Len(Frame) /\ Stage /\ Intact
  BY DEF InStep, TakeNext
<1>3. /\ at = IF n < Len(sent.data) THEN "data" ELSE "sum"
      /\ Pos = n + 6 /\ cmd = sent.cmd /\ length = Len(sent.data)
  BY <1>1 DEF Stage
<1>4. n \in 0 .. Len(sent.data) /\ chksum \in Byte /\ buf \in [1 .. BUFFERSIZE -> Byte]
      /\ line \in Seq(Byte)
  BY <1>3 DEF LinkTypeOK
<1>5. Len(line) = Len(sent.data) + 1 - n
  <2> DEFINE a == Len(line)
             m == Len(sent.data)
             p == Pos
  <2>1. a \in Nat /\ m \in Nat /\ n \in 0 .. m /\ p = m + 7 - a /\ p = n + 6
    BY <1>3, <1>4, SentBytes DEF Pos
  <2> HIDE DEF a, m, p
  <2>2. a = m + 1 - n
    BY <2>1
  <2> QED BY <2>2 DEF a, m
<1>6. Head(line) \in Byte
  BY <1>1, <1>4, HeadTailProperties
<1> QED BY <1>1, <1>3, <1>4, <1>5, <1>6

(* A byte of the data: when it is the changed one, the sum goes wrong, and *)
(* it stays wrong until the end.                                           *)
LEMMA TakeData ==
  ASSUME LinkTypeOK, Place, InStep, TakeNext, ~(Pos < 6), n < Len(sent.data)
  PROVE  InStep' /\ at' # "handler" /\ behind' = behind
<1> DEFINE b == Head(line)
           d == sent.data
           m == Len(sent.data)
           s == SumOf(sent.data)
<1>1. /\ line # <<>> /\ Len(line) <= Len(Frame) /\ Intact /\ at = "data"
      /\ n \in 0 .. m /\ Pos = n + 6 /\ cmd = sent.cmd /\ length = m
      /\ Len(line) = m + 1 - n /\ chksum \in Byte /\ b \in Byte
      /\ buf \in [1 .. BUFFERSIZE -> Byte]
  BY BodyFacts
<1>2. /\ m \in 0 .. BUFFERSIZE /\ m \in Nat /\ Len(Frame) = Len(sent.data) + 7
      /\ \A i \in 1 .. m : Frame[6 + i] = d[i]
      /\ s \in [0 .. m -> Byte]
      /\ \A k \in 1 .. m : s[k] = (s[k - 1] + d[k]) % Base
      /\ d \in Seq(Byte) /\ BUFFERSIZE \in Nat
  BY SentBytes, LinkAssumption
<1>3. /\ Len(line') = Len(line) - 1 /\ line' \in Seq(Byte)
      /\ Frame' = Frame /\ Pos' = Pos + 1 /\ sent' = sent /\ hurt' = hurt
      /\ Same => b = Frame[Pos + 1] /\ Same'
      /\ OneOff => IF b = Frame[Pos + 1] THEN OneOff' ELSE Pos >= 6 /\ Same'
  BY <1>1, NextByte DEF TakeNext
<1>4. /\ Store(b) /\ chksum' = (chksum + b) % Base /\ n' = n + 1
      /\ at' = IF n' = length THEN "sum" ELSE "data"
      /\ UNCHANGED <<cmd, length>>
  BY <1>1 DEF TakeNext, Take, Header, CommandByte, Length, Data, Sum
<1> HIDE DEF b, d, m, s
<1>5. /\ n \in Nat /\ n + 1 \in 1 .. m /\ (n + 1) - 1 = n /\ n < BUFFERSIZE
      /\ n \in 0 .. m /\ n + 1 \in 1 .. BUFFERSIZE
  BY <1>1, <1>2 DEF m
<1>13. buf' = [buf EXCEPT ![n + 1] = b] /\ behind' = behind
  BY <1>4, <1>5 DEF Store
<1>6. Frame[Pos + 1] = d[n + 1] /\ d[n + 1] \in Byte /\ s[n + 1] = (s[n] + d[n + 1]) % Base
      /\ s[n] \in Byte
  <2>1. Pos + 1 = 6 + (n + 1)
    BY <1>1, <1>5
  <2>2. d[n + 1] \in Byte
    BY <1>2, <1>5 DEF m, d
  <2> QED BY <1>2, <1>5, <2>1, <2>2
<1>7. Len(line') <= Len(Frame') /\ line' # <<>>
  <2>1. Len(line') \in Nat \ {0} /\ Len(line') <= Len(Frame)
    <3> DEFINE a == Len(line)
    <3>1. m \in Nat /\ n \in 0 .. m /\ n + 1 \in 1 .. m /\ a = m + 1 - n
      BY <1>1, <1>2, <1>5
    <3>2. Len(line') = a - 1 /\ Len(Frame) = m + 7
      BY <1>2, <1>3 DEF m
    <3> HIDE DEF a
    <3> QED BY <3>1, <3>2
  <2> QED BY <1>3, <2>1
<1>8. Stage' /\ at' \in {"data", "sum"}
  <2>1. Pos' = n' + 6
    BY <1>1, <1>3, <1>4, <1>5
  <2>2. at' = IF n' < m THEN "data" ELSE "sum"
    BY <1>1, <1>2, <1>4, <1>5
  <2> QED BY <1>1, <1>3, <1>4, <2>1, <2>2 DEF Stage, m
<1>9. ASSUME Good, b = Frame[Pos + 1] PROVE Good'
  <2>1. chksum = s[n] /\ \A i \in 1 .. n : buf[i] = d[i]
    BY <1>1, <1>9 DEF Good, s, d
  <2>2. chksum' = s[n + 1]
    BY <1>4, <1>6, <1>9, <2>1
  <2>3. \A i \in 1 .. n + 1 : buf'[i] = d[i]
    <3>1. SUFFICES ASSUME NEW i \in 1 .. n + 1 PROVE buf'[i] = d[i]
      OBVIOUS
    <3>2. i \in 1 .. BUFFERSIZE /\ (i = n + 1 \/ i \in 1 .. n)
      <4>1. n \in Nat /\ n + 1 <= BUFFERSIZE /\ BUFFERSIZE \in Nat
        BY <1>2, <1>5
      <4> QED BY <4>1
    <3>3. buf'[i] = IF i = n + 1 THEN b ELSE buf[i]
      BY <1>1, <1>5, <1>13, <3>2
    <3> QED BY <1>6, <1>9, <2>1, <3>2, <3>3
  <2> QED BY <1>3, <1>4, <2>2, <2>3 DEF Good, s, d
<1>10. ASSUME Good, b # Frame[Pos + 1] PROVE Bad'
  <2>1. chksum = s[n]
    BY <1>1, <1>10 DEF Good, s
  <2>2. chksum' # s[n + 1]
    BY <1>1, <1>4, <1>6, <1>10, <2>1, OtherByte
  <2> QED BY <1>3, <1>4, <1>8, <2>2 DEF Bad, s
<1>11. ASSUME Bad, b = Frame[Pos + 1] PROVE Bad'
  <2>1. chksum # s[n]
    BY <1>11 DEF Bad, s
  <2>2. chksum' # s[n + 1]
    BY <1>1, <1>4, <1>6, <1>11, <2>1, AddByte
  <2> QED BY <1>3, <1>4, <1>8, <2>2 DEF Bad, s
<1>12. Intact'
  <2>1. CASE ~hurt
    BY <1>1, <1>3, <1>9, <2>1 DEF Intact
  <2>2. CASE hurt /\ OneOff /\ Good
    BY <1>3, <1>9, <1>10, <2>2 DEF Intact
  <2>3. CASE hurt /\ Same /\ Bad
    BY <1>3, <1>11, <2>3 DEF Intact
  <2> QED BY <1>1, <2>1, <2>2, <2>3 DEF Intact
<1> QED BY <1>7, <1>8, <1>12, <1>13 DEF InStep

\* What get_packet() promises of the packet it returns.
Accepted == Received = sent /\ ~hurt

(* The check sum: the packet is accepted when it is the one sent.          *)
LEMMA TakeSum ==
  ASSUME LinkTypeOK, Place, InStep, TakeNext, ~(Pos < 6), ~(n < Len(sent.data))
  PROVE  InStep' /\ (at' = "handler" => Accepted') /\ behind' = behind
<1> DEFINE b == Head(line)
           d == sent.data
           m == Len(sent.data)
           s == SumOf(sent.data)
<1>1. /\ line # <<>> /\ Len(line) <= Len(Frame) /\ Intact /\ at = "sum"
      /\ n \in 0 .. m /\ Pos = n + 6 /\ cmd = sent.cmd /\ length = m
      /\ Len(line) = m + 1 - n /\ buf \in [1 .. BUFFERSIZE -> Byte]
  BY BodyFacts
<1>2. /\ m \in 0 .. BUFFERSIZE /\ m \in Nat /\ Frame[m + 7] = s[m]
      /\ d \in Seq(Byte) /\ BUFFERSIZE \in Nat
  BY SentBytes, LinkAssumption
<1>3. /\ Len(line') = Len(line) - 1 /\ line' \in Seq(Byte)
      /\ sent' = sent /\ hurt' = hurt
      /\ Same => b = Frame[Pos + 1]
      /\ OneOff => IF b = Frame[Pos + 1] THEN OneOff' ELSE Pos >= 6 /\ Same'
  BY <1>1, NextByte DEF TakeNext
<1>4. /\ IF b = chksum THEN at' = "handler" ELSE at' = "head1"
      /\ UNCHANGED <<cmd, length, buf, behind, n, chksum>>
  BY <1>1 DEF TakeNext, Take, Header, CommandByte, Length, Data, Sum, Again
<1> HIDE DEF b, d, m, s
<1>5. n = m /\ Pos + 1 = m + 7 /\ Len(line) = 1 /\ Len(line') = 0
  <2>1. n = m
    BY <1>1, <1>2 DEF m
  <2>2. Len(line) = m + 1 - n /\ Len(line') = Len(line) - 1 /\ Pos = n + 6 /\ m \in Nat
    BY <1>1, <1>2, <1>3
  <2> DEFINE a == Len(line)
             p == Pos
  <2> HIDE DEF a, p
  <2>3. a = 1 /\ p + 1 = m + 7 /\ Len(line') = 0
    BY <2>1, <2>2 DEF a, p
  <2> QED BY <2>1, <2>3 DEF a, p
<1>6. line' = <<>>
  BY <1>3, <1>5
<1>7. InStep'
  BY <1>4, <1>6 DEF InStep
<1>8. ASSUME at' = "handler" PROVE Accepted'
  <2>1. b = chksum
    BY <1>4, <1>8
  <2>2. ~(OneOff /\ Good)
    <3>1. SUFFICES ASSUME OneOff, Good PROVE FALSE
      OBVIOUS
    <3>2. chksum = s[m]
      BY <1>1, <1>5, <3>1 DEF Good, s
    <3>3. b = Frame[Pos + 1]
      BY <1>2, <1>5, <2>1, <3>2
    <3>4. OneOff'
      BY <1>3, <3>1, <3>3
    <3> QED BY <1>5, <3>4 DEF OneOff
  <2>3. ~(Same /\ Bad)
    BY <1>2, <1>3, <1>5, <2>1 DEF Bad, s
  <2>4. ~hurt /\ Good
    BY <1>1, <2>2, <2>3 DEF Intact
  <2>5. \A i \in 1 .. m : buf[i] = d[i]
    BY <1>1, <1>5, <2>4 DEF Good, d
  <2>6. SubSeq(buf, 1, m) = d
    <3>1. \A i \in 1 .. m : buf[i] \in Byte
      BY <1>1, <1>2
    <3>2. /\ SubSeq(buf, 1, m) \in Seq(Byte)
          /\ Len(SubSeq(buf, 1, m)) = IF 1 <= m THEN m - 1 + 1 ELSE 0
          /\ \A i \in 1 .. m - 1 + 1 : SubSeq(buf, 1, m)[i] = buf[1 + i - 1]
      BY <1>2, <3>1, SubSeqProperties
    <3> DEFINE r == SubSeq(buf, 1, m)
    <3>3. r \in Seq(Byte) /\ Len(r) = m
      BY <1>2, <3>2
    <3>4. \A i \in 1 .. m : r[i] = buf[i]
      <4>1. m - 1 + 1 = m /\ \A i \in 1 .. m : 1 + i - 1 = i
        BY <1>2
      <4> QED BY <3>2, <4>1
    <3> HIDE DEF r
    <3>5. r = d
      BY <1>2, <2>5, <3>3, <3>4 DEF m, d
    <3> QED BY <3>5 DEF r
  <2>7. Received' = sent
    <3>1. sent = [cmd |-> sent.cmd, data |-> sent.data]
      BY Packets DEF LinkTypeOK
    <3> QED BY <1>1, <1>4, <2>6, <3>1 DEF Received, m, d
  <2> QED BY <1>3, <1>4, <2>4, <2>7 DEF Accepted, m, d
<1> QED BY <1>4, <1>7, <1>8

(* A byte is taken in step, and the receiver stays in step.                *)
LEMMA TakeInStep ==
  ASSUME LinkTypeOK, Place, InStep, TakeNext
  PROVE  InStep' /\ (at' = "handler" => Accepted') /\ behind' = behind
<1>1. CASE Pos < 6
  BY <1>1, TakeHead
<1>2. CASE ~(Pos < 6) /\ n < Len(sent.data)
  BY <1>2, TakeData
<1>3. CASE ~(Pos < 6) /\ ~(n < Len(sent.data))
  BY <1>3, TakeSum
<1> QED BY <1>1, <1>2, <1>3

-----------------------------------------------------------------------------
(* The other steps.                                                        *)

(* The handler returns, and the next packet is awaited from its start.     *)
LEMMA HandledInStep ==
  ASSUME LinkTypeOK, Place, InStep, Handled
  PROVE  InStep'
<1>1. at = "handler" /\ at' = "head1" /\ line' = line /\ sent' = sent /\ hurt' = hurt
  BY DEF Handled
<1>2. CASE line = <<>>
  BY <1>1, <1>2 DEF InStep
<1>3. CASE line # <<>>
  <2>1. Len(line) <= Len(Frame) /\ Stage /\ Intact
    BY <1>3 DEF InStep
  <2>2. Frame' = Frame /\ Pos' = Pos /\ (Same' <=> Same) /\ (OneOff' <=> OneOff)
    BY <1>1 DEF Frame, Pos, Same, OneOff
  <2>3. ~Bad /\ Good'
    BY <1>1 DEF Bad, Good
  <2>4. Stage'
    <3>1. Pos = 0
      BY <1>1, <2>1 DEF Stage
    <3> QED BY <1>1, <2>2, <3>1 DEF Stage
  <2>5. Intact'
    BY <1>1, <2>1, <2>2, <2>3 DEF Intact
  <2> QED BY <1>1, <1>3, <2>1, <2>2, <2>4, <2>5 DEF InStep
<1> QED BY <1>2, <1>3

(* A whole packet is put on the line while get_packet() waits for one, or  *)
(* a handler is still to return.                                           *)
LEMMA FrameInStep ==
  ASSUME NEW p \in Outbox, line' = put_packet(p.cmd, p.data), sent' = p,
         hurt' = FALSE, at' = at, at \in {"head1", "handler"}
  PROVE  InStep'
<1>1. Framed(put_packet(p.cmd, p.data), p, Len(p.data))
  BY FrameBytes
<1>2. Frame' = line' /\ Len(line') \in Nat \ {0}
  <2>1. Frame' = put_packet(p.cmd, p.data)
    BY DEF Frame
  <2> QED BY <1>1, <2>1 DEF Framed
<1>3. Pos' = 0 /\ line' # <<>>
  BY <1>2 DEF Pos
<1>4. Same'
  <2>1. ASSUME NEW k \in 1 .. Len(line') PROVE line'[k] = Frame'[Pos' + k]
    BY <1>2, <1>3
  <2> QED BY <2>1 DEF Same
<1>5. Good'
  BY DEF Good
<1> QED BY <1>2, <1>3, <1>4, <1>5 DEF InStep, Stage, Intact

(* The first change of a byte of the data or the check sum.                *)
LEMMA ChangeInStep ==
  ASSUME LinkTypeOK, Place, ~astray => InStep, Change, ~astray'
  PROVE  InStep'
<1>1. PICK k \in 1 .. Len(line), b \in Byte :
        /\ b # line[k] /\ line' = [line EXCEPT ![k] = b]
        /\ hurt' = TRUE /\ astray' = (astray \/ hurt \/ k \notin Payload)
  BY DEF Change
<1>2. UNCHANGED <<packetVars, sent>> /\ ~astray /\ ~hurt /\ k \in Payload
  BY <1>1 DEF Change
<1>3. line \in Seq(Byte) /\ Len(line) \in Nat \ {0} /\ line # <<>>
  BY <1>1 DEF LinkTypeOK
<1>4. Len(line) <= Len(Frame) /\ Stage /\ Same /\ Good
  BY <1>2, <1>3 DEF InStep, Intact
<1>5. line' \in Seq(Byte) /\ Len(line') = Len(line) /\ line' # <<>>
      /\ line'[k] = b /\ \A j \in 1 .. Len(line) \ {k} : line'[j] = line[j]
  BY <1>1, <1>3
<1>6. Frame' = Frame /\ Pos' = Pos
  BY <1>2, <1>5 DEF Frame, Pos
<1>7. Stage' /\ Good'
  BY <1>2, <1>4, <1>6 DEF Stage, Good, packetVars
<1>8. Pos + k > 6
  <2> DEFINE a == Len(line)
             m == Len(sent.data)
  <2>1. a \in Nat /\ m \in Nat /\ Pos = m + 7 - a /\ k \in Nat /\ a - k <= m
    BY <1>2, <1>3, SentBytes DEF Pos, Payload
  <2> HIDE DEF a, m
  <2> QED BY <2>1
<1>9. OneOff'
  <2>1. line'[k] # Frame'[Pos' + k]
    BY <1>1, <1>4, <1>5, <1>6 DEF Same
  <2>2. \A j \in 1 .. Len(line') \ {k} : line'[j] = Frame'[Pos' + j]
    BY <1>4, <1>5, <1>6 DEF Same
  <2> QED BY <1>5, <1>6, <1>8, <2>1, <2>2 DEF OneOff
<1> QED BY <1>1, <1>4, <1>5, <1>6, <1>7, <1>9 DEF InStep, Intact

-----------------------------------------------------------------------------
(* The invariant, and what follows for every packet that is accepted.      *)

\* The receiver is in step from the start.
LEMMA LinkInvInit == LinkInit => InStep
BY DEF LinkInit, InStep

\* Every step keeps a receiver in step that has not been led astray.
LEMMA LinkInvNext ==
  ASSUME LinkTypeOK, Place, ~astray => InStep, [LinkNext]_linkVars
  PROVE  ~astray' => InStep'
<1> SUFFICES ASSUME ~astray' PROVE InStep'
  OBVIOUS
<1>1. CASE com_channel_getc
  <2>1. TakeNext /\ ~astray
    BY <1>1 DEF com_channel_getc, TakeNext
  <2> QED BY <2>1, TakeInStep
<1>2. CASE Handled
  <2>1. ~astray
    BY <1>2 DEF Handled
  <2> QED BY <1>2, <2>1, HandledInStep
<1>3. ASSUME NEW p \in Outbox, Send(p) PROVE InStep'
  <2>1. /\ line' = put_packet(p.cmd, p.data) /\ sent' = p /\ hurt' = FALSE
        /\ at' = at /\ at = "head1"
    BY <1>3 DEF Send, packetVars
  <2> QED BY <2>1, FrameInStep
<1>4. CASE TimeOut
  BY <1>4 DEF TimeOut
<1>5. ASSUME NEW p \in Outbox, SendEarly(p) PROVE InStep'
  <2>1. /\ line' = put_packet(p.cmd, p.data) /\ sent' = p /\ hurt' = FALSE
        /\ at' = at /\ at = "handler"
    BY <1>5 DEF SendEarly, packetVars
  <2> QED BY <2>1, FrameInStep
<1>6. CASE Change
  BY <1>6, ChangeInStep
<1>7. CASE Lose
  BY <1>7 DEF Lose
<1>8. CASE Noise
  BY <1>8 DEF Noise
<1>9. CASE HandlerHangs
  BY <1>9 DEF HandlerHangs
<1>10. CASE Restart
  BY <1>10 DEF Restart, InStep
<1>11. CASE UNCHANGED linkVars
  <2>1. InStep
    BY <1>11 DEF linkVars
  <2> QED BY <1>11, <2>1 DEF linkVars, packetVars, InStep, Stage, Intact, Same, OneOff,
                             Good, Bad, Frame, Pos
<1> QED BY <1>1, <1>2, <1>3, <1>4, <1>5, <1>6, <1>7, <1>8, <1>9, <1>10, <1>11
        DEF LinkNext, Device, Sender

\* The invariant of the link.
LEMMA LinkInvAlways == LinkSpec => []LinkInv
<1> DEFINE TypesHold == LinkTypeOK /\ Place
           StepHolds == ~astray => InStep
<1>1. LinkSpec => []TypesHold
  BY LinkTypesAlways
<1>2. LinkInit => StepHolds
  BY LinkInvInit
<1>3. TypesHold /\ StepHolds /\ [LinkNext]_linkVars => StepHolds'
  BY LinkInvNext
<1>4. TypesHold /\ StepHolds => LinkInv
  BY DEF LinkInv
<1> HIDE DEF TypesHold, StepHolds
<1> QED BY <1>1, <1>2, <1>3, <1>4, PTL DEF LinkSpec

(* A step that ends get_packet() ends it with the packet sent last.        *)
LEMMA AcceptStep ==
  ASSUME LinkInv, [LinkNext]_linkVars, at # "handler", at' = "handler", ~astray
  PROVE  Accepted'
<1>1. LinkTypeOK /\ Place /\ InStep
  BY DEF LinkInv
<1>2. CASE com_channel_getc
  <2>1. TakeNext
    BY <1>2 DEF com_channel_getc, TakeNext
  <2> QED BY <1>1, <2>1, TakeInStep
<1>3. ~TimeOut
  <2>1. SUFFICES ASSUME TimeOut PROVE FALSE
    OBVIOUS
  <2>2. at = "head1" /\ Take(slot)
    BY <1>1, <2>1 DEF TimeOut, InStep
  <2> QED BY <2>2 DEF Take, Header, CommandByte, Length, Data, Sum, Again
<1>4. ~Handled /\ ~HandlerHangs /\ ~Restart /\ ~UNCHANGED linkVars
  BY DEF Handled, HandlerHangs, Restart, linkVars, packetVars
<1>5. ~Change /\ ~Lose /\ ~Noise /\ \A p \in Outbox : ~Send(p) /\ ~SendEarly(p)
  BY DEF Change, Lose, Noise, Send, SendEarly, packetVars
<1> QED BY <1>2, <1>3, <1>4, <1>5 DEF LinkNext, Device, Sender

\* The step that ends get_packet() sends nothing and changes nothing on the line.
LEMMA AcceptFrame ==
  ASSUME [LinkNext]_linkVars, at # "handler", at' = "handler"
  PROVE  sent' = sent /\ hurt' = hurt
BY DEF LinkNext, Device, Sender, com_channel_getc, TimeOut, Handled, HandlerHangs, Restart,
       Send, SendEarly, Change, Lose, Noise, linkVars, packetVars

(* AcceptedExact: what get_packet() accepts is the packet sent last, unless *)
(* the receiver was led astray; and no single changed byte of the data or  *)
(* the check sum goes through, for every number of byte values, buffer     *)
(* length and set of packets.                                              *)
THEOREM LinkAcceptedExact == LinkSpec => AcceptedExact
<1>1. LinkInv /\ [LinkNext]_linkVars
        => [(at # "handler" /\ at' = "handler" /\ ~astray)
              => Received' = sent /\ ~hurt]_linkVars
  <2> SUFFICES ASSUME LinkInv, [LinkNext]_linkVars, at # "handler", at' = "handler", ~astray
               PROVE  Received' = sent /\ ~hurt
    OBVIOUS
  <2>1. Received' = sent' /\ ~hurt'
    BY AcceptStep DEF Accepted
  <2> QED BY <2>1, AcceptFrame
<1> QED BY <1>1, LinkInvAlways, PTL DEF LinkSpec, AcceptedExact

(* A receiver in step stores nothing behind the buffer.                    *)
LEMMA BehindStep ==
  ASSUME LinkInv, [LinkNext]_linkVars, behind' > behind
  PROVE  astray
<1> SUFFICES ASSUME ~astray PROVE FALSE
  OBVIOUS
<1>1. LinkTypeOK /\ Place /\ InStep
  BY DEF LinkInv
<1>2. behind \in Nat
  <2>1. Base * Base - 1 - BUFFERSIZE \in Int
    BY BaseNat, LinkAssumption
  <2> QED BY <1>1, <2>1 DEF LinkTypeOK
<1>3. ~(behind' = behind) /\ ~(behind' = 0)
  BY <1>2
<1>4. ~com_channel_getc
  <2>1. SUFFICES ASSUME com_channel_getc PROVE FALSE
    OBVIOUS
  <2>2. TakeNext
    BY <2>1 DEF com_channel_getc, TakeNext
  <2> QED BY <1>1, <1>3, <2>2, TakeInStep
<1>5. ~TimeOut
  <2>1. SUFFICES ASSUME TimeOut PROVE FALSE
    OBVIOUS
  <2>2. at \in {"head1", "handler"} /\ Take(slot)
    BY <1>1, <2>1 DEF TimeOut, InStep
  <2> QED BY <1>3, <2>2 DEF Take, Header, CommandByte, Length, Data, Sum, Again
<1>6. ~Handled /\ ~HandlerHangs /\ ~Restart /\ ~UNCHANGED linkVars
  BY <1>3 DEF Handled, HandlerHangs, Restart, linkVars, packetVars
<1>7. ~Change /\ ~Lose /\ ~Noise /\ \A p \in Outbox : ~Send(p) /\ ~SendEarly(p)
  BY <1>3 DEF Change, Lose, Noise, Send, SendEarly, packetVars
<1> QED BY <1>4, <1>5, <1>6, <1>7 DEF LinkNext, Device, Sender

(* BufferKept: whatever the lengths of the packets of the programmer, and  *)
(* after any faults, only a receiver that was led astray stores behind     *)
(* bl_buffer.                                                              *)
THEOREM LinkBufferKept == LinkSpec => BufferKept
<1>1. LinkInv /\ [LinkNext]_linkVars => [behind' > behind => astray]_linkVars
  BY BehindStep
<1> QED BY <1>1, LinkInvAlways, PTL DEF LinkSpec, BufferKept
=============================================================================
