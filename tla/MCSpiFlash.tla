----------------------------- MODULE MCSpiFlash -----------------------------
(* Two-byte pages of one-bit bytes, and the calls of LittleFS and others.   *)
EXTENDS SpiFlash

CONSTANT b0

\* A buffer in which a byte differs from the next or from the one after it.
Pattern == <<{}, {b0}, {b0}, {}, {}, {b0}>>

PageCalls ==
  {[fn |-> f, unit |-> "page", num |-> 1, offset |-> o, bytes |-> k,
    buf |-> IF f = "read" THEN <<>> ELSE Pattern] :
     f \in {"read", "write"}, o \in 0 .. 1, k \in 0 .. 3}

\* To and beyond the end of the last sector, and across a page of the first.
SectorCalls ==
  LET range == ({1} \X (0 .. 3) \X {1, 3, 4}) \cup {<<0, 1, 3>>}
  IN  {lfs_deskio_prog(r[1], r[2], SubSeq(Pattern, 1, r[3])) : r \in range} \cup
      {lfs_deskio_read(r[1], r[2], r[3]) : r \in range} \cup
      {lfs_deskio_erase(s) : s \in {0, 1}}

\* w25q128jv_write_byte(), w25q128jv_read_bytes(), w25q128jv_erase_chip().
ByteCalls ==
  {[fn |-> "write", unit |-> "chip", num |-> 0, offset |-> 3, bytes |-> 1, buf |-> <<{}>>],
   [fn |-> "read", unit |-> "chip", num |-> 0, offset |-> 3, bytes |-> 4, buf |-> <<>>],
   [fn |-> "erase", unit |-> "chip", num |-> 0, offset |-> 0, bytes |-> 0, buf |-> <<>>]}

AllCalls == PageCalls \cup SectorCalls \cup ByteCalls

BlockCalls ==
  {[fn |-> f, unit |-> "block", num |-> n, offset |-> 0, bytes |-> 0,
    buf |-> IF f = "read" THEN <<>> ELSE SubSeq(Pattern, 1, 4)] :
     f \in {"read", "write", "erase"}, n \in {0, 1}}
=============================================================================
