-------------------------- MODULE SpiFlashProofs --------------------------
(***************************************************************************)
(* What the driver of the SPI flash keeps, for every geometry of the chip  *)
(* and every set of calls.                                                 *)
(*                                                                         *)
(* The first part is about erases, and about commands the chip hears.  All *)
(* arithmetic stays folded: EraseExact and LostOnlyAfterReset depend on    *)
(* the order of commands and waiting, not on the addresses.                *)
(*                                                                         *)
(* The second part is about transfers: a write programs exactly the bytes  *)
(* it was called for, a read returns exactly these.  The loop over pages   *)
(* keeps one equation: the page and the offset in it are the address of    *)
(* the first byte that was not transferred yet.                            *)
(***************************************************************************)
EXTENDS SpiFlash, SequenceTheorems, TLAPS

(* What the chip is about, and that a driver without a call is at rest.    *)
ChipAtRest ==
  /\ busy \in BOOLEAN /\ wel \in BOOLEAN
  /\ ~busy => mem = goal
  /\ call = Idle => phase = "return"
  /\ call = Idle \/ call \in Calls

(* Where an erase that the chip has heard all commands of has got to.      *)
EraseOnItsWay ==
  (call.fn = "erase" /\ ~deaf) =>
    LET new == Erased(old, EraseRange(call))
    IN  /\ phase \in Phase
        /\ phase = "enable" => goal = old
        /\ phase \in {"wait", "command"} => wel /\ ~busy /\ goal = old
        /\ phase = "finish" => goal = new
        /\ phase = "return" => ~busy /\ goal = new

SpiInv == ChipAtRest /\ LostOnlyAfterReset /\ EraseOnItsWay

LEMMA CallInv ==
  ASSUME SpiInv, NEW c \in Calls, Call(c)
  PROVE  SpiInv'
<1>0. c # Idle
  BY CallAssumption DEF Idle
<1>1. ChipAtRest'
  BY <1>0 DEF SpiInv, ChipAtRest, Call, chipVars
<1>2. LostOnlyAfterReset'
  BY DEF SpiInv, ChipAtRest, LostOnlyAfterReset, Call, chipVars
<1>3. EraseOnItsWay'
  BY DEF SpiInv, ChipAtRest, EraseOnItsWay, Call, chipVars, Phase
<1> QED
  BY <1>1, <1>2, <1>3 DEF SpiInv

LEMMA SpiInvInit == SpiInit => SpiInv
<1> SUFFICES ASSUME SpiInit PROVE SpiInv
  OBVIOUS
<1>1. ChipAtRest /\ LostOnlyAfterReset
  BY DEF SpiInit, ChipAtRest, LostOnlyAfterReset
<1>2. call.fn = "none"
  BY DEF SpiInit, Idle
<1> QED
  BY <1>1, <1>2 DEF SpiInv, EraseOnItsWay

LEMMA EnableInv ==
  ASSUME SpiInv, Enable
  PROVE  SpiInv'
<1>1. ChipAtRest' /\ LostOnlyAfterReset'
  BY DEF SpiInv, ChipAtRest, LostOnlyAfterReset, Enable, WriteEnable
<1>2. EraseOnItsWay'
  BY DEF SpiInv, ChipAtRest, EraseOnItsWay, Enable, WriteEnable, Phase
<1> QED
  BY <1>1, <1>2 DEF SpiInv

LEMMA WaitInv ==
  ASSUME SpiInv, Wait
  PROVE  SpiInv'
<1>1. ChipAtRest' /\ LostOnlyAfterReset'
  BY DEF SpiInv, ChipAtRest, LostOnlyAfterReset, Wait, chipVars
<1>2. EraseOnItsWay'
  BY DEF SpiInv, ChipAtRest, EraseOnItsWay, Wait, chipVars, Phase
<1> QED
  BY <1>1, <1>2 DEF SpiInv

LEMMA EraseCommandInv ==
  ASSUME SpiInv, EraseCommand
  PROVE  SpiInv'
<1>1. ChipAtRest' /\ LostOnlyAfterReset'
  BY DEF SpiInv, ChipAtRest, LostOnlyAfterReset, EraseCommand, Obey, chipVars
<1>2. EraseOnItsWay'
  BY DEF SpiInv, ChipAtRest, EraseOnItsWay, EraseCommand, Obey, chipVars, Phase,
         EraseRange
<1> QED
  BY <1>1, <1>2 DEF SpiInv

LEMMA ProgramCommandInv ==
  ASSUME SpiInv, ProgramCommand
  PROVE  SpiInv'
<1>1. ChipAtRest' /\ LostOnlyAfterReset'
  BY DEF SpiInv, ChipAtRest, LostOnlyAfterReset, ProgramCommand, Obey, chipVars
<1>2. EraseOnItsWay'
  BY DEF ProgramCommand, EraseOnItsWay
<1> QED
  BY <1>1, <1>2 DEF SpiInv

(* A write or a read goes on to its next page.                             *)
LEMMA NextPageInv ==
  ASSUME SpiInv, Written \/ ReadCommand
  PROVE  SpiInv'
<1>1. UNCHANGED <<chipVars, call>> /\ call.fn # "erase" /\ call # Idle
  BY DEF Written, ReadCommand, Idle
<1>2. ChipAtRest'
  BY <1>1 DEF SpiInv, ChipAtRest, chipVars
<1>3. LostOnlyAfterReset'
  BY <1>1 DEF SpiInv, ChipAtRest, LostOnlyAfterReset, Written, ReadCommand, chipVars
<1>4. EraseOnItsWay'
  BY <1>1 DEF EraseOnItsWay
<1> QED
  BY <1>2, <1>3, <1>4 DEF SpiInv

LEMMA ChipDoneInv ==
  ASSUME SpiInv, ChipDone
  PROVE  SpiInv'
<1>1. ChipAtRest' /\ LostOnlyAfterReset'
  BY DEF SpiInv, ChipAtRest, LostOnlyAfterReset, ChipDone, driverVars
<1>2. EraseOnItsWay'
  BY DEF SpiInv, ChipAtRest, EraseOnItsWay, ChipDone, driverVars, EraseRange
<1> QED
  BY <1>1, <1>2 DEF SpiInv

LEMMA AtRestInv ==
  ASSUME SpiInv, Return \/ Reset
  PROVE  SpiInv'
<1>1. ChipAtRest'
  BY DEF SpiInv, ChipAtRest, Return, Reset, DriverReset, chipVars
<1>2. LostOnlyAfterReset'
  BY DEF SpiInv, ChipAtRest, LostOnlyAfterReset, Return, Reset, DriverReset, chipVars
<1>3. EraseOnItsWay'
  BY DEF EraseOnItsWay, Return, Reset, DriverReset, Idle
<1> QED
  BY <1>1, <1>2, <1>3 DEF SpiInv

LEMMA SpiInvariant == SpiSpec => []SpiInv
<1>1. SpiInv /\ [SpiNext]_spiVars => SpiInv'
  <2> SUFFICES ASSUME SpiInv, [SpiNext]_spiVars PROVE SpiInv'
    OBVIOUS
  <2>1. CASE UNCHANGED spiVars
    BY <2>1 DEF SpiInv, ChipAtRest, LostOnlyAfterReset, EraseOnItsWay, spiVars,
       chipVars, driverVars, EraseRange
  <2>2. CASE \E c \in Calls : Call(c)
    BY <2>2, CallInv
  <2>3. CASE Step
    BY <2>3, EnableInv, WaitInv, EraseCommandInv, ProgramCommandInv, NextPageInv,
       AtRestInv DEF Step
  <2>4. CASE ChipDone
    BY <2>4, ChipDoneInv
  <2>5. CASE Reset
    BY <2>5, AtRestInv
  <2> QED
    BY <2>1, <2>2, <2>3, <2>4, <2>5 DEF SpiNext
<1> QED
  BY <1>1, SpiInvInit, PTL DEF SpiSpec

(* Once the driver has waited since the last reset of the processor, the   *)
(* chip is idle whenever it is sent a command.                             *)
THEOREM CommandsHeard == SpiSpec => []LostOnlyAfterReset
<1>1. SpiInv => LostOnlyAfterReset
  BY DEF SpiInv
<1> QED
  BY <1>1, SpiInvariant, PTL

(* When an erase whose commands the chip could hear returns, its sector or *)
(* block is erased, and nothing else has changed.                          *)
THEOREM ErasesExact == SpiSpec => []EraseExact
<1>1. SpiInv => EraseExact
  BY DEF SpiInv, ChipAtRest, EraseOnItsWay, EraseExact, Returned
<1> QED
  BY <1>1, SpiInvariant, PTL

-----------------------------------------------------------------------------
(* Transfers.                                                              *)

\* The first address of call c, and how many bytes it is about.
Start(c) == c.num * Size(c.unit) + c.offset
All(c)   == Extent(c.unit, c.offset, c.bytes)

\* A call that moves bytes, other than a write of a block.
Moves(c) == c.fn \in {"read", "write"} /\ (c.unit = "block" => c.fn = "read")

\* How many of the bytes were transferred when left are to be.
Moved == All(call) - left

-----------------------------------------------------------------------------
(* Arithmetic.                                                             *)

LEMMA DivMod ==
  ASSUME NEW p \in Nat \ {0}, NEW a \in Nat
  PROVE  /\ a \div p \in Nat /\ a % p \in 0 .. p - 1
         /\ a = (a \div p) * p + (a % p)
BY Z3

LEMMA DivModOf ==
  ASSUME NEW p \in Nat \ {0}, NEW q \in Nat, NEW r \in 0 .. p - 1
  PROVE  (q * p + r) \div p = q /\ (q * p + r) % p = r
BY Z3

LEMMA DivModSmall ==
  ASSUME NEW p \in Nat \ {0}, NEW r \in 0 .. p - 1
  PROVE  r % p = r
BY Z3

LEMMA DivMultiple ==
  ASSUME NEW p \in Nat \ {0}, NEW q \in Nat
  PROVE  (q * p) \div p = q
BY Z3

LEMMA PositiveProduct ==
  ASSUME NEW a \in Nat \ {0}, NEW b \in Nat \ {0}
  PROVE  a * b \in Nat \ {0}
BY Z3

LEMMA Associative ==
  ASSUME NEW a \in Nat, NEW b \in Nat, NEW c \in Nat
  PROVE  a * (b * c) = (a * b) * c
BY Z3

LEMMA Sizes ==
  /\ PageSize \in Nat \ {0} /\ SectorSize \in Nat \ {0}
  /\ BlockSize \in Nat \ {0} /\ ChipSize \in Nat \ {0}
  /\ \A u \in Unit : Size(u) \in Nat \ {0}
<1>1. SectorSize \in Nat \ {0}
  BY ChipAssumption, PositiveProduct DEF SectorSize
<1>2. BlockSize \in Nat \ {0}
  BY <1>1, ChipAssumption, PositiveProduct DEF BlockSize
<1>3. ChipSize \in Nat \ {0}
  BY <1>2, ChipAssumption, PositiveProduct DEF ChipSize
<1> QED
  BY <1>1, <1>2, <1>3, ChipAssumption DEF Size, Unit

(* A call is about bytes that the chip has, one at least.                  *)
LEMMA Extents ==
  ASSUME NEW c \in Calls, c.offset < Size(c.unit)
  PROVE  /\ All(c) \in Nat \ {0} /\ Start(c) \in Nat
         /\ Start(c) + All(c) <= ChipSize
<1> DEFINE sz == Size(c.unit)
<1>1. sz \in Nat \ {0} /\ ChipSize \in Nat /\ c.num \in Nat /\ c.offset \in Nat
      /\ c.bytes \in Nat
  BY Sizes, CallAssumption
<1>2. All(c) \in 1 .. sz - c.offset
  BY <1>1 DEF All, Extent
<1>3. c.num * sz \in Nat /\ (c.num + 1) * sz = c.num * sz + sz
  BY <1>1, Z3
<1>4. (c.num + 1) * sz <= ChipSize
  BY CallAssumption
<1>5. Start(c) = c.num * sz + c.offset
  BY DEF Start
<1> HIDE DEF sz
<1> QED
  BY <1>1, <1>2, <1>3, <1>4, <1>5

(* The page and the offset that a call begins with are its first address.  *)
LEMMA FirstAddress ==
  ASSUME NEW c \in Calls, Moves(c), c.offset < Size(c.unit)
  PROVE  /\ FirstPage(c) + c.offset \div PageSize \in Nat
         /\ c.offset % PageSize \in 0 .. PageSize - 1
         /\ (FirstPage(c) + c.offset \div PageSize) * PageSize + (c.offset % PageSize)
              = Start(c)
<1>1. c.num \in Nat /\ c.offset \in Nat /\ PageSize \in Nat \ {0} /\ c.unit \in Unit
  BY CallAssumption, Sizes
<1>2. FirstPage(c) \in Nat /\ FirstPage(c) * PageSize = c.num * Size(c.unit)
  <2>1. CASE c.unit = "page"
    BY <2>1, <1>1 DEF FirstPage, Size
  <2>2. CASE c.unit = "sector"
    <3>1. c.num * SectorSize = (c.num * SectorPages) * PageSize
      BY <1>1, ChipAssumption, Associative DEF SectorSize
    <3>2. c.num * SectorPages \in Nat
      BY <1>1, ChipAssumption, Z3
    <3>3. (c.num * SectorSize) \div PageSize = c.num * SectorPages
      BY <3>1, <3>2, <1>1, DivMultiple
    <3> QED
      BY <2>2, <3>1, <3>2, <3>3 DEF FirstPage, Size, w25q128jv_sector2page
  <2>3. CASE c.unit = "block"
    <3>1. BlockSize = (BlockSectors * SectorPages) * PageSize
      BY <1>1, ChipAssumption, Associative DEF SectorSize, BlockSize
    <3>2. BlockSectors * SectorPages \in Nat
      BY <1>1, ChipAssumption, Z3
    <3>3. c.num * BlockSize = (c.num * (BlockSectors * SectorPages)) * PageSize
      BY <3>1, <3>2, <1>1, Associative
    <3>4. c.num * (BlockSectors * SectorPages) \in Nat
      BY <3>2, <1>1, Z3
    <3>5. (c.num * BlockSize) \div PageSize = c.num * (BlockSectors * SectorPages)
      BY <3>3, <3>4, <1>1, DivMultiple
    <3> QED
      BY <2>3, <3>3, <3>4, <3>5 DEF FirstPage, Size, w25q128jv_block2page, Moves
  <2>4. CASE c.unit = "chip"
    <3>1. (c.num + 1) * ChipSize <= ChipSize /\ ChipSize \in Nat \ {0}
      BY <2>4, CallAssumption, Sizes DEF Size
    <3>2. c.num = 0
      BY <3>1, <1>1, Z3
    <3>3. c.num * SectorSize = 0 /\ c.num * Size(c.unit) = 0
      BY <3>2, Sizes, <1>1
    <3>4. 0 \div PageSize = 0 /\ 0 * PageSize = 0
      BY <1>1, Z3
    <3> QED
      BY <2>4, <3>3, <3>4 DEF FirstPage, w25q128jv_sector2page
  <2> QED
    BY <1>1, <2>1, <2>2, <2>3, <2>4 DEF Unit
<1> DEFINE f == FirstPage(c)
           d == c.offset \div PageSize
<1>3. d \in Nat /\ c.offset % PageSize \in 0 .. PageSize - 1
      /\ c.offset = d * PageSize + (c.offset % PageSize)
  BY <1>1, DivMod
<1>4. (f + d) * PageSize = f * PageSize + d * PageSize /\ f * PageSize \in Nat
      /\ d * PageSize \in Nat
  BY <1>1, <1>2, <1>3, Z3
<1>5. Start(c) = f * PageSize + c.offset
  BY <1>2 DEF Start
<1> HIDE DEF f, d
<1>6. f \in Nat
  BY <1>2 DEF f
<1>7. (f + d) * PageSize + (c.offset % PageSize) = Start(c)
  BY <1>1, <1>3, <1>4, <1>5, <1>6
<1> QED
  BY <1>3, <1>6, <1>7 DEF f, d

-----------------------------------------------------------------------------
(* The invariant.                                                          *)

Memory ==
  /\ mem \in [Addr -> Byte] /\ goal \in [Addr -> Byte] /\ old \in [Addr -> Byte]

(* Where the loop is, and what is left of the caller's buffer.             *)
InPlace ==
  (call # Idle /\ Moves(call)) =>
    /\ call.offset < Size(call.unit)
    /\ phase \in Phase
    /\ phase # "return" =>
         /\ data \in Seq(Byte)
         /\ left \in 1 .. All(call) /\ page \in Nat /\ ofs \in 0 .. PageSize - 1
         /\ PageAddr = Start(call) + Moved
         /\ call.fn = "read" => phase = "command" /\ Len(data) = Moved
         /\ call.fn = "write" =>
              /\ Len(data) >= left
              /\ \A k \in 1 .. left : data[k] = call.buf[Moved + k]
    /\ phase = "return" /\ call.fn = "read" => Len(data) = All(call)

(* What a read has fetched so far, if the chip could hear it.              *)
FetchedSoFar ==
  (call.fn = "read" /\ ~deaf) =>
    /\ data # <<>> => ~busy
    /\ \A k \in 1 .. Len(data) : data[k] = mem[Start(call) + k - 1]

\* The first n bytes of the call are programmed.
Transferred(n) ==
  [x \in Addr |-> IF x \in Start(call) .. Start(call) + n - 1
                  THEN old[x] \cap call.buf[x - Start(call) + 1] ELSE old[x]]

(* How far a write has got whose commands the chip has heard so far.       *)
WriteOnItsWay ==
  (call.fn = "write" /\ Moves(call) /\ ~deaf) =>
    /\ phase = "enable" => goal = Transferred(Moved)
    /\ phase \in {"wait", "command"} => wel /\ ~busy /\ goal = Transferred(Moved)
    /\ phase = "finish" => goal = Transferred(Moved + Chunk)
    /\ phase = "return" => ~busy /\ goal = Transferred(All(call))

TransferInv == Memory /\ InPlace /\ FetchedSoFar /\ WriteOnItsWay

-----------------------------------------------------------------------------
(* One command.                                                            *)

(* What one command transfers, and what the loop makes of it.              *)
LEMMA ChunkOfRest ==
  ASSUME call \in Calls, Moves(call), InPlace, phase # "return"
  PROVE  /\ Chunk \in 1 .. left
         /\ call.fn = "write" \/ call.unit # "chip" => ofs + Chunk <= PageSize
         /\ LET rest == left - IF call.unit = "chip" THEN left ELSE PageSize - ofs
            IN  /\ rest \in Int
                /\ rest > 0 => /\ rest = left - Chunk
                               /\ call.unit # "chip" /\ Chunk = PageSize - ofs
                /\ rest <= 0 => Chunk = left
<1>1. call # Idle
  BY CallAssumption DEF Idle
<1>2. left \in 1 .. All(call) /\ ofs \in 0 .. PageSize - 1
  BY <1>1 DEF InPlace
<1>3. PageSize \in Nat \ {0} /\ Size("page") = PageSize
  BY Sizes DEF Size
<1>4. All(call) \in Nat \ {0}
  BY <1>1, Extents DEF InPlace
<1>5. CASE call.unit = "chip" /\ call.fn = "write"
  <2>1. call.bytes = 1 /\ call.offset \in Nat /\ call.offset < Size(call.unit)
        /\ Size(call.unit) \in Nat
    BY <1>5, <1>1, CallAssumption, Sizes DEF InPlace, Unit
  <2>2. All(call) = 1
    BY <2>1 DEF All, Extent
  <2> QED
    BY <1>2, <1>3, <1>5, <2>2 DEF Chunk
<1>6. CASE call.unit = "chip" /\ call.fn # "write"
  BY <1>2, <1>4, <1>6 DEF Chunk
<1>7. CASE call.unit # "chip"
  BY <1>2, <1>3, <1>4, <1>7 DEF Chunk, Extent
<1> QED
  BY <1>5, <1>6, <1>7

(* The end of a round of the loop keeps the equation.                      *)
LEMMA NextPageInPlace ==
  ASSUME call \in Calls, Moves(call), InPlace, phase # "return", NextPage,
         UNCHANGED call
  PROVE  IF phase' = "return" THEN Chunk = left
         ELSE /\ left' \in 1 .. All(call) /\ page' \in Nat /\ ofs' \in 0 .. PageSize - 1
              /\ left' = left - Chunk /\ Moved' = Moved + Chunk
              /\ PageAddr' = Start(call) + Moved'
              /\ phase' = IF call.fn = "read" THEN "command" ELSE "enable"
              /\ call.unit # "chip" /\ Chunk = PageSize - ofs
<1>1. call # Idle
  BY CallAssumption DEF Idle
<1>2. /\ left \in 1 .. All(call) /\ page \in Nat /\ ofs \in 0 .. PageSize - 1
      /\ PageAddr = Start(call) + Moved
  BY <1>1 DEF InPlace
<1>3. PageSize \in Nat \ {0} /\ All(call) \in Nat \ {0} /\ Start(call) \in Nat
  BY <1>1, Extents, Sizes DEF InPlace
<1> DEFINE rest == left - IF call.unit = "chip" THEN left ELSE PageSize - ofs
<1>4. /\ Chunk \in 1 .. left /\ rest \in Int
      /\ rest > 0 => /\ rest = left - Chunk
                     /\ call.unit # "chip" /\ Chunk = PageSize - ofs
      /\ rest <= 0 => Chunk = left
  BY ChunkOfRest
<1>5. left' = rest /\ page' = page + 1 /\ ofs' = 0
      /\ phase' = IF left' > 0 THEN IF call.fn = "read" THEN "command" ELSE "enable"
                  ELSE "return"
  BY DEF NextPage
<1> HIDE DEF rest
<1>6. CASE rest > 0
  <2>1. phase' # "return" /\ phase' = IF call.fn = "read" THEN "command" ELSE "enable"
    BY <1>5, <1>6
  <2>2. left' \in 1 .. All(call) /\ left' = left - Chunk
    BY <1>2, <1>3, <1>4, <1>5, <1>6
  <2>3. Moved' = Moved + Chunk /\ Moved \in Int
    BY <2>2, <1>2, <1>3, <1>4 DEF Moved, All
  <2>4. PageAddr' = PageAddr + Chunk
    <3>1. (page + 1) * PageSize = page * PageSize + PageSize /\ page * PageSize \in Nat
      BY <1>2, <1>3, Z3
    <3>2. PageAddr' = (page + 1) * PageSize + 0 /\ PageAddr = page * PageSize + ofs
      BY <1>5 DEF PageAddr
    <3> HIDE DEF Chunk
    <3> QED
      BY <3>1, <3>2, <1>2, <1>3, <1>4, <1>6
  <2>5. PageAddr' = Start(call) + Moved'
    BY <2>3, <2>4, <1>2, <1>3, <1>4
  <2> QED
    BY <2>1, <2>2, <2>3, <2>5, <1>2, <1>3, <1>4, <1>5, <1>6
<1>7. CASE ~(rest > 0)
  BY <1>4, <1>5, <1>7
<1> QED
  BY <1>6, <1>7

(* A program command that stays within its page and within the chip has no *)
(* wrap in it.                                                             *)
LEMMA ProgrammedRange ==
  ASSUME NEW m \in [Addr -> Byte], NEW a \in Nat, NEW s \in Seq(Byte),
         (a % PageSize) + Len(s) <= PageSize, a + Len(s) <= ChipSize
  PROVE  \A x \in Addr : Programmed(m, a, s)[x] =
           IF x \in a .. a + Len(s) - 1 THEN m[x] \cap s[x - a + 1] ELSE m[x]
<1> DEFINE p == a \div PageSize
           o == a % PageSize
           base == p * PageSize
           slot(k) == (base + ((a + k - 1) % PageSize)) % ChipSize
<1>1. PageSize \in Nat \ {0} /\ ChipSize \in Nat \ {0} /\ Len(s) \in Nat
  BY Sizes
<1>2. p \in Nat /\ o \in 0 .. PageSize - 1 /\ a = p * PageSize + o
  BY <1>1, DivMod
<1> HIDE DEF p, o
<1>3. p * PageSize \in Nat /\ o + Len(s) <= PageSize
  BY <1>1, <1>2, Z3 DEF o
<1>4. \A k \in 1 .. Len(s) : slot(k) = a + k - 1
  <2> SUFFICES ASSUME NEW k \in 1 .. Len(s) PROVE slot(k) = a + k - 1
    OBVIOUS
  <2>1. o + k - 1 \in 0 .. PageSize - 1 /\ a + k - 1 = p * PageSize + (o + k - 1)
    BY <1>1, <1>2, <1>3
  <2>2. (a + k - 1) % PageSize = o + k - 1
    <3>1. (p * PageSize + (o + k - 1)) % PageSize = o + k - 1
      BY <2>1, <1>1, <1>2, DivModOf
    <3> QED
      BY <2>1, <3>1
  <2>3. base + ((a + k - 1) % PageSize) = a + k - 1 /\ a + k - 1 \in 0 .. ChipSize - 1
    BY <2>1, <2>2, <1>1, <1>2, <1>3
  <2> HIDE DEF base
  <2> QED
    BY <2>3, <1>1, DivModSmall
<1>5. Programmed(m, a, s) =
        [x \in Addr |-> {b \in m[x] : \A k \in 1 .. Len(s) : slot(k) = x => b \in s[k]}]
  BY DEF Programmed, p
<1> HIDE DEF base, slot
<1>6. ASSUME NEW x \in Addr
      PROVE  {b \in m[x] : \A k \in 1 .. Len(s) : slot(k) = x => b \in s[k]}
               = IF x \in a .. a + Len(s) - 1 THEN m[x] \cap s[x - a + 1] ELSE m[x]
  <2>0. x \in Int
    BY <1>1 DEF Addr
  <2>1. CASE x \in a .. a + Len(s) - 1
    <3>1. x - a + 1 \in 1 .. Len(s) /\ slot(x - a + 1) = x
      BY <2>0, <2>1, <1>1, <1>4
    <3>2. \A k \in 1 .. Len(s) : slot(k) = x => k = x - a + 1
      BY <2>0, <1>1, <1>4
    <3> QED
      BY <2>1, <3>1, <3>2
  <2>2. CASE x \notin a .. a + Len(s) - 1
    <3>1. \A k \in 1 .. Len(s) : slot(k) # x
      BY <2>0, <2>2, <1>1, <1>4
    <3> QED
      BY <2>2, <3>1
  <2> QED
    BY <2>1, <2>2
<1> QED
  BY <1>5, <1>6

-----------------------------------------------------------------------------
(* The steps.                                                              *)

LEMMA CallTransfer ==
  ASSUME SpiInv, TransferInv, NEW c \in Calls, Call(c)
  PROVE  TransferInv'
<1>1. Memory'
  BY DEF TransferInv, Memory, Call, chipVars
<1>2. call' = c /\ UNCHANGED chipVars /\ old' = goal /\ data' = c.buf
  BY DEF Call
<1>3. CASE ~Moves(c)
  <2>1. InPlace' /\ FetchedSoFar' /\ WriteOnItsWay'
    BY <1>2, <1>3, CallAssumption DEF InPlace, FetchedSoFar, WriteOnItsWay, Moves
  <2> QED
    BY <1>1, <2>1 DEF TransferInv
<1>4. CASE Moves(c)
  <2>1. c.offset < Size(c.unit)
    BY <1>4 DEF Call, Moves
  <2>2. All(c) \in Nat \ {0} /\ Start(c) \in Nat
    BY <2>1, Extents
  <2>3. /\ page' \in Nat /\ ofs' \in 0 .. PageSize - 1
        /\ page' * PageSize + ofs' = Start(c)
    BY <1>4, <2>1, FirstAddress DEF Call
  <2>4. left' = All(c) /\ phase' = IF c.fn = "read" THEN "command" ELSE "enable"
    BY DEF Call, All
  <2>5. Moved' = 0 /\ PageAddr' = Start(c)
    BY <1>2, <2>2, <2>3, <2>4 DEF Moved, PageAddr
  <2>6. c.buf \in Seq(Byte) /\ (c.fn = "read" => c.buf = <<>>)
        /\ (c.fn = "write" => Len(c.buf) >= All(c))
    BY CallAssumption DEF All
  <2>7. InPlace'
    <3>1. \A k \in 1 .. left' : data'[k] = c.buf[Moved' + k]
      BY <1>2, <2>2, <2>4, <2>5
    <3> QED
      BY <1>2, <2>1, <2>2, <2>3, <2>4, <2>5, <2>6, <3>1 DEF InPlace, Phase
  <2>8. FetchedSoFar'
    BY <1>2, <2>6 DEF FetchedSoFar
  <2>9. WriteOnItsWay'
    <3>1. Transferred(0)' = [x \in Addr |-> goal[x]]
      BY <1>2, <2>2 DEF Transferred
    <3>2. goal' = Transferred(0)'
      BY <1>2, <3>1 DEF TransferInv, Memory, chipVars
    <3> QED
      BY <1>2, <2>4, <2>5, <3>2 DEF WriteOnItsWay, Moves
  <2> QED
    BY <1>1, <2>7, <2>8, <2>9 DEF TransferInv
<1> QED
  BY <1>3, <1>4

(* What InPlace says does not change until a page is done.                 *)
LEMMA StayInPlace ==
  ASSUME InPlace, UNCHANGED <<call, page, ofs, left, data>>,
         \/ phase' = phase
         \/ call.fn = "write" /\ phase # "return" /\ phase' \in Phase \ {"return"}
  PROVE  InPlace'
<1>1. Moved' = Moved /\ PageAddr' = PageAddr
  BY DEF Moved, PageAddr
<1> QED
  BY <1>1 DEF InPlace

LEMMA EnableTransfer ==
  ASSUME SpiInv, TransferInv, Enable
  PROVE  TransferInv'
<1>1. /\ phase = "enable" /\ phase' = "wait" /\ wel' = (wel \/ ~busy)
      /\ deaf' = (deaf \/ busy)
      /\ UNCHANGED <<mem, busy, goal, old, call, page, ofs, left, data>>
  BY DEF Enable, WriteEnable
<1>2. Memory'
  BY <1>1 DEF TransferInv, Memory
<1>3. call = Idle \/ ~Moves(call) \/ call.fn = "write"
  BY <1>1 DEF TransferInv, InPlace, Moves
<1>4. InPlace'
  BY <1>1, <1>3, StayInPlace DEF TransferInv, InPlace, Moves, Phase
<1>5. FetchedSoFar'
  BY <1>1 DEF TransferInv, FetchedSoFar
<1>6. Transferred(Moved)' = Transferred(Moved)
  BY <1>1 DEF Transferred, Moved
<1>7. WriteOnItsWay'
  BY <1>1, <1>6 DEF TransferInv, WriteOnItsWay, SpiInv, ChipAtRest
<1> QED
  BY <1>2, <1>4, <1>5, <1>7 DEF TransferInv

LEMMA WaitTransfer ==
  ASSUME SpiInv, TransferInv, Wait
  PROVE  TransferInv'
<1>1. /\ UNCHANGED <<mem, wel, busy, goal, old, call, page, ofs, left, data, deaf>>
      /\ \/ phase = "wait" /\ phase' = "command"
         \/ call.fn = "erase"
  BY DEF Wait, chipVars
<1>2. Memory'
  BY <1>1 DEF TransferInv, Memory
<1>3. \/ call = Idle \/ ~Moves(call)
      \/ phase = "wait" /\ phase' = "command" /\ call.fn = "write"
  BY <1>1 DEF TransferInv, InPlace, Moves
<1>4. InPlace'
  BY <1>1, <1>3, StayInPlace DEF TransferInv, InPlace, Moves, Phase
<1>5. FetchedSoFar'
  BY <1>1 DEF TransferInv, FetchedSoFar
<1>6. Transferred(Moved)' = Transferred(Moved)
  BY <1>1 DEF Transferred, Moved
<1>7. WriteOnItsWay'
  BY <1>1, <1>6 DEF TransferInv, WriteOnItsWay, Moves
<1> QED
  BY <1>2, <1>4, <1>5, <1>7 DEF TransferInv

LEMMA ChipDoneTransfer ==
  ASSUME SpiInv, TransferInv, ChipDone
  PROVE  TransferInv'
<1>1. /\ busy /\ mem' = goal /\ ~busy'
      /\ UNCHANGED <<goal, old, call, phase, page, ofs, left, data, deaf>>
  BY DEF ChipDone, driverVars
<1>2. Memory'
  BY <1>1 DEF TransferInv, Memory
<1>3. InPlace'
  BY <1>1, StayInPlace DEF TransferInv
<1>4. FetchedSoFar'
  <2>1. call.fn = "read" /\ ~deaf => data = <<>>
    BY <1>1 DEF TransferInv, FetchedSoFar
  <2> QED
    BY <1>1, <2>1 DEF FetchedSoFar
<1>5. Transferred(Moved)' = Transferred(Moved)
      /\ Transferred(Moved + Chunk)' = Transferred(Moved + Chunk)
  BY <1>1 DEF Transferred, Moved, Chunk, Extent
<1>6. WriteOnItsWay'
  BY <1>1, <1>5 DEF TransferInv, WriteOnItsWay
<1> QED
  BY <1>2, <1>3, <1>4, <1>6 DEF TransferInv

LEMMA EraseCommandTransfer ==
  ASSUME SpiInv, TransferInv, EraseCommand
  PROVE  TransferInv'
<1>1. call.fn = "erase" /\ UNCHANGED call
  BY DEF EraseCommand
<1>2. InPlace' /\ FetchedSoFar' /\ WriteOnItsWay'
  BY <1>1 DEF InPlace, FetchedSoFar, WriteOnItsWay, Moves
<1>3. Erased(mem, EraseRange(call)) \in [Addr -> Byte]
  BY DEF TransferInv, Memory, Erased, Byte
<1>4. Memory'
  BY <1>3 DEF TransferInv, Memory, EraseCommand, Obey, chipVars
<1> QED
  BY <1>2, <1>4 DEF TransferInv

LEMMA AtRestTransfer ==
  ASSUME SpiInv, TransferInv, Return \/ Reset
  PROVE  TransferInv'
<1>1. call' = Idle /\ old' = goal /\ UNCHANGED <<mem, goal>>
  BY DEF Return, Reset, DriverReset, chipVars
<1>2. Memory'
  BY <1>1 DEF TransferInv, Memory
<1>3. InPlace' /\ FetchedSoFar' /\ WriteOnItsWay'
  BY <1>1 DEF InPlace, FetchedSoFar, WriteOnItsWay, Idle
<1> QED
  BY <1>2, <1>3 DEF TransferInv

LEMMA ProgramCommandTransfer ==
  ASSUME SpiInv, TransferInv, ProgramCommand
  PROVE  TransferInv'
<1> DEFINE s == SubSeq(data, 1, Chunk)
           m == Programmed(mem, PageAddr, s)
<1>1. /\ call.fn = "write" /\ phase = "command" /\ phase' = "finish"
      /\ Obey(m) /\ UNCHANGED <<call, page, ofs, left, data, old, deaf>>
  BY DEF ProgramCommand
<1>2. call # Idle /\ call \in Calls
  BY <1>1 DEF SpiInv, ChipAtRest, Idle
<1>3. m \in [Addr -> Byte]
  BY DEF TransferInv, Memory, Programmed, Byte
<1>4. Memory'
  <2> HIDE DEF m
  <2> QED
    BY <1>1, <1>3 DEF TransferInv, Memory, Obey, chipVars
<1>5. InPlace'
  BY <1>1, StayInPlace DEF TransferInv, Phase
<1>6. FetchedSoFar'
  BY <1>1 DEF FetchedSoFar
<1>7. WriteOnItsWay'
  <2>1. SUFFICES ASSUME Moves(call), ~deaf
                 PROVE  goal' = Transferred(Moved + Chunk)'
    BY <1>1 DEF WriteOnItsWay
  <2>2. wel /\ ~busy /\ goal = Transferred(Moved) /\ mem = goal
    BY <1>1, <2>1 DEF TransferInv, WriteOnItsWay, SpiInv, ChipAtRest
  <2>3. goal' = m
    BY <1>1, <2>2 DEF Obey
  <2>4. /\ data \in Seq(Byte) /\ Len(data) >= left
        /\ left \in 1 .. All(call) /\ page \in Nat /\ ofs \in 0 .. PageSize - 1
        /\ \A k \in 1 .. left : data[k] = call.buf[Moved + k]
        /\ PageAddr = Start(call) + Moved /\ call.offset < Size(call.unit)
    BY <1>1, <1>2, <2>1 DEF TransferInv, InPlace
  <2>5. Chunk \in 1 .. left /\ ofs + Chunk <= PageSize
    BY <1>1, <1>2, <2>1, ChunkOfRest DEF TransferInv
  <2>6. All(call) \in Nat \ {0} /\ Start(call) \in Nat
        /\ Start(call) + All(call) <= ChipSize /\ ChipSize \in Nat
    BY <1>2, <2>4, Extents, Sizes
  <2>7. Moved \in Nat /\ Moved + left = All(call)
    BY <2>4, <2>6 DEF Moved
  <2> DEFINE c == Chunk
  <2>8. s \in Seq(Byte) /\ Len(s) = c /\ \A k \in 1 .. c : s[k] = call.buf[Moved + k]
    <3>1. c \in 1 .. Len(data) /\ Len(data) \in Nat
      BY <2>4, <2>5
    <3>2. s \in Seq(Byte) /\ Len(s) = c /\ \A k \in 1 .. c : s[k] = data[k]
      <4> HIDE DEF c
      <4>1. SubSeq(data, 1, c) \in Seq(Byte) /\ Len(SubSeq(data, 1, c)) = c
            /\ \A k \in 1 .. c : SubSeq(data, 1, c)[k] = data[k]
        BY <2>4, <3>1
      <4> QED
        BY <4>1 DEF c
    <3> QED
      BY <2>4, <2>5, <3>2
  <2>9. PageAddr = page * PageSize + ofs
    BY DEF PageAddr
  <2> DEFINE a == PageAddr
  <2>10. \A x \in Addr : m[x] = IF x \in a .. a + c - 1 THEN mem[x] \cap s[x - a + 1]
                                ELSE mem[x]
    <3>1. mem \in [Addr -> Byte]
      BY DEF TransferInv, Memory
    <3>2. a \in Nat /\ a + c <= ChipSize
      <4> DEFINE v == Moved
                 n == All(call)
                 b == Start(call)
      <4>1. a = b + v /\ v \in Nat /\ v + left = n /\ c \in 1 .. left /\ left \in 1 .. n
        BY <2>4, <2>5, <2>7
      <4>2. n \in Nat \ {0} /\ b \in Nat /\ b + n <= ChipSize /\ ChipSize \in Nat
        BY <2>6
      <4> HIDE DEF a, c, v, n, b
      <4> QED
        BY ONLY <4>1, <4>2
    <3>3. a % PageSize = ofs
      <4>1. PageSize \in Nat \ {0}
        BY Sizes
      <4>2. (page * PageSize + ofs) % PageSize = ofs
        BY ONLY <2>4, <4>1, DivModOf
      <4> QED
        BY ONLY <2>9, <4>2 DEF a
    <3>4. (a % PageSize) + Len(s) <= PageSize /\ a + Len(s) <= ChipSize /\ a \in Nat
          /\ s \in Seq(Byte)
      BY <2>5, <2>8, <3>2, <3>3
    <3> HIDE DEF s, a
    <3>5. \A x \in Addr : Programmed(mem, a, s)[x] =
            IF x \in a .. a + Len(s) - 1 THEN mem[x] \cap s[x - a + 1] ELSE mem[x]
      BY <3>1, <3>4, ProgrammedRange
    <3>6. m = Programmed(mem, a, s)
      BY DEF a
    <3> HIDE DEF m, c
    <3>7. Len(s) = c
      BY <2>8
    <3> QED
      BY <3>5, <3>6, <3>7
  <2>11. \A x \in Addr : m[x] = IF x \in Start(call) .. Start(call) + (Moved + c) - 1
                                THEN old[x] \cap call.buf[x - Start(call) + 1] ELSE old[x]
    <3> SUFFICES ASSUME NEW x \in Addr
                 PROVE  m[x] = IF x \in Start(call) .. Start(call) + (Moved + c) - 1
                               THEN old[x] \cap call.buf[x - Start(call) + 1] ELSE old[x]
      OBVIOUS
    <3>1. m[x] = IF x \in a .. a + c - 1 THEN mem[x] \cap s[x - a + 1] ELSE mem[x]
      <4> HIDE DEF m, a, c, s
      <4> QED
        BY <2>10
    <3>2. mem[x] = IF x \in Start(call) .. Start(call) + Moved - 1
                   THEN old[x] \cap call.buf[x - Start(call) + 1] ELSE old[x]
      BY <2>2 DEF Transferred
    <3>3. x \in Int
      BY <2>6 DEF Addr
    <3>4. a = Start(call) + Moved /\ c \in Nat
      BY <2>4, <2>5
    <3> HIDE DEF m, a, c, s
    <3>5. CASE x \in a .. a + c - 1
      <4>1. x - a + 1 \in 1 .. c /\ Moved + (x - a + 1) = x - Start(call) + 1
        BY <2>6, <2>7, <3>3, <3>4, <3>5
      <4>2. s[x - a + 1] = call.buf[x - Start(call) + 1]
        BY <2>8, <4>1
      <4>3. x \notin Start(call) .. Start(call) + Moved - 1
            /\ x \in Start(call) .. Start(call) + (Moved + c) - 1
        BY <2>6, <2>7, <3>3, <3>4, <3>5
      <4> QED
        BY <3>1, <3>2, <3>5, <4>2, <4>3
    <3>6. CASE x \notin a .. a + c - 1
      <4>1. x \in Start(call) .. Start(call) + Moved - 1
              <=> x \in Start(call) .. Start(call) + (Moved + c) - 1
        BY <2>6, <2>7, <3>3, <3>4, <3>6
      <4> QED
        BY <3>1, <3>2, <3>6, <4>1
    <3> QED
      BY <3>5, <3>6
  <2>12. m = Transferred(Moved + c)
    BY <1>3, <2>11 DEF Transferred
  <2>13. Transferred(Moved + Chunk)' = Transferred(Moved + Chunk)
    BY <1>1 DEF Transferred, Moved, Chunk, Extent
  <2> QED
    BY <2>3, <2>12, <2>13
<1> QED
  BY <1>4, <1>5, <1>6, <1>7 DEF TransferInv

LEMMA WrittenTransfer ==
  ASSUME SpiInv, TransferInv, Written
  PROVE  TransferInv'
<1>1. /\ call.fn = "write" /\ phase = "finish" /\ ~busy /\ NextPage
      /\ data' = SubSeq(data, PageSize - ofs + 1, Len(data))
      /\ UNCHANGED <<mem, wel, busy, goal, call, old, deaf>>
  BY DEF Written, chipVars
<1>2. call # Idle /\ call \in Calls
  BY <1>1 DEF SpiInv, ChipAtRest, Idle
<1>3. Memory' /\ FetchedSoFar'
  BY <1>1 DEF TransferInv, Memory, FetchedSoFar
<1>4. CASE ~Moves(call)
  BY <1>1, <1>3, <1>4 DEF TransferInv, InPlace, WriteOnItsWay
<1>5. CASE Moves(call)
  <2>1. /\ data \in Seq(Byte) /\ Len(data) >= left
        /\ left \in 1 .. All(call) /\ ofs \in 0 .. PageSize - 1
        /\ \A k \in 1 .. left : data[k] = call.buf[Moved + k]
        /\ call.offset < Size(call.unit)
    BY <1>1, <1>2, <1>5 DEF TransferInv, InPlace
  <2>2. All(call) \in Nat \ {0} /\ PageSize \in Nat \ {0}
    BY <1>2, <2>1, Extents, Sizes
  <2>3. ~deaf => goal = Transferred(Moved + Chunk)
    BY <1>1, <1>5 DEF TransferInv, WriteOnItsWay
  <2>4. CASE phase' = "return"
    <3>1. Chunk = left
      BY <1>1, <1>2, <1>5, <2>4, NextPageInPlace DEF TransferInv
    <3>2. Moved + Chunk = All(call)
      BY <2>1, <2>2, <3>1 DEF Moved
    <3>3. Transferred(All(call))' = Transferred(All(call))
      BY <1>1 DEF Transferred
    <3>4. WriteOnItsWay'
      BY <1>1, <2>3, <2>4, <3>2, <3>3 DEF WriteOnItsWay
    <3>5. InPlace'
      BY <1>1, <2>1, <2>4 DEF InPlace, Phase
    <3> QED
      BY <1>3, <3>4, <3>5 DEF TransferInv
  <2>5. CASE phase' # "return"
    <3>1. /\ left' \in 1 .. All(call) /\ page' \in Nat /\ ofs' \in 0 .. PageSize - 1
          /\ left' = left - Chunk /\ Moved' = Moved + Chunk
          /\ PageAddr' = Start(call) + Moved'
          /\ phase' = "enable" /\ Chunk = PageSize - ofs
      BY <1>1, <1>2, <1>5, <2>5, NextPageInPlace DEF TransferInv
    <3>2. Transferred(Moved)' = Transferred(Moved')
      BY <1>1 DEF Transferred, Moved
    <3>3. WriteOnItsWay'
      BY <1>1, <2>3, <3>1, <3>2 DEF WriteOnItsWay
    <3>4. /\ data' \in Seq(Byte) /\ Len(data') = Len(data) - Chunk
          /\ \A k \in 1 .. Len(data) - Chunk : data'[k] = data[Chunk + k]
      <4> DEFINE c == Chunk
      <4>1. c \in 1 .. Len(data) /\ Len(data) \in Nat /\ data' = SubSeq(data, c + 1, Len(data))
        BY <1>1, <2>1, <2>2, <3>1
      <4> HIDE DEF c
      <4>2. data' \in Seq(Byte) /\ Len(data') = Len(data) - c
            /\ \A k \in 1 .. Len(data) - c : data'[k] = data[c + k]
        BY <2>1, <4>1
      <4> QED
        BY <4>2 DEF c
    <3>5. Len(data') >= left' /\ \A k \in 1 .. left' : data'[k] = call.buf[Moved' + k]
      <4> DEFINE c == Chunk
                 d == Moved
      <4>1. c \in Int /\ d \in Int /\ Len(data) \in Nat /\ left' = left - c
            /\ Moved' = d + c /\ c >= 0
        BY <2>1, <2>2, <3>1 DEF Moved
      <4>2. /\ Len(data') = Len(data) - c
            /\ \A k \in 1 .. Len(data) - c : data'[k] = data[c + k]
            /\ \A k \in 1 .. left : data[k] = call.buf[d + k]
        BY <2>1, <3>4
      <4> HIDE DEF c, d
      <4>3. Len(data') >= left'
        BY <2>1, <4>1, <4>2
      <4>4. ASSUME NEW k \in 1 .. left' PROVE data'[k] = call.buf[Moved' + k]
        <5>1. k \in 1 .. Len(data) - c /\ c + k \in 1 .. left
              /\ d + (c + k) = Moved' + k
          BY <2>1, <4>1
        <5> QED
          BY <4>2, <5>1
      <4> QED
        BY <4>3, <4>4
    <3>6. InPlace'
      BY <1>1, <2>1, <3>1, <3>4, <3>5 DEF InPlace, Phase
    <3> QED
      BY <1>3, <3>3, <3>6 DEF TransferInv
  <2> QED
    BY <2>4, <2>5
<1> QED
  BY <1>4, <1>5

LEMMA ReadCommandTransfer ==
  ASSUME SpiInv, TransferInv, ReadCommand
  PROVE  TransferInv'
<1>1. PICK s \in [1 .. Chunk -> Byte] :
        /\ busy \/ \A k \in 1 .. Chunk : s[k] = mem[At(PageAddr, k - 1)]
        /\ data' = data \o s
  BY DEF ReadCommand
<1>2. /\ call.fn = "read" /\ phase = "command" /\ NextPage /\ deaf' = (deaf \/ busy)
      /\ UNCHANGED <<mem, goal, busy, wel, call, old>>
  BY DEF ReadCommand, chipVars
<1>3. call # Idle /\ call \in Calls /\ Moves(call)
  BY <1>2 DEF SpiInv, ChipAtRest, Idle, Moves
<1>4. Memory' /\ WriteOnItsWay'
  BY <1>2 DEF TransferInv, Memory, WriteOnItsWay
<1>5. /\ data \in Seq(Byte) /\ Len(data) = Moved /\ left \in 1 .. All(call)
      /\ PageAddr = Start(call) + Moved /\ call.offset < Size(call.unit)
  BY <1>2, <1>3 DEF TransferInv, InPlace
<1>6. /\ All(call) \in Nat \ {0} /\ Start(call) \in Nat
      /\ Start(call) + All(call) <= ChipSize /\ ChipSize \in Nat \ {0}
  BY <1>3, <1>5, Extents, Sizes
<1>7. Chunk \in 1 .. left
  BY <1>2, <1>3, ChunkOfRest DEF TransferInv
<1> DEFINE c == Chunk
           d == Len(data)
<1>8. c \in Nat /\ d \in Nat /\ d = All(call) - left /\ c <= left /\ d + c <= All(call)
  BY <1>5, <1>6, <1>7 DEF Moved
<1>9. /\ data' \in Seq(Byte) /\ Len(data') = d + c
      /\ \A k \in 1 .. d + c : data'[k] = IF k <= d THEN data[k] ELSE s[k - d]
  <2>1. s \in Seq(Byte) /\ Len(s) = c
    <3> HIDE DEF c
    <3>1. s \in [1 .. c -> Byte]
      BY <1>1 DEF c
    <3> QED
      BY <1>8, <3>1
  <2>2. /\ data \o s \in Seq(Byte) /\ Len(data \o s) = d + Len(s)
        /\ \A k \in 1 .. d + Len(s) : (data \o s)[k] = IF k <= d THEN data[k] ELSE s[k - d]
    BY <1>5, <2>1, ConcatProperties
  <2> HIDE DEF c
  <2> QED
    BY <1>1, <2>1, <2>2
<1>10. InPlace'
  <2>1. CASE phase' = "return"
    <3>1. Chunk = left
      BY <1>2, <1>3, <2>1, NextPageInPlace DEF TransferInv
    <3>2. d + c = All(call)
      BY <1>5, <1>6, <1>8, <3>1
    <3> QED
      BY <1>2, <1>5, <1>9, <2>1, <3>2 DEF InPlace, Phase
  <2>2. CASE phase' # "return"
    <3>1. /\ left' \in 1 .. All(call) /\ page' \in Nat /\ ofs' \in 0 .. PageSize - 1
          /\ Moved' = Moved + Chunk /\ PageAddr' = Start(call) + Moved'
          /\ phase' = "command"
      BY <1>2, <1>3, <2>2, NextPageInPlace DEF TransferInv
    <3>2. Len(data') = Moved'
      BY <1>5, <1>9, <3>1
    <3> QED
      BY <1>2, <1>5, <1>9, <3>1, <3>2 DEF InPlace, Phase
  <2> QED
    BY <2>1, <2>2
<1>11. FetchedSoFar'
  <2> SUFFICES ASSUME ~deaf', NEW k \in 1 .. Len(data')
               PROVE  ~busy /\ data'[k] = mem[Start(call) + k - 1]
    <3>1. data' # <<>> => 1 \in 1 .. Len(data')
      BY <1>8, <1>9
    <3> QED
      BY <1>2, <3>1 DEF FetchedSoFar
  <2>1. ~deaf /\ ~busy
    BY <1>2
  <2>2. \A j \in 1 .. d : data[j] = mem[Start(call) + j - 1]
    BY <1>2, <2>1 DEF TransferInv, FetchedSoFar
  <2>3. \A j \in 1 .. c : s[j] = mem[At(PageAddr, j - 1)]
    BY <1>1, <2>1
  <2>4. k \in 1 .. d + c /\ data'[k] = IF k <= d THEN data[k] ELSE s[k - d]
    BY <1>9
  <2>5. CASE k <= d
    BY <1>8, <2>1, <2>2, <2>4, <2>5
  <2>6. CASE ~(k <= d)
    <3> DEFINE x == Start(call) + k - 1
    <3>1. k - d \in 1 .. c /\ x \in 0 .. ChipSize - 1 /\ PageAddr + (k - d - 1) = x
      <4> HIDE DEF c
      <4>1. PageAddr = Start(call) + d
        BY <1>5
      <4>2. All(call) \in Nat /\ Start(call) \in Nat /\ ChipSize \in Nat
            /\ Start(call) + All(call) <= ChipSize
        BY <1>6
      <4>3. c \in Nat /\ d \in Nat /\ d + c <= All(call)
        BY <1>8
      <4> HIDE DEF d
      <4>4. k \in 1 .. d + c /\ ~(k <= d)
        BY <2>4, <2>6
      <4>5. k - d \in 1 .. c /\ Start(call) + d + (k - d - 1) = x
        BY <4>2, <4>3, <4>4
      <4>6. x \in 0 .. ChipSize - 1
        BY <4>2, <4>3, <4>4
      <4> QED
        BY <4>1, <4>5, <4>6
    <3>2. At(PageAddr, k - d - 1) = x
      <4>1. x % ChipSize = x
        BY <1>6, <3>1, DivModSmall
      <4> QED
        BY <3>1, <4>1 DEF At
    <3> HIDE DEF x
    <3>3. s[k - d] = mem[x]
      BY <2>3, <3>1, <3>2
    <3> QED
      BY <2>1, <2>4, <2>6, <3>3 DEF x
  <2> QED
    BY <2>5, <2>6
<1> QED
  BY <1>4, <1>10, <1>11 DEF TransferInv

-----------------------------------------------------------------------------

LEMMA TransferInvariant == SpiSpec => []TransferInv
<1>1. SpiInit => TransferInv
  BY DEF SpiInit, TransferInv, Memory, InPlace, FetchedSoFar, WriteOnItsWay, Idle
<1>2. SpiInv /\ TransferInv /\ [SpiNext]_spiVars => TransferInv'
  <2> SUFFICES ASSUME SpiInv, TransferInv, [SpiNext]_spiVars PROVE TransferInv'
    OBVIOUS
  <2>1. CASE UNCHANGED spiVars
    <3>1. UNCHANGED <<mem, wel, busy, goal, call, phase, page, ofs, left, data, old, deaf>>
      BY <2>1 DEF spiVars, chipVars, driverVars
    <3>2. Transferred(Moved)' = Transferred(Moved)
          /\ Transferred(Moved + Chunk)' = Transferred(Moved + Chunk)
          /\ Transferred(All(call))' = Transferred(All(call))
      BY <3>1 DEF Transferred, Moved, Chunk, Extent
    <3>3. Memory' /\ FetchedSoFar' /\ WriteOnItsWay'
      BY <3>1, <3>2 DEF TransferInv, Memory, FetchedSoFar, WriteOnItsWay
    <3>4. InPlace'
      BY <3>1, StayInPlace DEF TransferInv
    <3> QED
      BY <3>3, <3>4 DEF TransferInv
  <2>2. CASE \E c \in Calls : Call(c)
    BY <2>2, CallTransfer
  <2>3. CASE Step
    BY <2>3, EnableTransfer, WaitTransfer, EraseCommandTransfer,
       ProgramCommandTransfer, WrittenTransfer, ReadCommandTransfer, AtRestTransfer
    DEF Step
  <2>4. CASE ChipDone
    BY <2>4, ChipDoneTransfer
  <2>5. CASE Reset
    BY <2>5, AtRestTransfer
  <2> QED
    BY <2>1, <2>2, <2>3, <2>4, <2>5 DEF SpiNext
<1> QED
  BY <1>1, <1>2, SpiInvariant, PTL DEF SpiSpec

\* The addresses of a call are those from its first one on.
LEMMA RangeOfCall ==
  ASSUME NEW c \in Calls, c.offset < Size(c.unit)
  PROVE  Addressed(c) = Start(c) .. Start(c) + All(c) - 1
<1> DEFINE s == Start(c)
           n == All(c)
<1>1. s \in Nat /\ n \in Nat \ {0}
  BY Extents
<1>2. \A x : x \in Addressed(c) <=> \E k \in 0 .. n - 1 : x = s + k
  BY DEF Addressed, Start, All
<1> HIDE DEF s, n
<1>3. ASSUME NEW x \in s .. s + n - 1 PROVE x \in Addressed(c)
  <2>1. x - s \in 0 .. n - 1 /\ x = s + (x - s)
    BY <1>1
  <2> QED
    BY <1>2, <2>1
<1>4. ASSUME NEW x \in Addressed(c) PROVE x \in s .. s + n - 1
  BY <1>1, <1>2
<1>5. Addressed(c) = s .. s + n - 1
  BY <1>3, <1>4
<1> QED
  BY <1>5 DEF s, n

(* A write of a page, of a sector or of a byte that the chip could hear    *)
(* programs exactly the bytes it was called for, on any number of pages.   *)
THEOREM WritesExact == SpiSpec => []ProgExact
<1>1. SpiInv /\ TransferInv => ProgExact
  <2> SUFFICES ASSUME SpiInv, TransferInv, Returned("write"), call.unit # "block"
               PROVE  mem = [x \in Addr |->
                        IF x \in Addressed(call)
                        THEN old[x] \cap call.buf[x - Start(call) + 1] ELSE old[x]]
    BY DEF ProgExact, Start
  <2>1. call # Idle /\ call \in Calls /\ Moves(call) /\ phase = "return" /\ ~deaf
    BY DEF SpiInv, ChipAtRest, Idle, Returned, Moves
  <2>2. mem = Transferred(All(call))
    BY <2>1 DEF TransferInv, WriteOnItsWay, SpiInv, ChipAtRest, Returned
  <2>3. Addressed(call) = Start(call) .. Start(call) + All(call) - 1
    BY <2>1, RangeOfCall DEF TransferInv, InPlace
  <2> QED
    BY <2>2, <2>3 DEF Transferred
<1> QED
  BY <1>1, SpiInvariant, TransferInvariant, PTL

(* A read that the chip could hear returns exactly the bytes it was called *)
(* for, on any number of pages.                                            *)
THEOREM FetchesExact == SpiSpec => []FetchExact
<1>1. SpiInv /\ TransferInv => FetchExact
  <2> SUFFICES ASSUME SpiInv, TransferInv, Returned("read")
               PROVE  /\ Len(data) = All(call)
                      /\ \A k \in 1 .. Len(data) : data[k] = mem[Start(call) + k - 1]
    BY DEF FetchExact, Start, All
  <2>1. call # Idle /\ Moves(call) /\ phase = "return" /\ call.fn = "read" /\ ~deaf
    BY DEF Idle, Returned, Moves
  <2> QED
    BY <2>1 DEF TransferInv, InPlace, FetchedSoFar
<1> QED
  BY <1>1, SpiInvariant, TransferInvariant, PTL

-----------------------------------------------------------------------------
(* Types.                                                                  *)

DriverTypes ==
  /\ wel \in BOOLEAN /\ busy \in BOOLEAN
  /\ settled \in BOOLEAN /\ deaf \in BOOLEAN
  /\ call \in Calls \cup {Idle} /\ phase \in Phase
  /\ page \in Nat /\ ofs \in 0 .. PageSize - 1 /\ left \in Int
  /\ data \in Seq(Byte)

LEMMA TailInSeq ==
  ASSUME NEW S, NEW s \in Seq(S), NEW m \in Nat \ {0}
  PROVE  SubSeq(s, m, Len(s)) \in Seq(S)
<1>1. CASE m <= Len(s) + 1
  BY <1>1, SubSeqProperties
<1>2. CASE m > Len(s) + 1
  <2>1. SubSeq(s, m, Len(s)) = <<>>
    BY <1>2, SubSeqProperties
  <2> QED
    BY <2>1
<1> QED
  BY <1>1, <1>2

LEMMA FirstPageNat ==
  ASSUME NEW c \in Calls
  PROVE  FirstPage(c) \in Nat
<1>1. c.num \in Nat /\ PageSize \in Nat \ {0} /\ SectorSize \in Nat /\ BlockSize \in Nat
  BY CallAssumption, Sizes
<1>2. c.num * SectorSize \in Nat /\ c.num * BlockSize \in Nat
  BY <1>1, Z3
<1>3. (c.num * SectorSize) \div PageSize \in Nat /\ (c.num * BlockSize) \div PageSize \in Nat
  BY <1>1, <1>2, DivMod
<1> QED
  BY <1>1, <1>3 DEF FirstPage, w25q128jv_sector2page, w25q128jv_block2page

LEMMA NextPageTypes ==
  ASSUME DriverTypes, NextPage
  PROVE  /\ phase' \in Phase /\ page' \in Nat /\ ofs' \in 0 .. PageSize - 1
         /\ left' \in Int
BY Sizes DEF DriverTypes, NextPage, Phase

LEMMA DriverTypesNext ==
  ASSUME DriverTypes, SpiInv, TransferInv, [SpiNext]_spiVars
  PROVE  DriverTypes'
<1>1. ASSUME NEW c \in Calls, Call(c) PROVE DriverTypes'
  <2>1. /\ c.offset \in Nat /\ c.bytes \in Nat /\ c.unit \in Unit /\ c.buf \in Seq(Byte)
        /\ PageSize \in Nat \ {0}
    BY CallAssumption, Sizes
  <2>2. page' \in Nat /\ ofs' \in 0 .. PageSize - 1
    <3>1. c.offset \div PageSize \in Nat /\ c.offset % PageSize \in 0 .. PageSize - 1
      BY <2>1, DivMod
    <3> QED
      BY <3>1, <1>1, FirstPageNat DEF Call
  <2>3. left' \in Int
    <3>1. Size(c.unit) \in Int
      BY <2>1, Sizes
    <3> QED
      BY <2>1, <3>1, <1>1 DEF Call, Extent
  <2> QED
    BY <1>1, <2>1, <2>2, <2>3 DEF DriverTypes, Call, chipVars, Phase
<1>2. CASE Enable
  BY <1>2 DEF Enable, WriteEnable, DriverTypes, Phase
<1>3. CASE Wait
  BY <1>3 DEF Wait, chipVars, DriverTypes, Phase
<1>4. CASE EraseCommand
  BY <1>4 DEF EraseCommand, Obey, chipVars, DriverTypes, Phase
<1>5. CASE ProgramCommand
  BY <1>5 DEF ProgramCommand, Obey, chipVars, DriverTypes, Phase
<1>6. CASE Written
  <2>1. data' \in Seq(Byte)
    <3>1. PageSize - ofs + 1 \in Nat \ {0}
      BY Sizes DEF DriverTypes
    <3>2. data' = SubSeq(data, PageSize - ofs + 1, Len(data)) /\ data \in Seq(Byte)
      BY <1>6 DEF Written, DriverTypes
    <3> QED
      BY <3>1, <3>2, TailInSeq
  <2>2. NextPage /\ settled' = TRUE /\ UNCHANGED <<wel, busy, call, deaf>>
    BY <1>6 DEF Written, chipVars
  <2> QED
    BY <2>1, <2>2, NextPageTypes DEF DriverTypes
<1>7. CASE ReadCommand
  <2>1. data' \in Seq(Byte)
    <3>1. PICK s \in [1 .. Chunk -> Byte] : data' = data \o s
      BY <1>7 DEF ReadCommand
    <3>2. Chunk \in 1 .. left /\ left \in Int
      <4>1. call \in Calls /\ Moves(call) /\ phase # "return"
        BY <1>7 DEF ReadCommand, SpiInv, ChipAtRest, Idle, Moves
      <4> QED
        BY <4>1, ChunkOfRest DEF TransferInv, DriverTypes
    <3>3. s \in Seq(Byte)
      <4> DEFINE c == Chunk
      <4>1. c \in Nat /\ s \in [1 .. c -> Byte]
        BY <3>2
      <4> HIDE DEF c
      <4> QED
        BY <4>1
    <3> QED
      BY <3>1, <3>3, ConcatProperties DEF DriverTypes
  <2>2. NextPage /\ deaf' = (deaf \/ busy) /\ UNCHANGED <<wel, busy, call, settled>>
    BY <1>7 DEF ReadCommand, chipVars
  <2> QED
    BY <2>1, <2>2, NextPageTypes DEF DriverTypes
<1>8. CASE Return \/ Reset
  <2>1. 0 \in Nat /\ 0 \in 0 .. PageSize - 1 /\ <<>> \in Seq(Byte)
    BY Sizes
  <2>2. /\ call' = Idle /\ phase' = "return" /\ page' = 0 /\ ofs' = 0 /\ left' = 0
        /\ data' = <<>> /\ deaf' = FALSE
        /\ UNCHANGED <<wel, busy>> /\ (settled' = settled \/ settled' = ~busy)
    BY <1>8 DEF Return, Reset, DriverReset, chipVars
  <2>3. wel' \in BOOLEAN /\ busy' \in BOOLEAN /\ settled' \in BOOLEAN /\ deaf' \in BOOLEAN
    BY <2>2 DEF DriverTypes
  <2>4. page' \in Nat /\ ofs' \in 0 .. PageSize - 1 /\ data' \in Seq(Byte) /\ left' \in Int
    BY <2>1, <2>2
  <2>5. call' \in Calls \cup {Idle} /\ phase' \in Phase
    BY <2>2 DEF Phase
  <2> QED
    BY <2>3, <2>4, <2>5 DEF DriverTypes
<1>9. CASE ChipDone
  BY <1>9 DEF ChipDone, driverVars, DriverTypes
<1>10. CASE UNCHANGED spiVars
  BY <1>10 DEF spiVars, chipVars, driverVars, DriverTypes
<1> QED
  BY <1>1, <1>2, <1>3, <1>4, <1>5, <1>6, <1>7, <1>8, <1>9, <1>10 DEF SpiNext, Step

(* Every variable of the driver and of the chip keeps its type; no offset  *)
(* leaves its page.                                                        *)
THEOREM SpiTypeCorrect == SpiSpec => []SpiTypeOK
<1>1. SpiInit => DriverTypes
  <2>1. 0 \in Nat /\ 0 \in 0 .. PageSize - 1 /\ <<>> \in Seq(Byte)
    BY Sizes
  <2> SUFFICES ASSUME SpiInit PROVE DriverTypes
    OBVIOUS
  <2>2. wel \in BOOLEAN /\ busy \in BOOLEAN /\ settled \in BOOLEAN /\ deaf \in BOOLEAN
    BY DEF SpiInit
  <2>3. page \in Nat /\ ofs \in 0 .. PageSize - 1 /\ data \in Seq(Byte) /\ left \in Int
    BY <2>1 DEF SpiInit
  <2>4. call \in Calls \cup {Idle} /\ phase \in Phase
    BY DEF SpiInit, Phase
  <2> QED
    BY <2>2, <2>3, <2>4 DEF DriverTypes
<1>2. DriverTypes /\ TransferInv => SpiTypeOK
  <2>1. \A c \in Calls \cup {Idle} :
          c.fn \in {"none", "read", "write", "erase"} /\ c.unit \in Unit
    BY CallAssumption DEF Idle, Unit
  <2> QED
    BY <2>1 DEF DriverTypes, TransferInv, Memory, SpiTypeOK
<1> QED
  BY <1>1, <1>2, DriverTypesNext, SpiInvariant, TransferInvariant, PTL DEF SpiSpec
=============================================================================
