------------------------------ MODULE SpiFlash ------------------------------
(***************************************************************************)
(* The SPI flash: the driver w25q128jv.c, which lfs_port.c calls for       *)
(* LittleFS, and the chip W25Q128JV.  The unit of time is the command,     *)
(* the bytes sent while /CS is low.                                        *)
(*                                                                         *)
(* The chip is external.  It has a power supply and a state of its own:    *)
(* when the processor is reset it goes on erasing or programming, and a    *)
(* busy chip hears nothing but the request for its status.                 *)
(***************************************************************************)
EXTENDS Integers, Sequences

CONSTANTS
  Bit,          \* the bits of a byte
  PageSize,     \* bytes of a page, 256
  SectorPages,  \* pages of a sector, 16
  BlockSectors, \* sectors of a block, 16
  Blocks        \* blocks of the chip, 256

ASSUME ChipAssumption ==
  /\ PageSize \in Nat \ {0} /\ SectorPages \in Nat \ {0}
  /\ BlockSectors \in Nat \ {0} /\ Blocks \in Nat \ {0}

SectorSize == SectorPages * PageSize
BlockSize  == BlockSectors * SectorSize
ChipSize   == Blocks * BlockSize
Addr       == 0 .. ChipSize - 1
Byte       == SUBSET Bit

VARIABLES
  mem,      \* the bytes of the chip
  wel,      \* its write enable latch
  busy,     \* it is erasing or programming
  goal,     \* the bytes as they will be when it is done
  call,     \* what the driver was called for, or Idle
  phase,    \* where it is
  page,     \* wpage or rpage
  ofs,      \* the offset in this page
  left,     \* wbytes or rbytes
  data,     \* the caller's buffer, from pbuf on or up to pbuf
  old,      \* history: the bytes of the chip when the driver was called, or
            \* as they will be when the chip is done with an earlier command
  settled,  \* history: the driver has seen the chip idle since the last reset
  deaf      \* history: the chip was busy when it was sent a command of this call

chipVars   == <<mem, wel, busy, goal>>
driverVars == <<call, phase, page, ofs, left, data>>
spiVars    == <<chipVars, driverVars, old, settled, deaf>>

Unit  == {"page", "sector", "block", "chip"}
Idle  == [fn |-> "none", unit |-> "page", num |-> 0, offset |-> 0, bytes |-> 0,
          buf |-> <<>>]
Phase == {"return", "enable", "wait", "command", "finish"}

Size(unit) ==
  CASE unit = "page" -> PageSize [] unit = "sector" -> SectorSize
    [] unit = "block" -> BlockSize [] unit = "chip" -> ChipSize

SpiTypeOK ==
  /\ mem \in [Addr -> Byte] /\ goal \in [Addr -> Byte] /\ old \in [Addr -> Byte]
  /\ wel \in BOOLEAN /\ busy \in BOOLEAN
  /\ settled \in BOOLEAN /\ deaf \in BOOLEAN
  /\ call.fn \in {"none", "read", "write", "erase"} /\ call.unit \in Unit
  /\ phase \in Phase
  /\ page \in Nat /\ ofs \in 0 .. PageSize - 1 /\ left \in Int
  /\ data \in Seq(Byte)

-----------------------------------------------------------------------------
(* The chip.                                                               *)

\* n bytes from address a on: the address has 24 bits, and wraps.
At(a, k) == (a + k) % ChipSize

Erased(m, A) == [x \in Addr |-> IF x \in A THEN Bit ELSE m[x]]

\* m with the bytes of s programmed: within a page, the address wraps there.
Programmed(m, a, s) ==
  LET base == (a \div PageSize) * PageSize
      slot(k) == (base + ((a + k - 1) % PageSize)) % ChipSize
  IN  [x \in Addr |->
         {b \in m[x] : \A k \in 1 .. Len(s) : slot(k) = x => b \in s[k]}]

\* Erase and program commands need the latch; a busy chip ignores them.
Obey(m) ==
  IF wel /\ ~busy THEN busy' = TRUE /\ goal' = m /\ UNCHANGED <<mem, wel>>
                  ELSE UNCHANGED chipVars

WriteEnable == wel' = (wel \/ ~busy) /\ UNCHANGED <<mem, busy, goal>>

ChipDone ==
  /\ busy
  /\ mem' = goal /\ busy' = FALSE /\ wel' = FALSE
  /\ UNCHANGED <<goal, driverVars, old, settled, deaf>>

-----------------------------------------------------------------------------
(* The driver.                                                             *)

\* How many of the bytes asked for there are from offset on: none means all.
Extent(unit, offset, bytes) ==
  IF bytes = 0 \/ bytes + offset > Size(unit) THEN Size(unit) - offset ELSE bytes

w25q128jv_sector2page(num) == (num * SectorSize) \div PageSize
w25q128jv_block2page(num)  == (num * BlockSize) \div PageSize

\* w25q128jv_write_block() takes its block for a sector.
FirstPage(c) ==
  IF c.unit = "page" THEN c.num
  ELSE IF c.unit = "block" /\ c.fn = "read" THEN w25q128jv_block2page(c.num)
  ELSE w25q128jv_sector2page(c.num)

(* w25q128jv_read_..., w25q128jv_write_... and w25q128jv_erase_....  With   *)
(* an offset beyond the sector or block the driver returns at once; beyond *)
(* a page there must be none.  The functions for bytes name them by their  *)
(* address, the offset in the chip, and ask for one byte at least.         *)
Call(c) ==
  /\ call = Idle
  /\ c.fn = "erase" \/ c.offset < Size(c.unit)
  /\ call' = c /\ old' = goal /\ deaf' = FALSE
  /\ phase' = IF c.fn = "read" THEN "command" ELSE "enable"
  /\ page' = FirstPage(c) + c.offset \div PageSize
  /\ ofs' = c.offset % PageSize
  /\ left' = Extent(c.unit, c.offset, c.bytes)
  /\ data' = c.buf
  /\ UNCHANGED <<chipVars, settled>>

Enable ==
  /\ phase = "enable" /\ phase' = "wait"
  /\ WriteEnable
  /\ deaf' = (deaf \/ busy)
  /\ UNCHANGED <<call, page, ofs, left, data, old, settled>>

\* Mutant of Wait: the driver does not wait.
WaitNot ==
  /\ phase = "wait" \/ (phase = "finish" /\ call.fn = "erase")
  /\ phase' = IF phase = "wait" THEN "command" ELSE "return"
  /\ settled' = TRUE
  /\ UNCHANGED <<chipVars, call, page, ofs, left, data, old, deaf>>

\* Mutant of Wait: the wrong bit of the status, that of the write enable latch.
WaitLatch ==
  /\ phase = "wait" \/ (phase = "finish" /\ call.fn = "erase")
  /\ ~wel
  /\ phase' = IF phase = "wait" THEN "command" ELSE "return"
  /\ settled' = TRUE
  /\ UNCHANGED <<chipVars, call, page, ofs, left, data, old, deaf>>

\* w25q128jv_wait_for_busy(), before the command, and after an erase.
Wait ==
  /\ phase = "wait" \/ (phase = "finish" /\ call.fn = "erase")
  /\ ~busy
  /\ phase' = IF phase = "wait" THEN "command" ELSE "return"
  /\ settled' = TRUE
  /\ UNCHANGED <<chipVars, call, page, ofs, left, data, old, deaf>>

\* The sector or block of call c.
EraseRange(c) == c.num * Size(c.unit) .. (c.num + 1) * Size(c.unit) - 1

EraseCommand ==
  /\ call.fn = "erase" /\ phase = "command" /\ phase' = "finish"
  /\ Obey(Erased(mem, EraseRange(call)))
  /\ UNCHANGED <<call, page, ofs, left, data, old, settled, deaf>>

\* What w25q128jv_write_page() and _read_page() make of the rest; the byte
\* functions send one command for all.
Chunk == IF call.unit = "chip" THEN left ELSE Extent("page", ofs, left)

PageAddr == page * PageSize + ofs

ProgramCommand ==
  /\ call.fn = "write" /\ phase = "command" /\ phase' = "finish"
  /\ Obey(Programmed(mem, PageAddr, SubSeq(data, 1, Chunk)))
  /\ UNCHANGED <<call, page, ofs, left, data, old, settled, deaf>>

\* Mutant of NextPage: a whole page is counted, whatever the offset.
NextPageWhole ==
  /\ page' = page + 1 /\ ofs' = 0
  /\ left' = left - IF call.unit = "chip" THEN left ELSE PageSize
  /\ phase' = IF left' > 0 THEN IF call.fn = "read" THEN "command" ELSE "enable"
              ELSE "return"

\* Mutant of NextPage: the offset runs on.
NextPageRunning ==
  /\ page' = page + 1 /\ ofs' = ofs + Chunk
  /\ left' = left - IF call.unit = "chip" THEN left ELSE PageSize - ofs
  /\ phase' = IF left' > 0 THEN IF call.fn = "read" THEN "command" ELSE "enable"
              ELSE "return"

\* The end of a round of the do loop.
NextPage ==
  /\ page' = page + 1 /\ ofs' = 0
  /\ left' = left - IF call.unit = "chip" THEN left ELSE PageSize - ofs
  /\ phase' = IF left' > 0 THEN IF call.fn = "read" THEN "command" ELSE "enable"
              ELSE "return"

\* Mutant of Written: the buffer does not advance.
WrittenStay ==
  /\ call.fn = "write" /\ phase = "finish"
  /\ ~busy
  /\ NextPage
  /\ settled' = TRUE
  /\ UNCHANGED <<chipVars, call, data, old, deaf>>

\* Mutant of Written: the driver does not wait after a page.
WrittenNoWait ==
  /\ call.fn = "write" /\ phase = "finish"
  /\ NextPage
  /\ data' = SubSeq(data, PageSize - ofs + 1, Len(data))
  /\ settled' = TRUE
  /\ UNCHANGED <<chipVars, call, old, deaf>>

Written ==
  /\ call.fn = "write" /\ phase = "finish"
  /\ ~busy
  /\ NextPage
  /\ data' = SubSeq(data, PageSize - ofs + 1, Len(data))
  /\ settled' = TRUE
  /\ UNCHANGED <<chipVars, call, old, deaf>>

\* A chip that is busy sends anything.
ReadCommand ==
  /\ call.fn = "read" /\ phase = "command"
  /\ \E s \in [1 .. Chunk -> Byte] :
       /\ busy \/ \A k \in 1 .. Chunk : s[k] = mem[At(PageAddr, k - 1)]
       /\ data' = data \o s
  /\ NextPage
  /\ deaf' = (deaf \/ busy)
  /\ UNCHANGED <<chipVars, call, old, settled>>

\* The driver is idle.
DriverReset ==
  /\ call' = Idle /\ phase' = "return" /\ page' = 0 /\ ofs' = 0 /\ left' = 0
  /\ data' = <<>> /\ deaf' = FALSE /\ old' = goal

Return ==
  /\ call # Idle /\ phase = "return"
  /\ DriverReset
  /\ UNCHANGED <<chipVars, settled>>

(* The processor alone: the chip goes on.  A power failure, which stops    *)
(* both, is the beginning of another behaviour.                            *)
Reset ==
  /\ call # Idle
  /\ DriverReset /\ settled' = ~busy
  /\ UNCHANGED chipVars

-----------------------------------------------------------------------------
(* lfs_port.c: a block of LittleFS is a sector.  All return LFS_ERR_OK.     *)

lfs_deskio_read(block, off, size) ==
  [fn |-> "read", unit |-> "sector", num |-> block, offset |-> off,
   bytes |-> size, buf |-> <<>>]

lfs_deskio_prog(block, off, buffer) ==
  [fn |-> "write", unit |-> "sector", num |-> block, offset |-> off,
   bytes |-> Len(buffer), buf |-> buffer]

lfs_deskio_erase(block) ==
  [fn |-> "erase", unit |-> "sector", num |-> block, offset |-> 0, bytes |-> 0,
   buf |-> <<>>]

-----------------------------------------------------------------------------

CONSTANT Calls  \* the calls of the driver

(* They are about pages, sectors and blocks that the chip has, with enough *)
(* bytes in the buffer; w25q128jv_write_byte() writes one.                 *)
ASSUME CallAssumption ==
  \A c \in Calls :
    /\ c.fn \in {"read", "write", "erase"} /\ c.unit \in Unit
    /\ c.num \in Nat /\ (c.num + 1) * Size(c.unit) <= ChipSize
    /\ c.offset \in Nat /\ c.bytes \in Nat /\ c.buf \in Seq(Byte)
    /\ c.fn = "read" => c.buf = <<>>
    /\ c.fn = "write" => Len(c.buf) >= Extent(c.unit, c.offset, c.bytes)
    /\ c.fn = "write" /\ c.unit = "chip" => c.bytes = 1

SpiInit ==
  /\ mem \in [Addr -> Byte] /\ goal = mem /\ old = mem
  /\ wel = FALSE /\ busy = FALSE
  /\ call = Idle /\ phase = "return" /\ page = 0 /\ ofs = 0 /\ left = 0
  /\ data = <<>> /\ settled = TRUE /\ deaf = FALSE

Step == Enable \/ Wait \/ EraseCommand \/ ProgramCommand \/ Written \/ ReadCommand
        \/ Return

SpiNext ==
  \/ \E c \in Calls : Call(c)
  \/ Step \/ ChipDone
  \/ Reset

SpiSpec == SpiInit /\ [][SpiNext]_spiVars

FairSpiSpec == SpiSpec /\ WF_spiVars(Step) /\ WF_spiVars(ChipDone)

-----------------------------------------------------------------------------
(* Properties.                                                             *)

Returned(fn) == call.fn = fn /\ phase = "return" /\ ~deaf

\* The addresses call c is about.
Addressed(c) ==
  {c.num * Size(c.unit) + c.offset + k :
     k \in 0 .. Extent(c.unit, c.offset, c.bytes) - 1}

(* A page or sector write that the chip could hear programs the bytes from *)
(* the offset on, as far as the page or sector goes, each with its own     *)
(* byte of the buffer, and no other: no page is entered at a wrong place,  *)
(* and none wraps.                                                         *)
ProgExact ==
  (Returned("write") /\ call.unit # "block") =>
    LET first == call.num * Size(call.unit) + call.offset
    IN  mem = [x \in Addr |-> IF x \in Addressed(call)
                              THEN old[x] \cap call.buf[x - first + 1] ELSE old[x]]

(* A read that the chip could hear fills the buffer with exactly these     *)
(* bytes.                                                                  *)
FetchExact ==
  Returned("read") =>
    LET first == call.num * Size(call.unit) + call.offset
    IN  /\ Len(data) = Extent(call.unit, call.offset, call.bytes)
        /\ \A k \in 1 .. Len(data) : data[k] = mem[first + k - 1]

(* An erase that the chip could hear erases its sector or block, all of it *)
(* and nothing else.                                                       *)
EraseExact == Returned("erase") => mem = Erased(old, EraseRange(call))

(* The driver goes on only when the chip has finished, so that the chip    *)
(* hears every command.  Only a reset of the processor can break this, and *)
(* only until the driver has waited once: of what is written or erased     *)
(* after a reset, at most the first command is lost.                       *)
LostOnlyAfterReset == busy /\ phase \notin {"wait", "finish"} => ~settled

(* Nothing waits for ever.                                                 *)
CallsReturn == (call # Idle) ~> (call = Idle)

(* w25q128jv.h: a block written with w25q128jv_write_block() is the block  *)
(* that w25q128jv_read_block() reads under the same block_num.             *)
BlockWritten ==
  (Returned("write") /\ call.unit = "block") =>
    \A x \in Addr \ Addressed(call) : mem[x] = old[x]
=============================================================================
