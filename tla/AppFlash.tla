------------------------------ MODULE AppFlash ------------------------------
(***************************************************************************)
(* The internal flash driver, src/Drivers/boot/flash.c, on the flash       *)
(* memory controller it drives (fmc.c of the StdDriver and the ISP         *)
(* hardware behind it).  Each driver function is a loop of ISP commands;   *)
(* one ISP command is one step, so that the power may fail between any     *)
(* two of them, or in the middle of one.  The controller is never busy for *)
(* as long as fmc.c polls it, so that its time-outs do not occur.          *)
(*                                                                         *)
(* The unit of addresses is the 32-bit word.  A word is the set of its     *)
(* 1 bits: programming can only clear bits, erasing sets them all.         *)
(***************************************************************************)
EXTENDS Integers

CONSTANTS
  Bit,             \* the bits of a flash word
  PageWords,       \* words of a protocol page, BL_FLASH_PACSIZE / 4
  BlockWords,      \* words of an ISP erase block, 4 flash pages
  AppBlocks,       \* erase blocks in the user application section
  USER_APP_START,  \* first word of the application section
  AddrSpace        \* number of word addresses, 2^30: uint32_t wraps here

ASSUME FlashAssumption ==
  /\ PageWords \in Nat \ {0} /\ BlockWords \in Nat \ {0}
  /\ AppBlocks \in Nat \ {0} /\ USER_APP_START \in Nat \ {0}
  /\ AddrSpace \in Nat
  /\ USER_APP_START + AppBlocks * BlockWords + PageWords <= AddrSpace

\* The last word of the application section, which ends the APROM.
USER_APP_END == USER_APP_START + AppBlocks * BlockWords - 1
Aprom        == 0 .. USER_APP_END
Bootloader   == 0 .. USER_APP_START - 1
App          == USER_APP_START .. USER_APP_END
Address      == 0 .. AddrSpace - 1

Word   == SUBSET Bit
Erased == Bit
Index  == 0 .. PageWords - 1
Page   == [Index -> Word]

SUCCESSED == 0
FAILED    == 1

VARIABLES
  flash,   \* the words of the APROM
  ispff,   \* the ISP fail flag of ISPCTL / ISPSTS
  apuen,   \* registers unlocked, ISPEN and APUEN set
  op,      \* the driver function called last
  busy,    \* it has not returned yet
  dest,    \* its address argument, the cursor of the erase loop
  i,       \* the index of its page loop
  page,    \* the caller's page buffer
  res,     \* its result once it has returned
  before   \* history: the flash when it was called

flashVars == <<flash, ispff, apuen, op, busy, dest, i, page, res, before>>

Op == {"none", "write", "read", "verify", "erase"}

FlashTypeOK ==
  /\ flash \in [Aprom -> Word] /\ before \in [Aprom -> Word]
  /\ ispff \in BOOLEAN /\ apuen \in BOOLEAN /\ busy \in BOOLEAN
  /\ op \in Op
  /\ dest \in Address
  /\ i \in 0 .. PageWords
  /\ page \in Page
  /\ res \in {SUCCESSED, FAILED}

-----------------------------------------------------------------------------
(* The flash memory controller.                                            *)

Programmable(a) == apuen /\ a \in Aprom

Block(a) == a .. a + BlockWords - 1

\* f with word a programmed to w.
Programmed(f, a, w) == [f EXCEPT ![a] = @ \cap w]

\* f with the erase block at a erased.
BlockErased(f, a) == [x \in Aprom |-> IF x \in Block(a) THEN Erased ELSE f[x]]

\* Mutant of FMC_Write: a fail flag that was found set is left set.
FMC_WriteMutant(a, w) ==
  /\ flash' = IF Programmable(a) THEN Programmed(flash, a, w) ELSE flash
  /\ ispff' = (ispff \/ ~Programmable(a))

(* FMC_Write and FMC_Erase_Block return 0 only if the fail flag is clear   *)
(* after the command, and leave it clear.  The flag may have been set by   *)
(* an earlier command that did not look at it.                             *)
FMC_Write(a, w) ==
  /\ flash' = IF Programmable(a) THEN Programmed(flash, a, w) ELSE flash
  /\ ispff' = FALSE

FMC_Erase_Block(a) ==
  /\ flash' = IF Programmable(a) THEN BlockErased(flash, a) ELSE flash
  /\ ispff' = FALSE

CommandOk(a) == Programmable(a) /\ ~ispff

(* FMC_Read reports a time-out only.  Outside the APROM an address is one  *)
(* of another memory, or illegal: that sets the fail flag and yields       *)
(* whatever the data register holds.                                       *)
FMC_Read(a, w) ==
  /\ IF a \in Aprom THEN w = flash[a] /\ ispff' = ispff
                    ELSE w \in Word /\ ispff' \in {ispff, TRUE}
  /\ flash' = flash

-----------------------------------------------------------------------------
(* The driver functions.                                                   *)

Call(f, a, pg) ==
  /\ ~busy
  /\ op' = f /\ busy' = TRUE /\ dest' = a /\ i' = 0 /\ page' = pg
  /\ res' = SUCCESSED /\ before' = flash
  /\ UNCHANGED <<flash, ispff, apuen>>

flash_write_app_page(a, pg)  == Call("write", a, pg)
flash_read_app_page(a)       == Call("read", a, page)
flash_verify_app_page(a, pg) == Call("verify", a, pg)

flash_erase_app_all == Call("erase", USER_APP_START, page)

\* The address of the page loop: a uint32_t.
Cursor == (dest + i) % AddrSpace

Running(f) == busy /\ op = f

Fail == busy' = FALSE /\ res' = FAILED /\ i' = i

Continue == i' = i + 1 /\ UNCHANGED <<busy, res>>

\* Mutant of WriteWord: the page loop does not stop at a failed word.
WriteWordMutant ==
  /\ Running("write") /\ i < PageWords
  /\ FMC_Write(Cursor, page[i])
  /\ i' = i + 1 /\ res' = IF CommandOk(Cursor) THEN res ELSE FAILED
  /\ UNCHANGED <<busy, apuen, op, dest, page, before>>

WriteWord ==
  /\ Running("write") /\ i < PageWords
  /\ FMC_Write(Cursor, page[i])
  /\ IF CommandOk(Cursor) THEN Continue ELSE Fail
  /\ UNCHANGED <<apuen, op, dest, page, before>>

\* Mutant of ReadWord: the loop reads one word too far.
ReadWordMutant ==
  /\ Running("read") /\ i < PageWords
  /\ \E w \in Word : FMC_Read((Cursor + 1) % AddrSpace, w)
                    /\ page' = [page EXCEPT ![i] = w]
  /\ Continue
  /\ UNCHANGED <<apuen, op, dest, before>>

ReadWord ==
  /\ Running("read") /\ i < PageWords
  /\ \E w \in Word : FMC_Read(Cursor, w) /\ page' = [page EXCEPT ![i] = w]
  /\ Continue
  /\ UNCHANGED <<apuen, op, dest, before>>

VerifyWord ==
  /\ Running("verify") /\ i < PageWords
  /\ \E w \in Word :
       /\ FMC_Read(Cursor, w)
       /\ IF w = page[i] THEN Continue ELSE Fail
  /\ UNCHANGED <<apuen, op, dest, page, before>>

\* Mutant of EraseBlock: the loop erases one block too many.
EraseBlockTooMany ==
  /\ Running("erase") /\ dest <= USER_APP_END + 1
  /\ FMC_Erase_Block(dest)
  /\ res' = IF CommandOk(dest) THEN res ELSE FAILED
  /\ dest' = dest + BlockWords
  /\ UNCHANGED <<apuen, op, busy, i, page, before>>

\* Mutant of EraseBlock: the loop stops at a failed block.
EraseBlockMutant ==
  /\ Running("erase") /\ dest <= USER_APP_END
  /\ FMC_Erase_Block(dest)
  /\ IF CommandOk(dest) THEN UNCHANGED <<res, busy>> ELSE res' = FAILED /\ busy' = FALSE
  /\ dest' = dest + BlockWords
  /\ UNCHANGED <<apuen, op, i, page, before>>

(* A failed block does not stop the loop: the results are or-ed.           *)
EraseBlock ==
  /\ Running("erase") /\ dest <= USER_APP_END
  /\ FMC_Erase_Block(dest)
  /\ res' = IF CommandOk(dest) THEN res ELSE FAILED
  /\ dest' = dest + BlockWords
  /\ UNCHANGED <<apuen, op, busy, i, page, before>>

Return ==
  /\ busy
  /\ IF op = "erase" THEN dest > USER_APP_END ELSE i = PageWords
  /\ busy' = FALSE
  /\ UNCHANGED <<flash, ispff, apuen, op, dest, i, page, res, before>>

FlashStep == WriteWord \/ ReadWord \/ VerifyWord \/ EraseBlock \/ Return

APROM_update_enable ==
  /\ apuen' = TRUE
  /\ UNCHANGED <<flash, ispff, op, busy, dest, i, page, res, before>>

\* The arguments and locals of a call that is over.
NoCall ==
  /\ op' = "none" /\ busy' = FALSE /\ dest' = 0 /\ i' = 0
  /\ page' = [k \in Index |-> {}] /\ res' = SUCCESSED /\ before' = flash'

\* The caller has taken the result.
Forget == ~busy /\ UNCHANGED <<flash, ispff, apuen>> /\ NoCall

(* What an ISP command cut short leaves: some of the bits of a word being  *)
(* programmed are cleared; a block being erased holds anything.            *)
Interrupted(f) ==
  \/ f = flash
  \/ /\ Running("write") /\ i < PageWords /\ Programmable(Cursor)
     /\ \E w \in Word : /\ page[i] \subseteq w
                        /\ f = Programmed(flash, Cursor, w)
  \/ /\ Running("erase") /\ dest <= USER_APP_END /\ Programmable(dest)
     /\ \E g \in [Block(dest) -> Word] :
          f = [x \in Aprom |-> IF x \in Block(dest) THEN g[x] ELSE flash[x]]

\* RAM and the ISP registers are lost, the flash is not.
FlashPowerLoss ==
  /\ Interrupted(flash')
  /\ ispff' = FALSE /\ apuen' = FALSE
  /\ NoCall

-----------------------------------------------------------------------------
(* The driver on its own: any caller, within the guard FLASH_WRITE puts on *)
(* its address.                                                            *)

FlashInit ==
  /\ flash \in [Aprom -> Word]
  /\ ispff = FALSE /\ apuen = FALSE /\ op = "none" /\ busy = FALSE
  /\ dest = 0 /\ i = 0 /\ page = [k \in Index |-> {}] /\ res = SUCCESSED
  /\ before = flash

AnyCall ==
  /\ apuen
  /\ \/ \E a \in Address, pg \in Page :
          \/ a >= USER_APP_START /\ flash_write_app_page(a, pg)
          \/ flash_verify_app_page(a, pg)
     \/ \E a \in Address : flash_read_app_page(a)
     \/ flash_erase_app_all

FlashNext ==
  \/ AnyCall
  \/ FlashStep
  \/ op # "none" /\ Forget
  \/ ~apuen /\ APROM_update_enable
  \/ FlashPowerLoss

FlashSpec == FlashInit /\ [][FlashNext]_flashVars

-----------------------------------------------------------------------------
(* Properties.                                                             *)

\* f with the first n words of pg programmed from address a on.
PageProgrammed(f, a, pg, n) ==
  [x \in Aprom |-> IF x \in a .. a + n - 1 THEN f[x] \cap pg[x - a] ELSE f[x]]

(* flash_write_app_page has programmed exactly the words before its index, *)
(* all of them in the application section, and nothing else: a page that   *)
(* crosses the end of the APROM is cut there and never wraps.  When it     *)
(* returns SUCCESSED the whole page is programmed.                         *)
WriteExact ==
  op = "write" =>
    /\ res = SUCCESSED => /\ i > 0 => dest + i - 1 <= USER_APP_END
                          /\ flash = PageProgrammed(before, dest, page, i)
                          /\ ~busy => i = PageWords
    /\ res = FAILED => \E n \in {i, i + 1} :
                          flash = PageProgrammed(before, dest, page, n)

(* A page refused although every word of it is in the section was refused  *)
(* because of an earlier command's fail flag: it stopped at its first word *)
(* and left the flag clear, so that the same call again succeeds.          *)
RefusalHeals ==
  (op = "write" /\ ~busy /\ res = FAILED /\ dest + PageWords - 1 <= USER_APP_END)
    => i = 0 /\ ~ispff

(* flash_erase_app_all erases every word of the section, even when it      *)
(* returns FAILED, and only words of the section.                          *)
EraseComplete ==
  op = "erase" =>
    /\ \A x \in Aprom : flash[x] = IF x \in USER_APP_START .. dest - 1
                                   THEN Erased ELSE before[x]
    /\ ~busy => dest = USER_APP_END + 1

(* A page read or verified with result SUCCESSED is what the flash holds,  *)
(* as far as its addresses are words of the APROM, and the flash is as it  *)
(* was.                                                                    *)
ReadExact ==
  op \in {"read", "verify"} =>
    /\ flash = before
    /\ (~busy /\ res = SUCCESSED) =>
         \A k \in Index : dest + k \in Aprom => page[k] = flash[dest + k]

(* No step of the driver, and no power failure in one, changes a word of   *)
(* the bootloader section.                                                 *)
BootloaderIntact == [][\A a \in Bootloader : flash'[a] = flash[a]]_flashVars
=============================================================================
