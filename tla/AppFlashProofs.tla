--------------------------- MODULE AppFlashProofs ---------------------------
(***************************************************************************)
(* The flash driver for every word width, page size, block size and        *)
(* section size that meets FlashAssumption.                                *)
(***************************************************************************)
EXTENDS AppFlash, TLAPS

-----------------------------------------------------------------------------
(* Arithmetic of the address space.                                        *)

(* The constants are integers and the section is not empty.                *)
LEMMA SectionBounds ==
  /\ USER_APP_END \in Nat /\ USER_APP_START \in Nat
  /\ USER_APP_START <= USER_APP_END
  /\ USER_APP_END + 1 + PageWords <= AddrSpace
  /\ USER_APP_END + 1 \in Address
<1> DEFINE size == AppBlocks * BlockWords
<1>1. size \in Nat /\ size > 0
  BY FlashAssumption
<1> QED
  BY <1>1, FlashAssumption DEF USER_APP_END, Address

(* The cursor of the page loop is an address, and equals dest + i as long  *)
(* as that does not wrap.                                                  *)
LEMMA CursorIsAddress ==
  ASSUME dest \in Address, i \in 0 .. PageWords
  PROVE  /\ Cursor \in Address
         /\ dest + i < AddrSpace => Cursor = dest + i
<1>1. AddrSpace \in Nat \ {0}
  BY SectionBounds, FlashAssumption DEF Address
<1>2. dest + i \in Nat
  BY FlashAssumption DEF Address
<1> HIDE DEF Address
<1>3. \A n \in Nat : n % AddrSpace \in 0 .. AddrSpace - 1
  BY <1>1
<1>4. \A n \in Nat : n < AddrSpace => n % AddrSpace = n
  BY <1>1
<1> QED
  BY <1>2, <1>3, <1>4 DEF Cursor, Address

(* The cursor of the erase loop is the start of a block of the section.    *)
BlockStart(a) == \E k \in 0 .. AppBlocks : a = USER_APP_START + k * BlockWords

LEMMA BlockInSection ==
  ASSUME NEW a, BlockStart(a), a <= USER_APP_END
  PROVE  /\ a \in App /\ Block(a) \subseteq App
         /\ BlockStart(a + BlockWords)
         /\ a + BlockWords \in Address
         /\ a + BlockWords <= USER_APP_END + 1
<1>1. PICK k \in 0 .. AppBlocks : a = USER_APP_START + k * BlockWords
  BY DEF BlockStart
<1>2. k < AppBlocks
  <2>1. SUFFICES ASSUME k = AppBlocks PROVE FALSE
    BY <1>1, FlashAssumption
  <2> QED
    BY <1>1, <2>1, SectionBounds, FlashAssumption DEF USER_APP_END
<1>3. (k + 1) * BlockWords <= AppBlocks * BlockWords
  BY <1>2, FlashAssumption
<1>4. (k + 1) * BlockWords = k * BlockWords + BlockWords
  BY <1>1, FlashAssumption
<1>5. k * BlockWords \in Nat
  BY <1>1, FlashAssumption
<1>6. a \in Nat /\ a >= USER_APP_START /\ a + BlockWords <= USER_APP_END + 1
  BY <1>1, <1>3, <1>4, <1>5, FlashAssumption DEF USER_APP_END
<1>7. BlockStart(a + BlockWords)
  BY <1>1, <1>2, <1>4, <1>5, FlashAssumption DEF BlockStart
<1>8. Block(a) \subseteq App
  BY <1>6, SectionBounds, FlashAssumption DEF Block, App
<1> QED
  BY <1>6, <1>7, <1>8, SectionBounds, FlashAssumption DEF Address, App

-----------------------------------------------------------------------------
(* The inductive invariant.                                                *)

\* The erase loop is at a block of the section.
EraseCursor == op = "erase" => BlockStart(dest)

\* The page loop is in the section as long as no word has failed.
WriteCursor ==
  (op = "write" /\ res = SUCCESSED /\ i > 0) => dest + i - 1 <= USER_APP_END

\* A page loop has not failed while it runs.
WriteRunning == Running("write") => res = SUCCESSED

\* The caller's guard.
WriteGuarded == op = "write" => dest >= USER_APP_START

FlashInv == FlashTypeOK /\ EraseCursor /\ WriteCursor /\ WriteRunning

LEMMA FlashInitInv == FlashInit => FlashInv /\ WriteGuarded
<1> SUFFICES ASSUME FlashInit PROVE FlashInv /\ WriteGuarded
  OBVIOUS
<1>1. /\ flash \in [Aprom -> Word] /\ before \in [Aprom -> Word]
      /\ op \in Op /\ res \in {SUCCESSED, FAILED}
  BY DEF FlashInit, Op
<1>2. ispff \in BOOLEAN /\ apuen \in BOOLEAN /\ busy \in BOOLEAN
  BY DEF FlashInit
<1>3. dest \in Address /\ i \in 0 .. PageWords
  BY SectionBounds, FlashAssumption DEF FlashInit, Address
<1>4. page \in Page
  BY DEF FlashInit, Page, Word
<1> QED
  BY <1>1, <1>2, <1>3, <1>4 DEF FlashTypeOK, FlashInit, FlashInv, EraseCursor, WriteCursor, WriteRunning,
              WriteGuarded, Running

(* Programming a word and erasing a block give a flash.                    *)
LEMMA ProgrammedType ==
  ASSUME NEW f \in [Aprom -> Word], NEW a, NEW w \in Word
  PROVE  Programmed(f, a, w) \in [Aprom -> Word]
BY DEF Programmed, Word

LEMMA BlockErasedType ==
  ASSUME NEW f \in [Aprom -> Word], NEW a
  PROVE  BlockErased(f, a) \in [Aprom -> Word]
BY DEF BlockErased, Erased, Word

(* A call sets up the loop of the function called.                         *)
LEMMA CallInv ==
  ASSUME FlashInv, NEW f \in Op \ {"none"}, NEW a \in Address, NEW pg \in Page,
         f = "erase" => a = USER_APP_START, Call(f, a, pg)
  PROVE  FlashInv'
<1>1. FlashTypeOK'
  BY FlashAssumption DEF FlashInv, FlashTypeOK, Call
<1>2. BlockStart(USER_APP_START)
  BY FlashAssumption, USER_APP_START = USER_APP_START + 0 * BlockWords
  DEF BlockStart
<1>3. EraseCursor'
  BY <1>2 DEF EraseCursor, BlockStart, Call
<1>4. WriteCursor' /\ WriteRunning'
  BY DEF WriteCursor, WriteRunning, Call, Running
<1> QED
  BY <1>1, <1>3, <1>4 DEF FlashInv

(* What a word of a page loop does to the loop's variables.                *)
LEMMA LoopType ==
  ASSUME FlashTypeOK, i < PageWords, Continue \/ Fail
  PROVE  i' \in 0 .. PageWords /\ busy' \in BOOLEAN /\ res' \in {SUCCESSED, FAILED}
<1>1. CASE Continue
  BY <1>1, FlashAssumption DEF Continue, FlashTypeOK
<1>2. CASE Fail
  <2>1. i' \in 0 .. PageWords /\ res' \in {SUCCESSED, FAILED}
    BY <1>2 DEF Fail, FlashTypeOK
  <2>2. busy' \in BOOLEAN
    BY <1>2 DEF Fail
  <2> QED
    BY <2>1, <2>2
<1> QED
  BY <1>1, <1>2

(* Each step of a driver function keeps the invariant.                     *)
LEMMA FlashStepInv ==
  ASSUME FlashInv, FlashStep
  PROVE  FlashInv'
<1> USE DEF FlashInv
<1>1. CASE WriteWord
  <2>1. page[i] \in Word
    BY <1>1, FlashAssumption DEF WriteWord, FlashTypeOK, Page, Index
  <2>2. flash' \in [Aprom -> Word]
    BY <1>1, <2>1, ProgrammedType DEF WriteWord, FMC_Write, FlashTypeOK
  <2>3. FlashTypeOK'
    <3>1. i' \in 0 .. PageWords /\ busy' \in BOOLEAN /\ res' \in {SUCCESSED, FAILED}
      BY <1>1, LoopType DEF WriteWord
    <3>2. ispff' \in BOOLEAN
      BY <1>1 DEF WriteWord, FMC_Write
    <3> QED
      BY <1>1, <2>2, <3>1, <3>2 DEF WriteWord, FlashTypeOK
  <2>4. ASSUME CommandOk(Cursor) PROVE dest + i <= USER_APP_END
    <3>1. dest + i < AddrSpace
      BY <1>1, SectionBounds, FlashAssumption
      DEF WriteCursor, WriteRunning, WriteWord, Running, FlashTypeOK, Address
    <3>2. Cursor = dest + i
      BY <3>1, CursorIsAddress DEF FlashTypeOK
    <3> QED
      BY <2>4, <3>2, SectionBounds DEF CommandOk, Programmable, Aprom
  <2>5. WriteCursor'
    BY <1>1, <2>4, SectionBounds, FlashAssumption
    DEF WriteCursor, WriteWord, Continue, Fail, FlashTypeOK, Address,
        SUCCESSED, FAILED
  <2>6. WriteRunning'
    BY <1>1 DEF WriteRunning, Running, WriteWord, Continue, Fail
  <2> QED
    BY <1>1, <2>3, <2>5, <2>6 DEF EraseCursor, WriteWord, Running
<1>2. CASE ReadWord
  <2>1. PICK w \in Word : FMC_Read(Cursor, w) /\ page' = [page EXCEPT ![i] = w]
    BY <1>2 DEF ReadWord
  <2>2. page' \in Page
    BY <2>1 DEF FlashTypeOK, Page
  <2>3. FlashTypeOK'
    <3>1. i' \in 0 .. PageWords /\ busy' \in BOOLEAN /\ res' \in {SUCCESSED, FAILED}
      BY <1>2, LoopType DEF ReadWord
    <3>2. ispff' \in BOOLEAN /\ flash' = flash
      BY <2>1 DEF FMC_Read, FlashTypeOK
    <3> QED
      BY <1>2, <2>2, <3>1, <3>2 DEF ReadWord, FlashTypeOK
  <2> QED
    BY <1>2, <2>3
    DEF ReadWord, Running, EraseCursor, WriteCursor, WriteRunning
<1>3. CASE VerifyWord
  <2>1. FlashTypeOK'
    <3>1. i' \in 0 .. PageWords /\ busy' \in BOOLEAN /\ res' \in {SUCCESSED, FAILED}
      BY <1>3, LoopType DEF VerifyWord
    <3>2. ispff' \in BOOLEAN /\ flash' = flash
      BY <1>3 DEF VerifyWord, FMC_Read, FlashTypeOK
    <3> QED
      BY <1>3, <3>1, <3>2 DEF VerifyWord, FlashTypeOK
  <2> QED
    BY <1>3, <2>1
    DEF VerifyWord, Running, EraseCursor, WriteCursor, WriteRunning
<1>4. CASE EraseBlock
  <2>1. BlockStart(dest) /\ dest <= USER_APP_END
    BY <1>4 DEF EraseBlock, EraseCursor, Running
  <2>2. BlockStart(dest + BlockWords) /\ dest + BlockWords \in Address
    BY <2>1, BlockInSection
  <2>3. flash' \in [Aprom -> Word]
    BY <1>4, BlockErasedType DEF EraseBlock, FMC_Erase_Block, FlashTypeOK
  <2>4. FlashTypeOK'
    BY <1>4, <2>2, <2>3 DEF EraseBlock, FMC_Erase_Block, FlashTypeOK
  <2>5. EraseCursor'
    BY <1>4, <2>2 DEF EraseBlock, EraseCursor, BlockStart
  <2> QED
    BY <1>4, <2>4, <2>5 DEF EraseBlock, Running, WriteCursor, WriteRunning
<1>5. CASE Return
  BY <1>5 DEF Return, FlashTypeOK, EraseCursor, BlockStart, WriteCursor,
              WriteRunning, Running
<1> QED
  BY <1>1, <1>2, <1>3, <1>4, <1>5, FlashStep DEF FlashStep

(* An ISP command cut short leaves a flash.                                *)
LEMMA InterruptedType ==
  ASSUME FlashTypeOK, NEW f, Interrupted(f)
  PROVE  f \in [Aprom -> Word]
<1>1. CASE f = flash
  BY <1>1 DEF FlashTypeOK
<1>2. ASSUME NEW w \in Word, f = Programmed(flash, Cursor, w)
      PROVE  f \in [Aprom -> Word]
  BY <1>2, ProgrammedType DEF FlashTypeOK
<1>3. ASSUME NEW g \in [Block(dest) -> Word],
             f = [x \in Aprom |-> IF x \in Block(dest) THEN g[x] ELSE flash[x]]
      PROVE  f \in [Aprom -> Word]
  BY <1>3 DEF FlashTypeOK
<1> QED
  BY <1>1, <1>2, <1>3 DEF Interrupted

(* A call that is over leaves the initial values of its variables.         *)
LEMMA NoCallInv ==
  ASSUME NoCall, flash' \in [Aprom -> Word], ispff' \in BOOLEAN, apuen' \in BOOLEAN
  PROVE  FlashInv'
<1>1. page' \in Page
  BY DEF NoCall, Page, Word
<1>2. dest' \in Address /\ i' \in 0 .. PageWords
  BY SectionBounds, FlashAssumption DEF NoCall, Address
<1>3. busy' \in BOOLEAN
  BY DEF NoCall
<1>4. op' \in Op /\ res' \in {SUCCESSED, FAILED} /\ before' \in [Aprom -> Word]
  BY DEF NoCall, Op
<1>5. FlashTypeOK'
  BY <1>1, <1>2, <1>3, <1>4 DEF FlashTypeOK
<1> QED
  BY <1>5 DEF FlashInv, NoCall, EraseCursor, WriteCursor, WriteRunning, Running

LEMMA FlashPowerLossInv ==
  ASSUME FlashInv, FlashPowerLoss
  PROVE  FlashInv'
<1>1. flash' \in [Aprom -> Word]
  BY InterruptedType DEF FlashInv, FlashPowerLoss
<1>2. ispff' \in BOOLEAN /\ apuen' \in BOOLEAN
  BY DEF FlashPowerLoss
<1> QED
  BY <1>1, <1>2, NoCallInv DEF FlashPowerLoss

LEMMA ForgetInv ==
  ASSUME FlashInv, Forget
  PROVE  FlashInv'
<1>1. flash' \in [Aprom -> Word] /\ ispff' \in BOOLEAN /\ apuen' \in BOOLEAN
  BY DEF FlashInv, FlashTypeOK, Forget
<1> QED
  BY <1>1, NoCallInv DEF Forget

LEMMA EnableInv ==
  ASSUME FlashInv, APROM_update_enable
  PROVE  FlashInv'
BY DEF FlashInv, APROM_update_enable, FlashTypeOK, EraseCursor, BlockStart,
       WriteCursor, WriteRunning, Running

-----------------------------------------------------------------------------
(* The bootloader section.                                                 *)

(* The cursor of a running page write has not wrapped.                     *)
LEMMA WriteCursorExact ==
  ASSUME FlashInv, WriteWord
  PROVE  Cursor = dest + i /\ res = SUCCESSED
<1>1. res = SUCCESSED
  BY DEF FlashInv, WriteRunning, WriteWord
<1>2. dest + i < AddrSpace
  BY <1>1, SectionBounds, FlashAssumption
  DEF FlashInv, WriteCursor, WriteWord, Running, FlashTypeOK, Address
<1> QED
  BY <1>1, <1>2, CursorIsAddress DEF FlashInv, FlashTypeOK

Untouched == \A a \in Bootloader : flash'[a] = flash[a]

\* The bootloader section is a part of the APROM that misses the application.
LEMMA Sections ==
  Bootloader \subseteq Aprom /\ App \subseteq Aprom /\ Bootloader \cap App = {}
BY SectionBounds DEF Bootloader, Aprom, App

LEMMA FlashStepUntouched ==
  ASSUME FlashInv, WriteGuarded, FlashStep
  PROVE  Untouched
<1>1. CASE WriteWord
  <2>1. Cursor = dest + i
    BY <1>1, WriteCursorExact
  <2>2. Cursor \notin Bootloader
    BY <1>1, <2>1, SectionBounds, FlashAssumption
    DEF WriteGuarded, WriteWord, Running, FlashInv, FlashTypeOK, Address, Bootloader
  <2> QED
    BY <1>1, <2>2, Sections
    DEF Untouched, WriteWord, FMC_Write, Programmed, FlashInv, FlashTypeOK
<1>2. CASE ReadWord \/ VerifyWord \/ Return
  BY <1>2 DEF Untouched, ReadWord, VerifyWord, Return, FMC_Read
<1>3. CASE EraseBlock
  <2>1. Block(dest) \subseteq App
    BY <1>3, BlockInSection DEF EraseBlock, Running, FlashInv, EraseCursor
  <2> QED
    BY <1>3, <2>1, Sections
    DEF Untouched, EraseBlock, FMC_Erase_Block, BlockErased
<1> QED
  BY <1>1, <1>2, <1>3, FlashStep DEF FlashStep

LEMMA PowerLossUntouched ==
  ASSUME FlashInv, WriteGuarded, FlashPowerLoss
  PROVE  Untouched
<1>1. Interrupted(flash')
  BY DEF FlashPowerLoss
<1>2. CASE flash' = flash
  BY <1>2 DEF Untouched
<1>3. ASSUME Running("write"), i < PageWords,
             NEW w \in Word, flash' = Programmed(flash, Cursor, w)
      PROVE  Untouched
  <2>1. dest + i < AddrSpace
    BY <1>3, SectionBounds, FlashAssumption
    DEF FlashInv, WriteCursor, WriteRunning, Running, FlashTypeOK, Address
  <2>2. Cursor = dest + i
    BY <2>1, CursorIsAddress DEF FlashInv, FlashTypeOK
  <2>3. Cursor \notin Bootloader
    BY <1>3, <2>2, SectionBounds, FlashAssumption
    DEF WriteGuarded, Running, FlashInv, FlashTypeOK, Address, Bootloader
  <2> QED
    BY <1>3, <2>3, Sections DEF Untouched, Programmed, FlashInv, FlashTypeOK
<1>4. ASSUME Running("erase"), dest <= USER_APP_END, NEW g,
             flash' = [x \in Aprom |-> IF x \in Block(dest) THEN g[x] ELSE flash[x]]
      PROVE  Untouched
  <2>1. Block(dest) \subseteq App
    BY <1>4, BlockInSection DEF Running, FlashInv, EraseCursor
  <2> QED
    BY <1>4, <2>1, Sections DEF Untouched
<1> QED
  BY <1>1, <1>2, <1>3, <1>4 DEF Interrupted

-----------------------------------------------------------------------------
(* What the calls do.                                                      *)

LEMMA PageProgrammedNext ==
  ASSUME NEW f \in [Aprom -> Word], NEW a \in Address, NEW pg \in Page,
         NEW n \in Index
  PROVE  PageProgrammed(f, a, pg, n + 1) =
           IF a + n \in Aprom
           THEN Programmed(PageProgrammed(f, a, pg, n), a + n, pg[n])
           ELSE PageProgrammed(f, a, pg, n)
<1>1. \A x \in Aprom : x \in a .. a + (n + 1) - 1 <=> x \in a .. a + n - 1 \/ x = a + n
  BY SectionBounds, FlashAssumption DEF Aprom, Address, Index
<1>2. a + n \notin a .. a + n - 1 /\ (a + n) - a = n
  BY FlashAssumption DEF Address, Index
<1> QED
  BY <1>1, <1>2 DEF PageProgrammed, Programmed

LEMMA PageProgrammedNone ==
  ASSUME NEW f \in [Aprom -> Word], NEW a \in Address, NEW pg \in Page
  PROVE  PageProgrammed(f, a, pg, 0) = f
<1>1. a .. a + 0 - 1 = {}
  BY DEF Address
<1> QED
  BY <1>1 DEF PageProgrammed

\* The controller is enabled while a function runs.
Enabled == busy => apuen

LEMMA WriteExactStep ==
  ASSUME FlashInv, WriteExact, FlashStep
  PROVE  WriteExact'
<1>1. CASE WriteWord
  <2>1. Cursor = dest + i /\ res = SUCCESSED /\ op = "write" /\ i \in Index
    BY <1>1, WriteCursorExact, FlashAssumption
    DEF WriteWord, Running, FlashInv, FlashTypeOK, Index
  <2>2. /\ flash = PageProgrammed(before, dest, page, i)
        /\ op' = "write" /\ UNCHANGED <<dest, page, before>>
    BY <1>1, <2>1 DEF WriteWord, WriteExact
  <2>3. PageProgrammed(before, dest, page, i + 1) =
          IF Cursor \in Aprom THEN Programmed(flash, Cursor, page[i]) ELSE flash
    BY <2>1, <2>2, PageProgrammedNext DEF FlashInv, FlashTypeOK
  <2>4. CASE CommandOk(Cursor)
    <3>1. flash' = PageProgrammed(before, dest, page, i + 1) /\ Cursor \in Aprom
      BY <1>1, <2>3, <2>4 DEF WriteWord, FMC_Write, CommandOk, Programmable
    <3>2. i' = i + 1 /\ res' = SUCCESSED /\ busy' /\ i + 1 > 0
      BY <1>1, <2>1, <2>4, FlashAssumption
      DEF WriteWord, Continue, Running, Index
    <3>3. dest + (i + 1) - 1 <= USER_APP_END
      BY <2>1, <3>1, FlashAssumption DEF Aprom, FlashInv, FlashTypeOK, Address, Index
    <3> QED
      BY <2>2, <3>1, <3>2, <3>3 DEF WriteExact, SUCCESSED, FAILED
  <2>5. CASE ~CommandOk(Cursor)
    <3>1. i' = i /\ res' = FAILED
      BY <1>1, <2>5 DEF WriteWord, Fail
    <3>2. flash' = PageProgrammed(before, dest, page, i)
            \/ flash' = PageProgrammed(before, dest, page, i + 1)
      BY <1>1, <2>2, <2>3 DEF WriteWord, FMC_Write, Programmable
    <3> QED
      BY <2>2, <3>1, <3>2 DEF WriteExact, SUCCESSED, FAILED
  <2> QED
    BY <2>4, <2>5
<1>2. CASE ReadWord \/ VerifyWord \/ EraseBlock
  BY <1>2 DEF ReadWord, VerifyWord, EraseBlock, Running, WriteExact
<1>3. CASE Return
  <2>1. UNCHANGED <<flash, op, dest, i, page, res, before>>
    BY <1>3 DEF Return
  <2>2. op = "write" => i = PageWords
    BY <1>3 DEF Return
  <2> QED
    BY <2>1, <2>2 DEF WriteExact, PageProgrammed
<1> QED
  BY <1>1, <1>2, <1>3, FlashStep DEF FlashStep

LEMMA EraseCompleteStep ==
  ASSUME FlashInv, Enabled, EraseComplete, FlashStep
  PROVE  EraseComplete'
<1>1. CASE EraseBlock
  <2>1. BlockStart(dest) /\ dest <= USER_APP_END /\ op = "erase" /\ busy
    BY <1>1 DEF EraseBlock, Running, FlashInv, EraseCursor
  <2>2. dest \in App /\ Block(dest) \subseteq App
    BY <2>1, BlockInSection
  <2>3. flash' = BlockErased(flash, dest)
    BY <1>1, <2>1, <2>2, Sections
    DEF EraseBlock, FMC_Erase_Block, Programmable, Enabled
  <2>4. /\ op' = "erase" /\ dest' = dest + BlockWords
        /\ busy' /\ before' = before
    BY <1>1, <2>1 DEF EraseBlock
  <2>5. ASSUME NEW x \in Aprom
        PROVE  x \in USER_APP_START .. (dest + BlockWords) - 1
                 <=> x \in USER_APP_START .. dest - 1 \/ x \in Block(dest)
    BY <2>2, SectionBounds, FlashAssumption DEF Aprom, App, Block
  <2>6. ASSUME NEW x \in Aprom
        PROVE  flash[x] = IF x \in USER_APP_START .. dest - 1 THEN Erased ELSE before[x]
    BY <2>1 DEF EraseComplete
  <2> QED
    BY <2>3, <2>4, <2>5, <2>6 DEF EraseComplete, BlockErased
<1>2. CASE WriteWord \/ ReadWord \/ VerifyWord
  BY <1>2 DEF ReadWord, VerifyWord, WriteWord, Running, EraseComplete
<1>3. CASE Return
  <2>1. UNCHANGED <<flash, op, dest, before>>
    BY <1>3 DEF Return
  <2>2. op = "erase" => dest = USER_APP_END + 1
    <3> SUFFICES ASSUME op = "erase" PROVE dest = USER_APP_END + 1
      OBVIOUS
    <3>1. BlockStart(dest) /\ dest > USER_APP_END
      BY <1>3 DEF Return, FlashInv, EraseCursor
    <3>2. PICK k \in 0 .. AppBlocks : dest = USER_APP_START + k * BlockWords
      BY <3>1 DEF BlockStart
    <3>3. k * BlockWords <= AppBlocks * BlockWords
      BY <3>2, FlashAssumption
    <3>4. k * BlockWords \in Nat /\ AppBlocks * BlockWords \in Nat
      BY <3>2, FlashAssumption
    <3> QED
      BY <3>1, <3>2, <3>3, <3>4, FlashAssumption DEF USER_APP_END
  <2> QED
    BY <2>1, <2>2 DEF EraseComplete
<1> QED
  BY <1>1, <1>2, <1>3, FlashStep DEF FlashStep

LEMMA CallExact ==
  ASSUME FlashTypeOK, NEW f \in Op \ {"none"}, NEW a \in Address, NEW pg \in Page,
         f = "erase" => a = USER_APP_START, Call(f, a, pg)
  PROVE  WriteExact' /\ EraseComplete'
<1>1. flash' = flash /\ before' = flash /\ i' = 0 /\ res' = SUCCESSED /\ busy'
  BY DEF Call
<1>2. PageProgrammed(flash, a, pg, 0) = flash
  BY PageProgrammedNone DEF FlashTypeOK
<1>3. WriteExact'
  BY <1>1, <1>2 DEF WriteExact, Call, SUCCESSED, FAILED
<1>4. USER_APP_START .. USER_APP_START - 1 = {}
  BY SectionBounds
<1> QED
  BY <1>1, <1>3, <1>4 DEF EraseComplete, Call

-----------------------------------------------------------------------------
(* The theorems of the driver on its own.                                  *)

FlashIInv == FlashInv /\ WriteGuarded /\ Enabled /\ WriteExact /\ EraseComplete

LEMMA FlashIInvInit == FlashInit => FlashIInv
<1> SUFFICES ASSUME FlashInit PROVE FlashIInv
  OBVIOUS
<1>1. FlashInv /\ WriteGuarded
  BY FlashInitInv
<1> QED
  BY <1>1 DEF FlashInit, FlashIInv, Enabled, WriteExact, EraseComplete

\* Every call of the driver is a Call whose arguments are in range.
LEMMA AnyCallIsCall ==
  ASSUME FlashTypeOK, AnyCall
  PROVE  \E f \in Op \ {"none"}, a \in Address, pg \in Page :
           /\ Call(f, a, pg)
           /\ f = "write" => a >= USER_APP_START
           /\ f = "erase" => a = USER_APP_START
<1>1. page \in Page
  BY DEF FlashTypeOK
<1>2. USER_APP_START \in Address
  BY SectionBounds, FlashAssumption DEF Address
<1>3. \A f \in {"write", "read", "verify", "erase"} : f \in Op \ {"none"}
  BY DEF Op
<1>4. CASE flash_erase_app_all
  BY <1>1, <1>2, <1>3, <1>4 DEF flash_erase_app_all
<1>5. CASE \E a \in Address : flash_read_app_page(a)
  BY <1>1, <1>3, <1>5 DEF flash_read_app_page
<1>6. ASSUME NEW a \in Address, NEW pg \in Page, flash_verify_app_page(a, pg)
      PROVE  Call("verify", a, pg)
  BY <1>6 DEF flash_verify_app_page
<1>7. ASSUME NEW a \in Address, NEW pg \in Page, flash_write_app_page(a, pg)
      PROVE  Call("write", a, pg)
  BY <1>7 DEF flash_write_app_page
<1> QED
  BY <1>3, <1>4, <1>5, <1>6, <1>7 DEF AnyCall

LEMMA FlashIInvStep ==
  ASSUME FlashIInv, [FlashNext]_flashVars
  PROVE  FlashIInv' /\ Untouched
<1> USE DEF FlashIInv
<1>1. CASE AnyCall
  <2>1. PICK f \in Op \ {"none"}, a \in Address, pg \in Page :
          /\ Call(f, a, pg)
          /\ f = "write" => a >= USER_APP_START
          /\ f = "erase" => a = USER_APP_START
    BY <1>1, AnyCallIsCall DEF FlashInv
  <2>2. FlashInv'
    BY <2>1, CallInv
  <2>3. WriteExact' /\ EraseComplete'
    BY <2>1, CallExact DEF FlashInv
  <2>4. apuen' /\ WriteGuarded'
    BY <1>1, <2>1 DEF AnyCall, Call, WriteGuarded
  <2>5. Untouched
    BY <2>1 DEF Call, Untouched
  <2> QED
    BY <2>2, <2>3, <2>4, <2>5 DEF Enabled
<1>2. CASE FlashStep
  <2>1. FlashInv' /\ Untouched
    BY <1>2, FlashStepInv, FlashStepUntouched
  <2>2. WriteExact' /\ EraseComplete'
    BY <1>2, WriteExactStep, EraseCompleteStep
  <2>3. apuen' = apuen /\ op' = op /\ (busy' => busy) /\ (op = "write" => dest' = dest)
    BY <1>2 DEF FlashStep, WriteWord, ReadWord, VerifyWord, EraseBlock, Return,
                Running, Continue, Fail
  <2>4. Enabled' /\ WriteGuarded'
    BY <2>3 DEF Enabled, WriteGuarded
  <2> QED
    BY <2>1, <2>2, <2>4
<1>3. CASE APROM_update_enable
  <2>1. FlashInv'
    BY <1>3, EnableInv
  <2>2. Enabled'
    BY <1>3 DEF APROM_update_enable, Enabled
  <2>3. WriteGuarded' /\ WriteExact' /\ EraseComplete' /\ Untouched
    BY <1>3 DEF APROM_update_enable, WriteGuarded, WriteExact, EraseComplete,
                PageProgrammed, Untouched
  <2> QED
    BY <2>1, <2>2, <2>3
<1>4. CASE FlashPowerLoss
  <2>1. FlashInv' /\ Untouched
    BY <1>4, FlashPowerLossInv, PowerLossUntouched
  <2>2. busy' = FALSE /\ op' = "none"
    BY <1>4 DEF FlashPowerLoss, NoCall
  <2>3. Enabled' /\ WriteGuarded' /\ WriteExact' /\ EraseComplete'
    BY <2>2 DEF Enabled, WriteGuarded, WriteExact, EraseComplete
  <2> QED
    BY <2>1, <2>3
<1>5. CASE Forget
  <2>1. FlashInv'
    BY <1>5, ForgetInv
  <2>2. busy' = FALSE /\ op' = "none" /\ flash' = flash
    BY <1>5 DEF Forget, NoCall
  <2> QED
    BY <2>1, <2>2 DEF Enabled, WriteGuarded, WriteExact, EraseComplete, Untouched
<1>6. CASE UNCHANGED flashVars
  BY <1>6 DEF flashVars, FlashInv, FlashTypeOK, EraseCursor, BlockStart,
     WriteCursor, WriteRunning, WriteGuarded, Enabled, WriteExact,
     EraseComplete, PageProgrammed, Untouched, Running
<1> QED
  BY <1>1, <1>2, <1>3, <1>4, <1>5, <1>6 DEF FlashNext

LEMMA FlashIInvariant == FlashSpec => []FlashIInv
<1>1. FlashIInv /\ [FlashNext]_flashVars => FlashIInv'
  BY FlashIInvStep
<1> QED
  BY <1>1, FlashIInvInit, PTL DEF FlashSpec

(* The driver's variables keep their types.                                *)
THEOREM FlashTypeCorrect == FlashSpec => []FlashTypeOK
<1>1. FlashIInv => FlashTypeOK
  BY DEF FlashIInv, FlashInv
<1> QED
  BY <1>1, FlashIInvariant, PTL

(* A page write programs exactly the words before its index, all of them   *)
(* in the section: the whole page when it reports a success.               *)
THEOREM FlashWritesExact == FlashSpec => []WriteExact
<1>1. FlashIInv => WriteExact
  BY DEF FlashIInv
<1> QED
  BY <1>1, FlashIInvariant, PTL

(* An erase leaves every word of the section erased, even when it fails,   *)
(* and no other word.                                                      *)
THEOREM FlashErasesComplete == FlashSpec => []EraseComplete
<1>1. FlashIInv => EraseComplete
  BY DEF FlashIInv
<1> QED
  BY <1>1, FlashIInvariant, PTL

(* No call with a guarded address, and no power failure in one, changes    *)
(* the bootloader section, wherever the address wraps.                     *)
THEOREM BootloaderSafe == FlashSpec => BootloaderIntact
<1>1. FlashIInv /\ [FlashNext]_flashVars =>
        [\A a \in Bootloader : flash'[a] = flash[a]]_flashVars
  BY FlashIInvStep DEF Untouched
<1> QED
  BY <1>1, FlashIInvariant, PTL DEF FlashSpec, BootloaderIntact
-----------------------------------------------------------------------------
(* What a refused page write and a read leave.                             *)

(* A write that has done a word, or failed, has cleared the fail flag; one *)
(* whose page is in the section fails at its first word or not at all.     *)
Refusal ==
  op = "write" =>
    /\ i > 0 \/ res = FAILED => ~ispff
    /\ (res = FAILED /\ dest + PageWords - 1 <= USER_APP_END) => i = 0

(* The words before the index have been read.                              *)
ReadSoFar ==
  op \in {"read", "verify"} =>
    /\ flash = before
    /\ res = SUCCESSED =>
         /\ \A k \in 0 .. i - 1 : dest + k \in Aprom => page[k] = flash[dest + k]
         /\ ~busy => i = PageWords

LEMMA RefusalStep ==
  ASSUME FlashIInv, Refusal, FlashStep
  PROVE  Refusal'
<1> USE DEF FlashIInv
<1>1. CASE WriteWord
  <2>0. /\ op = "write" /\ op' = "write" /\ dest' = dest
        /\ ~ispff' /\ busy /\ i < PageWords
    BY <1>1 DEF WriteWord, Running, FMC_Write
  <2>a. Cursor = dest + i /\ res = SUCCESSED
    BY <1>1, WriteCursorExact
  <2>b. i \in Nat /\ dest \in Nat
    BY FlashAssumption DEF FlashInv, FlashTypeOK, Address
  <2>1. /\ Cursor = dest + i /\ op = "write" /\ op' = "write" /\ dest' = dest
        /\ ~ispff' /\ busy /\ i \in Nat /\ i < PageWords /\ dest \in Nat
    BY <2>0, <2>a, <2>b
  <2>2. CASE CommandOk(Cursor)
    BY <1>1, <2>1, <2>2, WriteCursorExact DEF WriteWord, Continue, Refusal,
       SUCCESSED, FAILED
  <2>3. CASE ~CommandOk(Cursor)
    <3>1. i' = i
      BY <1>1, <2>3 DEF WriteWord, Fail
    <3>2. dest + PageWords - 1 <= USER_APP_END => Cursor \in Aprom
      BY <2>1, SectionBounds, FlashAssumption DEF Aprom
    <3>3. Cursor \in Aprom => ispff
      BY <2>1, <2>3 DEF CommandOk, Programmable, Enabled
    <3>4. ispff => i = 0
      BY <2>1 DEF Refusal
    <3> QED
      BY <2>1, <3>1, <3>2, <3>3, <3>4 DEF Refusal
  <2> QED
    BY <2>2, <2>3
<1>2. CASE ReadWord \/ VerifyWord \/ EraseBlock
  BY <1>2 DEF ReadWord, VerifyWord, EraseBlock, Running, Refusal
<1>3. CASE Return
  BY <1>3 DEF Return, Refusal
<1> QED
  BY <1>1, <1>2, <1>3, FlashStep DEF FlashStep

LEMMA ReadSoFarStep ==
  ASSUME FlashIInv, ReadSoFar, FlashStep
  PROVE  ReadSoFar'
<1> USE DEF FlashIInv
<1>0. /\ i \in Nat /\ dest \in Nat /\ page \in Page
      /\ dest + i \in Aprom => Cursor = dest + i
  <2>1. i \in Nat /\ dest \in Nat /\ page \in Page
    BY FlashAssumption DEF FlashInv, FlashTypeOK, Address
  <2>2. dest + i \in Aprom => dest + i < AddrSpace
    BY SectionBounds, FlashAssumption DEF Aprom
  <2> QED
    BY <2>1, <2>2, CursorIsAddress DEF FlashInv, FlashTypeOK
<1>1. CASE ReadWord
  <2>1. PICK w \in Word : FMC_Read(Cursor, w) /\ page' = [page EXCEPT ![i] = w]
    BY <1>1 DEF ReadWord
  <2>2. /\ i < PageWords /\ i' = i + 1 /\ flash' = flash
        /\ busy' = TRUE /\ op = "read" /\ UNCHANGED <<op, dest, before, res>>
    BY <1>1, <2>1 DEF ReadWord, Running, Continue, FMC_Read, FlashInv, FlashTypeOK
  <2>3. i \in Index
    BY <1>0, <2>2, FlashAssumption DEF Index
  <2>4. page'[i] = w /\ \A k \in Index : k # i => page'[k] = page[k]
    BY <1>0, <2>1, <2>3 DEF Page
  <2>5. dest + i \in Aprom => w = flash[dest + i]
    BY <1>0, <2>1 DEF FMC_Read
  <2>6. ASSUME res = SUCCESSED, NEW k \in 0 .. (i + 1) - 1, dest + k \in Aprom
        PROVE  page'[k] = flash[dest + k]
    <3>1. k = i \/ (k \in 0 .. i - 1 /\ k \in Index /\ k # i)
      BY <1>0, <2>3, FlashAssumption DEF Index
    <3> QED
      BY <2>2, <2>4, <2>5, <2>6, <3>1 DEF ReadSoFar
  <2> QED
    BY <2>2, <2>6 DEF ReadSoFar
<1>2. CASE VerifyWord
  <2>1. PICK w \in Word : FMC_Read(Cursor, w) /\ IF w = page[i] THEN Continue ELSE Fail
    BY <1>2 DEF VerifyWord
  <2>2. /\ i < PageWords /\ flash' = flash /\ busy /\ op = "verify"
        /\ UNCHANGED <<op, dest, before, page>>
    BY <1>2, <2>1 DEF VerifyWord, Running, FMC_Read
  <2>3. dest + i \in Aprom => w = flash[dest + i]
    BY <1>0, <2>1 DEF FMC_Read
  <2>4. CASE w = page[i]
    <3>1. i' = i + 1 /\ UNCHANGED <<busy, res>>
      BY <2>1, <2>4 DEF Continue
    <3>2. ASSUME res = SUCCESSED, NEW k \in 0 .. (i + 1) - 1, dest + k \in Aprom
          PROVE  page[k] = flash[dest + k]
      <4>1. k = i \/ k \in 0 .. i - 1
        BY <1>0
      <4> QED
        BY <2>2, <2>3, <2>4, <3>2, <4>1 DEF ReadSoFar
    <3> QED
      BY <2>2, <3>1, <3>2 DEF ReadSoFar
  <2>5. CASE w # page[i]
    <3>1. res' = FAILED
      BY <2>1, <2>5 DEF Fail
    <3> QED
      BY <2>2, <3>1 DEF ReadSoFar, SUCCESSED, FAILED
  <2> QED
    BY <2>4, <2>5
<1>3. CASE WriteWord \/ EraseBlock
  BY <1>3 DEF WriteWord, EraseBlock, Running, ReadSoFar
<1>4. CASE Return
  BY <1>4 DEF Return, ReadSoFar
<1> QED
  BY <1>1, <1>2, <1>3, <1>4, FlashStep DEF FlashStep

LEMMA RefusalReadNext ==
  ASSUME FlashIInv, Refusal, ReadSoFar, [FlashNext]_flashVars
  PROVE  Refusal' /\ ReadSoFar'
<1>1. CASE AnyCall
  <2>1. PICK f \in Op \ {"none"}, a \in Address, pg \in Page : Call(f, a, pg)
    BY <1>1, AnyCallIsCall DEF FlashIInv, FlashInv
  <2>2. /\ i' = 0 /\ res' = SUCCESSED /\ busy' = TRUE
        /\ flash' = flash /\ before' = flash
    BY <2>1 DEF Call
  <2> QED
    BY <2>2 DEF Refusal, ReadSoFar, SUCCESSED, FAILED
<1>2. CASE FlashStep
  BY <1>2, RefusalStep, ReadSoFarStep
<1>3. CASE Forget \/ FlashPowerLoss
  <2>1. op' = "none"
    BY <1>3 DEF Forget, FlashPowerLoss, NoCall
  <2> QED
    BY <2>1 DEF Refusal, ReadSoFar
<1>4. CASE APROM_update_enable
  BY <1>4 DEF APROM_update_enable, Refusal, ReadSoFar
<1>5. CASE UNCHANGED flashVars
  BY <1>5 DEF flashVars, Refusal, ReadSoFar
<1> QED
  BY <1>1, <1>2, <1>3, <1>4, <1>5 DEF FlashNext

LEMMA RefusalReadInvariant == FlashSpec => [](FlashIInv /\ Refusal /\ ReadSoFar)
<1>1. FlashInit => Refusal /\ ReadSoFar
  BY DEF FlashInit, Refusal, ReadSoFar
<1>2. FlashIInv /\ Refusal /\ ReadSoFar /\ [FlashNext]_flashVars =>
        Refusal' /\ ReadSoFar'
  BY RefusalReadNext
<1> QED
  BY <1>1, <1>2, FlashIInvariant, PTL DEF FlashSpec

(* A page in the section is refused only for the fail flag of an earlier   *)
(* command, before its first word, and the refusal clears the flag.        *)
THEOREM RefusalsHeal == FlashSpec => []RefusalHeals
<1>1. Refusal => RefusalHeals
  BY DEF Refusal, RefusalHeals
<1> QED
  BY <1>1, RefusalReadInvariant, PTL

(* What a page read or verify returns as a success is what the flash holds.*)
THEOREM ReadsExact == FlashSpec => []ReadExact
<1>1. ASSUME FlashIInv, ReadSoFar PROVE ReadExact
  <2> SUFFICES ASSUME op \in {"read", "verify"}, ~busy, res = SUCCESSED,
                      NEW k \in Index, dest + k \in Aprom
               PROVE  page[k] = flash[dest + k]
    BY <1>1 DEF ReadSoFar, ReadExact
  <2>1. i = PageWords
    BY <1>1 DEF ReadSoFar
  <2>2. k \in 0 .. i - 1
    BY <2>1 DEF Index
  <2> QED
    BY <1>1, <2>2 DEF ReadSoFar
<1> QED
  BY <1>1, RefusalReadInvariant, PTL
=============================================================================
