-------------------------- MODULE BootLoaderProofs --------------------------
(***************************************************************************)
(* The boot loader for every size of the flash and every set of records    *)
(* that meet FlashAssumption and RecordAssumption.                         *)
(*                                                                         *)
(* The second half is about boot_from_fs() for every content of /boot:     *)
(* what it has copied at each point, and that a copy that did not succeed  *)
(* shows on the LED.                                                       *)
(***************************************************************************)
EXTENDS BootLoader, AppFlashProofs, SequenceTheorems

-----------------------------------------------------------------------------
(* The inductive invariant.                                                *)

\* The page write of the driver, as a record.
Written == [addr |-> dest, data |-> page]

(* Which call of the driver is open at each point of the program.          *)
Control ==
  /\ pc \notin {"off", "app"} => apuen
  /\ pc \notin FlashCall => op = "none" /\ ~busy
  /\ pc \in {"flash:write", "boot:write"} => op = "write" /\ Written \in begun
  /\ pc = "flash:write" => dest >= USER_APP_START
  /\ pc \in {"flash:erase", "boot:erase"} => op = "erase" /\ acked = {} /\ ~erased
  /\ pc = "flash:read" => op = "read"

(* What an open file holds.                                                *)
Files ==
  /\ mode = "write" => pend = sent
  /\ pc \in {"fopen:format", "fopen:remove", "fopen:open"} =>
       mode = "closed" /\ sent = <<>>
  /\ pc = "fopen:open" => disk = <<>>
  /\ pc \in {"boot:read", "boot:write"} => mode = "read"
  /\ pc \in {"fopen:mount", "boot:erase", "boot:mount"} => leaked < MaxLeaked

BootIInv ==
  /\ TypeOK /\ FlashInv /\ WriteExact /\ EraseComplete
  /\ Control /\ Files
  /\ AckedBitsStay /\ NoStrayBits /\ CommittedWhole

-----------------------------------------------------------------------------
(* The internal flash.                                                     *)

(* What an action of the boot loader may be for the flash driver.          *)
DriverCall ==
  \E f \in Op \ {"none"}, a \in Address, pg \in Page :
     (f = "erase" => a = USER_APP_START) /\ Call(f, a, pg)

DriverMove ==
  \/ UNCHANGED flashVars
  \/ DriverCall
  \/ FlashStep
  \/ Forget
  \/ APROM_update_enable
  \/ FlashPowerLoss

LEMMA RecordFields ==
  ASSUME NEW r \in Record
  PROVE  r.addr \in Address /\ r.data \in Page /\ r = [addr |-> r.addr, data |-> r.data]
BY RecordAssumption

LEMMA OpNames == \A f \in {"write", "read", "verify", "erase"} : f \in Op \ {"none"}
BY DEF Op

LEMMA StartIsAddress == USER_APP_START \in Address
BY SectionBounds, FlashAssumption DEF Address

(* A record that is read from an open file is a record.                    *)
LEMMA FileRecord ==
  ASSUME NEW f \in File, NEW n \in Nat, n < Len(f)
  PROVE  f[n + 1] \in Record
<1>1. PICK m \in 0 .. MaxFile : f \in [1 .. m -> Record]
  BY DEF File
<1>2. Len(f) = m
  BY <1>1, RecordAssumption
<1> QED
  BY <1>1, <1>2, RecordAssumption

LEMMA PacketMove ==
  ASSUME BootIInv, Packet
  PROVE  UNCHANGED flashVars \/ DriverCall
<1>1. ASSUME NEW c \in Command, Connect(c) \/ Inert(c) \/ Assert(c)
      PROVE  UNCHANGED flashVars
  BY <1>1 DEF Connect, Inert, Assert, Quiet
<1>2. ASSUME NEW r \in Record, FlashWriteRefused(r) \/ ExtWrite(r)
      PROVE  UNCHANGED flashVars
  BY <1>2 DEF FlashWriteRefused, ExtWrite, Quiet
<1>3. ASSUME NEW r \in Record, FlashWrite(r)
      PROVE  DriverCall
  BY <1>3, RecordFields, OpNames DEF FlashWrite, flash_write_app_page, DriverCall
<1>4. page \in Page
  BY DEF BootIInv, FlashInv, FlashTypeOK
<1>5. ASSUME NEW a \in Address, FlashRead(a)
      PROVE  DriverCall
  BY <1>4, <1>5, OpNames DEF FlashRead, flash_read_app_page, DriverCall
<1>6. CASE FlashEraseAll \/ ExtBoot
  BY <1>4, <1>6, OpNames, StartIsAddress
  DEF FlashEraseAll, ExtBoot, flash_erase_app_all, DriverCall
<1>7. CASE ProgEnd \/ ExtFopen \/ ExtFclose
  BY <1>7 DEF ProgEnd, ExtFopen, ExtFclose, Quiet
<1> QED
  BY <1>1, <1>2, <1>3, <1>5, <1>6, <1>7 DEF Packet

LEMMA StepMove ==
  ASSUME BootIInv, Step
  PROVE  UNCHANGED flashVars \/ DriverCall \/ FlashStep \/ Forget
<1>1. CASE DriverStep
  BY <1>1 DEF DriverStep
<1>2. CASE FlashReply \/ BootErased \/ BootWritten
  BY <1>2 DEF FlashReply, BootErased, BootWritten
<1>3. CASE Mount \/ Format \/ FopenRemove \/ FopenOpen \/ BootOpen
  BY <1>3 DEF Mount, Format, FopenRemove, FopenOpen, BootOpen, FsInner, FsStep
<1>4. CASE BootRead
  <2>1. pend \in File /\ pos \in Nat /\ pos < Len(pend)
    BY <1>4, RecordAssumption DEF BootRead, BootIInv, TypeOK, FsTypeOK
  <2>2. pend[pos + 1] \in Record
    BY <2>1, FileRecord
  <2>3. Call("write", pend[pos + 1].addr, pend[pos + 1].data)
    BY <1>4 DEF BootRead, flash_write_app_page
  <2>4. pend[pos + 1].addr \in Address /\ pend[pos + 1].data \in Page
    BY <2>2, RecordFields
  <2> QED
    BY <2>3, <2>4, OpNames DEF DriverCall
<1>5. CASE BootClose \/ BootAck
  BY <1>5 DEF BootClose, BootAck, Quiet
<1> QED
  BY <1>1, <1>2, <1>3, <1>4, <1>5 DEF Step

LEMMA NextMove ==
  ASSUME BootIInv, Next
  PROVE  DriverMove
<1>1. CASE PowerOn
  BY <1>1 DEF PowerOn, DriverMove
<1>2. CASE PowerLoss
  BY <1>2 DEF PowerLoss, DriverMove
<1> QED
  BY <1>1, <1>2, PacketMove, StepMove DEF Next, DriverMove

\* The controller is enabled while the driver runs.
LEMMA ControlEnabled == Control => Enabled
BY DEF Control, Enabled, FlashCall

LEMMA FlashPart ==
  ASSUME BootIInv, [Next]_vars
  PROVE  FlashInv' /\ WriteExact' /\ EraseComplete'
<1> USE DEF BootIInv
<1>1. CASE UNCHANGED flashVars
  BY <1>1 DEF flashVars, FlashInv, FlashTypeOK, EraseCursor, BlockStart,
     WriteCursor, WriteRunning, WriteExact, EraseComplete, PageProgrammed, Running
<1>2. CASE DriverCall
  <2>1. PICK f \in Op \ {"none"}, a \in Address, pg \in Page :
          (f = "erase" => a = USER_APP_START) /\ Call(f, a, pg)
    BY <1>2 DEF DriverCall
  <2> QED
    BY <2>1, CallInv, CallExact DEF FlashInv
<1>3. CASE FlashStep
  BY <1>3, FlashStepInv, WriteExactStep, EraseCompleteStep, ControlEnabled
<1>4. CASE Forget
  <2>1. op' = "none"
    BY <1>4 DEF Forget, NoCall
  <2> QED
    BY <1>4, <2>1, ForgetInv DEF WriteExact, EraseComplete
<1>5. CASE APROM_update_enable
  <2>1. FlashInv'
    BY <1>5, EnableInv
  <2> QED
    BY <1>5, <2>1 DEF APROM_update_enable, WriteExact, EraseComplete, PageProgrammed
<1>6. CASE FlashPowerLoss
  <2>1. op' = "none"
    BY <1>6 DEF FlashPowerLoss, NoCall
  <2> QED
    BY <1>6, <2>1, FlashPowerLossInv DEF WriteExact, EraseComplete
<1>7. UNCHANGED vars => UNCHANGED flashVars
  BY DEF vars
<1> QED
  BY <1>1, <1>2, <1>3, <1>4, <1>5, <1>6, <1>7, NextMove DEF DriverMove

-----------------------------------------------------------------------------
(* The types of the other variables.                                       *)

LEMMA EmptyFile == <<>> \in File
<1>1. <<>> \in [1 .. 0 -> Record] /\ 0 \in 0 .. MaxFile
  BY RecordAssumption
<1> QED
  BY <1>1 DEF File

LEMMA FileAppend ==
  ASSUME NEW f \in File, Len(f) < MaxFile, NEW r \in Record
  PROVE  Append(f, r) \in File
<1>1. PICK m \in 0 .. MaxFile : f \in [1 .. m -> Record]
  BY DEF File
<1>2. Len(f) = m /\ f \in Seq(Record)
  BY <1>1, RecordAssumption
<1>3. Append(f, r) \in [1 .. m + 1 -> Record]
  <2>1. Append(f, r) \in Seq(Record) /\ Len(Append(f, r)) = m + 1
    BY <1>2, AppendProperties
  <2>2. Append(f, r) \in [1 .. Len(Append(f, r)) -> Record]
    BY <2>1, LenProperties
  <2> QED
    BY <2>1, <2>2
<1>4. m + 1 \in 0 .. MaxFile
  BY <1>1, <1>2, RecordAssumption
<1> QED
  BY <1>3, <1>4 DEF File

(* The actions that leave the file system alone.                           *)
FsIdle ==
  \/ PowerOn
  \/ \E c \in Command : Connect(c) \/ Inert(c) \/ Assert(c)
  \/ \E r \in Record : FlashWriteRefused(r) \/ FlashWrite(r)
  \/ \E a \in Address : FlashRead(a)
  \/ ProgEnd \/ FlashEraseAll \/ ExtFopen \/ ExtBoot
  \/ DriverStep \/ FlashReply \/ BootErased \/ BootWritten \/ BootAck

LEMMA FsIdleUnchanged ==
  ASSUME FsIdle
  PROVE  UNCHANGED fsVars
BY FsIdle DEF FsIdle, PowerOn, Connect, Inert, Assert, FlashWriteRefused,
   FlashWrite, FlashRead, ProgEnd, FlashEraseAll, ExtFopen, ExtBoot, DriverStep,
   FlashReply, BootErased, BootWritten, BootAck, Quiet

FsBusy ==
  \/ PowerLoss \/ ExtFclose \/ Mount \/ Format \/ FopenRemove \/ FopenOpen
  \/ BootOpen \/ BootRead \/ BootClose
  \/ \E r \in Record : ExtWrite(r)

LEMMA NextFs == Next => FsIdle \/ FsBusy
BY DEF Next, Packet, Step, FsIdle, FsBusy

LEMMA FsType ==
  ASSUME BootIInv, Next
  PROVE  FsTypeOK'
<1>0. FsTypeOK
  BY DEF BootIInv, TypeOK
<1>1. CASE FsIdle
  BY <1>0, <1>1, FsIdleUnchanged DEF fsVars, FsTypeOK
<1>2. CASE PowerLoss
  BY <1>0, <1>2, EmptyFile, RecordAssumption DEF PowerLoss, FsPowerLoss, FsTypeOK
<1>3. CASE ExtFclose \/ BootClose
  BY <1>0, <1>3, EmptyFile, RecordAssumption
  DEF ExtFclose, BootClose, lfs_file_close, FsTypeOK
<1>4. CASE Mount
  <2>1. leaked < MaxLeaked
    BY <1>4 DEF Mount, BootIInv, Files
  <2> QED
    BY <1>0, <1>4, <2>1, EmptyFile, RecordAssumption DEF Mount, lfs_mount, FsTypeOK
<1>5. CASE Format \/ FopenRemove
  BY <1>0, <1>5, EmptyFile DEF Format, FopenRemove, lfs_format, lfs_remove, FsTypeOK
<1>6. CASE FopenOpen \/ BootOpen
  BY <1>0, <1>6, RecordAssumption DEF FopenOpen, BootOpen, lfs_file_open, FsTypeOK
<1>7. CASE BootRead
  <2>1. PICK m \in 0 .. MaxFile : pend \in [1 .. m -> Record]
    BY <1>0 DEF FsTypeOK, File
  <2>2. pos + 1 \in 0 .. MaxFile
    BY <1>0, <1>7, <2>1, RecordAssumption DEF BootRead, FsTypeOK
  <2> QED
    BY <1>0, <1>7, <2>2 DEF BootRead, lfs_file_read, FsTypeOK
<1>8. ASSUME NEW r \in Record, ExtWrite(r)
      PROVE  FsTypeOK'
  BY <1>0, <1>8, FileAppend DEF ExtWrite, lfs_file_append, FsTypeOK
<1> QED
  BY <1>1, <1>2, <1>3, <1>4, <1>5, <1>6, <1>7, <1>8, NextFs DEF FsBusy

LEMMA FilesPart ==
  ASSUME BootIInv, Next
  PROVE  Files' /\ CommittedWhole'
<1> USE DEF BootIInv
<1>1. CASE FsIdle
  <2>1. UNCHANGED fsVars
    BY <1>1, FsIdleUnchanged
  <2>2. UNCHANGED <<sent, closed>>
    BY <1>1 DEF FsIdle, PowerOn, Connect, Inert, Assert, FlashWriteRefused,
       FlashWrite, FlashRead, ProgEnd, FlashEraseAll, ExtFopen, ExtBoot,
       DriverStep, FlashReply, BootErased, BootWritten, BootAck, Quiet, history
  <2>3. pc' \notin {"fopen:format", "fopen:remove", "fopen:open"} \/ pc' = pc
    BY <1>1 DEF FsIdle, PowerOn, Connect, Inert, Assert, FlashWriteRefused,
       FlashWrite, FlashRead, ProgEnd, FlashEraseAll, ExtFopen, ExtBoot,
       DriverStep, FlashReply, BootErased, BootWritten, BootAck, bootVars
  <2>4. pc' \in {"boot:read", "boot:write"} => pc \in {"boot:read", "boot:write"}
    BY <1>1 DEF FsIdle, PowerOn, Connect, Inert, Assert, FlashWriteRefused,
       FlashWrite, FlashRead, ProgEnd, FlashEraseAll, ExtFopen, ExtBoot,
       DriverStep, FlashReply, BootErased, BootWritten, BootAck, bootVars
  <2>5. pc' \in {"fopen:mount", "boot:erase", "boot:mount"} =>
          pc \in {"fopen:mount", "boot:erase", "boot:mount"} \/ leaked < MaxLeaked
    BY <1>1 DEF FsIdle, PowerOn, Connect, Inert, Assert, FlashWriteRefused,
       FlashWrite, FlashRead, ProgEnd, FlashEraseAll, ExtFopen, ExtBoot,
       DriverStep, FlashReply, BootErased, BootWritten, BootAck, bootVars
  <2> QED
    BY <2>1, <2>2, <2>3, <2>4, <2>5 DEF Files, CommittedWhole, fsVars
<1>2. CASE PowerLoss
  BY <1>2 DEF PowerLoss, FsPowerLoss, Files, CommittedWhole
<1>3. CASE ExtFclose
  BY <1>3 DEF ExtFclose, lfs_file_close, Files, CommittedWhole
<1>4. CASE BootClose
  <2>1. mode = "read"
    BY <1>4 DEF BootClose, Files
  <2> QED
    BY <1>4, <2>1 DEF BootClose, lfs_file_close, Files, CommittedWhole, history
<1>5. CASE Mount
  BY <1>5 DEF Mount, lfs_mount, Files, CommittedWhole, FsStep
<1>6. CASE Format
  BY <1>6 DEF Format, lfs_format, Files, CommittedWhole, FsInner, FsStep
<1>7. CASE FopenRemove
  BY <1>7 DEF FopenRemove, lfs_remove, Files, CommittedWhole, FsInner, FsStep
<1>8. CASE FopenOpen
  BY <1>8 DEF FopenOpen, lfs_file_open, Files, CommittedWhole, FsStep
<1>9. CASE BootOpen
  BY <1>9 DEF BootOpen, lfs_file_open, Files, CommittedWhole, FsInner, FsStep
<1>10. CASE BootRead
  BY <1>10 DEF BootRead, lfs_file_read, Files, CommittedWhole
<1>11. ASSUME NEW r \in Record, ExtWrite(r)
       PROVE  Files' /\ CommittedWhole'
  BY <1>11 DEF ExtWrite, MayWrite, lfs_file_append, Files, CommittedWhole
<1> QED
  BY <1>1, <1>2, <1>3, <1>4, <1>5, <1>6, <1>7, <1>8, <1>9, <1>10, <1>11, NextFs
  DEF FsBusy

(* The program counter, the reply and the two flags.                       *)
LEMMA BootType ==
  ASSUME BootIInv, Next
  PROVE  /\ pc' \in Pc /\ reply' \in {ACK, NACK, OWED, NONE}
         /\ led' \in BOOLEAN /\ erased' \in BOOLEAN
<1> USE DEF BootIInv, TypeOK, ACK, NACK, OWED, NONE
<1>1. ASSUME NEW c \in Command, Connect(c) \/ Inert(c) \/ Assert(c)
      PROVE  pc' \in Pc /\ reply' \in {ACK, NACK, OWED, NONE} /\ led' = led /\ erased' = erased
  BY <1>1 DEF Connect, Inert, Assert, Reply, Accept, Quiet, Pc, Waiting
<1>2. ASSUME NEW r \in Record, FlashWriteRefused(r) \/ FlashWrite(r) \/ ExtWrite(r)
      PROVE  pc' \in Pc /\ reply' \in {ACK, NACK, OWED, NONE} /\ led' = led /\ erased' = erased
  BY <1>2 DEF FlashWriteRefused, FlashWrite, ExtWrite, Reply, Accept, Quiet, Pc,
     Waiting, FlashCall
<1>3. ASSUME NEW a \in Address, FlashRead(a)
      PROVE  pc' \in Pc /\ reply' \in {ACK, NACK, OWED, NONE} /\ led' = led /\ erased' = erased
  BY <1>3 DEF FlashRead, Accept, Pc, FlashCall
<1>4. CASE ProgEnd \/ FlashEraseAll \/ ExtFopen \/ ExtFclose \/ ExtBoot
  <2>1. pc' \in Pc /\ reply' \in {ACK, NACK, OWED, NONE}
    BY <1>4 DEF ProgEnd, FlashEraseAll, ExtFopen, ExtFclose, ExtBoot, Reply,
       Accept, Pc, Waiting, FlashCall
  <2>2. led' \in {led, TRUE} /\ erased' \in {erased, FALSE}
    BY <1>4 DEF ProgEnd, FlashEraseAll, ExtFopen, ExtFclose, ExtBoot, Quiet, history
  <2> QED
    BY <2>1, <2>2, Zenon
<1>5. CASE DriverStep \/ FlashReply
  <2>1. pc' \in Pc /\ reply' \in {ACK, NACK, OWED, NONE}
    BY <1>5 DEF DriverStep, FlashReply, Reply, bootVars, Pc, Waiting
  <2>2. led' = led /\ (erased' = erased \/ erased' = (erased \/ op = "erase"))
    BY <1>5 DEF DriverStep, FlashReply, bootVars, history
  <2> QED
    BY <2>1, <2>2, Zenon
<1>6. CASE Mount \/ Format \/ FopenRemove \/ FopenOpen \/ BootOpen \/ BootRead
  <2>1. pc' \in Pc /\ reply' \in {ACK, NACK, OWED, NONE}
    BY <1>6 DEF Mount, Format, FopenRemove, FopenOpen, BootOpen, BootRead, Reply,
       FsInner, Pc, Waiting, FlashCall
  <2>2. led' = led /\ erased' = erased
    BY <1>6 DEF Mount, Format, FopenRemove, FopenOpen, BootOpen, BootRead, FsInner, FsStep
  <2> QED
    BY <2>1, <2>2
<1>7. CASE BootErased \/ BootWritten \/ BootClose \/ BootAck
  <2>1. pc' \in Pc /\ reply' \in {ACK, NACK, OWED, NONE}
    BY <1>7 DEF BootErased, BootWritten, BootClose, BootAck, Reply, Pc, Waiting
  <2>2. led' \in {led, FALSE} /\ erased' \in {erased, TRUE}
    BY <1>7 DEF BootErased, BootWritten, BootClose, BootAck, Quiet, history
  <2> QED
    BY <2>1, <2>2, Zenon
<1>8. CASE PowerOn \/ PowerLoss
  <2>1. pc' \in Pc /\ reply' \in {ACK, NACK, OWED, NONE}
    BY <1>8 DEF PowerOn, PowerLoss, Pc, Waiting
  <2>2. led' \in {led, FALSE} /\ erased' = erased
    BY <1>8 DEF PowerOn, PowerLoss, history
  <2> QED
    BY <2>1, <2>2, Zenon
<1> QED
  BY <1>1, <1>2, <1>3, <1>4, <1>5, <1>6, <1>7, <1>8 DEF Next, Packet, Step

LEMMA HistoryType ==
  ASSUME BootIInv, Next
  PROVE  /\ acked' \in SUBSET Record /\ begun' \in SUBSET Record
         /\ sent' \in File /\ closed' \in File
<1> USE DEF BootIInv, TypeOK
<1>1. ASSUME NEW c \in Command, Connect(c) \/ Inert(c) \/ Assert(c)
      PROVE  UNCHANGED history
  BY <1>1 DEF Connect, Inert, Assert, Quiet, history
<1>2. ASSUME NEW r \in Record, FlashWriteRefused(r) \/ FlashWrite(r)
      PROVE  begun' \in {begun, begun \cup {r}} /\ UNCHANGED <<acked, sent, closed>>
  BY <1>2 DEF FlashWriteRefused, FlashWrite, Quiet
<1>3. ASSUME NEW r \in Record, ExtWrite(r)
      PROVE  sent' \in File /\ UNCHANGED <<acked, begun, closed>>
  <2>1. sent = pend /\ Len(sent) < MaxFile /\ sent' = Append(sent, r)
    BY <1>3 DEF ExtWrite, MayWrite, Files
  <2> QED
    BY <1>3, <2>1, FileAppend DEF ExtWrite
<1>4. ASSUME NEW a \in Address, FlashRead(a)
      PROVE  UNCHANGED history
  BY <1>4 DEF FlashRead, history
<1>5. CASE ProgEnd \/ FlashEraseAll \/ ExtFopen \/ ExtBoot
  <2>1. acked' \in {acked, {}} /\ UNCHANGED <<begun, sent, closed>>
    BY <1>5 DEF ProgEnd, FlashEraseAll, ExtFopen, ExtBoot, Quiet, history
  <2> QED
    BY <2>1
<1>6. CASE ExtFclose \/ PowerLoss \/ Mount
  <2>1. sent' = <<>> /\ closed' \in {sent, closed} /\ UNCHANGED <<acked, begun>>
    BY <1>6 DEF ExtFclose, PowerLoss, Mount, FsStep
  <2> QED
    BY <2>1, EmptyFile
<1>7. CASE FlashReply
  <2>1. op = "write" => Written \in begun
    <3>1. pc \in {"flash:write", "flash:read", "flash:erase"}
      BY <1>7 DEF FlashReply
    <3> QED
      BY <3>1 DEF Control
  <2>2. acked' = acked \/ (op = "write" /\ acked' = acked \cup {Written})
    BY <1>7 DEF FlashReply, Written
  <2>3. begun' \in {{}, begun} /\ UNCHANGED <<sent, closed>>
    BY <1>7 DEF FlashReply
  <2> QED
    BY <2>1, <2>2, <2>3
<1>8. CASE BootRead
  <2>1. pend \in File /\ pos \in Nat /\ pos < Len(pend)
    BY <1>8, RecordAssumption DEF BootRead, FsTypeOK
  <2>2. pend[pos + 1] \in Record
    BY <2>1, FileRecord
  <2> QED
    BY <1>8, <2>2 DEF BootRead
<1>9. CASE BootErased
  BY <1>9 DEF BootErased
<1>10. CASE Format \/ FopenRemove \/ FopenOpen \/ BootOpen \/ BootClose
  BY <1>10 DEF Format, FopenRemove, FopenOpen, BootOpen, BootClose, FsInner, FsStep, history
<1>11. CASE DriverStep \/ BootWritten \/ BootAck \/ PowerOn
  BY <1>11 DEF DriverStep, BootWritten, BootAck, PowerOn, Quiet, history
<1> QED
  BY <1>1, <1>2, <1>3, <1>4, <1>5, <1>6, <1>7, <1>8, <1>9, <1>10, <1>11
  DEF Next, Packet, Step, history

(* While the driver runs it keeps the arguments of its call.               *)
LEMMA FlashStepKeeps ==
  ASSUME FlashStep
  PROVE  /\ op' = op /\ apuen' = apuen /\ busy
         /\ op = "write" => dest' = dest /\ page' = page
BY DEF FlashStep, WriteWord, ReadWord, VerifyWord, EraseBlock, Return, Running

LEMMA ControlPart ==
  ASSUME BootIInv, Next
  PROVE  Control'
<1> USE DEF BootIInv
<1>1. ASSUME UNCHANGED <<op, busy, apuen>>, pc \notin FlashCall \cup {"off", "app"},
             pc' \notin FlashCall
      PROVE  Control'
  BY <1>1 DEF Control, FlashCall
<1>2. ASSUME NEW c \in Command, Connect(c) \/ Inert(c) \/ Assert(c)
      PROVE  Control'
  <2>1. pc \in Waiting /\ pc' \in Waiting \cup {"hung"} /\ UNCHANGED flashVars
    BY <1>2 DEF Connect, Inert, Assert, Quiet, Waiting
  <2> QED
    BY <1>1, <2>1 DEF Waiting, FlashCall, flashVars
<1>3. ASSUME NEW r \in Record, FlashWriteRefused(r) \/ ExtWrite(r)
      PROVE  Control'
  <2>1. pc = "command" /\ pc' = pc /\ UNCHANGED flashVars
    BY <1>3 DEF FlashWriteRefused, ExtWrite, Quiet
  <2> QED
    BY <1>1, <2>1 DEF FlashCall, flashVars
<1>4. CASE ProgEnd \/ ExtFopen \/ ExtFclose
  <2>1. pc = "command" /\ pc' \in {"connect", "command", "fopen:mount"} /\ UNCHANGED flashVars
    BY <1>4 DEF ProgEnd, ExtFopen, ExtFclose, Quiet
  <2> QED
    BY <1>1, <2>1 DEF FlashCall, flashVars
<1>5. CASE Mount \/ Format \/ FopenRemove \/ FopenOpen \/ BootOpen \/ BootClose \/ BootAck
  <2>1. UNCHANGED flashVars
    BY <1>5 DEF Mount, Format, FopenRemove, FopenOpen, BootOpen, BootClose, BootAck,
       FsInner, FsStep, Quiet
  <2>2. /\ pc \in {"fopen:mount", "boot:mount", "fopen:format", "boot:format",
                   "fopen:remove", "fopen:open", "boot:open", "boot:read", "boot:ack"}
        /\ pc' \in {"fopen:format", "fopen:remove", "boot:format", "boot:open",
                    "fopen:open", "command", "boot:read", "boot:ack"}
    BY <1>5 DEF Mount, Format, FopenRemove, FopenOpen, BootOpen, BootClose, BootAck
  <2> QED
    BY <1>1, <2>1, <2>2 DEF FlashCall, flashVars
<1>6. CASE PowerOn
  BY <1>6 DEF PowerOn, APROM_update_enable, Control, FlashCall, flashVars
<1>7. CASE PowerLoss
  BY <1>7 DEF PowerLoss, FlashPowerLoss, NoCall, Control, FlashCall
<1>8. ASSUME NEW r \in Record, FlashWrite(r)
      PROVE  Control'
  <2>1. /\ pc = "command" /\ pc' = "flash:write" /\ begun' = begun \cup {r}
        /\ r.addr >= USER_APP_START
        /\ op' = "write" /\ dest' = r.addr /\ page' = r.data /\ apuen' = apuen
    BY <1>8 DEF FlashWrite, flash_write_app_page, Call
  <2>2. Written' = r
    BY <2>1, RecordFields DEF Written
  <2> QED
    BY <2>1, <2>2 DEF Control, FlashCall
<1>9. CASE BootRead
  <2>1. pend \in File /\ pos \in Nat /\ pos < Len(pend)
    BY <1>9, RecordAssumption DEF BootRead, TypeOK, FsTypeOK
  <2>2. PICK r \in Record : r = pend[pos + 1]
    BY <2>1, FileRecord
  <2>3. /\ pc = "boot:read" /\ pc' = "boot:write" /\ begun' = begun \cup {r}
        /\ op' = "write" /\ dest' = r.addr /\ page' = r.data /\ apuen' = apuen
    BY <1>9, <2>2 DEF BootRead, flash_write_app_page, Call
  <2>4. Written' = r
    BY <2>3, RecordFields DEF Written
  <2> QED
    BY <2>3, <2>4 DEF Control, FlashCall
<1>10. ASSUME NEW a \in Address, FlashRead(a)
       PROVE  Control'
  BY <1>10 DEF FlashRead, flash_read_app_page, Call, Control, FlashCall
<1>11. CASE FlashEraseAll \/ ExtBoot
  BY <1>11 DEF FlashEraseAll, ExtBoot, flash_erase_app_all, Call, Control, FlashCall
<1>12. CASE DriverStep
  <2>1. UNCHANGED <<pc, acked, begun, erased, op, apuen>> /\ pc \in FlashCall
    BY <1>12, FlashStepKeeps DEF DriverStep, bootVars, history
  <2>2. op = "write" => dest' = dest /\ Written' = Written
    BY <1>12, FlashStepKeeps DEF DriverStep, Written
  <2> QED
    BY <2>1, <2>2 DEF Control, FlashCall
<1>13. CASE FlashReply \/ BootErased \/ BootWritten
  <2>1. pc \in FlashCall /\ pc' \in {"command", "boot:ack", "boot:mount", "boot:read"}
    BY <1>13 DEF FlashReply, BootErased, BootWritten, FlashCall
  <2>2. op' = "none" /\ ~busy' /\ apuen' = apuen
    BY <1>13 DEF FlashReply, BootErased, BootWritten, Forget, NoCall
  <2> QED
    BY <2>1, <2>2 DEF Control, FlashCall
<1> QED
  BY <1>2, <1>3, <1>4, <1>5, <1>6, <1>7, <1>8, <1>9, <1>10, <1>11, <1>12, <1>13
  DEF Next, Packet, Step

-----------------------------------------------------------------------------
(* What the application section holds.                                     *)

LEMMA ImageOfFewer ==
  ASSUME NEW S, NEW T, S \subseteq T, NEW a
  PROVE  Image(T, a) \subseteq Image(S, a)
BY DEF Image

LEMMA ImageInRecord ==
  ASSUME NEW S, NEW r \in S, NEW a, a - r.addr \in Index
  PROVE  Image(S, a) \subseteq r.data[a - r.addr]
BY DEF Image

(* Which page write is running, and that nothing is remembered while the   *)
(* section is erased.                                                      *)
LEMMA RunningWrite ==
  ASSUME Control, op = "write"
  PROVE  Written \in begun
BY DEF Control, FlashCall

LEMMA RunningErase ==
  ASSUME Control, op = "erase"
  PROVE  acked = {} /\ ~erased
BY DEF Control, FlashCall

\* f is flash after a part of the page write that is running.
PartlyWritten(f) ==
  \A a \in App : f[a] \subseteq flash[a] /\ flash[a] \cap Image(begun, a) \subseteq f[a]

LEMMA PartlyWrittenWord ==
  ASSUME BootIInv, Running("write"), i < PageWords, NEW f, NEW w \in Word,
         Cursor = dest + i, page[i] \subseteq w, f = Programmed(flash, Cursor, w)
  PROVE  PartlyWritten(f)
<1> USE DEF BootIInv
<1>1. Written \in begun
  BY RunningWrite DEF Running
<1>2. dest \in Int /\ i \in Index
  BY FlashAssumption DEF FlashInv, FlashTypeOK, Address, Index
<1>3. Written.addr = dest /\ Written.data = page
  BY DEF Written
<1> SUFFICES ASSUME NEW a \in App
             PROVE  f[a] \subseteq flash[a] /\ flash[a] \cap Image(begun, a) \subseteq f[a]
  BY DEF PartlyWritten
<1>4. a \in Aprom /\ flash \in [Aprom -> Word]
  BY Sections DEF FlashInv, FlashTypeOK
<1>5. CASE a = dest + i
  <2>1. a - dest = i
    BY <1>2, <1>5 DEF Index
  <2>2. Image(begun, a) \subseteq page[i]
    BY <1>1, <1>2, <1>3, <2>1, ImageInRecord
  <2>3. f[a] = flash[a] \cap w
    BY <1>4, <1>5 DEF Programmed
  <2> QED
    BY <2>2, <2>3
<1>6. CASE a # dest + i
  BY <1>4, <1>6 DEF Programmed
<1> QED
  BY <1>5, <1>6

LEMMA FlashStepPartly ==
  ASSUME BootIInv, FlashStep, op # "erase"
  PROVE  PartlyWritten(flash')
<1> USE DEF BootIInv
<1>1. CASE WriteWord
  <2>1. Cursor = dest + i
    BY <1>1, WriteCursorExact
  <2>2. page[i] \in Word /\ Running("write") /\ i < PageWords
    BY <1>1, FlashAssumption DEF WriteWord, FlashInv, FlashTypeOK, Page, Index
  <2>3. flash' = Programmed(flash, Cursor, page[i]) \/ flash' = flash
    BY <1>1 DEF WriteWord, FMC_Write
  <2>4. flash' = flash => PartlyWritten(flash')
    BY DEF PartlyWritten
  <2> QED
    BY <2>1, <2>2, <2>3, <2>4, PartlyWrittenWord
<1>2. CASE ReadWord \/ VerifyWord \/ Return
  BY <1>2 DEF ReadWord, VerifyWord, Return, FMC_Read, PartlyWritten
<1>3. ~EraseBlock
  BY DEF EraseBlock, Running
<1> QED
  BY <1>1, <1>2, <1>3 DEF FlashStep

LEMMA PowerLossPartly ==
  ASSUME BootIInv, FlashPowerLoss, op # "erase"
  PROVE  PartlyWritten(flash')
<1> USE DEF BootIInv
<1>1. CASE flash' = flash
  BY <1>1 DEF PartlyWritten
<1>2. ASSUME Running("write"), i < PageWords,
             NEW w \in Word, page[i] \subseteq w, flash' = Programmed(flash, Cursor, w)
      PROVE  PartlyWritten(flash')
  <2>1. res = SUCCESSED
    BY <1>2 DEF FlashInv, WriteRunning
  <2>2. dest + i < AddrSpace
    BY <1>2, <2>1, SectionBounds, FlashAssumption
    DEF FlashInv, WriteCursor, Running, FlashTypeOK, Address
  <2>3. Cursor = dest + i
    BY <2>2, CursorIsAddress DEF FlashInv, FlashTypeOK
  <2> QED
    BY <1>2, <2>3, PartlyWrittenWord
<1> QED
  BY <1>1, <1>2 DEF FlashPowerLoss, Interrupted, Running

(* A step that forgets an acknowledged write erases the section, and a     *)
(* step that clears a bit of the section has a write begun for it.         *)
LEMMA KeepsImage ==
  ASSUME BootIInv, PartlyWritten(flash'), acked' \subseteq acked,
         begun \subseteq begun', erased' => erased
  PROVE  AckedBitsStay' /\ NoStrayBits'
<1> USE DEF BootIInv
<1>1. ASSUME NEW a \in App
      PROVE  flash'[a] \subseteq Image(acked', a)
  <2>1. flash'[a] \subseteq flash[a] /\ flash[a] \subseteq Image(acked, a)
    BY <1>1 DEF PartlyWritten, AckedBitsStay
  <2>2. Image(acked, a) \subseteq Image(acked', a)
    BY ImageOfFewer
  <2> QED
    BY <2>1, <2>2
<1>2. ASSUME erased', NEW a \in App
      PROVE  Image(begun', a) \subseteq flash'[a]
  <2>1. Image(begun', a) \subseteq Image(begun, a)
    BY ImageOfFewer
  <2>2. Image(begun, a) \subseteq flash[a]
    BY <1>2 DEF NoStrayBits
  <2>3. flash[a] \cap Image(begun, a) \subseteq flash'[a]
    BY <1>2 DEF PartlyWritten
  <2> QED
    BY <2>1, <2>2, <2>3
<1> QED
  BY <1>1, <1>2 DEF AckedBitsStay, NoStrayBits

LEMMA SameFlash ==
  ASSUME flash' = flash
  PROVE  PartlyWritten(flash')
BY DEF PartlyWritten

(* The actions that program or erase nothing and complete no call.         *)
LEMMA QuietImage ==
  ASSUME BootIInv, Next, ~DriverStep, ~FlashReply, ~BootErased, ~PowerLoss
  PROVE  AckedBitsStay' /\ NoStrayBits'
<1>1. flash' = flash
  <2>1. UNCHANGED flashVars \/ DriverCall \/ PowerOn \/ BootWritten
    <3>1. Packet => UNCHANGED flashVars \/ DriverCall
      BY PacketMove
    <3>2. CASE Mount \/ Format \/ FopenRemove \/ FopenOpen \/ BootOpen \/ BootClose \/ BootAck
      BY <3>2 DEF Mount, Format, FopenRemove, FopenOpen, BootOpen, BootClose,
         BootAck, FsInner, FsStep, Quiet
    <3>3. CASE BootRead
      <4>1. ~Forget /\ ~FlashStep
        BY <3>3 DEF BootRead, flash_write_app_page, Call, Forget, NoCall, FlashStep,
           WriteWord, ReadWord, VerifyWord, EraseBlock, Return, Running
      <4> QED
        BY <3>3, <4>1, StepMove DEF Step
    <3> QED
      BY <3>1, <3>2, <3>3 DEF Next, Step
  <2>2. DriverCall => flash' = flash
    BY DEF DriverCall, Call
  <2>3. PowerOn \/ BootWritten => flash' = flash
    BY DEF PowerOn, APROM_update_enable, flashVars, BootWritten, Forget
  <2> QED
    BY <2>1, <2>2, <2>3 DEF flashVars
<1>2. acked' \subseteq acked /\ begun \subseteq begun' /\ (erased' => erased)
  <2>1. ASSUME NEW c \in Command, Connect(c) \/ Inert(c) \/ Assert(c)
        PROVE  UNCHANGED <<acked, begun, erased>>
    BY <2>1 DEF Connect, Inert, Assert, Quiet
  <2>2. ASSUME NEW r \in Record, FlashWriteRefused(r) \/ FlashWrite(r) \/ ExtWrite(r)
        PROVE  UNCHANGED <<acked, erased>> /\ begun \subseteq begun'
    BY <2>2 DEF FlashWriteRefused, FlashWrite, ExtWrite, Quiet
  <2>3. ASSUME NEW a \in Address, FlashRead(a)
        PROVE  UNCHANGED <<acked, begun, erased>>
    BY <2>3 DEF FlashRead
  <2>4. CASE ProgEnd \/ FlashEraseAll \/ ExtFopen \/ ExtFclose \/ ExtBoot
    BY <2>4 DEF ProgEnd, FlashEraseAll, ExtFopen, ExtFclose, ExtBoot, Quiet, history
  <2>5. CASE PowerOn \/ BootWritten \/ BootAck \/ BootRead \/ BootClose
    BY <2>5 DEF PowerOn, BootWritten, BootAck, BootRead, BootClose, Quiet, history
  <2>6. CASE Mount \/ Format \/ FopenRemove \/ FopenOpen \/ BootOpen
    BY <2>6 DEF Mount, Format, FopenRemove, FopenOpen, BootOpen, FsInner, FsStep
  <2> QED
    BY <2>1, <2>2, <2>3, <2>4, <2>5, <2>6 DEF Next, Packet, Step
<1> QED
  BY <1>1, <1>2, SameFlash, KeepsImage

\* What a completed erase leaves.
LEMMA AllErased ==
  ASSUME BootIInv, op = "erase", ~busy
  PROVE  \A a \in App : flash[a] = Bit
<1>1. dest = USER_APP_END + 1
  BY DEF BootIInv, EraseComplete
<1>2. ASSUME NEW a \in App
      PROVE  a \in Aprom /\ a \in USER_APP_START .. dest - 1
  BY <1>1, <1>2, SectionBounds DEF App, Aprom
<1> QED
  BY <1>2 DEF BootIInv, EraseComplete, Erased

LEMMA ImageInBit == \A S, a : Image(S, a) \subseteq Bit
BY DEF Image

LEMMA ErasedImage ==
  ASSUME BootIInv, op = "erase", ~busy, flash' = flash, acked' = acked
  PROVE  AckedBitsStay' /\ NoStrayBits'
<1>1. AckedBitsStay'
  BY DEF BootIInv, AckedBitsStay
<1>2. NoStrayBits'
  BY AllErased, ImageInBit DEF NoStrayBits
<1> QED
  BY <1>1, <1>2

\* What an acknowledged page write leaves.
LEMMA PageWritten ==
  ASSUME BootIInv, op = "write", ~busy, res = SUCCESSED, NEW a \in App,
         a - dest \in Index
  PROVE  flash[a] \subseteq page[a - dest]
<1>1. flash = PageProgrammed(before, dest, page, PageWords)
  BY DEF BootIInv, WriteExact
<1>2. a \in Aprom /\ a \in dest .. dest + PageWords - 1
  BY Sections, SectionBounds, FlashAssumption
  DEF Index, BootIInv, FlashInv, FlashTypeOK, Address, App
<1> QED
  BY <1>1, <1>2 DEF PageProgrammed

LEMMA ReplyImage ==
  ASSUME BootIInv, FlashReply
  PROVE  AckedBitsStay' /\ NoStrayBits'
<1> USE DEF BootIInv
<1>1. ~busy /\ flash' = flash
  BY DEF FlashReply, Forget
<1>2. CASE op = "erase"
  BY <1>1, <1>2, ErasedImage DEF FlashReply
<1>3. CASE op = "write" /\ res = SUCCESSED
  <2>1. acked' = acked \cup {Written} /\ begun' = begun /\ (erased' => erased)
    BY <1>3 DEF FlashReply, Written
  <2>2. NoStrayBits'
    BY <1>1, <2>1 DEF NoStrayBits
  <2>3. ASSUME NEW a \in App
        PROVE  flash[a] \subseteq Image(acked \cup {Written}, a)
    <3>1. flash[a] \subseteq Image(acked, a)
      BY DEF AckedBitsStay
    <3>2. a - dest \in Index => flash[a] \subseteq page[a - dest]
      BY <1>1, <1>3, PageWritten
    <3> QED
      BY <3>1, <3>2 DEF Image, Written
  <2> QED
    BY <1>1, <2>1, <2>2, <2>3 DEF AckedBitsStay
<1>4. CASE op # "erase" /\ ~(op = "write" /\ res = SUCCESSED)
  <2>1. acked' = acked /\ begun' = begun /\ (erased' => erased)
    BY <1>4 DEF FlashReply
  <2> QED
    BY <1>1, <2>1, SameFlash, KeepsImage
<1> QED
  BY <1>2, <1>3, <1>4

LEMMA ImagePart ==
  ASSUME BootIInv, Next
  PROVE  AckedBitsStay' /\ NoStrayBits'
<1>0. BootIInv /\ Control
  BY DEF BootIInv
<1>1. CASE DriverStep \/ PowerLoss
  <2>1. acked' = acked /\ begun' = begun /\ erased' = erased
    BY <1>1 DEF DriverStep, PowerLoss, history
  <2>2. CASE op = "erase"
    <3>1. acked' = {} /\ ~erased'
      BY <1>0, <2>1, <2>2, RunningErase
    <3>2. flash' \in [Aprom -> Word]
      BY <1>0, FlashPart DEF FlashInv, FlashTypeOK
    <3>3. \A a \in App : flash'[a] \subseteq Bit
      BY <3>2, Sections DEF Word
    <3> QED
      BY <3>1, <3>3 DEF AckedBitsStay, NoStrayBits, Image
  <2>3. CASE op # "erase"
    BY <1>1, <2>1, <2>3, FlashStepPartly, PowerLossPartly, KeepsImage
    DEF DriverStep, PowerLoss
  <2> QED
    BY <2>2, <2>3
<1>2. CASE FlashReply
  BY <1>2, ReplyImage
<1>3. CASE BootErased
  <2>1. op = "erase" /\ ~busy
    BY <1>0, <1>3 DEF BootErased, Control
  <2> QED
    BY <1>3, <2>1, ErasedImage DEF BootErased, Forget
<1> QED
  BY <1>1, <1>2, <1>3, QuietImage

-----------------------------------------------------------------------------
(* The theorems.                                                           *)

LEMMA BootInit == Init => BootIInv
<1> SUFFICES ASSUME Init PROVE BootIInv
  OBVIOUS
<1> USE DEF Init
<1>1. FlashInv /\ op = "none" /\ ~busy
  BY FlashInitInv DEF FlashInit
<1>2. FsTypeOK
  BY EmptyFile, RecordAssumption DEF FsInit, FsTypeOK
<1>3. TypeOK
  <2>1. led \in BOOLEAN /\ erased \in BOOLEAN
    OBVIOUS
  <2> QED
    BY <1>1, <1>2, <2>1, EmptyFile
    DEF TypeOK, FlashInv, Pc, ACK, NACK, OWED, NONE
<1>4. WriteExact /\ EraseComplete
  BY <1>1 DEF WriteExact, EraseComplete
<1>5. Control /\ Files /\ CommittedWhole
  BY <1>1 DEF Control, FlashCall, Files, FsInit, CommittedWhole
<1>6. AckedBitsStay /\ NoStrayBits
  BY <1>1, Sections DEF AckedBitsStay, NoStrayBits, Image, FlashInv, FlashTypeOK, Word
<1> QED
  BY <1>1, <1>3, <1>4, <1>5, <1>6 DEF BootIInv

LEMMA BootNext == BootIInv /\ [Next]_vars => BootIInv'
<1> SUFFICES ASSUME BootIInv, [Next]_vars PROVE BootIInv'
  OBVIOUS
<1>1. FlashInv' /\ WriteExact' /\ EraseComplete'
  BY FlashPart
<1>2. CASE Next
  <2>1. TypeOK'
    BY <1>1, <1>2, FsType, BootType, HistoryType DEF TypeOK, FlashInv
  <2> QED
    BY <1>1, <1>2, <2>1, ControlPart, FilesPart, ImagePart DEF BootIInv
<1>3. CASE UNCHANGED vars
  <2>1. TypeOK'
    BY <1>1, <1>3 DEF vars, bootVars, history, fsVars, BootIInv, TypeOK, FlashInv, FsTypeOK
  <2>2. Control' /\ Files' /\ CommittedWhole'
    BY <1>3 DEF vars, flashVars, bootVars, history, fsVars, BootIInv, Control, Files,
       CommittedWhole, Written
  <2>3. AckedBitsStay' /\ NoStrayBits'
    BY <1>3 DEF vars, flashVars, history, BootIInv, AckedBitsStay, NoStrayBits
  <2> QED
    BY <1>1, <2>1, <2>2, <2>3 DEF BootIInv
<1> QED
  BY <1>2, <1>3

LEMMA BootInvariant == Spec => []BootIInv
BY BootInit, BootNext, PTL DEF Spec

(* Every variable of the boot loader keeps its type.                       *)
THEOREM BootTypeCorrect == Spec => []TypeOK
<1>1. BootIInv => TypeOK
  BY DEF BootIInv
<1> QED
  BY <1>1, BootInvariant, PTL

(* Between two erases the application section keeps what the acknowledged  *)
(* page writes programmed, wherever the power failed.                      *)
THEOREM BootAckedBitsStay == Spec => []AckedBitsStay
<1>1. BootIInv => AckedBitsStay
  BY DEF BootIInv
<1> QED
  BY <1>1, BootInvariant, PTL

(* And it has no bit programmed that no page write which was begun since   *)
(* the erase has asked for.                                                *)
THEOREM BootNoStrayBits == Spec => []NoStrayBits
<1>1. BootIInv => NoStrayBits
  BY DEF BootIInv
<1> QED
  BY <1>1, BootInvariant, PTL

(* An upload to the file system is committed whole or not at all.          *)
THEOREM BootUploadWhole == Spec => []CommittedWhole
<1>1. BootIInv => CommittedWhole
  BY DEF BootIInv
<1> QED
  BY <1>1, BootInvariant, PTL

(* While the address of every page write is in the application section,    *)
(* the bootloader section is untouched.                                    *)
LEMMA MoveUntouched ==
  ASSUME BootIInv, WriteGuarded, [Next]_vars
  PROVE  \A a \in Bootloader : flash'[a] = flash[a]
<1>1. CASE UNCHANGED vars
  BY <1>1 DEF vars, flashVars
<1>2. CASE Next
  <2>1. DriverMove
    BY <1>2, NextMove
  <2>2. FlashStep \/ FlashPowerLoss => Untouched
    BY FlashStepUntouched, PowerLossUntouched DEF BootIInv
  <2>3. UNCHANGED flashVars \/ DriverCall \/ Forget \/ APROM_update_enable => Untouched
    BY DEF flashVars, DriverCall, Call, Forget, APROM_update_enable, Untouched
  <2> QED
    BY <2>1, <2>2, <2>3 DEF DriverMove, Untouched
<1> QED
  BY <1>1, <1>2

(* No command of the host, and no power failure, changes the bootloader    *)
(* section; only a record that boot_from_fs() takes from /boot can.        *)
THEOREM CommandsSafe == Spec => CommandsKeepBootloader
<1>1. ASSUME BootIInv, [Next]_vars, pc # "boot:write"
      PROVE  \A a \in Bootloader : flash'[a] = flash[a]
  <2>1. WriteGuarded
    BY <1>1 DEF WriteGuarded, BootIInv, Control, FlashCall
  <2> QED
    BY <1>1, <2>1, MoveUntouched
<1>2. BootIInv /\ [Next]_vars =>
        [pc # "boot:write" => \A a \in Bootloader : flash'[a] = flash[a]]_vars
  BY <1>1
<1> QED
  BY <1>2, BootInvariant, PTL DEF Spec, CommandsKeepBootloader

(* What flash.h asks of the caller is enough: as long as the records that  *)
(* are uploaded have addresses in the application section, the bootloader  *)
(* section never changes.                                                  *)
THEOREM AppRecordsSafe ==
  ASSUME \A r \in Record : r.addr >= USER_APP_START
  PROVE  Spec => BootloaderKept
<1>1. ASSUME BootIInv, [Next]_vars
      PROVE  \A a \in Bootloader : flash'[a] = flash[a]
  <2>1. op = "write" => Written \in Record
    BY <1>1, RunningWrite DEF BootIInv, TypeOK
  <2>2. WriteGuarded
    BY <2>1 DEF WriteGuarded, Written
  <2> QED
    BY <1>1, <2>2, MoveUntouched
<1>2. BootIInv /\ [Next]_vars => [\A a \in Bootloader : flash'[a] = flash[a]]_vars
  BY <1>1
<1> QED
  BY <1>2, BootInvariant, PTL DEF Spec, BootloaderKept

-----------------------------------------------------------------------------
(* boot_from_fs(): the inductive invariant.                                *)

\* The first n records of the open file.
FirstRecords(n) == {pend[k] : k \in 1 .. n}

\* The points of boot_from_fs() at which it has not returned.
Booting == {"boot:erase", "boot:mount", "boot:format", "boot:open",
            "boot:read", "boot:write"}

LedOn ==
  /\ pc \in Booting => led
  /\ mode = "read" => led

(* The records taken from /boot are those begun since the erase, and those *)
(* the driver is done with are programmed.                                 *)
Copied ==
  /\ pc \in {"boot:mount", "boot:format", "boot:open"} => erased /\ begun = {}
  /\ pc \in {"boot:read", "boot:write"} =>
       erased /\ pend = disk /\ begun = FirstRecords(pos)
  /\ pc = "boot:read" => \A a \in App : flash[a] \subseteq Image(FirstRecords(pos), a)
  /\ pc = "boot:write" =>
       /\ pos > 0 /\ Written = pend[pos]
       /\ \A a \in App : flash[a] \subseteq Image(FirstRecords(pos - 1), a)

InstallIInv == LedOn /\ Copied /\ BootInstalls

-----------------------------------------------------------------------------

LEMMA FirstRecordsNext ==
  ASSUME NEW n \in Nat
  PROVE  FirstRecords(n + 1) = FirstRecords(n) \cup {pend[n + 1]}
<1>1. 1 .. n + 1 = (1 .. n) \cup {n + 1}
  OBVIOUS
<1> QED
  BY <1>1 DEF FirstRecords

LEMMA ImageOfUnion ==
  ASSUME NEW S, NEW T, NEW a
  PROVE  Image(S \cup T, a) = Image(S, a) \cap Image(T, a)
BY DEF Image

\* The steps outside boot_from_fs().
LEMMA OutsideStep ==
  ASSUME InstallIInv, pc' \notin Booting \cup {"boot:ack"},
         mode' # "read" \/ (mode' = mode /\ led' = led)
  PROVE  InstallIInv'
BY DEF InstallIInv, LedOn, Copied, BootInstalls, Booting

LEMMA PacketInstall ==
  ASSUME BootIInv, InstallIInv, Packet
  PROVE  InstallIInv'
<1>1. ASSUME NEW c \in Command, Connect(c) \/ Inert(c) \/ Assert(c)
      PROVE  InstallIInv'
  <2>1. pc' \in Waiting \cup {"hung"} /\ mode' = mode /\ led' = led
    BY <1>1 DEF Connect, Inert, Assert, Quiet, fsVars, Waiting
  <2> QED
    BY <2>1, OutsideStep DEF Waiting, Booting
<1>2. ASSUME NEW r \in Record, FlashWriteRefused(r) \/ FlashWrite(r) \/ ExtWrite(r)
      PROVE  InstallIInv'
  <2>1. pc' \in {"command", "flash:write"} /\ mode' = mode /\ led' = led
    BY <1>2 DEF FlashWriteRefused, FlashWrite, ExtWrite, lfs_file_append, Quiet, fsVars
  <2> QED
    BY <2>1, OutsideStep DEF Booting
<1>3. ASSUME NEW a \in Address, FlashRead(a)
      PROVE  InstallIInv'
  <2>1. pc' = "flash:read" /\ mode' = mode /\ led' = led
    BY <1>3 DEF FlashRead, fsVars
  <2> QED
    BY <2>1, OutsideStep DEF Booting
<1>4. CASE ProgEnd \/ FlashEraseAll \/ ExtFopen
  <2>1. pc' \in {"connect", "flash:erase", "fopen:mount"} /\ mode' = mode /\ led' = led
    BY <1>4 DEF ProgEnd, FlashEraseAll, ExtFopen, Quiet, fsVars
  <2> QED
    BY <2>1, OutsideStep DEF Booting
<1>5. CASE ExtFclose
  <2>1. pc' = "command" /\ mode' = "closed"
    BY <1>5 DEF ExtFclose, lfs_file_close
  <2> QED
    BY <2>1, OutsideStep DEF Booting
<1>6. CASE ExtBoot
  BY <1>6 DEF ExtBoot, InstallIInv, LedOn, Copied, BootInstalls
<1> QED
  BY <1>1, <1>2, <1>3, <1>4, <1>5, <1>6 DEF Packet

-----------------------------------------------------------------------------
(* The steps of boot_from_fs().                                            *)

LEMMA BootReadInstall ==
  ASSUME BootIInv, InstallIInv, BootRead
  PROVE  InstallIInv'
<1> USE DEF BootIInv, InstallIInv
<1>1. /\ pc = "boot:read" /\ pc' = "boot:write" /\ pos' = pos + 1
      /\ UNCHANGED <<pend, disk, mode, led, erased>>
      /\ begun' = begun \cup {pend[pos + 1]}
      /\ Call("write", pend[pos + 1].addr, pend[pos + 1].data)
  BY DEF BootRead, lfs_file_read, flash_write_app_page
<1>2. pos \in Nat /\ pos < Len(pend) /\ pend \in File
  BY RecordAssumption DEF BootRead, TypeOK, FsTypeOK
<1>3. pend[pos + 1] \in Record
  BY <1>2, FileRecord
<1>4. Written' = pend[pos + 1] /\ flash' = flash
  BY <1>1, <1>3, RecordFields DEF Call, Written
<1>5. begun' = FirstRecords(pos + 1)
  BY <1>1, <1>2, FirstRecordsNext DEF Copied
<1>6. pos' - 1 = pos /\ pos' > 0
  BY <1>1, <1>2
<1>7. \A n : FirstRecords(n)' = FirstRecords(n)
  BY <1>1 DEF FirstRecords
<1>8. Copied'
  BY <1>1, <1>4, <1>5, <1>6, <1>7 DEF Copied, Image
<1>9. LedOn' /\ BootInstalls'
  BY <1>1 DEF LedOn, Booting, BootInstalls
<1> QED
  BY <1>8, <1>9

LEMMA DriverInstall ==
  ASSUME BootIInv, InstallIInv, DriverStep
  PROVE  InstallIInv'
<1> USE DEF BootIInv, InstallIInv
<1>1. /\ pc \in FlashCall /\ FlashStep
      /\ UNCHANGED <<pc, pend, pos, disk, mode, led, erased, begun>>
  BY DEF DriverStep, fsVars, bootVars, history
<1>2. LedOn' /\ BootInstalls'
  BY <1>1 DEF LedOn, FlashCall, BootInstalls
<1>3. CASE pc # "boot:write"
  BY <1>1, <1>2, <1>3 DEF Copied, FlashCall
<1>4. CASE pc = "boot:write"
  <2>1. op = "write"
    BY <1>4 DEF Control
  <2>2. PartlyWritten(flash')
    BY <1>1, <2>1, FlashStepPartly
  <2>3. Written' = Written
    BY <1>1, <2>1, FlashStepKeeps DEF Written
  <2>4. \A n : FirstRecords(n)' = FirstRecords(n)
    BY <1>1 DEF FirstRecords
  <2>5. ASSUME NEW a \in App
        PROVE  flash'[a] \subseteq Image(FirstRecords(pos - 1), a)
    BY <1>4, <2>2, <2>5 DEF PartlyWritten, Copied
  <2> QED
    BY <1>1, <1>2, <1>4, <2>3, <2>4, <2>5 DEF Copied, Image
<1> QED
  BY <1>2, <1>3, <1>4

LEMMA BootWrittenInstall ==
  ASSUME BootIInv, InstallIInv, BootWritten
  PROVE  InstallIInv'
<1> USE DEF BootIInv, InstallIInv
<1>1. /\ pc = "boot:write" /\ ~busy /\ flash' = flash
      /\ pc' = IF res = FAILED THEN "boot:ack" ELSE "boot:read"
      /\ UNCHANGED <<pend, pos, disk, mode, led, erased, begun>>
  BY DEF BootWritten, Forget, fsVars, history
<1>2. led
  BY <1>1 DEF LedOn, Booting
<1>3. LedOn' /\ BootInstalls'
  BY <1>1, <1>2 DEF LedOn, BootInstalls
<1>4. CASE res = FAILED
  BY <1>1, <1>3, <1>4 DEF Copied
<1>5. CASE res # FAILED
  <2>1. res = SUCCESSED /\ op = "write"
    BY <1>1, <1>5 DEF FlashInv, FlashTypeOK, Control
  <2>2. pos - 1 \in Nat /\ (pos - 1) + 1 = pos
    BY <1>1, RecordAssumption DEF Copied, TypeOK, FsTypeOK
  <2>3. FirstRecords(pos) = FirstRecords(pos - 1) \cup {Written}
    <3> HIDE DEF FirstRecords
    <3>1. FirstRecords((pos - 1) + 1) = FirstRecords(pos - 1) \cup {pend[(pos - 1) + 1]}
      BY <2>2, FirstRecordsNext
    <3> QED
      BY <1>1, <2>2, <3>1 DEF Copied
  <2>4. ASSUME NEW a \in App
        PROVE  flash[a] \subseteq Image(FirstRecords(pos), a)
    <3>1. flash[a] \subseteq Image(FirstRecords(pos - 1), a)
      BY <1>1 DEF Copied
    <3>2. flash[a] \subseteq Image({Written}, a)
      <4>1. a - dest \in Index => flash[a] \subseteq page[a - dest]
        BY <1>1, <2>1, PageWritten
      <4>2. flash[a] \subseteq Bit
        BY Sections DEF FlashInv, FlashTypeOK, Word
      <4> QED
        BY <4>1, <4>2 DEF Image, Written
    <3> QED
      BY <2>3, <3>1, <3>2, ImageOfUnion
  <2>5. FirstRecords(pos)' = FirstRecords(pos)
    BY <1>1 DEF FirstRecords
  <2> QED
    BY <1>1, <1>3, <1>5, <2>4, <2>5 DEF Copied, Image
<1> QED
  BY <1>4, <1>5

LEMMA BootCloseInstall ==
  ASSUME BootIInv, InstallIInv, BootClose
  PROVE  InstallIInv'
<1> USE DEF BootIInv, InstallIInv
<1>1. /\ pc = "boot:read" /\ pc' = "boot:ack" /\ pos = Len(pend)
      /\ mode' = "closed" /\ flash' = flash
      /\ disk' = IF mode = "write" THEN pend ELSE disk
  BY DEF BootClose, lfs_file_close, flashVars
<1>2. pend = disk /\ disk' = disk
  BY <1>1 DEF Copied
<1>3. begun = {disk[n] : n \in 1 .. Len(disk)} /\ begun = FirstRecords(pos) /\ erased
  BY <1>1, <1>2 DEF Copied, FirstRecords
<1>4. ASSUME NEW a \in App
      PROVE  flash[a] = Image(begun, a)
  <2>1. flash[a] \subseteq Image(begun, a)
    BY <1>1, <1>3 DEF Copied
  <2>2. Image(begun, a) \subseteq flash[a]
    BY <1>3 DEF NoStrayBits
  <2> QED
    BY <2>1, <2>2
<1>5. BootInstalls'
  BY <1>1, <1>2, <1>3, <1>4 DEF BootInstalls, Image
<1> QED
  BY <1>1, <1>5 DEF LedOn, Copied, Booting

LEMMA StepInstall ==
  ASSUME BootIInv, InstallIInv, Step
  PROVE  InstallIInv'
<1> USE DEF BootIInv, InstallIInv
<1>1. CASE FlashReply
  <2>1. pc' = "command" /\ mode' = mode /\ led' = led
    BY <1>1 DEF FlashReply, fsVars
  <2> QED
    BY <2>1, OutsideStep DEF Booting
<1>2. CASE Mount
  BY <1>2 DEF Mount, lfs_mount, FsStep, LedOn, Copied, BootInstalls, Booting
<1>3. CASE Format
  BY <1>3 DEF Format, lfs_format, FsInner, FsStep, LedOn, Copied, BootInstalls, Booting
<1>4. CASE FopenRemove
  <2>1. pc' = "fopen:open" /\ mode' = mode /\ led' = led
    BY <1>4 DEF FopenRemove, lfs_remove, FsInner, FsStep
  <2> QED
    BY <2>1, OutsideStep DEF Booting
<1>5. CASE FopenOpen
  <2>1. pc' = "command" /\ mode' = "write"
    BY <1>5 DEF FopenOpen, lfs_file_open
  <2> QED
    BY <2>1, OutsideStep DEF Booting
<1>6. CASE BootErased
  BY <1>6 DEF BootErased, fsVars, LedOn, Copied, BootInstalls, Booting
<1>7. CASE BootOpen
  <2>1. /\ pc = "boot:open" /\ pc' = "boot:read" /\ pend' = disk /\ pos' = 0
        /\ UNCHANGED <<flash, led, erased, begun, disk>>
    BY <1>7 DEF BootOpen, lfs_file_open, FsInner, FsStep, flashVars
  <2>2. FirstRecords(0)' = {}
    BY DEF FirstRecords
  <2>3. \A a \in App : flash[a] \subseteq Image({}, a)
    BY Sections DEF Image, FlashInv, FlashTypeOK, Word
  <2>4. Copied'
    BY <2>1, <2>2, <2>3 DEF Copied, Image
  <2> QED
    BY <2>1, <2>4 DEF LedOn, BootInstalls, Booting
<1>8. CASE BootAck
  <2>1. pc' = "command" /\ mode' = mode /\ led' = led
    BY <1>8 DEF BootAck, Quiet, fsVars
  <2> QED
    BY <2>1, OutsideStep DEF Booting
<1> QED
  BY <1>1, <1>2, <1>3, <1>4, <1>5, <1>6, <1>7, <1>8, BootReadInstall,
     BootWrittenInstall, BootCloseInstall, DriverInstall DEF Step

LEMMA NextInstall ==
  ASSUME BootIInv, InstallIInv, [Next]_vars
  PROVE  InstallIInv'
<1>1. CASE PowerOn
  <2>1. pc' \in {"connect", "app"} /\ mode' = mode /\ led' = led
    BY <1>1 DEF PowerOn, fsVars
  <2> QED
    BY <2>1, OutsideStep DEF Booting
<1>2. CASE PowerLoss
  <2>1. pc' = "off" /\ mode' = "closed"
    BY <1>2 DEF PowerLoss, FsPowerLoss
  <2> QED
    BY <2>1, OutsideStep DEF Booting
<1>3. CASE UNCHANGED vars
  BY <1>3 DEF vars, flashVars, fsVars, bootVars, history, InstallIInv, LedOn, Copied,
     BootInstalls, FirstRecords, Written, Image
<1> QED
  BY <1>1, <1>2, <1>3, PacketInstall, StepInstall DEF Next

LEMMA InstallInit == Init => InstallIInv
BY DEF Init, FsInit, InstallIInv, LedOn, Copied, BootInstalls, Booting

LEMMA InstallInvariant == Spec => [](BootIInv /\ InstallIInv)
<1>1. BootIInv /\ InstallIInv /\ [Next]_vars => InstallIInv'
  BY NextInstall
<1> QED
  BY <1>1, InstallInit, BootInvariant, PTL DEF Spec

-----------------------------------------------------------------------------
(* The theorems.                                                           *)

(* When boot_from_fs() ends with the LED off, the application section is   *)
(* the image of /boot, whatever the records are, however they overlap, and *)
(* wherever the power failed before.                                       *)
THEOREM BootInstallsCorrect == Spec => []BootInstalls
<1>1. InstallIInv => BootInstalls
  BY DEF InstallIInv
<1> QED
  BY <1>1, InstallInvariant, PTL

(* A boot that gave up half-way and left /boot open shows on the LED.      *)
THEOREM BootFailureShown == Spec => []FailureShown
<1>1. InstallIInv => FailureShown
  BY DEF InstallIInv, LedOn, FailureShown
<1> QED
  BY <1>1, InstallInvariant, PTL
=============================================================================
