----------------------------- MODULE BootLoader -----------------------------
(***************************************************************************)
(* The boot loader: main(), the command interpreter and boot_from_fs() of  *)
(* src/Core, on the internal flash (AppFlash) and the file system of the   *)
(* external flash (BootFs).                                                *)
(*                                                                         *)
(* There is one thread and no interrupt.  A handler that calls the flash   *)
(* driver or commits to the file system takes several steps, and the power *)
(* may fail between any two.  The host is whoever sends the next packet;   *)
(* a packet that get_packet() rejects is a packet that never came.         *)
(***************************************************************************)
EXTENDS AppFlash, BootFs

ASSUME RecordAssumption ==
  /\ Record \subseteq [addr : Address, data : Page]
  /\ MaxFile \in Nat /\ MaxLeaked \in Nat

VARIABLES
  pc,        \* where the program is
  reply,     \* the status byte last sent, or OWED since a packet is accepted
  led,       \* the boot LED is on
  acked,     \* history: page writes acknowledged since an erase was begun
  begun,     \* history: page writes begun since an erase was completed
  erased,    \* history: an erase was completed and none was begun since
  sent,      \* history: records acknowledged while /boot was open
  closed     \* history: what sent was when FCLOSE was acknowledged last

history == <<acked, begun, erased, sent, closed>>
bootVars == <<pc, reply, led>>
vars == <<flashVars, fsVars, bootVars, history>>

ACK  == "ack"
NACK == "nack"
OWED == "owed"
NONE == "none"

\* Commands answered at once, without an effect, with a fixed reply.
Query   == {"CHK_PROTOCOL", "CHK_DEVICE", "GET_PGSZ", "SET_PGSZ"}
Refused == {"SET_PGSZ", "FLASH_VERIFY", "FLASH_ERASE_SECTOR", "EEPROM_VERIFY",
            "EEPROM_ERASE_SECTOR", "UNKNOWN"}
Ignored == {"EXT_READ", "EXT_VERIFY", "EXT_ERASE_SECTOR", "EXT_HEX_DEL",
            "EEPROM_SET_PGSZ", "EEPROM_GET_PGSZ", "EEPROM_WRITE",
            "EEPROM_READ", "EEPROM_ERASE_ALL"}
Command == Query \cup Refused \cup Ignored \cup
           {"PROG_END", "EXT_BOOT", "FLASH_WRITE", "FLASH_READ",
            "FLASH_ERASE_ALL", "EXT_FOPEN", "EXT_FCLOSE", "EXT_WRITE"}

Waiting   == {"connect", "command"}
FlashCall == {"flash:write", "flash:read", "flash:erase", "boot:erase",
              "boot:write"}
Pc == Waiting \cup FlashCall \cup
      {"off", "app", "hung", "fopen:mount", "fopen:format", "fopen:remove",
       "fopen:open", "fclose", "boot:mount", "boot:format", "boot:open",
       "boot:read", "boot:ack"}

TypeOK ==
  /\ FlashTypeOK /\ FsTypeOK
  /\ pc \in Pc /\ reply \in {ACK, NACK, OWED, NONE}
  /\ led \in BOOLEAN /\ erased \in BOOLEAN
  /\ acked \in SUBSET Record /\ begun \in SUBSET Record
  /\ sent \in File /\ closed \in File

Init ==
  /\ FlashInit /\ FsInit
  /\ pc = "off" /\ reply = NONE /\ led = FALSE
  /\ acked = {} /\ begun = {} /\ erased = FALSE
  /\ sent = <<>> /\ closed = <<>>

-----------------------------------------------------------------------------
(* main()                                                                  *)

\* Mutant of PowerOn: APROM update is not enabled.
PowerOnLocked ==
  /\ pc = "off"
  /\ pc' \in {"connect", "app"} /\ UNCHANGED flashVars
  /\ UNCHANGED <<fsVars, reply, led, history>>

(* system_init() and the PROG pin: program, or jump to the application,    *)
(* whatever is there.  Nothing calls APROM_update_disable(), and the later *)
(* calls of APROM_update_enable(), after an update and in boot_from_fs(),  *)
(* find the bit set.                                                       *)
PowerOn ==
  /\ pc = "off"
  /\ \/ pc' = "connect" /\ APROM_update_enable
     \/ pc' = "app" /\ UNCHANGED flashVars
  /\ UNCHANGED <<fsVars, reply, led, history>>

(* A reset or a power failure at any point.                                *)
PowerLoss ==
  /\ pc # "off"
  /\ pc' = "off" /\ reply' = NONE /\ led' = FALSE /\ sent' = <<>>
  /\ FlashPowerLoss /\ FsPowerLoss
  /\ UNCHANGED <<acked, begun, erased, closed>>

-----------------------------------------------------------------------------
(* Packets and replies.                                                    *)

Accept == reply' = OWED

Reply(status) == reply' = status

Quiet == UNCHANGED <<flashVars, fsVars, led, acked, begun, erased, sent, closed>>

(* establish_connection(): nothing but CHK_PROTOCOL does anything.         *)
Connect(c) ==
  /\ pc = "connect"
  /\ IF c = "CHK_PROTOCOL" THEN pc' = "command" /\ Reply(ACK)
                           ELSE pc' = pc /\ Reply(NACK)
  /\ Quiet

(* The handlers of bl_command_process() that have no effect.               *)
Inert(c) ==
  /\ pc = "command" /\ pc' = pc
  /\ \/ c \in Query /\ Reply(ACK)
     \/ c \in Refused /\ Reply(NACK)
     \/ c \in Ignored /\ Accept
  /\ Quiet

ProgEnd ==
  /\ pc = "command" /\ pc' = "connect"
  /\ Reply(ACK)
  /\ Quiet

-----------------------------------------------------------------------------
(* The commands on the internal flash.                                     *)

FlashWriteRefused(r) ==
  /\ pc = "command" /\ pc' = pc
  /\ r.addr < USER_APP_START
  /\ Reply(NACK)
  /\ Quiet

\* Mutant of FlashWrite: the address is not compared with BOOTLOADER_END.
FlashWriteAnywhere(r) ==
  /\ pc = "command" /\ pc' = "flash:write"
  /\ Accept
  /\ flash_write_app_page(r.addr, r.data)
  /\ begun' = begun \cup {r}
  /\ UNCHANGED <<fsVars, led, acked, erased, sent, closed>>

FlashWrite(r) ==
  /\ pc = "command" /\ pc' = "flash:write"
  /\ r.addr >= USER_APP_START
  /\ Accept
  /\ flash_write_app_page(r.addr, r.data)
  /\ begun' = begun \cup {r}
  /\ UNCHANGED <<fsVars, led, acked, erased, sent, closed>>

FlashRead(a) ==
  /\ pc = "command" /\ pc' = "flash:read"
  /\ Accept
  /\ flash_read_app_page(a)
  /\ UNCHANGED <<fsVars, led, acked, begun, erased, sent, closed>>

FlashEraseAll ==
  /\ pc = "command" /\ pc' = "flash:erase"
  /\ Accept
  /\ flash_erase_app_all
  /\ acked' = {} /\ erased' = FALSE
  /\ UNCHANGED <<fsVars, led, begun, sent, closed>>

DriverStep ==
  /\ pc \in FlashCall /\ FlashStep
  /\ UNCHANGED <<fsVars, bootVars, history>>

\* Mutant of FlashReply: the result of the driver is ignored.
FlashReplyAck ==
  /\ pc \in {"flash:write", "flash:read", "flash:erase"} /\ ~busy
  /\ pc' = "command"
  /\ Reply(ACK)
  /\ acked' = IF op = "write"
              THEN acked \cup {[addr |-> dest, data |-> page]} ELSE acked
  /\ begun' = IF op = "erase" THEN {} ELSE begun
  /\ erased' = (erased \/ op = "erase")
  /\ Forget
  /\ UNCHANGED <<fsVars, led, sent, closed>>

FlashReply ==
  /\ pc \in {"flash:write", "flash:read", "flash:erase"} /\ ~busy
  /\ pc' = "command"
  /\ Reply(IF res = SUCCESSED THEN ACK ELSE NACK)
  /\ acked' = IF op = "write" /\ res = SUCCESSED
              THEN acked \cup {[addr |-> dest, data |-> page]} ELSE acked
  /\ begun' = IF op = "erase" THEN {} ELSE begun
  /\ erased' = (erased \/ op = "erase")
  /\ Forget
  /\ UNCHANGED <<fsVars, led, sent, closed>>

-----------------------------------------------------------------------------
(* The commands on the external flash.                                     *)

\* A step of a handler that touches nothing but the file system.
FsStep == UNCHANGED <<flashVars, led, acked, begun, erased>>

FsInner == FsStep /\ UNCHANGED <<reply, sent, closed>>

ExtFopen ==
  /\ pc = "command" /\ pc' = "fopen:mount"
  /\ leaked < MaxLeaked
  /\ Accept
  /\ UNCHANGED <<flashVars, fsVars, led, history>>

Mount ==
  /\ pc \in {"fopen:mount", "boot:mount"}
  /\ lfs_mount
  /\ pc' = IF pc = "fopen:mount"
           THEN IF CannotMount THEN "fopen:format" ELSE "fopen:remove"
           ELSE IF CannotMount THEN "boot:format" ELSE "boot:open"
  /\ sent' = <<>>
  /\ FsStep /\ UNCHANGED <<reply, closed>>

\* lfs_format, and the second lfs_mount, which finds nothing open.
Format ==
  /\ pc \in {"fopen:format", "boot:format"}
  /\ lfs_format
  /\ pc' = IF pc = "fopen:format" THEN "fopen:remove" ELSE "boot:open"
  /\ FsInner

FopenRemove ==
  /\ pc = "fopen:remove" /\ pc' = "fopen:open"
  /\ lfs_remove
  /\ FsInner

\* Mutant of FopenOpen: opened with the flags of boot_from_fs().
FopenReadOnly ==
  /\ pc = "fopen:open" /\ pc' = "command"
  /\ lfs_file_open("read")
  /\ Reply(ACK)
  /\ FsStep /\ UNCHANGED <<sent, closed>>

FopenOpen ==
  /\ pc = "fopen:open" /\ pc' = "command"
  /\ lfs_file_open("write")
  /\ Reply(ACK)
  /\ FsStep /\ UNCHANGED <<sent, closed>>

ExtWrite(r) ==
  /\ pc = "command" /\ pc' = pc
  /\ MayWrite /\ Len(pend) < MaxFile
  /\ lfs_file_append(r)
  /\ Reply(ACK) /\ sent' = Append(sent, r)
  /\ UNCHANGED <<flashVars, led, acked, begun, erased, closed>>

\* Mutant of ExtFclose: the volume is unmounted, the file not closed.
FcloseUnmountOnly ==
  /\ pc = "command" /\ pc' = pc
  /\ MayClose
  /\ Reply(ACK)
  /\ closed' = IF mode = "write" THEN sent ELSE closed
  /\ sent' = <<>>
  /\ UNCHANGED <<flashVars, fsVars, led, acked, begun, erased>>

\* The file closes and the volume is unmounted.
ExtFclose ==
  /\ pc = "command" /\ pc' = pc
  /\ MayClose
  /\ lfs_file_close
  /\ Reply(ACK)
  /\ closed' = IF mode = "write" THEN sent ELSE closed
  /\ sent' = <<>>
  /\ UNCHANGED <<flashVars, led, acked, begun, erased>>

(* LFS_ASSERT fails: abort() never returns.                                *)
Assert(c) ==
  /\ pc = "command" /\ pc' = "hung"
  /\ \/ c = "EXT_WRITE" /\ ~MayWrite
     \/ c = "EXT_FCLOSE" /\ ~MayClose
  /\ Accept
  /\ Quiet

-----------------------------------------------------------------------------
(* boot_from_fs()                                                          *)

\* Mutant of ExtBoot: the section is not erased first.
ExtBootNoErase ==
  /\ pc = "command" /\ pc' = "boot:mount"
  /\ leaked < MaxLeaked
  /\ Accept
  /\ led' = TRUE
  /\ UNCHANGED <<flashVars, fsVars, history>>

ExtBoot ==
  /\ pc = "command" /\ pc' = "boot:erase"
  /\ leaked < MaxLeaked
  /\ Accept
  /\ led' = TRUE
  /\ flash_erase_app_all
  /\ acked' = {} /\ erased' = FALSE
  /\ UNCHANGED <<fsVars, begun, sent, closed>>

\* A driver call of boot_from_fs returned: give up, or go on.
BootErased ==
  /\ pc = "boot:erase" /\ ~busy
  /\ pc' = IF res = FAILED THEN "boot:ack" ELSE "boot:mount"
  /\ begun' = {} /\ erased' = TRUE
  /\ Forget
  /\ UNCHANGED <<fsVars, reply, led, acked, sent, closed>>

BootOpen ==
  /\ pc = "boot:open" /\ pc' = "boot:read"
  /\ lfs_file_open("read")
  /\ FsInner

BootRead ==
  /\ pc = "boot:read" /\ pc' = "boot:write"
  /\ pos < Len(pend)
  /\ lfs_file_read
  /\ LET r == pend[pos + 1] IN /\ flash_write_app_page(r.addr, r.data)
                               /\ begun' = begun \cup {r}
  /\ UNCHANGED <<reply, led, acked, erased, sent, closed>>

\* Mutant of BootWritten: the LED is switched off on every way out.
BootWrittenDark ==
  /\ pc = "boot:write" /\ ~busy
  /\ pc' = IF res = FAILED THEN "boot:ack" ELSE "boot:read"
  /\ led' = (res = SUCCESSED)
  /\ Forget
  /\ UNCHANGED <<fsVars, reply, history>>

\* The early return leaves the file open and the LED on.
BootWritten ==
  /\ pc = "boot:write" /\ ~busy
  /\ pc' = IF res = FAILED THEN "boot:ack" ELSE "boot:read"
  /\ Forget
  /\ UNCHANGED <<fsVars, reply, led, history>>

(* Every write to /boot is BUFFERSIZE bytes long: no rest is left to read.  *)
BootClose ==
  /\ pc = "boot:read" /\ pc' = "boot:ack"
  /\ pos = Len(pend)
  /\ lfs_file_close
  /\ led' = FALSE
  /\ UNCHANGED <<flashVars, reply, history>>

\* Mutant of BootAck: no reply, as for the commands still to be written.
BootNoAck ==
  /\ pc = "boot:ack" /\ pc' = "command"
  /\ UNCHANGED reply
  /\ Quiet

\* The result of boot_from_fs() is ignored.
BootAck ==
  /\ pc = "boot:ack" /\ pc' = "command"
  /\ Reply(ACK)
  /\ Quiet

-----------------------------------------------------------------------------

Packet ==
  \/ \E c \in Command : Connect(c) \/ Inert(c) \/ Assert(c)
  \/ \E r \in Record : FlashWriteRefused(r) \/ FlashWrite(r) \/ ExtWrite(r)
  \/ \E a \in Address : FlashRead(a)
  \/ ProgEnd \/ FlashEraseAll \/ ExtFopen \/ ExtFclose \/ ExtBoot

\* What the program does without waiting for a packet.
Step ==
  \/ DriverStep \/ FlashReply
  \/ Mount \/ Format \/ FopenRemove \/ FopenOpen
  \/ BootErased \/ BootOpen \/ BootRead \/ BootWritten \/ BootClose \/ BootAck

Next == PowerOn \/ Packet \/ Step \/ PowerLoss

Spec == Init /\ [][Next]_vars

-----------------------------------------------------------------------------
(* Properties.                                                             *)

\* What an erased section holds once the records of S are programmed.
Image(S, a) ==
  {b \in Bit : \A r \in S : a - r.addr \in Index => b \in r.data[a - r.addr]}

(* What was acknowledged stays: every bit cleared by an acknowledged page  *)
(* write is clear until the next erase, whatever is written, booted or cut *)
(* short in between.                                                       *)
AckedBitsStay == \A a \in App : flash[a] \subseteq Image(acked, a)

(* Nothing else is programmed: since the last completed erase, only page   *)
(* writes that were begun have cleared a bit of the application section.   *)
NoStrayBits == erased => \A a \in App : Image(begun, a) \subseteq flash[a]

(* When boot_from_fs() ends with the LED off, the application section      *)
(* holds the image in /boot and nothing else, however often the power      *)
(* failed in earlier attempts.                                             *)
BootInstalls ==
  (pc = "boot:ack" /\ ~led) =>
    \A a \in App : flash[a] = Image({disk[n] : n \in 1 .. Len(disk)}, a)

(* /boot is empty or exactly the records acknowledged between the FOPEN    *)
(* and the FCLOSE acknowledged last: never a part of an upload.            *)
CommittedWhole == disk \in {<<>>, closed}

(* A boot that gave up half-way, with /boot left open, shows on the LED,   *)
(* although it was acknowledged.                                           *)
FailureShown == (pc = "command" /\ mode = "read") => led

(* A page write by command leaves the bootloader section alone wherever it *)
(* starts and ends; only a record booted from /boot can reach it.          *)
CommandsKeepBootloader ==
  [][pc # "boot:write" => \A a \in Bootloader : flash'[a] = flash[a]]_vars

(* flash.h: the driver is only used for addresses in the user application  *)
(* section, so the bootloader section never changes.                       *)
BootloaderKept == [][\A a \in Bootloader : flash'[a] = flash[a]]_vars
=============================================================================
