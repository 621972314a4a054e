------------------------- MODULE BootSessionProofs -------------------------
(***************************************************************************)
(* A programmer's session for every upload, every number of faults and     *)
(* every size of the flash: it is a behaviour of the boot loader, so that  *)
(* all that is proved of the boot loader holds of it, and it keeps what an *)
(* update promises.                                                        *)
(***************************************************************************)
EXTENDS BootSession, BootLoaderProofs

-----------------------------------------------------------------------------
(* A session is a behaviour of the boot loader.                            *)

HostTypes ==
  /\ step \in HostStep /\ next \in 1 .. Len(Upload)
  /\ link \in {"idle", "request", "served"} /\ faults \in 0 .. MaxFaults

LEMMA UploadedRecord ==
  ASSUME HostTypes
  PROVE  Upload[next] \in Record
BY UploadAssumption DEF HostTypes

LEMMA HostTypesInit == SessionInit => HostTypes
BY UploadAssumption DEF SessionInit, HostTypes, HostStep

LEMMA HostTypesNext ==
  ASSUME HostTypes, [SessionNext]_sessionVars
  PROVE  HostTypes'
<1> USE DEF HostTypes
<1>1. CASE Send \/ Serve \/ DeviceStep \/ Start \/ Reset \/ UNCHANGED sessionVars
  BY <1>1 DEF Send, Serve, DeviceStep, Start, Reset, sessionVars, hostVars
<1>2. CASE GetAck
  <2>1. step' \in HostStep /\ link' = "idle" /\ faults' = faults
    BY <1>2 DEF GetAck
  <2>2. next' \in 1 .. Len(Upload)
    <3>1. next' = 1 \/ (next # Len(Upload) /\ next' = next + 1)
      BY <1>2 DEF GetAck, Last
    <3> QED
      BY <3>1, UploadAssumption
  <2> QED
    BY <2>1, <2>2
<1>3. CASE GetNoAck \/ LosePacket \/ LoseReply \/ LosePower
  <2>1. faults' \in 0 .. MaxFaults
    BY <1>3, UploadAssumption DEF GetNoAck, LosePacket, LoseReply, LosePower, Fault
  <2>2. Restart \/ UNCHANGED <<step, next, link>>
    BY <1>3 DEF GetNoAck, LosePacket, LoseReply, LosePower
  <2>3. 1 \in 1 .. Len(Upload)
    BY UploadAssumption
  <2> QED
    BY <2>1, <2>2, <2>3 DEF Restart, HostStep
<1> QED
  BY <1>1, <1>2, <1>3 DEF SessionNext

LEMMA ServeIsPacket ==
  ASSUME HostTypes, Serve
  PROVE  Packet
<1>1. "CHK_PROTOCOL" \in Command /\ "UNKNOWN" \in Command
      /\ "EXT_WRITE" \in Command /\ "EXT_FCLOSE" \in Command
  BY DEF Command, Query, Refused
<1> QED
  BY <1>1, UploadedRecord DEF Serve, Packet

LEMMA SessionStepIsBootStep ==
  ASSUME HostTypes, [SessionNext]_sessionVars
  PROVE  [Next]_vars
<1>1. Send \/ GetAck \/ GetNoAck \/ LosePacket \/ LoseReply => UNCHANGED vars
  BY DEF Send, GetAck, GetNoAck, LosePacket, LoseReply
<1>2. Start => PowerOn
  BY DEF Start
<1>3. LosePower \/ Reset => PowerLoss
  BY DEF LosePower, Reset
<1>4. DeviceStep => Step
  BY DEF DeviceStep
<1> QED
  BY <1>1, <1>2, <1>3, <1>4, ServeIsPacket DEF SessionNext, Next, sessionVars

LEMMA SessionIsBoot == SessionSpec => Spec /\ []HostTypes
<1>1. SessionInit => Init
  BY DEF SessionInit
<1> QED
  BY <1>1, HostTypesInit, HostTypesNext, SessionStepIsBootStep, PTL
  DEF SessionSpec, Spec

LEMMA SessionKeepsBoot == SessionSpec => [](HostTypes /\ BootIInv /\ InstallIInv)
BY SessionIsBoot, InstallInvariant, PTL

(* The variables of the session keep their types.                          *)
THEOREM SessionTypeCorrect == SessionSpec => []SessionTypeOK
<1>1. HostTypes /\ BootIInv => SessionTypeOK
  BY DEF HostTypes, BootIInv, SessionTypeOK
<1> QED
  BY <1>1, SessionKeepsBoot, PTL

-----------------------------------------------------------------------------
(* The inductive invariant.                                                *)

Uploaded == {Upload[n] : n \in 1 .. Len(Upload)}

UploadedTo(n) == SubSeq(Upload, 1, n)

Installed == \A a \in App : flash[a] = Image(Uploaded, a)

FopenPc == {"fopen:mount", "fopen:format", "fopen:remove", "fopen:open"}
BootPc  == {"boot:erase", "boot:mount", "boot:open", "boot:read", "boot:write",
            "boot:ack"}

Resting == {"off", "app"} \cup Waiting

Acknowledged == link = "served" /\ reply = ACK

(* A handler runs for the packet the programmer waits for.                 *)
InStep ==
  /\ pc \in Resting \cup {"flash:write", "flash:erase"} \cup FopenPc \cup BootPc
  /\ pc \notin Resting => link = "served"
  /\ pc = "off" => link # "served"
  /\ pc = "flash:write" => step = "flash_write"
  /\ pc = "flash:erase" => step = "erase"
  /\ pc \in FopenPc => step = "fopen"
  /\ pc \in BootPc => step = "boot"
  /\ pc = "app" => step = "done"
  /\ step = "done" => link = "idle" /\ pc \in {"off", "connect", "app"}
  /\ step = "end" /\ link = "served" => pc = "connect"
  /\ pc = "connect" /\ Acknowledged => step = "end"

(* What the file system holds of the upload through /boot.                 *)
Staged ==
  /\ disk # <<>> \/ mode # "closed" => entry = "file"
  /\ pc = "boot:open" => mode = "closed"
  /\ pc = "command" /\ link # "served" =>
       /\ step = "ext_write" => mode = "write" /\ pend = UploadedTo(next - 1)
       /\ step = "fclose" => mode = "write" /\ pend = Upload
  /\ pc = "command" /\ Acknowledged =>
       /\ step = "fopen" => mode = "write" /\ pend = <<>>
       /\ step = "ext_write" => mode = "write" /\ pend = UploadedTo(next)
       /\ step = "fclose" => disk = Upload
  /\ step = "boot" => disk = Upload

(* The flash driver is only asked for what it can do, and so never fails.  *)
Healthy ==
  /\ ~ispff /\ res = SUCCESSED /\ op \notin {"read", "verify"}
  /\ op = "write" => Written \in Uploaded
  /\ pc = "flash:write" => Written = Upload[next]
  /\ pc = "boot:ack" => ~led

(* What the section holds of an upload page by page.                       *)
Direct ==
  /\ step = "flash_write" =>
       erased /\ begun \subseteq Uploaded /\ \A n \in 1 .. next - 1 : Upload[n] \in acked
  /\ pc = "command" /\ Acknowledged =>
       /\ step = "erase" => erased /\ begun = {}
       /\ step = "flash_write" => Upload[next] \in acked

(* Nobody is told of an end that has not come.                             *)
Ended ==
  /\ pc = "command" /\ Acknowledged /\ step = "boot" => Installed
  /\ step \in {"end", "done"} => Installed

SessionInv == InStep /\ Staged /\ Healthy /\ Direct /\ Ended

BootInv == HostTypes /\ BootIInv /\ InstallIInv

LEMMA SessionInvInit == SessionInit => SessionInv
<1> SUFFICES ASSUME SessionInit PROVE SessionInv
  OBVIOUS
<1> USE DEF SessionInit, Init, FlashInit, FsInit
<1>1. InStep
  BY DEF InStep, Resting, Acknowledged, FopenPc, BootPc, Waiting
<1>2. Staged
  BY DEF Staged
<1>3. Healthy /\ Direct /\ Ended
  BY DEF Healthy, Direct, Ended
<1> QED
  BY <1>1, <1>2, <1>3 DEF SessionInv

-----------------------------------------------------------------------------
(* The upload as a sequence.                                               *)

LEMMA UploadSeq ==
  /\ Upload \in Seq(Record) /\ Len(Upload) \in Nat /\ Len(Upload) >= 1
  /\ Upload # <<>>
  /\ UploadedTo(0) = <<>> /\ UploadedTo(Len(Upload)) = Upload
<1>1. Upload \in Seq(Record) /\ Len(Upload) \in Nat /\ Len(Upload) >= 1
  BY UploadAssumption
<1>2. Upload # <<>>
  BY <1>1
<1>3. UploadedTo(0) = <<>> /\ UploadedTo(Len(Upload)) = Upload
  BY <1>1 DEF UploadedTo
<1> QED
  BY <1>1, <1>2, <1>3

LEMMA UploadedNext ==
  ASSUME NEW n \in 1 .. Len(Upload)
  PROVE  Append(UploadedTo(n - 1), Upload[n]) = UploadedTo(n)
BY UploadSeq DEF UploadedTo

\* An image does not depend on the state.
LEMMA InstalledStays ==
  ASSUME Installed, flash' = flash
  PROVE  Installed'
BY DEF Installed, Image, Uploaded

-----------------------------------------------------------------------------
(* The programmer's own steps, and the faults.                             *)

LEMMA SendInv ==
  ASSUME BootInv, SessionInv, Send
  PROVE  SessionInv'
<1> USE DEF Send, vars, flashVars, fsVars, bootVars, history, SessionInv
<1>1. InStep'
  BY DEF InStep, Resting, Acknowledged
<1>2. Staged'
  BY DEF Staged, Acknowledged, UploadedTo
<1>3. Healthy'
  BY DEF Healthy, Written, Uploaded
<1>4. Direct'
  BY DEF Direct, Acknowledged, Uploaded
<1>5. Ended'
  BY InstalledStays DEF Ended, Acknowledged
<1> QED
  BY <1>1, <1>2, <1>3, <1>4, <1>5
\* The new application, once every page of it is acknowledged.
LEMMA DirectInstalls ==
  ASSUME BootIInv, erased, begun \subseteq Uploaded,
         \A n \in 1 .. Len(Upload) : Upload[n] \in acked
  PROVE  Installed
<1> SUFFICES ASSUME NEW a \in App
             PROVE  flash[a] = Image(Uploaded, a)
  BY DEF Installed
<1>1. Uploaded \subseteq acked
  BY DEF Uploaded
<1>2. flash[a] \subseteq Image(Uploaded, a)
  <2>1. flash[a] \subseteq Image(acked, a)
    BY DEF BootIInv, AckedBitsStay
  <2>2. Image(acked, a) \subseteq Image(Uploaded, a)
    BY <1>1, ImageOfFewer
  <2> QED
    BY <2>1, <2>2
<1>3. Image(Uploaded, a) \subseteq flash[a]
  <2>1. Image(begun, a) \subseteq flash[a]
    BY DEF BootIInv, NoStrayBits
  <2>2. Image(Uploaded, a) \subseteq Image(begun, a)
    BY ImageOfFewer
  <2> QED
    BY <2>1, <2>2
<1> QED
  BY <1>2, <1>3

\* The page acknowledged now completes those before it.
LEMMA OnePageMore ==
  ASSUME BootInv, SessionInv, step = "flash_write", pc = "command", Acknowledged
  PROVE  \A n \in 1 .. next : Upload[n] \in acked
<1>1. next \in 1 .. Len(Upload) /\ Len(Upload) \in Nat
  BY UploadSeq DEF BootInv, HostTypes
<1>2. \A n \in 1 .. next : n \in 1 .. next - 1 \/ n = next
  BY <1>1
<1> QED
  BY <1>2 DEF SessionInv, Direct

LEMMA GetAckInv ==
  ASSUME BootInv, SessionInv, GetAck
  PROVE  SessionInv'
<1> USE DEF SessionInv
<1>1. /\ link = "served" /\ pc \in Waiting /\ reply = ACK /\ Acknowledged
      /\ link' = "idle" /\ Follows(step, step')
      /\ next' = IF step \in {"ext_write", "flash_write"} /\ ~Last THEN next + 1 ELSE 1
      /\ UNCHANGED <<vars, faults>>
  BY DEF GetAck, Handled, Acknowledged
<1>2. pc = "connect" => step = "end"
  BY <1>1 DEF InStep
<1>3. UNCHANGED <<flash, ispff, res, op, dest, page, pc, led, entry, disk, mode, pend,
                  erased, begun, acked, reply>>
  BY <1>1 DEF vars, flashVars, fsVars, bootVars, history
<1>4. next \in 1 .. Len(Upload) /\ Len(Upload) \in Nat
  BY UploadSeq DEF BootInv, HostTypes
<1>5. step # "done"
  BY <1>1 DEF InStep
<1>6. step = "end" => pc = "connect"
  BY <1>1 DEF InStep
<1>7. InStep'
  BY <1>1, <1>2, <1>3, <1>6 DEF InStep, Resting, Waiting, Acknowledged, Follows, FopenPc, BootPc
<1>8. Staged'
  <2>1. step' = "ext_write" => mode = "write" /\ pend = UploadedTo(next' - 1)
    BY <1>1, <1>2, <1>4, UploadSeq DEF Staged, Follows, Last, Waiting
  <2>2. step' = "fclose" => mode = "write" /\ pend = Upload
    BY <1>1, <1>2, UploadSeq DEF Staged, Follows, Last, Waiting
  <2>3. step' = "boot" => disk = Upload
    BY <1>1, <1>2 DEF Staged, Follows, Waiting
  <2> QED
    BY <1>1, <1>3, <2>1, <2>2, <2>3 DEF Staged, Acknowledged, UploadedTo
<1>9. Healthy'
  BY <1>1, <1>3 DEF Healthy, Waiting, Written, Uploaded
<1>10. Direct'
  <2>1. step' = "flash_write" => erased /\ begun \subseteq Uploaded
    BY <1>1, <1>2 DEF Direct, Follows, Waiting
  <2>2. step' = "flash_write" => \A n \in 1 .. next' - 1 : Upload[n] \in acked
    <3>1. CASE step = "erase"
      BY <1>1, <3>1
    <3>2. CASE step = "flash_write"
      <4>1. step' = "flash_write" => next' = next + 1
        BY <1>1, <3>2 DEF Follows
      <4>2. \A n \in 1 .. next : Upload[n] \in acked
        BY <1>1, <1>2, <3>2, OnePageMore DEF Waiting
      <4> QED
        BY <1>4, <4>1, <4>2
    <3> QED
      BY <1>1, <3>1, <3>2 DEF Follows
  <2> QED
    BY <1>1, <1>3, <2>1, <2>2 DEF Direct, Acknowledged, Uploaded
<1>11. Ended'
  <2>1. step' \in {"end", "done"} => Installed
    <3>1. CASE step = "flash_write"
      <4>1. pc = "command"
        BY <1>1, <1>2, <3>1 DEF Waiting
      <4>2. step' \in {"end", "done"} => next = Len(Upload)
        BY <1>1, <3>1 DEF Follows, Last
      <4>3. \A n \in 1 .. next : Upload[n] \in acked
        BY <1>1, <3>1, <4>1, OnePageMore
      <4> QED
        BY <3>1, <4>2, <4>3, DirectInstalls DEF BootInv, Direct
    <3>2. CASE step = "boot"
      BY <1>1, <1>2, <3>2 DEF Ended, Waiting
    <3>3. CASE step = "end"
      BY <3>3 DEF Ended
    <3> QED
      BY <1>1, <3>1, <3>2, <3>3 DEF Follows
  <2> QED
    BY <1>1, <1>3, <2>1, InstalledStays DEF Ended, Acknowledged
<1> QED
  BY <1>7, <1>8, <1>9, <1>10, <1>11

\* The programmer starts again.
LEMMA RestartInv ==
  ASSUME BootInv, SessionInv, GetNoAck \/ LosePacket \/ LoseReply
  PROVE  SessionInv'
<1> USE DEF SessionInv
<1>1. pc \in Resting /\ step # "done"
  BY DEF InStep, GetNoAck, LosePacket, LoseReply, Handled, Resting
<1>2. step' = "connect" /\ link' = "idle" /\ UNCHANGED vars
  BY DEF GetNoAck, LosePacket, LoseReply, Restart
<1>3. UNCHANGED <<flash, ispff, res, op, dest, page, pc, led, entry, disk, mode, pend,
                  erased, begun, acked, reply>>
  BY <1>2 DEF vars, flashVars, fsVars, bootVars, history
<1>4. pc # "app"
  BY <1>1 DEF InStep
<1>5. InStep'
  BY <1>1, <1>2, <1>3, <1>4 DEF InStep, Resting, Waiting, Acknowledged, FopenPc, BootPc
<1>6. Staged' /\ Direct' /\ Ended'
  BY <1>2, <1>3 DEF Staged, Direct, Ended, Acknowledged
<1>7. Healthy'
  BY <1>1, <1>3 DEF Healthy, Resting, Waiting, Written, Uploaded
<1> QED
  BY <1>5, <1>6, <1>7
\* A power failure: no driver call is left, and the flash stays as it was
\* unless one was running.
LEMMA PowerLossLeaves ==
  ASSUME BootInv, PowerLoss
  PROVE  /\ pc' = "off" /\ mode' = "closed" /\ reply' = NONE
         /\ ~ispff' /\ res' = SUCCESSED /\ op' = "none"
         /\ UNCHANGED <<entry, disk, acked, begun, erased>>
         /\ pc \notin FlashCall => flash' = flash
<1>1. pc \notin FlashCall => flash' = flash
  <2>1. pc \notin FlashCall => ~busy
    BY DEF BootInv, BootIInv, Control
  <2> QED
    BY <2>1 DEF PowerLoss, FlashPowerLoss, Interrupted, Running
<1> QED
  BY <1>1 DEF PowerLoss, FlashPowerLoss, NoCall, FsPowerLoss

LEMMA PowerLossInv ==
  ASSUME BootInv, SessionInv, LosePower \/ Reset
  PROVE  SessionInv'
<1> USE DEF SessionInv
<1>1. PowerLoss
  BY DEF LosePower, Reset
<1>2. /\ link' \in {"idle", link} /\ link' # "served"
      /\ (step' = "connect" \/ (step' = step /\ next' = next))
      /\ pc \notin Resting => step' = "connect"
      /\ step = "done" => step' = "done" /\ link' = "idle"
  <2>1. CASE LosePower
    <3>1. CASE link = "idle"
      BY <2>1, <3>1 DEF LosePower, InStep
    <3>2. CASE link # "idle"
      BY <2>1, <3>2 DEF LosePower, InStep, Restart
    <3> QED
      BY <3>1, <3>2
  <2>2. CASE Reset
    BY <2>2 DEF Reset, InStep, hostVars, Resting, Waiting
  <2> QED
    BY <2>1, <2>2
<1>3. InStep'
  BY <1>1, <1>2, PowerLossLeaves DEF InStep, Resting, Waiting, Acknowledged, FopenPc, BootPc
<1>4. Staged'
  BY <1>1, <1>2, PowerLossLeaves DEF Staged, Acknowledged
<1>5. Healthy'
  BY <1>1, PowerLossLeaves DEF Healthy
<1>6. Direct'
  BY <1>1, <1>2, PowerLossLeaves DEF Direct, Uploaded, Acknowledged
<1>7. Ended'
  <2>1. step \in {"end", "done"} => pc \notin FlashCall
    BY DEF InStep, FlashCall, Resting, Waiting
  <2> QED
    BY <1>1, <1>2, <2>1, PowerLossLeaves, InstalledStays DEF Ended, Acknowledged
<1> QED
  BY <1>3, <1>4, <1>5, <1>6, <1>7

LEMMA StartInv ==
  ASSUME BootInv, SessionInv, Start
  PROVE  SessionInv'
<1> USE DEF SessionInv
<1>1. /\ pc = "off" /\ pc' = IF step = "done" THEN "app" ELSE "connect"
      /\ UNCHANGED <<step, next, link, flash, ispff, res, op, dest, page, led, entry,
                     disk, mode, pend, erased, begun, acked, reply>>
  BY DEF Start, PowerOn, APROM_update_enable, hostVars, flashVars, fsVars, history
<1>2. InStep'
  BY <1>1 DEF InStep, Resting, Waiting, Acknowledged, FopenPc, BootPc
<1>3. Staged' /\ Healthy'
  BY <1>1 DEF Staged, Healthy, Written, Uploaded
<1>4. Direct'
  BY <1>1 DEF Direct, Uploaded
<1>5. Ended'
  BY <1>1, InstalledStays DEF Ended
<1> QED
  BY <1>2, <1>3, <1>4, <1>5

-----------------------------------------------------------------------------
(* The boot loader takes the packet.                                       *)

\* The handshake, and the packets that have no effect.
LEMMA ServeQuiet ==
  ASSUME BootInv, SessionInv, link = "request", link' = "served",
         UNCHANGED <<step, next, faults>>, pc \in Waiting, Quiet,
         \/ step = "connect" /\ pc' = "command"
         \/ pc' = "connect" /\ (reply' = NACK \/ step = "end")
  PROVE  SessionInv'
<1> USE DEF SessionInv
<1>1. UNCHANGED <<flash, ispff, res, op, dest, page, led, entry,
                  disk, mode, pend, erased, begun, acked>>
  BY DEF Quiet, flashVars, fsVars
<1>2. step # "done"
  BY DEF InStep
<1>3. InStep'
  BY <1>1, <1>2 DEF InStep, Resting, Waiting, Acknowledged, FopenPc, BootPc, ACK, NACK
<1>4. Staged' /\ Healthy'
  BY <1>1 DEF Staged, Healthy, Written, Uploaded, Acknowledged
<1>5. Direct'
  BY <1>1 DEF Direct, Uploaded, Acknowledged
<1>6. Ended'
  BY <1>1, InstalledStays DEF Ended, Acknowledged
<1> QED
  BY <1>3, <1>4, <1>5, <1>6

\* The commands of the upload through /boot, which wait for nothing.
LEMMA ServeFile ==
  ASSUME BootInv, SessionInv, link = "request", link' = "served",
         UNCHANGED <<step, next, faults>>,
         \/ step = "ext_write" /\ ExtWrite(Upload[next])
         \/ step = "fclose" /\ ExtFclose
  PROVE  SessionInv'
<1> USE DEF SessionInv
<1>1. UNCHANGED <<flash, ispff, res, op, dest, page, led, pc, entry, erased, begun, acked>>
      /\ pc = "command"
  BY DEF ExtWrite, ExtFclose, lfs_file_append, lfs_file_close, flashVars
<1>2. /\ step = "ext_write" => mode' = mode /\ pend' = Append(pend, Upload[next]) /\ disk' = disk
      /\ step = "fclose" => disk' = Upload /\ mode' = "closed"
  BY <1>1 DEF ExtWrite, ExtFclose, lfs_file_append, lfs_file_close, Staged
<1>3. step = "ext_write" => pend' = UploadedTo(next)
  BY <1>1, <1>2, UploadedNext DEF Staged, BootInv, HostTypes
<1>4. InStep'
  BY <1>1 DEF InStep, Resting, Waiting, Acknowledged, FopenPc, BootPc
<1>5. Staged'
  BY <1>1, <1>2, <1>3 DEF Staged, Acknowledged, UploadedTo
<1>6. Healthy'
  BY <1>1 DEF Healthy, Written, Uploaded
<1>7. Direct' /\ Ended'
  BY <1>1 DEF Direct, Ended
<1> QED
  BY <1>4, <1>5, <1>6, <1>7
\* The commands whose handler takes several steps.
LEMMA ServeLong ==
  ASSUME BootInv, SessionInv, link = "request", link' = "served",
         UNCHANGED <<step, next, faults>>,
         \/ step = "fopen" /\ ExtFopen
         \/ step = "boot" /\ ExtBoot
         \/ step = "erase" /\ FlashEraseAll
         \/ step = "flash_write" /\ FlashWrite(Upload[next])
  PROVE  SessionInv'
<1> USE DEF SessionInv
<1>1. /\ pc = "command"
      /\ step = "fopen" => pc' = "fopen:mount" /\ UNCHANGED <<op, begun, acked, erased, res>>
      /\ step = "boot" => pc' = "boot:erase" /\ op' = "erase"
      /\ step = "erase" => pc' = "flash:erase" /\ op' = "erase"
      /\ step = "flash_write" =>
           /\ pc' = "flash:write" /\ op' = "write"
           /\ dest' = Upload[next].addr /\ page' = Upload[next].data
           /\ begun' = begun \cup {Upload[next]} /\ UNCHANGED <<acked, erased>>
      /\ step \in {"fopen", "boot", "erase", "flash_write"}
      /\ UNCHANGED <<flash, ispff, entry, disk, mode, pend>>
      /\ res' = SUCCESSED
  BY DEF ExtFopen, ExtBoot, FlashEraseAll, FlashWrite, flash_erase_app_all,
     flash_write_app_page, Call, flashVars, fsVars, history, Healthy
<1>2. Upload[next] \in Uploaded /\ Upload[next] \in Record
  BY UploadedRecord DEF BootInv, HostTypes, Uploaded
<1>3. step = "flash_write" => Written' = Upload[next]
  BY <1>1, <1>2, RecordFields DEF Written
<1>4. InStep'
  BY <1>1 DEF InStep, Resting, Waiting, Acknowledged, FopenPc, BootPc
<1>5. Staged'
  BY <1>1 DEF Staged, Acknowledged
<1>6. Healthy'
  <2>1. op \notin {"read", "verify"} /\ ~ispff
    BY DEF Healthy
  <2>2. step = "fopen" => op' # "write"
    BY <1>1 DEF BootInv, BootIInv, Control, FlashCall
  <2> QED
    BY <1>1, <1>2, <1>3, <2>1, <2>2 DEF Healthy, Uploaded
<1>7. Direct'
  BY <1>1, <1>2 DEF Direct, Acknowledged, Uploaded
<1>8. Ended'
  BY <1>1 DEF Ended, Acknowledged
<1> QED
  BY <1>4, <1>5, <1>6, <1>7, <1>8

LEMMA ServeInv ==
  ASSUME BootInv, SessionInv, Serve
  PROVE  SessionInv'
<1>1. link = "request" /\ link' = "served" /\ UNCHANGED <<step, next, faults>>
  BY DEF Serve
<1>2. CASE step = "connect" /\ (Connect("CHK_PROTOCOL") \/ Inert("CHK_PROTOCOL"))
  BY <1>1, <1>2, ServeQuiet DEF Connect, Inert, Waiting
<1>3. CASE step # "connect" /\ Connect("UNKNOWN")
  BY <1>1, <1>3, ServeQuiet DEF Connect, Waiting, Reply
<1>4. CASE step = "end" /\ ProgEnd
  BY <1>1, <1>4, ServeQuiet DEF ProgEnd, Waiting
<1>5. ~(step = "ext_write" /\ Assert("EXT_WRITE")) /\ ~(step = "fclose" /\ Assert("EXT_FCLOSE"))
  BY <1>1 DEF Assert, MayWrite, MayClose, SessionInv, Staged
<1>6. ~(step = "flash_write" /\ FlashWriteRefused(Upload[next]))
  <2>1. next \in 1 .. Len(Upload) /\ Upload[next].addr \in Int
    BY UploadedRecord, RecordFields, FlashAssumption DEF BootInv, HostTypes, Address
  <2>2. Upload[next].addr >= USER_APP_START
    BY <2>1, UploadAssumption
  <2> QED
    BY <2>1, <2>2, FlashAssumption DEF FlashWriteRefused
<1>7. CASE \/ step = "ext_write" /\ ExtWrite(Upload[next])
           \/ step = "fclose" /\ ExtFclose
  BY <1>1, <1>7, ServeFile
<1>8. CASE \/ step = "fopen" /\ ExtFopen
           \/ step = "boot" /\ ExtBoot
           \/ step = "erase" /\ FlashEraseAll
           \/ step = "flash_write" /\ FlashWrite(Upload[next])
  BY <1>1, <1>8, ServeLong
<1> QED
  BY <1>2, <1>3, <1>4, <1>5, <1>6, <1>7, <1>8 DEF Serve

-----------------------------------------------------------------------------
(* The steps of the handlers.                                              *)

\* A command of the controller on the application section succeeds.
LEMMA HealthyDriver ==
  ASSUME BootInv, SessionInv, DriverStep
  PROVE  /\ ~ispff' /\ res' = SUCCESSED /\ op' = op
         /\ op = "write" => Written' = Written
<1> USE DEF BootInv, BootIInv, SessionInv, Healthy
<1>1. FlashStep /\ Enabled /\ busy /\ apuen
  BY FlashStepKeeps, ControlEnabled DEF DriverStep, Enabled
<1>2. op' = op /\ (op = "write" => Written' = Written)
  BY <1>1, FlashStepKeeps DEF Written
<1>3. CASE WriteWord
  <2>1. Cursor = dest + i /\ op = "write" /\ i < PageWords /\ i \in Nat /\ dest \in Nat
    BY <1>3, WriteCursorExact, FlashAssumption
    DEF WriteWord, Running, FlashInv, FlashTypeOK, Address
  <2>2. PICK n \in 1 .. Len(Upload) : Upload[n] = Written
    BY <2>1 DEF Uploaded
  <2>3. dest + PageWords - 1 <= USER_APP_END
    BY <2>2, UploadAssumption DEF Written
  <2>4. Cursor \in Aprom
    BY <2>1, <2>3, FlashAssumption, SectionBounds DEF Aprom
  <2>5. CommandOk(Cursor)
    BY <1>1, <2>4 DEF CommandOk, Programmable
  <2> QED
    BY <1>2, <1>3, <2>5 DEF WriteWord, FMC_Write, Continue
<1>4. CASE EraseBlock
  <2>1. dest \in App
    BY <1>4, BlockInSection DEF EraseBlock, Running, FlashInv, EraseCursor
  <2>2. CommandOk(dest)
    BY <1>1, <2>1, Sections DEF CommandOk, Programmable
  <2> QED
    BY <1>2, <1>4, <2>2 DEF EraseBlock, FMC_Erase_Block
<1>5. CASE Return
  BY <1>2, <1>5 DEF Return
<1>6. ~ReadWord /\ ~VerifyWord
  BY DEF ReadWord, VerifyWord, Running
<1> QED
  BY <1>1, <1>3, <1>4, <1>5, <1>6 DEF FlashStep

LEMMA DriverInv ==
  ASSUME BootInv, SessionInv, DriverStep, UNCHANGED hostVars
  PROVE  SessionInv'
<1> USE DEF SessionInv
<1>1. /\ pc \in FlashCall
      /\ UNCHANGED <<pc, step, next, link, led, entry, disk, mode, pend,
                     erased, begun, acked, reply>>
  BY DEF DriverStep, hostVars, bootVars, fsVars, history
<1>2. InStep' /\ Staged'
  BY <1>1 DEF InStep, Staged, Resting, Waiting, Acknowledged, FopenPc, BootPc, UploadedTo
<1>3. Healthy'
  <2>1. pc = "flash:write" => op = "write"
    BY DEF BootInv, BootIInv, Control
  <2> QED
    BY <1>1, <2>1, HealthyDriver DEF Healthy, Uploaded, FlashCall
<1>4. Direct' /\ Ended'
  <2>1. link = "served" /\ pc # "command"
    BY <1>1 DEF InStep, FlashCall, Resting, Waiting
  <2>2. step \notin {"end", "done"}
    BY <1>1, <2>1 DEF InStep, FlashCall
  <2> QED
    BY <1>1, <2>1, <2>2 DEF Direct, Ended, Uploaded, Acknowledged
<1> QED
  BY <1>2, <1>3, <1>4
LEMMA FlashReplyInv ==
  ASSUME BootInv, SessionInv, FlashReply, UNCHANGED hostVars
  PROVE  SessionInv'
<1> USE DEF SessionInv
<1>1. /\ pc \in {"flash:write", "flash:read", "flash:erase"} /\ pc' = "command"
      /\ ~busy /\ reply' = ACK /\ res = SUCCESSED
      /\ UNCHANGED <<step, next, link, led, flash, entry, disk, mode, pend>>
      /\ ~ispff' /\ res' = SUCCESSED /\ op' = "none"
  BY DEF FlashReply, Reply, Healthy, Forget, NoCall, hostVars, fsVars
<1>2. pc # "flash:read" /\ link = "served"
  BY <1>1 DEF InStep, Resting, Waiting, FopenPc, BootPc
<1>3. InStep'
  BY <1>1, <1>2 DEF InStep, Resting, Waiting, Acknowledged, FopenPc, BootPc
<1>4. step \in {"erase", "flash_write"}
  BY <1>1, <1>2 DEF InStep
<1>5. Staged' /\ Healthy'
  BY <1>1, <1>2, <1>4 DEF Staged, Healthy, Acknowledged
<1>6. Direct'
  <2>1. CASE pc = "flash:erase"
    <3>1. op = "erase"
      BY <2>1 DEF BootInv, BootIInv, Control
    <3>2. begun' = {} /\ erased'
      BY <3>1 DEF FlashReply
    <3>3. step = "erase"
      BY <2>1 DEF InStep
    <3> QED
      BY <1>1, <3>2, <3>3 DEF Direct
  <2>2. CASE pc = "flash:write"
    <3>1. op = "write"
      BY <2>2 DEF BootInv, BootIInv, Control
    <3>2. acked' = acked \cup {Written} /\ begun' = begun /\ (erased => erased')
      BY <1>1, <3>1 DEF FlashReply, Written
    <3>3. step = "flash_write" /\ Written = Upload[next]
      BY <2>2 DEF InStep, Healthy
    <3> QED
      BY <1>1, <3>2, <3>3 DEF Direct, Uploaded
  <2> QED
    BY <1>1, <1>2, <2>1, <2>2
<1>7. Ended'
  BY <1>4, <1>1 DEF Ended
<1> QED
  BY <1>3, <1>5, <1>6, <1>7

\* The steps on the file system, before the reply.
LEMMA FileStepInv ==
  ASSUME BootInv, SessionInv, Mount \/ Format \/ FopenRemove \/ FopenOpen,
         UNCHANGED hostVars
  PROVE  SessionInv'
<1> USE DEF SessionInv
<1>1. /\ UNCHANGED <<step, next, link, led, flash, ispff, op, dest, page, res,
                     acked, begun, erased>>
      /\ pc \in FopenPc \cup {"boot:mount"}
  BY DEF Mount, Format, FopenRemove, FopenOpen, FsInner, FsStep, flashVars, hostVars,
     InStep, FopenPc, BootPc, Resting, Waiting
<1>2. link = "served"
  BY <1>1 DEF InStep, FopenPc, Resting, Waiting
<1>3. CASE pc = "boot:mount"
  <2>1. step = "boot" /\ disk = Upload
    BY <1>3 DEF InStep, BootPc, Staged
  <2>2. entry = "file"
    BY <2>1, UploadSeq DEF Staged
  <2>3. pc' = "boot:open" /\ mode' = "closed" /\ UNCHANGED <<entry, disk>>
    BY <1>3, <2>2 DEF Mount, Format, FopenRemove, FopenOpen, CannotMount, lfs_mount
  <2>4. InStep' /\ Staged'
    BY <1>1, <1>2, <2>1, <2>2, <2>3
    DEF InStep, Staged, Resting, Waiting, Acknowledged, FopenPc, BootPc
  <2>5. Healthy' /\ Direct' /\ Ended'
    BY <1>1, <2>1, <2>3 DEF Healthy, Direct, Ended, Written, Uploaded
  <2> QED
    BY <2>4, <2>5
<1>4. CASE pc \in FopenPc
  <2>1. step = "fopen"
    BY <1>4 DEF InStep
  <2>2. /\ pc' \in FopenPc \/ (pc' = "command" /\ pc = "fopen:open")
        /\ pc = "fopen:open" => mode' = "write" /\ pend' = disk /\ entry' = "file" /\ disk' = disk
        /\ pc # "fopen:open" => pc' \in FopenPc
        /\ pc = "fopen:mount" => mode' = "closed" /\ UNCHANGED <<entry, disk>>
        /\ pc \in {"fopen:format", "fopen:remove"} => mode' = mode /\ disk' = <<>>
    BY <1>4 DEF Mount, Format, FopenRemove, FopenOpen, FopenPc, lfs_mount, lfs_format,
       lfs_remove, lfs_file_open
  <2>3. /\ pc = "fopen:open" => disk = <<>>
        /\ pc \in {"fopen:format", "fopen:remove"} => mode = "closed"
    BY DEF BootInv, BootIInv, Files
  <2>4. InStep'
    BY <1>1, <1>2, <2>1, <2>2 DEF InStep, Resting, Waiting, Acknowledged, FopenPc, BootPc
  <2>5. Staged'
    BY <1>1, <1>2, <1>4, <2>1, <2>2, <2>3 DEF Staged, Acknowledged, FopenPc
  <2>6. Healthy' /\ Direct' /\ Ended'
    BY <1>1, <2>1, <2>2 DEF Healthy, Direct, Ended, Written, Uploaded, FopenPc
  <2> QED
    BY <2>4, <2>5, <2>6
<1> QED
  BY <1>1, <1>3, <1>4

\* The steps of boot_from_fs().
LEMMA BootStepInv ==
  ASSUME BootInv, SessionInv, UNCHANGED hostVars,
         BootErased \/ BootOpen \/ BootRead \/ BootWritten \/ BootClose \/ BootAck
  PROVE  SessionInv'
<1> USE DEF SessionInv
<1>1. /\ pc \in BootPc /\ UNCHANGED <<step, next, link, flash, ispff>>
  BY DEF BootErased, BootOpen, BootRead, BootWritten, BootClose, BootAck, Forget,
     FsInner, FsStep, flash_write_app_page, Call, Quiet, flashVars, hostVars, BootPc
<1>2. step = "boot" /\ disk = Upload /\ link = "served"
  BY <1>1 DEF InStep, Staged, Resting, Waiting, BootPc
<1>3. pc' \in BootPc \cup {"command"} /\ (pc' = "command" => pc = "boot:ack")
  BY DEF BootErased, BootOpen, BootRead, BootWritten, BootClose, BootAck, BootPc
<1>4. InStep'
  BY <1>1, <1>2, <1>3 DEF InStep, Resting, Waiting, Acknowledged, FopenPc, BootPc
<1>5. disk' = disk /\ entry' = "file"
  <2>1. entry = "file"
    BY <1>2, UploadSeq DEF Staged
  <2>2. pc = "boot:read" => mode = "read"
    BY DEF BootInv, BootIInv, Files
  <2> QED
    BY <2>1, <2>2 DEF BootErased, BootOpen, BootRead, BootWritten, BootClose, BootAck,
       lfs_file_open, lfs_file_read, lfs_file_close, FsInner, Quiet, fsVars
<1>6. Staged'
  <2>1. pc' # "boot:open"
    BY DEF BootErased, BootOpen, BootRead, BootWritten, BootClose, BootAck
  <2> QED
    BY <1>1, <1>2, <1>5, <2>1 DEF Staged, UploadedTo
<1>7. Healthy'
  <2>1. res = SUCCESSED /\ ~ispff
    BY DEF Healthy
  <2>2. CASE BootRead
    <3>1. /\ res' = SUCCESSED /\ op' = "write" /\ pc' = "boot:write"
          /\ dest' = pend[pos + 1].addr /\ page' = pend[pos + 1].data
          /\ pc = "boot:read" /\ pos < Len(pend)
      BY <2>2 DEF BootRead, flash_write_app_page, Call
    <3>2. pend = Upload /\ pos \in Nat
      BY <1>2, <3>1, RecordAssumption
      DEF BootInv, InstallIInv, Copied, BootIInv, TypeOK, FsTypeOK
    <3>3. pos + 1 \in 1 .. Len(Upload)
      BY <3>1, <3>2, UploadSeq
    <3>4. pend[pos + 1] \in Record /\ pend[pos + 1] \in Uploaded
      BY <3>2, <3>3, UploadSeq DEF Uploaded
    <3>5. Written' = pend[pos + 1]
      BY <3>1, <3>4, RecordFields DEF Written
    <3> QED
      BY <1>1, <2>1, <3>1, <3>4, <3>5 DEF Healthy, Uploaded
  <2>3. CASE BootErased \/ BootWritten
    BY <1>1, <2>1, <2>3 DEF BootErased, BootWritten, Forget, NoCall, Healthy,
       SUCCESSED, FAILED
  <2>4. CASE BootOpen \/ BootAck
    BY <1>1, <1>3, <2>1, <2>4 DEF BootOpen, BootAck, FsInner, FsStep, Quiet, flashVars,
       Healthy, Written, Uploaded
  <2>5. CASE BootClose
    BY <1>1, <2>1, <2>5 DEF BootClose, flashVars, Healthy, Written, Uploaded
  <2> QED
    BY <2>2, <2>3, <2>4, <2>5
<1>8. Direct'
  BY <1>1, <1>2 DEF Direct
<1>9. Ended'
  <2>1. ASSUME pc' = "command" PROVE Installed
    <3>1. pc = "boot:ack" /\ ~led
      BY <1>3, <2>1 DEF Healthy
    <3> QED
      BY <1>2, <3>1 DEF BootInv, InstallIInv, BootInstalls, Installed, Uploaded
  <2> QED
    BY <1>1, <1>2, <2>1, InstalledStays DEF Ended
<1> QED
  BY <1>4, <1>6, <1>7, <1>8, <1>9

-----------------------------------------------------------------------------
(* The theorems.                                                           *)

LEMMA SessionInvStays ==
  ASSUME SessionInv, UNCHANGED sessionVars
  PROVE  SessionInv'
<1>1. UNCHANGED <<flash, ispff, res, op, dest, page, pc, led, entry, disk, mode, pend,
                  erased, begun, acked, reply, step, next, link>>
  BY DEF sessionVars, hostVars, vars, flashVars, fsVars, bootVars, history
<1>2. InStep' /\ Staged'
  BY <1>1 DEF SessionInv, InStep, Staged, Acknowledged, UploadedTo
<1>3. Healthy' /\ Direct'
  BY <1>1 DEF SessionInv, Healthy, Direct, Acknowledged, Uploaded, Written
<1>4. Ended'
  BY <1>1, InstalledStays DEF SessionInv, Ended, Acknowledged
<1> QED
  BY <1>2, <1>3, <1>4 DEF SessionInv

LEMMA SessionInvNext ==
  ASSUME BootInv, SessionInv, [SessionNext]_sessionVars
  PROVE  SessionInv'
<1>1. CASE DeviceStep
  BY <1>1, DriverInv, FlashReplyInv, FileStepInv, BootStepInv DEF DeviceStep, Step
<1> QED
  BY <1>1, SendInv, GetAckInv, RestartInv, PowerLossInv, StartInv, ServeInv,
     SessionInvStays DEF SessionNext

LEMMA SessionInvariant == SessionSpec => [](BootInv /\ SessionInv)
<1>1. BootInv /\ SessionInv /\ [SessionNext]_sessionVars => SessionInv'
  BY SessionInvNext
<1>2. SessionSpec => []BootInv
  BY SessionKeepsBoot DEF BootInv
<1> QED
  BY <1>1, <1>2, SessionInvInit, PTL DEF SessionSpec

(* A programmer that is told of the end has installed exactly the          *)
(* application it sent, page by page or through /boot, wherever a packet   *)
(* was lost or the power failed; the board starts nothing else.            *)
THEOREM DoneInstalled == SessionSpec => []DoneMeansInstalled
<1>1. BootInv /\ SessionInv => DoneMeansInstalled
  BY DEF SessionInv, Ended, InStep, Installed, Uploaded, DoneMeansInstalled
<1> QED
  BY <1>1, SessionInvariant, PTL

(* No retry after a fault makes the file system assert: it is never asked  *)
(* to write or close a file that is not open for writing.                  *)
THEOREM SessionNeverHangs == SessionSpec => []NeverHangs
<1>1. SessionInv => NeverHangs
  BY DEF SessionInv, InStep, NeverHangs, Resting, Waiting, FopenPc, BootPc
<1> QED
  BY <1>1, SessionInvariant, PTL
-----------------------------------------------------------------------------
(* The session implements the update.                                      *)

\* A step on the programmer's side; one that changes the copy; one that
\* changes the section.
LEMMA StepRefines ==
  ASSUME BootInv, BootInv',
         \/ /\ UNCHANGED <<flash, disk>>
            /\ step = "done" => step' = "done"
            /\ step' = "done" => step = "done" \/ Installed
         \/ /\ UNCHANGED <<flash, step>> /\ step # "done"
         \/ /\ disk' = disk /\ step # "done" /\ step' # "done"
            /\ step \in {"erase", "flash_write"} \/ disk = Upload
  PROVE  [Update!UpdateNext]_(Update!updateVars)
<1> USE DEF Update!UpdateNext, Update!updateVars
<1>1. [a \in App |-> flash'[a]] \in [App -> Word]
  BY Sections DEF BootInv, BootIInv, FlashInv, FlashTypeOK
<1>2. CASE /\ UNCHANGED <<flash, disk>>
           /\ step = "done" => step' = "done"
           /\ step' = "done" => step = "done" \/ Installed
  <2>1. CASE step = "done"
    BY <1>2, <2>1
  <2>2. CASE step # "done" /\ step' # "done"
    BY <1>2, <2>2 DEF Update!Choose
  <2>3. CASE step # "done" /\ step' = "done"
    BY <1>2, <2>3 DEF Update!Confirm, Installed, Uploaded
  <2> QED
    BY <2>1, <2>2, <2>3
<1>3. CASE UNCHANGED <<flash, step>> /\ step # "done"
  BY <1>3 DEF Update!Stage
<1>4. CASE /\ disk' = disk /\ step # "done" /\ step' # "done"
           /\ step \in {"erase", "flash_write"} \/ disk = Upload
  BY <1>1, <1>4 DEF Update!Touch
<1> QED
  BY <1>2, <1>3, <1>4

LEMMA ServeRefines ==
  ASSUME BootInv, SessionInv, Serve
  PROVE  UNCHANGED <<flash, step>> /\ step # "done"
<1>1. step # "done" /\ step' = step
  BY DEF Serve, SessionInv, InStep
<1>2. flash' = flash
  BY DEF Serve, Connect, Inert, Assert, ExtFopen, ExtWrite, ExtFclose, ExtBoot,
     FlashEraseAll, FlashWrite, FlashWriteRefused, ProgEnd, Quiet,
     flash_erase_app_all, flash_write_app_page, Call, flashVars
<1> QED
  BY <1>1, <1>2

LEMMA DeviceRefines ==
  ASSUME BootInv, SessionInv, DeviceStep
  PROVE  /\ step' = step /\ step # "done"
         /\ \/ flash' = flash
            \/ disk' = disk /\ (step \in {"erase", "flash_write"} \/ disk = Upload)
<1>1. step' = step
  BY DEF DeviceStep, hostVars
<1>2. pc \notin Resting
  BY DEF DeviceStep, Step, DriverStep, FlashReply, Mount, Format, FopenRemove, FopenOpen,
     BootErased, BootOpen, BootRead, BootWritten, BootClose, BootAck, FlashCall, Resting,
     Waiting
<1>3. step # "done"
  BY <1>2 DEF SessionInv, InStep
<1>4. CASE DriverStep
  BY <1>1, <1>3, <1>4 DEF DriverStep, fsVars, SessionInv, InStep, Staged, FlashCall,
     Resting, Waiting, FopenPc, BootPc
<1>5. CASE ~DriverStep
  BY <1>1, <1>3, <1>5 DEF DeviceStep, Step, FlashReply, Mount, Format, FopenRemove,
     FopenOpen, BootErased, BootOpen, BootRead, BootWritten, BootClose, BootAck, Forget,
     flash_write_app_page, Call, FsInner, FsStep, Quiet, flashVars
<1> QED
  BY <1>4, <1>5

LEMMA FailureRefines ==
  ASSUME BootInv, SessionInv, LosePower \/ Reset
  PROVE  /\ disk' = disk
         /\ \/ /\ flash' = flash /\ (step = "done" <=> step' = "done")
            \/ /\ step # "done" /\ step' # "done"
               /\ step \in {"erase", "flash_write"} \/ disk = Upload
<1>1. PowerLoss
  BY DEF LosePower, Reset
<1>2. step = "done" <=> step' = "done"
  BY DEF LosePower, Reset, Restart, hostVars, SessionInv, InStep
<1>3. pc \in FlashCall => step # "done" /\ (step \in {"erase", "flash_write"} \/ disk = Upload)
  BY DEF SessionInv, InStep, Staged, FlashCall, Resting, Waiting, FopenPc, BootPc
<1> QED
  BY <1>1, <1>2, <1>3, PowerLossLeaves

LEMMA SessionRefines ==
  ASSUME BootInv, SessionInv, BootInv', [SessionNext]_sessionVars
  PROVE  [Update!UpdateNext]_(Update!updateVars)
<1>1. CASE Send \/ GetNoAck \/ LosePacket \/ LoseReply
  <2>1. step # "done" /\ step' # "done" /\ UNCHANGED <<flash, disk>>
    BY <1>1 DEF Send, GetNoAck, LosePacket, LoseReply, Restart, Handled, SessionInv,
       InStep, vars, flashVars, fsVars
  <2> QED
    BY <2>1, StepRefines
<1>2. CASE GetAck
  <2>1. step # "done" /\ UNCHANGED <<flash, disk>>
    BY <1>2 DEF GetAck, Handled, SessionInv, InStep, vars, flashVars, fsVars
  <2>2. step' = "done" => Installed
    BY <1>2 DEF GetAck, Follows, SessionInv, Ended
  <2> QED
    BY <2>1, <2>2, StepRefines
<1>3. CASE Start \/ UNCHANGED sessionVars
  <2>1. UNCHANGED <<flash, disk, step>>
    BY <1>3 DEF Start, PowerOn, APROM_update_enable, sessionVars, vars, flashVars, fsVars,
       hostVars
  <2> QED
    BY <2>1, StepRefines
<1>4. CASE Serve
  BY <1>4, ServeRefines, StepRefines
<1>5. CASE DeviceStep
  BY <1>5, DeviceRefines, StepRefines
<1>6. CASE LosePower \/ Reset
  BY <1>6, FailureRefines, StepRefines
<1> QED
  BY <1>1, <1>2, <1>3, <1>4, <1>5, <1>6 DEF SessionNext

(* Every step of the session is a step of the update or none: through      *)
(* /boot the old application is untouched until the new one is committed   *)
(* whole, and the end is told only of the new one, which then stays.       *)
THEOREM SessionUpdates ==
  SessionSpec => Update!UpdateInit /\ [][Update!UpdateNext]_(Update!updateVars)
<1>1. SessionInit => Update!UpdateInit
  <2> SUFFICES ASSUME SessionInit PROVE Update!UpdateInit
    OBVIOUS
  <2>1. [a \in App |-> flash[a]] \in [App -> Word]
    BY Sections DEF SessionInit, Init, FlashInit
  <2>2. disk # Upload
    BY UploadSeq DEF SessionInit, Init, FsInit
  <2> QED
    BY <2>1, <2>2 DEF SessionInit, Update!UpdateInit
<1>2. BootInv /\ SessionInv /\ BootInv' /\ [SessionNext]_sessionVars =>
        [Update!UpdateNext]_(Update!updateVars)
  BY SessionRefines
<1> QED
  BY <1>1, <1>2, SessionInvariant, PTL DEF SessionSpec
-----------------------------------------------------------------------------
(* What an upload that is cut short leaves.                                *)

\* The file is open for the upload or the boot that is under way.
InUse ==
  \/ pc = "command" /\ step = "ext_write"
  \/ pc = "command" /\ step = "fclose" /\ link # "served"
  \/ pc = "command" /\ step = "fopen" /\ link = "served"
  \/ pc \in {"boot:read", "boot:write"}

LeakInv ==
  /\ leaked <= faults
  /\ mode # "closed" /\ ~InUse => leaked < faults
  /\ pc = "command" /\ link = "served" => reply = ACK

LEMMA LeakTypes ==
  ASSUME BootInv
  PROVE  leaked \in Nat /\ faults \in Nat
BY RecordAssumption, UploadAssumption
DEF BootInv, HostTypes, BootIInv, TypeOK, FsTypeOK

LEMMA ServeLeak ==
  ASSUME BootInv, SessionInv, LeakInv, Serve
  PROVE  LeakInv'
<1> USE DEF LeakInv, InUse
<1>1. UNCHANGED <<step, faults>> /\ link = "request" /\ link' = "served"
  BY DEF Serve
<1>2. CASE \/ step = "connect" /\ (Connect("CHK_PROTOCOL") \/ Inert("CHK_PROTOCOL"))
           \/ step # "connect" /\ Connect("UNKNOWN")
           \/ step = "flash_write" /\ FlashWriteRefused(Upload[next])
           \/ step = "end" /\ ProgEnd
  <2>1. UNCHANGED <<leaked, mode>> /\ (pc = "command" => step \in {"connect", "flash_write", "end"})
    BY <1>2 DEF Connect, Inert, ProgEnd, FlashWriteRefused, Quiet, fsVars
  <2>2. pc' = "command" => step \in {"connect", "flash_write"}
    BY <1>2 DEF Connect, Inert, ProgEnd, FlashWriteRefused
  <2>3. ~(step = "flash_write" /\ FlashWriteRefused(Upload[next]))
    <3>1. next \in 1 .. Len(Upload) /\ Upload[next].addr \in Int
      BY UploadedRecord, RecordFields, FlashAssumption DEF BootInv, HostTypes, Address
    <3>2. Upload[next].addr >= USER_APP_START
      BY <3>1, UploadAssumption
    <3> QED
      BY <3>1, <3>2, FlashAssumption DEF FlashWriteRefused
  <2>4. pc' = "command" => reply' = ACK
    BY <1>2, <2>3 DEF Connect, Inert, ProgEnd, Reply, Query, Refused, Ignored
  <2>5. pc \in Waiting
    BY <1>2 DEF Connect, Inert, ProgEnd, FlashWriteRefused, Waiting
  <2> QED
    BY <1>1, <2>1, <2>2, <2>4, <2>5 DEF Waiting
<1>3. CASE \/ step = "ext_write" /\ (ExtWrite(Upload[next]) \/ Assert("EXT_WRITE"))
           \/ step = "fclose" /\ (ExtFclose \/ Assert("EXT_FCLOSE"))
  BY <1>1, <1>3 DEF ExtWrite, ExtFclose, Assert, lfs_file_append, lfs_file_close, Reply,
     Quiet, fsVars, SessionInv, Staged, MayWrite, MayClose
<1>4. CASE \/ step = "fopen" /\ ExtFopen
           \/ step = "boot" /\ ExtBoot
           \/ step = "erase" /\ FlashEraseAll
           \/ step = "flash_write" /\ FlashWrite(Upload[next])
  BY <1>1, <1>4 DEF ExtFopen, ExtBoot, FlashEraseAll, FlashWrite, fsVars
<1> QED
  BY <1>2, <1>3, <1>4 DEF Serve

LEMMA DeviceLeak ==
  ASSUME BootInv, SessionInv, LeakInv, DeviceStep
  PROVE  LeakInv'
<1> USE DEF LeakInv, InUse
<1>0. UNCHANGED <<step, link, faults>>
  BY DEF DeviceStep, hostVars
<1>1. CASE DriverStep
  BY <1>0, <1>1 DEF DriverStep, bootVars, fsVars
<1>2. CASE FlashReply
  BY <1>0, <1>2 DEF FlashReply, fsVars, Reply, SessionInv, Healthy, InStep
<1>3. CASE Mount
  <2>1. leaked' = IF mode = "closed" THEN leaked ELSE leaked + 1
    BY <1>3 DEF Mount, lfs_mount
  <2> QED
    BY <1>0, <1>3, <2>1, LeakTypes DEF Mount, lfs_mount
<1>4. CASE Format \/ FopenRemove
  BY <1>0, <1>4 DEF Format, FopenRemove, lfs_format, lfs_remove, FsInner
<1>5. CASE FopenOpen
  BY <1>0, <1>5 DEF FopenOpen, lfs_file_open, Reply, SessionInv, InStep, FopenPc,
     Resting, Waiting
<1>6. CASE BootErased \/ BootWritten
  <2>1. res # FAILED
    BY DEF SessionInv, Healthy, SUCCESSED, FAILED
  <2> QED
    BY <1>0, <1>6, <2>1 DEF BootErased, BootWritten, fsVars
<1>7. CASE BootOpen \/ BootRead
  BY <1>0, <1>7 DEF BootOpen, BootRead, lfs_file_open, lfs_file_read, FsInner
<1>8. CASE BootClose
  BY <1>0, <1>8 DEF BootClose, lfs_file_close
<1>9. CASE BootAck
  BY <1>0, <1>9 DEF BootAck, Quiet, fsVars, Reply, SessionInv, InStep, BootPc
<1> QED
  BY <1>1, <1>2, <1>3, <1>4, <1>5, <1>6, <1>7, <1>8, <1>9 DEF DeviceStep, Step

LEMMA LeakNext ==
  ASSUME BootInv, SessionInv, LeakInv, [SessionNext]_sessionVars
  PROVE  LeakInv'
<1> USE DEF LeakInv, InUse
<1>1. CASE Send \/ UNCHANGED sessionVars
  BY <1>1 DEF Send, sessionVars, hostVars, vars, fsVars, bootVars
<1>2. CASE GetAck
  <2>1. /\ pc \in Waiting /\ link = "served" /\ link' = "idle" /\ Follows(step, step')
        /\ UNCHANGED <<pc, reply, mode, leaked, faults>>
    BY <1>2 DEF GetAck, Handled, vars, fsVars, bootVars
  <2>2. InUse => InUse'
    BY <2>1 DEF Follows, Waiting
  <2> QED
    BY <2>1, <2>2
<1>3. CASE GetNoAck
  BY <1>3 DEF GetNoAck, Handled, Restart, Waiting, vars, fsVars, bootVars
<1>4. CASE LosePacket \/ LoseReply
  BY <1>4, LeakTypes DEF LosePacket, LoseReply, Fault, Restart, vars, fsVars, bootVars
<1>5. CASE LosePower \/ Reset
  <2>1. leaked' = 0 /\ mode' = "closed" /\ pc' = "off"
    BY <1>5 DEF LosePower, Reset, PowerLoss, FsPowerLoss
  <2>2. faults' \in {faults, faults + 1}
    BY <1>5 DEF LosePower, Reset, Fault, hostVars
  <2> QED
    BY <2>1, <2>2, LeakTypes
<1>6. CASE Start
  BY <1>6 DEF Start, PowerOn, hostVars, fsVars
<1> QED
  BY <1>1, <1>2, <1>3, <1>4, <1>5, <1>6, ServeLeak, DeviceLeak DEF SessionNext

(* A cache buffer of LittleFS is lost only where a fault cut an upload     *)
(* short: a programmer that keeps to the order of the commands loses none. *)
THEOREM LeaksAreFaults == SessionSpec => []LeaksNeedFaults
<1>1. SessionInit => LeakInv
  BY DEF SessionInit, Init, FsInit, LeakInv
<1>2. BootInv /\ SessionInv /\ LeakInv /\ [SessionNext]_sessionVars => LeakInv'
  BY LeakNext
<1>3. LeakInv => LeaksNeedFaults
  BY DEF LeakInv, LeaksNeedFaults
<1> QED
  BY <1>1, <1>2, <1>3, SessionInvariant, PTL DEF SessionSpec
=============================================================================
