----------------------------- MODULE BootSession -----------------------------
(***************************************************************************)
(* A programmer that updates the application through the boot loader, on a *)
(* link that loses packets and replies, with a power supply that fails.    *)
(*                                                                         *)
(* The programmer is external.  It keeps to the order the handlers of      *)
(* bl_command_process() need: CHK_PROTOCOL first, EXT_WRITE and EXT_FCLOSE *)
(* after EXT_FOPEN only, one packet at a time, its time-out longer than    *)
(* any handler.  It never repeats a single command: whatever goes wrong,   *)
(* it starts again with CHK_PROTOCOL.                                      *)
(***************************************************************************)
EXTENDS BootLoader

CONSTANTS
  Upload,    \* the records of the new application
  MaxFaults  \* bound: lost packets, lost replies and power failures

ASSUME UploadAssumption ==
  /\ Upload \in Seq(Record) /\ Len(Upload) \in 1 .. MaxFile
  /\ \A n \in 1 .. Len(Upload) :
       Upload[n].addr >= USER_APP_START /\ Upload[n].addr + PageWords - 1 <= USER_APP_END
  /\ MaxFaults \in Nat

VARIABLES
  step,    \* what the programmer is about to do, or waits to be done
  next,    \* the record it sends next
  link,    \* its packet: not sent, on the way, or taken by the boot loader
  faults   \* faults so far

hostVars == <<step, next, link, faults>>
sessionVars == <<vars, hostVars>>

HostStep == {"connect", "fopen", "ext_write", "fclose", "boot",
             "erase", "flash_write", "end", "done"}

SessionTypeOK ==
  /\ TypeOK
  /\ step \in HostStep /\ next \in 1 .. Len(Upload)
  /\ link \in {"idle", "request", "served"} /\ faults \in 0 .. MaxFaults

SessionInit ==
  /\ Init
  /\ step = "connect" /\ next = 1 /\ link = "idle" /\ faults = 0

-----------------------------------------------------------------------------
(* The programmer.                                                         *)

Send ==
  /\ step # "done" /\ link = "idle"
  /\ link' = "request"
  /\ UNCHANGED <<vars, step, next, faults>>

\* The boot loader has taken the packet and waits for another one.
Handled == link = "served" /\ pc \in Waiting

Restart == step' = "connect" /\ next' = 1 /\ link' = "idle"

Last == next = Len(Upload)

\* The step after an acknowledged one: through /boot, or page by page.
Follows(s, t) ==
  \/ s = "connect" /\ t \in {"fopen", "erase"}
  \/ s = "fopen" /\ t = "ext_write"
  \/ s = "ext_write" /\ t = IF Last THEN "fclose" ELSE "ext_write"
  \/ s = "fclose" /\ t = "boot"
  \/ s = "boot" /\ t = "end"
  \/ s = "erase" /\ t = "flash_write"
  \/ s = "flash_write" /\ t = IF Last THEN "end" ELSE "flash_write"
  \/ s = "end" /\ t = "done"

GetAck ==
  /\ Handled /\ reply = ACK
  /\ \E t \in HostStep : Follows(step, t) /\ step' = t
  /\ next' = IF step \in {"ext_write", "flash_write"} /\ ~Last THEN next + 1 ELSE 1
  /\ link' = "idle"
  /\ UNCHANGED <<vars, faults>>

\* A NACK, or a time-out on a command the boot loader does not answer.
GetNoAck ==
  /\ Handled /\ reply # ACK
  /\ Restart
  /\ UNCHANGED <<vars, faults>>

-----------------------------------------------------------------------------
(* The boot loader takes the packet.                                       *)

Serve ==
  /\ link = "request" /\ link' = "served"
  /\ \/ step = "connect" /\ (Connect("CHK_PROTOCOL") \/ Inert("CHK_PROTOCOL"))
     \/ step # "connect" /\ Connect("UNKNOWN")
     \/ step = "fopen" /\ ExtFopen
     \/ step = "ext_write" /\ (ExtWrite(Upload[next]) \/ Assert("EXT_WRITE"))
     \/ step = "fclose" /\ (ExtFclose \/ Assert("EXT_FCLOSE"))
     \/ step = "boot" /\ ExtBoot
     \/ step = "erase" /\ FlashEraseAll
     \/ step = "flash_write" /\ (FlashWrite(Upload[next])
                                   \/ FlashWriteRefused(Upload[next]))
     \/ step = "end" /\ ProgEnd
  /\ UNCHANGED <<step, next, faults>>

DeviceStep == Step /\ UNCHANGED hostVars

\* The PROG pin is held until the update is done.
Start ==
  /\ PowerOn /\ pc' = IF step = "done" THEN "app" ELSE "connect"
  /\ UNCHANGED hostVars

-----------------------------------------------------------------------------
(* Faults.                                                                 *)

Fault == faults < MaxFaults /\ faults' = faults + 1

LosePacket == Fault /\ link = "request" /\ Restart /\ UNCHANGED vars

LoseReply == Fault /\ Handled /\ Restart /\ UNCHANGED vars

\* A programmer that waits for a reply times out, another one sees nothing.
LosePower ==
  /\ Fault /\ PowerLoss
  /\ IF link = "idle" THEN UNCHANGED <<step, next, link>> ELSE Restart

\* The operator resets the board into the new application.
Reset ==
  /\ step = "done" /\ pc # "off" /\ pc # "app"
  /\ PowerLoss
  /\ UNCHANGED hostVars

SessionNext ==
  \/ Send \/ GetAck \/ GetNoAck
  \/ Serve \/ DeviceStep \/ Start
  \/ LosePacket \/ LoseReply \/ LosePower \/ Reset

(* The processor runs whenever it is powered, and the programmer does not  *)
(* give up.                                                                *)
SessionFairness ==
  /\ WF_sessionVars(Send \/ GetAck \/ GetNoAck)
  /\ WF_sessionVars(Serve \/ DeviceStep \/ Start)

SessionSpec == SessionInit /\ [][SessionNext]_sessionVars /\ SessionFairness

-----------------------------------------------------------------------------
(* Properties.                                                             *)

(* A programmer that has gone through to PROG_END, by either way and after *)
(* whatever faults, has installed exactly the application it sent, and     *)
(* the board never jumps to anything else.                                 *)
DoneMeansInstalled ==
  (step = "done" \/ pc = "app") =>
    \A a \in App : flash[a] = Image({Upload[n] : n \in 1 .. Len(Upload)}, a)

(* The assertions of LittleFS never stop the boot loader: a restart in the *)
(* middle of an upload is answered with NACK until the handshake.          *)
NeverHangs == pc # "hung"

(* A cache buffer of LittleFS is lost only where a fault cut an upload     *)
(* short.                                                                  *)
LeaksNeedFaults == leaked <= faults

(* The update is finished once the faults stop.                            *)
Finishes == <>[](step = "done")

Update == INSTANCE FirmwareUpdate WITH
  Content <- [App -> Word],
  New     <- [a \in App |-> Image({Upload[n] : n \in 1 .. Len(Upload)}, a)],
  app     <- [a \in App |-> flash[a]],
  whole   <- disk = Upload,
  direct  <- step \in {"erase", "flash_write"},
  done    <- step = "done"

(* The session implements the update as its user sees it: through /boot,   *)
(* the old application is not touched before the new one is committed      *)
(* whole; by either way it is the new one when the programmer is told so,  *)
(* stays so, and the end is reached.                                       *)
ImplementsUpdate == Update!UpdateSpec
=============================================================================
