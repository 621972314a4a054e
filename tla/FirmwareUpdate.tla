--------------------------- MODULE FirmwareUpdate ---------------------------
(***************************************************************************)
(* What an update of the application promises, without a packet, a page or *)
(* a word in it.  There is what the application section holds, and a copy  *)
(* of the new application on the external flash that is whole or is not.   *)
(* An update that goes through the copy leaves the application that is     *)
(* there alone until the copy is whole; a direct one may spoil it at once. *)
(* Nobody is told that the update is done before the section holds the new *)
(* application, and from then on it stays.                                 *)
(***************************************************************************)
CONSTANTS
  Content,  \* what the application section can hold
  New       \* the new application

VARIABLES
  app,     \* what the application section holds
  whole,   \* the copy on the external flash is the new application
  direct,  \* the programmer is writing the section itself
  done     \* the programmer was told that the update is done

updateVars == <<app, whole, direct, done>>

UpdateInit ==
  /\ app \in Content
  /\ whole = FALSE /\ direct = FALSE /\ done = FALSE

(* The section is erased or written, in one of many steps or by a command  *)
(* that a power failure cuts short; the programmer may learn of it at once.*)
Touch ==
  /\ ~done /\ (direct \/ whole)
  /\ app' \in Content /\ direct' \in BOOLEAN
  /\ UNCHANGED <<whole, done>>

\* The programmer chooses its way, or starts again.
Choose == ~done /\ direct' \in BOOLEAN /\ UNCHANGED <<app, whole, done>>

\* The copy is completed at once, or lost.
Stage == ~done /\ whole' \in BOOLEAN /\ UNCHANGED <<app, direct, done>>

Confirm ==
  /\ app = New /\ done' = TRUE
  /\ direct' = FALSE /\ UNCHANGED <<app, whole>>

UpdateNext == Touch \/ Choose \/ Stage \/ Confirm

(* Faults stop, and then the update comes to its end.                      *)
UpdateSpec == UpdateInit /\ [][UpdateNext]_updateVars /\ <>done
=============================================================================
