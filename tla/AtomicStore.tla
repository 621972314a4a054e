---------------------------- MODULE AtomicStore ----------------------------
(***************************************************************************)
(* What a metadata pair of LittleFS promises to the code above it: the     *)
(* volume holds one value of the directory.  A commit that returns 0 has   *)
(* stored the new value, one that returns an error has stored nothing, and *)
(* one that a power failure cuts short has done the one or the other.      *)
(***************************************************************************)
CONSTANTS Value, None

VARIABLES
  stored,  \* the value of the directory on the volume
  asked,   \* the value that a commit is to store, or None
  result   \* of the last commit: "ok", "error", or "none" while there is none

storeVars == <<stored, asked, result>>

StoreInit == stored \in Value /\ asked = None /\ result = "none"

Ask ==
  /\ asked = None /\ asked' \in Value \ {stored} /\ result' = "none"
  /\ UNCHANGED stored

Store == asked # None /\ stored' = asked /\ UNCHANGED <<asked, result>>

Succeed ==
  /\ asked # None /\ stored = asked
  /\ asked' = None /\ result' = "ok" /\ UNCHANGED stored

Refuse ==
  /\ asked # None /\ stored # asked
  /\ asked' = None /\ result' = "error" /\ UNCHANGED stored

CutShort == asked' = None /\ result' = "none" /\ UNCHANGED stored

StoreNext == Ask \/ Store \/ Succeed \/ Refuse \/ CutShort

StoreSpec == StoreInit /\ [][StoreNext]_storeVars
=============================================================================
