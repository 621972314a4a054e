---------------------------- MODULE MCBootLoader ----------------------------
(* Two-word pages of a one-bit word, and a section of two words: the page  *)
(* that fills the section, one that crosses its end, and one that starts   *)
(* below it.                                                               *)
EXTENDS BootLoader

CONSTANT b0

Records ==
  {[addr |-> USER_APP_START,     data |-> [k \in Index |-> IF k = 0 THEN {b0} ELSE {}]],
   [addr |-> USER_APP_END,       data |-> [k \in Index |-> {}]],
   [addr |-> USER_APP_START - 1, data |-> [k \in Index |-> {}]]}
=============================================================================
