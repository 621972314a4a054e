--------------------------- MODULE MCBootSession ---------------------------
(* An update of two overlapping pages.                                     *)
EXTENDS BootSession

CONSTANT b0

Low  == [addr |-> USER_APP_START,
         data |-> [k \in Index |-> IF k = 0 THEN {} ELSE {b0}]]
High == [addr |-> USER_APP_START + 1,
         data |-> [k \in Index |-> IF k = 0 THEN {b0} ELSE {}]]

TwoRecords == {Low, High}
TwoPages   == <<Low, High>>
=============================================================================
