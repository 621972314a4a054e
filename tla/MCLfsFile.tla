----------------------------- MODULE MCLfsFile -----------------------------
(* Volumes that nothing else is kept on, and volumes that the files of the  *)
(* application nearly fill.                                                 *)
EXTENDS LfsFile

Alone  == {{}}
Shared == {{}, {3, 4, 7, 11}, 2 .. 7 \cup {11}, {2, 4, 6, 8, 11}}

\* Some words read as the number of a block, others as none.
Numbers ==
  [w \in Plain |->
     IF w \in Data THEN (IF w[1] % 2 = 0 THEN w[1] + w[2] ELSE BlockCount + w[2])
     ELSE IF w = Erased THEN 2 * BlockCount - 1 ELSE 0]

\* How many blocks may turn out bad.  In the smallest volume the words of a
\* bad block can go to a block of the same file: see NotCollected.
NoneBad(o)  == 0
OneBad(o)   == 1
OneRoomy(o) == IF Cardinality(o) <= 5 THEN 1 ELSE 0
=============================================================================
