------------------------------- MODULE LfsPair -------------------------------
(***************************************************************************)
(* A metadata pair of LittleFS: two blocks that are written in turn.  A    *)
(* commit is appended to the one in use, or, when there is no room or the  *)
(* rest of the block is not erased, the other block is erased and gets the *)
(* whole directory under the next revision.  lfs_dir_fetch() takes the     *)
(* block with the more recent revision and reads its commits up to the     *)
(* first with a wrong check sum.                                           *)
(*                                                                         *)
(* The unit of space is prog_size, that of time one program or erase       *)
(* command.  A power failure leaves the unit being programmed, or all of a *)
(* block being erased, with any content.  After a reset of the processor   *)
(* alone the chip is taken to be done with its command before the volume   *)
(* is mounted; SpiFlash says what it does before.  A check sum is right    *)
(* when all units of the commit are as they were written.                  *)
(*                                                                         *)
(* The pair is {0, 1}, the root and only directory of the boot loader's    *)
(* volume.  It cannot be relocated.  Splitting a directory, and expanding  *)
(* the superblock every 501 revisions, are not part of the model, nor is   *)
(* the global state, which moves and orphans need and this volume has not. *)
(***************************************************************************)
EXTENDS Integers, Sequences, FiniteSets

CONSTANTS
  Value,       \* what a directory can hold
  None,        \* no commit is under way
  BlockUnits,  \* units of a block, 256
  CommitUnits, \* the lengths of commits, in units
  Revisions    \* number of revision counts, 2^32

ASSUME PairAssumption ==
  /\ None \notin Value
  /\ BlockUnits \in Nat \ {0}
  /\ CommitUnits \subseteq 1 .. BlockUnits /\ CommitUnits # {}
  /\ Revisions \in Nat /\ Revisions >= 4 /\ Revisions % 2 = 0

Block    == {0, 1}
Revision == 0 .. Revisions - 1

NoRev == -1

(* Part k of n of a commit that leaves the directory with value v.  The    *)
(* first commit of a block begins with the revision.  The last unit holds  *)
(* the check sum, and whether the next unit was erased (LFS_TYPE_FCRC).    *)
Part == [kind : {"part"}, v : Value, k : 1 .. BlockUnits, n : CommitUnits,
         rev : Revision \cup {NoRev}, fcrc : BOOLEAN]

Erased  == [kind |-> "erased"]
Garbage == [kind |-> "garbage"]

Unit == {Erased, Garbage} \cup Part

VARIABLES
  disk,    \* the units of the two blocks
  phase,   \* what lfs_dir_commit() is doing; "off" before lfs_mount()
  pair,    \* dir->pair[0], the block in use
  rev,     \* dir->rev
  off,     \* dir->off, in units
  erased,  \* dir->erased
  asked,   \* the value to be committed
  size,    \* units of the commit, 0 when there is none
  next,    \* the part to be programmed next
  result,  \* what lfs_dir_commit() returned last
  stored   \* history: the directory that lfs_mount() would find

dirVars  == <<pair, rev, off, erased>>
pairVars == <<disk, phase, dirVars, asked, size, next, result, stored>>

Phase == {"off", "idle", "append", "check", "erase", "compact", "recheck"}

PairTypeOK ==
  /\ disk \in [Block -> [1 .. BlockUnits -> Unit]]
  /\ phase \in Phase
  /\ pair \in Block /\ rev \in Revision
  /\ off \in 0 .. BlockUnits /\ erased \in BOOLEAN
  /\ asked \in Value \cup {None} /\ size \in CommitUnits \cup {0}
  /\ next \in 1 .. BlockUnits + 1
  /\ result \in {"none", "ok", "error"}
  /\ stored \in Value \cup {None}

-----------------------------------------------------------------------------
(* Reading.                                                                *)

(* The commit that begins after unit p of block b has the right check sum. *)
(* When the commit before it found something else than an erased unit, it  *)
(* has perturbed the valid bit, and what it found does not pass for a tag. *)
CommitAt(b, p) ==
  /\ p < BlockUnits /\ b[p + 1].kind = "part"
  /\ p > 0 => b[p].fcrc
  /\ LET u == b[p + 1] IN
       /\ p + u.n <= BlockUnits
       /\ (u.rev = NoRev) <=> (p > 0)
       /\ \A j \in 1 .. u.n :
            /\ b[p + j].kind = "part"
            /\ [b[p + j] EXCEPT !.fcrc = u.fcrc] = [u EXCEPT !.k = j]

\* Where the commits of block b end: 0 when there is none.
End(b) ==
  LET end[p \in 0 .. BlockUnits] ==
        IF CommitAt(b, p) THEN end[p + b[p + 1].n] ELSE p
  IN  end[0]

\* The revisions that reading the first word of block b can give.
Revs(b) ==
  IF b[1].kind = "part" THEN {b[1].rev}
  ELSE IF b[1] = Erased THEN {Revisions - 1} ELSE Revision

\* Mutant of lfs_scmp: the revisions are compared as numbers.
PlainCompare(r, s) == r > s

\* Revision r is more recent than s: their signed distance is positive.
lfs_scmp(r, s) == (r - s) % Revisions \in 1 .. Revisions \div 2 - 1

\* The blocks of d that can seem the more recent one, whatever garbage reads as.
Recent(d) == {IF lfs_scmp(s, r) THEN 1 ELSE 0 : r \in Revs(d[0]), s \in Revs(d[1])}

\* Mutant of Taken: the other block is not tried.
TakenRecent(d, c) == c

\* The block lfs_dir_fetchmatch() takes when c seems the more recent one.
Taken(d, c) == IF End(d[c]) > 0 THEN c ELSE 1 - c

\* The directories that a fetch from disk d can find.
Fetched(d) ==
  {LET b == d[Taken(d, c)]
       e == End(b)
   IN  IF e = 0 THEN None ELSE b[e].v : c \in Recent(d)}

\* The one that all of them are, if there is one.
Found(d) ==
  LET F == Fetched(d)
  IN  IF \E v \in Value : F = {v} THEN CHOOSE v \in Value : F = {v} ELSE None

(* lfs_mount(), and lfs_dir_fetchmatch() in it.  The block can be appended *)
(* to when the unit after the last commit is as the commit found it.       *)
lfs_mount ==
  /\ phase = "off" /\ phase' = "idle"
  /\ \E c \in Recent(disk) : pair' = Taken(disk, c)
  /\ off' = End(disk[pair']) /\ off' > 0
  /\ rev' = disk[pair'][1].rev
  /\ IF off' = BlockUnits THEN erased' = FALSE
     ELSE LET blank == disk[pair'][off' + 1] = Erased
          IN  IF disk[pair'][off'].fcrc THEN erased' = blank
              ELSE erased' \in {FALSE, ~blank}
  /\ result' = "none"
  /\ UNCHANGED <<disk, asked, size, next>>

-----------------------------------------------------------------------------
(* Programming.                                                            *)

\* Unit i of block b of the disk, after u has been programmed there.
Programmed(b, i, u) ==
  IF disk[b][i] \in {Erased, u} THEN u ELSE Garbage

\* The part of the commit that is next, for unit i of block b.
NextPart(b, i, r) ==
  [kind |-> "part", v |-> asked, k |-> next, n |-> size, rev |-> r,
   fcrc |-> next = size /\ i < BlockUnits /\ disk[b][i + 1] = Erased]

\* The driver sees no error, even when the unit is worn out.
Program(b, i, r) ==
  /\ \E u \in {Programmed(b, i, NextPart(b, i, r)), Garbage} :
       disk' = [disk EXCEPT ![b][i] = u]
  /\ next' = next + 1
  /\ UNCHANGED <<dirVars, asked, size, result>>

\* All parts of the commit behind unit p of block b are there.
Sound(b, p, r) ==
  /\ CommitAt(disk[b], p)
  /\ disk[b][p + 1].v = asked /\ disk[b][p + 1].n = size /\ disk[b][p + 1].rev = r

\* Mutant of NextRev: it is wider than the word on the disk.
NextRevWide == rev + 1

NextRev == (rev + 1) % Revisions

(* lfs_dir_commit(): attributes that leave the directory with value v.     *)
Commit(v, n) ==
  /\ phase = "idle"
  /\ asked' = v /\ size' = n /\ next' = 1 /\ result' = "none"
  /\ phase' = IF erased THEN "append" ELSE "erase"
  /\ UNCHANGED <<disk, dirVars>>

AppendPart ==
  /\ phase = "append" /\ next <= size /\ off + next <= BlockUnits
  /\ Program(pair, off + next, NoRev)
  /\ phase' = IF next' > size THEN "check" ELSE "append"

(* The commit is found too long when some of it may have been programmed.  *)
(* The whole directory need not have the length of the commit.             *)
NoRoom ==
  /\ phase = "append" /\ off + size > BlockUnits
  /\ phase' = "erase" /\ next' = 1 /\ size' \in CommitUnits
  /\ UNCHANGED <<disk, dirVars, asked, result>>

Done(r) ==
  phase' = "idle" /\ asked' = None /\ size' = 0 /\ next' = 1 /\ result' = r

\* Mutant of Check: the commit is not read back.
CheckNot ==
  /\ phase = "check"
  /\ Done("ok") /\ off' = off + size
  /\ UNCHANGED <<disk, pair, rev, erased>>

\* The end of lfs_dir_commitcrc(): the commit is read back.
Check ==
  /\ phase = "check"
  /\ IF Sound(pair, off, NoRev)
     THEN /\ Done("ok") /\ off' = off + size
          /\ UNCHANGED <<disk, pair, rev, erased>>
     ELSE /\ phase' = "erase" /\ next' = 1 /\ size' \in CommitUnits
          /\ UNCHANGED <<disk, dirVars, asked, result>>

\* Mutant of Erase: the block in use is erased.
EraseSame ==
  /\ phase = "erase" /\ phase' = "compact"
  /\ disk' = [disk EXCEPT ![pair] = [i \in 1 .. BlockUnits |-> Erased]]
  /\ UNCHANGED <<dirVars, asked, size, next, result>>

(* lfs_dir_compact().                                                      *)
Erase ==
  /\ phase = "erase" /\ phase' = "compact"
  /\ disk' = [disk EXCEPT ![1 - pair] = [i \in 1 .. BlockUnits |-> Erased]]
  /\ UNCHANGED <<dirVars, asked, size, next, result>>

CompactPart ==
  /\ phase = "compact"
  /\ Program(1 - pair, next, NextRev)
  /\ phase' = IF next' > size THEN "recheck" ELSE "compact"

(* On success the pair is swapped; dir->erased stays as it was.  On a      *)
(* mismatch the pair {0, 1} is found unwritable, and the caller's dir is   *)
(* as it was.                                                              *)
Recheck ==
  /\ phase = "recheck"
  /\ IF Sound(1 - pair, 0, NextRev)
     THEN /\ Done("ok") /\ pair' = 1 - pair /\ rev' = NextRev /\ off' = size
          /\ UNCHANGED <<disk, erased>>
     ELSE /\ Done("error")
          /\ UNCHANGED <<disk, dirVars>>

-----------------------------------------------------------------------------
(* Power failures and resets.  What was in RAM is gone.                    *)

Lost ==
  /\ phase' = "off" /\ asked' = None /\ result' = "none"
  /\ pair' = 0 /\ rev' = 0 /\ off' = 0 /\ erased' = FALSE
  /\ size' = 0 /\ next' = 1

Reset == phase # "off" /\ Lost /\ UNCHANGED disk

\* In the middle of a program command that changes something.
TornProgram ==
  /\ phase \in {"append", "compact"}
  /\ LET b == IF phase = "append" THEN pair ELSE 1 - pair
         i == IF phase = "append" THEN off + next ELSE next
         r == IF phase = "append" THEN NoRev ELSE NextRev
     IN  /\ i <= BlockUnits /\ disk[b][i] # NextPart(b, i, r)
         /\ disk' = [disk EXCEPT ![b][i] = Garbage]
  /\ Lost

\* In the middle of an erase command.
TornErase ==
  /\ phase = "erase"
  /\ \E left \in [1 .. BlockUnits -> {"as it was", "erased", "garbage"}] :
       disk' = [disk EXCEPT ![1 - pair] =
                 [i \in 1 .. BlockUnits |->
                    IF left[i] = "erased" THEN Erased
                    ELSE IF left[i] = "garbage" THEN Garbage ELSE disk[1 - pair][i]]]
  /\ Lost

-----------------------------------------------------------------------------

(* After lfs_format(): one commit in each block, of the same directory.    *)
PairInit ==
  /\ \E v \in Value, n \in CommitUnits, r \in Revision :
       disk = [b \in Block |-> [i \in 1 .. BlockUnits |->
                IF i <= n
                THEN [kind |-> "part", v |-> v, k |-> i, n |-> n,
                      rev |-> (r + b) % Revisions, fcrc |-> i = n /\ n < BlockUnits]
                ELSE Erased]]
  /\ stored = Found(disk)
  /\ phase = "off" /\ pair = 0 /\ rev = 0 /\ off = 0 /\ erased = FALSE
  /\ asked = None /\ size = 0 /\ next = 1
  /\ result = "none"

PairNext ==
  /\ \/ lfs_mount
     \/ \E v \in Value \ {stored}, n \in CommitUnits : Commit(v, n)
     \/ AppendPart \/ NoRoom \/ Check
     \/ Erase \/ CompactPart \/ Recheck
     \/ Reset \/ TornProgram \/ TornErase
  /\ \E d \in {disk'} : stored' = IF d = disk THEN stored ELSE Found(d)

PairSpec == PairInit /\ [][PairNext]_pairVars

-----------------------------------------------------------------------------
(* Properties.                                                             *)

(* Whatever power failures and resets leave of the two blocks, the         *)
(* next lfs_mount() finds one directory, and which one does not depend on  *)
(* what garbage reads as.                                                  *)
AlwaysMountable == stored # None /\ Fetched(disk) = {stored}

Store == INSTANCE AtomicStore

(* The pair is an atomic store: this is what BootFs and the boot loader    *)
(* rely on when they take a commit for one step.                           *)
ImplementsStore == Store!StoreSpec

(* While a volume is mounted, what lfs_dir_fetch() found is still what is  *)
(* on the disk: the block in use, its revision and its end.                *)
DirTrue ==
  phase # "off" =>
    /\ disk[pair][1].rev = rev
    /\ phase = "idle" =>
         pair \in {Taken(disk, c) : c \in Recent(disk)} /\ End(disk[pair]) = off
    /\ End(disk[pair]) > off => phase \in {"append", "check"}
=============================================================================
