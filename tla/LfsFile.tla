------------------------------- MODULE LfsFile -------------------------------
(***************************************************************************)
(* The upload of /boot inside LittleFS: how lfs_file_write() gets blocks   *)
(* from the allocator, chains them, and copies the last one when the file  *)
(* grows, and what lfs_file_close() commits.                               *)
(*                                                                         *)
(* The boot loader rewinds the file before each write, which flushes it,   *)
(* and LFS_O_APPEND goes back to its end: each record begins with a copy   *)
(* of the last block, unless that is full.                                 *)
(*                                                                         *)
(* The unit is the word of four bytes.  A record has more words than a     *)
(* file that is kept in the directory (cache_size).  The caches are        *)
(* written through.  A commit of the directory is one step (LfsPair).      *)
(***************************************************************************)
EXTENDS Integers, Sequences, FiniteSets, FiniteSetsExt

CONSTANTS
  BlockCount,  \* blocks of the volume, 4096
  BlockWords,  \* words of a block, 1024
  Lookahead,   \* blocks of the lookahead buffer, 128
  RecordWords, \* words of a record, 129
  Others,      \* the sets of blocks that other files can occupy
  AsBlock,     \* what a word that is no pointer reads as, as a block number
  MaxRecords,  \* bound: records of an upload
  MaxBad(_)    \* bound: blocks that turn out bad during an upload, beside
               \* these other files

Block == 0 .. BlockCount - 1
Pair  == {0, 1}

\* The bits that an index can have, their values, and the indices.
Bit == 0 .. 29
Pow2 == LET pow[k \in 0 .. 30] == IF k = 0 THEN 1 ELSE 2 * pow[k - 1]
        IN  [k \in 0 .. 30 |-> pow[k]]
Index == 0 .. Pow2[29] - 1

(* A word is erased, a pointer, word k of record r, or spoilt.             *)
Erased  == <<>>
Spoilt  == <<0, 0>>
Data    == (1 .. MaxRecords) \X (1 .. RecordWords)
Plain   == {Erased, Spoilt} \cup Data

(* What is read as a block number need not be that of a block.  Corrupt    *)
(* stands for LFS_ERR_CORRUPT, the error of lfs_bd_read() for such a one.  *)
Number  == Block \cup {AsBlock[w] : w \in Plain}
Corrupt == -1

Pointer == {<<h>> : h \in Number}
Word    == Plain \cup Pointer

ASSUME FileAssumption ==
  /\ BlockCount \in Nat /\ BlockCount > 2
  /\ Lookahead \in Nat \ {0} /\ RecordWords \in Nat \ {0}
  /\ Others \subseteq SUBSET (Block \ Pair)
  /\ AsBlock \in [Plain -> Nat]
  /\ MaxRecords \in Nat /\ \A o \in Others : MaxBad(o) \in Nat
  /\ BlockWords \in Nat /\ BlockWords > 3  \* lfs_init() asserts more than is needed:
  /\ \E k \in Bit : /\ k <= BlockWords - 3
                    /\ MaxRecords * RecordWords <= (BlockWords - 2) * Pow2[k]

VARIABLES
  words,   \* the words of each block
  other,   \* the blocks of other files
  entry,   \* the directory entry of /boot: head and size of its chain
  phase,   \* where lfs_file_write() is
  todo,    \* words of the record that are still to be written
  why,     \* what a block is allocated for
  nblock,  \* the block that was allocated
  free,    \* lfs->free: off, size, i, ack, and used, the bits that are set
  file,    \* lfs_file_t: block, off, pos, ctz, and the flags
  log,     \* history: the words that were written to the file
  sent,    \* history: the records sent since FOPEN
  failed,  \* history: one of these writes returned an error
  bad,     \* history: bad blocks found since FOPEN
  kept     \* history: what log was when entry was committed

fileVars == <<words, other, entry, phase, todo, why, nblock, free, file,
              log, sent, failed, bad, kept>>

Chain == [head : Block, size : 0 .. MaxRecords * RecordWords]
Empty == [head |-> 0, size |-> 0]

FileTypeOK ==
  /\ words \in [Block -> [0 .. BlockWords - 1 -> Word]]
  /\ entry \in Chain /\ file.ctz \in Chain
  /\ phase \in {"closed", "idle", "write", "alloc", "got", "stuck", "again", "hung"}
  /\ why \in {"extend", "relocate"} /\ nblock \in Block
  /\ todo \in 0 .. RecordWords
  /\ file.block \in Number /\ file.off \in 0 .. BlockWords
  /\ file.pos \in 0 .. MaxRecords * RecordWords
  /\ free.off \in Block /\ free.i \in 0 .. free.size
  /\ free.size - free.i <= free.ack /\ free.ack <= BlockCount

-----------------------------------------------------------------------------
(* lfs_util.h, and the chain of the blocks of a file.                      *)

Bits(a) == {k \in Bit : (a \div Pow2[k]) % 2 = 1}

lfs_popc(a) == Cardinality(Bits(a))
lfs_ctz(a)  == Min(Bits(a))
lfs_npw2(a) == Min({k \in Bit : Pow2[k] >= a})

\* The index in its chain of the block that holds word pos.
lfs_ctz_index(pos) ==
  LET b == BlockWords - 2
      i == pos \div b
  IN  IF i = 0 THEN 0 ELSE (pos - (lfs_popc(i - 1) + 2)) \div b

\* Where in this block it is.
Offset(pos) ==
  LET i == lfs_ctz_index(pos)
  IN  IF i = 0 THEN pos ELSE pos - (BlockWords - 2) * i - lfs_popc(i)

\* Word k of block h, as a block number.
Ptr(h, k) == IF words[h][k] \in Plain THEN AsBlock[words[h][k]] ELSE words[h][k][1]

\* What lfs_bd_read() checks.
Readable(h, k) == h \in Block /\ k < BlockWords

\* Mutant of Skip: one pointer too far.
SkipFar(current, target) == lfs_ctz(current)

\* The pointer to follow from index current on the way to index target.
Skip(current, target) ==
  Min({lfs_npw2(current - target + 1) - 1, lfs_ctz(current)})

\* The block of word pos in the chain of this head and size.
lfs_ctz_find(chain, pos) ==
  LET target == lfs_ctz_index(pos)
      find[current \in Index] ==
        [h \in Number |->
          IF current <= target THEN h
          ELSE LET skip == Skip(current, target)
               IN  IF ~Readable(h, skip) THEN Corrupt
                   ELSE find[current - Pow2[skip]][Ptr(h, skip)]]
  IN  find[lfs_ctz_index(chain.size - 1)][chain.head]

\* The blocks of the chain, two at a time, and Corrupt if the walk fails.
lfs_ctz_traverse(chain) ==
  LET walk[index \in Index] ==
        [h \in Number |->
          IF index = 0 THEN {h}
          ELSE IF ~Readable(h, 1) THEN {h, Corrupt}
          ELSE IF index % 2 = 1 THEN {h} \cup walk[index - 1][Ptr(h, 0)]
          ELSE {h, Ptr(h, 0)} \cup walk[index - 2][Ptr(h, 1)]]
  IN  IF chain.size = 0 THEN {} ELSE walk[lfs_ctz_index(chain.size - 1)][chain.head]

\* The chain that is being written.
Growing == [head |-> file.block, size |-> file.pos]

\* Mutant of lfs_fs_rawtraverse: not those that were flushed.
TraverseWriting ==
  Pair \cup other \cup lfs_ctz_traverse(entry)
    \cup (IF file.writing /\ ~file.inline THEN lfs_ctz_traverse(Growing) ELSE {})

(* lfs_fs_rawtraverse(): the blocks in use, by the directory and by the    *)
(* open file, and Corrupt if it returns an error.                          *)
lfs_fs_rawtraverse ==
  Pair \cup other \cup lfs_ctz_traverse(entry)
    \cup (IF file.dirty /\ ~file.inline THEN lfs_ctz_traverse(file.ctz) ELSE {})
    \cup (IF file.writing /\ ~file.inline THEN lfs_ctz_traverse(Growing) ELSE {})

-----------------------------------------------------------------------------
(* The allocator.                                                          *)

\* Mutant of lfs_alloc_ack: the blocks that were looked at still count.
AckNot == free

lfs_alloc_ack == [free EXCEPT !.ack = BlockCount]

\* lfs_mount() starts at a block that depends on the check sums it has read.
lfs_alloc_drop(off) ==
  [off |-> off, size |-> 0, i |-> 0, ack |-> BlockCount, used |-> {}]

\* The free entries of the lookahead buffer that were not looked at yet.
Ahead == {j \in free.i .. free.size - 1 : j \notin free.used}

(* The first of them, and on to the one after it.                          *)
AllocTake ==
  /\ phase = "alloc" /\ Ahead # {} /\ phase' = "got"
  /\ nblock' = (free.off + Min(Ahead)) % BlockCount
  /\ \E next \in {Min((Ahead \ {Min(Ahead)}) \cup {free.size})} :
       free' = [free EXCEPT !.i = next, !.ack = @ - (next - free.i)]
  /\ UNCHANGED <<words, other, entry, todo, why, file, log, sent, failed, bad, kept>>

\* What free is after all of the buffer was looked at, and the rest of it.
Left == free.ack - (free.size - free.i)

\* Mutant of Part: more than is left to look at.
PartWhole(left) == Lookahead

Part(left) == Min({Lookahead, left})

NextOff == (free.off + free.size) % BlockCount

\* lfs_alloc_lookahead() takes any number modulo the number of blocks.
Bitmap(off, size) ==
  {j \in 0 .. size - 1 :
     \E h \in lfs_fs_rawtraverse : h % BlockCount = (off + j) % BlockCount}

\* The next part of the volume.
AllocScan ==
  /\ phase = "alloc" /\ Ahead = {} /\ Left > 0 /\ Corrupt \notin lfs_fs_rawtraverse
  /\ free' = [off |-> NextOff, size |-> Part(Left), i |-> 0, ack |-> Left,
              used |-> Bitmap(NextOff, Part(Left))]
  /\ UNCHANGED <<words, other, entry, phase, todo, why, nblock, file,
                 log, sent, failed, bad, kept>>

(* The write returns an error, which the boot loader drops.  Words that    *)
(* were to be moved from a bad block stay in the cache of the file.        *)
WriteFails ==
  /\ phase' = IF phase = "alloc" /\ why = "relocate" /\ file.writing THEN "stuck" ELSE "idle"
  /\ todo' = 0 /\ file' = [file EXCEPT !.erred = TRUE] /\ failed' = TRUE

\* LFS_ERR_NOSPC.
AllocFail ==
  /\ phase = "alloc" /\ Ahead = {} /\ Left = 0
  /\ WriteFails /\ free' = [free EXCEPT !.i = free.size, !.ack = 0]
  /\ UNCHANGED <<words, other, entry, why, nblock, log, sent, bad, kept>>

\* The walk over the blocks in use fails, and with it the write.
AllocCorrupt ==
  /\ phase = "alloc" /\ Ahead = {} /\ Left > 0 /\ Corrupt \in lfs_fs_rawtraverse
  /\ WriteFails /\ free' = lfs_alloc_drop(NextOff)
  /\ UNCHANGED <<words, other, entry, why, nblock, log, sent, bad, kept>>

-----------------------------------------------------------------------------
(* The file.                                                               *)

\* Blocks that were in use and are not erased.
Stale == [b \in Block |-> [i \in 0 .. BlockWords - 1 |-> Spoilt]]

NewFile ==
  [block |-> 0, off |-> 0, pos |-> 0, ctz |-> Empty,
   inline |-> TRUE, writing |-> FALSE, dirty |-> FALSE, erred |-> FALSE]

(* FOPEN: lfs_mount(), lfs_remove() and lfs_file_open(), which commits an  *)
(* empty file.  What earlier uploads left in the blocks is not kept apart. *)
Fopen ==
  /\ phase \in {"closed", "idle", "stuck"} /\ phase' = "idle"
  /\ entry' = Empty /\ kept' = <<>> /\ words' = Stale
  /\ \E off \in Block : free' = lfs_alloc_drop(off)
  /\ file' = NewFile
  /\ log' = <<>> /\ sent' = 0 /\ failed' = FALSE /\ bad' = 0
  /\ UNCHANGED <<other, todo, why, nblock>>

\* Mutant of lfs_file_flush: the file is not marked as changed.
FlushClean ==
  IF ~file.writing THEN file ELSE [file EXCEPT !.ctz = Growing, !.writing = FALSE]

\* lfs_file_flush(), at the end of the file; it does not ask for LFS_F_ERRED.
lfs_file_flush ==
  IF ~file.writing THEN file
  ELSE [file EXCEPT !.ctz = Growing, !.writing = FALSE, !.dirty = TRUE]

\* lfs_file_rewind(), which does nothing at position 0, and LFS_O_APPEND.
Rewound ==
  IF file.pos = 0 THEN file ELSE [lfs_file_flush EXCEPT !.pos = lfs_file_flush.ctz.size]

(* EXT_WRITE: lfs_file_rewind() and lfs_file_write().  The first record    *)
(* does not fit into the directory, and lfs_file_outline() asks for a      *)
(* block.                                                                  *)
ExtWrite ==
  /\ phase = "idle" /\ sent < MaxRecords
  /\ sent' = sent + 1 /\ todo' = RecordWords
  /\ file' = [Rewound EXCEPT !.off = IF file.inline THEN file.pos ELSE @]
  /\ IF file.inline
     THEN phase' = "alloc" /\ why' = "relocate" /\ free' = lfs_alloc_ack
     ELSE phase' = "write" /\ UNCHANGED <<why, free>>
  /\ UNCHANGED <<words, other, entry, nblock, log, failed, bad, kept>>

(* EXT_WRITE when words of a bad block are still in the cache: the rewind  *)
(* tries to write and to move them, fails as before, and changes nothing.  *)
ExtWriteStuck ==
  /\ phase = "stuck" /\ sent < MaxRecords
  /\ sent' = sent + 1 /\ todo' = RecordWords /\ phase' = "again"
  /\ UNCHANGED <<words, other, entry, why, nblock, free, file, log, failed, bad, kept>>

NeedsBlock == ~file.writing \/ file.off = BlockWords

\* The block that the file is to be extended from.
Last == IF file.writing THEN file.block ELSE lfs_ctz_find(file.ctz, file.pos - 1)

(* lfs_file_flushedwrite(): a block more.                                  *)
Extend ==
  /\ phase = "write" /\ todo > 0 /\ NeedsBlock
  /\ IF Last = Corrupt THEN WriteFails /\ UNCHANGED <<why, free>>
     ELSE /\ phase' = "alloc" /\ why' = "extend" /\ free' = lfs_alloc_ack
          /\ file' = [file EXCEPT !.block = Last] /\ UNCHANGED <<todo, failed>>
  /\ UNCHANGED <<words, other, entry, nblock, log, sent, bad, kept>>

\* The words that still fit into the block.
Diff == Min({todo, BlockWords - file.off})

\* The first of them is word NextWord of the record.
NextWord == RecordWords - todo + 1

Writing(i) == i \in file.off .. file.off + Diff - 1

Programmed ==
  words' = [words EXCEPT ![file.block] =
             [i \in 0 .. BlockWords - 1 |->
                IF Writing(i) THEN <<sent, NextWord + i - file.off>> ELSE @[i]]]

Program ==
  /\ phase = "write" /\ todo > 0 /\ ~NeedsBlock
  /\ \A i \in 0 .. BlockWords - 1 : Writing(i) => words[file.block][i] = Erased
  /\ Programmed
  /\ file' = [file EXCEPT !.pos = @ + Diff, !.off = @ + Diff]
  /\ todo' = todo - Diff /\ free' = lfs_alloc_ack
  /\ log' = log \o [k \in 1 .. Diff |-> <<sent, NextWord + k - 1>>]
  /\ UNCHANGED <<other, entry, phase, why, nblock, sent, failed, bad, kept>>

(* LFS_ERR_CORRUPT, because the block turns out bad, or is bad still: the  *)
(* words go to another block, lfs_file_relocate().  Until then they are    *)
(* read through the cache of the file.                                     *)
ProgramCorrupt ==
  /\ todo > 0 /\ ~NeedsBlock
  /\ \/ phase = "write" /\ bad < MaxBad(other) /\ bad' = bad + 1
     \/ phase = "again" /\ bad' = bad
  /\ Programmed
  /\ phase' = "alloc" /\ why' = "relocate"
  /\ UNCHANGED <<other, entry, todo, nblock, free, file, log, sent, failed, kept>>

\* lfs_bd_prog() asserts that other words of the block are not in the cache.
AssertFails ==
  /\ phase = "again" /\ phase' = "hung"
  /\ UNCHANGED <<words, other, entry, todo, why, nblock, free, file,
                 log, sent, failed, bad, kept>>

\* The end of lfs_file_rawwrite(), with success.
Written ==
  /\ phase = "write" /\ todo = 0 /\ phase' = "idle"
  /\ file' = [file EXCEPT !.erred = FALSE]
  /\ UNCHANGED <<words, other, entry, todo, why, nblock, free,
                 log, sent, failed, bad, kept>>

\* Block nblock is erased and begins with the first n words of block b.
Copied(b, n) ==
  words' = [words EXCEPT ![nblock] =
             [i \in 0 .. BlockWords - 1 |-> IF i < n THEN words[b][i] ELSE Erased]]

NewBlock(off) ==
  /\ phase' = "write"
  /\ file' = [file EXCEPT !.block = nblock, !.off = off,
                          !.writing = TRUE, !.inline = FALSE]
  /\ UNCHANGED <<other, entry, todo, why, nblock, free, log, sent, failed, bad, kept>>

\* lfs_file_relocate().
Relocate ==
  /\ phase = "got" /\ why = "relocate"
  /\ Copied(file.block, file.off) /\ NewBlock(file.off)

\* Words of the last block that are in use: noff in lfs_ctz_extend().
Used == Offset(file.pos - 1) + 1

\* lfs_ctz_extend() cannot read the blocks it extends from.
ExtendFails ==
  /\ WriteFails /\ words' = [words EXCEPT ![nblock] = [i \in 0 .. BlockWords - 1 |-> Erased]]
  /\ UNCHANGED <<other, entry, why, nblock, free, log, sent, bad, kept>>

\* lfs_ctz_extend(), from a block that is not full.
ExtendCopy ==
  /\ phase = "got" /\ why = "extend" /\ Used # BlockWords
  /\ IF file.block \notin Block THEN ExtendFails
     ELSE Copied(file.block, Used) /\ NewBlock(Used)

\* Mutant of ExtendLink: all pointers lead to the last block.
ExtendLinkFlat ==
  /\ phase = "got" /\ why = "extend" /\ Used = BlockWords
  /\ LET skips == lfs_ctz(lfs_ctz_index(file.pos - 1) + 1) + 1
     IN  /\ words' = [words EXCEPT ![nblock] =
                       [i \in 0 .. BlockWords - 1 |->
                          IF i < skips THEN <<file.block>> ELSE Erased]]
         /\ NewBlock(skips)

\* lfs_ctz_extend(), from a full block: block i of the chain has pointers to
\* the blocks i - 2^k, for each 2^k that divides i.
ExtendLink ==
  /\ phase = "got" /\ why = "extend" /\ Used = BlockWords
  /\ LET skips == lfs_ctz(lfs_ctz_index(file.pos - 1) + 1) + 1
         nhead[k \in 0 .. skips - 1] ==
           IF k = 0 THEN file.block
           ELSE IF ~Readable(nhead[k - 1], k - 1) THEN Corrupt
           ELSE Ptr(nhead[k - 1], k - 1)
     IN  IF nhead[skips - 1] = Corrupt THEN ExtendFails
         ELSE /\ words' = [words EXCEPT ![nblock] =
                            [i \in 0 .. BlockWords - 1 |->
                               IF i < skips THEN <<nhead[i]>> ELSE Erased]]
              /\ NewBlock(skips)

\* The block that was allocated is bad: the next one.
NewBlockBad ==
  /\ phase = "got" /\ bad < MaxBad(other)
  /\ phase' = "alloc" /\ bad' = bad + 1
  /\ words' = [words EXCEPT ![nblock] = [i \in 0 .. BlockWords - 1 |-> Spoilt]]
  /\ UNCHANGED <<other, entry, todo, why, nblock, free, file, log, sent, failed, kept>>

(* FCLOSE: lfs_file_close(), which commits unless the file has erred, and  *)
(* lfs_unmount().                                                          *)
Fclose ==
  /\ phase \in {"idle", "stuck"} /\ phase' = "closed"
  /\ IF file.erred \/ ~lfs_file_flush.dirty THEN UNCHANGED <<entry, kept>>
     ELSE entry' = lfs_file_flush.ctz /\ kept' = log
  /\ file' = NewFile
  /\ UNCHANGED <<words, other, todo, why, nblock, free, log, sent, failed, bad>>

\* The file that was being written is gone.
PowerLoss ==
  /\ phase # "closed" /\ phase' = "closed"
  /\ file' = NewFile /\ todo' = 0
  /\ UNCHANGED <<words, other, entry, why, nblock, free, log, sent, failed, bad, kept>>

-----------------------------------------------------------------------------

FileInit ==
  /\ other \in Others
  /\ words = Stale
  /\ entry = Empty /\ kept = <<>>
  /\ phase = "closed" /\ todo = 0 /\ why = "extend" /\ nblock = 0
  /\ free = lfs_alloc_drop(0) /\ file = NewFile
  /\ log = <<>> /\ sent = 0 /\ failed = FALSE /\ bad = 0

FileStep ==
  \/ AllocTake \/ AllocScan \/ AllocFail \/ AllocCorrupt
  \/ Extend \/ Program \/ ProgramCorrupt \/ AssertFails \/ Written
  \/ Relocate \/ ExtendCopy \/ ExtendLink \/ NewBlockBad

FileNext == Fopen \/ ExtWrite \/ ExtWriteStuck \/ Fclose \/ PowerLoss \/ FileStep

FileSpec == FileInit /\ [][FileNext]_fileVars

FairFileSpec == FileSpec /\ WF_fileVars(FileStep)

-----------------------------------------------------------------------------
(* Properties.                                                             *)

\* Each word of the chain, found as lfs_file_read() finds it, is that of s.
Reads(chain, s) ==
  \A pos \in 0 .. chain.size - 1 :
    words[lfs_ctz_find(chain, pos)][Offset(pos)] = s[pos + 1]

(* What was written is read back: from the file that was committed, and    *)
(* from the one that is open, before and after it is flushed.              *)
ReadsBack ==
  /\ Reads(entry, kept)
  /\ file.dirty => Reads(file.ctz, log)
  /\ file.writing /\ phase = "idle" => Reads(Growing, log)

(* The allocator's walk over the chain of a file finds all of its blocks.  *)
TraverseWhole ==
  \A chain \in {entry, file.ctz} :
    lfs_ctz_traverse(chain) =
      {lfs_ctz_find(chain, pos) : pos \in 0 .. chain.size - 1}

(* Copy on write: no write touches a block of another file, of the file    *)
(* that was committed, or of what was flushed of the one that is open.     *)
InUse == Pair \cup other \cup lfs_ctz_traverse(entry) \cup lfs_ctz_traverse(file.ctz)

CopyOnWrite ==
  [][FileStep => \A b \in InUse : words'[b] = words[b]]_fileVars

(* The upload that is committed is all that was sent, unless a write has   *)
(* returned an error or the file is the empty one of FOPEN.                *)
Whole(n) == [k \in 1 .. n * RecordWords |->
               <<((k - 1) \div RecordWords) + 1, ((k - 1) % RecordWords) + 1>>]

CommitsAllSent == [][Fclose /\ ~failed /\ sent > 0 => kept' = Whole(sent)]_fileVars

(* Every write ends, as the allocator looks at each block once: it         *)
(* returns, or fails an assertion after words that could not be moved.     *)
WritesReturn ==
  phase \in {"write", "alloc", "got", "again"} ~> phase \in {"idle", "closed", "stuck", "hung"}

(* lfs_file_rawsync(): "it's not safe to do anything if our file errored": *)
(* what is committed is a sequence of whole records.                       *)
WholeRecords ==
  /\ Len(kept) % RecordWords = 0
  /\ \A k \in 1 .. Len(kept) : kept[k][2] = ((k - 1) % RecordWords) + 1

(* lfs_alloc_ack(), lfs.c:588: blocks are not "garbage collected in the    *)
(* middle of a commit operation": none is allocated that the file that is  *)
(* being written is made of.                                               *)
Taken == [head |-> file.block,
          size |-> IF file.off < BlockWords THEN file.pos + 1 ELSE file.pos]

NotCollected ==
  [][AllocTake /\ file.writing /\ file.pos > 0
       => nblock' \notin lfs_ctz_traverse(Taken)]_fileVars

(* A write fails only when no block is left, or when the walk of the       *)
(* allocator follows a word that is no pointer, which it does only while   *)
(* words are moved from a bad block that was just linked to the chain, at  *)
(* index 5 or later.                                                       *)
JustLinked == why = "relocate" /\ file.writing /\ file.pos > 0 /\ Used = BlockWords

FailsWhenFull ==
  [][/\ AllocFail => Cardinality(Block \ lfs_fs_rawtraverse) <= bad
     /\ AllocCorrupt => JustLinked /\ lfs_ctz_index(file.pos - 1) >= 4]_fileVars
=============================================================================
