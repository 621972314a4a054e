------------------------------- MODULE BootFs -------------------------------
(***************************************************************************)
(* The file system on the external flash as the boot loader sees it: one   *)
(* LittleFS volume, one file "/boot", one static lfs_file_t.  Each         *)
(* operator is one call of the LittleFS interface.  What LittleFS writes   *)
(* to the disk takes effect with one atomic commit of a metadata pair, so  *)
(* that the power fails before or after it.                                *)
(*                                                                         *)
(* A file is a sequence of records of BUFFERSIZE bytes.  The disk has room *)
(* for every file a host sends: 16 MB against an application of 448 kB.    *)
(***************************************************************************)
EXTENDS Integers, Sequences

CONSTANTS
  Record,    \* the records: an address and the words of a page
  MaxFile,   \* bound: records of a file
  MaxLeaked  \* bound: cache buffers lost between two resets

VARIABLES
  entry,  \* the volume: "unformatted", without ("none") or with /boot ("file")
  disk,   \* the content of /boot that was committed last
  mode,   \* lfs_file: not in lfs->mlist, open for writing or for reading
  pend,   \* the file as lfs_file has it, committed or not
  pos,    \* records read through lfs_file
  leaked  \* cache buffers that nothing refers to any more

fsVars == <<entry, disk, mode, pend, pos, leaked>>

File == UNION {[1 .. n -> Record] : n \in 0 .. MaxFile}

FsTypeOK ==
  /\ entry \in {"unformatted", "none", "file"}
  /\ disk \in File
  /\ mode \in {"closed", "write", "read"}
  /\ pend \in File
  /\ pos \in 0 .. MaxFile
  /\ leaked \in 0 .. MaxLeaked

FsInit ==
  /\ entry \in {"unformatted", "none"} /\ disk = <<>>
  /\ mode = "closed" /\ pend = <<>> /\ pos = 0 /\ leaked = 0

\* The static lfs_t and lfs_file_t after a reset, which loses the heap too.
FsPowerLoss ==
  /\ mode' = "closed" /\ pend' = <<>> /\ pos' = 0 /\ leaked' = 0
  /\ UNCHANGED <<entry, disk>>

\* lfs_mount returns an error.
CannotMount == entry = "unformatted"

(* lfs_init clears lfs->mlist without closing what is on it: an open file  *)
(* is forgotten, with its data and its cache buffer.                       *)
lfs_mount ==
  /\ mode' = "closed" /\ pend' = <<>> /\ pos' = 0
  /\ leaked' = IF mode = "closed" THEN leaked ELSE leaked + 1
  /\ UNCHANGED <<entry, disk>>

lfs_format ==
  /\ entry' = "none" /\ disk' = <<>>
  /\ UNCHANGED <<mode, pend, pos, leaked>>

\* Without the file this is an error, which the caller ignores.
lfs_remove ==
  /\ entry' = "none" /\ disk' = <<>>
  /\ UNCHANGED <<mode, pend, pos, leaked>>

(* LFS_O_CREAT commits the new entry at once.                              *)
lfs_file_open(m) ==
  /\ entry' = "file" /\ mode' = m /\ pend' = disk /\ pos' = 0
  /\ UNCHANGED <<disk, leaked>>

\* What lfs_file_write and lfs_file_close assert.
MayWrite == mode = "write"
MayClose == mode # "closed"

\* Mutant of lfs_file_append: the file is not opened with LFS_O_APPEND.
lfs_file_overwrite(r) ==
  /\ pend' = IF pend = <<>> THEN <<r>> ELSE [pend EXCEPT ![1] = r]
  /\ UNCHANGED <<entry, disk, mode, pos, leaked>>

(* lfs_file_rewind and lfs_file_write: LFS_O_APPEND takes the position     *)
(* back to the end of the file.                                            *)
lfs_file_append(r) ==
  /\ pend' = Append(pend, r)
  /\ UNCHANGED <<entry, disk, mode, pos, leaked>>

lfs_file_read == pos' = pos + 1 /\ UNCHANGED <<entry, disk, mode, pend, leaked>>

(* Closing commits what was written and frees the cache buffer.            *)
lfs_file_close ==
  /\ disk' = IF mode = "write" THEN pend ELSE disk
  /\ mode' = "closed" /\ pend' = <<>> /\ pos' = 0
  /\ UNCHANGED <<entry, leaked>>
=============================================================================
