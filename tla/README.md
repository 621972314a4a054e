# NuM487BOOT: specification and proofs

NuM487BOOT is a boot loader for the Nuvoton M487. A programmer on a serial line
either writes an application page by page into the internal flash, or uploads it
into a file `/boot` of a LittleFS volume on an SPI flash and has the boot loader
copy it. This directory holds a TLA+ model of it, from the bytes of a packet and
the commands of the SPI flash up to the update as its user sees it, what TLC
checks of the model and what TLAPS proves.

    tlc -workers 2 -config MCBoot.cfg MCBootLoader
    tlapm BootLoaderProofs.tla

## 1. The system

One thread, no interrupt handler, no timer: `main` (`Core/main.c`) polls the
UART. All concurrency is with the outside: the programmer, the link, the power.

| Component | State | Operations | Correct when |
|---|---|---|---|
| Main program, mode selection (`Core/main.c`, `Drivers/boot/boot_system.c`) | PROG pin, LED, update enable | `system_init`, `system_is_prog_mode`, `APROM_update_enable`, `system_jump_to_app` | an application is started only when one is installed |
| Command interpreter (`Core/boot/bootprotocol.c`) | which loop waits, the packet buffer | `establish_connection`, one handler per command, `boot_from_fs` | every acknowledged command had its effect, `/boot` is installed exactly |
| Internal flash driver (`Drivers/boot/flash.c`) | none between calls | write, read, verify a page; erase the section | exactly the page is programmed, exactly the section erased |
| Flash memory controller (`fmc.c`, hardware) | flash, fail flag, enable bits | program, read, erase block | a command out of range has no effect |
| File system calls (`lfs.c`) | volume, `/boot`, one static `lfs_file_t`, heap | mount, format, remove, open, write, read, close | a file is committed whole |
| LittleFS files and allocator (`lfs.c`) | lookahead buffer, the chain of blocks of a file | allocate, extend, write, relocate, flush, commit | what is committed is what was written, and no block in use is overwritten |
| LittleFS metadata pair (`lfs.c`) | two blocks with revisions and commits | fetch, append, compact | a commit is atomic, and the volume can always be mounted |
| LittleFS port, SPI flash driver (`lfs_port.c`, `w25q128jv.c`) | write enable latch, busy flag | read, program, erase of a page, sector, block | a range of a sector is transferred exactly |
| Packet link (`get_packet`, `put_packet`, `commuch.c`) | bytes on the wire | frame, check, resynchronise | a packet is accepted only as it was sent |
| Programmer (not in the repository) | how far the update is | commands, time-outs, restarts | the update comes to an end |
| mbed TLS, CMSIS, the rest of the vendor library, start-up code, board tests | | | not part of the boot loader's logic |

**Interaction.** `main` calls `establish_connection` and `bl_command_process` in
turn. A handler calls the flash driver, which issues one ISP command per word or
block, or LittleFS, which calls the SPI flash driver through `lfs_port.c`.
`boot_from_fs` does both. The handlers share one packet buffer, one `lfs_t` and
one `lfs_file_t`; the ISP fail flag is shared by all ISP commands. Nothing is
remembered from one command to the next but the flash, the volume, the static
LittleFS structures and the heap.

**What is hard.** The power may fail inside any word, block or commit, and the
next attempt starts from what is left. A packet or a reply may be lost, and the
programmer then starts over with a boot loader in any state. The LittleFS calls
depend on an order that no handler checks, and their results are dropped. A
failure in the middle of a page, an erase or a boot leaves the flash half-way.
Addresses come from the wire or from a file and may cross either end of the
section, or wrap. The SPI flash has a state of its own, which a reset of the
processor does not stop. On the line, one lost byte puts the receiver at another
place than the sender. In LittleFS, a block may turn out bad or none be left in
the middle of a write. `PROJECT.json` lists these hazards at their lines, each with
the properties that cover it, or with the reason why none does.

## 2. The modules

| Module | Models |
|---|---|
| `FirmwareUpdate` | abstract: what an update of the application promises |
| `BootSession` | `BootLoader` composed with a programmer, a lossy link and a failing power supply; implements `FirmwareUpdate` |
| `BootLoader` | `main`, the command interpreter, `boot_from_fs`; extends the next two |
| `AppFlash` | `flash.c` on `fmc.c`: one ISP command is one step |
| `BootFs` | the LittleFS calls of the boot loader on its one file |
| `PacketLink` | `get_packet`, `put_packet` and `commuch.c`, byte by byte |
| `AtomicStore` | abstract: what a metadata pair promises |
| `LfsPair` | a metadata pair of LittleFS; implements `AtomicStore` |
| `LfsFile` | an upload inside LittleFS: allocator, chain of blocks, the open file |
| `SpiFlash` | `lfs_port.c`, `w25q128jv.c` and the chip |
| `MC...` | values of the constants for TLC |
| `...Proofs` | the theorems of `AppFlash`, `BootLoader`, `BootSession`, `SpiFlash`, `PacketLink`, `LfsPair` and `LfsFile` |
| `RecursionFacts` | lemmas: induction stated of sets of numbers, and that a function defined by recursion satisfies its equation |

The modules are layers, and each says of the one below what it relies on. The
steps of `BootLoader` are the driver steps of `AppFlash`, by `EXTENDS`. That a
packet comes as it was sent or does not come, which `BootSession` assumes, is
`AcceptedExact` and `Resynchronises` of `PacketLink`. That a commit is one step,
which `BootFs` and `LfsFile` assume, is `ImplementsStore` of `LfsPair`. That a
file holds what was written to it, which `BootFs` assumes, is `ReadsBack` and
`CommitsAllSent` of `LfsFile`, as long as no write fails. That a block is read as
it was programmed, which both LittleFS modules assume, is `ProgExact`,
`FetchExact` and `EraseExact` of `SpiFlash`. These links between modules of
different grain are arguments of this text and not refinements TLC checks,
except for the two that the table names.

### AppFlash

`flash` is the APROM as a function from word addresses to words; a word is the
set of its 1 bits, so that programming intersects and erasing gives `Bit`. A call
(`Call`) sets `op`, `dest`, `i` and `page`, the arguments and the loop index of
the C function; `WriteWord`, `ReadWord`, `VerifyWord` and `EraseBlock` are the
loop bodies, `Return` the end of the loop. `Cursor` wraps where the `uint32_t`
does (`AddrSpace` words). `ispff` is the fail flag: `FMC_Write` and
`FMC_Erase_Block` report it and clear it, `FMC_Read` may set it and never looks
at it, so that a later write can fail for an earlier read.

`FlashPowerLoss` may cut the running ISP command short: some of the bits to be
cleared are clear, or the block being erased holds anything (`Interrupted`).
`before` is a history variable, the flash when the function was called.

Assumed of the hardware: a command outside the APROM, or with updates disabled,
fails without an effect on the APROM; the controller is done before `fmc.c`
stops polling (38 million polls against 20 ms); the boot loader's own block is
not in the way. Addresses are word aligned, as those of an image are.

### BootFs

`disk` is what is committed for `/boot`; `mode`, `pend` and `pos` are the
`lfs_file_t` (not in `lfs->mlist`, open for writing, open for reading; the
content it would commit; how much was read). `lfs_mount` clears `lfs->mlist`, as
`lfs_init` does, and thereby forgets an open file; its cache buffer is counted in
`leaked`. `lfs_file_append` is `lfs_file_rewind` followed by `lfs_file_write`:
`LFS_O_APPEND` moves the position back to the end (`lfs.c:3540`).
`lfs_file_close` commits. What LittleFS commits, it commits at once: that is the
promise of its metadata pairs, and taken from it.

A file is a sequence of records, an address and a page each. Every write to
`/boot` is `BUFFERSIZE` long, so the last lines of `boot_from_fs`
(`bootprotocol.c:305-311`) are never reached. The volume has room for every
upload, and the results of the LittleFS calls, which the code drops, are success;
`LfsFile` says what happens when they are not.

### BootLoader

`pc` says where the program is: `connect` and `command` are the two loops around
`get_packet`, the others are points inside a handler at which the power may fail
or the flash driver is running. A handler that only replies, or makes one
LittleFS call, is one action.

| Code | Actions |
|---|---|
| `main`, reset | `PowerOn`, `PowerLoss` |
| `establish_connection` | `Connect` |
| queries, refused and unanswered commands | `Inert` |
| `CMD_PROG_END` | `ProgEnd` |
| `CMD_FLASH_WRITE`, `READ`, `ERASE_ALL` | `FlashWriteRefused`, `FlashWrite`, `FlashRead`, `FlashEraseAll`, then `DriverStep`, `FlashReply` |
| `CMD_EXT_FLASH_FOPEN` | `ExtFopen`, `Mount`, `Format`, `FopenRemove`, `FopenOpen` |
| `CMD_EXT_FLASH_WRITE`, `FCLOSE` | `ExtWrite`, `ExtFclose`; `Assert` when LittleFS asserts |
| `CMD_PROG_EXT_FLASH_BOOT`, `boot_from_fs` | `ExtBoot`, `DriverStep`, `BootErased`, `Mount`, `Format`, `BootOpen`, `BootRead`, `BootWritten`, `BootClose`, `BootAck` |

`reply` is the status byte last sent, and `OWED` from the moment a packet is
accepted. History variables say what the host was told: `acked` the page writes
acknowledged since the last erase was begun, `begun` those begun since the last
erase was completed, `erased` whether there was one, `sent` and `closed` the
records of the current and of the last completed upload.

A packet that `get_packet` rejects is a packet that did not come, so `Spec` has
no fairness and needs none: its properties are about safety.

### BootSession

The programmer is not in the repository. It sends one packet at a time, keeps to
the order the handlers need, waits longer than any handler takes, and never
repeats one command alone: a `NACK`, a silence, a lost packet or a power failure
make it start again with `CHK_PROTOCOL`. It is free to choose either way of
updating at each start. (A programmer that repeats `FCLOSE` alone after a lost
`ACK` hangs the boot loader in an assertion: `Assert` is in the model.) After the
update the operator resets the board, and the application starts.

`Update` maps the session to `FirmwareUpdate`: `app` is the section, `whole` that
`/boot` is the upload, `direct` that the programmer is writing page by page,
`done` that it was told of the end.

### PacketLink

`get_packet` is one long loop over bytes; `at` is the byte it waits for, and each
`com_channel_getc` takes one byte from `line` through `Header`, `CommandByte`,
`Length`, `Data` or `Sum`. `buf`, `cmd`, `length` are the packet structure and
the one `bl_buffer` behind it, which the replies share (`Handled`). `TimeOut` is
`UART_Read` giving up after 2^30 polls: `com_channel_getc` then returns its local
variable, `slot`, as it is. `Lose`, `Change`, `Noise` are the line's faults.
`SendEarly` is a programmer that does not wait for the handler, whose bytes
beyond `FifoSize` are dropped. History: `sent` is the packet sent last, `astray`
that the receiver may be at another place than the sender.

The data loop of `get_packet` runs to the length it has received, up to 65535,
and does not look at `BUFFERSIZE`. The packets of the programmer fit the buffer
(`Outbox`), but a lost or changed byte makes lengths that nobody sent. What is
then stored behind `bl_buffer` (`Store`) falls on other static variables and the
heap: the linker script has the stack, and with it the variables of `get_packet`,
at the other end of the RAM. The model counts these bytes (`behind`) and leaves
their values out; a handler may then return as ever or not at all
(`HandlerHangs`), until somebody resets the board (`Restart`). What else it may do
is not modelled.

A packet whose data or check sum look like a header can be taken for one again
and again while it is resent. `Unmistakable` are the packets that cannot: no
three header bytes in a row but the first, and none at the end. `Resynchronises`
is about these, after anything else; TLC finds a receiver that is led astray for
ever without either half of the condition.

### SpiFlash

One step is one command to the chip, the bytes sent while `/CS` is low. A call of
the driver (`Call`, one of the page, sector, block or byte functions, those of
`lfs_port.c` among them) goes through `Enable`, `Wait`, the command
(`EraseCommand`, `ProgramCommand`, `ReadCommand`) and `Written`, once for each
page; `page`, `ofs`, `left` and `data` are the variables of the C loops. The chip
is external: `wel` and `busy` are its status bits, `goal` is what its bytes will
be when it is done (`ChipDone`), and while it is busy it ignores commands and
answers reads with anything. `Reset` resets the processor only; a power failure
that stops both is the start of another behaviour, with any content. History:
`settled`, the driver has seen the chip idle since the last reset; `deaf`, it was
busy when a command of this call was sent.

### AtomicStore and LfsPair

`disk` is two blocks of units of `prog_size`. `Commit` is `lfs_dir_commit`; it
appends (`AppendPart`, `Check`) or, when the block is full or its rest is not
erased (`NoRoom`), compacts into the other block (`Erase`, `CompactPart`,
`Recheck`). `lfs_mount` takes the block with the more recent revision
(`lfs_scmp`), walks its commits (`End`) and decides from the FCRC whether more
can be appended. `TornProgram` and `TornErase` leave a unit, or any units of the
block, as garbage; what garbage reads as is a choice at each fetch (`Revs`).
`Store` maps the pair to `AtomicStore`: `stored` is what a mount would find.

Assumed: a check sum fails for anything but what it was made of; the chip has
finished by the time the volume is mounted. Left out: splitting, relocation (the
root pair cannot be relocated), the superblock's expansion, global state.

### LfsFile

`Fopen`, `ExtWrite`, `Fclose` are the commands; a write is a loop of `Extend`,
the allocator (`AllocTake`, `AllocScan`, `AllocFail`, `AllocCorrupt`: `lfs_alloc`
with the lookahead buffer `free`), `ExtendCopy` or `ExtendLink`
(`lfs_ctz_extend`), and `Program`, until `Written`. `ProgramCorrupt` and
`NewBlockBad` are blocks that turn out bad, `Relocate` is `lfs_file_relocate`.
`words` is what the blocks hold, chain pointers included, and
`lfs_ctz_find`, `lfs_ctz_index` and `lfs_ctz_traverse` follow them as the C
functions do. The flags of the `lfs_file_t` are those of the code; `LFS_F_ERRED`
is `erred`. `Others` are the blocks the files of the application keep.

A walk can go wrong and follow a word that is no pointer. `AsBlock` says which
number it reads as. Where that is not the number of a block, `lfs_bd_read`
returns `LFS_ERR_CORRUPT` (`Readable`, `Corrupt`), and what called it fails: the
walk of the allocator over the blocks in use (`AllocCorrupt`), `Extend`, or
`ExtendCopy` and `ExtendLink` (`ExtendFails`).

A write that fails while words are moved from a bad block leaves them in the
cache of the file (`stuck`). The next write tries to move them again
(`ExtWriteStuck`, `ProgramCorrupt`) or, when its own words do not fit the cache,
fails an assertion of `lfs_bd_prog` (`AssertFails`) and hangs the boot loader.

The caches are written through, a commit of the directory is one step, and
`Fopen` forgets what earlier uploads left in the blocks. File sizes are bounded
by `FileAssumption`, within which the formula of `lfs_ctz_index` is exact.

## 3. The runs

| Run | Question | Bounds | Result |
|---|---|---|---|
| `app_flash` | the driver under any caller | one-bit words, pages and blocks of 2 words, 1 bootloader word, 2 blocks, 2 illegal addresses before the wrap; any initial flash | holds |
| `boot` | what the section, `/boot` and the LED say after any packets and power failures | pages of 2 one-bit words, a section of 2 words, 3 records: one fills the section, one crosses its end, one starts below it; files of 2 records, 1 lost buffer | holds |
| `session` | does an update end, and well | an upload of two overlapping pages, 3 faults | holds |
| `packet_link` | what is accepted, and does the receiver find back | 4 byte values, a buffer of 2, a FIFO of 7, lengths up to 15, packets of 0 and 2 bytes of data with header bytes in data and check sum, 2 faults | holds |
| `spi_flash` | is a range transferred exactly, through resets | 2 sectors of two 2-byte pages, one-bit bytes with any content, calls across pages and past the end of a sector | holds |
| `lfs_pair` | is a commit atomic | blocks of 3 units, commits of 1 or 2, 4 revisions, 3 values (symmetric) | holds |
| `lfs_file` | is an upload kept as sent, beside other files | 12 blocks of 6 words, a lookahead of 5, records of 5 words, up to 6 of them; 4 sets of other files; 1 bad block where the other files have at most 5 | holds |
| `boot_kept`, `link_pause`, `spi_block`, `lfs_hole`, `lfs_lost` | five sentences of the repository | as above with 1 fault or record; `lfs_hole` 6 blocks, `lfs_lost` 5 blocks with 1 bad, `spi_block` blocks of two one-page sectors | violated, section 5 |

Why this is enough.

* `app_flash`, `boot`, `session`: the driver's loops are uniform in the word and
  the block, so what matters is that a page starts before, inside, at the end of
  and beyond the section, that it shares words with another page, that there is a
  first, a last and (in `app_flash`) more than one block, and that the fail flag
  comes from an earlier command. One bit per word is enough because programming
  treats bits alike; the proofs depend on none of it. Three faults let a power
  failure, a lost packet and a lost reply meet in one update.
* `packet_link`: an empty packet and one that fills the buffer, one that fits the
  FIFO and one that does not; data that are header bytes, and a check sum that is
  one; lengths that nobody sent, which reach 13 bytes behind a buffer of two; two
  faults are what it takes to pass the check sum, and to be hit again while
  finding back.
* `spi_flash`: a call that starts and ends in the middle of a page, one within a
  page, across two, and past the sector; the buffer's neighbouring bytes differ.
* `lfs_pair`: appends that fit exactly, that do not, and that leave a unit; the
  revisions wrap.
* `lfs_file`: chains of up to seven blocks, so that blocks with one, two and
  three pointers occur and a search skips, and a bad block at an index from which
  the allocator's walk fails; a volume with little and with no room; words that
  read as the number of a block and others that do not; a lookahead buffer that does not divide the volume, and whose last part
  is shorter.

Every run checks for deadlock except `app_flash`, `boot`, `boot_kept` and
`session` (`CHECK_DEADLOCK FALSE`): a boot loader stopped by an assertion, or one
that has jumped to the application with the bounds used up, really is at its end.

### Properties

* `WriteExact`, `EraseComplete`, `ReadExact`, `RefusalHeals`: what the driver
  functions did and left undone, whatever they return, at every step.
* `BootloaderIntact`, `CommandsKeepBootloader`: who can change the bootloader
  section.
* `AckedBitsStay`, `NoStrayBits`: the section lies between what was acknowledged
  and what was begun, across failures and power cuts.
* `BootInstalls`: after `boot_from_fs` the section is the image of `/boot`.
* `CommittedWhole`: `/boot` is never part of an upload.
* `FailureShown`: a boot that failed half-way can be told by the LED only.
* `DoneMeansInstalled`, `NeverHangs`, `LeaksNeedFaults`, `Finishes`,
  `ImplementsUpdate`: the update as a whole.
* `AcceptedExact`, `BufferKept`, `Resynchronises`: an accepted packet is the one
  sent, only a receiver that was led astray stores behind the buffer, and it
  finds back to the packets that cannot be mistaken, unless a handler hangs.
* `ProgExact`, `FetchExact`, `EraseExact`, `LostOnlyAfterReset`, `CallsReturn`:
  the SPI flash, and what a reset in the middle of a command can cost.
* `AlwaysMountable`, `DirTrue`, `ImplementsStore`: the metadata pair.
* `ReadsBack`, `TraverseWhole`, `CopyOnWrite`, `CommitsAllSent`,
  `FailsWhenFull`, `WritesReturn`: the file. `TraverseWhole` is about the
  allocator's own walk, on which `CopyOnWrite` depends. `FailsWhenFull` says
  that a write fails when no block is free, or in one other case: the scan for a
  replacement of a block that was just linked, at index 5 or later of its chain,
  takes a word for a pointer.

### Fairness

Weak fairness only, and none of faults. In `BootSession` of the programmer, which
does not give up while `MaxFaults` last, and of the boot loader: there is one
thread, every loop of a handler is bounded, and a processor that is powered
executes it. In `PacketLink` of `Device`, the same thread, and of `Sender`, not of `Restart`. In
`SpiFlash` of the driver's `Step` and of `ChipDone`, the data sheet's maximal
erase time. In `LfsFile` of `FileStep`, the loop of a write that has been called.
`AppFlash`, `BootLoader` and `LfsPair` state none: their properties are safety.

## 4. The proofs

The theorems hold for all values of the constants that satisfy the assumptions
`FlashAssumption` (the section is made of whole blocks, is not empty, and a page
fits between its end and the top of the address space), `RecordAssumption`,
`UploadAssumption` (each page of the upload lies in the section),
`ChipAssumption` (no size is zero) and `CallAssumption` (the SPI flash has the
pages, sectors and blocks it is called for, the buffer of a write is long enough,
and `w25q128jv_write_byte` writes one byte), `LinkAssumption` (the length of the
buffer fits the two bytes of a length, and the packets of the programmer fit the
buffer) and `PairAssumption` (a commit fits a block, and the
number of revisions is even and at least four).

`AppFlashProofs`. `FlashInv` strengthens the types: the erase loop is at the
start of a block of the section (without it a block could reach beyond the end),
and a page loop that has not failed is inside the APROM (without it the cursor
could have wrapped). With the caller's guard, `WriteGuarded`, each step of the
driver and each interrupted command leaves the bootloader section alone; with
`Enabled` and the two exactness invariants this is `FlashIInv`. `Refusal` and
`ReadSoFar` say the same of a loop that is still running as `RefusalHeals` and
`ReadExact` say of one that has returned.

* `FlashTypeCorrect`: `FlashSpec => []FlashTypeOK`
* `FlashWritesExact`, `FlashErasesComplete`: `FlashSpec => []WriteExact`,
  `[]EraseComplete`
* `RefusalsHeal`, `ReadsExact`: `FlashSpec => []RefusalHeals`, `[]ReadExact`
* `BootloaderSafe`: `FlashSpec => BootloaderIntact`

`BootLoaderProofs`. `BootIInv` adds to this `Control`, which driver call is open
at each `pc` and that the page being written was begun, and `Files`, what an
open file holds. `DriverMove` shows that an action of the boot loader is, for
the driver, a stutter, a call, a step, a return, or a power failure, so that the
lemmas of `AppFlashProofs` carry over (`FlashPart`). `PartlyWritten` is the
step that both image invariants need: a page write, whole or cut short, takes
bits from the section only where a page that was begun has a 0.

* `BootTypeCorrect`: `Spec => []TypeOK`
* `BootAckedBitsStay`, `BootNoStrayBits`: `Spec => []AckedBitsStay`,
  `[]NoStrayBits`
* `BootUploadWhole`: `Spec => []CommittedWhole`
* `CommandsSafe`: `Spec => CommandsKeepBootloader`
* `AppRecordsSafe`: if every record is addressed into the section,
  `Spec => BootloaderKept`

In its second half, `InstallIInv` relates the position in `/boot` to the image:
`Copied`, the pages begun since the erase of this boot are the records read so
far, and those the driver is done with are in the section; `LedOn`, the LED is on
while a boot runs and wherever `/boot` was left open for reading.

* `BootInstallsCorrect`: `Spec => []BootInstalls`
* `BootFailureShown`: `Spec => []FailureShown`

`SpiFlashProofs`. `SpiInv` is `LostOnlyAfterReset` with `ChipAtRest`, an idle chip
holds what its last command was to leave, and `EraseOnItsWay`, how far an erase
has got whose commands the chip has heard so far.

* `CommandsHeard`: `SpiSpec => []LostOnlyAfterReset`
* `ErasesExact`: `SpiSpec => []EraseExact`

For transfers, `InPlace` is the equation that the loops over pages keep:
the page and the offset are the address of the first byte not yet transferred.
`FetchedSoFar` and `WriteOnItsWay` say what was transferred before it.
`ProgrammedRange` shows that a program command which stays in its page does not
wrap, and `ChunkOfRest` that each one stays in it; both rest on four lemmas about
`\div` and `%`.

* `WritesExact`, `FetchesExact`: `SpiSpec => []ProgExact`, `[]FetchExact`
* `SpiTypeCorrect`: `SpiSpec => []SpiTypeOK`

`BootSessionProofs`. `SessionIsBoot` shows that the session is a behaviour of the
boot loader, so that every theorem above holds in it. `SessionInv` adds how far
the boot loader is when the programmer is at each step (`InStep`), that the uploaded
file is the prefix that was acknowledged (`Staged`), that a direct update has
programmed the prefix that was acknowledged and begun nothing else (`Direct`),
that the flash driver is asked only for what it can do and never fails
(`Healthy`), and that an end that was told has come (`Ended`). `LeakInv` counts
the cache buffers against the faults.

* `SessionTypeCorrect`, `DoneInstalled`, `SessionNeverHangs`, `LeaksAreFaults`:
  `SessionSpec => []...` for the four invariants of the run
* `SessionUpdates`: the refinement without its liveness, `SessionSpec =>
  Update!UpdateInit /\ [][Update!UpdateNext]_(Update!updateVars)`

`PacketLinkProofs`. The check sum is a recursive function over the data. Induction
is not available as a rule with a predicate, but it is provable as a statement
about sets: a set that holds 0 and with each number the next holds all up to N,
or the numbers missing from it would map one to one into fewer of them
(`InductionUpTo` in `RecursionFacts`). From it follow `RecursionUpTo`, a recursion
has a solution, and `SumEquation`, the check sum is that solution. `AddByte`
and `OtherByte` say that one more byte keeps two sums apart, and that two bytes
take one sum apart. `LinkInv` is the invariant: unless the receiver was led
astray, what it waits for is what comes next of the packet sent last (`Stage`),
and either no byte was changed and all the data taken are those sent, or one
byte still on the line differs, or the sum already does (`Intact`).

* `LinkTypeCorrect`: `LinkSpec => []LinkTypeOK`
* `LinkAcceptedExact`, `LinkBufferKept`: `LinkSpec => AcceptedExact`,
  `LinkSpec => BufferKept`. The second rests on the same invariant: a receiver in
  step has the length of the packet sent last, which fits the buffer.

`LfsPairProofs`. `End`, the walk over the commits of a block, is a recursive
function as well. `Reached(b, p)` says that a reader of no more than the first p
units of b stops at p; from that follows where the block ends when units are
programmed or torn behind p. `PairInv` is the invariant: while the volume is not
mounted one block is in use and the other is older (`Mountable`); while it is,
RAM has what the block in use holds (`MountedTrue`); and of a commit under way
the units before the next one are its own (`CommitAsked`, `Appended`,
`Compacted`). `DirTrue` alone is not inductive: it does not say that what follows
the last commit cannot be taken for one.

* `PairTypeCorrect`, `PairAlwaysMountable`, `PairDirTrue`:
  `PairSpec => []PairTypeOK`, `[]AlwaysMountable`, `[]DirTrue`
* `PairImplementsStore`: `PairSpec => ImplementsStore`. Each step is a commit of
  `AtomicStore`, another of its steps, or a stutter: only the last unit of a
  commit changes what a mount would find.

`LfsFileProofs`. Powers of two are a recursive function, `Pow2`, so that there
are facts to prove of the population count in `lfs_ctz_index`: that of the next
number is greater by one at most (`BitsNext`), by one and what `lfs_ctz` takes away
(`PopcNext`), and a number below 2^n - 1 has less than n bits (`BitsFew`). From
that the estimate of the index is at most one too high (`IndexCases`), and every
word of a file has one place, in a block behind the pointers of it (`Located`,
`SamePlace`), as long as the sizes are those of `FileAssumption`. `FindsBlock` is
that `lfs_ctz_find` ends in a block of the volume, whatever the blocks hold.
`FileInv` is the invariant: the types, where the end of the open file is and when
there is one to extend (`Place`), and that, as long as no write has failed, the log
is what was sent, and an open file that has words of it is marked as being
written (`Sent`). `CommitsAllSent` needs all of it: a file that is not marked would
not be committed.

* `FileTypeCorrect`: `FileSpec => []FileTypeOK`
* `FileCommitsAllSent`: `FileSpec => CommitsAllSent`

The other properties of the file need to know how its blocks are linked.
`Linked(w, b, n)`: in the words w, block b[i] has a pointer to b[i - 2^k] for each
2^k that divides i, for all i up to n. Then `lfs_ctz_find` arrives at the right block
from wherever it starts (`FindIs`), by induction on the index; a step goes back by
2^k, which divides the index (`CtzDivides`) and does not go past the target
(`SkipTo`). `lfs_ctz_traverse`, which goes two blocks at a time, visits all of them
(`TraverseIs`), and the pointers that `lfs_ctz_extend` collects are those of the next
block (`NextPointers`). The invariant `Parts` says of the file in the directory, of
what was flushed, and of what is being written that there are such blocks with
the words of `log` in them; that the flushed chain has no block that is being
written; and that no chain has a block that the lookahead buffer offers (`Fresh`,
`Apart`). The last part is why `ReadsBack` alone is not inductive: the buffer shows
what was free when it was filled, and a block may be offered long after. `Looked`
adds that an allocation begins at a free block of the buffer, or with one that is
used up: an entry that is out of date is not passed over for good.

The run `lfs_lost` shows the allocator handing out a block of the file: a block
turns out bad right after it was linked, before it has a word, and the search for
another one needs a scan of the volume, which then walks the chain with a wrong
head. The theorems have the opposite as a premise: `ScansWhole`, that such a scan
comes only when the block to be moved has words of the file. A bad block right
after it was linked is allowed as long as the lookahead buffer has another one,
and bad blocks at any other point are allowed without a condition. It always
holds up to the first bad block after `FOPEN` (`FileUntilBad`): up to then no words
are being moved and none are stuck in the cache (`Unmoved`).

* `FileReadsBack`, `FileTraverseWhole`: `FileSpec /\ []ScansWhole => []ReadsBack`,
  `[]TraverseWhole`
* `FileCopiesOnWrite`: `FileSpec /\ []ScansWhole => CopyOnWrite`, the steps in which
  a block turns out bad included
* `FileNotCollected`: `FileSpec /\ []ScansWhole => NotCollected`, what `lfs.c:588`
  says and `lfs_lost` refutes: the premise is exactly what it takes
* `FileUntilBad`: `FileSpec => [](bad = 0 => ScansWhole /\ ReadsBack /\ TraverseWhole)`
* `FileFailsWhenFull`: `FileSpec /\ [](bad = 0) => FailsWhenFull`. Without bad blocks
  the walk visits only blocks, so that `AllocCorrupt` does not happen; with them
  `lfs_file` checks it.

Two proofs failed for a reason in the model, which was changed. `PairInit` had
the first commit of one unit whatever the length of a commit is; now it is of any
length. `SendEarly` cut a packet off at `FifoSize` even when it is shorter, and
then lost its end; now a packet that fits is whole.

**Only model-checked.** Liveness (`Finishes`, `CallsReturn`, `Resynchronises`,
`WritesReturn`, and `<>done` of `ImplementsUpdate`), which is out of the prover's
reach. `ReadsBack`, `TraverseWhole` and `CopyOnWrite` of `LfsFile` where `ScansWhole`
fails, and `FailsWhenFull` after a block has turned out bad: there the run `lfs_file`
checks them where there is room. Where other files leave less, a bad block makes
`ReadsBack` fail, as `lfs_lost` shows. The links between the layers that section 2
names are not proved either.

## 5. Where the code and its comments differ

Shown by a run:

* `boot_kept`: `flash.h:7` restricts the driver to the application section;
  `boot_from_fs` passes on the address of each record of `/boot` unchecked.
* `link_pause`: `commuch.h:34` says that `com_channel_getc` returns received
  data; after a time-out it returns a byte that nobody sent.
* `spi_block`: `w25q128jv_write_block` computes its first page with the sector
  conversion, `w25q128jv_read_block` with that of blocks. The boot loader calls
  neither.
* `lfs_hole`: an `EXT_WRITE` that fills the volume fails and leaves a part of its
  record; a later one that fits clears `LFS_F_ERRED`, and `FCLOSE` commits a file
  with a record cut short. `lfs.c:3310` calls a file that has erred not safe. The
  boot loader drops the results, so every command was acknowledged.
* `lfs_lost`: when a block goes bad right after it was linked, the allocator
  walks the chain with a block too many, misses the last but one and can hand it
  out; `lfs.c:588` says that this is prevented. It needs a nearly full volume.

Met while reading, without a run:

* `bootprotocol.h:124` promises an answer to each command; nine have none
  (`bootprotocol.c:232-261`).
* `bootprotocol.c:219` says that `FCLOSE` releases the resources in use; after a
  second `FOPEN` one cache buffer is out of reach (`LeaksNeedFaults` bounds it).
* `flash.h:46` says that a failed read returns 1; a read outside the flash
  returns 0 and leaves the fail flag to the next write (`RefusalHeals`).
* `bootprotocol.h:25` has the check sum modulo 255; the code takes it modulo 256.
* A block that goes bad after it was linked, on a volume that is then found full,
  leaves words in the cache of the file; the next `EXT_WRITE` can fail the
  assertion of `lfs.c:262` (`AssertFails`).
* `EXT_WRITE` stores `BUFFERSIZE` bytes whatever the length of the packet
  (`bootprotocol.c:228`); nothing says how long its packets are.

## 6. Plan

Done: all modules of section 2 and the proofs of section 4. Left, in this order:

1. `LfsFileProofs`: how much room a volume must have for `ReadsBack` to hold
   without the premise `ScansWhole`. The run `lfs_file` finds that 12 blocks do for
   one bad block when other files have at most five of them.
2. A full volume in `BootFs`: failed writes as `LfsFile` has them, and what
   `boot_from_fs` makes of the file they leave.
3. Late replies and premature time-outs in `BootSession`.

## 7. Not modelled

* mbed TLS: vendored, and no part of the boot loader calls it; only the board
  tests do. It is most of the lines of the repository.
* CMSIS and the vendor library, but for what `AppFlash` and `PacketLink` take
  from `fmc.c` and `uart.c`: register access. An ISP command that is still busy
  when the polling ends (`fmc.c:550`) is assumed away.
* LittleFS beyond one directory and one open file: splitting, moves, orphans,
  global state, truncation, attributes, migration. The boot loader never calls
  or reaches them.
* Start-up code, linker scripts, the board tests, and of `boot_system.c` the
  clock, pin and UART set-up and the register writes before the jump: no state
  the properties tell apart.

`PROJECT.json` gives the reason for each, and lists the four hazards that no
property covers.
