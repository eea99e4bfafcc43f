# TLA+ models of librsu

librsu (`src/src`) lets Linux and RTOS software manage Remote System Update
(RSU) images on the QSPI flash of an SoC FPGA. The firmware boots from the
images that the **CPB** (configuration pointer block) points at. The **SPT**
(sub-partition table) describes where each slot lives on the flash. Both
tables are kept twice on the flash (SPT0/SPT1 and CPB0/CPB1), because a power
loss can fall anywhere. This project models the code that keeps those copies,
and the slot data they describe, correct.

## The system and how its parts interact

| Part | Source | What it does |
|---|---|---|
| Public API and session | `libRSU.c` | `ctx.state`, the mutex, and one entry point per operation. Each entry point checks the state, takes the mutex, checks the sticky flags and the slot, then calls the engine. |
| Metadata engine | `libRSU_ops.c` | The dual-copy reconciler (`load_spt`, `load_cpb`), write-then-stamp writeback (`writeback_spt`, `writeback_cpb`), the in-place `update_cpb`, the partition operations, priorities, and save/restore. |
| Program and verify pipeline | `libRSU_cb.c` | `librsu_cb_program_common` does the slot checks and the priority check, writes the image block by block, reads each block back, and finally calls `priority_add`. |
| Image pipeline | `libRSU_image.c` | Relocates signature-block pointers of an image for the slot it is written into, and rebuilds them to compare on verify. |
| Session and platform | `libRSU.c`, `libRSU_cfg.c`, `RSU_osal_linux.c` | `librsu_init` and `librsu_exit` set `ctx.state`, create and destroy the pthread mutex, bind the platform (`hal`, `intf`) and open or close the tables (`rsu_qspi_open`, `rsu_qspi_close`). |
| Configuration, utilities | `libRSU_cfg.c`, `libRSU_misc.c`, `libRSU_utils.c` | Parse the configuration file (write-protect lines, checksum option), map slots to partitions, swap bits and bytes, CRC. |

The engine's in-memory database holds:

- the cached SPT and CPB;
- `cpb_slots`, a pointer into the cached CPB that is NULL until a CPB copy with a valid magic has been read;
- the sticky flags `spt_corrupted`, `cpb_corrupted` and `cpb_fixed`.

After each boot, the firmware reports through the mailbox whether it found
CPB0 or both CPBs corrupted. `load_cpb` obeys that report until the user fixes
the CPB.

## Module `RsuMetadata`: the engine and its callers

`RsuMetadata.tla` models the engine, and every entry point of `libRSU.c` and
`libRSU_cb.c` that changes it, as one state machine.

- **State.**
  - `sptFlash` and `cpbFlash` are the two copies on the flash, each a `[magic, data]` record.
  - `img` holds the data of each partition offset: blank, full or partial.
  - The database is `sptCache`, `cpbCache`, `cpbMagic`, `cpbSlots` and the three flags.
  - `fwState` is the firmware's report.
  - `state` is `ctx.state`.
  - `savedSpt` and `savedCpb` are the images last saved by the user.
- **Data abstraction.**
  - A partition is a record of a model-value name and offset.
  - A pointer slot holds an offset, ERASED (all ones), SPENT (all zeros) or GARBAGE (torn).
  - A magic is `valid`, `ff` or `bad`.
  - NOR programming is modelled by what it does: it only clears bits. Programming over a different value yields GARBAGE, or SPENT when one side is zero (`PtrProgram`, `SptProgram`, `MagicProgram`).
- **Control.**
  - The C call tree is kept with a program counter `pc` and a return `stack`. Each in-memory decision of a function is one action, with the function's name (`LoadSpt`, `PriorityAdd`, `DeletePartition`, ...).
  - Every erase or program the code issues is a flash operation queued in `job`, and `FlashStep` performs them one at a time. Examples:
    - `RestoreCopy` stands for erase, write with magic 0xFFFFFFFF, then stamp the magic.
    - `Writeback` is that sequence for both copies, in SPT order.
    - `UpdateWrites` is the in-place program of both copies by `update_cpb`.
  - Guards come from the code's checks in code order. A refused call changes nothing (`Refuse`).
- **Faults.**
  - `Crash` is a power loss at any point. It may tear the flash operation under way, and it resets the process. The firmware's report is then recomputed from the flash.
  - `FlashFail` makes the next flash operation fail part way. The write function returns its error at once.
  - `Damage` corrupts one copy while the board is off.
  - Calls, crashes, failures and damage are each bounded by a named constant.
- **Undefined behaviour.** `priority_get` dereferences a NULL `cpb_slots` on the raw and callback program paths. The model lets the process either die or read a zero slot count.

`MCRsuMetadata.tla` gives the constants concrete values. There are two
partition offsets and two names as model values. Slot 0 initially holds one
partition with one CPB entry pointing at it, and two pointer slots are
available. With these values, creation, deletion, compaction of the pointer
slots (after one remove and one add) and a full CPB are all reachable.

## Module `RsuSession`: several threads, the mutex and the lifecycle

`RsuSession.tla` models `librsu_init`, `librsu_exit` and the shape every
public call shares (check `ctx.state`, `MUTEX_LOCK`, read and write the tables,
`MUTEX_UNLOCK`), with several caller threads. The tables' contents are reduced
to a count of updates; `RsuMetadata` models the contents.

- **State.** `state` is `ctx.state`. `mutex` is `"invalid"`, `"free"` or the
  owning thread. `hal`, `intf` and `platDatabase` are the three statics that
  init sets and exit clears; `platDatabase` may be `"dangling"` (freed, not
  NULL). Each thread has a `pc` and the value it read under the lock (`local`).
- **Actions.** One per step of the C code, in code order: `InitCheck`,
  `InitSet`, `InitMutex`, `InitParse` (which is `CfgParse`: platform init,
  `rsu_qspi_open` with its failure branches, then the `intf` binding);
  `ExitCheck`, `ExitSet`, `ExitDestroy`, `ExitClose`, `ExitReset`; and for a
  call `OpCheck`, `OpLock`, `OpRead`, `OpWrite`. The check of `ctx.state` and
  its update are separate steps, as in the code.
- **Undefined behaviour.** The pthread calls the code makes on a mutex in the
  wrong state are choices over what glibc may do: destroying a held mutex
  leaves it held or invalid; locking an invalid mutex fails and the error is
  ignored, so the call proceeds unlocked; unlocking another thread's mutex
  leaves it held or frees it. A call that uses `intf` or `plat_database` after
  exit cleared them crashes the process (`Segfault`).
- **Init's mutex.** `rsu_mutex_init` returns `pthread_mutex_init`'s result,
  a positive errno on failure, and `librsu_init` tests `ret < 0`: a failed
  mutex init goes unnoticed, and `InitMutex` goes on with the mutex as it was.

`MCRsuSession.tla` gives two threads as model values. `Lifecycle` names the
threads that also call init and exit.

## Module `RsuImage`: the image pipeline and the slot data calls

`RsuImage.tla` models all of `libRSU_image.c`, the block loops of
`librsu_cb_program_common` and `librsu_cb_verify_common`, and the entry points
that drive them: `rsu_slot_program_buf`, `_file`, `_buf_raw`, `_file_raw`, the
four verify calls, `rsu_slot_erase`, `rsu_slot_copy_to_file` and
`rsu_slot_copy_to_buf`.

- **Data.** One unit is one 4 KiB block, the size of both the pipeline's block
  and the copy calls' chunk. A block is a record of its kind (`cmf`: starts
  with `CMF_MAGIC`; `sig`; `data`; `blank`; `torn`), the four section pointers
  of `struct pointer_block`, and whether its CRC is valid. An image is a
  sequence of blocks; a file or buffer the copy calls fill is a source that
  remembers the slot it came from.
- **Operators.** `find_section`, `add_section` (with the `MAX_SECTIONS` cap),
  `librsu_image_block_init`, `sig_block_process` (the absolute test on the
  second block, and the section list built with `FoldLeft` over the four
  pointers in order), `sig_block_adjust` (CRC check, signed range check,
  relocation), `sig_block_compare`, `block_compare` and
  `librsu_image_block_process` are pure operators with the code's names.
  `ProgramLoop` and `VerifyLoop` are `RECURSIVE` operators for the two block
  loops, with their early returns in code order.
- **Actions.** Each public call is one step (it runs under the mutex) and sets
  `ret`. Flash programming is `NorProgram`: it only clears bits, so
  programming over anything but blank flash or the same data leaves a torn
  block, which the read-back compare reports. A write may fail at any block
  (`MaxWriteFailures`).
- **Undefined behaviour.** `librsu_image_block_init` sets `no_sections = 1`
  before `add_section(0)`, so it compares with `sections[0]` of an
  uninitialized local. The stale value is a choice from the constant
  `Garbage`.
- **Reference.** `RefPlaced` states spec 4.5 directly from the image's layout
  (absolute iff a pointer of block 2 exceeds the slot size; otherwise every
  signature block's non-zero pointers move by the slot offset), without the
  section walk the code does.

- **Write protection.** `librsu_cb_program_common` and `rsu_slot_erase`
  return `-EWRPROT` for a slot that `librsu_cfg_writeprotected` reports, before
  anything else they check here. The protected set is what `RsuCfg` parses
  from the constant configuration file.

## Module `AbstractBootOrder`: what the CPB promises the firmware

`AbstractBootOrder.tla` is the abstract specification of the CPB. Its state is:

- `boot`: the order in which the firmware would try the slots if the board reset now;
- `saved`: the order in the user's saved copy;
- a fault counter;
- `trusted`: whether the library vouches for the CPB.

Each step does one of these:

- removes one partition (erase, delete, disable);
- puts one absent partition on top (program, enable);
- empties the order (`create_empty_cpb`);
- saves the order or restores the saved one;
- changes `trusted`.

A fault step, and any step while the CPB is not trusted, may leave any order.
Spec 4.3 has every mutation refused while the CPB is flagged.

`RsuMetadata` maps onto it as follows:

- `FwBoot` is the live entries of the copy the firmware would use, CPB0 unless `FwGood` rejects it, read highest priority first, the way `priority_get` counts them (`BootOrderOf`).
- `trusted` is `~cpbCorrupted`.
- The fault counter is the sum of power losses, damaged copies and failed flash operations.

`ImplementsBootOrder` checks this refinement at every flash step, not only between calls. It is what the write-then-stamp protocol of `update_cpb`, `writeback_cpb` and `priority_add`'s compaction is for.

It is checked in the `crash` run. It does not hold under flash operation failures, and the reasons are already findings:

- After a failed erase in `rsu_create_empty_cpb`, the stale cache stays (the `iooverwrite` finding).
- `enable` then adds a partition a second time.

## Module `RsuCfg`: the configuration file

`RsuCfg.tla` models `librsu_common_cfg_parse`, which `librsu_cfg_parse` calls
while `librsu_init` binds the platform, and `librsu_cfg_writeprotected`.

- **Data.** A line is the argv that `split_line` makes of it, a sequence of
  words. The constant `Strtoul` gives what `strtoul` stores in the U32 slot
  number; any value above 31 is written as 32, because the code only compares
  it with 31. `hal->writeprotect` is the set of its bits. `1 << 31` overflows a
  signed int; the model takes what gcc and clang produce, bit 31.
- **Operators.** `CfgLine` is one iteration of the loop: blank and comment
  lines are skipped, and a `write-protect` or `rsu-spt-checksum` line with the
  wrong argument count, or a slot above 31, returns `-EINVAL`. `CfgLines` is the
  `RECURSIVE` loop with that early return. `librsu_common_cfg_parse` adds the
  `-ENOENT` path, and `hal` is what the parse leaves, since `librsu_cfg_parse`
  ignores its result.
- **Reference.** `SpecWriteProtected` is spec 6.3's reading of the same file:
  every well-formed `write-protect <0..31>` line protects its slot, and
  malformed lines are ignored.

`MCRsuImage.tla` has two slots (offset 8, size 5; offset 16, size 4) and four
images: a relocatable two-section image of five blocks, a four-block one that
fits both slots, an absolute image built for the first slot, and one whose
second signature block points past the slot. A third slot, `s3` (offset 24, size 2),
is slot number 31. `MCConfigClean` protects it among a blank line, a comment, an
ignored key and a checksum line. `MCConfigMalformed` names slots 0 and 1 on one
`write-protect` line and slot 31 on the next.

## Modules `RsuChecksum` and `RsuBytes`: the bytes under the CRCs

The other modules abstract a CRC into a flag and a table copy into "valid or
not". These two modules model the bytes, so that the bit and byte order, the
signed arithmetic and the write order of the magic are checked as the code
does them.

- **`RsuChecksum`** has operators only. `swap_bits` (one `SwapLoop` per char, an
  arithmetic shift and a wrap back into a signed char) and `swap_endian32`
  come from `libRSU_misc.c`. `PtrValue`, `MovePtrs`, `UpdateCrc`,
  `CrcMatches` and `SigBlockAdjust` come from `sig_block_adjust`: the CRC
  check over bit-swapped bytes, the S64 range check with the slot offset
  subtracted for an absolute image, relocation that wraps at the pointer
  width, and the CRC update. `SigBlockExpected` comes from
  `sig_block_compare`. `SptChecksumOk` comes from `check_spt` and
  `SptChecksumWrite` from `writeback_spt`. `SAFE_STRCPY` is also here.
  `rsu_crc32` is a constant: the platform's function, any function of the
  bytes. The reference definitions (`RevBits`, `ValidSig`) describe a
  signature block as spec 3.1 does, with bit-reversed bytes and a big-endian
  CRC32 at the end. They are written independently of `swap_bits`.
- **`RsuBytes`** is a state machine over two slots, a user file, the two SPT
  copies and the cached SPT. Its actions are:
  - `rsu_slot_program_buf`, `rsu_slot_verify_buf`, `rsu_slot_erase` and
    `rsu_slot_copy_to_file`, on one signature block;
  - `rsu_slot_rename`, modelled with `partition_rename`: the length and
    duplicate checks, then `SAFE_STRCPY`, `writeback_spt` and `load_spt`;
  - `librsu_init`, modelled with `rsu_qspi_open` and `load_spt`;
  - `librsu_exit`.

  `writeback_spt` and `load_spt` run copy by copy: erase, checksum, write
  with the erased magic, then write the magic. Any one step can fail with
  `-EIO`, and the power can be lost after an erase or after a write. The
  history variables `damaged` and `interrupted` record whether each copy was
  last written whole, and whether a writeback was cut short.

`MCRsuBytes` uses the following sizes:

- 17-byte signature blocks: a byte, four 24-bit pointers and the CRC;
- a 12-byte SPT: magic, version, checksum and a 3-byte name field;
- two slots, at offsets 1000 and 39000, each 8192 bytes long.

The user blocks are:

- a relocatable block;
- a block with a pointer past the slot;
- an absolute block built for the first slot, which the signed check accepts
  in the second;
- a block with a corrupt CRC.

`MCCrc32` is a position-weighted byte hash. A CRC32 would not add cases: each
property compares CRCs computed by the same function.

## Runs

| Run | Checks | Result |
|---|---|---|
| `crash` | `TypeOK`, `MetadataConsistent`, `NoPointerToSlotInFlux`, `OnePointerPerPartition`, `ImplementsBootOrder` with 5 calls, 1 power loss and 1 damaged copy | pass, about 548k states |
| `io` | `ReconciledAtOpen` with 5 calls and 1 failing flash operation | pass, about 931k states |
| `raw` | `SlotWritesRefusedWhileCorrupted` | violation: raw and callback programs write while the CPB is flagged |
| `iooverwrite` | `NoPointerToSlotInFlux` with a failing flash operation | violation: after a failed `empty_cpb`, a program call overwrites the image CPB1 still boots |
| `sessionlife` | `SessionConsistent` (two threads, one of which also calls init and exit; two collaborator failures) | pass, 7256 states |
| `lifecyclerace` | `CallsSeeOpenDatabase` | violation: `librsu_exit` frees the tables under a thread that passed the state check |
| `doubleinit` | `SessionConsistent` with both threads calling init | violation: both pass the unlocked state check, and the second init's failure sets `ctx.state` back to `un_initialized` over the open database |
| `image` | `ProgramRelocates`, `ProgramThenVerify`, `ConfiguredSlotsUnchanged` with three slots, 4 calls and 1 failing write | pass, 10741 states |
| `roundtrip` | `CopyReprogramRelocates` | violation: a copied slot programmed into another slot keeps the first slot's pointers |
| `bytes` | `ProgramFollowsFormat`, `VerifyAcceptsProgrammed`, `SptFlaggedOnlyAfterLoss` with 6 calls, 1 failing flash step and 1 power loss | pass, 29791 states |
| `magicretry` | `AtLeastOneGoodCopy` with 4 calls | violation: a failed SPT write leaves the erased magic in the cache; the retry writes a bad copy 0, and a power loss after erasing copy 1 leaves no good copy |
| `cfgmalformed` | `ConfiguredSlotsUnchanged` under `MCConfigMalformed` | violation: the two-slot line stops the parse, and slot 31 is programmed and erased |

The properties of the passing runs:

- **`MetadataConsistent`.** Between calls, a table not flagged corrupted is stamped on both copies and equal to the cache.
- **`NoPointerToSlotInFlux`.** While slot data is erased or programmed, no stamped CPB copy points at it. This is the property that keeps the firmware from booting a half-written image.
- **`OnePointerPerPartition`.** Each partition has at most one live entry, which is what makes `priority_get` mean anything.
- **`ImplementsBootOrder`.** At every flash step, the order the firmware would boot in moves by at most one whole operation (refinement of `AbstractBootOrder`).
- **`ReconciledAtOpen`.** Under failing flash operations, every successful init leaves each table it does not flag stamped on both copies and equal to the cache. Spec 5 says partial writes are reconciled on the next init. `MetadataConsistent` itself does not hold between calls under I/O errors: partition changes, `priority_add` and `empty_cpb` return without reload and leave the cache ahead of the flash.
- **`SessionConsistent`.** Between lifecycle calls, `ctx.state` is `initialized` exactly when `hal`, `intf` and `plat_database` are all set.
- **`ProgramRelocates`.** After a successful non-raw program, the slot holds the image as the spec 4.5 reference places it. This is what the section walk, the absolute test and the relocation must get right together.
- **`ProgramThenVerify`.** Spec invariant 5: verifying a slot against the source it was programmed with returns 0, for every stale `sections[0]` value of the run.
- **`ConfiguredSlotsUnchanged`.** No call changes the flash or the CPB entry of a slot that a well-formed `write-protect` line names. The configuration parse and the checks of the program and erase paths must agree for it to hold.
- **`ProgramFollowsFormat`** (RsuBytes). A program call succeeds exactly when the block's CRC is right in the bitstream format and its pointers fit the slot. A programmed slot then holds the block as the format places it. This needs the bit swaps, the endian swap, the signed range check and the wrapping pointer arithmetic all to agree with the format.
- **`VerifyAcceptsProgrammed`** (RsuBytes). Verifying a slot against the block it was programmed with returns 0, on the bytes.
- **`SptFlaggedOnlyAfterLoss`** (RsuBytes). The SPT is flagged corrupted only when both copies were damaged or a writeback was cut short. A checksum that `writeback_spt` computes and `check_spt` then rejects breaks it.

Each of these properties is broken by a plausible mutation of the code's
model (see `mutants` in `PROJECT.json`):

- a header-only copy compare;
- a `priority_add` compaction that puts the new entry below the live ones;
- a program path without the priority check;
- an enable that adds without removing;
- a copy compare over the header only, which leaves a half-written SPT unrepaired at the next init (`ReconciledAtOpen`);
- a create that misses a duplicate name;
- an init that ignores a failed configuration parse;
- relocation of zero pointers, and a verify that compares signature blocks unrelocated (RsuImage);
- a configuration parser that refuses slot 31, as an off-by-one on the `1 << slot` bound would (RsuCfg);
- a CRC update without the final `swap_bits`, a verify that does not recompute the CRC, and an SPT checksum computed without zeroing the old one (RsuChecksum, RsuBytes).

Two more bugs are recorded as hazards, and no run checks them, because a
unit test of two calls reproduces each:

- `rsu_restore_cpb_from_buf` refuses while `cpb_corrupted` is set
  (`libRSU.c:1782`). `RsuMetadata`'s `RestoreFromBufRecovers` is violated
  under the crash constants.
- A failed `rsu_qspi_open` frees `plat_database` without clearing the
  pointer (`libRSU_ops.c:1917`). `RsuSession`'s `FailedInitLeavesNoDatabase`
  is violated.

The findings are in `PROJECT.json` with the source lines and the spec
sections they disagree with.

**Bounds.**

- RsuMetadata: five calls are enough for the behaviours that matter: open, save, change, crash, re-open, restore. The shortest violating traces above take 9 to 33 steps.
- One power loss, one failing operation or one damaged copy is the smallest number that reaches every recovery path. A second fault multiplies the state space, and nothing in the code distinguishes the second fault from the first.
- RsuSession: in `sessionlife`, two threads are enough for a lifecycle call to overlap a call of the other
  thread, and two collaborator failures reach each failing branch of
  `librsu_cfg_parse` and a retried init. `doubleinit` needs two calls of
  the four it is given.
- RsuImage: four calls reach program, copy, erase and re-program of the copy,
  and a second slot at a different offset is what relocation needs to be
  visible. The pass run's `Garbage` is `{0, 4}`: 0, and the offset of a data
  block, which takes the model through `no_sections = 2`. With `Garbage = {1}`
  (`MCGarbageSig`, the offset of the first signature block), TLC finds
  `ProgramRelocates` violated: the block is written unrelocated and the program
  returns 0 (hazard at `libRSU_image.c:279`). The runs keep
  `MAX_SECTIONS` at the code's 64, which no image of a few blocks reaches; with
  it set to 2, TLC finds `ProgramRelocates` violated, because
  `sig_block_process` ignores `add_section`'s error. Slot 31 is the boundary
  of both the parser's check and the shift.
- RsuBytes: six calls reach init, rename with a failure, a retried rename
  cut short by a power loss, and re-init. The same six calls also reach
  program, copy and verify in both slots. The pointers are 24 bits wide, so
  that offset 39000 minus pointer 20000 wraps negative. One failing step and
  one power loss, at any of the six steps of a writeback, reach every branch
  of `load_spt`. `magicretry` needs only four calls.

**Fairness.** Every run checks invariants and action properties only, so
no fairness is assumed. The C call paths have no loops or waits besides
`MUTEX_LOCK`, so that a call returns is not a question the code can get
wrong in a way a model would show. The library really may stop when the
user stops calling, so the runs do not check deadlock.

## Not modelled, and why

- **Firmware pass-through calls and read-only queries.** The status, notify and DCMF calls, `slot_count`, `get_info`, `slot_by_name`, `slot_size` and `slot_priority` change no library state beyond what they read. `load_after_reboot` and `load_factory_after_reboot` only hand an address to the firmware.
- **The text layer of the configuration file.** `fgets` into 128 bytes, `split_line` and `strtoul` become sequences of words and a table of their values. The `log`, `root` and `rsu-dev` keys belong to the platform files outside `src/src`. `RsuMetadata` keeps write protection as a constant set. The checksum flag is parsed, but `load_spt`'s checksum is abstracted into the validity of a copy. `RsuImage` and `RsuMetadata` abstract the CRCs and checksums to flags. `RsuBytes` models them on the bytes, but only for one signature block and the SPT, not for a whole image or the CPB. `SAFE_STRCPY`'s truncation branch is unreachable, because both of its callers check the length first.
- **The wrapper checks in `RsuImage`.** The corrupted flags and `priority_add` failures of the program path are modelled in `RsuMetadata`. `RsuImage` takes the tables as sound. Callback sources and a short final block are not modelled; a source is whole blocks.
- **Pointer values near 2^63.** `sig_block_adjust` reads pointers as signed 64-bit values. The images here use small pointers, and a pointer below the slot offset is kept negative, as the signed check sees it.

## Plan for later work

1. Compose `RsuImage` with `RsuMetadata`, so that the program path's priority and the slot contents are checked together: a slot that a CPB entry points at holds an image that verifies.
2. An abstract specification of the SPT as well, under which the table is one value that is either good or flagged, refined like the boot order.
3. The re-open after a fix in the same boot. `cpb_fixed` is cleared by every open, and the firmware's report lasts until the next reboot. With `MaxDamage = 2`, TLC finds this sequence: both copies damaged; init flags the CPB; `rsu_create_empty_cpb`; exit; init flags it again with both copies valid and equal. That is against spec invariant 1. Spec 4.3 does not say whether the user's fix lasts past `librsu_exit`, so this is a hazard in `PROJECT.json` and no run checks it yet.
