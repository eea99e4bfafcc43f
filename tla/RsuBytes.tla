------------------------------- MODULE RsuBytes -------------------------------
(***************************************************************************)
(* The calls of librsu that run the byte-level code of RsuChecksum, on     *)
(* bytes: program, verify, erase and copy of the signature block of an     *)
(* image (librsu_cb_program_common, librsu_cb_verify_common and the image *)
(* pipeline of libRSU_image.c), and rsu_slot_rename with the SPT           *)
(* writeback and reload under it (partition_rename, writeback_spt and      *)
(* load_spt in libRSU_ops.c), with librsu_init and librsu_exit.            *)
(*                                                                         *)
(* RsuImage follows whole images as block records whose CRC is a flag, and *)
(* RsuMetadata follows whole tables whose checksum is part of a copy being *)
(* valid.  Here an image is its signature block and a table is one         *)
(* partition name, so that the bytes, the bit swaps, the CRCs and the SPT  *)
(* magic number are all there.                                             *)
(*                                                                         *)
(* A flash operation can fail, or the power be lost, at the points of the *)
(* SPT loops; a board may start with SPT copies damaged.                   *)
(***************************************************************************)
EXTENDS RsuChecksum, FiniteSets

CONSTANTS
    Slots,           \* the slots of the instance
    SlotOffset,      \* slot -> info->offset, in bytes
    SlotSize,        \* slot -> info->size, in bytes
    UserBlocks,      \* signature blocks of the images the user programs
    SptMagic,        \* SPT_MAGIC_NUMBER, as its 4 bytes in memory
    VersionAt,       \* offset of the low byte of the SPT version
    NameAt,          \* offset of partition[0].name in the SPT
    NameLen,         \* SPT_PARTITION_NAME_LENGTH
    Names,           \* rsu_slot_rename arguments, NameLen bytes each
    GoodSpt,         \* the table both SPT copies hold on a healthy board
    DamagedSpt,      \* a copy as flash corruption leaves it
    ChecksumEnabled, \* librsu_cfg_spt_checksum_enabled()
    MaxOps,          \* calls in a behaviour
    MaxIoErrors,     \* failed flash operations in a behaviour
    MaxCrashes       \* power losses in a behaviour

VARIABLES
    slot,         \* slot -> the bytes of its signature block in flash
    prog,         \* slot -> the block of its last successful program, or None
    file,         \* the last file rsu_slot_copy_to_file wrote, or None
    spt,          \* SPT copy -> its bytes in flash
    cache,        \* plat_database->spt
    sptCorrupted, \* plat_database->spt_corrupted
    open,         \* ctx.state = initialized
    last,         \* the last slot call: what it was given and returned
    damaged,      \* SPT copy -> not as the library last wrote it (history)
    interrupted,  \* an SPT update stopped part way, none completed since (history)
    ops, ioErrors, crashes

vars == <<slot, prog, file, spt, cache, sptCorrupted, open, last, damaged, interrupted, ops, ioErrors, crashes>>

SptCopies == {0, 1}
SPT_VERSION == 0
\* errno.h, and libRSU.h 32-34.
EPERM == 1
EIO == 5
EFAULT == 14
EPROGRAM == 6
ECMP == 7
EERASE == 5
None == <<>>
Erased(n) == [i \in 1 .. n |-> -1]
ErasedMagic == Erased(4)
SetMagic(tbl, m) == Put(tbl, 0, m)

(***************************************************************************)
(* The slot calls.  The signature block is the image's second block, the  *)
(* one sig_block_process decides `absolute` on (libRSU_image.c 91-99).    *)
(***************************************************************************)
absolute(blk, s) == \E x \in 1 .. 4 : PtrValue(blk, x) > SlotSize[s]

Sources == UserBlocks \cup (IF file = None THEN {} ELSE {file})

SlotCall == open /\ ops < MaxOps /\ ~sptCorrupted /\ ops' = ops + 1

\* Refused while the slot has a priority (libRSU_cb.c 153-156).  The block
\* is processed before it is written, so a refused block writes nothing;
\* the slot is erased, so the read-back compare (225-246) matches.
rsu_slot_program_buf(s) ==
    /\ SlotCall
    /\ prog[s] = None
    /\ \E src \in Sources :
         LET r == SigBlockAdjust(src, absolute(src, s), SlotOffset[s], SlotSize[s])
         IN  /\ slot' = IF r.ret = 0 THEN [slot EXCEPT ![s] = r.block] ELSE slot
             /\ prog' = IF r.ret = 0 THEN [prog EXCEPT ![s] = src] ELSE prog
             /\ last' = [call |-> "program", slot |-> s, src |-> src,
                         ret |-> IF r.ret = 0 THEN 0 ELSE -EPROGRAM]
    /\ UNCHANGED <<file, spt, cache, sptCorrupted, open, damaged, interrupted, ioErrors, crashes>>

\* sig_block_compare, then block_compare against the flash.
rsu_slot_verify_buf(s) ==
    /\ SlotCall
    /\ \E src \in Sources :
         last' = [call |-> "verify", slot |-> s, src |-> src,
                  ret |-> IF SigBlockExpected(src, absolute(src, s), SlotOffset[s]) = slot[s]
                          THEN 0 ELSE -ECMP]
    /\ UNCHANGED <<slot, prog, file, spt, cache, sptCorrupted, open, damaged, interrupted, ioErrors, crashes>>

\* priority.remove, then data.erase.
rsu_slot_erase(s) ==
    /\ SlotCall
    /\ slot' = [slot EXCEPT ![s] = Erased(CrcOffs + 4)]
    /\ prog' = [prog EXCEPT ![s] = None]
    /\ last' = [call |-> "erase", slot |-> s, src |-> None, ret |-> 0]
    /\ UNCHANGED <<file, spt, cache, sptCorrupted, open, damaged, interrupted, ioErrors, crashes>>

\* The slot's bytes as they are in flash; a slot without a priority is
\* refused (libRSU.c 903-909).
rsu_slot_copy_to_file(s) ==
    /\ SlotCall
    /\ \/ /\ prog[s] = None
          /\ last' = [call |-> "copy", slot |-> s, src |-> None, ret |-> -EERASE]
          /\ UNCHANGED file
       \/ /\ prog[s] # None
          /\ file' = slot[s]
          /\ last' = [call |-> "copy", slot |-> s, src |-> None, ret |-> 0]
    /\ UNCHANGED <<slot, prog, spt, cache, sptCorrupted, open, damaged, interrupted, ioErrors, crashes>>

(***************************************************************************)
(* The SPT.  A step of writeback_spt or load_spt works on a record m of   *)
(* the copies, the cache, the return value so far and the copies written  *)
(* whole (wrote) or left part written (torn).  f is the one fault of the  *)
(* call, or NoFault: a flash operation that fails, or the power lost      *)
(* after a copy is erased or after its table is written (then the call    *)
(* ends with the return value CRASH and the library is gone).             *)
(***************************************************************************)
IoPoints == {<<op, c>> : op \in {"erase", "write", "magic"}, c \in SptCopies}

CrashPoints == {<<op, c>> : op \in {"lost_erased", "lost_written"}, c \in SptCopies}

NoFault == <<"none", -1>>

CRASH == -1000

Faults ==
    {NoFault} \cup (IF ioErrors < MaxIoErrors THEN IoPoints ELSE {})
              \cup (IF crashes < MaxCrashes THEN CrashPoints ELSE {})

Start ==
    [spt |-> spt, cache |-> cache, ret |-> 0, wrote |-> {}, torn |-> {}, corrupted |-> FALSE,
     hit |-> FALSE]

\* The test check_spt makes of the checksum (libRSU_ops.c 251-271).
ChecksumApplies(tbl) == tbl[VersionAt + 1] > SPT_VERSION /\ ChecksumEnabled

\* A copy load_spt accepts: its magic number, then check_spt.
SptGood(tbl) == Field(tbl, 0, 4) = SptMagic /\ (ChecksumApplies(tbl) => SptChecksumOk(tbl))

(***************************************************************************)
(* Erase copy c, write tbl with the magic number erased in the cache, put *)
(* the magic number back in the cache and write it alone: the body of the *)
(* writeback_spt loop (867-884) and of each restore of load_spt (405-425, *)
(* 439-458).  The flash copy ends as tbl with the magic number; a failed  *)
(* table write returns with the cache's magic number still erased.        *)
(***************************************************************************)
WriteSptCopy(m, c, tbl, f, err) ==
    CASE m.ret # 0 -> m
      [] f = <<"erase", c>> -> [m EXCEPT !.ret = err, !.hit = TRUE]
      [] f = <<"write", c>> ->
            [m EXCEPT !.spt[c] = Erased(Len(tbl)), !.cache = SetMagic(tbl, ErasedMagic),
                      !.ret = err, !.torn = @ \cup {c}, !.hit = TRUE]
      [] f = <<"magic", c>> ->
            [m EXCEPT !.spt[c] = SetMagic(tbl, ErasedMagic), !.cache = SetMagic(tbl, SptMagic),
                      !.ret = err, !.torn = @ \cup {c}, !.hit = TRUE]
      [] f = <<"lost_erased", c>> ->
            [m EXCEPT !.spt[c] = Erased(Len(tbl)), !.ret = CRASH, !.torn = @ \cup {c}, !.hit = TRUE]
      [] f = <<"lost_written", c>> ->
            [m EXCEPT !.spt[c] = SetMagic(tbl, ErasedMagic), !.ret = CRASH,
                      !.torn = @ \cup {c}, !.hit = TRUE]
      [] OTHER ->
            [m EXCEPT !.spt[c] = SetMagic(tbl, SptMagic), !.cache = SetMagic(tbl, SptMagic),
                      !.wrote = @ \cup {c}]

\* After the erase, the checksum of the cached table as it is, with the
\* field zeroed first (864-869), when the version and configuration ask.
WritebackCopy(m, c, f) ==
    IF m.ret = 0 /\ f \notin {<<"erase", c>>, <<"lost_erased", c>>} /\ ChecksumApplies(m.cache)
    THEN WriteSptCopy(m, c, SptChecksumWrite(m.cache), f, -EIO)
    ELSE WriteSptCopy(m, c, m.cache, f, -EIO)

\* SPT0 and SPT1 in the order of the partition table.
writeback_spt(m, f) == WritebackCopy(WritebackCopy(m, 0, f), 1, f)

(***************************************************************************)
(* load_spt (352-466): SPT1 and then SPT0 are read into the cache and     *)
(* checked.  Two good copies must be equal; one good copy is written over *)
(* the other; none sets spt_corrupted.                                     *)
(***************************************************************************)
load_spt(m, f) ==
    LET good(c) == SptGood(m.spt[c])
    IN  CASE good(0) /\ good(1) ->
               [m EXCEPT !.cache = m.spt[0], !.ret = IF m.spt[0] = m.spt[1] THEN 0 ELSE -EFAULT,
                         !.corrupted = m.spt[0] # m.spt[1]]
          [] good(0) -> WriteSptCopy([m EXCEPT !.cache = m.spt[0]], 1, m.spt[0], f, -EPERM)
          [] good(1) -> WriteSptCopy([m EXCEPT !.cache = m.spt[1]], 0, m.spt[1], f, -EPERM)
          [] OTHER -> [m EXCEPT !.cache = m.spt[0], !.ret = -EFAULT, !.corrupted = TRUE]

\* strncmp(a, b, n) == 0.
StrnEq(a, b, n) == \A i \in 1 .. n : (\A j \in 1 .. i - 1 : a[j] # 0) => a[i] = b[i]

Damaged(m) == [c \in SptCopies |-> IF c \in m.torn THEN TRUE
                                   ELSE IF c \in m.wrote THEN FALSE ELSE damaged[c]]

Interrupted(m) == IF m.hit THEN TRUE ELSE IF m.wrote = SptCopies THEN FALSE ELSE interrupted

\* The flash, the history and the fault budgets after the SPT steps m.
SptFlashAfter(m, f) ==
    /\ spt' = m.spt
    /\ damaged' = Damaged(m)
    /\ interrupted' = Interrupted(m)
    /\ ioErrors' = IF m.hit /\ f \in IoPoints THEN ioErrors + 1 ELSE ioErrors
    /\ crashes' = IF m.hit /\ f \in CrashPoints THEN crashes + 1 ELSE crashes

(***************************************************************************)
(* rsu_slot_rename (libRSU.c 1191-1230) and partition_rename (ops.c       *)
(* 1040-1075): a name that fills the field or that a partition already    *)
(* has is refused; otherwise SAFE_STRCPY into the cache, writeback_spt,   *)
(* load_spt.  Either failing returns -EPERM, leaving the cache as it is.  *)
(***************************************************************************)
rsu_slot_rename(name) ==
    /\ open /\ ops < MaxOps /\ ~sptCorrupted /\ ops' = ops + 1
    /\ \/ /\ \/ StrnLen(name, NameLen) >= NameLen
             \/ StrnEq(Field(cache, NameAt, NameLen), name, NameLen - 1)
          /\ UNCHANGED <<spt, cache, sptCorrupted, open, damaged, interrupted, ioErrors, crashes>>
       \/ /\ StrnLen(name, NameLen) < NameLen
          /\ ~StrnEq(Field(cache, NameAt, NameLen), name, NameLen - 1)
          /\ \E f \in Faults :
               LET renamed == Put(cache, NameAt,
                                  SAFE_STRCPY(Field(cache, NameAt, NameLen), NameLen, name, NameLen))
                   w == writeback_spt([Start EXCEPT !.cache = renamed], f)
               IN  \E wb \in {w} :
                     LET m == IF wb.ret = 0 THEN load_spt(wb, f) ELSE wb
                     IN  /\ SptFlashAfter(m, f)
                         /\ cache' = m.cache
                         /\ sptCorrupted' = (sptCorrupted \/ m.corrupted)
                         /\ open' = (m.ret # CRASH)
    /\ UNCHANGED <<slot, prog, file, last>>

(***************************************************************************)
(* librsu_init: rsu_qspi_open allocates the tables and runs load_spt; an  *)
(* error fails the init unless it set spt_corrupted (1924-1928).          *)
(***************************************************************************)
librsu_init ==
    /\ ~open /\ ops < MaxOps /\ ops' = ops + 1
    /\ \E f \in Faults :
         \E m \in {load_spt([Start EXCEPT !.cache = Erased(Len(GoodSpt))], f)} :
             /\ SptFlashAfter(m, f)
             /\ open' = (m.ret # CRASH /\ (m.ret = 0 \/ m.corrupted))
             /\ cache' = m.cache
             /\ sptCorrupted' = m.corrupted
    /\ UNCHANGED <<slot, prog, file, last>>

\* rsu_qspi_close frees the tables.
librsu_exit ==
    /\ open /\ ops < MaxOps /\ ops' = ops + 1
    /\ open' = FALSE
    /\ UNCHANGED <<slot, prog, file, spt, cache, sptCorrupted, last, damaged, interrupted, ioErrors, crashes>>

-----------------------------------------------------------------------------

\* The board is off: slots erased, each SPT copy good or damaged.
Init ==
    /\ slot = [s \in Slots |-> Erased(CrcOffs + 4)]
    /\ prog = [s \in Slots |-> None]
    /\ file = None
    /\ \E bad \in SUBSET SptCopies :
         /\ spt = [c \in SptCopies |-> IF c \in bad THEN DamagedSpt ELSE GoodSpt]
         /\ damaged = [c \in SptCopies |-> c \in bad]
    /\ interrupted = FALSE
    /\ cache = Erased(Len(GoodSpt))
    /\ sptCorrupted = FALSE
    /\ open = FALSE
    /\ last = [call |-> "none", slot |-> None, src |-> None, ret |-> 0]
    /\ ops = 0
    /\ ioErrors = 0
    /\ crashes = 0

Next ==
    \/ librsu_init
    \/ librsu_exit
    \/ \E s \in Slots :
         \/ rsu_slot_program_buf(s)
         \/ rsu_slot_verify_buf(s)
         \/ rsu_slot_erase(s)
         \/ rsu_slot_copy_to_file(s)
    \/ \E name \in Names : rsu_slot_rename(name)

Spec == Init /\ [][Next]_vars

-----------------------------------------------------------------------------

(***************************************************************************)
(* Spec 4.5 in the terms of the bitstream format (RsuChecksum's reference *)
(* definitions): a block is accepted when its CRC is in the format and    *)
(* every non-zero pointer, less the slot offset for an absolute image, is *)
(* at most the slot size; the slot then holds the block verbatim          *)
(* (absolute) or with the slot offset added to every non-zero pointer and *)
(* a new CRC in the format.                                                *)
(***************************************************************************)
Body(blk) == SubSeq(blk, 1, CrcOffs)

Accepts(blk, s) ==
    /\ blk = ValidSig(Body(blk))
    /\ \A x \in 1 .. 4 :
         PtrValue(blk, x) # 0 =>
            (IF absolute(blk, s) THEN PtrValue(blk, x) - SlotOffset[s] ELSE PtrValue(blk, x))
                <= SlotSize[s]

Placed(blk, s) ==
    LET moved(x, b) == IF PtrValue(blk, x) = 0 THEN b
                       ELSE Put(b, PtrOffs + (x - 1) * PtrWidth,
                                PtrBytes(PtrValue(blk, x) + SlotOffset[s]))
    IN  IF absolute(blk, s) THEN blk
        ELSE ValidSig(moved(4, moved(3, moved(2, moved(1, Body(blk))))))

\* The program path (sig_block_adjust with swap_bits, swap_endian32 and the
\* pointer move) accepts exactly the blocks spec 4.5 accepts, and leaves
\* every programmed slot holding the block as spec 4.5 places it, bit-exact,
\* through later copies, verifies, erases of other slots and SPT updates.
ProgramFollowsFormat ==
    /\ last.call = "program" => (last.ret = 0 <=> Accepts(last.src, last.slot))
    /\ \A s \in Slots : prog[s] # None => slot[s] = Placed(prog[s], s)

\* Spec 8, law 5: verifying a slot against the block it was last
\* programmed from returns 0 (sig_block_compare rebuilds the same bytes
\* that sig_block_adjust wrote).
VerifyAcceptsProgrammed ==
    (last.call = "verify" /\ last.src = prog[last.slot]) => last.ret = 0

(***************************************************************************)
(* The SPT checksum, the magic-number protocol of the two loops and the   *)
(* restore of load_spt together never make the library reject the table  *)
(* it last wrote: spt_corrupted is set only when both copies are other    *)
(* than the library last wrote them (damaged on the board, or left part   *)
(* written by a failed write), or when an SPT update stopped part way and *)
(* none has completed since (the copies may then differ).                 *)
(***************************************************************************)
SptFlaggedOnlyAfterLoss ==
    sptCorrupted => (\A c \in SptCopies : damaged[c]) \/ interrupted

\* The two-copy protocol of writeback_spt and load_spt: whatever flash
\* operation fails and wherever the power is lost, one SPT copy that load_spt
\* accepts stays in flash, unless both copies were damaged (on the board or
\* by a failed write) since the library last wrote them.
AtLeastOneGoodCopy ==
    (\E c \in SptCopies : ~damaged[c]) => \E c \in SptCopies : SptGood(spt[c])
====
