------------------------------- MODULE RsuImage -------------------------------
(***************************************************************************)
(* The slot data path of librsu: the image-block pipeline of               *)
(* libRSU_image.c and the program, verify, erase and copy-to-file calls of *)
(* libRSU_cb.c and libRSU.c that drive it.                                 *)
(*                                                                         *)
(* Data abstraction.  One unit is one 4 KiB block (IMAGE_BLOCK_SZ and      *)
(* RSU_BUFFER_CHUNK_SIZE are both 0x1000), so offsets, sizes and section   *)
(* pointers are counted in blocks.  A block is a record:                   *)
(*   kind  "cmf"   its first word is CMF_MAGIC (a CMF section starts here) *)
(*         "sig"   a signature block                                       *)
(*         "data"  any other content                                       *)
(*         "blank" all 0xFF (erased flash)                                 *)
(*         "torn"  the result of programming NOR flash over other data     *)
(*   ptrs  the four section pointers of struct pointer_block               *)
(*   crc   whether the stored CRC32 matches the block                      *)
(* The pointers and CRC of a block that is not a signature block are       *)
(* zeros and FALSE.  The tables are sound: the corrupted flags and        *)
(* priority_add's own failures are modelled in RsuMetadata.  Write         *)
(* protection comes from the configuration file read by RsuCfg.           *)
(***************************************************************************)
EXTENDS Integers, Sequences, SequencesExt, RsuCfg

CONSTANTS
    Slots,          \* the slots, model values
    SlotOffset,     \* [Slots -> Nat]: info.offset, in blocks
    SlotSize,       \* [Slots -> Nat]: info.size, in blocks
    SlotNumber,     \* [Slots -> Nat]: the slot number the user passes
    Images,         \* the images a user may hand to program or verify
    Garbage,        \* values the uninitialized sections[0] may hold
    MaxSections,    \* MAX_SECTIONS
    MaxOps,         \* bound on calls
    MaxWriteFailures \* bound on failing data.write calls

VARIABLES
    flash,       \* flash[s][i]: block i of slot s
    prio,        \* prio[s]: priority.get(part) > 0
    programmed,  \* the source of the last successful non-raw program of s
    files,       \* files written by rsu_slot_copy_to_file
    buffers,     \* buffers filled by rsu_slot_copy_to_buf
    ret,         \* the value the last call returned
    ops,
    failures

vars == <<flash, prio, programmed, files, buffers, ret, ops, failures>>

Zero4 == <<0, 0, 0, 0>>
Blank == [kind |-> "blank", ptrs |-> Zero4, crc |-> FALSE]
Torn  == [kind |-> "torn",  ptrs |-> Zero4, crc |-> FALSE]
\* The NULL vblock of the program path.
NoBlock == [kind |-> "none", ptrs |-> Zero4, crc |-> FALSE]

\* A source of data for program or verify.  A user image has from = "user";
\* a file copied from slot s has from = s and orig = what had been
\* programmed into s.
UserSource(img) == [blocks |-> img, from |-> "user", orig |-> img]
NoSource == [blocks |-> <<>>, from |-> "none", orig |-> <<>>]

Info(s) == [offset |-> SlotOffset[s], size |-> SlotSize[s]]

(***************************************************************************)
(* The pipeline state struct rsu_image_state.  `sections` holds the        *)
(* entries sections[0 .. no_sections-1]; find_section's linear scan is set *)
(* membership.                                                             *)
(***************************************************************************)
find_section(st, section) == section \in st.sections

add_section(st, section) ==
    IF find_section(st, section) \/ st.no_sections >= MaxSections
    THEN st
    ELSE [st EXCEPT !.sections = @ \cup {section}, !.no_sections = @ + 1]

\* librsu_image_block_init: no_sections is set to 1 before add_section(0),
\* so add_section compares 0 with sections[0], which nobody has written
\* (the state is a local of the caller).  g is that stale value.
librsu_image_block_init(g) ==
    add_section([offset |-> -1, block_type |-> "regular", absolute |-> FALSE,
                 sections |-> {g}, no_sections |-> 1], 0)

\* Pointer arithmetic of the code on U64 values.  A pointer below the slot
\* offset wraps to a value above 2^63; it is kept negative here, which, like
\* the wrapped value, never equals a block offset.
Rebase(st, p, info) == IF st.absolute THEN p - info.offset ELSE p

sig_block_process(st, blk, info) ==
    LET abs == st.absolute \/ (st.offset = 1 /\ \E x \in 1..4 : blk.ptrs[x] > info.size)
        add(acc, p) == IF p = 0 THEN acc ELSE add_section(acc, Rebase(acc, p, info))
    IN  FoldLeft(add, [st EXCEPT !.absolute = abs], blk.ptrs)

\* The non-zero pointers moved by off, and the CRC recomputed.
Relocate(blk, off) ==
    [blk EXCEPT !.ptrs = [x \in 1..4 |-> IF @[x] = 0 THEN 0 ELSE @[x] + off],
                !.crc = TRUE]

RelocateAllPointers(blk, off) ==
    [blk EXCEPT !.ptrs = [x \in 1..4 |-> @[x] + off], !.crc = TRUE]

\* Mutant: the update loop adds the offset to zero pointers as well.
SigBlockAdjustAllPointers(st, blk, info) ==
    IF ~blk.crc \/ \E x \in 1..4 : blk.ptrs[x] # 0 /\ Rebase(st, blk.ptrs[x], info) > info.size
    THEN [ret |-> "fail", blk |-> blk]
    ELSE [ret |-> "ok", blk |-> IF st.absolute THEN blk ELSE RelocateAllPointers(blk, info.offset)]

\* The range check reads each pointer as a signed S64, so a pointer below
\* the slot offset of an absolute image passes it.
sig_block_adjust(st, blk, info) ==
    IF ~blk.crc \/ \E x \in 1..4 : blk.ptrs[x] # 0 /\ Rebase(st, blk.ptrs[x], info) > info.size
    THEN [ret |-> "fail", blk |-> blk]
    ELSE [ret |-> "ok", blk |-> IF st.absolute THEN blk ELSE Relocate(blk, info.offset)]

block_compare(blk, vblk) == IF blk = vblk THEN "ok" ELSE "fail"

\* Mutant: the user's block is compared as it is, without relocation.
SigBlockCompareVerbatim(st, ublk, vblk, info) == block_compare(ublk, vblk)

sig_block_compare(st, ublk, vblk, info) ==
    block_compare(IF st.absolute THEN ublk ELSE Relocate(ublk, info.offset), vblk)

librsu_image_block_process(st, blk, vblk, info) ==
    LET st1 == [st EXCEPT !.offset = @ + 1]
        st2 == IF find_section(st1, st1.offset) THEN [st1 EXCEPT !.block_type = "section"] ELSE st1
        cmp == IF vblk = NoBlock THEN "ok" ELSE block_compare(blk, vblk)
    IN  CASE st2.block_type = "section" ->
               [ret |-> cmp, blk |-> blk,
                st |-> [st2 EXCEPT !.block_type = IF blk.kind = "cmf" THEN "signature" ELSE "regular"]]
          [] st2.block_type = "signature" ->
               LET st3 == [sig_block_process(st2, blk, info) EXCEPT !.block_type = "regular"]
                   adj == sig_block_adjust(st3, blk, info)
               IN  IF vblk # NoBlock
                   THEN [ret |-> sig_block_compare(st3, blk, vblk, info), blk |-> blk, st |-> st3]
                   ELSE [ret |-> adj.ret, blk |-> adj.blk, st |-> st3]
          [] OTHER -> [ret |-> cmp, blk |-> blk, st |-> st2]

(***************************************************************************)
(* NOR programming only clears bits: programming over blank flash, or over *)
(* the same data, stores the data; programming all-ones leaves the flash   *)
(* as it was; anything else leaves a mix of the two.                       *)
(***************************************************************************)
NorProgram(old, new) ==
    CASE old = Blank \/ old = new -> new
      [] new = Blank              -> old
      [] OTHER                    -> Torn

(***************************************************************************)
(* The block loop of librsu_cb_program_common, from block i on, with       *)
(* pipeline state st over the slot contents fl.  run holds the call's      *)
(* constants: the source blocks, the slot info, rawdata, and the block     *)
(* whose data.write fails (0 for none).  Each iteration, in code order:    *)
(* the pipeline (unless raw), the size check, the write, the read-back     *)
(* compare.                                                                *)
(***************************************************************************)
RECURSIVE ProgramLoop(_, _, _, _)
ProgramLoop(run, st, fl, i) ==
    IF i > Len(run.src) THEN [ret |-> "ok", flash |-> fl]
    ELSE
    LET pr == IF run.raw THEN [ret |-> "ok", blk |-> run.src[i], st |-> st]
              ELSE librsu_image_block_process(st, run.src[i], NoBlock, run.info)
        written == NorProgram(fl[i], pr.blk)
    IN  IF pr.ret # "ok" THEN [ret |-> "EPROGRAM", flash |-> fl]
        ELSE IF i > run.info.size THEN [ret |-> "ESIZE", flash |-> fl]
        ELSE IF i = run.failAt THEN [ret |-> "ELOWLEVEL", flash |-> [fl EXCEPT ![i] = Torn]]
        ELSE IF written # pr.blk THEN [ret |-> "ECMP", flash |-> [fl EXCEPT ![i] = written]]
        ELSE ProgramLoop(run, pr.st, [fl EXCEPT ![i] = written], i + 1)

(***************************************************************************)
(* The block loop of librsu_cb_verify_common.  A block past the end of the *)
(* slot fails in read_part (-ESPIPE, returned as -ELOWLEVEL).              *)
(***************************************************************************)
RECURSIVE VerifyLoop(_, _, _, _)
VerifyLoop(run, st, fl, i) ==
    IF i > Len(run.src) THEN "ok"
    ELSE IF i > run.info.size THEN "ELOWLEVEL"
    ELSE IF run.raw THEN IF run.src[i] = fl[i] THEN VerifyLoop(run, st, fl, i + 1) ELSE "ECMP"
    ELSE LET pr == librsu_image_block_process(st, run.src[i], fl[i], run.info)
         IN  IF pr.ret = "ok" THEN VerifyLoop(run, pr.st, fl, i + 1) ELSE "ECMP"

\* librsu_cb_verify_common(slot, source, rawdata) on the current flash, with
\* g the stale sections[0] of its pipeline state.
librsu_cb_verify_common(s, src, raw, g) ==
    IF ~raw /\ ~prio[s] THEN "EERASE"
    ELSE VerifyLoop([src |-> src, info |-> Info(s), raw |-> raw],
                    librsu_image_block_init(g), flash[s], 1)

(***************************************************************************)
(* Actions.  Each public call is one step: it runs under the mutex, and    *)
(* its return value is kept in ret.  The data a call reads comes from a    *)
(* buffer or a file: the user's images are available as either, and the   *)
(* copy calls add the buffers and files they fill.                         *)
(***************************************************************************)
BufSources == {UserSource(img) : img \in Images} \cup buffers
FileSources == {UserSource(img) : img \in Images} \cup files
Sources == BufSources \cup FileSources

Call == /\ ops < MaxOps
        /\ ops' = ops + 1

\* librsu_cb_program_common: a write-protected slot, then a slot in use, is
\* refused; otherwise the blocks are written, and a non-raw program that
\* wrote them all adds the slot to the CPB.  An error leaves what was
\* written so far.
librsu_cb_program_common(s, src, raw, g, failAt) ==
    IF librsu_cfg_writeprotected(SlotNumber[s]) # 0
    THEN /\ ret' = "EWRPROT"
         /\ UNCHANGED <<flash, prio, programmed, failures>>
    ELSE IF prio[s]
    THEN /\ ret' = "EPROGRAM"
         /\ UNCHANGED <<flash, prio, programmed, failures>>
    ELSE LET res == ProgramLoop([src |-> src.blocks, info |-> Info(s), raw |-> raw,
                                 failAt |-> failAt],
                                librsu_image_block_init(g), flash[s], 1)
             done == res.ret = "ok" /\ ~raw
         IN  /\ flash' = [flash EXCEPT ![s] = res.flash]
             /\ prio' = [prio EXCEPT ![s] = done]
             /\ programmed' = [programmed EXCEPT ![s] = IF done THEN src ELSE NoSource]
             /\ ret' = res.ret
             /\ failures' = failures + (IF failAt = 0 THEN 0 ELSE 1)

\* A program entry point with its source set: the callback set up over a
\* buffer or file, then librsu_cb_program_common, with any stale
\* sections[0] and at most MaxWriteFailures failing writes.
ProgramCall(s, srcs, raw) ==
    /\ Call
    /\ \E src \in srcs, g \in Garbage :
          \E failAt \in IF failures < MaxWriteFailures THEN 0..Len(src.blocks) ELSE {0} :
              librsu_cb_program_common(s, src, raw, g, failAt)
    /\ UNCHANGED <<files, buffers>>

rsu_slot_program_buf(s) == ProgramCall(s, BufSources, FALSE)
rsu_slot_program_file(s) == ProgramCall(s, FileSources, FALSE)
rsu_slot_program_buf_raw(s) == ProgramCall(s, BufSources, TRUE)
rsu_slot_program_file_raw(s) == ProgramCall(s, FileSources, TRUE)

\* A verify entry point: librsu_cb_verify_common, which changes nothing
\* but the value returned.
VerifyCall(s, srcs, raw) ==
    /\ Call
    /\ \E src \in srcs, g \in Garbage : ret' = librsu_cb_verify_common(s, src.blocks, raw, g)
    /\ UNCHANGED <<flash, prio, programmed, files, buffers, failures>>

rsu_slot_verify_buf(s) == VerifyCall(s, BufSources, FALSE)
rsu_slot_verify_file(s) == VerifyCall(s, FileSources, FALSE)
rsu_slot_verify_buf_raw(s) == VerifyCall(s, BufSources, TRUE)
rsu_slot_verify_file_raw(s) == VerifyCall(s, FileSources, TRUE)

\* rsu_slot_erase: a write-protected slot is refused; otherwise
\* priority.remove, then data.erase of the whole slot.
rsu_slot_erase(s) ==
    /\ Call
    /\ \/ /\ librsu_cfg_writeprotected(SlotNumber[s]) # 0
          /\ ret' = "EWRPROT"
          /\ UNCHANGED <<flash, prio, programmed>>
       \/ /\ librsu_cfg_writeprotected(SlotNumber[s]) = 0
          /\ prio' = [prio EXCEPT ![s] = FALSE]
          /\ flash' = [flash EXCEPT ![s] = [i \in 1..SlotSize[s] |-> Blank]]
          /\ programmed' = [programmed EXCEPT ![s] = NoSource]
          /\ ret' = "ok"
    /\ UNCHANGED <<files, buffers, failures>>

\* rsu_slot_copy_to_file: every chunk is read, all-0xFF chunks are skipped
\* and filled in before the next chunk that is not, so the file ends with
\* the last chunk that is not blank.
CopyLength(fl) == LET used == {i \in DOMAIN fl : fl[i] # Blank}
                  IN  IF used = {} THEN 0 ELSE Max(used)

CopyOf(s, blocks) == [blocks |-> blocks, from |-> s, orig |-> programmed[s].blocks]

\* Both copy calls refuse a slot not in use (-EERASE) and change nothing
\* else then.
CopyRefused(s) ==
    /\ ~prio[s]
    /\ ret' = "EERASE"
    /\ UNCHANGED <<flash, prio, programmed, files, buffers, failures>>

rsu_slot_copy_to_file(s) ==
    /\ Call
    /\ \/ CopyRefused(s)
       \/ /\ prio[s]
          /\ files' = files \cup {CopyOf(s, SubSeq(flash[s], 1, CopyLength(flash[s])))}
          /\ ret' = "ok"
          /\ UNCHANGED <<flash, prio, programmed, buffers, failures>>

\* rsu_slot_copy_to_buf: the whole slot, part_size bytes, is read into the
\* buffer, blank chunks included.
rsu_slot_copy_to_buf(s) ==
    /\ Call
    /\ \/ CopyRefused(s)
       \/ /\ prio[s]
          /\ buffers' = buffers \cup {CopyOf(s, flash[s])}
          /\ ret' = "ok"
          /\ UNCHANGED <<flash, prio, programmed, files, failures>>

Init ==
    /\ flash = [s \in Slots |-> [i \in 1..SlotSize[s] |-> Blank]]
    /\ prio = [s \in Slots |-> FALSE]
    /\ programmed = [s \in Slots |-> NoSource]
    /\ files = {}
    /\ buffers = {}
    /\ ret = "ok"
    /\ ops = 0
    /\ failures = 0

Next ==
    \E s \in Slots :
        \/ rsu_slot_program_buf(s) \/ rsu_slot_program_file(s)
        \/ rsu_slot_program_buf_raw(s) \/ rsu_slot_program_file_raw(s)
        \/ rsu_slot_verify_buf(s) \/ rsu_slot_verify_file(s)
        \/ rsu_slot_verify_buf_raw(s) \/ rsu_slot_verify_file_raw(s)
        \/ rsu_slot_erase(s)
        \/ rsu_slot_copy_to_file(s) \/ rsu_slot_copy_to_buf(s)

Spec == Init /\ [][Next]_vars

(***************************************************************************)
(* Properties.                                                             *)
(***************************************************************************)
Block == [kind : {"cmf", "sig", "data", "blank", "torn"}, ptrs : [1..4 -> Int], crc : BOOLEAN]

TypeOK ==
    /\ \A s \in Slots : flash[s] \in [1..SlotSize[s] -> Block]
    /\ prio \in [Slots -> BOOLEAN]
    /\ \A s \in Slots : programmed[s] = NoSource \/ programmed[s] \in Sources
    /\ ret \in {"ok", "EWRPROT", "EPROGRAM", "ESIZE", "ELOWLEVEL", "ECMP", "EERASE"}
    /\ ops \in 0..MaxOps /\ failures \in 0..MaxWriteFailures

(***************************************************************************)
(* Reference for where an image lands (spec.md 4.5), written from the      *)
(* image's layout rather than by walking its sections: an image is         *)
(* absolute iff a pointer of its second block exceeds the slot size; an    *)
(* absolute image is written verbatim, and in a relocatable one every      *)
(* signature block has each non-zero pointer moved by the slot offset and  *)
(* its CRC made valid.                                                     *)
(***************************************************************************)
RefAbsolute(img, info) == Len(img) >= 2 /\ \E x \in 1..4 : img[2].ptrs[x] > info.size

RefMoved(ptrs, off) == [x \in 1..4 |-> IF ptrs[x] = 0 THEN 0 ELSE ptrs[x] + off]

RefPlaced(img, info) ==
    [i \in DOMAIN img |->
        IF img[i].kind = "sig" /\ ~RefAbsolute(img, info)
        THEN [kind |-> "sig", ptrs |-> RefMoved(img[i].ptrs, info.offset), crc |-> TRUE]
        ELSE img[i]]

\* After librsu_cb_program_common returns 0 for a non-raw source, the slot
\* starts with the source as the reference places it: the block state
\* machine found every signature block (through the sections of the CMF
\* pointers) and relocated exactly those.
ProgramRelocates ==
    \A s \in Slots :
        programmed[s] # NoSource =>
            SubSeq(flash[s], 1, Len(programmed[s].blocks))
                = RefPlaced(programmed[s].blocks, Info(s))

\* spec.md invariant 5: after a successful non-raw program, verifying the
\* slot against the same source (librsu_cb_verify_common, whose pipeline
\* rebuilds the relocated signature blocks to compare them) returns 0.
ProgramThenVerify ==
    \A s \in Slots :
        programmed[s] # NoSource =>
            \A g \in Garbage : librsu_cb_verify_common(s, programmed[s].blocks, FALSE, g) = "ok"

\* spec.md round-trip law: a relocatable image I programmed into slot s,
\* copied out with rsu_slot_copy_to_file and programmed (non-raw) into slot
\* s', leaves signature blocks whose pointers are I's plus s'.offset.
CopyReprogramRelocates ==
    \A s \in Slots :
        LET src == programmed[s]
        IN  src.from \in Slots /\ ~RefAbsolute(src.orig, Info(src.from)) =>
                \A i \in DOMAIN src.orig :
                    src.orig[i].kind = "sig" =>
                        flash[s][i].ptrs = RefMoved(src.orig[i].ptrs, SlotOffset[s])

\* spec.md 6.3 and the EWRPROT checks of librsu_cb_program_common and
\* rsu_slot_erase: no call changes the contents or the CPB entry of a slot
\* that a well-formed write-protect line of the configuration file names,
\* whatever other lines the file holds.
ConfiguredSlotsUnchanged ==
    [][\A s \in Slots :
          SlotNumber[s] \in SpecWriteProtected =>
              flash'[s] = flash[s] /\ prio'[s] = prio[s]]_vars
====
