----------------------------- MODULE RsuMetadata -----------------------------
(***************************************************************************)
(* The dual-redundant metadata engine of librsu (src/src/libRSU_ops.c)     *)
(* with the entry points of src/src/libRSU.c and src/src/libRSU_cb.c that  *)
(* change it: the two copies of the sub-partition table (SPT0/SPT1) and of *)
(* the configuration pointer block (CPB0/CPB1) on NOR flash, the data of   *)
(* the slots they describe, the in-memory caches and the sticky flags.     *)
(*                                                                         *)
(* Calls hold the library mutex, so they run one at a time.  A call is a   *)
(* sequence of steps: its in-memory decisions are one step, and every      *)
(* erase or program it issues to the flash is a step of its own, so a      *)
(* power loss (Crash) or a failing flash operation (FlashFail) can fall    *)
(* between any two of them or tear one of them.  The C call tree is kept   *)
(* with a program counter and a return stack.                              *)
(***************************************************************************)
EXTENDS Naturals, Sequences, FiniteSets

CONSTANTS
    Offsets,         \* start offsets of the partitions a user may create
    Names,           \* names a user may give to a partition
    NSlots,          \* image_ptr_slots of the CPB
    MaxParts,        \* user partitions that fit in the SPT beside the fixed ones
    SptOrder,        \* copies 0/1 in the order their SPT0/SPT1 entries have in the SPT
    CpbOrder,        \* copies 0/1 in the order their CPB0/CPB1 entries have in the SPT
    WriteProtected,  \* slot numbers named by write-protect lines of the configuration
    InitParts,       \* user partitions of the SPT installed on the flash
    InitPtrs,        \* pointer slots of the CPB installed on the flash
    InitImg,         \* state of the data of each partition offset
    MaxCalls,        \* bound on library calls
    MaxCrashes,      \* bound on power losses
    MaxIoErrors,     \* bound on failing flash operations
    MaxDamage        \* bound on copies damaged while the board is off

Copies == {0, 1}
Slots == 1 .. NSlots                 \* C index x is slot x + 1

ERASED_ENTRY == "ERASED"             \* all ones: a pointer slot never written
SPENT_ENTRY == "SPENT"               \* all zeros: a pointer slot cleared
GARBAGE == "GARBAGE"                 \* a pointer slot torn by an interrupted program
SlotVals == Offsets \cup {ERASED_ENTRY, SPENT_ENTRY, GARBAGE}

(* The magic word of a copy: the expected magic, all ones (erased, or     *)
(* written as 0xFFFFFFFF), or anything else.                              *)
Magics == {"valid", "ff", "bad"}

Part == [name : Names, offset : Offsets]
IsTable(p) ==
    \A i, j \in DOMAIN p : i # j => p[i].name # p[j].name /\ p[i].offset # p[j].offset
Tables == {p \in UNION {[1 .. n -> Part] : n \in 0 .. MaxParts} : IsTable(p)}

(* The content of an SPT block: a table, all ones, or bytes no check accepts. *)
Table(p) == [kind |-> "table", parts |-> p]
SptBlank == [kind |-> "blank", parts |-> <<>>]
SptGarbage == [kind |-> "garbage", parts |-> <<>>]
SptData == {Table(p) : p \in Tables} \cup {SptBlank, SptGarbage}
CpbBlank == [x \in Slots |-> ERASED_ENTRY]

Offs(p) == {p[i].offset : i \in DOMAIN p}
NamesOf(p) == {p[i].name : i \in DOMAIN p}

ASSUME /\ SptOrder \in {<<0, 1>>, <<1, 0>>} /\ CpbOrder \in {<<0, 1>>, <<1, 0>>}
       /\ InitParts \in Tables /\ InitPtrs \in [Slots -> SlotVals]
       /\ InitImg \in [Offsets -> {"blank", "full"}]

(***************************************************************************)
(* NOR programming only clears bits: what a block holds after the cache    *)
(* is programmed over it.                                                 *)
(***************************************************************************)
MagicProgram(old, new) ==
    CASE old = new -> old [] old = "ff" -> new [] new = "ff" -> old [] OTHER -> "bad"
SptProgram(old, new) ==
    IF old = SptBlank \/ old = new THEN new ELSE SptGarbage
PtrProgram(old, new) ==
    CASE old = new -> old
      [] old = ERASED_ENTRY -> new
      [] new = ERASED_ENTRY -> old
      [] old = SPENT_ENTRY \/ new = SPENT_ENTRY -> SPENT_ENTRY
      [] OTHER -> GARBAGE
CpbProgram(old, new) == [x \in Slots |-> PtrProgram(old[x], new[x])]

(* What an interrupted operation may leave: every byte old or new, and a  *)
(* field half written is neither.                                          *)
TornMagic(old, new) == IF old = new THEN {old} ELSE {old, new, "bad"}
TornSpt(old, new) == IF old = new THEN {old} ELSE {old, new, SptGarbage}
TornPtrs(old, new) ==
    {f \in [Slots -> SlotVals] :
        \A x \in Slots : f[x] \in IF old[x] = new[x] THEN {old[x]}
                                  ELSE {old[x], new[x], GARBAGE}}

(* load_spt: magic, then check_spt and load_spt0_offset. *)
SptGood(cp) == cp.magic = "valid" /\ cp.data.kind = "table"

(* load_cpb: magic, then check_cpb: every live pointer is the offset of a  *)
(* partition of the cached SPT.                                            *)
CpbGood(cp, spt) ==
    /\ cp.magic = "valid"
    /\ \A x \in Slots : cp.data[x] \in {ERASED_ENTRY, SPENT_ENTRY} \cup Offs(spt.parts)

(* The state the firmware reports through the mailbox after a boot: it     *)
(* rejects a copy whose magic or pointers are damaged.                     *)
FwGood(cp) == cp.magic = "valid" /\ \A x \in Slots : cp.data[x] # GARBAGE
FwState(cpb) ==
    IF FwGood(cpb[0]) THEN "ok" ELSE IF FwGood(cpb[1]) THEN "cpb0" ELSE "both"

NoPart == "none"

VARIABLES
    sptFlash,      \* the SPT0/SPT1 copies on the flash: [magic, data]
    cpbFlash,      \* the CPB0/CPB1 copies on the flash: [magic, data]
    img,           \* the data of each partition offset: "blank", "full" or "partial"
    sptCache,      \* plat_database->spt
    cpbCache,      \* the pointer slots of plat_database->cpb
    cpbMagic,      \* the magic word of plat_database->cpb
    cpbSlots,      \* plat_database->cpb_slots has been set (it is NULL after open)
    sptCorrupted,  \* plat_database->spt_corrupted
    cpbCorrupted,  \* plat_database->cpb_corrupted
    cpbFixed,      \* plat_database->cpb_fixed
    fwState,       \* the RSU state the firmware reported at the last boot
    state,         \* ctx.state of libRSU.c
    call,          \* the entry point being run, or last run
    pc,            \* where the running call is
    stack,         \* return points of the nested C calls
    job,           \* flash operations issued and not yet done
    err,           \* a flash operation of the current write function failed
    rv,            \* value returned by the last nested call
    part,          \* offset of the partition the call works on
    ret,           \* value returned by the last entry point
    savedSpt,      \* the SPT image last saved by the user (rsu_save_spt*)
    savedCpb,      \* the CPB image last saved by the user (rsu_save_cpb*)
    calls, crashes, ioErrors, damage

flashVars == <<sptFlash, cpbFlash, img>>
memVars == <<sptCache, cpbCache, cpbMagic, cpbSlots, sptCorrupted, cpbCorrupted, cpbFixed>>
ctlVars == <<state, call, pc, stack, job, err, rv, part, ret>>
envVars == <<fwState, savedSpt, savedCpb, crashes, ioErrors, damage>>
vars == <<flashVars, memVars, ctlVars, envVars, calls>>

-----------------------------------------------------------------------------
(***************************************************************************)
(* Flash operations.  "erase" erases a copy; "body" sets the cached magic  *)
(* to 0xFFFFFFFF and writes the whole block; "stamp" sets the cached magic *)
(* and writes its four bytes; "program" writes the cached block as it is   *)
(* (update_cpb); "erase_data" and "write_data" erase or program the data   *)
(* of a partition.                                                         *)
(***************************************************************************)
Op(k, t, c) == [kind |-> k, table |-> t, copy |-> c]

(* erase, write with magic 0xFFFFFFFF, stamp the magic: load_spt 408-425, *)
(* load_cpb 676-691, writeback_spt 850-884, writeback_cpb 798-817.        *)
RestoreCopy(t, c) == <<Op("erase", t, c), Op("body", t, c), Op("stamp", t, c)>>

(* writeback_spt / writeback_cpb: every copy, in the order of its entry.   *)
Writeback(t, order) == RestoreCopy(t, order[1]) \o RestoreCopy(t, order[2])

(* update_cpb 757-769: the cached block programmed over both copies, no    *)
(* erase, no new magic.                                                    *)
UpdateWrites == <<Op("program", "cpb", CpbOrder[1]), Op("program", "cpb", CpbOrder[2])>>

CpbMagicFor(op) ==
    CASE op.kind = "body" -> "ff" [] op.kind = "stamp" -> "valid" [] OTHER -> cpbMagic

SptWritten(op) ==
    LET cp == sptFlash[op.copy] IN
    CASE op.kind = "erase" -> [magic |-> "ff", data |-> SptBlank]
      [] op.kind = "body" -> [magic |-> cp.magic, data |-> SptProgram(cp.data, sptCache)]
      [] op.kind = "stamp" -> [magic |-> MagicProgram(cp.magic, "valid"), data |-> cp.data]

CpbWritten(op) ==
    LET cp == cpbFlash[op.copy] IN
    CASE op.kind = "erase" -> [magic |-> "ff", data |-> CpbBlank]
      [] op.kind = "stamp" -> [magic |-> MagicProgram(cp.magic, "valid"), data |-> cp.data]
      [] OTHER -> [magic |-> MagicProgram(cp.magic, CpbMagicFor(op)),
                   data |-> CpbProgram(cp.data, cpbCache)]

(* read_part/data.write: programming over data that is not erased does not *)
(* read back as written (librsu_cb_program_common 228-252).                *)
DataWritten(op) ==
    IF op.kind = "erase_data" THEN "blank"
    ELSE IF img[op.copy] = "blank" THEN "full" ELSE "partial"
VerifyFails(op) == op.kind = "write_data" /\ img[op.copy] # "blank"

(* The flash after op, done whole (torn = FALSE) or interrupted.           *)
PerformFlash(op, torn) ==
    CASE op.table = "spt" ->
           LET new == SptWritten(op) IN
           /\ \E cp \in IF torn THEN [magic : TornMagic(sptFlash[op.copy].magic, new.magic),
                                      data : TornSpt(sptFlash[op.copy].data, new.data)]
                        ELSE {new} :
                 sptFlash' = [sptFlash EXCEPT ![op.copy] = cp]
           /\ UNCHANGED <<cpbFlash, img>>
      [] op.table = "cpb" ->
           LET new == CpbWritten(op) IN
           /\ \E cp \in IF torn THEN [magic : TornMagic(cpbFlash[op.copy].magic, new.magic),
                                      data : TornPtrs(cpbFlash[op.copy].data, new.data)]
                        ELSE {new} :
                 cpbFlash' = [cpbFlash EXCEPT ![op.copy] = cp]
           /\ UNCHANGED <<sptFlash, img>>
      [] op.table = "data" ->
           /\ img' = [img EXCEPT ![op.copy] = IF torn THEN "partial" ELSE DataWritten(op)]
           /\ UNCHANGED <<sptFlash, cpbFlash>>

(* The cached CPB magic is set before the write is issued.                 *)
SetCacheMagic(op) ==
    cpbMagic' = IF op.table = "cpb" THEN CpbMagicFor(op) ELSE cpbMagic

(* The next issued flash operation completes.                              *)
FlashStep ==
    /\ job # <<>>
    /\ PerformFlash(Head(job), FALSE)
    /\ SetCacheMagic(Head(job))
    /\ IF VerifyFails(Head(job))
          THEN job' = <<>> /\ err' = TRUE
          ELSE job' = Tail(job) /\ UNCHANGED err
    /\ UNCHANGED <<sptCache, cpbCache, cpbSlots, sptCorrupted, cpbCorrupted, cpbFixed>>
    /\ UNCHANGED <<state, call, calls, pc, stack, rv, part, ret>>
    /\ UNCHANGED envVars

(* The next issued flash operation fails part way: the write function      *)
(* returns its error at once and issues nothing more.                      *)
FlashFail ==
    /\ job # <<>>
    /\ ioErrors < MaxIoErrors
    /\ PerformFlash(Head(job), TRUE)
    /\ SetCacheMagic(Head(job))
    /\ job' = <<>>
    /\ err' = TRUE
    /\ ioErrors' = ioErrors + 1
    /\ UNCHANGED <<sptCache, cpbCache, cpbSlots, sptCorrupted, cpbCorrupted, cpbFixed>>
    /\ UNCHANGED <<state, call, calls, pc, stack, rv, part, ret>>
    /\ UNCHANGED <<fwState, savedSpt, savedCpb, crashes, damage>>

(* Memory and control after the process starts afresh.                     *)
ResetProcess ==
    /\ sptCache' = SptBlank /\ cpbCache' = CpbBlank /\ cpbMagic' = "ff"
    /\ cpbSlots' = FALSE /\ sptCorrupted' = FALSE /\ cpbCorrupted' = FALSE
    /\ cpbFixed' = FALSE
    /\ state' = "un_initialized" /\ pc' = "idle" /\ stack' = <<>> /\ job' = <<>>
    /\ err' = FALSE /\ rv' = "ok" /\ part' = NoPart

(* Power loss: the flash operation under way, if any, may be torn; the     *)
(* board reboots and the firmware reports the CPB state it finds.          *)
Crash ==
    /\ crashes < MaxCrashes
    /\ state # "un_initialized" \/ pc # "idle"
    /\ \/ UNCHANGED flashVars
       \/ job # <<>> /\ PerformFlash(Head(job), TRUE)
    /\ ResetProcess
    /\ fwState' = FwState(cpbFlash')
    /\ crashes' = crashes + 1
    /\ UNCHANGED <<call, ret, savedSpt, savedCpb, calls, ioErrors, damage>>

(* A copy is damaged while the board is off; the next boot sees it.        *)
Damage ==
    /\ damage < MaxDamage
    /\ state = "un_initialized" /\ pc = "idle"
    /\ \E c \in Copies :
          \/ sptFlash' = [sptFlash EXCEPT ![c].magic = "bad"] /\ UNCHANGED cpbFlash
          \/ cpbFlash' = [cpbFlash EXCEPT ![c].magic = "bad"] /\ UNCHANGED sptFlash
    /\ fwState' = FwState(cpbFlash')
    /\ damage' = damage + 1
    /\ UNCHANGED <<img, memVars, ctlVars, savedSpt, savedCpb, calls, crashes, ioErrors>>

-----------------------------------------------------------------------------
(***************************************************************************)
(* Calls and returns of the C functions.                                   *)
(***************************************************************************)
Ready(label) == pc = label /\ job = <<>>

Call(proc, back) == pc' = proc /\ stack' = <<back>> \o stack
Return(v) == pc' = Head(stack) /\ stack' = Tail(stack) /\ rv' = v

(* The entry point returns v and releases the mutex.                       *)
Finish(v) == pc' = "idle" /\ stack' = <<>> /\ ret' = v /\ rv' = "ok" /\ part' = NoPart

Issue(ops, next) == job' = ops /\ pc' = next

(* The error of the write function just done, consumed by its caller.     *)
IoResult == IF err THEN "err" ELSE "ok"

(* check_both_spt (189-231) / check_both_cpb (527-567): memcmp of the two  *)
(* blocks read back from the flash.  SptHeaderMatch compares the header    *)
(* only, as a memcmp over the size of the header would.                    *)
SptHeaderMatch(c0, c1) ==
    c0.magic = c1.magic /\ Len(c0.data.parts) = Len(c1.data.parts)
SptCopiesMatch(c0, c1) == c0 = c1
CpbCopiesMatch(c0, c1) == c0 = c1

(***************************************************************************)
(* load_spt (libRSU_ops.c 352-466): read SPT1 then SPT0 into the cache;    *)
(* two good copies must match, one good copy is copied over the other.     *)
(***************************************************************************)
LoadSpt ==
    /\ Ready("load_spt")
    /\ LET c0 == sptFlash[0]
           c1 == sptFlash[1]
       IN \/ /\ SptGood(c0) /\ SptGood(c1)
             /\ sptCache' = c0.data
             /\ IF SptCopiesMatch(c0, c1)
                   THEN Return("ok") /\ UNCHANGED sptCorrupted
                   ELSE Return("err") /\ sptCorrupted' = TRUE
             /\ UNCHANGED job
          \/ /\ SptGood(c0) /\ ~SptGood(c1)
             /\ sptCache' = c0.data
             /\ Issue(RestoreCopy("spt", 1), "load_spt_restored")
             /\ UNCHANGED <<stack, rv, sptCorrupted>>
          \/ /\ ~SptGood(c0) /\ SptGood(c1)
             /\ sptCache' = c1.data
             /\ Issue(RestoreCopy("spt", 0), "load_spt_restored")
             /\ UNCHANGED <<stack, rv, sptCorrupted>>
          \/ /\ ~SptGood(c0) /\ ~SptGood(c1)
             /\ sptCache' = c0.data
             /\ sptCorrupted' = TRUE
             /\ Return("err")
             /\ UNCHANGED job
    /\ UNCHANGED <<flashVars, cpbCache, cpbMagic, cpbSlots, cpbCorrupted, cpbFixed>>
    /\ UNCHANGED <<state, call, calls, err, part, ret, envVars>>

(* load_spt 405-461: the copy restored, or -EPERM when a write failed.     *)
LoadSptRestored ==
    /\ Ready("load_spt_restored")
    /\ Return(IoResult)
    /\ err' = FALSE
    /\ UNCHANGED <<flashVars, memVars, state, call, calls, job, part, ret, envVars>>

(***************************************************************************)
(* load_cpb (libRSU_ops.c 576-734).  The firmware's report decides whether *)
(* the CPB is refused (both corrupted) or CPB0 is not read (CPB0           *)
(* corrupted), unless the user fixed the CPB in this session.              *)
(***************************************************************************)
LoadCpb ==
    /\ Ready("load_cpb")
    /\ \/ /\ fwState = "both" /\ ~cpbFixed
          /\ cpbCorrupted' = TRUE
          /\ Return("err")
          /\ UNCHANGED <<cpbCache, cpbMagic, cpbSlots, job>>
       \/ /\ ~(fwState = "both" /\ ~cpbFixed)
          /\ LET skip0 == fwState = "cpb0" /\ ~cpbFixed
                 c0 == cpbFlash[0]
                 c1 == cpbFlash[1]
                 good1 == CpbGood(c1, sptCache)
                 good0 == ~skip0 /\ CpbGood(c0, sptCache)
                 last == IF skip0 THEN c1 ELSE c0
             IN /\ cpbSlots' = (cpbSlots \/ c1.magic = "valid" \/ (~skip0 /\ c0.magic = "valid"))
                /\ \/ /\ good0 /\ good1
                      /\ cpbCache' = c0.data /\ cpbMagic' = c0.magic
                      /\ IF CpbCopiesMatch(c0, c1)
                            THEN Return("ok") /\ UNCHANGED cpbCorrupted
                            ELSE Return("err") /\ cpbCorrupted' = TRUE
                      /\ UNCHANGED job
                   \/ /\ good0 /\ ~good1
                      /\ cpbCache' = c0.data /\ cpbMagic' = c0.magic
                      /\ Issue(RestoreCopy("cpb", 1), "load_cpb_restored")
                      /\ UNCHANGED <<stack, rv, cpbCorrupted>>
                   \/ /\ ~good0 /\ good1
                      /\ cpbCache' = c1.data /\ cpbMagic' = c1.magic
                      /\ Issue(RestoreCopy("cpb", 0), "load_cpb_restored")
                      /\ UNCHANGED <<stack, rv, cpbCorrupted>>
                   \/ /\ ~good0 /\ ~good1
                      /\ cpbCache' = last.data /\ cpbMagic' = last.magic
                      /\ cpbCorrupted' = TRUE
                      /\ Return("err")
                      /\ UNCHANGED job
    /\ UNCHANGED <<flashVars, sptCache, sptCorrupted, cpbFixed>>
    /\ UNCHANGED <<state, call, calls, err, part, ret, envVars>>

LoadCpbRestored ==
    /\ Ready("load_cpb_restored")
    /\ Return(IoResult)
    /\ err' = FALSE
    /\ UNCHANGED <<flashVars, memVars, state, call, calls, job, part, ret, envVars>>

(***************************************************************************)
(* priority_get (libRSU_ops.c 1189-1211): live entries counted from the    *)
(* last slot down to the partition's entry.                                *)
(***************************************************************************)
Live(v) == v \notin {ERASED_ENTRY, SPENT_ENTRY}
Priority(o) ==
    IF \E x \in Slots : cpbCache[x] = o
    THEN LET top == CHOOSE x \in Slots : cpbCache[x] = o /\ \A y \in Slots : cpbCache[y] = o => y <= x
         IN Cardinality({y \in top .. NSlots : Live(cpbCache[y])})
    ELSE 0

FirstSlot(v) == CHOOSE x \in Slots : cpbCache[x] = v /\ \A y \in 1 .. x - 1 : cpbCache[y] # v

(* update_cpb (736-777) of slot x: the check that ptr only clears bits of  *)
(* the slot, the cached slot set, the block programmed over both copies.    *)
UpdateCpb(x, ptr, next) ==
    /\ PtrProgram(cpbCache[x], ptr) = ptr
    /\ cpbCache' = [cpbCache EXCEPT ![x] = ptr]
    /\ Issue(UpdateWrites, next)

(* priority_remove (1271-1294): the first entry of the partition is spent; *)
(* load_cpb follows in every case.                                         *)
PriorityRemove ==
    /\ Ready("prio_remove")
    /\ \/ /\ \E x \in Slots : cpbCache[x] = part
          /\ UpdateCpb(FirstSlot(part), SPENT_ENTRY, "cpb_updated")
       \/ /\ \A x \in Slots : cpbCache[x] # part
          /\ pc' = "load_cpb"
          /\ UNCHANGED <<cpbCache, job>>
    /\ UNCHANGED <<flashVars, sptCache, cpbMagic, cpbSlots, sptCorrupted, cpbCorrupted, cpbFixed>>
    /\ UNCHANGED <<state, call, calls, stack, err, rv, part, ret, envVars>>

(* Mutant: a compaction that puts the new entry below the live ones. *)
PackedWithAtBottom(o) ==
    LET live == <<o>> \o SelectSeq(cpbCache, Live)
    IN [x \in Slots |-> IF x <= Len(live) THEN live[x] ELSE ERASED_ENTRY]

(* priority_add (1213-1269): the first erased slot gets the partition; with *)
(* none, the live entries are packed down, the partition appended and the   *)
(* block written back whole.                                               *)
PackedWith(o) ==
    LET live == SelectSeq(cpbCache, Live) \o <<o>>
    IN [x \in Slots |-> IF x <= Len(live) THEN live[x] ELSE ERASED_ENTRY]

PriorityAdd ==
    /\ Ready("prio_add")
    /\ \/ /\ \E x \in Slots : cpbCache[x] = ERASED_ENTRY
          /\ UpdateCpb(FirstSlot(ERASED_ENTRY), part, "cpb_updated")
          /\ UNCHANGED <<stack, rv>>
       \/ /\ \A x \in Slots : cpbCache[x] # ERASED_ENTRY
          /\ Len(SelectSeq(cpbCache, Live)) < NSlots
          /\ cpbCache' = PackedWith(part)
          /\ Issue(Writeback("cpb", CpbOrder), "prio_add_written")
          /\ UNCHANGED <<stack, rv>>
       \/ /\ \A x \in Slots : Live(cpbCache[x])
          /\ Return("err")
          /\ UNCHANGED <<cpbCache, job>>
    /\ UNCHANGED <<flashVars, sptCache, cpbMagic, cpbSlots, sptCorrupted, cpbCorrupted, cpbFixed>>
    /\ UNCHANGED <<state, call, calls, err, part, ret, envVars>>

(* After update_cpb in priority_add/priority_remove: on error load_cpb and  *)
(* return the error, else return what load_cpb returns.                    *)
CpbUpdated ==
    /\ Ready("cpb_updated")
    /\ \/ err /\ Call("load_cpb", "ret_err")
       \/ ~err /\ pc' = "load_cpb" /\ UNCHANGED stack
    /\ err' = FALSE
    /\ UNCHANGED <<flashVars, memVars, state, call, calls, job, rv, part, ret, envVars>>

RetErr ==
    /\ Ready("ret_err")
    /\ Return("err")
    /\ UNCHANGED <<flashVars, memVars, state, call, calls, job, err, part, ret, envVars>>

(* priority_add 1259-1268: a failed writeback_cpb returns without reload.  *)
PriorityAddWritten ==
    /\ Ready("prio_add_written")
    /\ \/ err /\ Return("err")
       \/ ~err /\ pc' = "load_cpb" /\ UNCHANGED <<stack, rv>>
    /\ err' = FALSE
    /\ UNCHANGED <<flashVars, memVars, state, call, calls, job, part, ret, envVars>>

-----------------------------------------------------------------------------
(***************************************************************************)
(* Entry points of libRSU.c.  Each checks ctx.state, takes the mutex and   *)
(* runs its checks in order; a failing check returns an error and changes  *)
(* nothing (Refuse).                                                       *)
(***************************************************************************)
Callable(name) ==
    /\ state = "initialized" /\ pc = "idle" /\ calls < MaxCalls
    /\ call' = name /\ calls' = calls + 1

Refuse == Finish("err") /\ UNCHANGED <<flashVars, memVars, state, job, err, envVars>>

Untouched == UNCHANGED <<flashVars, fwState, savedSpt, savedCpb, crashes, ioErrors, damage>>

(* librsu_misc_slot2part: the n-th partition that is a slot.                *)
IsSlot(s) == s < Len(sptCache.parts)
SlotOffset(s) == sptCache.parts[s + 1].offset

(* librsu_init (libRSU.c 42-78) through librsu_cfg_parse to rsu_qspi_open   *)
(* (libRSU_ops.c 1871-1943): the database zeroed, then load_spt.           *)
LibInit ==
    /\ state = "un_initialized" /\ pc = "idle" /\ calls < MaxCalls
    /\ call' = "init" /\ calls' = calls + 1
    /\ state' = "in_progress"
    /\ sptCorrupted' = FALSE /\ cpbCorrupted' = FALSE /\ cpbFixed' = FALSE
    /\ cpbSlots' = FALSE
    /\ Call("load_spt", "open_spt_loaded")
    /\ UNCHANGED <<sptCache, cpbCache, cpbMagic, job, err, rv, part, ret>>
    /\ Untouched

(* A failed open closes the database: librsu_init returns -ECFG.           *)
OpenFails ==
    /\ state' = "un_initialized" /\ Finish("err")
    /\ UNCHANGED <<sptCorrupted, cpbCorrupted>>

OpenDone ==
    /\ state' = "initialized" /\ Finish("ok")

(* rsu_qspi_open 1918-1928 *)
OpenSptLoaded ==
    /\ Ready("open_spt_loaded")
    /\ \/ rv # "ok" /\ ~sptCorrupted /\ OpenFails
       \/ sptCorrupted /\ cpbCorrupted' = TRUE /\ OpenDone
       \/ rv = "ok" /\ ~sptCorrupted /\ Call("load_cpb", "open_cpb_loaded")
          /\ UNCHANGED <<state, cpbCorrupted, rv, part, ret>>
    /\ UNCHANGED <<flashVars, sptCache, cpbCache, cpbMagic, cpbSlots, sptCorrupted, cpbFixed>>
    /\ UNCHANGED <<call, calls, job, err, envVars>>

OpenCpbLoaded ==
    /\ Ready("open_cpb_loaded")
    /\ \/ rv # "ok" /\ ~cpbCorrupted /\ OpenFails
       \/ (rv = "ok" \/ cpbCorrupted) /\ OpenDone
    /\ UNCHANGED <<flashVars, memVars, call, calls, job, err, envVars>>

(* librsu_exit (libRSU.c 80-97): the database is freed.                    *)
LibExit ==
    /\ Callable("exit")
    /\ ResetProcess
    /\ UNCHANGED <<ret>>
    /\ Untouched

(* rsu_slot_erase (403-450): priority removed, then the data erased.       *)
SlotErase(s) ==
    /\ Callable("erase")
    /\ \/ /\ sptCorrupted \/ cpbCorrupted \/ s \in WriteProtected \/ ~IsSlot(s)
          /\ Refuse
       \/ /\ ~(sptCorrupted \/ cpbCorrupted \/ s \in WriteProtected \/ ~IsSlot(s))
          /\ part' = SlotOffset(s)
          /\ Call("prio_remove", "erase_data")
          /\ UNCHANGED <<flashVars, memVars, state, job, err, rv, ret, envVars>>

EraseData ==
    /\ Ready("erase_data")
    /\ \/ rv # "ok" /\ Finish("err") /\ UNCHANGED job
       \/ rv = "ok" /\ Issue(<<Op("erase_data", "data", part)>>, "finish_io")
          /\ UNCHANGED <<stack, rv, part, ret>>
    /\ UNCHANGED <<flashVars, memVars, state, call, calls, err, envVars>>

FinishIo ==
    /\ Ready("finish_io")
    /\ Finish(IoResult)
    /\ err' = FALSE
    /\ UNCHANGED <<flashVars, memVars, state, call, calls, job, envVars>>

FinishRv ==
    /\ Ready("finish_rv")
    /\ Finish(rv)
    /\ UNCHANGED <<flashVars, memVars, state, call, calls, job, err, envVars>>

(* rsu_slot_delete (1239-1295): priority removed, data erased, partition   *)
(* deleted (partition_delete 1084-1115: entries shifted down, writeback,   *)
(* reload).                                                                *)
SlotDelete(s) ==
    /\ Callable("delete")
    /\ \/ /\ sptCorrupted \/ cpbCorrupted \/ s \in WriteProtected \/ ~IsSlot(s)
          /\ Refuse
       \/ /\ ~(sptCorrupted \/ cpbCorrupted \/ s \in WriteProtected \/ ~IsSlot(s))
          /\ part' = SlotOffset(s)
          /\ Call("prio_remove", "delete_erase")
          /\ UNCHANGED <<flashVars, memVars, state, job, err, rv, ret, envVars>>

DeleteErase ==
    /\ Ready("delete_erase")
    /\ \/ rv # "ok" /\ Finish("err") /\ UNCHANGED job
       \/ rv = "ok" /\ Issue(<<Op("erase_data", "data", part)>>, "delete_partition")
          /\ UNCHANGED <<stack, rv, part, ret>>
    /\ UNCHANGED <<flashVars, memVars, state, call, calls, err, envVars>>

DeletePartition ==
    /\ Ready("delete_partition")
    /\ \/ err /\ Finish("err") /\ UNCHANGED <<sptCache, job>>
       \/ ~err /\ sptCache' = [sptCache EXCEPT !.parts =
                                  SelectSeq(@, LAMBDA p : p.offset # part)]
          /\ Issue(Writeback("spt", SptOrder), "spt_written")
          /\ UNCHANGED <<stack, rv, part, ret>>
    /\ err' = FALSE
    /\ UNCHANGED <<flashVars, cpbCache, cpbMagic, cpbSlots, sptCorrupted, cpbCorrupted, cpbFixed>>
    /\ UNCHANGED <<state, call, calls, envVars>>

(* partition_create/rename/delete after writeback_spt: on error return it, *)
(* else return what load_spt returns.                                     *)
SptWrittenBack ==
    /\ Ready("spt_written")
    /\ \/ err /\ Finish("err")
       \/ ~err /\ Call("load_spt", "finish_rv") /\ UNCHANGED <<rv, part, ret>>
    /\ err' = FALSE
    /\ UNCHANGED <<flashVars, memVars, state, call, calls, job, envVars>>

(* rsu_slot_create (1305-1338) and partition_create (1125-1187): a name in *)
(* use, a full table or an overlap is refused; the entry is appended, the  *)
(* table written back and reloaded.                                        *)
(* A create whose checks miss the name already in use.                     *)
SlotCreateNoNameCheck(n, o) ==
    /\ Callable("create")
    /\ \/ /\ sptCorrupted \/ Len(sptCache.parts) = MaxParts \/ o \in Offs(sptCache.parts)
          /\ Refuse
       \/ /\ ~(sptCorrupted \/ Len(sptCache.parts) = MaxParts \/ o \in Offs(sptCache.parts))
          /\ sptCache' = [sptCache EXCEPT !.parts = Append(@, [name |-> n, offset |-> o])]
          /\ Issue(Writeback("spt", SptOrder), "spt_written")
          /\ UNCHANGED <<flashVars, cpbCache, cpbMagic, cpbSlots, sptCorrupted, cpbCorrupted>>
          /\ UNCHANGED <<cpbFixed, state, stack, err, rv, part, ret, envVars>>

SlotCreate(n, o) ==
    /\ Callable("create")
    /\ \/ /\ sptCorrupted \/ n \in NamesOf(sptCache.parts)
             \/ Len(sptCache.parts) = MaxParts \/ o \in Offs(sptCache.parts)
          /\ Refuse
       \/ /\ ~(sptCorrupted \/ n \in NamesOf(sptCache.parts)
               \/ Len(sptCache.parts) = MaxParts \/ o \in Offs(sptCache.parts))
          /\ sptCache' = [sptCache EXCEPT !.parts = Append(@, [name |-> n, offset |-> o])]
          /\ Issue(Writeback("spt", SptOrder), "spt_written")
          /\ UNCHANGED <<flashVars, cpbCache, cpbMagic, cpbSlots, sptCorrupted, cpbCorrupted>>
          /\ UNCHANGED <<cpbFixed, state, stack, err, rv, part, ret, envVars>>

(* rsu_slot_rename (1191-1231) and partition_rename (1040-1076).           *)
SlotRename(s, n) ==
    /\ Callable("rename")
    /\ \/ /\ sptCorrupted \/ ~IsSlot(s) \/ n \in NamesOf(sptCache.parts)
          /\ Refuse
       \/ /\ ~(sptCorrupted \/ ~IsSlot(s) \/ n \in NamesOf(sptCache.parts))
          /\ sptCache' = [sptCache EXCEPT !.parts[s + 1].name = n]
          /\ Issue(Writeback("spt", SptOrder), "spt_written")
          /\ UNCHANGED <<flashVars, cpbCache, cpbMagic, cpbSlots, sptCorrupted, cpbCorrupted>>
          /\ UNCHANGED <<cpbFixed, state, stack, err, rv, part, ret, envVars>>

(* rsu_slot_enable (1038-1086): priority removed then added; rsu_slot_disable *)
(* (994-1036): priority removed.                                           *)
(* An enable that adds the priority without removing the old entry. *)
SlotEnableAddOnly(s) ==
    /\ Callable("enable")
    /\ \/ /\ sptCorrupted \/ cpbCorrupted \/ ~IsSlot(s)
          /\ Refuse
       \/ /\ ~(sptCorrupted \/ cpbCorrupted \/ ~IsSlot(s))
          /\ part' = SlotOffset(s)
          /\ Call("prio_add", "finish_rv")
          /\ UNCHANGED <<flashVars, memVars, state, job, err, rv, ret, envVars>>

SlotEnable(s) ==
    /\ Callable("enable")
    /\ \/ /\ sptCorrupted \/ cpbCorrupted \/ ~IsSlot(s)
          /\ Refuse
       \/ /\ ~(sptCorrupted \/ cpbCorrupted \/ ~IsSlot(s))
          /\ part' = SlotOffset(s)
          /\ Call("prio_remove", "enable_add")
          /\ UNCHANGED <<flashVars, memVars, state, job, err, rv, ret, envVars>>

EnableAdd ==
    /\ Ready("enable_add")
    /\ \/ rv # "ok" /\ Finish("err")
       \/ rv = "ok" /\ Call("prio_add", "finish_rv") /\ UNCHANGED <<rv, part, ret>>
    /\ UNCHANGED <<flashVars, memVars, state, call, calls, job, err, envVars>>

SlotDisable(s) ==
    /\ Callable("disable")
    /\ \/ /\ sptCorrupted \/ cpbCorrupted \/ ~IsSlot(s)
          /\ Refuse
       \/ /\ ~(sptCorrupted \/ cpbCorrupted \/ ~IsSlot(s))
          /\ part' = SlotOffset(s)
          /\ Call("prio_remove", "finish_rv")
          /\ UNCHANGED <<flashVars, memVars, state, job, err, rv, ret, envVars>>

(* rsu_slot_program_buf/_file (452-545), their _raw forms (566-627) and   *)
(* rsu_slot_program_callback/_raw (769-802), all through                   *)
(* librsu_cb_program_common (libRSU_cb.c 117-262): a slot in use is        *)
(* refused, the data written and read back, then (not raw) the priority    *)
(* added.  The buffer and file forms check both flags, their raw forms the *)
(* SPT flag only, the callback forms neither.  priority_get reads          *)
(* cpb_slots, which is NULL when the firmware reported both CPBs corrupted *)
(* at open: the process either dies or reads a zero slot count from the    *)
(* uninitialised block.                                                    *)
ProgramGate(s, raw, cb) ==
    \/ ~cb /\ sptCorrupted
    \/ ~cb /\ ~raw /\ cpbCorrupted
    \/ s \in WriteProtected
    \/ ~IsSlot(s)
(* A program path that does not ask priority_get first. *)
InUseUnchecked(s) == FALSE
InUse(s) == cpbSlots /\ Priority(SlotOffset(s)) > 0

SlotProgram(s, raw, cb) ==
    /\ Callable(IF raw THEN "program_raw" ELSE "program")
    /\ \/ ProgramGate(s, raw, cb) /\ Refuse
       \/ ~ProgramGate(s, raw, cb) /\ InUse(s) /\ Refuse
       \/ /\ ~ProgramGate(s, raw, cb)
          /\ ~cpbSlots
          /\ ResetProcess
          /\ UNCHANGED <<ret>>
          /\ Untouched
       \/ /\ ~ProgramGate(s, raw, cb)
          /\ ~InUse(s)
          /\ part' = SlotOffset(s)
          /\ Issue(<<Op("write_data", "data", SlotOffset(s))>>, "program_written")
          /\ UNCHANGED <<flashVars, memVars, state, stack, err, rv, ret, envVars>>

ProgramWritten ==
    /\ Ready("program_written")
    /\ \/ err /\ Finish("err")
       \/ ~err /\ call = "program_raw" /\ Finish("ok")
       \/ ~err /\ call = "program" /\ Call("prio_add", "finish_rv") /\ UNCHANGED <<rv, part, ret>>
    /\ err' = FALSE
    /\ UNCHANGED <<flashVars, memVars, state, call, calls, job, envVars>>

(* rsu_create_empty_cpb (1397-1413) and empty_cpb (1552-1602).             *)
EmptyCpb ==
    /\ Callable("empty_cpb")
    /\ \/ sptCorrupted /\ Refuse
       \/ /\ ~sptCorrupted
          /\ cpbCache' = CpbBlank /\ cpbMagic' = "valid"
          /\ Issue(Writeback("cpb", CpbOrder), "cpb_written")
          /\ UNCHANGED <<flashVars, sptCache, cpbSlots, sptCorrupted, cpbCorrupted, cpbFixed>>
          /\ UNCHANGED <<state, stack, err, rv, part, ret, envVars>>

(* rsu_restore_cpb (1416-1436) and rsu_restore_cpb_from_buf (1767-1793),   *)
(* through restore_cpb_from_file/_buf (1604-1683, 1766-1814).  Only the    *)
(* buffer form refuses when the CPB is flagged corrupted.                  *)
RestoreCpbRefused(fromBuf) ==
    (fromBuf /\ cpbCorrupted) \/ sptCorrupted \/ savedCpb.magic # "valid"

RestoreCpb(fromBuf) ==
    /\ Callable(IF fromBuf THEN "restore_cpb_buf" ELSE "restore_cpb_file")
    /\ \/ RestoreCpbRefused(fromBuf) /\ Refuse
       \/ /\ ~RestoreCpbRefused(fromBuf)
          /\ cpbCache' = savedCpb.data /\ cpbMagic' = "valid"
          /\ Issue(Writeback("cpb", CpbOrder), "cpb_written")
          /\ UNCHANGED <<flashVars, sptCache, cpbSlots, sptCorrupted, cpbCorrupted, cpbFixed>>
          /\ UNCHANGED <<state, stack, err, rv, part, ret, envVars>>

(* empty_cpb / restore_cpb_*: after writeback_cpb the flags are cleared    *)
(* and the CPB marked fixed for the rest of the session.                   *)
CpbWrittenBack ==
    /\ Ready("cpb_written")
    /\ \/ err /\ Finish("err") /\ UNCHANGED <<cpbSlots, cpbCorrupted, cpbFixed>>
       \/ ~err /\ Finish("ok")
          /\ cpbSlots' = TRUE /\ cpbCorrupted' = FALSE /\ cpbFixed' = TRUE
    /\ err' = FALSE
    /\ UNCHANGED <<flashVars, sptCache, cpbCache, cpbMagic, sptCorrupted>>
    /\ UNCHANGED <<state, call, calls, job, envVars>>

(* rsu_save_cpb / rsu_save_cpb_to_buf (1438-1464, 1739-1765): CPB0 read    *)
(* from the flash (save_cpb_to_buf 1737-1764).                             *)
SaveCpb ==
    /\ Callable("save_cpb")
    /\ \/ cpbCorrupted /\ Refuse
       \/ /\ ~cpbCorrupted
          /\ savedCpb' = cpbFlash[0]
          /\ Finish("ok")
          /\ UNCHANGED <<flashVars, memVars, state, job, err>>
          /\ UNCHANGED <<fwState, savedSpt, crashes, ioErrors, damage>>

(* rsu_save_spt / rsu_save_spt_to_buf (1362-1388, 1689-1715): SPT0 read   *)
(* from its address (save_spt_to_buf 1463-1490).                           *)
SaveSpt ==
    /\ Callable("save_spt")
    /\ \/ sptCorrupted /\ Refuse
       \/ /\ ~sptCorrupted
          /\ savedSpt' = sptFlash[0]
          /\ Finish("ok")
          /\ UNCHANGED <<flashVars, memVars, state, job, err>>
          /\ UNCHANGED <<fwState, savedCpb, crashes, ioErrors, damage>>

(* rsu_restore_spt / rsu_restore_spt_from_buf (1340-1360, 1717-1737)       *)
(* through restore_spt_from_file/_buf (1326-1408, 1492-1545): no flag is   *)
(* checked; a bad magic is refused; the image is copied into the cache and *)
(* refused if it names no SPT0; written back; both flags cleared; CPB      *)
(* reloaded, its result ignored.                                           *)
RestoreSpt ==
    /\ Callable("restore_spt")
    /\ \/ /\ savedSpt.magic # "valid" \/ savedSpt.data.kind # "table"
          /\ sptCache' = IF savedSpt.magic = "valid" THEN savedSpt.data ELSE sptCache
          /\ Finish("err")
          /\ UNCHANGED <<flashVars, cpbCache, cpbMagic, cpbSlots, sptCorrupted, cpbCorrupted>>
          /\ UNCHANGED <<cpbFixed, state, job, err, envVars>>
       \/ /\ savedSpt.magic = "valid" /\ savedSpt.data.kind = "table"
          /\ sptCache' = savedSpt.data
          /\ Issue(Writeback("spt", SptOrder), "restore_spt_written")
          /\ UNCHANGED <<flashVars, cpbCache, cpbMagic, cpbSlots, sptCorrupted, cpbCorrupted>>
          /\ UNCHANGED <<cpbFixed, state, stack, err, rv, part, ret, envVars>>

RestoreSptWritten ==
    /\ Ready("restore_spt_written")
    /\ \/ err /\ Finish("err") /\ UNCHANGED <<sptCorrupted, cpbCorrupted>>
       \/ /\ ~err
          /\ sptCorrupted' = FALSE /\ cpbCorrupted' = FALSE
          /\ Call("load_cpb", "finish_ok")
          /\ UNCHANGED <<rv, part, ret>>
    /\ err' = FALSE
    /\ UNCHANGED <<flashVars, sptCache, cpbCache, cpbMagic, cpbSlots, cpbFixed>>
    /\ UNCHANGED <<state, call, calls, job, envVars>>

FinishOk ==
    /\ Ready("finish_ok")
    /\ Finish("ok")
    /\ UNCHANGED <<flashVars, memVars, state, call, calls, job, err, envVars>>

-----------------------------------------------------------------------------
NoBlob == [magic |-> "ff", data |-> SptBlank]

Init ==
    /\ sptFlash = [c \in Copies |-> [magic |-> "valid", data |-> Table(InitParts)]]
    /\ cpbFlash = [c \in Copies |-> [magic |-> "valid", data |-> InitPtrs]]
    /\ img = InitImg
    /\ sptCache = SptBlank /\ cpbCache = CpbBlank /\ cpbMagic = "ff"
    /\ cpbSlots = FALSE /\ sptCorrupted = FALSE /\ cpbCorrupted = FALSE /\ cpbFixed = FALSE
    /\ fwState = FwState(cpbFlash)
    /\ state = "un_initialized" /\ call = "none" /\ pc = "idle" /\ stack = <<>>
    /\ job = <<>> /\ err = FALSE /\ rv = "ok" /\ part = NoPart /\ ret = "ok"
    /\ savedSpt = NoBlob
    /\ savedCpb = [magic |-> "ff", data |-> CpbBlank]
    /\ calls = 0 /\ crashes = 0 /\ ioErrors = 0 /\ damage = 0

SlotArgs == 0 .. MaxParts - 1

UserCall ==
    \/ LibInit \/ LibExit \/ EmptyCpb \/ SaveCpb \/ SaveSpt \/ RestoreSpt
    \/ \E s \in SlotArgs : SlotErase(s) \/ SlotDelete(s) \/ SlotEnable(s) \/ SlotDisable(s)
    \/ \E s \in SlotArgs, raw, cb \in BOOLEAN : SlotProgram(s, raw, cb)
    \/ \E s \in SlotArgs, n \in Names : SlotRename(s, n)
    \/ \E n \in Names, o \in Offsets : SlotCreate(n, o)
    \/ \E fromBuf \in BOOLEAN : RestoreCpb(fromBuf)

LibraryStep ==
    \/ LoadSpt \/ LoadSptRestored \/ LoadCpb \/ LoadCpbRestored
    \/ PriorityRemove \/ PriorityAdd \/ CpbUpdated \/ RetErr \/ PriorityAddWritten
    \/ OpenSptLoaded \/ OpenCpbLoaded \/ EraseData \/ FinishIo \/ FinishRv
    \/ DeleteErase \/ DeletePartition \/ SptWrittenBack \/ EnableAdd
    \/ ProgramWritten \/ CpbWrittenBack \/ RestoreSptWritten \/ FinishOk
    \/ FlashStep

Next ==
    \/ UserCall
    \/ LibraryStep
    \/ FlashFail
    \/ Crash
    \/ Damage

Spec == Init /\ [][Next]_vars

-----------------------------------------------------------------------------
CopyOf(D) == [magic : Magics, data : D]

(* Every variable has its type; in particular every SPT the library holds *)
(* or writes is a table with unique names and offsets (check_spt, spec    *)
(* 3.4 invariant 3), which partition_create and partition_rename keep.    *)
TypeOK ==
    /\ sptFlash \in [Copies -> CopyOf(SptData)]
    /\ cpbFlash \in [Copies -> CopyOf([Slots -> SlotVals])]
    /\ img \in [Offsets -> {"blank", "full", "partial"}]
    /\ sptCache \in SptData
    /\ cpbCache \in [Slots -> SlotVals] /\ cpbMagic \in Magics
    /\ {cpbSlots, sptCorrupted, cpbCorrupted, cpbFixed, err} \subseteq BOOLEAN
    /\ fwState \in {"ok", "cpb0", "both"}
    /\ state \in {"un_initialized", "in_progress", "initialized"}
    /\ job \in Seq([kind : {"erase", "body", "stamp", "program", "erase_data", "write_data"},
                    table : {"spt", "cpb", "data"}, copy : Copies \cup Offsets])
    /\ rv \in {"ok", "err"} /\ ret \in {"ok", "err"}
    /\ part \in Offsets \cup {NoPart}
    /\ savedSpt \in CopyOf(SptData) /\ savedCpb \in CopyOf([Slots -> SlotVals])

-----------------------------------------------------------------------------
(***************************************************************************)
(* Properties.                                                             *)
(***************************************************************************)
Idle == state = "initialized" /\ pc = "idle"

(* Between calls, a table the library does not flag corrupted is on the   *)
(* flash twice, stamped, and equal to the cache it works from: load_spt    *)
(* and load_cpb reconcile the copies, writeback_* and update_cpb keep      *)
(* them equal, and a power loss inside any of these is either repaired by  *)
(* the next open or flagged by it.                                         *)
MetadataConsistent ==
    Idle =>
      /\ ~sptCorrupted =>
            \A c \in Copies : sptFlash[c] = [magic |-> "valid", data |-> sptCache]
      /\ ~cpbCorrupted =>
            \A c \in Copies : cpbFlash[c] = [magic |-> "valid", data |-> cpbCache]

(* Spec 5 ("partial writes to flash are possible and are reconciled on    *)
(* the next init") under failing flash operations: a writeback or         *)
(* update_cpb that fails part way leaves the copies unequal and the cache  *)
(* ahead of them (partition_create/rename/delete, priority_add, empty_cpb *)
(* return without reload), and the next successful librsu_init, through   *)
(* load_spt's and load_cpb's restores, has every table it does not flag    *)
(* stamped on both copies and equal to what it loaded.                     *)
ReconciledAtOpen ==
    (Idle /\ call = "init") =>
      /\ ~sptCorrupted =>
            \A c \in Copies : sptFlash[c] = [magic |-> "valid", data |-> sptCache]
      /\ ~cpbCorrupted =>
            \A c \in Copies : cpbFlash[c] = [magic |-> "valid", data |-> cpbCache]

(* While the data of a partition is being erased or programmed and the    *)
(* CPB is not flagged corrupted (rsu_slot_erase, rsu_slot_delete,          *)
(* librsu_cb_program_common), no stamped CPB copy points at it: the        *)
(* priority is removed from both copies before the erase and added only    *)
(* after the data is verified.                                             *)
NoPointerToSlotInFlux ==
    ~cpbCorrupted =>
       \A i \in DOMAIN job :
          job[i].table = "data" =>
             \A c \in Copies : cpbFlash[c].magic = "valid" =>
                \A x \in Slots : cpbFlash[c].data[x] # job[i].copy

(* Spec 4.3: while a table is flagged corrupted every slot mutation fails, *)
(* so no slot data is erased or programmed.                                *)
SlotWritesRefusedWhileCorrupted ==
    (sptCorrupted \/ cpbCorrupted) => \A i \in DOMAIN job : job[i].table # "data"

(* The priority of a partition is the count of live entries above its     *)
(* entry (priority_get): while the CPB is not flagged, a partition has at  *)
(* most one live entry.  rsu_slot_enable removes the entry before it adds  *)
(* one, and the program paths refuse a slot that has a priority.           *)
OnePointerPerPartition ==
    (Idle /\ ~cpbCorrupted) =>
       \A x, y \in Slots : x # y /\ Live(cpbCache[x]) => cpbCache[x] # cpbCache[y]

(* Spec 8 (save_cpb_to_buf, corrupt both CPBs, restore_cpb_from_buf) and  *)
(* 4.3: restoring a stamped CPB image from a buffer is what recovers a     *)
(* corrupted CPB, so rsu_restore_cpb_from_buf fails only when the SPT is   *)
(* corrupted (no flash operation failing).                                 *)
RestoreFromBufRecovers ==
    (Idle /\ call = "restore_cpb_buf" /\ ret = "err" /\ ioErrors = 0 /\ savedCpb.magic = "valid")
       => sptCorrupted

(* The boot order a CPB block gives the firmware: its live entries, the   *)
(* last slot first, as priority_get counts them.                          *)
BootOrderOf(data) ==
    LET live == SelectSeq(data, Live)
    IN  [i \in 1 .. Len(live) |-> live[Len(live) + 1 - i]]

(* The order the firmware would boot in if the board reset now: CPB0      *)
(* unless it finds it corrupted, then CPB1 (the rule behind FwState).     *)
FwBoot ==
    CASE FwGood(cpbFlash[0]) -> BootOrderOf(cpbFlash[0].data)
      [] FwGood(cpbFlash[1]) -> BootOrderOf(cpbFlash[1].data)
      [] OTHER -> <<>>

SavedBoot == IF FwGood(savedCpb) THEN BootOrderOf(savedCpb.data) ELSE <<>>

(* Spec 3.3/4.4 and the write-then-stamp and in-place update protocols:   *)
(* at every step, not only between calls, the order the firmware would    *)
(* boot in is one that a sequence of whole operations produces: each      *)
(* flash step of update_cpb, writeback_cpb and priority_add's compaction  *)
(* either leaves it alone or applies one whole removal, addition on top,  *)
(* empty CPB or restore.  A power loss or damage step, and any step while *)
(* cpb_corrupted is set (when spec 4.3 has every mutation refused; the raw *)
(* run shows the callback program does not), are not constrained.         *)
AbstractBoot == INSTANCE AbstractBootOrder
    WITH Parts <- Offsets, boot <- FwBoot, saved <- SavedBoot,
         faults <- crashes + damage + ioErrors, trusted <- ~cpbCorrupted

ImplementsBootOrder == AbstractBoot!AbsSpec
====
