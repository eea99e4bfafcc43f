----------------------------- MODULE RsuChecksum -----------------------------
(***************************************************************************)
(* The byte-level code under the CRC-protected structures of librsu, as   *)
(* operators: swap_bits, swap_endian32 and SAFE_STRCPY (libRSU_misc.c),    *)
(* the SPT checksum that writeback_spt stores and check_spt verifies       *)
(* (libRSU_ops.c), and the CRC check, pointer move and CRC update of       *)
(* sig_block_adjust and sig_block_compare (libRSU_image.c).  RsuBytes     *)
(* runs them in the calls that use them.                                   *)
(*                                                                         *)
(* Data abstraction.  Memory is a sequence of RSU_OSAL_CHAR, a signed char *)
(* on the three platforms (-128..127).  A U32 is its four bytes in memory, *)
(* little-endian.  Blocks are shorter than 4 KiB and section pointers are  *)
(* PtrWidth bytes wide instead of 8; the arithmetic on them wraps at that  *)
(* width.  rsu_crc32 is the platform's (spec 6.5): any function of the     *)
(* bytes, given by the model.                                              *)
(***************************************************************************)
EXTENDS Integers, Sequences, SequencesExt

CONSTANTS
    Crc32(_),          \* rsu_crc32(0, data, len): the U32 result as 4 bytes
    PtrOffs,           \* SIG_BLOCK_PTR_OFFS
    PtrWidth,          \* bytes in a section pointer
    CrcOffs,           \* SIG_BLOCK_CRC_OFFS
    SptChecksumOffset  \* SPT_CHECKSUM_OFFSET

Char == -128 .. 127
ToChar(v) == ((v + 128) % 256) - 128
Word == 256 ^ PtrWidth

\* The bytes of blk at C offsets at .. at + Len(bytes) - 1 replaced.
Put(blk, at, bytes) ==
    [i \in DOMAIN blk |-> IF at < i /\ i <= at + Len(bytes) THEN bytes[i - at] ELSE blk[i]]

Field(blk, at, n) == SubSeq(blk, at + 1, at + n)

(***************************************************************************)
(* swap_bits (libRSU_misc.c 21-37), one byte: eight times tmp <<= 1, the   *)
(* low bit of data[x] or'ed in, data[x] >>= 1.  The shift of a negative    *)
(* char is arithmetic (gcc, clang), and storing tmp << 1 back into a char  *)
(* wraps.                                                                   *)
(***************************************************************************)
RECURSIVE SwapLoop(_, _, _)
SwapLoop(tmp, d, y) ==
    IF y = 8 THEN tmp
    ELSE SwapLoop(ToChar(tmp * 2) + (d % 2), d \div 2, y + 1)

SwapChar(c) == SwapLoop(0, c, 0)

\* SwapChar of every char, computed once.
SwapTable == [c \in Char |-> SwapChar(c)]

swap_bits(data) == [x \in DOMAIN data |-> SwapTable[data[x]]]

\* swap_endian32 (libRSU_misc.c 39-51): to[x] = from[3 - x].
swap_endian32(val) == [x \in 1 .. 4 |-> val[5 - x]]

\* The unsigned value of the first n bytes, little-endian.
RECURSIVE LeValue(_, _)
LeValue(bytes, n) == IF n = 0 THEN 0 ELSE LeValue(bytes, n - 1) + (bytes[n] % 256) * 256 ^ (n - 1)

\* A pointer of the pointer block, as the unsigned value of its bytes.
PtrValue(blk, x) == LeValue(Field(blk, PtrOffs + (x - 1) * PtrWidth, PtrWidth), PtrWidth)

PtrBytes(v) == [i \in 1 .. PtrWidth |-> ToChar((v \div (256 ^ (i - 1))) % 256)]

SetPtr(blk, x, v) == Put(blk, PtrOffs + (x - 1) * PtrWidth, PtrBytes(v))

\* ptrs[x] += info->offset for every non-zero pointer, wrapping at the width.
MovePtrs(blk, offset) ==
    LET step(x, b) == IF PtrValue(blk, x) = 0 THEN b
                      ELSE SetPtr(b, x, (PtrValue(blk, x) + offset) % Word)
    IN  step(4, step(3, step(2, step(1, blk))))

\* Mutant: the CRC stored without the last swap_bits.
UpdateCrcNoSwapBack(blk) ==
    LET sw == swap_bits(blk)
    IN  Put(sw, CrcOffs, swap_endian32(Crc32(SubSeq(sw, 1, CrcOffs))))

\* swap_bits, rsu_crc32 over the first SIG_BLOCK_CRC_OFFS bytes, the result
\* stored with swap_endian32, swap_bits back.
UpdateCrc(blk) ==
    LET sw == swap_bits(blk)
    IN  swap_bits(Put(sw, CrcOffs, swap_endian32(Crc32(SubSeq(sw, 1, CrcOffs)))))

\* The CRC test of sig_block_adjust (libRSU_image.c 139-141), on the block
\* as the bytes are swapped.
CrcMatches(sw) == swap_endian32(Field(sw, CrcOffs, 4)) = Crc32(SubSeq(sw, 1, CrcOffs))

(***************************************************************************)
(* sig_block_adjust (libRSU_image.c 126-188) on the bytes of a block.  A   *)
(* bad CRC returns -1 with the block left bit-swapped.  A non-zero pointer *)
(* is read as an S64; for an absolute image the U64 offset is subtracted.  *)
(* Relocation moves the pointers and recomputes the CRC.                   *)
(***************************************************************************)
SigBlockAdjust(blk, absolute, offset, size) ==
    LET Signed(v) == IF v >= Word \div 2 THEN v - Word ELSE v
        Rel(x) == IF absolute THEN Signed((PtrValue(blk, x) - offset) % Word)
                  ELSE Signed(PtrValue(blk, x))
    IN  CASE ~CrcMatches(swap_bits(blk)) -> [ret |-> -1, block |-> swap_bits(blk)]
          [] \E x \in 1 .. 4 : PtrValue(blk, x) # 0 /\ Rel(x) > size -> [ret |-> -1, block |-> blk]
          [] absolute -> [ret |-> 0, block |-> blk]
          [] OTHER -> [ret |-> 0, block |-> UpdateCrc(MovePtrs(blk, offset))]

\* Mutant: the pointers moved and the CRC left as the user's.
SigBlockExpectedNoCrc(ublock, absolute, offset) ==
    IF absolute THEN ublock ELSE MovePtrs(ublock, offset)

\* The block sig_block_compare (libRSU_image.c 243-266) expects in flash
\* for the user's block: a copy, relocated and re-CRC'ed unless absolute.
SigBlockExpected(ublock, absolute, offset) ==
    IF absolute THEN ublock ELSE UpdateCrc(MovePtrs(ublock, offset))

(***************************************************************************)
(* The SPT checksum.  check_spt (libRSU_ops.c 251-271) zeroes the field in *)
(* a copy, swaps its bits and compares rsu_crc32 of it with the stored     *)
(* field through swap_endian32; writeback_spt (864-869) zeroes the field   *)
(* of the cached table, swaps the bits of a copy and stores swap_endian32  *)
(* of its CRC, bytes not swapped.                                           *)
(***************************************************************************)
ZeroField == <<0, 0, 0, 0>>

SptChecksumOk(spt) ==
    swap_endian32(Field(spt, SptChecksumOffset, 4))
        = Crc32(swap_bits(Put(spt, SptChecksumOffset, ZeroField)))

\* Mutant: the CRC taken over the table with its old checksum still in it.
SptChecksumWriteNoZero(spt) ==
    Put(spt, SptChecksumOffset, swap_endian32(Crc32(swap_bits(spt))))

SptChecksumWrite(spt) ==
    LET zeroed == Put(spt, SptChecksumOffset, ZeroField)
    IN  Put(zeroed, SptChecksumOffset, swap_endian32(Crc32(swap_bits(zeroed))))

(***************************************************************************)
(* SAFE_STRCPY(dst, dsz, src, ssz) (libRSU_misc.c 95-121).  dst is the     *)
(* destination buffer, dsz bytes; src holds ssz bytes or a NUL before.    *)
(***************************************************************************)
StrnLen(src, ssz) ==
    LET nul == {i \in 1 .. ssz : src[i] = 0}
    IN  IF nul = {} THEN ssz ELSE Min(nul) - 1

SAFE_STRCPY(dst, dsz, src, ssz) ==
    LET len == IF StrnLen(src, ssz) >= dsz THEN dsz - 1 ELSE StrnLen(src, ssz)
    IN  CASE dsz <= 0 -> dst
          [] ssz <= 0 -> [dst EXCEPT ![1] = 0]
          [] OTHER -> [i \in DOMAIN dst |-> IF i <= len THEN src[i] ELSE IF i = len + 1 THEN 0 ELSE dst[i]]
-----------------------------------------------------------------------------
(* Reference definitions, from the format spec.md 3.1 and 3.4 describe. *)

Bit(c, i) == ((c % 256) \div (2 ^ i)) % 2

\* The byte whose bits are those of c in the opposite order.
RevTable == [c \in Char |-> CHOOSE r \in Char : \A i \in 0 .. 7 : Bit(r, i) = Bit(c, 7 - i)]

RevBits(c) == RevTable[c]

RevAll(data) == [i \in DOMAIN data |-> RevBits(data[i])]

\* A signature block as a bitstream tool writes it: after every byte is
\* bit-reversed, the last four bytes hold the CRC32 of the others, big-endian.
ValidSig(body) == body \o RevAll(Reverse(Crc32(RevAll(body))))

\* The same block with one byte of its CRC changed.
CorruptSig(body) ==
    LET blk == ValidSig(body) IN Put(blk, CrcOffs, <<ToChar(blk[CrcOffs + 1] + 1)>>)

====
