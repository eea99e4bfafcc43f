------------------------------ MODULE MCRsuBytes ------------------------------
(***************************************************************************)
(* Instance of RsuBytes: signature blocks of 17 bytes (one byte, four      *)
(* three-byte pointers, the CRC at 13) and SPTs of 12 bytes (magic number, *)
(* version byte, checksum at 5, a three-byte name field).                  *)
(***************************************************************************)
EXTENDS RsuBytes

CONSTANTS s1, s2

MCSlots == {s1, s2}
\* s2's offset is above every pointer of the blocks: an absolute block built
\* for a lower slot has pointers below it.
MCSlotOffset == (s1 :> 1000) @@ (s2 :> 39000)
MCSlotSize == (s1 :> 8192) @@ (s2 :> 8192)

\* A stand-in for rsu_crc32: four position-dependent hashes of the bytes,
\* each changed by any change of one byte.
RECURSIVE Hash(_, _, _)
Hash(data, k, n) ==
    IF n = 0 THEN k ELSE (Hash(data, k, n - 1) * (2 * k + 1) + (data[n] % 256) + 1) % 256

MCCrc32(data) == [k \in 1 .. 4 |-> ToChar(Hash(data, k, Len(data)))]

SigBody(p) == <<0>> \o PtrBytes(p) \o PtrBytes(0) \o PtrBytes(0) \o PtrBytes(0)

\* Relocatable (3); absolute and accepted in s2 only (40000 = 39000 + 1000);
\* absolute with its pointer below s2 and past s1 (20000); a bad CRC.
MCUserBlocks ==
    {ValidSig(SigBody(3)), ValidSig(SigBody(40000)), ValidSig(SigBody(20000)),
     CorruptSig(SigBody(3))}

\* 0x57713427 in memory.
MCSptMagic == <<39, 52, 113, 87>>

\* A table as a tool writes it: the checksum field holds the CRC of the
\* bit-reversed table with the field zero, in big-endian order.
WithChecksum(tbl) == Put(tbl, 5, Reverse(MCCrc32(RevAll(tbl))))

\* Version 1, partition name "A".
MCGoodSpt == WithChecksum(MCSptMagic \o <<1>> \o ZeroField \o <<65, 0, 0>>)
\* One byte of the name changed.
MCDamagedSpt == Put(MCGoodSpt, 9, <<66>>)

\* "A" (the name it has), "B", and "ABC", which fills the field.
MCNames == {<<65, 0, 0>>, <<66, 0, 0>>, <<65, 66, 67>>}
====
