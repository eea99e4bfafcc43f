------------------------------ MODULE MCRsuImage ------------------------------
(***************************************************************************)
(* Instance of RsuImage: two updatable slots at different flash offsets,   *)
(* a third slot that the configuration file write-protects, and images of  *)
(* up to five blocks.  Offsets and sizes are in 4 KiB blocks.             *)
(***************************************************************************)
EXTENDS RsuImage

CONSTANTS s1, s2, s3

MCSlots == {s1, s2}
MCSlots3 == {s1, s2, s3}
MCSlotOffset == (s1 :> 8) @@ (s2 :> 16) @@ (s3 :> 24)
MCSlotSize == (s1 :> 5) @@ (s2 :> 4) @@ (s3 :> 2)
\* s3 is slot 31, the slot whose bit is 1 << 31.
MCSlotNumber == (s1 :> 0) @@ (s2 :> 1) @@ (s3 :> 31)

\* The words of the configuration files below.
MCStrtoul == ("0" :> 0) @@ ("1" :> 1) @@ ("31" :> 31) @@ ("32" :> 32)
MCNumerals == {"0", "1", "31", "32"}
MCComments == {"#"}

\* Blank and comment lines, a key librsu ignores, slot 31 protected.
MCConfigClean ==
    << <<>>, <<"#", "factory">>, <<"log", "err", "stderr">>,
       <<"write-protect", "31">>, <<"rsu-spt-checksum", "1">> >>
\* Two slots on one write-protect line, then slot 31 on a line of its own.
MCConfigMalformed == << <<"write-protect", "0", "1">>, <<"write-protect", "31">> >>

Cmf == [kind |-> "cmf", ptrs |-> Zero4, crc |-> FALSE]
Data == [kind |-> "data", ptrs |-> Zero4, crc |-> FALSE]
Sig(p) == [kind |-> "sig", ptrs |-> <<p, 0, 0, 0>>, crc |-> TRUE]

\* Relocatable, two CMF sections: the section at block 2 is found through
\* the pointer of the first signature block.
RelImage == <<Cmf, Sig(2), Cmf, Sig(0), Data>>
\* The same image with one section, short enough for either slot.
ShortImage == <<Cmf, Sig(2), Cmf, Sig(0)>>
\* Absolute for s1 (pointer 10 = 8 + 2 is past both slot sizes).
AbsImage == <<Cmf, Sig(10), Cmf, Sig(0)>>
\* The second signature block points past the slot: refused part way.
BadImage == <<Cmf, Sig(2), Cmf, Sig(7)>>

MCImages == {RelImage, ShortImage, AbsImage, BadImage}

\* Stale sections[0] values: 0, and a block offset that holds no signature
\* block in any image (the data block of RelImage).
MCGarbageHarmless == {0, 4}
\* The offset of the first signature block.
MCGarbageSig == {1}
====
