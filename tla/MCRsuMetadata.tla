---------------------------- MODULE MCRsuMetadata ----------------------------
(* Model values and bounds for RsuMetadata: two partition offsets and two  *)
(* names, a two-slot CPB, one user partition installed with priority.      *)
EXTENDS RsuMetadata

CONSTANTS o1, o2, n1, n2

MCOffsets == {o1, o2}
MCNames == {n1, n2}
MCSptOrder == <<0, 1>>
MCCpbOrder == <<0, 1>>
MCInitParts == <<[name |-> n1, offset |-> o1]>>
MCInitPtrs == <<o1, ERASED_ENTRY>>
MCInitImg == [o \in MCOffsets |-> IF o = o1 THEN "full" ELSE "blank"]
====
