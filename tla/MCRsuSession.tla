---------------------------- MODULE MCRsuSession ----------------------------
(* Values of RsuSession's constants for TLC. *)
EXTENDS RsuSession

CONSTANTS t1, t2

MCThreads2 == {t1, t2}
MCLifecycle == {t1}
=============================================================================
