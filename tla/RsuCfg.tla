-------------------------------- MODULE RsuCfg --------------------------------
(***************************************************************************)
(* The configuration file reader of libRSU_cfg.c: librsu_common_cfg_parse, *)
(* which librsu_cfg_parse calls while librsu_init binds the platform, and  *)
(* librsu_cfg_writeprotected, the query the program and erase calls make   *)
(* of what it read.                                                        *)
(*                                                                         *)
(* Data abstraction.  A line of the file is the argv split_line makes of   *)
(* it: a sequence of words.  A word is a string; Strtoul gives what        *)
(* strtoul(word, NULL, 10) stores in the RSU_OSAL_U32 slot, where every    *)
(* value above 31 is written 32 (the code only compares it with 31).       *)
(* Lines are shorter than RSU_DEV_BUF_SIZE and have fewer than NUM_ARGS    *)
(* words.  hal->writeprotect is kept as the set of its bits.               *)
(***************************************************************************)
EXTENDS Integers, Sequences

CONSTANTS
    ConfigExists,   \* whether file.open of the configuration file succeeds
    Config,         \* the lines of the file, each a sequence of words
    Strtoul,        \* [words -> 0..32]: strtoul of a word, as a U32, capped at 32
    Numerals,       \* the words that are decimal numbers
    Comments        \* the words whose first character is '#'

\* rsu_memset(hal, 0, ...) in librsu_cfg_parse, then the default that
\* librsu_common_cfg_parse sets before it opens the file.
HalDefaults == [writeprotect |-> {}, spt_checksum_enabled |-> 1, ret |-> "ok"]

\* Mutant: the slot bound written as 1 << slot must stay below bit 31.
CfgLineSlotBelow31(intf, argv) ==
    CASE Len(argv) < 1 \/ argv[1] \in Comments -> intf
      [] argv[1] = "write-protect" /\ Len(argv) # 2 -> [intf EXCEPT !.ret = "EINVAL"]
      [] argv[1] = "write-protect" /\ Strtoul[argv[2]] >= 31 -> [intf EXCEPT !.ret = "EINVAL"]
      [] argv[1] = "write-protect" -> [intf EXCEPT !.writeprotect = @ \cup {Strtoul[argv[2]]}]
      [] argv[1] = "rsu-spt-checksum" /\ Len(argv) # 2 -> [intf EXCEPT !.ret = "EINVAL"]
      [] argv[1] = "rsu-spt-checksum" -> [intf EXCEPT !.spt_checksum_enabled = Strtoul[argv[2]]]
      [] OTHER -> intf

(***************************************************************************)
(* One iteration of the while loop of librsu_common_cfg_parse over the     *)
(* argv of a line: blank and comment lines are skipped, a write-protect or *)
(* rsu-spt-checksum line with argc # 2, or a write-protect slot above 31,  *)
(* ends the parse with -EINVAL; other keys are ignored.  1 << 31 is a      *)
(* signed overflow; gcc and clang produce 0x80000000, i.e. bit 31.         *)
(***************************************************************************)
CfgLine(intf, argv) ==
    CASE Len(argv) < 1 \/ argv[1] \in Comments -> intf
      [] argv[1] = "write-protect" /\ Len(argv) # 2 -> [intf EXCEPT !.ret = "EINVAL"]
      [] argv[1] = "write-protect" /\ Strtoul[argv[2]] > 31 -> [intf EXCEPT !.ret = "EINVAL"]
      [] argv[1] = "write-protect" -> [intf EXCEPT !.writeprotect = @ \cup {Strtoul[argv[2]]}]
      [] argv[1] = "rsu-spt-checksum" /\ Len(argv) # 2 -> [intf EXCEPT !.ret = "EINVAL"]
      [] argv[1] = "rsu-spt-checksum" -> [intf EXCEPT !.spt_checksum_enabled = Strtoul[argv[2]]]
      [] OTHER -> intf

\* The loop: each fgets'd line in turn, until the end of the file or the
\* first line that returns -EINVAL (after file.close).  What earlier lines
\* set in hal stays set.
RECURSIVE CfgLines(_, _)
CfgLines(intf, lines) ==
    IF lines = <<>> THEN intf
    ELSE LET next == CfgLine(intf, Head(lines))
         IN  IF next.ret # "ok" THEN next ELSE CfgLines(next, Tail(lines))

\* librsu_common_cfg_parse(filename, hal): -ENOENT when the file does not
\* open, with only the checksum default set.
librsu_common_cfg_parse ==
    IF ~ConfigExists THEN [HalDefaults EXCEPT !.ret = "ENOENT"]
    ELSE CfgLines(HalDefaults, Config)

\* librsu_cfg_parse goes on whatever librsu_common_cfg_parse returned
\* (libRSU_cfg.c 101-104): hal holds what the parse set.
hal == librsu_common_cfg_parse

\* librsu_cfg_writeprotected(slot): -1, 0 or 1.
librsu_cfg_writeprotected(slot) ==
    CASE slot < 0 -> -1
      [] slot > 31 -> 0
      [] OTHER -> IF slot \in hal.writeprotect THEN 1 ELSE 0

\* The slots spec.md 6.3 write-protects: those named by a well-formed
\* "write-protect <slot-number 0..31>" line; malformed lines are ignored.
SpecWriteProtected ==
    IF ~ConfigExists THEN {}
    ELSE {Strtoul[Config[i][2]] :
            i \in {j \in DOMAIN Config :
                     /\ Len(Config[j]) = 2 /\ Config[j][1] = "write-protect"
                     /\ Config[j][2] \in Numerals /\ Strtoul[Config[j][2]] <= 31}}
====
