-------------------------- MODULE AbstractBootOrder --------------------------
(***************************************************************************)
(* What the CPB promises the firmware (spec.md 3.3, 4.4): the order in     *)
(* which it tries the slots' images, highest priority first.  Each public  *)
(* call changes that order by one whole operation: a partition leaves it   *)
(* (erase, delete, disable), a partition not in it goes to the top         *)
(* (program, enable), it is emptied (create_empty_cpb), or it becomes the  *)
(* order the user saved (save_cpb, restore_cpb).  No reboot sees an order  *)
(* half way between two of these.  Nothing is promised of a step that is a *)
(* fault of the flash itself (a power loss tearing a write, a copy damaged *)
(* while the board is off), nor while the library does not trust the CPB   *)
(* (cpb_corrupted): then every mutation is to be refused (spec 4.3).       *)
(***************************************************************************)
EXTENDS Sequences, SequencesExt

CONSTANT Parts     \* the partitions a CPB entry may point at

VARIABLES
    boot,          \* the order the firmware would boot in now
    saved,         \* the order held by the user's saved CPB
    faults,        \* the flash faults so far
    trusted        \* the library vouches for the CPB

absVars == <<boot, saved, faults, trusted>>

\* An order names each partition at most once.
IsOrder(s) == \A i, j \in DOMAIN s : i # j => s[i] # s[j]

AbsInit == IsOrder(boot) /\ saved = <<>> /\ faults = 0 /\ trusted \in BOOLEAN

Leave(p) ==
    /\ p \in ToSet(boot)
    /\ boot' = SelectSeq(boot, LAMBDA q : q # p)
    /\ UNCHANGED <<saved, faults, trusted>>

AddTop(p) ==
    /\ p \notin ToSet(boot)
    /\ boot' = <<p>> \o boot
    /\ UNCHANGED <<saved, faults, trusted>>

Clear == boot' = <<>> /\ UNCHANGED <<saved, faults, trusted>>

\* The user's copy holds the current order, or is one no restore can boot
\* from (read from a CPB0 the firmware would not use).
Save == saved' \in {boot, <<>>} /\ UNCHANGED <<boot, faults, trusted>>

Restore == boot' = saved /\ UNCHANGED <<saved, faults, trusted>>

\* The library flags the CPB, or a fix or a new session clears the flag.
Vouch == trusted' # trusted /\ UNCHANGED <<boot, saved, faults>>

Fault == faults' = faults + 1 /\ UNCHANGED saved

Untrusted == ~trusted /\ UNCHANGED <<saved, faults, trusted>>

AbsNext == Fault \/ Untrusted \/ Vouch \/ Clear \/ Save \/ Restore \/ \E p \in Parts : Leave(p) \/ AddTop(p)

AbsSpec == AbsInit /\ [][AbsNext]_absVars
=============================================================================
