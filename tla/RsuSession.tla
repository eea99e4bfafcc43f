----------------------------- MODULE RsuSession -----------------------------
(***************************************************************************)
(* The session layer of librsu with several caller threads: ctx.state and  *)
(* ctx.mutex (libRSU.c), the pthread mutex behind them                     *)
(* (RSU_osal_linux.c), librsu_cfg_parse / librsu_cfg_reset (libRSU_cfg.c)  *)
(* and the allocation of plat_database by rsu_qspi_open / rsu_qspi_close   *)
(* (libRSU_ops.c).  The contents of the tables are abstracted to the       *)
(* number of updates made to them; RsuMetadata models those contents.      *)
(***************************************************************************)
EXTENDS Naturals, FiniteSets

CONSTANTS
    Threads,      \* caller threads (model values)
    Lifecycle,    \* the threads that also call librsu_init and librsu_exit
    InitState,    \* ctx.state when the model starts
    MaxCalls,     \* bound on public calls made by all threads together
    MaxFailures   \* bound on failing collaborators (malloc, platform init, mailbox)

ASSUME Lifecycle \subseteq Threads
ASSUME InitState \in {"un_initialized", "initialized"}

VARIABLES
    state,        \* ctx.state
    mutex,        \* ctx.mutex: "invalid" (not initialized or destroyed), "free" or its owner
    hal,          \* the static hal of libRSU_cfg.c: "null" or "bound"
    intf,         \* the static intf of libRSU.c: "null" or "set"
    platDatabase, \* plat_database of libRSU_ops.c: "null", "open" or "dangling" (freed, not NULL)
    updates,      \* updates made to the cached tables
    pc,           \* where each thread is in its current call
    local,        \* what each thread read from the tables under the lock
    calls, failures

vars == <<state, mutex, hal, intf, platDatabase, updates, pc, local, calls, failures>>

InCall == {"lock", "read", "write"}
InInit == {"init_set", "init_mutex", "init_parse"}
InExit == {"exit_set", "exit_destroy", "exit_close", "exit_reset"}

\* A new public call starts, within the bound.
Begin(t) == pc[t] = "idle" /\ calls < MaxCalls /\ calls' = calls + 1

(***************************************************************************)
(* librsu_init (libRSU.c 42-78).  The check of ctx.state and the store of  *)
(* in_progress are two statements with no lock around them.                *)
(***************************************************************************)
InitCheck(t) ==
    /\ t \in Lifecycle /\ Begin(t)
    /\ pc' = [pc EXCEPT ![t] = IF state # "un_initialized" THEN "idle" ELSE "init_set"]
    /\ UNCHANGED <<state, mutex, hal, intf, platDatabase, updates, local, failures>>

InitSet(t) ==
    /\ pc[t] = "init_set"
    /\ state' = "in_progress"
    /\ pc' = [pc EXCEPT ![t] = "init_mutex"]
    /\ UNCHANGED <<mutex, hal, intf, platDatabase, updates, local, calls, failures>>

\* rsu_mutex_init: pthread_mutex_init makes the mutex free, whoever holds it.
\* It reports a failure as a positive errno, which the test ret < 0
\* (libRSU.c 60-65) lets through: init goes on with the mutex as it was.
InitMutex(t) ==
    /\ pc[t] = "init_mutex"
    /\ \/ mutex' = "free" /\ UNCHANGED failures
       \/ failures < MaxFailures /\ failures' = failures + 1 /\ UNCHANGED mutex
    /\ pc' = [pc EXCEPT ![t] = "init_parse"]
    /\ UNCHANGED <<state, hal, intf, platDatabase, updates, local, calls>>

(***************************************************************************)
(* The outcomes of rsu_qspi_open (libRSU_ops.c 1871-1943):                 *)
(*   "ok"        both tables loaded, or flagged corrupted;                 *)
(*   "nomem"     plat_database not allocated;                              *)
(*   "dangling"  spt or cpb not allocated, or get_spt_addresses failed:    *)
(*               plat_database is freed and left non-NULL;                 *)
(*   "bad"       load_spt/load_cpb failed without a flag: rsu_qspi_close.  *)
(***************************************************************************)
OpenFailures == {"nomem", "dangling", "bad"}

DatabaseAfter(outcome) ==
    CASE outcome = "ok"       -> "open"
      [] outcome = "dangling" -> "dangling"
      [] OTHER                -> "null"

(***************************************************************************)
(* librsu_cfg_parse (libRSU_cfg.c 18-116).  A failing platform init frees  *)
(* hal.  rsu_qspi_open refuses a non-NULL plat_database with -EADDRINUSE;  *)
(* any open failure calls librsu_cfg_reset.  The result of                 *)
(* librsu_common_cfg_parse is ignored (libRSU_cfg.c 101-104).  Success     *)
(* binds hal and sets intf.                                                 *)
(***************************************************************************)
CfgParse(t) ==
    /\ pc[t] = "init_parse"
    /\ \/ /\ failures < MaxFailures /\ failures' = failures + 1
          /\ hal' = "null" /\ UNCHANGED <<intf, platDatabase>>
       \/ /\ platDatabase # "null"
          /\ hal' = "null" /\ UNCHANGED <<intf, platDatabase, failures>>
       \/ /\ platDatabase = "null"
          /\ failures < MaxFailures /\ failures' = failures + 1
          /\ \E outcome \in OpenFailures : platDatabase' = DatabaseAfter(outcome)
          /\ hal' = "null" /\ UNCHANGED intf
       \/ /\ platDatabase = "null"
          /\ platDatabase' = DatabaseAfter("ok")
          /\ hal' = "bound" /\ intf' = "set"
          /\ UNCHANGED failures
    /\ pc' = [pc EXCEPT ![t] = "idle"]
    /\ UNCHANGED <<mutex, updates, local, calls>>

InitParseIgnoringError(t) == CfgParse(t) /\ state' = "initialized"

\* The end of librsu_init (libRSU.c 66-77): only the success path of
\* librsu_cfg_parse leaves hal bound.
InitParse(t) ==
    /\ CfgParse(t)
    /\ state' = IF hal' = "bound" THEN "initialized" ELSE "un_initialized"

(***************************************************************************)
(* librsu_exit (libRSU.c 80-97): no lock is taken.                         *)
(***************************************************************************)
ExitCheck(t) ==
    /\ t \in Lifecycle /\ Begin(t)
    /\ pc' = [pc EXCEPT ![t] = IF state # "initialized" THEN "idle" ELSE "exit_set"]
    /\ UNCHANGED <<state, mutex, hal, intf, platDatabase, updates, local, failures>>

ExitSet(t) ==
    /\ pc[t] = "exit_set"
    /\ state' = "in_progress"
    /\ pc' = [pc EXCEPT ![t] = "exit_destroy"]
    /\ UNCHANGED <<mutex, hal, intf, platDatabase, updates, local, calls, failures>>

\* rsu_mutex_destroy of a held mutex is undefined: glibc returns EBUSY and
\* leaves it, or the mutex is gone.  The result is ignored.
ExitDestroy(t) ==
    /\ pc[t] = "exit_destroy"
    /\ mutex' \in IF mutex \in Threads THEN {mutex, "invalid"} ELSE {"invalid"}
    /\ pc' = [pc EXCEPT ![t] = "exit_close"]
    /\ UNCHANGED <<state, hal, intf, platDatabase, updates, local, calls, failures>>

\* intf->close() is rsu_qspi_close: frees the tables and sets plat_database NULL.
ExitClose(t) ==
    /\ pc[t] = "exit_close"
    /\ platDatabase' = "null"
    /\ pc' = [pc EXCEPT ![t] = "exit_reset"]
    /\ UNCHANGED <<state, mutex, hal, intf, updates, local, calls, failures>>

\* intf = NULL; librsu_cfg_reset(); ctx.state = un_initialized.
ExitReset(t) ==
    /\ pc[t] = "exit_reset"
    /\ intf' = "null" /\ hal' = "null"
    /\ state' = "un_initialized"
    /\ pc' = [pc EXCEPT ![t] = "idle"]
    /\ UNCHANGED <<mutex, platDatabase, updates, local, calls, failures>>

(***************************************************************************)
(* A public operation, e.g. rsu_slot_count (libRSU.c 217-247): check       *)
(* ctx.state, MUTEX_LOCK, read the tables, change them or take an error    *)
(* path, MUTEX_UNLOCK.                                                      *)
(***************************************************************************)
OpCheck(t) ==
    /\ Begin(t)
    /\ pc' = [pc EXCEPT ![t] = IF state # "initialized" THEN "idle" ELSE "lock"]
    /\ UNCHANGED <<state, mutex, hal, intf, platDatabase, updates, local, failures>>

\* MUTEX_LOCK waits for a free mutex.  Locking a destroyed mutex returns an
\* error that no caller checks, and the call goes on unlocked.
OpLock(t) ==
    /\ pc[t] = "lock"
    /\ \/ mutex = "free" /\ mutex' = t
       \/ mutex = "invalid" /\ UNCHANGED mutex
    /\ pc' = [pc EXCEPT ![t] = "read"]
    /\ UNCHANGED <<state, hal, intf, platDatabase, updates, local, calls, failures>>

\* Dereferencing intf or plat_database after exit cleared them ends the process.
Segfault ==
    /\ pc' = [u \in Threads |-> "crashed"]
    /\ UNCHANGED <<state, mutex, hal, intf, platDatabase, updates, local, calls, failures>>

TablesReachable == intf = "set" /\ platDatabase = "open"

OpRead(t) ==
    /\ pc[t] = "read"
    /\ \/ /\ TablesReachable
          /\ local' = [local EXCEPT ![t] = updates]
          /\ pc' = [pc EXCEPT ![t] = "write"]
          /\ UNCHANGED <<state, mutex, hal, intf, platDatabase, updates, calls, failures>>
       \/ ~TablesReachable /\ Segfault

\* MUTEX_UNLOCK: unlocking a mutex another thread holds is undefined; glibc
\* releases a default mutex.  A destroyed mutex stays destroyed.
Unlocked(t) ==
    IF mutex = t THEN {"free"}
    ELSE IF mutex \in Threads THEN {mutex, "free"} ELSE {mutex}

OpWrite(t) ==
    /\ pc[t] = "write"
    /\ \/ /\ TablesReachable
          /\ updates' \in {local[t] + 1, updates}
          /\ mutex' \in Unlocked(t)
          /\ pc' = [pc EXCEPT ![t] = "idle"]
          /\ UNCHANGED <<state, hal, intf, platDatabase, local, calls, failures>>
       \/ ~TablesReachable /\ Segfault

-----------------------------------------------------------------------------

Init ==
    /\ state = InitState
    /\ mutex = IF InitState = "initialized" THEN "free" ELSE "invalid"
    /\ hal = IF InitState = "initialized" THEN "bound" ELSE "null"
    /\ intf = IF InitState = "initialized" THEN "set" ELSE "null"
    /\ platDatabase = IF InitState = "initialized" THEN "open" ELSE "null"
    /\ updates = 0
    /\ pc = [t \in Threads |-> "idle"]
    /\ local = [t \in Threads |-> 0]
    /\ calls = 0
    /\ failures = 0

LifecycleStep(t) ==
    \/ InitCheck(t) \/ InitSet(t) \/ InitMutex(t) \/ InitParse(t)
    \/ ExitCheck(t) \/ ExitSet(t) \/ ExitDestroy(t) \/ ExitClose(t) \/ ExitReset(t)

CallStep(t) == OpLock(t) \/ OpRead(t) \/ OpWrite(t)

Next == \E t \in Threads : LifecycleStep(t) \/ OpCheck(t) \/ CallStep(t)

Spec == Init /\ [][Next]_vars

-----------------------------------------------------------------------------

PCs == {"idle", "crashed"} \cup InCall \cup InInit \cup InExit

TypeOK ==
    /\ state \in {"un_initialized", "in_progress", "initialized"}
    /\ mutex \in {"invalid", "free"} \cup Threads
    /\ hal \in {"null", "bound"}
    /\ intf \in {"null", "set"}
    /\ platDatabase \in {"null", "open", "dangling"}
    /\ updates \in 0..MaxCalls
    /\ pc \in [Threads -> PCs]
    /\ local \in [Threads -> 0..MaxCalls]
    /\ calls \in 0..MaxCalls
    /\ failures \in 0..MaxFailures

\* The process is alive and no lifecycle call is under way.
LifecycleIdle == \A t \in Threads : pc[t] \in {"idle"} \cup InCall

\* Between init and exit calls, ctx.state says initialized exactly when
\* librsu_init bound the platform (hal), set intf and opened plat_database:
\* every failure path of librsu_init and librsu_cfg_parse rolls all three back.
SessionConsistent ==
    LifecycleIdle =>
        /\ (state = "initialized") = (hal = "bound")
        /\ (state = "initialized") = (intf = "set")
        /\ (state = "initialized") = (platDatabase = "open")
        /\ state # "in_progress"

\* A thread that passed the ctx.state check and MUTEX_LOCK finds intf and the
\* tables still there: librsu_exit never frees them under a running call.
CallsSeeOpenDatabase ==
    \A t \in Threads : pc[t] \in {"read", "write"} => TablesReachable

\* After a librsu_init that failed, plat_database is NULL again, so that the
\* next librsu_init can pass rsu_qspi_open's -EADDRINUSE check.
FailedInitLeavesNoDatabase ==
    (LifecycleIdle /\ state = "un_initialized") => platDatabase = "null"
=============================================================================
