----------------------------- MODULE StateStore -----------------------------
(***************************************************************************)
(* What PersistenceLayer (rabia-core/src/persistence.rs) promises: one      *)
(* state value that a save replaces at a single instant, between the call   *)
(* and its return.  A save that fails, or that a crash cuts short, took     *)
(* place completely or not at all, and a load sees the latest that did.     *)
(***************************************************************************)
CONSTANTS States,  \* serialized engine states
          None     \* nothing has been saved

VARIABLES stored,       \* the value a load returns
          arg,          \* argument of the save in progress, or None
          took,         \* has that save taken place?
          acknowledged  \* argument of the last save that returned Ok

storeVars == <<stored, arg, took, acknowledged>>

StoreInit == stored = None /\ arg = None /\ took = FALSE /\ acknowledged = None

Call(v) ==
  /\ arg = None
  /\ arg' = v /\ took' = FALSE
  /\ UNCHANGED <<stored, acknowledged>>

TakePlace ==
  /\ arg # None /\ ~took
  /\ stored' = arg /\ took' = TRUE
  /\ UNCHANGED <<arg, acknowledged>>

\* Ok is returned only for a save that took place and is what a load sees.
ReturnOk ==
  /\ arg # None /\ took /\ stored = arg
  /\ acknowledged' = arg /\ arg' = None /\ took' = FALSE
  /\ UNCHANGED stored

\* An error is returned, or the process crashes.
GiveUp ==
  /\ arg # None
  /\ arg' = None /\ took' = FALSE
  /\ UNCHANGED <<stored, acknowledged>>

StoreNext == (\E v \in States : Call(v)) \/ TakePlace \/ ReturnOk \/ GiveUp

StoreSpec == StoreInit /\ [][StoreNext]_storeVars
=============================================================================
