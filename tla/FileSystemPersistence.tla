----------------------- MODULE FileSystemPersistence -----------------------
(***************************************************************************)
(* rabia-persistence/src/file_system.rs: save_state writes a temporary file *)
(* and renames it over state.dat.  The process may crash between any two    *)
(* system calls and any of them may fail; the file system keeps what was    *)
(* written (a power failure that loses cached pages is not modelled: the    *)
(* code never calls fsync).  The engine awaits each save before the next    *)
(* one, so there is one save at a time.                                      *)
(***************************************************************************)
CONSTANTS States,  \* serialized engine states
          None,    \* a file that does not exist
          Torn     \* a file cut short: empty or partly written

ASSUME FilesAssumption == None \notin States /\ Torn \notin States /\ Torn # None

VARIABLES
  state_file,   \* contents of state.dat
  temp_file,    \* contents of state.tmp
  arg,          \* argument of the save in progress, or None
  step,         \* "idle", or the system call save_state makes next
  acknowledged, \* argument of the last save that returned Ok
  loaded        \* what the last load_state returned

filesVars == <<state_file, temp_file, arg, step, acknowledged, loaded>>

FilesInit ==
  /\ state_file = None /\ temp_file = None
  /\ arg = None /\ step = "idle"
  /\ acknowledged = None /\ loaded = None

save_state(v) ==
  /\ step = "idle"
  /\ arg' = v /\ step' = "write"
  /\ UNCHANGED <<state_file, temp_file, acknowledged, loaded>>

\* fs::write: the file is created or truncated, then filled.
write_open ==
  /\ step = "write"
  /\ temp_file' = Torn /\ step' = "flush"
  /\ UNCHANGED <<state_file, arg, acknowledged, loaded>>

\* mutant: the rename does not wait for the data
write_data_partly ==
  /\ step = "flush" /\ step' = "rename"
  /\ UNCHANGED <<state_file, temp_file, arg, acknowledged, loaded>>

write_data ==
  /\ step = "flush"
  /\ temp_file' = arg /\ step' = "rename"
  /\ UNCHANGED <<state_file, arg, acknowledged, loaded>>

\* mutant: reports success before the rename
rename_early ==
  /\ step = "rename"
  /\ acknowledged' = arg /\ arg' = None /\ step' = "idle"
  /\ UNCHANGED <<state_file, temp_file, loaded>>

rename ==
  /\ step = "rename"
  /\ state_file' = temp_file /\ temp_file' = None
  /\ step' = "return"
  /\ UNCHANGED <<arg, acknowledged, loaded>>

return_ok ==
  /\ step = "return"
  /\ acknowledged' = arg /\ arg' = None /\ step' = "idle"
  /\ UNCHANGED <<state_file, temp_file, loaded>>

\* One of the system calls fails: save_state returns an error at once and
\* leaves the temporary file behind.
save_fails ==
  /\ step \in {"write", "flush", "rename"}
  /\ arg' = None /\ step' = "idle"
  /\ UNCHANGED <<state_file, temp_file, acknowledged, loaded>>

\* load_state (initialize calls it before anything is saved, after a restart)
load_state ==
  /\ step = "idle"
  /\ loaded' = state_file
  /\ UNCHANGED <<state_file, temp_file, arg, step, acknowledged>>

crash ==
  /\ step # "idle"
  /\ arg' = None /\ step' = "idle"
  /\ UNCHANGED <<state_file, temp_file, acknowledged, loaded>>

FilesNext ==
  \/ \E v \in States : save_state(v)
  \/ write_open \/ write_data \/ rename \/ return_ok \/ save_fails
  \/ load_state \/ crash

FilesSpec == FilesInit /\ [][FilesNext]_filesVars

-----------------------------------------------------------------------------
Steps == {"idle", "write", "flush", "rename", "return"}

\* The file contents and the program counter of save_state.
FilesTypeOK ==
  /\ state_file \in States \cup {None, Torn}
  /\ temp_file \in States \cup {None, Torn}
  /\ arg \in States \cup {None}
  /\ step \in Steps
  /\ acknowledged \in States \cup {None}
  /\ loaded \in States \cup {None, Torn}

\* Whenever a crash or a failure comes, state.dat is absent or a complete
\* state, so EngineState::from_bytes never meets a partly written file.
NeverTorn == state_file # Torn /\ loaded # Torn

\* Why NeverTorn is inductive: the file to be renamed is complete.
RenamesComplete ==
  /\ step = "idle" <=> arg = None
  /\ step = "rename" => temp_file = arg
  /\ step = "return" => state_file = arg

Store == INSTANCE StateStore WITH
           stored <- state_file, took <- (step = "return")

\* Files with crashes and failures implement the register StateStore: the
\* rename is the instant at which a save takes place, a save that returned Ok
\* is what the next load sees, and one cut short changed nothing or everything.
ImplementsStore == Store!StoreSpec
=============================================================================
