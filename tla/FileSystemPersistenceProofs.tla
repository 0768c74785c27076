-------------------- MODULE FileSystemPersistenceProofs --------------------
(***************************************************************************)
(* save_state is atomic across crashes and failures, for any set of states. *)
(***************************************************************************)
EXTENDS FileSystemPersistence, TLAPS

Inv == FilesTypeOK /\ NeverTorn /\ RenamesComplete

\* Nothing is saved at first.
LEMMA InvInit == FilesInit => Inv
BY FilesAssumption DEF FilesInit, Inv, FilesTypeOK, NeverTorn, RenamesComplete, Steps

\* Inv is inductive: a file is renamed only when write_data has filled it.
LEMMA InvNext == Inv /\ [FilesNext]_filesVars => Inv'
<1> SUFFICES ASSUME Inv, [FilesNext]_filesVars PROVE Inv'
  OBVIOUS
<1> USE FilesAssumption DEF Inv, FilesTypeOK, NeverTorn, RenamesComplete, Steps
<1>1. ASSUME NEW v \in States, save_state(v) PROVE Inv'
  BY <1>1 DEF save_state
<1>2. CASE write_open
  BY <1>2 DEF write_open
<1>3. CASE write_data
  BY <1>3 DEF write_data
<1>4. CASE rename
  BY <1>4 DEF rename
<1>5. CASE return_ok
  BY <1>5 DEF return_ok
<1>6. CASE save_fails
  BY <1>6 DEF save_fails
<1>7. CASE load_state
  BY <1>7 DEF load_state
<1>8. CASE crash
  BY <1>8 DEF crash
<1>9. CASE UNCHANGED filesVars
  BY <1>9 DEF filesVars
<1> QED  BY <1>1, <1>2, <1>3, <1>4, <1>5, <1>6, <1>7, <1>8, <1>9 DEF FilesNext

\* Inv holds in every reachable state.
LEMMA InvCorrect == FilesSpec => []Inv
BY InvInit, InvNext, PTL DEF FilesSpec

\* state.dat never holds a partly written state, wherever save_state stops, so
\* initialize can always read back what it finds.
THEOREM NeverTornCorrect == FilesSpec => []NeverTorn
BY InvCorrect, PTL DEF Inv

\* Every step of save_state, load_state or a crash is a step of the register
\* or leaves it alone.
LEMMA StepSimulation == Inv /\ [FilesNext]_filesVars => [Store!StoreNext]_(Store!storeVars)
<1> SUFFICES ASSUME Inv, [FilesNext]_filesVars PROVE [Store!StoreNext]_(Store!storeVars)
  OBVIOUS
<1> USE FilesAssumption DEF Inv, FilesTypeOK, RenamesComplete, Steps, Store!storeVars
<1>1. ASSUME NEW v \in States, save_state(v) PROVE Store!Call(v)
  BY <1>1 DEF save_state, Store!Call
<1>2. CASE write_open
  BY <1>2 DEF write_open
<1>3. CASE write_data
  BY <1>3 DEF write_data
<1>4. CASE rename
  <2>1. Store!TakePlace
    BY <1>4 DEF rename, Store!TakePlace
  <2> QED  BY <2>1 DEF Store!StoreNext
<1>5. CASE return_ok
  <2>1. Store!ReturnOk
    BY <1>5 DEF return_ok, Store!ReturnOk
  <2> QED  BY <2>1 DEF Store!StoreNext
<1>6. CASE save_fails
  <2>1. Store!GiveUp
    BY <1>6 DEF save_fails, Store!GiveUp
  <2> QED  BY <2>1 DEF Store!StoreNext
<1>7. CASE load_state
  BY <1>7 DEF load_state
<1>8. CASE crash
  <2>1. Store!GiveUp
    BY <1>8 DEF crash, Store!GiveUp
  <2> QED  BY <2>1 DEF Store!StoreNext
<1>9. CASE UNCHANGED filesVars
  BY <1>9 DEF filesVars
<1> QED
  BY <1>1, <1>2, <1>3, <1>4, <1>5, <1>6, <1>7, <1>8, <1>9 DEF FilesNext, Store!StoreNext

\* FileSystemPersistence implements the atomic register that the engine's
\* recovery relies on: temporary file and rename, with a crash or an error at
\* any point.
THEOREM StoreRefined == FilesSpec => ImplementsStore
<1>1. FilesInit => Store!StoreInit
  BY DEF FilesInit, Store!StoreInit
<1> QED
  BY <1>1, StepSimulation, InvCorrect, PTL DEF FilesSpec, ImplementsStore, Store!StoreSpec
=============================================================================
