----------------------------- MODULE MCServices -----------------------------
(***************************************************************************)
(* The parts around the engine that run by themselves: the batcher, the      *)
(* file that keeps the engine's state, and the bus that tells about changes. *)
(* They share nothing, so a behaviour is one of one of them, which the       *)
(* variable service names; the others stay in their initial state.           *)
(***************************************************************************)
EXTENDS AsyncCommandBatcher, FileSystemPersistence, NotificationBus

CONSTANT Services

VARIABLE service

Config(size, capacity, adaptive) ==
  [max_batch_size |-> size, buffer_capacity |-> capacity, adaptive |-> adaptive]

\* Room for a batch, no room for a batch, a batch of one, and a size that the
\* adaptive code may lower.
SmallConfigs    == {Config(2, 3, FALSE), Config(3, 2, TRUE), Config(1, 1, TRUE), Config(12, 20, TRUE)}
AdaptiveConfigs == {Config(12, 20, TRUE)}

\* The batcher is set up in all ways only where it is the one that runs.
ServicesInit ==
  /\ service \in Services
  /\ AsyncInit /\ FilesInit /\ BusInit
  /\ service # "batcher" => handle = "none" /\ config = CHOOSE c \in Configs : TRUE

ServicesNext ==
  \/ service = "batcher" /\ AsyncNext /\ UNCHANGED <<service, filesVars, busVars>>
  \/ service = "files" /\ FilesNext /\ UNCHANGED <<service, asyncVars, busVars>>
  \/ service = "bus" /\ BusNext /\ UNCHANGED <<service, asyncVars, filesVars>>

\* The fairness of AsyncSpec and of the bus
ServicesSpec ==
  /\ ServicesInit /\ [][ServicesNext]_<<service, asyncVars, filesVars, busVars>>
  /\ WF_asyncVars(\E elapsed \in BOOLEAN : recv_command(elapsed))
  /\ WF_asyncVars(recv_closed)
  /\ WF_asyncVars(tick)
  /\ \A t \in Threads : WF_busVars(Step(t))
=============================================================================
