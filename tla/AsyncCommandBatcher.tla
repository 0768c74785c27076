------------------------ MODULE AsyncCommandBatcher ------------------------
(***************************************************************************)
(* AsyncCommandBatcher of rabia-core/src/batching.rs: a task owns a          *)
(* CommandBatcher and takes turns between the channel of commands and a      *)
(* flush timer; clients hold the other ends of its two channels.  The        *)
(* commands sent and not yet received are those numbered calls+1..sent.      *)
(* The handle owns both the sender of commands and the receiver of batches,  *)
(* so the two disappear together.  Nothing is ever sent on its third channel. *)
(* An owner that uses a CommandBatcher without the task has handle = "none". *)
(***************************************************************************)
EXTENDS CommandBatcher

VARIABLES sent,      \* commands put into the channel
          received,  \* batches taken out by next_batch
          handle,    \* "held", "dropped" or "none"
          task       \* "running" or "stopped"

asyncVars == <<vars, sent, received, handle, task>>

AsyncInit ==
  /\ Init
  /\ sent = 0 /\ received = 0
  /\ \/ handle = "held" /\ task = "running"
     \/ handle = "none" /\ task = "stopped"

\* The owner of a CommandBatcher calls it directly.
use_directly ==
  /\ handle = "none"
  /\ Next
  /\ UNCHANGED <<sent, received, handle, task>>

\* add_command of the handle
send_command ==
  /\ handle = "held" /\ sent < MaxCommands
  /\ sent' = sent + 1
  /\ UNCHANGED <<vars, received, handle, task>>

\* next_batch, try_next_batch and next_batch_timeout, when a batch is there
next_batch ==
  /\ handle = "held" /\ received < stats.total_batches
  /\ received' = received + 1
  /\ UNCHANGED <<vars, sent, handle, task>>

drop_handle ==
  /\ handle = "held"
  /\ handle' = "dropped"
  /\ UNCHANGED <<vars, sent, received, task>>

\* batch_tx.send fails, and ends the task, when the receiver is gone.
StopsIfUnheard ==
  task' = IF handle = "dropped" /\ stats'.total_batches > stats.total_batches
          THEN "stopped" ELSE "running"

recv_command(elapsed) ==
  /\ task = "running" /\ calls < sent
  /\ add_command(elapsed)
  /\ StopsIfUnheard
  /\ UNCHANGED <<sent, received, handle>>

\* mutant: a closed and empty channel is polled again
recv_closed_again ==
  /\ task = "running" /\ calls = sent /\ handle = "dropped"
  /\ UNCHANGED asyncVars

recv_closed ==
  /\ task = "running" /\ calls = sent /\ handle = "dropped"
  /\ task' = "stopped"
  /\ UNCHANGED <<vars, sent, received, handle>>

\* mutant: a timer tick flushes a full batch only
tick_full_only ==
  /\ task = "running" /\ Len(buffer) >= current_batch_size
  /\ flush
  /\ StopsIfUnheard
  /\ UNCHANGED <<sent, received, handle>>

\* flush_interval.tick (with an empty buffer it does nothing)
tick ==
  /\ task = "running"
  /\ flush
  /\ StopsIfUnheard
  /\ UNCHANGED <<sent, received, handle>>

AsyncNext ==
  \/ use_directly
  \/ send_command \/ next_batch \/ drop_handle
  \/ \E elapsed \in BOOLEAN : recv_command(elapsed)
  \/ recv_closed \/ tick

\* The task is scheduled and select! polls both branches.
AsyncSpec ==
  /\ AsyncInit /\ [][AsyncNext]_asyncVars
  /\ WF_asyncVars(\E elapsed \in BOOLEAN : recv_command(elapsed))
  /\ WF_asyncVars(recv_closed)
  /\ WF_asyncVars(tick)

-----------------------------------------------------------------------------
\* Whatever has been sent is eventually in a batch or was refused by a full
\* buffer, as long as somebody holds the handle: the timer picks up what the
\* size limit leaves behind.  (At most MaxCommands are sent, so always eventually
\* nothing is left of them.)
EveryCommandBatched ==
  []<>(handle = "dropped" \/ Len(emitted) + stats.commands_dropped >= sent)

\* The task does not outlive its handle, whether it is the closed channel or an
\* undeliverable batch that it notices first.
TaskStops == handle = "dropped" ~> task = "stopped"
=============================================================================
