--------------------------- MODULE CommandBatcher ---------------------------
(***************************************************************************)
(* CommandBatcher of rabia-core/src/batching.rs: a bounded buffer that       *)
(* groups commands into batches by size and by time, used by its owner       *)
(* alone.  Commands are numbered in the order of their add_command calls.    *)
(* Time enters as the outcome of `elapsed >= max_batch_delay'.               *)
(***************************************************************************)
EXTENDS Integers, Sequences

CONSTANTS Configs,      \* BatchConfigs: records max_batch_size, buffer_capacity, adaptive
          MaxCommands,  \* bound on add_command calls
          MaxUpdates    \* bound on update_config calls

ASSUME BatcherAssumption ==
  /\ Configs \subseteq [max_batch_size : Nat, buffer_capacity : Nat, adaptive : BOOLEAN]
  /\ MaxCommands \in Nat /\ MaxUpdates \in Nat

VARIABLES
  config,
  buffer,
  adaptive_batch_size,
  stats,     \* BatchStats (average_batch_size is a quotient of two others)
  calls,     \* commands offered so far
  accepted,  \* history: commands add_command did not refuse
  emitted,   \* history: commands of the batches returned, in order
  updates

vars == <<config, buffer, adaptive_batch_size, stats, calls, accepted, emitted, updates>>

NoStats == [total_commands |-> 0, total_batches |-> 0, commands_dropped |-> 0,
            flush_timeouts |-> 0, adaptive_adjustments |-> 0]

Init ==
  /\ config \in Configs
  /\ buffer = <<>>
  /\ adaptive_batch_size = config.max_batch_size
  /\ stats = NoStats
  /\ calls = 0 /\ accepted = <<>> /\ emitted = <<>> /\ updates = 0

Least(a, b)    == IF a <= b THEN a ELSE b
Greatest(a, b) == IF a >= b THEN a ELSE b

current_batch_size == IF config.adaptive THEN adaptive_batch_size ELSE config.max_batch_size

record_batch(st, n) == [st EXCEPT !.total_commands = @ + n, !.total_batches = @ + 1]

\* size_ratio is total_batches / (flush_timeouts + 1), compared with 2 and 1/2.
adjust_adaptive_batch_size(st) ==
  LET grow   == /\ st.total_batches > 2 * (st.flush_timeouts + 1)
                /\ adaptive_batch_size < config.max_batch_size
      shrink == /\ 2 * st.total_batches < st.flush_timeouts + 1
                /\ adaptive_batch_size > 10
  IN  IF grow
      THEN /\ adaptive_batch_size' = Least((adaptive_batch_size * 11) \div 10,
                                           config.max_batch_size)
           /\ stats' = [st EXCEPT !.adaptive_adjustments = @ + 1]
      ELSE IF shrink
      THEN /\ adaptive_batch_size' = Greatest((adaptive_batch_size * 9) \div 10, 10)
           /\ stats' = [st EXCEPT !.adaptive_adjustments = @ + 1]
      ELSE UNCHANGED adaptive_batch_size /\ stats' = st

\* mutant: the whole buffer is cleared whatever the batch holds
flush_batch_clearing(queue, st) ==
  LET n == Least(current_batch_size, Len(queue)) IN
  /\ emitted' = emitted \o SubSeq(queue, 1, n)
  /\ buffer' = <<>>
  /\ stats' = record_batch(st, n)
  /\ UNCHANGED adaptive_batch_size

\* mutant: the statistics count the batch size aimed at
flush_batch_miscounting(queue, st) ==
  LET n == Least(current_batch_size, Len(queue)) IN
  /\ emitted' = emitted \o SubSeq(queue, 1, n)
  /\ buffer' = SubSeq(queue, n + 1, Len(queue))
  /\ stats' = record_batch(st, current_batch_size)
  /\ UNCHANGED adaptive_batch_size

\* flush_batch on the buffer `queue' with statistics st
flush_batch(queue, st) ==
  LET n    == Least(current_batch_size, Len(queue))
      done == record_batch(st, n)
  IN
  /\ emitted' = emitted \o SubSeq(queue, 1, n)
  /\ buffer' = SubSeq(queue, n + 1, Len(queue))
  /\ IF config.adaptive THEN adjust_adaptive_batch_size(done)
     ELSE UNCHANGED adaptive_batch_size /\ stats' = done

full(queue) == Len(queue) >= config.buffer_capacity

\* mutant: the size check comes before the command is buffered
add_command_late(elapsed) ==
  /\ calls < MaxCommands
  /\ calls' = calls + 1
  /\ ~full(buffer)
  /\ accepted' = Append(accepted, calls')
  /\ IF Len(buffer) >= current_batch_size
     THEN flush_batch(Append(buffer, calls'), stats)
     ELSE /\ buffer' = Append(buffer, calls')
          /\ UNCHANGED <<emitted, adaptive_batch_size, stats>>
  /\ UNCHANGED <<config, updates>>

add_command(elapsed) ==
  LET queue == Append(buffer, calls + 1) IN
  /\ calls < MaxCommands
  /\ calls' = calls + 1
  /\ \/ /\ full(buffer)
        /\ stats' = [stats EXCEPT !.commands_dropped = @ + 1]
        /\ UNCHANGED <<buffer, adaptive_batch_size, accepted, emitted>>
     \/ /\ ~full(buffer)
        /\ accepted' = Append(accepted, calls + 1)
        /\ \/ /\ Len(queue) >= current_batch_size
              /\ flush_batch(queue, stats)
           \/ /\ Len(queue) < current_batch_size /\ elapsed
              /\ flush_batch(queue, [stats EXCEPT !.flush_timeouts = @ + 1])
           \/ /\ Len(queue) < current_batch_size /\ ~elapsed
              /\ buffer' = queue
              /\ UNCHANGED <<adaptive_batch_size, stats, emitted>>
  /\ UNCHANGED <<config, updates>>

flush ==
  /\ buffer # <<>>
  /\ flush_batch(buffer, stats)
  /\ UNCHANGED <<config, calls, accepted, updates>>

update_config(c) ==
  /\ updates < MaxUpdates
  /\ updates' = updates + 1
  /\ adaptive_batch_size' = c.max_batch_size
  /\ config' = c
  /\ UNCHANGED <<buffer, stats, calls, accepted, emitted>>

Next ==
  \/ \E elapsed \in BOOLEAN : add_command(elapsed)
  \/ flush
  \/ \E c \in Configs : update_config(c)

Spec == Init /\ [][Next]_vars

-----------------------------------------------------------------------------
(* Properties                                                               *)

\* BatchStats counts in usize; the buffer holds commands.
TypeOK ==
  /\ config \in Configs
  /\ buffer \in Seq(Nat) /\ accepted \in Seq(Nat) /\ emitted \in Seq(Nat)
  /\ adaptive_batch_size \in Nat
  /\ stats \in [total_commands : Nat, total_batches : Nat, commands_dropped : Nat,
                flush_timeouts : Nat, adaptive_adjustments : Nat]
  /\ calls \in Nat /\ updates \in Nat

\* Every command that was accepted is in a batch that was returned or still in
\* the buffer, once, and in the order of the calls, across partial flushes and
\* changes of the configuration.
NothingLost == accepted = emitted \o buffer

\* The statistics agree with what happened: batched, waiting and dropped
\* commands add up to the calls made.
StatsAddUp ==
  /\ stats.total_commands = Len(emitted)
  /\ stats.total_commands + Len(buffer) + stats.commands_dropped = calls

\* As long as the configuration is not replaced, add_command leaves less than a
\* full batch behind: a flush always empties the buffer, and with room for a whole
\* batch in it no command is ever refused.
FlushEmpties ==
  updates = 0 /\ config.max_batch_size > 0 =>
    /\ Len(buffer) < current_batch_size
    /\ config.buffer_capacity >= config.max_batch_size => stats.commands_dropped = 0

\* "decrease if we're often flushing due to timeout", as the comment in
\* adjust_adaptive_batch_size says, and "Enable adaptive batching based on load",
\* as BatchConfig says of `adaptive': where all of five or more batches were timed
\* flushes and the batch size is above the least one, ten, it has been lowered.
AdaptsToTimeouts ==
  /\ config.adaptive /\ config.max_batch_size > 10 /\ updates = 0
  /\ stats.total_batches >= 5 /\ stats.flush_timeouts = stats.total_batches
  => adaptive_batch_size < config.max_batch_size

\* Why AdaptsToTimeouts fails, for the proofs: every timed flush is a batch too, so
\* the ratio of batches to timeouts is never below one half, the batch size is
\* never lowered, and so it is never raised either.
NeverAdapts ==
  /\ adaptive_batch_size = config.max_batch_size
  /\ stats.adaptive_adjustments = 0
  /\ stats.flush_timeouts <= stats.total_batches
=============================================================================
