-------------------------- MODULE KVStateMachines --------------------------
(***************************************************************************)
(* The two state machines with textual commands that are written for the    *)
(* engine's own interface: InMemoryStateMachine                              *)
(* (rabia-core/src/state_machine.rs) answers a command it cannot parse, and  *)
(* SimpleKVStateMachine (examples/custom_state_machine.rs) fails on it, which *)
(* ends the batch.  A command is a record of what parsing finds in the text  *)
(* that String::from_utf8_lossy makes of its bytes, and utf8 says whether    *)
(* the bytes were text in the first place; "malformed" stands for an unknown *)
(* word or a wrong number of arguments.                                      *)
(***************************************************************************)
EXTENDS Integers, FiniteSets

CONSTANTS Keys, None

NoData == [k \in Keys |-> None]

Ok(s, text) == [state |-> s, status |-> "ok", answer |-> [success |-> TRUE, text |-> text]]

-----------------------------------------------------------------------------
(* InMemoryStateMachine                                                     *)

in_memory_new == [data |-> NoData, version |-> 0]

\* Bytes that are no text are repaired, and the command is carried out.
in_memory_apply_command(s, c) ==
  CASE c.op = "SET"       -> Ok([data |-> [s.data EXCEPT ![c.key] = c.value],
                                 version |-> s.version + 1], "OK")
    [] c.op = "GET"       -> Ok(s, s.data[c.key])
    [] c.op = "DEL"       -> IF s.data[c.key] = None THEN Ok(s, None)
                             ELSE Ok([data |-> [s.data EXCEPT ![c.key] = None],
                                      version |-> s.version + 1], "OK")
    [] c.op = "malformed" -> [Ok(s, "ERROR") EXCEPT !.answer.success = FALSE]

\* create_snapshot
in_memory_snapshot(s) == [data |-> s.data, version |-> s.version]

\* restore_snapshot of an undamaged snapshot
in_memory_restore(s, b) == [s EXCEPT !.data = b.data, !.version = b.version]

-----------------------------------------------------------------------------
(* SimpleKVStateMachine                                                     *)

simple_new == [data |-> NoData, operation_count |-> 0]

Err(s) == [state |-> s, status |-> "err", answer |-> [success |-> FALSE, text |-> None]]

\* The keys of a hash map, as the pairs of which the first does not come after the
\* second: order[k] < order[l] says that the map comes across k before l.
Listed(S, order) == {pair \in S \X S : pair[1] = pair[2] \/ order[pair[1]] < order[pair[2]]}

\* apply_command and, once the bytes are text, execute_command
simple_apply_command(state, c, order) ==
  LET s    == [state EXCEPT !.operation_count = @ + 1]
      keys == {k \in Keys : s.data[k] # None}
  IN
  IF ~c.utf8 THEN Err(state)
  ELSE CASE c.op = "SET"       -> Ok([s EXCEPT !.data[c.key] = c.value], c.value)
         [] c.op = "GET"       -> Ok(s, s.data[c.key])
         [] c.op = "DEL"       -> Ok([s EXCEPT !.data[c.key] = None], s.data[c.key])
         [] c.op = "COUNT"     -> Ok(s, Cardinality(keys))
         [] c.op = "LIST"      -> Ok(s, Listed(keys, order))
         [] c.op = "malformed" -> Err(s)

\* create_snapshot and restore_snapshot carry the whole machine.
simple_snapshot(s)   == s
simple_restore(s, b) == b
=============================================================================
