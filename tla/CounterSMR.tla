----------------------------- MODULE CounterSMR -----------------------------
(***************************************************************************)
(* The counter of examples/counter_smr/src/lib.rs: a state machine over      *)
(* machine integers, whose additions and subtractions are checked.           *)
(***************************************************************************)
EXTENDS Integers

CONSTANTS MinInt, MaxInt  \* i64::MIN and i64::MAX

\* new and default
new == [value |-> 0, operation_count |-> 0]

Success(s) == [state |-> s, status |-> "ok", answer |-> [success |-> TRUE, value |-> s.value]]
Error(s)   == [state |-> s, status |-> "ok", answer |-> [success |-> FALSE, value |-> s.value]]

\* checked_add and checked_sub, and what is made of their outcome
Checked(s, value) ==
  IF value \in MinInt..MaxInt THEN Success([s EXCEPT !.value = value]) ELSE Error(s)

apply_command(s, c) ==
  LET counted == [s EXCEPT !.operation_count = @ + 1] IN
  CASE c.op = "Increment" -> Checked(counted, s.value + c.value)
    [] c.op = "Decrement" -> Checked(counted, s.value - c.value)
    [] c.op = "Set"       -> Success([counted EXCEPT !.value = c.value])
    [] c.op = "Get"       -> Success(counted)
    [] c.op = "Reset"     -> Success([counted EXCEPT !.value = 0])

\* serialize_state and deserialize_state carry the whole state.
serialize_state(s)      == s
deserialize_state(s, b) == b
=============================================================================
