----------------------------- MODULE KVStoreSMR -----------------------------
(***************************************************************************)
(* The key-value store as a replicated state machine                         *)
(* (examples/kvstore_smr/src/smr_impl.rs over its store.rs), called by one   *)
(* task; now is its SystemTime::now.  Keys and values that the store refuses *)
(* are the ones outside Keys and Values; the size of an entry, which follows *)
(* from its value, and the other statistics are left out.  The notifications *)
(* have no subscribers; what is left of them is that each takes a version.   *)
(***************************************************************************)
EXTENDS Integers, FiniteSets

CONSTANTS Keys, Values, None, max_keys, enable_notifications

\* KVStore::new
new == [data |-> [k \in Keys |-> None], version |-> 0, total_operations |-> 0]

KeysOf(s) == {k \in Keys : s.data[k] # None}

\* KVResult; get and exists tell only whether the key is there.
Result(s, found) == [state |-> s, status |-> "ok",
                     answer |-> [success |-> TRUE, found |-> found]]
Error(s)         == [state |-> s, status |-> "ok",
                     answer |-> [success |-> FALSE, found |-> FALSE]]

validate_key(k)   == k \in Keys
validate_value(v) == v \in Values

increment_operation_count(s) == [s EXCEPT !.total_operations = @ + 1]

\* get_version advances the counter.
get_version(s) == [s EXCEPT !.version = @ + 1]

\* A notification is published, with a version of its own.
notify(s) == IF enable_notifications THEN get_version(s) ELSE s

\* ValueEntry::new and ValueEntry::update
Entry(s, k, v, now) ==
  IF s.data[k] = None THEN [value |-> v, version |-> 1, created_at |-> now, updated_at |-> now]
  ELSE [value |-> v, version |-> s.data[k].version + 1,
        created_at |-> s.data[k].created_at, updated_at |-> now]

set(s, k, v, now) ==
  IF \/ ~validate_key(k) \/ ~validate_value(v)
     \/ s.data[k] = None /\ Cardinality(KeysOf(s)) >= max_keys
  THEN Error(s)
  ELSE Result(notify(increment_operation_count([s EXCEPT !.data[k] = Entry(s, k, v, now)])), TRUE)

get(s, k) ==
  IF ~validate_key(k) THEN Error(s)
  ELSE Result(increment_operation_count(s), s.data[k] # None)

exists(s, k) ==
  IF ~validate_key(k) THEN Error(s)
  ELSE Result(increment_operation_count(s), k \in KeysOf(s))

delete(s, k) ==
  IF ~validate_key(k) THEN Error(s)
  ELSE IF s.data[k] = None THEN Result(increment_operation_count(s), FALSE)
  ELSE Result(notify(increment_operation_count([s EXCEPT !.data[k] = None])), TRUE)

apply_command(s, c, now) ==
  CASE c.op = "Set"    -> set(s, c.key, c.value, now)
    [] c.op = "Get"    -> get(s, c.key)
    [] c.op = "Exists" -> exists(s, c.key)
    [] c.op = "Delete" -> delete(s, c.key)

get_all_data(s) == s.data

\* The store is cleared first.
set_all_data(s, data) == [s EXCEPT !.data = data]
set_version(s, v)     == [s EXCEPT !.version = v]

\* get_state, serialize_state
serialize_state(s) == [data |-> get_all_data(s), version |-> s.version]

\* mutant: the version is not part of what is restored
deserialize_state_data(s, b) == [s EXCEPT !.data = b.data]

\* mutant: the store is not cleared first
deserialize_state_merging(s, b) ==
  [s EXCEPT !.data = [k \in Keys |-> IF b.data[k] = None THEN s.data[k] ELSE b.data[k]],
            !.version = b.version]

\* set_state, deserialize_state
deserialize_state(s, b) == set_version(set_all_data(s, b.data), b.version)

\* A clone is a new store with the data and the version copied.
clone(s) == deserialize_state(new, serialize_state(s))

\* create_snapshot of the underlying store, which store() gives access to
create_snapshot(s) == get_version(s)
=============================================================================
