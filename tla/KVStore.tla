------------------------------ MODULE KVStore ------------------------------
(***************************************************************************)
(* KVStore (rabia-kvstore/src/store.rs), shared by several client tasks.     *)
(* Each access to the DashMap, the version counter or the notification bus   *)
(* is one step; clients interleave between them.  Walks over the whole map   *)
(* (clear, create_snapshot, restore_snapshot) lock one shard at a time: here *)
(* every key is a shard of its own.  Timestamps and sizes are left out.      *)
(***************************************************************************)
EXTENDS Integers, Sequences, FiniteSets

CONSTANTS Clients, Keys, Values, None,
          Calls,      \* argument lists of apply_batch (a direct call is a list of one)
          max_keys, enable_notifications,
          MaxCalls    \* bound on calls

Operation == [op : {"set"}, key : Keys, value : Values]
             \cup [op : {"delete"}, key : Keys]
             \cup [op : {"get", "clear", "snapshot", "restore", "invalid"}]

Entry == [value : Values, version : Nat]
Map   == [Keys -> Entry \cup {None}]
Snapshot == [data : Map, version : Nat]
Event == [type : {"Created", "Updated", "Deleted", "Cleared"}, key : Keys \cup {"*"},
          old : Values \cup {None}, new : Values \cup {None}, version : Nat]

\* restore_snapshot is only called directly.
ASSUME StoreAssumption ==
  /\ IsFiniteSet(Clients) /\ Clients # {} /\ IsFiniteSet(Keys)
  /\ max_keys \in Nat /\ MaxCalls \in Nat /\ enable_notifications \in BOOLEAN
  /\ None \notin Values \cup Entry \cup Snapshot \cup Event
  /\ \A ops \in Calls :
       /\ ops \in Seq(Operation) /\ ops # <<>>
       /\ \A i \in 1..Len(ops) : ops[i].op = "restore" => Len(ops) = 1

VARIABLES
  data,              \* DashMap: Keys -> Entry, None where absent
  version,           \* the store's version counter
  total_operations,
  snapshot,          \* the snapshot taken last: [data, version], or None
  events,            \* notifications published, in order
  todo, stage,       \* per client: operations left, and where it is in the first
  event, left, copy, \* per client: notification to send, keys a walk has left, its snapshot
  calls,             \* calls made
  restored,          \* history: has a snapshot been restored?
  overlapped         \* history: did a call begin while another one was under way?

vars == <<data, version, total_operations, snapshot, events, todo, stage, event,
          left, copy, calls, restored, overlapped>>
shared == <<data, version, total_operations, snapshot, events, restored>>
rest   == <<calls, overlapped>>

Empty == [k \in Keys |-> None]

Init ==
  /\ data = Empty /\ version = 0 /\ total_operations = 0 /\ snapshot = None
  /\ events = <<>> /\ calls = 0 /\ restored = FALSE /\ overlapped = FALSE
  /\ todo = [c \in Clients |-> <<>>]
  /\ stage = [c \in Clients |-> "idle"]
  /\ event = [c \in Clients |-> None]
  /\ left = [c \in Clients |-> {}]
  /\ copy = [c \in Clients |-> [data |-> Empty, version |-> 0]]

\* DashMap::len
KeysOf(d) == {k \in Keys : d[k] # None}
len(d)    == Cardinality(KeysOf(d))

OldValue(k) == IF data[k] = None THEN None ELSE data[k].value

Op(c)        == Head(todo[c])
At(c, s, op) == stage[c] = s /\ Op(c).op = op

\* The notification that set, delete or clear is going to publish
Change(type, k, old, new) ==
  [type |-> type, key |-> k, old |-> old, new |-> new, version |-> 0]

Quiet == \A c \in Clients : stage[c] = "idle"

\* apply_batch begins, or a direct call (only an existing snapshot is restored)
apply_batch(c, ops) ==
  /\ stage[c] = "idle" /\ calls < MaxCalls
  /\ ops = <<[op |-> "restore"]>> => snapshot # None
  /\ todo' = [todo EXCEPT ![c] = ops]
  /\ stage' = [stage EXCEPT ![c] = "start"]
  /\ calls' = calls + 1
  /\ overlapped' = (overlapped \/ ~Quiet)
  /\ UNCHANGED <<shared, event, left, copy>>

\* The operation of c is over: on with the next one, or the call returns Ok.
OpDone(c) ==
  /\ todo' = [todo EXCEPT ![c] = Tail(@)]
  /\ stage' = [stage EXCEPT ![c] = IF Len(todo[c]) = 1 THEN "idle" ELSE "start"]
  /\ event' = [event EXCEPT ![c] = None]

\* The operation failed and `?' makes the whole call return the error.
CallFails(c) ==
  /\ todo' = [todo EXCEPT ![c] = <<>>]
  /\ stage' = [stage EXCEPT ![c] = "idle"]

Goto(c, s) == stage' = [stage EXCEPT ![c] = s]

\* validate_key, validate_value
invalid(c) ==
  /\ At(c, "start", "invalid")
  /\ CallFails(c)
  /\ UNCHANGED <<shared, event, left, copy, rest>>

-----------------------------------------------------------------------------
(* set                                                                      *)

\* get_mut: an entry that is there is updated under the shard's lock.
set_lookup(c) ==
  LET k == Op(c).key
      v == Op(c).value
  IN
  /\ At(c, "start", "set")
  /\ \/ /\ data[k] = None
        /\ Goto(c, "room")
        /\ UNCHANGED <<data, event>>
     \/ /\ data[k] # None
        /\ data' = [data EXCEPT ![k] = [value |-> v, version |-> @.version + 1]]
        /\ event' = [event EXCEPT ![c] = Change("Updated", k, OldValue(k), v)]
        /\ Goto(c, "count")
  /\ UNCHANGED <<version, total_operations, snapshot, events, restored, todo, left, copy, rest>>

\* mutant: off by one
HasRoom_one_more == len(data) <= max_keys

\* DashMap::len adds up the sizes of the shards one after the other; it is one
\* atomic read here.
HasRoom == len(data) < max_keys

set_room(c) ==
  /\ At(c, "room", "set")
  /\ \/ HasRoom /\ Goto(c, "insert") /\ UNCHANGED todo
     \/ ~HasRoom /\ CallFails(c)
  /\ UNCHANGED <<shared, event, left, copy, rest>>

set_insert(c) ==
  LET k == Op(c).key
      v == Op(c).value
  IN
  /\ At(c, "insert", "set")
  /\ data' = [data EXCEPT ![k] = [value |-> v, version |-> 1]]
  /\ event' = [event EXCEPT ![c] = Change("Created", k, None, v)]
  /\ Goto(c, "count")
  /\ UNCHANGED <<version, total_operations, snapshot, events, restored, todo, left, copy, rest>>

-----------------------------------------------------------------------------
(* The other operations                                                     *)

\* mutant: nothing is published for a deletion
delete_silent(c) ==
  /\ At(c, "start", "delete")
  /\ data' = [data EXCEPT ![Op(c).key] = None]
  /\ Goto(c, "count")
  /\ UNCHANGED <<version, total_operations, snapshot, events, restored, event, todo, left,
                 copy, rest>>

delete(c) ==
  LET k == Op(c).key IN
  /\ At(c, "start", "delete")
  /\ data' = [data EXCEPT ![k] = None]
  /\ event' = [event EXCEPT ![c] = IF data[k] = None THEN None
                                   ELSE Change("Deleted", k, OldValue(k), None)]
  /\ Goto(c, "count")
  /\ UNCHANGED <<version, total_operations, snapshot, events, restored, todo, left, copy, rest>>

\* get, get_with_metadata, exists, keys: no effect but the count
get(c) ==
  /\ At(c, "start", "get")
  /\ Goto(c, "count")
  /\ UNCHANGED <<shared, event, todo, left, copy, rest>>

\* clear reads the size first, then empties shard after shard.
clear(c) ==
  /\ At(c, "start", "clear")
  /\ event' = [event EXCEPT ![c] = IF len(data) = 0 THEN None
                                   ELSE Change("Cleared", "*", None, None)]
  /\ left' = [left EXCEPT ![c] = Keys]
  /\ Goto(c, "clearing")
  /\ UNCHANGED <<shared, todo, copy, rest>>

clear_shard(c, k) ==
  /\ stage[c] = "clearing" /\ k \in left[c]
  /\ data' = [data EXCEPT ![k] = None]
  /\ left' = [left EXCEPT ![c] = @ \ {k}]
  /\ UNCHANGED <<version, total_operations, snapshot, events, restored, todo, stage, event,
                 copy, rest>>

clear_done(c) ==
  /\ At(c, "clearing", "clear") /\ left[c] = {}
  /\ Goto(c, "count")
  /\ UNCHANGED <<shared, event, todo, left, copy, rest>>

create_snapshot(c) ==
  /\ At(c, "start", "snapshot")
  /\ left' = [left EXCEPT ![c] = Keys]
  /\ copy' = [copy EXCEPT ![c].data = Empty]
  /\ Goto(c, "scanning")
  /\ UNCHANGED <<shared, event, todo, rest>>

scan_shard(c, k) ==
  /\ stage[c] = "scanning" /\ k \in left[c]
  /\ copy' = [copy EXCEPT ![c].data[k] = data[k]]
  /\ left' = [left EXCEPT ![c] = @ \ {k}]
  /\ UNCHANGED <<shared, event, todo, stage, rest>>

\* The version of a snapshot is drawn from the counter of the notifications.
snapshot_done(c) ==
  /\ At(c, "scanning", "snapshot") /\ left[c] = {}
  /\ snapshot' = [data |-> copy[c].data, version |-> version]
  /\ version' = version + 1
  /\ OpDone(c)
  /\ UNCHANGED <<data, total_operations, events, restored, left, copy, rest>>

\* calculate_checksum hashes the entries in the iteration order of the HashMap:
\* for a snapshot of several keys that was deserialized into another HashMap
\* the order, and so the checksum, may differ.
ChecksumMayDiffer(s) == len(s.data) >= 2

restore_snapshot(c) ==
  /\ At(c, "start", "restore")
  /\ \/ /\ ChecksumMayDiffer(snapshot)
        /\ CallFails(c)
        /\ UNCHANGED <<left, copy, restored>>
     \/ /\ copy' = [copy EXCEPT ![c] = snapshot]
        /\ left' = [left EXCEPT ![c] = Keys]
        /\ restored' = TRUE
        /\ Goto(c, "clearing")
        /\ UNCHANGED todo
  /\ UNCHANGED <<data, version, total_operations, snapshot, events, event, rest>>

restore_cleared(c) ==
  /\ At(c, "clearing", "restore") /\ left[c] = {}
  /\ left' = [left EXCEPT ![c] = KeysOf(copy[c].data)]
  /\ Goto(c, "filling")
  /\ UNCHANGED <<shared, event, todo, copy, rest>>

fill_shard(c, k) ==
  /\ stage[c] = "filling" /\ k \in left[c]
  /\ data' = [data EXCEPT ![k] = copy[c].data[k]]
  /\ left' = [left EXCEPT ![c] = @ \ {k}]
  /\ UNCHANGED <<version, total_operations, snapshot, events, restored, todo, stage, event,
                 copy, rest>>

restore_done(c) ==
  /\ stage[c] = "filling" /\ left[c] = {}
  /\ version' = copy[c].version
  /\ OpDone(c)
  /\ UNCHANGED <<data, total_operations, snapshot, events, restored, left, copy, rest>>

-----------------------------------------------------------------------------
(* The end of set, delete, clear and the reads                              *)

\* mutant: the version is read but not advanced
increment_operation_count_stuck(c) ==
  /\ stage[c] = "count"
  /\ total_operations' = total_operations + 1
  /\ IF event[c] # None
     THEN event' = [event EXCEPT ![c].version = version] /\ Goto(c, "publish")
          /\ UNCHANGED todo
     ELSE OpDone(c)
  /\ UNCHANGED <<data, version, snapshot, events, restored, left, copy, rest>>

\* increment_operation_count, and get_version for the notification
increment_operation_count(c) ==
  LET notifies == enable_notifications /\ event[c] # None IN
  /\ stage[c] = "count"
  /\ total_operations' = total_operations + 1
  /\ \/ /\ notifies
        /\ event' = [event EXCEPT ![c].version = version]
        /\ version' = version + 1
        /\ Goto(c, "publish")
        /\ UNCHANGED todo
     \/ ~notifies /\ OpDone(c) /\ UNCHANGED version
  /\ UNCHANGED <<data, snapshot, events, restored, left, copy, rest>>

publish(c) ==
  /\ stage[c] = "publish"
  /\ events' = Append(events, event[c])
  /\ OpDone(c)
  /\ UNCHANGED <<data, version, total_operations, snapshot, restored, left, copy, rest>>

Next ==
  \E c \in Clients :
    \/ \E ops \in Calls : apply_batch(c, ops)
    \/ invalid(c) \/ set_lookup(c) \/ set_room(c) \/ set_insert(c)
    \/ delete(c) \/ get(c)
    \/ clear(c) \/ clear_done(c)
    \/ create_snapshot(c) \/ snapshot_done(c)
    \/ restore_snapshot(c) \/ restore_cleared(c) \/ restore_done(c)
    \/ \E k \in Keys : clear_shard(c, k) \/ scan_shard(c, k) \/ fill_shard(c, k)
    \/ increment_operation_count(c) \/ publish(c)

Spec == Init /\ [][Next]_vars

-----------------------------------------------------------------------------
(* Properties                                                               *)

\* The events that determine the value of key k, as positions in `events'.
About(k) == {i \in 1..Len(events) : events[i].key = k \/ events[i].type = "Cleared"}
NewOf(i) == events[i].new

\* As long as no two calls overlap, as the replicated state machine uses the store,
\* the notifications are a complete record: the last one about a key tells its
\* value, and each reports as old value what the one before left behind.
EventsTellState ==
  enable_notifications /\ Quiet /\ ~overlapped /\ ~restored =>
    \A k \in Keys :
      /\ \A i \in About(k) :
           (\A j \in About(k) : j <= i) => OldValue(k) = NewOf(i)
      /\ About(k) = {} => data[k] = None
      /\ \A i \in About(k) : events[i].type # "Cleared" =>
           LET earlier == {j \in About(k) : j < i} IN
           IF earlier = {} THEN events[i].old = None
           ELSE \E j \in earlier : /\ \A x \in earlier : x <= j
                                   /\ events[i].old = NewOf(j)

\* `Maximum number of keys to store': set checks the limit and inserts in two
\* steps, so the limit holds while calls do not overlap; clients that run
\* concurrently may each have seen the last free place, and no more than that.
KeysBounded ==
  /\ ~overlapped => len(data) <= max_keys
  /\ ~restored => len(data) <= max_keys + Cardinality(Clients) - 1

\* As long as nothing is restored, no two notifications carry the same version,
\* whatever clients run concurrently.
VersionsUnique ==
  ~restored => \A i, j \in 1..Len(events) :
                 events[i].version = events[j].version => i = j
=============================================================================
