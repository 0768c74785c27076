--------------------------- MODULE KVStoreProofs ---------------------------
(***************************************************************************)
(* What the key-value store promises its clients, for every number of        *)
(* clients, keys and calls: its notifications carry distinct versions, its    *)
(* size is bounded however calls interleave, and while calls do not overlap   *)
(* the notifications tell its state.                                         *)
(***************************************************************************)
EXTENDS KVStore, FiniteSetTheorems, SequenceTheorems, TLAPS

Stages == {"idle", "start", "room", "insert", "count", "publish", "clearing", "scanning",
           "filling"}

TypeOK ==
  /\ data \in Map
  /\ version \in Nat
  /\ total_operations \in Nat
  /\ snapshot \in Snapshot \cup {None}
  /\ events \in Seq(Event)
  /\ todo \in [Clients -> Seq(Operation)]
  /\ stage \in [Clients -> Stages]
  /\ event \in [Clients -> Event \cup {None}]
  /\ left \in [Clients -> SUBSET Keys]
  /\ copy \in [Clients -> Snapshot]
  /\ calls \in Nat
  /\ restored \in BOOLEAN
  /\ overlapped \in BOOLEAN

\* Where a client can be in its operation.
PlacedFor(c) ==
  /\ stage[c] # "idle" => todo[c] # <<>>
  /\ \A i \in 1..Len(todo[c]) : todo[c][i].op = "restore" =>
       Len(todo[c]) = 1 /\ snapshot \in Snapshot
  /\ stage[c] = "publish" => event[c] \in Event
  /\ stage[c] = "filling" => Op(c).op = "restore" /\ restored
  /\ stage[c] = "clearing" => Op(c).op \in {"clear", "restore"}
  /\ stage[c] = "clearing" /\ Op(c).op = "restore" => restored

Placed == \A c \in Clients : PlacedFor(c)

Basic == TypeOK /\ Placed

-----------------------------------------------------------------------------
(* Types                                                                    *)

\* What the arguments of an operation are.
LEMMA Arguments ==
  ASSUME NEW o \in Operation
  PROVE  /\ o.op = "set" => o.key \in Keys /\ o.value \in Values
         /\ o.op = "delete" => o.key \in Keys
BY DEF Operation

\* The operation a client is in.
LEMMA Current ==
  ASSUME Basic, NEW c \in Clients, stage[c] # "idle"
  PROVE  /\ todo[c] \in Seq(Operation) /\ Len(todo[c]) >= 1
         /\ Op(c) \in Operation /\ Op(c) = todo[c][1]
         /\ Op(c).op = "restore" => Len(todo[c]) = 1 /\ snapshot \in Snapshot
         /\ Tail(todo[c]) \in Seq(Operation)
         /\ Len(todo[c]) # 1 => Tail(todo[c]) # <<>>
         /\ Len(Tail(todo[c])) = Len(todo[c]) - 1
         /\ \A i \in 1..Len(Tail(todo[c])) : Tail(todo[c])[i] = todo[c][i + 1]
<1>1. todo[c] \in Seq(Operation) /\ todo[c] # <<>>
  BY DEF Basic, TypeOK, Placed, PlacedFor
<1>2. Len(todo[c]) >= 1 /\ Op(c) = todo[c][1] /\ 1 \in 1..Len(todo[c])
  BY <1>1 DEF Op
<1>3. todo[c][1].op = "restore" => Len(todo[c]) = 1 /\ snapshot \in Snapshot
  BY <1>2 DEF Basic, Placed, PlacedFor
<1>4. /\ Tail(todo[c]) \in Seq(Operation) /\ Len(Tail(todo[c])) = Len(todo[c]) - 1
      /\ \A i \in 1..Len(Tail(todo[c])) : Tail(todo[c])[i] = todo[c][i + 1]
  BY <1>1, HeadTailProperties
<1>5. Op(c) \in Operation
  BY <1>1, <1>2, ElementOfSeq
<1>6. Len(todo[c]) # 1 => Tail(todo[c]) # <<>>
  <2> SUFFICES ASSUME Tail(todo[c]) = <<>>  PROVE Len(todo[c]) = 1
    OBVIOUS
  <2>1. Len(todo[c]) \in Nat
    BY <1>1, LenProperties
  <2>2. Len(Tail(todo[c])) = 0
    BY EmptySeq, Zenon
  <2> QED  BY <1>4, <2>1, <2>2
<1> QED  BY <1>1, <1>2, <1>3, <1>4, <1>5, <1>6, Zenon

\* An update of the map by set keeps its type.
LEMMA SetMap ==
  ASSUME data \in Map, NEW k \in Keys, NEW v \in Values
  PROVE  /\ [data EXCEPT ![k] = [value |-> v, version |-> 1]] \in Map
         /\ data[k] # None =>
              [data EXCEPT ![k] = [value |-> v, version |-> @.version + 1]] \in Map
BY DEF Map, Entry

\* The same for a deletion; what was there is a value.
LEMMA DeleteMap ==
  ASSUME data \in Map, NEW k \in Keys
  PROVE  /\ [data EXCEPT ![k] = None] \in Map
         /\ OldValue(k) \in Values \cup {None}
BY DEF Map, Entry, OldValue

\* The notifications of set, delete and clear.
LEMMA Changes ==
  ASSUME NEW type \in {"Created", "Updated", "Deleted", "Cleared"}, NEW k \in Keys \cup {"*"},
         NEW old \in Values \cup {None}, NEW new \in Values \cup {None}
  PROVE  Change(type, k, old, new) \in Event
BY DEF Change, Event

\* The map of an empty store.
LEMMA EmptyMap == Empty \in Map /\ KeysOf(Empty) = {}
BY DEF Empty, Map, KeysOf
\* A client is not displaced by what another one does.
LEMMA OthersPlaced ==
  ASSUME Basic, NEW c \in Clients, PlacedFor(c)',
         \A d \in Clients \ {c} :
           todo'[d] = todo[d] /\ stage'[d] = stage[d] /\ event'[d] = event[d],
         snapshot \in Snapshot => snapshot' \in Snapshot, restored => restored'
  PROVE  Placed'
<1>1. ASSUME NEW d \in Clients, d # c  PROVE  PlacedFor(d)'
  BY <1>1 DEF Basic, Placed, PlacedFor, Op
<1> QED  BY <1>1 DEF Placed

\* After the end of an operation.
LEMMA DonePlaced ==
  ASSUME Basic, NEW c \in Clients, stage[c] # "idle", OpDone(c),
         snapshot \in Snapshot => snapshot' \in Snapshot
  PROVE  /\ PlacedFor(c)'
         /\ todo' \in [Clients -> Seq(Operation)] /\ stage' \in [Clients -> Stages]
         /\ event' \in [Clients -> Event \cup {None}]
         /\ \A d \in Clients \ {c} :
              todo'[d] = todo[d] /\ stage'[d] = stage[d] /\ event'[d] = event[d]
<1>1. /\ todo'[c] = Tail(todo[c]) /\ event'[c] = None
      /\ stage'[c] = IF Len(todo[c]) = 1 THEN "idle" ELSE "start"
  BY DEF Basic, TypeOK, OpDone
<1>2. stage'[c] # "idle" => todo'[c] # <<>>
  BY <1>1, Current
<1>3. ASSUME NEW i \in 1..Len(todo'[c]), todo'[c][i].op = "restore"
      PROVE  Len(todo'[c]) = 1 /\ snapshot' \in Snapshot
  <2>1. Len(todo[c]) \in Nat /\ Len(Tail(todo[c])) = Len(todo[c]) - 1
        /\ i + 1 \in 1..Len(todo[c]) /\ todo[c][i + 1].op = "restore"
    <3>1. todo[c] \in Seq(Operation) /\ Len(Tail(todo[c])) = Len(todo[c]) - 1
          /\ \A j \in 1..Len(Tail(todo[c])) : Tail(todo[c])[j] = todo[c][j + 1]
      BY Current
    <3>2. Len(todo[c]) \in Nat
      BY <3>1, LenProperties
    <3> QED  BY <1>1, <1>3, <3>1, <3>2
  <2>2. Len(todo[c]) = 1
    BY <2>1 DEF Basic, Placed, PlacedFor
  <2> QED  BY <1>1, <2>1, <2>2
<1>4. PlacedFor(c)'
  BY <1>1, <1>2, <1>3 DEF PlacedFor
<1>5. /\ todo' \in [Clients -> Seq(Operation)] /\ stage' \in [Clients -> Stages]
      /\ event' \in [Clients -> Event \cup {None}]
      /\ \A d \in Clients \ {c} :
           todo'[d] = todo[d] /\ stage'[d] = stage[d] /\ event'[d] = event[d]
  BY Current DEF Basic, TypeOK, OpDone, Stages
<1> QED  BY <1>4, <1>5

\* Every step keeps the types and the places.
LEMMA BasicStep ==
  ASSUME Basic, Next
  PROVE  Basic'
<1> USE DEF Goto, CallFails, At, shared, rest
<1>1. PICK c \in Clients :
        \/ \E ops \in Calls : apply_batch(c, ops)
        \/ invalid(c) \/ set_lookup(c) \/ set_room(c) \/ set_insert(c)
        \/ delete(c) \/ get(c)
        \/ clear(c) \/ clear_done(c)
        \/ create_snapshot(c) \/ snapshot_done(c)
        \/ restore_snapshot(c) \/ restore_cleared(c) \/ restore_done(c)
        \/ \E k \in Keys : clear_shard(c, k) \/ scan_shard(c, k) \/ fill_shard(c, k)
        \/ increment_operation_count(c) \/ publish(c)
  BY DEF Next
<1>2. CASE \E ops \in Calls : apply_batch(c, ops)
  <2>1. PICK ops \in Calls : apply_batch(c, ops)
    BY <1>2
  <2>2. TypeOK'
    BY <2>1, StoreAssumption DEF Basic, TypeOK, apply_batch, Stages
  <2>3. PlacedFor(c)'
    <3>1. ops \in Seq(Operation) /\ ops # <<>> /\ todo'[c] = ops /\ stage'[c] = "start"
      BY <2>1, StoreAssumption DEF Basic, TypeOK, apply_batch
    <3>2. ASSUME NEW i \in 1..Len(ops), ops[i].op = "restore"
          PROVE  Len(ops) = 1 /\ snapshot' \in Snapshot
      <4>1. Len(ops) = 1
        BY <3>2, StoreAssumption
      <4>2. ops = <<ops[1]>> /\ ops[1] \in Operation /\ ops[1].op = "restore"
        BY <3>1, <3>2, <4>1
      <4>3. ops[1] = [op |-> "restore"]
        BY <4>2 DEF Operation
      <4>4. snapshot # None
        BY <2>1, <4>2, <4>3 DEF apply_batch
      <4> QED  BY <2>1, <4>1, <4>4 DEF apply_batch, Basic, TypeOK
    <3> QED  BY <3>1, <3>2 DEF PlacedFor
  <2>4. Placed'
    BY <2>1, <2>3, OthersPlaced DEF Basic, TypeOK, apply_batch
  <2> QED  BY <2>2, <2>4 DEF Basic
<1>3. CASE invalid(c)
  <2>1. stage[c] # "idle"
    BY <1>3 DEF invalid
  <2>2. TypeOK'
    BY <1>3, <2>1, Current, Arguments, SetMap DEF Basic, TypeOK, invalid, Stages
  <2>3. PlacedFor(c)'
    BY <1>3, <2>1 DEF Basic, TypeOK, Placed, PlacedFor, invalid, Op
  <2>4. Placed'
    BY <1>3, <2>3, OthersPlaced DEF Basic, TypeOK, invalid
  <2> QED  BY <2>2, <2>4 DEF Basic
<1>4. CASE set_lookup(c)
  <2>1. stage[c] # "idle"
    BY <1>4 DEF set_lookup
  <2>2. TypeOK'
    <3>1. Op(c).key \in Keys /\ Op(c).value \in Values
      BY <1>4, <2>1, Current, Arguments DEF set_lookup
    <3>2. OldValue(Op(c).key) \in Values \cup {None}
      BY <3>1, DeleteMap DEF Basic, TypeOK
    <3>3. Change("Updated", Op(c).key, OldValue(Op(c).key), Op(c).value) \in Event
      BY <3>1, <3>2, Changes
    <3>4. data' \in Map
      <4>1. data \in Map
        BY DEF Basic, TypeOK
      <4>2. \/ UNCHANGED data
            \/ /\ data[Op(c).key] # None
               /\ data' = [data EXCEPT ![Op(c).key] =
                            [value |-> Op(c).value, version |-> @.version + 1]]
        BY <1>4, Zenon DEF set_lookup
      <4> QED  BY <3>1, <4>1, <4>2, SetMap
    <3> QED  BY <1>4, <3>3, <3>4, ZenonT(60) DEF Basic, TypeOK, set_lookup, Stages
  <2>3. PlacedFor(c)'
    BY <1>4, <2>1 DEF Basic, TypeOK, Placed, PlacedFor, set_lookup, Op
  <2>4. Placed'
    BY <1>4, <2>3, OthersPlaced DEF Basic, TypeOK, set_lookup
  <2> QED  BY <2>2, <2>4 DEF Basic
<1>5. CASE set_room(c)
  <2>1. stage[c] # "idle"
    BY <1>5 DEF set_room
  <2>2. TypeOK'
    <3>1. <<>> \in Seq(Operation)
      BY EmptySeq
    <3> QED  BY <1>5, <3>1 DEF Basic, TypeOK, set_room, Stages
  <2>3. PlacedFor(c)'
    BY <1>5, <2>1 DEF Basic, TypeOK, Placed, PlacedFor, set_room, Op
  <2>4. Placed'
    BY <1>5, <2>3, OthersPlaced DEF Basic, TypeOK, set_room
  <2> QED  BY <2>2, <2>4 DEF Basic
<1>6. CASE set_insert(c)
  <2>1. stage[c] # "idle"
    BY <1>6 DEF set_insert
  <2>2. TypeOK'
    <3>1. Op(c).key \in Keys /\ Op(c).value \in Values
      BY <1>6, <2>1, Current, Arguments DEF set_insert
    <3>2. Change("Created", Op(c).key, None, Op(c).value) \in Event
      BY <3>1, Changes
    <3>3. data' \in Map
      BY <1>6, <3>1, SetMap DEF set_insert, Basic, TypeOK
    <3> QED  BY <1>6, <3>2, <3>3 DEF Basic, TypeOK, set_insert, Stages
  <2>3. PlacedFor(c)'
    BY <1>6, <2>1 DEF Basic, TypeOK, Placed, PlacedFor, set_insert, Op
  <2>4. Placed'
    BY <1>6, <2>3, OthersPlaced DEF Basic, TypeOK, set_insert
  <2> QED  BY <2>2, <2>4 DEF Basic
<1>7. CASE delete(c)
  <2>1. stage[c] # "idle"
    BY <1>7 DEF delete
  <2>2. TypeOK'
    <3>1. Op(c).key \in Keys
      BY <1>7, <2>1, Current, Arguments DEF delete
    <3>2. OldValue(Op(c).key) \in Values \cup {None}
      BY <3>1, DeleteMap DEF Basic, TypeOK
    <3>3. Change("Deleted", Op(c).key, OldValue(Op(c).key), None) \in Event
      BY <3>1, <3>2, Changes
    <3>4. data' \in Map
      BY <1>7, <3>1, DeleteMap DEF delete, Basic, TypeOK
    <3> QED  BY <1>7, <3>3, <3>4 DEF Basic, TypeOK, delete, Stages
  <2>3. PlacedFor(c)'
    BY <1>7, <2>1 DEF Basic, TypeOK, Placed, PlacedFor, delete, Op
  <2>4. Placed'
    BY <1>7, <2>3, OthersPlaced DEF Basic, TypeOK, delete
  <2> QED  BY <2>2, <2>4 DEF Basic
<1>8. CASE get(c)
  <2>1. stage[c] # "idle"
    BY <1>8 DEF get
  <2>2. TypeOK'
    BY <1>8, <2>1, Current, Arguments, SetMap DEF Basic, TypeOK, get, Stages
  <2>3. PlacedFor(c)'
    BY <1>8, <2>1 DEF Basic, TypeOK, Placed, PlacedFor, get, Op
  <2>4. Placed'
    BY <1>8, <2>3, OthersPlaced DEF Basic, TypeOK, get
  <2> QED  BY <2>2, <2>4 DEF Basic
<1>9. CASE clear(c)
  <2>1. stage[c] # "idle"
    BY <1>9 DEF clear
  <2>2. TypeOK'
    <3>1. Change("Cleared", "*", None, None) \in Event
      BY Changes
    <3> QED  BY <1>9, <3>1 DEF Basic, TypeOK, clear, Stages
  <2>3. PlacedFor(c)'
    BY <1>9, <2>1 DEF Basic, TypeOK, Placed, PlacedFor, clear, Op
  <2>4. Placed'
    BY <1>9, <2>3, OthersPlaced DEF Basic, TypeOK, clear
  <2> QED  BY <2>2, <2>4 DEF Basic
<1>10. CASE clear_done(c)
  <2>1. stage[c] # "idle"
    BY <1>10 DEF clear_done
  <2>2. TypeOK'
    BY <1>10, <2>1, Current, Arguments, SetMap DEF Basic, TypeOK, clear_done, Stages
  <2>3. PlacedFor(c)'
    BY <1>10, <2>1 DEF Basic, TypeOK, Placed, PlacedFor, clear_done, Op
  <2>4. Placed'
    BY <1>10, <2>3, OthersPlaced DEF Basic, TypeOK, clear_done
  <2> QED  BY <2>2, <2>4 DEF Basic
<1>11. CASE create_snapshot(c)
  <2>1. stage[c] # "idle"
    BY <1>11 DEF create_snapshot
  <2>2. TypeOK'
    BY <1>11, EmptyMap DEF Basic, TypeOK, create_snapshot, Stages, Snapshot
  <2>3. PlacedFor(c)'
    BY <1>11, <2>1 DEF Basic, TypeOK, Placed, PlacedFor, create_snapshot, Op
  <2>4. Placed'
    BY <1>11, <2>3, OthersPlaced DEF Basic, TypeOK, create_snapshot
  <2> QED  BY <2>2, <2>4 DEF Basic
<1>12. CASE snapshot_done(c)
  <2>1. stage[c] # "idle"
    BY <1>12 DEF snapshot_done
  <2>2. OpDone(c) /\ (snapshot \in Snapshot => snapshot' \in Snapshot) /\ UNCHANGED restored
    BY <1>12 DEF snapshot_done, Basic, TypeOK, Snapshot
  <2>3. TypeOK'
    BY <1>12, <2>1, <2>2, DonePlaced DEF Basic, TypeOK, Placed, PlacedFor, snapshot_done, Snapshot
  <2>4. Placed'
    BY <2>1, <2>2, DonePlaced, OthersPlaced
  <2> QED  BY <2>3, <2>4 DEF Basic
<1>13. CASE restore_snapshot(c)
  <2>1. stage[c] # "idle"
    BY <1>13 DEF restore_snapshot
  <2>2. TypeOK'
    <3>1. <<>> \in Seq(Operation)
      BY EmptySeq
    <3>2. snapshot \in Snapshot
      BY <1>13, <2>1, Current DEF restore_snapshot
    <3> QED  BY <1>13, <3>1, <3>2, ZenonT(60) DEF Basic, TypeOK, restore_snapshot, Stages
  <2>3. PlacedFor(c)'
    BY <1>13, <2>1 DEF Basic, TypeOK, Placed, PlacedFor, restore_snapshot, Op
  <2>4. Placed'
    BY <1>13, <2>3, OthersPlaced DEF Basic, TypeOK, restore_snapshot
  <2> QED  BY <2>2, <2>4 DEF Basic
<1>14. CASE restore_cleared(c)
  <2>1. stage[c] # "idle"
    BY <1>14 DEF restore_cleared
  <2>2. TypeOK'
    BY <1>14 DEF Basic, TypeOK, restore_cleared, Stages, KeysOf
  <2>3. PlacedFor(c)'
    BY <1>14, <2>1 DEF Basic, TypeOK, Placed, PlacedFor, restore_cleared, Op
  <2>4. Placed'
    BY <1>14, <2>3, OthersPlaced DEF Basic, TypeOK, restore_cleared
  <2> QED  BY <2>2, <2>4 DEF Basic
<1>15. CASE restore_done(c)
  <2>1. stage[c] # "idle"
    BY <1>15 DEF restore_done
  <2>2. OpDone(c) /\ (snapshot \in Snapshot => snapshot' \in Snapshot) /\ UNCHANGED restored
    BY <1>15 DEF restore_done, Basic, TypeOK, Snapshot
  <2>3. TypeOK'
    BY <1>15, <2>1, <2>2, DonePlaced DEF Basic, TypeOK, Placed, PlacedFor, restore_done, Snapshot
  <2>4. Placed'
    BY <2>1, <2>2, DonePlaced, OthersPlaced
  <2> QED  BY <2>3, <2>4 DEF Basic
<1>16. CASE increment_operation_count(c)
  <2> DEFINE notifies == enable_notifications /\ event[c] # None
  <2>1. stage[c] # "idle"
    BY <1>16 DEF increment_operation_count
  <2>2. CASE notifies
    <3>1. event[c] \in Event
      BY <2>2 DEF Basic, TypeOK
    <3>2. [event[c] EXCEPT !.version = version] \in Event
      BY <3>1 DEF Basic, TypeOK, Event
    <3>3. /\ event' = [event EXCEPT ![c] = [event[c] EXCEPT !.version = version]]
          /\ version' = version + 1 /\ stage' = [stage EXCEPT ![c] = "publish"]
          /\ total_operations' = total_operations + 1 /\ UNCHANGED todo
      BY <1>16, <2>2 DEF increment_operation_count
    <3>4. UNCHANGED <<data, snapshot, events, restored, left, copy, calls, overlapped>>
      BY <1>16 DEF increment_operation_count
    <3>5. TypeOK'
      BY <3>2, <3>3, <3>4 DEF Basic, TypeOK, Stages
    <3>6. PlacedFor(c)'
      BY <3>2, <3>3, <3>4, <2>1 DEF Basic, TypeOK, Placed, PlacedFor
    <3>7. Placed'
      BY <3>3, <3>4, <3>6, OthersPlaced DEF Basic, TypeOK
    <3> QED  BY <3>5, <3>7 DEF Basic
  <2>3. CASE ~notifies
    <3>1. OpDone(c) /\ UNCHANGED <<version, snapshot, restored>>
      BY <1>16, <2>3 DEF increment_operation_count
    <3>2. TypeOK'
      BY <1>16, <2>1, <3>1, DonePlaced DEF Basic, TypeOK, increment_operation_count
    <3>3. Placed'
      BY <2>1, <3>1, DonePlaced, OthersPlaced
    <3> QED  BY <3>2, <3>3 DEF Basic
  <2> QED  BY <2>2, <2>3
<1>17. CASE publish(c)
  <2>1. stage[c] # "idle"
    BY <1>17 DEF publish
  <2>2. OpDone(c) /\ (snapshot \in Snapshot => snapshot' \in Snapshot) /\ UNCHANGED restored
    BY <1>17 DEF publish, Basic, TypeOK, Snapshot
  <2>3. TypeOK'
    BY <1>17, <2>1, <2>2, DonePlaced DEF Basic, TypeOK, Placed, PlacedFor, publish, Snapshot
  <2>4. Placed'
    BY <2>1, <2>2, DonePlaced, OthersPlaced
  <2> QED  BY <2>3, <2>4 DEF Basic
<1>18. ASSUME NEW k \in Keys, clear_shard(c, k)
       PROVE  Basic'
  <2>2. TypeOK'
    BY <1>18, DeleteMap DEF Basic, TypeOK, clear_shard, Stages, Snapshot, Map
  <2>3. Placed'
    BY <1>18 DEF Basic, TypeOK, Placed, PlacedFor, clear_shard, Op
  <2> QED  BY <2>2, <2>3 DEF Basic
<1>19. ASSUME NEW k \in Keys, scan_shard(c, k)
       PROVE  Basic'
  <2>2. TypeOK'
    BY <1>19, SetMap, ZenonT(60) DEF Basic, TypeOK, scan_shard, Stages, Snapshot, Map
  <2>3. Placed'
    BY <1>19 DEF Basic, TypeOK, Placed, PlacedFor, scan_shard, Op
  <2> QED  BY <2>2, <2>3 DEF Basic
<1>20. ASSUME NEW k \in Keys, fill_shard(c, k)
       PROVE  Basic'
  <2>2. TypeOK'
    BY <1>20, SetMap DEF Basic, TypeOK, fill_shard, Stages, Snapshot, Map
  <2>3. Placed'
    BY <1>20 DEF Basic, TypeOK, Placed, PlacedFor, fill_shard, Op
  <2> QED  BY <2>2, <2>3 DEF Basic
<1> QED  BY <1>1, <1>2, <1>3, <1>4, <1>5, <1>6, <1>7, <1>8, <1>9, <1>10, <1>11, <1>12, <1>13, <1>14, <1>15, <1>16, <1>17, <1>18, <1>19, <1>20

-----------------------------------------------------------------------------
(* Versions.  A version is drawn in one step and published in another, so     *)
(* the versions drawn and not yet published matter as well.                   *)

Drawn == {c \in Clients : stage[c] = "publish"}

VersionsInv ==
  ~restored =>
    /\ \A i \in 1..Len(events) : events[i].version < version
    /\ \A i, j \in 1..Len(events) : events[i].version = events[j].version => i = j
    /\ \A c \in Drawn :
         /\ event[c].version < version
         /\ \A i \in 1..Len(events) : events[i].version # event[c].version
    /\ \A c, d \in Drawn : event[c].version = event[d].version => c = d

\* Versions are numbers.
LEMMA EventTypes ==
  ASSUME Basic
  PROVE  /\ version \in Nat /\ events \in Seq(Event) /\ Len(events) \in Nat
         /\ \A i \in 1..Len(events) : events[i] \in Event /\ events[i].version \in Nat
<1>1. version \in Nat /\ events \in Seq(Event)
  BY DEF Basic, TypeOK
<1>2. Len(events) \in Nat
  BY <1>1, LenProperties
<1>3. ASSUME NEW i \in 1..Len(events)  PROVE  events[i] \in Event /\ events[i].version \in Nat
  <2>1. events[i] \in Event
    BY <1>1, ElementOfSeq
  <2> QED  BY <2>1 DEF Event
<1> QED  BY <1>1, <1>2, <1>3

\* Nothing is published and no version drawn for a notification.
LEMMA VersionsKept ==
  ASSUME Basic, VersionsInv, UNCHANGED events, version' \in {version, version + 1},
         restored => restored',
         \A d \in Clients : stage'[d] = "publish" => stage[d] = "publish" /\ event'[d] = event[d]
  PROVE  VersionsInv'
<1>1. /\ version \in Nat /\ events \in Seq(Event) /\ Len(events) \in Nat
      /\ \A i \in 1..Len(events) : events[i].version \in Nat
  BY EventTypes
<1>2. \A c \in Drawn : event[c].version \in Nat
  BY DEF Drawn, Basic, Placed, PlacedFor, Event
<1> QED  BY <1>1, <1>2 DEF VersionsInv, Drawn

\* The version of a notification is drawn.
LEMMA VersionDrawn ==
  ASSUME Basic, VersionsInv, NEW c \in Clients, stage[c] = "count", event[c] \in Event,
         stage' = [stage EXCEPT ![c] = "publish"],
         event' = [event EXCEPT ![c] = [event[c] EXCEPT !.version = version]],
         version' = version + 1, UNCHANGED <<events, restored>>
  PROVE  VersionsInv'
<1>1. /\ version \in Nat /\ events \in Seq(Event) /\ Len(events) \in Nat
      /\ \A i \in 1..Len(events) : events[i].version \in Nat
  BY EventTypes
<1>2. \A d \in Drawn : event[d].version \in Nat
  BY DEF Drawn, Basic, Placed, PlacedFor, Event
<1>3. event'[c].version = version /\ \A d \in Clients \ {c} : event'[d] = event[d]
  BY DEF Basic, TypeOK, Event
<1>4. c \notin Drawn /\ Drawn' = Drawn \cup {c}
  BY DEF Drawn, Basic, TypeOK
<1>5. Drawn \subseteq Clients
  BY DEF Drawn
<1> HIDE DEF Drawn
<1> QED  BY <1>1, <1>2, <1>3, <1>4, <1>5 DEF VersionsInv

\* A notification is published.
LEMMA VersionPublished ==
  ASSUME Basic, VersionsInv, NEW c \in Clients, publish(c)
  PROVE  VersionsInv'
<1>1. /\ version \in Nat /\ events \in Seq(Event) /\ Len(events) \in Nat
      /\ \A i \in 1..Len(events) : events[i].version \in Nat
  BY EventTypes
<1>2. event[c] \in Event /\ c \in Drawn
  BY DEF publish, Basic, Placed, PlacedFor, Drawn
<1>3. /\ Drawn' = Drawn \ {c} /\ \A d \in Drawn \ {c} : event'[d] = event[d]
      /\ Drawn \subseteq Clients
  BY DEF Drawn, publish, OpDone, Basic, TypeOK
<1>4. /\ events' = Append(events, event[c]) /\ Len(events') = Len(events) + 1
      /\ events'[Len(events) + 1] = event[c]
      /\ \A i \in 1..Len(events) : events'[i] = events[i]
  BY <1>1, <1>2 DEF publish
<1>5. Len(events) \in Nat /\ UNCHANGED <<version, restored>>
  BY <1>1, LenProperties DEF publish
<1>6. \A i \in 1..Len(events') : i \in 1..Len(events) \/ i = Len(events) + 1
  BY <1>4, <1>5
<1> HIDE DEF Drawn
<1> QED  BY <1>1, <1>2, <1>3, <1>4, <1>5, <1>6 DEF VersionsInv

\* Every step keeps the versions distinct.
LEMMA VersionsStep ==
  ASSUME Basic, VersionsInv, Next
  PROVE  VersionsInv'
<1> USE DEF Goto, CallFails, OpDone, At, shared, rest
<1>1. PICK c \in Clients :
        \/ \E ops \in Calls : apply_batch(c, ops)
        \/ invalid(c) \/ set_lookup(c) \/ set_room(c) \/ set_insert(c)
        \/ delete(c) \/ get(c)
        \/ clear(c) \/ clear_done(c)
        \/ create_snapshot(c) \/ snapshot_done(c)
        \/ restore_snapshot(c) \/ restore_cleared(c) \/ restore_done(c)
        \/ \E k \in Keys : clear_shard(c, k) \/ scan_shard(c, k) \/ fill_shard(c, k)
        \/ increment_operation_count(c) \/ publish(c)
  BY DEF Next
<1>2. CASE \E ops \in Calls : apply_batch(c, ops)
  BY <1>2, VersionsKept DEF apply_batch, Basic, TypeOK
<1>3. CASE invalid(c)
  BY <1>3, VersionsKept DEF invalid, Basic, TypeOK
<1>4. CASE set_lookup(c)
  BY <1>4, VersionsKept DEF set_lookup, Basic, TypeOK
<1>5. CASE set_room(c)
  BY <1>5, VersionsKept DEF set_room, Basic, TypeOK
<1>6. CASE set_insert(c)
  BY <1>6, VersionsKept DEF set_insert, Basic, TypeOK
<1>7. CASE delete(c)
  BY <1>7, VersionsKept DEF delete, Basic, TypeOK
<1>8. CASE get(c)
  BY <1>8, VersionsKept DEF get, Basic, TypeOK
<1>9. CASE clear(c)
  BY <1>9, VersionsKept DEF clear, Basic, TypeOK
<1>10. CASE clear_done(c)
  BY <1>10, VersionsKept DEF clear_done, Basic, TypeOK
<1>11. CASE create_snapshot(c)
  BY <1>11, VersionsKept DEF create_snapshot, Basic, TypeOK
<1>12. CASE snapshot_done(c)
  BY <1>12, VersionsKept DEF snapshot_done, Basic, TypeOK
<1>13. CASE restore_snapshot(c)
  BY <1>13, VersionsKept DEF restore_snapshot, Basic, TypeOK
<1>14. CASE restore_cleared(c)
  BY <1>14, VersionsKept DEF restore_cleared, Basic, TypeOK
<1>15. CASE restore_done(c)
  BY <1>15 DEF restore_done, VersionsInv, Basic, Placed, PlacedFor
<1>16. ASSUME NEW k \in Keys, clear_shard(c, k)  PROVE VersionsInv'
  BY <1>16, VersionsKept DEF clear_shard, Basic, TypeOK
<1>17. ASSUME NEW k \in Keys, scan_shard(c, k)  PROVE VersionsInv'
  BY <1>17, VersionsKept DEF scan_shard, Basic, TypeOK
<1>18. ASSUME NEW k \in Keys, fill_shard(c, k)  PROVE VersionsInv'
  BY <1>18, VersionsKept DEF fill_shard, Basic, TypeOK
<1>19. CASE increment_operation_count(c)
  <2>1. CASE enable_notifications /\ event[c] # None
    <3>1. /\ stage[c] = "count" /\ stage' = [stage EXCEPT ![c] = "publish"]
          /\ event' = [event EXCEPT ![c] = [event[c] EXCEPT !.version = version]]
          /\ version' = version + 1 /\ UNCHANGED <<events, restored>>
      BY <1>19, <2>1 DEF increment_operation_count
    <3>2. event[c] \in Event
      BY <2>1 DEF Basic, TypeOK
    <3> QED  BY <3>1, <3>2, VersionDrawn
  <2>2. CASE ~(enable_notifications /\ event[c] # None)
    BY <1>19, <2>2, VersionsKept DEF increment_operation_count, Basic, TypeOK
  <2> QED  BY <2>1, <2>2
<1>20. CASE publish(c)
  BY <1>20, VersionPublished
<1> QED  BY <1>1, <1>2, <1>3, <1>4, <1>5, <1>6, <1>7, <1>8, <1>9, <1>10, <1>11, <1>12, <1>13, <1>14, <1>15, <1>16, <1>17, <1>18, <1>19, <1>20

-----------------------------------------------------------------------------
(* Sizes                                                                     *)

Inserting == {c \in Clients : stage[c] = "insert"}

\* A client that has seen a free place and not used it yet counts as a key.
SizeInv ==
  ~restored => len(data) + Cardinality(Inserting) <= max_keys + Cardinality(Clients) - 1

\* The number of keys of a map.
LEMMA Lengths ==
  ASSUME NEW d, NEW e
  PROVE  /\ len(d) \in Nat
         /\ KeysOf(e) \subseteq KeysOf(d) => len(e) <= len(d)
         /\ \A k \in Keys : KeysOf(e) \subseteq KeysOf(d) \cup {k} => len(e) <= len(d) + 1
<1>1. \A x : KeysOf(x) \subseteq Keys
  BY DEF KeysOf
<1>2. \A x : IsFiniteSet(KeysOf(x)) /\ len(x) \in Nat
  BY <1>1, StoreAssumption, FS_Subset, FS_CardinalityType DEF len
<1>3. KeysOf(e) \subseteq KeysOf(d) => len(e) <= len(d)
  BY <1>2, FS_Subset DEF len
<1>4. ASSUME NEW k \in Keys, KeysOf(e) \subseteq KeysOf(d) \cup {k}
      PROVE  len(e) <= len(d) + 1
  <2>1. /\ IsFiniteSet(KeysOf(d) \cup {k})
        /\ Cardinality(KeysOf(d) \cup {k}) \in {Cardinality(KeysOf(d)), Cardinality(KeysOf(d)) + 1}
    BY <1>2, FS_AddElement
  <2>2. Cardinality(KeysOf(e)) <= Cardinality(KeysOf(d) \cup {k})
    BY <1>4, <2>1, FS_Subset
  <2> QED  BY <1>2, <2>1, <2>2 DEF len
<1> QED  BY <1>2, <1>3, <1>4

\* The keys after an update of the map.
LEMMA KeysAfter ==
  ASSUME NEW d \in Map, NEW k \in Keys, NEW x
  PROVE  /\ KeysOf([d EXCEPT ![k] = x]) \subseteq KeysOf(d) \cup {k}
         /\ d[k] # None => KeysOf([d EXCEPT ![k] = x]) \subseteq KeysOf(d)
         /\ x = None => KeysOf([d EXCEPT ![k] = x]) = KeysOf(d) \ {k}
BY DEF KeysOf, Map

\* The clients that have seen a free place.
LEMMA InsertingFinite ==
  /\ IsFiniteSet(Inserting) /\ Cardinality(Inserting) \in Nat
  /\ Cardinality(Inserting) <= Cardinality(Clients)
  /\ Cardinality(Clients) \in Nat /\ Cardinality(Clients) >= 1
<1>1. Inserting \subseteq Clients
  BY DEF Inserting
<1>2. IsFiniteSet(Inserting) /\ Cardinality(Inserting) <= Cardinality(Clients)
  BY <1>1, StoreAssumption, FS_Subset
<1>3. Cardinality(Inserting) \in Nat /\ Cardinality(Clients) \in Nat
  BY <1>2, StoreAssumption, FS_CardinalityType
<1>4. Cardinality(Clients) # 0
  BY StoreAssumption, FS_EmptySet
<1> QED  BY <1>2, <1>3, <1>4

\* Neither a key nor a free place is taken.
LEMMA SizeKept ==
  ASSUME SizeInv, restored => restored', KeysOf(data') \subseteq KeysOf(data),
         Inserting' \subseteq Inserting
  PROVE  SizeInv'
<1>1. len(data') <= len(data) /\ len(data') \in Nat /\ len(data) \in Nat
  BY Lengths
<1>2. Cardinality(Inserting') <= Cardinality(Inserting) /\ Cardinality(Inserting') \in Nat
  BY InsertingFinite, FS_Subset, FS_CardinalityType
<1>3. len(data)' = len(data')
  BY DEF len, KeysOf
<1> QED  BY <1>1, <1>2, <1>3, InsertingFinite, StoreAssumption DEF SizeInv

\* The keys after a step that writes the map.
LEMMA KeysWritten ==
  ASSUME Basic, NEW c \in Clients
  PROVE  /\ set_lookup(c) => KeysOf(data') \subseteq KeysOf(data)
         /\ set_insert(c) => Op(c).key \in Keys /\ KeysOf(data') \subseteq KeysOf(data) \cup {Op(c).key}
         /\ delete(c) => KeysOf(data') \subseteq KeysOf(data)
         /\ \A k \in Keys : clear_shard(c, k) => KeysOf(data') = KeysOf(data) \ {k}
         /\ \A k \in Keys : fill_shard(c, k) => KeysOf(data') \subseteq KeysOf(data) \cup {k}
<1>1. data \in Map
  BY DEF Basic, TypeOK
<1>2. ASSUME set_lookup(c)  PROVE  KeysOf(data') \subseteq KeysOf(data)
  <2> DEFINE x == [value |-> Op(c).value, version |-> data[Op(c).key].version + 1]
  <2>1. Op(c).key \in Keys
    BY <1>2, Current, Arguments DEF set_lookup, At
  <2>2. \/ UNCHANGED data
        \/ data[Op(c).key] # None /\ data' = [data EXCEPT ![Op(c).key] = x]
    BY <1>2 DEF set_lookup
  <2> HIDE DEF x
  <2> QED  BY <1>1, <2>1, <2>2, KeysAfter
<1>3. ASSUME set_insert(c)
      PROVE  Op(c).key \in Keys /\ KeysOf(data') \subseteq KeysOf(data) \cup {Op(c).key}
  <2> DEFINE x == [value |-> Op(c).value, version |-> 1]
  <2>1. Op(c).key \in Keys
    BY <1>3, Current, Arguments DEF set_insert, At
  <2>2. data' = [data EXCEPT ![Op(c).key] = x]
    BY <1>3 DEF set_insert
  <2> HIDE DEF x
  <2> QED  BY <1>1, <2>1, <2>2, KeysAfter
<1>4. ASSUME delete(c)  PROVE  KeysOf(data') \subseteq KeysOf(data)
  <2>1. Op(c).key \in Keys
    BY <1>4, Current, Arguments DEF delete, At
  <2>2. data' = [data EXCEPT ![Op(c).key] = None]
    BY <1>4 DEF delete
  <2>3. KeysOf(data') = KeysOf(data) \ {Op(c).key}
    BY <1>1, <2>1, <2>2, KeysAfter
  <2> QED  BY <2>3
<1>5. ASSUME NEW k \in Keys, clear_shard(c, k)  PROVE  KeysOf(data') = KeysOf(data) \ {k}
  <2>1. data' = [data EXCEPT ![k] = None]
    BY <1>5 DEF clear_shard
  <2> QED  BY <1>1, <2>1, KeysAfter
<1>6. ASSUME NEW k \in Keys, fill_shard(c, k)  PROVE  KeysOf(data') \subseteq KeysOf(data) \cup {k}
  <2> DEFINE x == copy[c].data[k]
  <2>1. data' = [data EXCEPT ![k] = x]
    BY <1>6 DEF fill_shard
  <2> HIDE DEF x
  <2> QED  BY <1>1, <2>1, KeysAfter
<1> QED  BY <1>2, <1>3, <1>4, <1>5, <1>6

\* Every step keeps the size bounded.
LEMMA SizeStep ==
  ASSUME Basic, SizeInv, Next
  PROVE  SizeInv'
<1> USE DEF Goto, CallFails, OpDone, At, shared, rest
<1>1. PICK c \in Clients :
        \/ \E ops \in Calls : apply_batch(c, ops)
        \/ invalid(c) \/ set_lookup(c) \/ set_room(c) \/ set_insert(c)
        \/ delete(c) \/ get(c)
        \/ clear(c) \/ clear_done(c)
        \/ create_snapshot(c) \/ snapshot_done(c)
        \/ restore_snapshot(c) \/ restore_cleared(c) \/ restore_done(c)
        \/ \E k \in Keys : clear_shard(c, k) \/ scan_shard(c, k) \/ fill_shard(c, k)
        \/ increment_operation_count(c) \/ publish(c)
  BY DEF Next
<1>2. CASE \E ops \in Calls : apply_batch(c, ops)
  BY <1>2, SizeKept DEF apply_batch, Basic, TypeOK, Inserting
<1>3. CASE invalid(c)
  BY <1>3, SizeKept DEF invalid, Basic, TypeOK, Inserting
<1>4. CASE get(c)
  BY <1>4, SizeKept DEF get, Basic, TypeOK, Inserting
<1>5. CASE clear(c)
  BY <1>5, SizeKept DEF clear, Basic, TypeOK, Inserting
<1>6. CASE clear_done(c)
  BY <1>6, SizeKept DEF clear_done, Basic, TypeOK, Inserting
<1>7. CASE create_snapshot(c)
  BY <1>7, SizeKept DEF create_snapshot, Basic, TypeOK, Inserting
<1>8. CASE snapshot_done(c)
  BY <1>8, SizeKept DEF snapshot_done, Basic, TypeOK, Inserting
<1>9. CASE restore_snapshot(c)
  BY <1>9, SizeKept DEF restore_snapshot, Basic, TypeOK, Inserting
<1>10. CASE restore_cleared(c)
  BY <1>10, SizeKept DEF restore_cleared, Basic, TypeOK, Inserting
<1>11. CASE restore_done(c)
  BY <1>11, SizeKept DEF restore_done, Basic, TypeOK, Inserting
<1>12. CASE increment_operation_count(c)
  BY <1>12, SizeKept DEF increment_operation_count, Basic, TypeOK, Inserting
<1>13. CASE publish(c)
  BY <1>13, SizeKept DEF publish, Basic, TypeOK, Inserting
<1>14. CASE set_lookup(c)
  BY <1>14, KeysWritten, SizeKept DEF set_lookup, Basic, TypeOK, Inserting
<1>15. CASE delete(c)
  BY <1>15, KeysWritten, SizeKept DEF delete, Basic, TypeOK, Inserting
<1>16. CASE set_room(c)
  <2>1. CASE HasRoom /\ stage' = [stage EXCEPT ![c] = "insert"]
    <3>1. Inserting' = Inserting \cup {c} /\ len(data)' = len(data) /\ UNCHANGED restored
      BY <1>16, <2>1 DEF set_room, Inserting, Basic, TypeOK, len, KeysOf
    <3>2. /\ Cardinality(Inserting)' <= Cardinality(Clients) /\ Cardinality(Inserting)' \in Nat
          /\ Cardinality(Clients) \in Nat
      BY InsertingFinite, StoreAssumption, FS_Subset, FS_CardinalityType DEF Inserting
    <3>3. len(data) < max_keys /\ len(data) \in Nat
      BY <2>1, Lengths DEF HasRoom
    <3> QED  BY <3>1, <3>2, <3>3, StoreAssumption DEF SizeInv
  <2>2. CASE stage' = [stage EXCEPT ![c] = "idle"]
    BY <1>16, <2>2, SizeKept DEF set_room, Inserting, Basic, TypeOK
  <2> QED  BY <1>16, <2>1, <2>2 DEF set_room
<1>17. CASE set_insert(c)
  <2>1. len(data)' <= len(data) + 1 /\ len(data)' \in Nat /\ len(data) \in Nat
    <3>1. Op(c).key \in Keys /\ KeysOf(data') \subseteq KeysOf(data) \cup {Op(c).key}
      BY <1>17, KeysWritten
    <3>2. len(data') <= len(data) + 1 /\ len(data') \in Nat /\ len(data) \in Nat
      BY <3>1, Lengths
    <3> QED  BY <3>2 DEF len, KeysOf
  <2>2. c \in Inserting /\ Inserting' = Inserting \ {c} /\ UNCHANGED restored
    BY <1>17 DEF set_insert, Inserting, Basic, TypeOK
  <2>3. Cardinality(Inserting)' = Cardinality(Inserting) - 1
    BY <2>2, InsertingFinite, FS_RemoveElement
  <2> QED  BY <2>1, <2>2, <2>3, InsertingFinite, StoreAssumption DEF SizeInv
<1>18. ASSUME NEW k \in Keys, clear_shard(c, k)  PROVE SizeInv'
  <2>1. KeysOf(data') \subseteq KeysOf(data)
    BY <1>18, KeysWritten
  <2> QED  BY <1>18, <2>1, SizeKept DEF clear_shard, Inserting
<1>19. ASSUME NEW k \in Keys, scan_shard(c, k)  PROVE SizeInv'
  BY <1>19, SizeKept DEF scan_shard, Basic, TypeOK, Inserting
<1>20. ASSUME NEW k \in Keys, fill_shard(c, k)  PROVE SizeInv'
  BY <1>20 DEF fill_shard, SizeInv, Basic, Placed, PlacedFor
<1> QED  BY <1>1, <1>2, <1>3, <1>4, <1>5, <1>6, <1>7, <1>8, <1>9, <1>10, <1>11, <1>12, <1>13, <1>14, <1>15, <1>16, <1>17, <1>18, <1>19, <1>20

-----------------------------------------------------------------------------
(* Calls one after the other                                                 *)

\* What the client that runs has to do with the limit.
RoomFor(c) ==
  /\ stage[c] = "insert" => len(data) < max_keys
  /\ stage[c] = "scanning" => KeysOf(copy[c].data) \subseteq KeysOf(data)
  /\ stage[c] = "clearing" /\ Op(c).op = "restore" =>
       len(copy[c].data) <= max_keys /\ KeysOf(data) \subseteq left[c]
  /\ stage[c] = "filling" =>
       /\ len(copy[c].data) <= max_keys
       /\ left[c] \cup KeysOf(data) \subseteq KeysOf(copy[c].data)

AloneInv ==
  ~overlapped =>
    /\ \A c, d \in Clients : stage[c] # "idle" /\ stage[d] # "idle" => c = d
    /\ len(data) <= max_keys
    /\ snapshot \in Snapshot => len(snapshot.data) <= max_keys
    /\ \A c \in Clients : RoomFor(c)

\* Only the client that runs matters.
LEMMA AloneKept ==
  ASSUME AloneInv, NEW c \in Clients, stage[c] # "idle", UNCHANGED overlapped,
         \A d \in Clients \ {c} : stage'[d] = stage[d],
         ~overlapped =>
           /\ RoomFor(c)' /\ len(data') <= max_keys
           /\ snapshot' \in Snapshot => len(snapshot'.data) <= max_keys
  PROVE  AloneInv'
<1> SUFFICES ASSUME ~overlapped  PROVE AloneInv'
  BY DEF AloneInv
<1>1. \A d \in Clients \ {c} : stage'[d] = "idle"
  BY DEF AloneInv
<1>2. \A d \in Clients : RoomFor(d)'
  BY <1>1 DEF RoomFor
<1>3. \A d, e \in Clients : stage'[d] # "idle" /\ stage'[e] # "idle" => d = e
  BY <1>1
<1>4. len(data)' = len(data') /\ (snapshot' \in Snapshot => len(snapshot.data)' = len(snapshot'.data))
  BY DEF len, KeysOf
<1> QED  BY <1>2, <1>3, <1>4 DEF AloneInv

\* Every step keeps the limit while calls do not overlap.
LEMMA AloneStep ==
  ASSUME Basic, Basic', AloneInv, Next
  PROVE  AloneInv'
<1> USE DEF Goto, CallFails, OpDone, At, shared, rest
<1>1. PICK c \in Clients :
        \/ \E ops \in Calls : apply_batch(c, ops)
        \/ invalid(c) \/ set_lookup(c) \/ set_room(c) \/ set_insert(c)
        \/ delete(c) \/ get(c)
        \/ clear(c) \/ clear_done(c)
        \/ create_snapshot(c) \/ snapshot_done(c)
        \/ restore_snapshot(c) \/ restore_cleared(c) \/ restore_done(c)
        \/ \E k \in Keys : clear_shard(c, k) \/ scan_shard(c, k) \/ fill_shard(c, k)
        \/ increment_operation_count(c) \/ publish(c)
  BY DEF Next
<1> DEFINE Kept == /\ RoomFor(c)' /\ len(data') <= max_keys
                   /\ snapshot' \in Snapshot => len(snapshot'.data) <= max_keys
<1>2. CASE \E ops \in Calls : apply_batch(c, ops)
  <2>1. SUFFICES ASSUME ~overlapped'  PROVE AloneInv'
    BY DEF AloneInv
  <2>2. /\ ~overlapped /\ Quiet /\ UNCHANGED <<data, snapshot>>
        /\ stage' = [stage EXCEPT ![c] = "start"]
    BY <1>2, <2>1 DEF apply_batch
  <2>3. \A d \in Clients : stage'[d] = IF d = c THEN "start" ELSE "idle"
    BY <2>2 DEF Quiet, Basic, TypeOK
  <2> QED  BY <2>2, <2>3 DEF AloneInv, RoomFor, len, KeysOf
<1>3. CASE invalid(c)
  <2>1. ~overlapped => Kept
    BY <1>3 DEF invalid, Basic, TypeOK, AloneInv, RoomFor
  <2> QED  BY <1>3, <2>1, AloneKept DEF invalid, Basic, TypeOK
<1>4. CASE get(c)
  <2>1. ~overlapped => Kept
    BY <1>4 DEF get, Basic, TypeOK, AloneInv, RoomFor
  <2> QED  BY <1>4, <2>1, AloneKept DEF get, Basic, TypeOK
<1>5. CASE clear(c)
  <2>1. ~overlapped => Kept
    BY <1>5 DEF clear, Basic, TypeOK, AloneInv, RoomFor, Op
  <2> QED  BY <1>5, <2>1, AloneKept DEF clear, Basic, TypeOK
<1>6. CASE clear_done(c)
  <2>1. ~overlapped => Kept
    BY <1>6 DEF clear_done, Basic, TypeOK, AloneInv, RoomFor
  <2> QED  BY <1>6, <2>1, AloneKept DEF clear_done, Basic, TypeOK
<1>7. CASE increment_operation_count(c)
  <2>1. ~overlapped => Kept
    BY <1>7 DEF increment_operation_count, Basic, TypeOK, AloneInv, RoomFor
  <2> QED  BY <1>7, <2>1, AloneKept DEF increment_operation_count, Basic, TypeOK
<1>8. CASE publish(c)
  <2>1. ~overlapped => Kept
    BY <1>8 DEF publish, Basic, TypeOK, AloneInv, RoomFor
  <2> QED  BY <1>8, <2>1, AloneKept DEF publish, Basic, TypeOK
<1>9. CASE create_snapshot(c)
  <2>1. ~overlapped => Kept
    BY <1>9, EmptyMap DEF create_snapshot, Basic, TypeOK, AloneInv, RoomFor, Snapshot
  <2> QED  BY <1>9, <2>1, AloneKept DEF create_snapshot, Basic, TypeOK
<1>10. CASE restore_done(c)
  <2>1. ~overlapped => Kept
    BY <1>10 DEF restore_done, Basic, TypeOK, AloneInv, RoomFor
  <2> QED  BY <1>10, <2>1, AloneKept DEF restore_done, Basic, TypeOK
<1>11. CASE set_lookup(c)
  <2>1. len(data') <= len(data) /\ len(data') \in Nat /\ len(data) \in Nat
    BY <1>11, KeysWritten, Lengths
  <2>2. ~overlapped => Kept
    BY <1>11, <2>1, StoreAssumption DEF set_lookup, Basic, TypeOK, AloneInv, RoomFor
  <2> QED  BY <1>11, <2>2, AloneKept DEF set_lookup, Basic, TypeOK
<1>12. CASE delete(c)
  <2>1. len(data') <= len(data) /\ len(data') \in Nat /\ len(data) \in Nat
    BY <1>12, KeysWritten, Lengths
  <2>2. ~overlapped => Kept
    BY <1>12, <2>1, StoreAssumption DEF delete, Basic, TypeOK, AloneInv, RoomFor
  <2> QED  BY <1>12, <2>2, AloneKept DEF delete, Basic, TypeOK
<1>13. CASE set_room(c)
  <2>1. ~overlapped => Kept
    BY <1>13 DEF set_room, HasRoom, Basic, TypeOK, AloneInv, RoomFor, len, KeysOf
  <2> QED  BY <1>13, <2>1, AloneKept DEF set_room, Basic, TypeOK
<1>14. CASE set_insert(c)
  <2>1. Op(c).key \in Keys /\ KeysOf(data') \subseteq KeysOf(data) \cup {Op(c).key}
    BY <1>14, KeysWritten
  <2>2. len(data') <= len(data) + 1 /\ len(data') \in Nat /\ len(data) \in Nat
    BY <2>1, Lengths
  <2>3. ~overlapped => Kept
    BY <1>14, <2>2, StoreAssumption DEF set_insert, Basic, TypeOK, AloneInv, RoomFor
  <2> QED  BY <1>14, <2>3, AloneKept DEF set_insert, Basic, TypeOK
<1>15. CASE snapshot_done(c)
  <2>1. snapshot'.data = copy[c].data /\ UNCHANGED data
    BY <1>15 DEF snapshot_done
  <2>2. len(snapshot'.data) \in Nat /\ len(data) \in Nat
    BY Lengths
  <2>3. ~overlapped => len(snapshot'.data) <= max_keys
    <3>1. ~overlapped => KeysOf(snapshot'.data) \subseteq KeysOf(data) /\ len(data) <= max_keys
      BY <1>15, <2>1 DEF snapshot_done, AloneInv, RoomFor
    <3> QED  BY <2>2, <3>1, Lengths, StoreAssumption
  <2>4. ~overlapped => Kept
    BY <1>15, <2>3 DEF snapshot_done, Basic, TypeOK, AloneInv, RoomFor
  <2> QED  BY <1>15, <2>4, AloneKept DEF snapshot_done, Basic, TypeOK
<1>16. CASE restore_snapshot(c)
  <2>1. snapshot \in Snapshot
    BY <1>16, Current DEF restore_snapshot
  <2>2. /\ KeysOf(data)' \subseteq Keys /\ UNCHANGED <<data, snapshot>>
        /\ \/ stage'[c] = "idle"
           \/ stage'[c] = "clearing" /\ copy'[c] = snapshot /\ left'[c] = Keys
    BY <1>16 DEF KeysOf, restore_snapshot, Basic, TypeOK
  <2>3. ~overlapped => len(snapshot.data) <= max_keys
    BY <2>1 DEF AloneInv
  <2>4. len(copy[c].data)' = len(copy'[c].data)
    BY DEF len, KeysOf
  <2>5. ~overlapped => RoomFor(c)'
    BY <2>2, <2>3, <2>4 DEF RoomFor
  <2>6. ~overlapped => Kept
    BY <2>2, <2>5 DEF AloneInv
  <2> QED  BY <1>16, <2>6, AloneKept DEF restore_snapshot, Basic, TypeOK
<1>17. CASE restore_cleared(c)
  <2>1. ~overlapped => len(copy[c].data) <= max_keys /\ KeysOf(data) = {} /\ len(data) <= max_keys
    BY <1>17 DEF restore_cleared, AloneInv, RoomFor
  <2>2. /\ stage'[c] = "filling" /\ left'[c] = KeysOf(copy[c].data) /\ UNCHANGED <<copy, data, snapshot>>
    BY <1>17 DEF restore_cleared, Basic, TypeOK
  <2>3. ~overlapped => RoomFor(c)'
    BY <2>1, <2>2 DEF RoomFor, len, KeysOf
  <2>4. ~overlapped => Kept
    BY <2>1, <2>2, <2>3 DEF AloneInv
  <2> QED  BY <1>17, <2>4, AloneKept DEF restore_cleared, Basic, TypeOK
<1>18. ASSUME NEW k \in Keys, clear_shard(c, k)  PROVE AloneInv'
  <2>1. KeysOf(data') = KeysOf(data) \ {k}
    BY <1>18, KeysWritten
  <2>2. len(data') <= len(data) /\ len(data') \in Nat /\ len(data) \in Nat
    BY <2>1, Lengths
  <2>3. stage'[c] = "clearing" /\ left'[c] = left[c] \ {k} /\ UNCHANGED <<copy, snapshot, todo>>
    BY <1>18 DEF clear_shard, Basic, TypeOK
  <2>4. KeysOf(data)' = KeysOf(data')
    BY DEF KeysOf
  <2>5. ~overlapped => RoomFor(c)'
    BY <1>18, <2>1, <2>3, <2>4 DEF clear_shard, AloneInv, RoomFor, Op, len, KeysOf
  <2>6. ~overlapped => Kept
    BY <2>2, <2>3, <2>5, StoreAssumption DEF AloneInv
  <2> QED  BY <1>18, <2>6, AloneKept DEF clear_shard, Basic, TypeOK
<1>19. ASSUME NEW k \in Keys, scan_shard(c, k)  PROVE AloneInv'
  <2>1. /\ stage'[c] = "scanning" /\ UNCHANGED <<data, snapshot>>
        /\ copy'[c].data = [copy[c].data EXCEPT ![k] = data[k]] /\ copy[c].data \in Map
    BY <1>19 DEF scan_shard, Basic, TypeOK, Snapshot
  <2>2. ~overlapped => KeysOf(copy'[c].data) \subseteq KeysOf(data')
    BY <1>19, <2>1 DEF scan_shard, AloneInv, RoomFor, KeysOf, Map
  <2>3. ~overlapped => RoomFor(c)'
    BY <2>1, <2>2 DEF RoomFor, KeysOf
  <2>4. ~overlapped => Kept
    BY <2>1, <2>3 DEF AloneInv
  <2> QED  BY <1>19, <2>4, AloneKept DEF scan_shard, Basic, TypeOK
<1>20. ASSUME NEW k \in Keys, fill_shard(c, k)  PROVE AloneInv'
  <2>1. KeysOf(data') \subseteq KeysOf(data) \cup {k}
    BY <1>20, KeysWritten
  <2>2. stage'[c] = "filling" /\ left'[c] = left[c] \ {k} /\ UNCHANGED <<copy, snapshot>>
    BY <1>20 DEF fill_shard, Basic, TypeOK
  <2>3. ~overlapped => /\ len(copy[c].data) <= max_keys
                       /\ left[c] \cup KeysOf(data') \subseteq KeysOf(copy[c].data)
    BY <1>20, <2>1 DEF fill_shard, AloneInv, RoomFor
  <2>4. ~overlapped => len(data') <= len(copy[c].data)
    BY <2>3, Lengths
  <2>5. len(data') \in Nat /\ len(copy[c].data) \in Nat
    BY Lengths
  <2>6. ~overlapped => RoomFor(c)'
    BY <2>2, <2>3 DEF RoomFor, len, KeysOf
  <2>7. ~overlapped => Kept
    BY <2>2, <2>3, <2>4, <2>5, <2>6, StoreAssumption DEF AloneInv
  <2> QED  BY <1>20, <2>7, AloneKept DEF fill_shard, Basic, TypeOK
<1> QED  BY <1>1, <1>2, <1>3, <1>4, <1>5, <1>6, <1>7, <1>8, <1>9, <1>10, <1>11, <1>12, <1>13, <1>14, <1>15, <1>16, <1>17, <1>18, <1>19, <1>20

-----------------------------------------------------------------------------
(* What the notifications tell                                               *)

AboutIn(ev, k) == {i \in 1..Len(ev) : ev[i].key = k \/ ev[i].type = "Cleared"}
ValueOf(d, k)  == IF d[k] = None THEN None ELSE d[k].value

\* The notifications ev leave value v for key k.
Tells(ev, k, v) ==
  /\ AboutIn(ev, k) = {} => v = None
  /\ \A i \in AboutIn(ev, k) : (\A j \in AboutIn(ev, k) : j <= i) => v = ev[i].new

Told(ev, d) == \A k \in Keys : Tells(ev, k, ValueOf(d, k))

\* There is a last notification about a key, if there is one, and each one
\* about it reports as old value what the one before left.
Chained(ev, k) ==
  /\ AboutIn(ev, k) # {} => \E i \in AboutIn(ev, k) : \A j \in AboutIn(ev, k) : j <= i
  /\ \A i \in AboutIn(ev, k) : ev[i].type # "Cleared" =>
       LET earlier == {j \in AboutIn(ev, k) : j < i} IN
       IF earlier = {} THEN ev[i].old = None
       ELSE \E j \in earlier : /\ \A x \in earlier : x <= j
                               /\ ev[i].old = ev[j].new

\* What the notification e, still to be published, adds for key k.
Adds(e, ev, d, k) ==
  IF e.key = k \/ e.type = "Cleared"
  THEN ValueOf(d, k) = e.new /\ (e.type # "Cleared" => Tells(ev, k, e.old))
  ELSE Tells(ev, k, ValueOf(d, k))

\* What the client that runs has still to tell.
ToTell(c) ==
  /\ stage[c] \in {"idle", "start", "room", "insert", "scanning"} => event[c] = None
  /\ stage[c] \in {"start", "room", "insert", "scanning"} => Told(events, data)
  /\ stage[c] \in {"room", "insert"} => data[Op(c).key] = None
  /\ stage[c] = "clearing" =>
       IF event[c] = None THEN Told(events, data) /\ KeysOf(data) = {}
       ELSE /\ event[c].type = "Cleared" /\ event[c].new = None
            /\ KeysOf(data) \subseteq left[c]
  /\ stage[c] \in {"count", "publish"} =>
       IF event[c] = None THEN Told(events, data)
       ELSE \A k \in Keys : Adds(event[c], events, data, k)

TellInv ==
  enable_notifications /\ ~overlapped /\ ~restored =>
    /\ \A k \in Keys : Chained(events, k)
    /\ Quiet => Told(events, data)
    /\ \A c \in Clients : ToTell(c)

\* A notification more, about key k or not.
LEMMA OneMore ==
  ASSUME NEW ev \in Seq(Event), NEW e \in Event, NEW k \in Keys
  PROVE  LET more == Append(ev, e)
             n    == Len(ev) + 1
         IN  /\ n \in Nat /\ more[n] = e
             /\ \A i \in AboutIn(ev, k) : i \in 1..Len(ev) /\ i < n /\ more[i] = ev[i]
             /\ AboutIn(more, k) = AboutIn(ev, k) \cup
                  (IF e.key = k \/ e.type = "Cleared" THEN {n} ELSE {})
<1> DEFINE more == Append(ev, e)
           n    == Len(ev) + 1
<1>1. Len(ev) \in Nat
  BY LenProperties
<1>2. Len(more) = n /\ more[n] = e /\ \A i \in 1..Len(ev) : more[i] = ev[i]
  BY <1>1
<1>3. \A i : i \in 1..n <=> i \in 1..Len(ev) \/ i = n
  BY <1>1
<1>4. \A i \in 1..Len(ev) : i < n /\ i # n
  BY <1>1
<1> HIDE DEF more, n
<1>5. AboutIn(more, k) = AboutIn(ev, k) \cup (IF e.key = k \/ e.type = "Cleared" THEN {n} ELSE {})
  BY <1>2, <1>3, <1>4 DEF AboutIn
<1>6. \A i \in AboutIn(ev, k) : i \in 1..Len(ev) /\ i < n /\ more[i] = ev[i]
  BY <1>2, <1>4 DEF AboutIn
<1>7. n \in Nat
  BY <1>1 DEF n
<1> QED  BY <1>2, <1>5, <1>6, <1>7 DEF more, n

\* Once it is published, a notification tells what it had to add.
LEMMA Published ==
  ASSUME NEW ev \in Seq(Event), NEW e \in Event, NEW d, NEW k \in Keys,
         Chained(ev, k), Adds(e, ev, d, k)
  PROVE  Tells(Append(ev, e), k, ValueOf(d, k)) /\ Chained(Append(ev, e), k)
<1> DEFINE more == Append(ev, e)
           n    == Len(ev) + 1
           A    == AboutIn(ev, k)
           B    == AboutIn(more, k)
<1>1. /\ n \in Nat /\ more[n] = e
      /\ \A i \in A : i \in Nat /\ i < n /\ more[i] = ev[i]
      /\ B = A \cup (IF e.key = k \/ e.type = "Cleared" THEN {n} ELSE {})
  <2>1. Len(ev) \in Nat
    BY LenProperties
  <2> QED  BY <2>1, OneMore
<1> HIDE DEF more, n, A, B
<1>2. CASE ~(e.key = k \/ e.type = "Cleared")
  <2>1. B = A /\ \A i \in A : more[i] = ev[i]
    BY <1>1, <1>2
  <2>2. Tells(more, k, ValueOf(d, k))
    BY <2>1, <1>2 DEF Adds, Tells, A, B
  <2>3. Chained(more, k)
    BY <2>1 DEF Chained, A, B
  <2> QED  BY <2>2, <2>3 DEF more
<1>3. CASE e.key = k \/ e.type = "Cleared"
  <2>1. /\ B = A \cup {n} /\ n \notin A /\ \A i \in B : i <= n
        /\ \A i \in A : i \in Nat /\ i < n /\ more[i] = ev[i]
    BY <1>1, <1>3
  <2>2. \A i \in B : (\A j \in B : j <= i) => i = n
    BY <1>1, <2>1
  <2>3. Tells(more, k, ValueOf(d, k))
    BY <1>1, <1>3, <2>1, <2>2 DEF Tells, Adds, B
  <2>4. \E i \in B : \A j \in B : j <= i
    BY <2>1
  <2>5. ASSUME NEW i \in A
        PROVE  {j \in B : j < i} = {j \in A : j < i}
    BY <1>1, <2>1
  <2>6. {j \in B : j < n} = A
    BY <1>1, <2>1
  <2>7. ASSUME NEW i \in A, more[i].type # "Cleared"
        PROVE  LET earlier == {j \in B : j < i} IN
               IF earlier = {} THEN more[i].old = None
               ELSE \E j \in earlier : /\ \A x \in earlier : x <= j
                                       /\ more[i].old = more[j].new
    <3>1. more[i] = ev[i] /\ \A j \in {x \in A : x < i} : more[j] = ev[j]
      BY <1>1
    <3> QED  BY <2>5, <2>7, <3>1 DEF Chained, A
  <2>8. ASSUME e.type # "Cleared"
        PROVE  IF A = {} THEN e.old = None
               ELSE \E j \in A : (\A x \in A : x <= j) /\ e.old = more[j].new
    <3>1. Tells(ev, k, e.old)
      BY <1>3, <2>8 DEF Adds
    <3> QED  BY <1>1, <3>1 DEF Tells, Chained, A
  <2>9. Chained(more, k)
    BY <1>1, <2>1, <2>4, <2>6, <2>7, <2>8 DEF Chained, B
  <2> QED  BY <2>3, <2>9 DEF more
<1> QED  BY <1>2, <1>3

\* The notification of a change of key k, made in a map that was told.
LEMMA Written ==
  ASSUME NEW ev, NEW d \in Map, NEW k \in Keys, NEW x, Told(ev, d),
         NEW type \in {"Created", "Updated", "Deleted"}, NEW new,
         new = IF x = None THEN None ELSE x.value,
         NEW e, e = Change(type, k, ValueOf(d, k), new), NEW f, f = [d EXCEPT ![k] = x]
  PROVE  \A j \in Keys : Adds(e, ev, f, j)
<1>1. e.key = k /\ e.type # "Cleared" /\ e.old = ValueOf(d, k) /\ e.new = new
  BY DEF Change
<1>2. \A j \in Keys : f[j] = IF j = k THEN x ELSE d[j]
  BY DEF Map
<1>3. ASSUME NEW j \in Keys  PROVE  Adds(e, ev, f, j)
  <2>1. Tells(ev, j, ValueOf(d, j))
    BY DEF Told
  <2>2. j = k => ValueOf(f, j) = new
    BY <1>2 DEF ValueOf
  <2>3. j # k => ValueOf(f, j) = ValueOf(d, j)
    BY <1>2 DEF ValueOf
  <2> QED  BY <1>1, <2>1, <2>2, <2>3 DEF Adds
<1> QED  BY <1>3

\* Only the client that runs matters.
LEMMA TellKept ==
  ASSUME AloneInv, TellInv, NEW c \in Clients, stage[c] # "idle", UNCHANGED overlapped,
         restored => restored',
         \A d \in Clients \ {c} : stage'[d] = stage[d] /\ event'[d] = event[d],
         enable_notifications /\ ~overlapped /\ ~restored' =>
           /\ \A k \in Keys : Chained(events', k)
           /\ ToTell(c)'
           /\ stage'[c] = "idle" => Told(events', data')
  PROVE  TellInv'
<1> SUFFICES ASSUME enable_notifications, ~overlapped, ~restored'  PROVE TellInv'
  BY DEF TellInv
<1>1. \A d \in Clients \ {c} : stage'[d] = "idle" /\ event'[d] = None
  BY DEF AloneInv, TellInv, ToTell
<1>2. \A d \in Clients : ToTell(d)'
  BY <1>1 DEF ToTell
<1>3. Quiet' => Told(events', data')
  BY DEF Quiet
<1> QED  BY <1>2, <1>3 DEF TellInv

\* Every step keeps the record of the notifications complete while calls do not
\* overlap.
LEMMA TellStep ==
  ASSUME Basic, Basic', AloneInv, TellInv, Next
  PROVE  TellInv'
<1> USE DEF Goto, CallFails, OpDone, At, shared, rest
<1>1. PICK c \in Clients :
        \/ \E ops \in Calls : apply_batch(c, ops)
        \/ invalid(c) \/ set_lookup(c) \/ set_room(c) \/ set_insert(c)
        \/ delete(c) \/ get(c)
        \/ clear(c) \/ clear_done(c)
        \/ create_snapshot(c) \/ snapshot_done(c)
        \/ restore_snapshot(c) \/ restore_cleared(c) \/ restore_done(c)
        \/ \E k \in Keys : clear_shard(c, k) \/ scan_shard(c, k) \/ fill_shard(c, k)
        \/ increment_operation_count(c) \/ publish(c)
  BY DEF Next
<1> DEFINE On == enable_notifications /\ ~overlapped /\ ~restored
           Kept == /\ \A k \in Keys : Chained(events', k)
                   /\ ToTell(c)'
                   /\ stage'[c] = "idle" => Told(events', data')
<1>2. CASE \E ops \in Calls : apply_batch(c, ops)
  <2>1. SUFFICES ASSUME ~overlapped', ~restored', enable_notifications  PROVE TellInv'
    BY DEF TellInv
  <2>2. /\ ~overlapped /\ ~restored /\ Quiet /\ UNCHANGED <<data, events, event>>
        /\ stage' = [stage EXCEPT ![c] = "start"]
    <3>1. UNCHANGED restored /\ overlapped' = (overlapped \/ ~Quiet)
      BY <1>2 DEF apply_batch
    <3>2. UNCHANGED <<data, events, event>> /\ stage' = [stage EXCEPT ![c] = "start"]
      BY <1>2 DEF apply_batch
    <3> QED  BY <2>1, <3>1, <3>2
  <2>3. \A d \in Clients : stage'[d] = IF d = c THEN "start" ELSE "idle"
    BY <2>2 DEF Quiet, Basic, TypeOK
  <2>4. Told(events, data) /\ \A d \in Clients : event[d] = None
    BY <2>1, <2>2 DEF TellInv, ToTell, Quiet
  <2>5. \A d \in Clients : ToTell(d)'
    BY <2>2, <2>3, <2>4 DEF ToTell
  <2> QED  BY <2>1, <2>2, <2>4, <2>5 DEF TellInv
<1>3. ASSUME On
      PROVE  /\ ToTell(c) /\ \A k \in Keys : Chained(events, k)
  BY <1>3 DEF TellInv
<1>4. CASE invalid(c)
  <2>1. On => Kept
    BY <1>3, <1>4 DEF invalid, Basic, TypeOK, ToTell, Op
  <2> QED  BY <1>4, <2>1, TellKept DEF invalid, Basic, TypeOK
<1>5. CASE get(c)
  <2>1. On => Kept
    BY <1>3, <1>5 DEF get, Basic, TypeOK, ToTell, Op
  <2> QED  BY <1>5, <2>1, TellKept DEF get, Basic, TypeOK
<1>6. CASE clear_done(c)
  <2>1. On => Kept
    <3>1. /\ stage[c] = "clearing" /\ stage'[c] = "count" /\ left[c] = {}
          /\ UNCHANGED <<data, events, event>>
      BY <1>6 DEF clear_done, Basic, TypeOK
    <3>2. KeysOf(data) = {} => \A k \in Keys : ValueOf(data, k) = None
      BY DEF KeysOf, ValueOf
    <3> QED  BY <1>3, <3>1, <3>2 DEF ToTell, Adds
  <2> QED  BY <1>6, <2>1, TellKept DEF clear_done, Basic, TypeOK
<1>7. CASE create_snapshot(c)
  <2>1. On => Kept
    BY <1>3, <1>7 DEF create_snapshot, Basic, TypeOK, ToTell, Op
  <2> QED  BY <1>7, <2>1, TellKept DEF create_snapshot, Basic, TypeOK
<1>8. CASE snapshot_done(c)
  <2>1. On => Kept
    BY <1>3, <1>8 DEF snapshot_done, Basic, TypeOK, ToTell, Op
  <2> QED  BY <1>8, <2>1, TellKept DEF snapshot_done, Basic, TypeOK
<1>9. CASE set_room(c)
  <2>1. On => Kept
    BY <1>3, <1>9 DEF set_room, Basic, TypeOK, ToTell, Op
  <2> QED  BY <1>9, <2>1, TellKept DEF set_room, Basic, TypeOK
<1>10. CASE clear(c)
  <2>1. KeysOf(data') \subseteq Keys
    BY DEF KeysOf
  <2>2. len(data) = 0 => KeysOf(data) = {}
    <3>1. IsFiniteSet(KeysOf(data))
      BY StoreAssumption, FS_Subset DEF KeysOf
    <3> QED  BY <3>1, FS_EmptySet DEF len
  <2>3. Change("Cleared", "*", None, None) \in Event
    BY Changes
  <2>4. /\ stage'[c] = "clearing" /\ left'[c] = Keys /\ UNCHANGED <<data, events>>
        /\ event'[c] = IF len(data) = 0 THEN None ELSE Change("Cleared", "*", None, None)
    BY <1>10 DEF clear, Basic, TypeOK
  <2>5. On => ToTell(c)'
    BY <1>3, <1>10, <2>1, <2>2, <2>3, <2>4, StoreAssumption
       DEF clear, ToTell, Change, KeysOf
  <2>6. On => Kept
    BY <1>3, <2>4, <2>5
  <2> QED  BY <1>10, <2>6, TellKept DEF clear, Basic, TypeOK
<1>11. CASE set_lookup(c)
  <2>1. CASE UNCHANGED <<data, event>> /\ data[Op(c).key] = None
    <3>1. On => Kept
      BY <1>3, <1>11, <2>1 DEF set_lookup, Basic, TypeOK, ToTell, Op
    <3> QED  BY <1>11, <3>1, TellKept DEF set_lookup, Basic, TypeOK
  <2>2. CASE data[Op(c).key] # None
    <3> DEFINE k == Op(c).key
               x == [value |-> Op(c).value, version |-> data[k].version + 1]
    <3>1. k \in Keys /\ Op(c).value \in Values
      BY <1>11, Current, Arguments DEF set_lookup
    <3>2. x \in Entry /\ x.value = Op(c).value
      BY <3>1, <2>2 DEF Basic, TypeOK, Map, Entry
    <3>3. Change("Updated", k, ValueOf(data, k), x.value) \in Event
      BY <3>1, <3>2, DeleteMap, Changes DEF Basic, TypeOK, OldValue, ValueOf
    <3>4. /\ stage'[c] = "count" /\ UNCHANGED events /\ data' = [data EXCEPT ![k] = x]
          /\ event'[c] = Change("Updated", k, ValueOf(data, k), x.value)
      BY <1>11, <2>2 DEF set_lookup, Basic, TypeOK, OldValue, ValueOf
    <3>5. data \in Map /\ x # None /\ event'[c] # None
      BY <3>2, <3>3, <3>4, StoreAssumption DEF Basic, TypeOK
    <3> HIDE DEF k, x
    <3>6. On => \A j \in Keys : Adds(event'[c], events', data', j)
      <4>1. x.value = IF x = None THEN None ELSE x.value
        BY <3>5
      <4>2. On => Told(events, data)
        BY <1>3, <1>11 DEF set_lookup, ToTell
      <4> QED  BY <3>1, <3>4, <3>5, <4>1, <4>2, Written, Zenon
    <3>7. On => Kept
      BY <1>3, <3>4, <3>5, <3>6 DEF ToTell
    <3> QED  BY <1>11, <3>7, TellKept DEF set_lookup, Basic, TypeOK
  <2> QED  BY <1>11, <2>1, <2>2 DEF set_lookup
<1>12. CASE set_insert(c)
  <2> DEFINE k == Op(c).key
             x == [value |-> Op(c).value, version |-> 1]
  <2>1. k \in Keys /\ Op(c).value \in Values
    BY <1>12, Current, Arguments DEF set_insert
  <2>2. x \in Entry /\ x.value = Op(c).value
    BY <2>1 DEF Entry
  <2>3. Change("Created", k, None, x.value) \in Event
    BY <2>1, <2>2, Changes
  <2>4. /\ stage'[c] = "count" /\ UNCHANGED events /\ data' = [data EXCEPT ![k] = x]
        /\ event'[c] = Change("Created", k, None, x.value)
    BY <1>12 DEF set_insert, Basic, TypeOK
  <2>5. data \in Map /\ x # None /\ event'[c] # None
    BY <2>2, <2>3, <2>4, StoreAssumption DEF Basic, TypeOK
  <2>6. On => ValueOf(data, k) = None /\ Told(events, data)
    BY <1>3, <1>12 DEF set_insert, ToTell, ValueOf
  <2> HIDE DEF k, x
  <2>7. On => \A j \in Keys : Adds(event'[c], events', data', j)
    <3>1. x.value = IF x = None THEN None ELSE x.value
      BY <2>5
    <3> QED  BY <2>1, <2>4, <2>5, <2>6, <3>1, Written, Zenon
  <2>8. On => Kept
    BY <1>3, <2>4, <2>5, <2>7 DEF ToTell
  <2> QED  BY <1>12, <2>8, TellKept DEF set_insert, Basic, TypeOK
<1>13. CASE delete(c)
  <2> DEFINE k == Op(c).key
  <2>1. k \in Keys
    BY <1>13, Current, Arguments DEF delete
  <2>2. ValueOf(data, k) \in Values \cup {None} /\ data \in Map
    BY <2>1, DeleteMap DEF Basic, TypeOK, OldValue, ValueOf
  <2>3. Change("Deleted", k, ValueOf(data, k), None) \in Event
    BY <2>1, <2>2, Changes
  <2>4. /\ stage'[c] = "count" /\ UNCHANGED events /\ data' = [data EXCEPT ![k] = None]
        /\ event'[c] = IF data[k] = None THEN None ELSE Change("Deleted", k, ValueOf(data, k), None)
    BY <1>13 DEF delete, Basic, TypeOK, OldValue, ValueOf
  <2>5. On => Told(events, data)
    BY <1>3, <1>13 DEF delete, ToTell
  <2> HIDE DEF k
  <2>6. CASE data[k] = None
    <3>1. data' = data /\ event'[c] = None
      BY <2>2, <2>4, <2>6 DEF Map
    <3>2. On => Kept
      BY <1>3, <2>4, <2>5, <3>1 DEF ToTell
    <3> QED  BY <1>13, <3>2, TellKept DEF delete, Basic, TypeOK
  <2>7. CASE data[k] # None
    <3>1. event'[c] # None /\ event'[c] = Change("Deleted", k, ValueOf(data, k), None)
      BY <2>3, <2>4, <2>7, StoreAssumption
    <3>2. On => \A j \in Keys : Adds(event'[c], events', data', j)
      BY <2>1, <2>2, <2>4, <2>5, <3>1, Written, Zenon
    <3>3. On => Kept
      BY <1>3, <2>4, <3>1, <3>2 DEF ToTell
    <3> QED  BY <1>13, <3>3, TellKept DEF delete, Basic, TypeOK
  <2> QED  BY <2>6, <2>7
<1>14. CASE restore_snapshot(c)
  <2>1. On /\ ~restored' => Kept
    BY <1>3, <1>14 DEF restore_snapshot, Basic, TypeOK, ToTell, Op
  <2> QED  BY <1>14, <2>1, TellKept DEF restore_snapshot, Basic, TypeOK
<1>15. CASE restore_cleared(c)
  BY <1>15 DEF restore_cleared, TellInv, Basic, Placed, PlacedFor
<1>16. CASE restore_done(c)
  BY <1>16 DEF restore_done, TellInv, Basic, Placed, PlacedFor
<1>17. ASSUME NEW k \in Keys, clear_shard(c, k)  PROVE TellInv'
  <2>1. KeysOf(data') = KeysOf(data) \ {k} /\ KeysOf(data)' = KeysOf(data')
    BY <1>17, KeysWritten DEF KeysOf
  <2>2. /\ stage[c] = "clearing" /\ stage'[c] = "clearing" /\ left'[c] = left[c] \ {k}
        /\ UNCHANGED <<events, event>> /\ data' = [data EXCEPT ![k] = None] /\ data \in Map
    BY <1>17 DEF clear_shard, Basic, TypeOK
  <2>3. KeysOf(data) = {} => data' = data
    BY <2>2 DEF KeysOf, Map
  <2>4. On => Kept
    BY <1>3, <2>1, <2>2, <2>3 DEF ToTell
  <2> QED  BY <1>17, <2>4, TellKept DEF clear_shard
<1>18. ASSUME NEW k \in Keys, scan_shard(c, k)  PROVE TellInv'
  <2>1. On => Kept
    BY <1>3, <1>18 DEF scan_shard, ToTell
  <2> QED  BY <1>18, <2>1, TellKept DEF scan_shard
<1>19. ASSUME NEW k \in Keys, fill_shard(c, k)  PROVE TellInv'
  BY <1>19 DEF fill_shard, TellInv, Basic, Placed, PlacedFor
<1>20. CASE increment_operation_count(c)
  <2>1. CASE enable_notifications /\ event[c] # None
    <3> DEFINE e == [event[c] EXCEPT !.version = version]
    <3>1. /\ stage[c] = "count" /\ stage'[c] = "publish" /\ event'[c] = e
          /\ UNCHANGED <<events, data>> /\ event[c] \in Event
      BY <1>20, <2>1 DEF increment_operation_count, Basic, TypeOK
    <3>2. /\ e \in Event /\ e.key = event[c].key /\ e.type = event[c].type
          /\ e.old = event[c].old /\ e.new = event[c].new
      BY <3>1 DEF Event, Basic, TypeOK
    <3>3. e # None
      BY <3>2, StoreAssumption
    <3> HIDE DEF e
    <3>4. On => \A k \in Keys : Adds(e, events, data, k)
      BY <1>3, <2>1, <3>1, <3>2 DEF ToTell, Adds
    <3>5. On => Kept
      BY <1>3, <3>1, <3>3, <3>4 DEF ToTell
    <3> QED  BY <1>20, <3>5, TellKept DEF increment_operation_count, Basic, TypeOK
  <2>2. CASE ~(enable_notifications /\ event[c] # None)
    <3>1. /\ stage[c] = "count" /\ stage'[c] \in {"idle", "start"} /\ event'[c] = None
          /\ UNCHANGED <<events, data>>
      BY <1>20, <2>2 DEF increment_operation_count, Basic, TypeOK
    <3>2. On => Kept
      BY <1>3, <2>2, <3>1 DEF ToTell
    <3> QED  BY <1>20, <2>2, <3>2, TellKept DEF increment_operation_count, Basic, TypeOK
  <2> QED  BY <2>1, <2>2
<1>21. CASE publish(c)
  <2>1. /\ stage[c] = "publish" /\ stage'[c] \in {"idle", "start"} /\ event'[c] = None
        /\ events' = Append(events, event[c]) /\ UNCHANGED data /\ events \in Seq(Event)
    BY <1>21 DEF publish, Basic, TypeOK
  <2>2. event[c] \in Event /\ event[c] # None
    BY <2>1, StoreAssumption DEF Basic, Placed, PlacedFor
  <2>3. ASSUME On, NEW k \in Keys
        PROVE  Tells(events', k, ValueOf(data, k)) /\ Chained(events', k)
    BY <1>3, <2>1, <2>2, <2>3, Published DEF ToTell
  <2>4. On => Kept
    BY <2>1, <2>3 DEF ToTell, Told
  <2> QED  BY <1>21, <2>4, TellKept DEF publish, Basic, TypeOK
<1> QED  BY <1>1, <1>2, <1>4, <1>5, <1>6, <1>7, <1>8, <1>9, <1>10, <1>11, <1>12, <1>13, <1>14, <1>15, <1>16, <1>17, <1>18, <1>19, <1>20, <1>21

-----------------------------------------------------------------------------
(* The theorems                                                              *)

StoreInv == Basic /\ VersionsInv /\ SizeInv /\ AloneInv /\ TellInv

\* An empty store satisfies the invariant.
LEMMA InitInv == Init => StoreInv
<1> SUFFICES ASSUME Init  PROVE StoreInv
  OBVIOUS
<1>1. <<>> \in Seq(Event) /\ <<>> \in Seq(Operation) /\ Len(<<>>) = 0
  BY EmptySeq
<1>2. Empty \in Map /\ KeysOf(Empty) = {}
  BY EmptyMap
<1>3. TypeOK
  BY <1>1, <1>2 DEF Init, TypeOK, Snapshot, Stages
<1>4. Placed
  BY <1>1 DEF Init, Placed, PlacedFor
<1>5. VersionsInv
  BY <1>1 DEF Init, VersionsInv, Drawn
<1>6. len(data) = 0
  BY <1>2, FS_EmptySet DEF Init, len
<1>7. SizeInv
  <2>1. Inserting = {}
    BY DEF Init, Inserting
  <2>2. Cardinality(Inserting) = 0
    BY <2>1, FS_EmptySet
  <2> QED  BY <1>6, <2>2, InsertingFinite, StoreAssumption DEF SizeInv
<1>8. AloneInv
  <2>1. snapshot = None
    BY DEF Init
  <2>2. snapshot \in Snapshot => len(snapshot.data) <= max_keys
    BY <2>1, StoreAssumption
  <2> QED  BY <1>6, <2>2, StoreAssumption DEF Init, AloneInv, RoomFor
<1>9. TellInv
  <2>1. \A k \in Keys : AboutIn(events, k) = {}
    BY <1>1 DEF Init, AboutIn
  <2>2. \A k \in Keys : ValueOf(data, k) = None
    BY DEF Init, Empty, ValueOf
  <2>3. Told(events, data) /\ \A k \in Keys : Chained(events, k)
    BY <2>1, <2>2 DEF Told, Tells, Chained
  <2>4. \A c \in Clients : ToTell(c)
    BY <2>3 DEF Init, ToTell
  <2> QED  BY <2>3, <2>4 DEF TellInv
<1> QED  BY <1>3, <1>4, <1>5, <1>7, <1>8, <1>9 DEF StoreInv, Basic

\* Every step keeps the invariant.
LEMMA NextInv == StoreInv /\ [Next]_vars => StoreInv'
<1> SUFFICES ASSUME StoreInv, [Next]_vars  PROVE StoreInv'
  OBVIOUS
<1>1. CASE Next
  <2>1. Basic'
    BY <1>1, BasicStep DEF StoreInv
  <2>2. VersionsInv' /\ SizeInv'
    BY <1>1, VersionsStep, SizeStep DEF StoreInv
  <2>3. AloneInv' /\ TellInv'
    BY <1>1, <2>1, AloneStep, TellStep DEF StoreInv
  <2> QED  BY <2>1, <2>2, <2>3 DEF StoreInv
<1>2. CASE UNCHANGED vars
  <2> USE <1>2 DEF vars
  <2>1. Basic'
    BY DEF StoreInv, Basic, TypeOK, Placed, PlacedFor, Op
  <2>2. VersionsInv'
    BY DEF StoreInv, VersionsInv, Drawn
  <2>3. SizeInv'
    BY DEF StoreInv, SizeInv, Inserting, len, KeysOf
  <2>4. AloneInv'
    BY DEF StoreInv, AloneInv, RoomFor, Op, len, KeysOf
  <2>5. TellInv'
    BY DEF StoreInv, TellInv, ToTell, Op, Quiet, KeysOf
  <2> QED  BY <2>1, <2>2, <2>3, <2>4, <2>5 DEF StoreInv
<1> QED  BY <1>1, <1>2

\* The invariant holds in every reachable state.
THEOREM StoreCorrect == Spec => []StoreInv
BY InitInv, NextInv, PTL DEF Spec

\* As long as nothing is restored, no two notifications carry the same version,
\* for any number of concurrent clients (get_version is one atomic step).
THEOREM VersionsStayUnique == Spec => []VersionsUnique
<1>1. StoreInv => VersionsUnique
  BY DEF StoreInv, VersionsInv, VersionsUnique
<1> QED  BY <1>1, StoreCorrect, PTL

\* The store exceeds max_keys by at most the number of concurrent clients less
\* one, and not at all while calls do not overlap, restores included.
THEOREM KeysStayBounded == Spec => []KeysBounded
<1>1. StoreInv => KeysBounded
  <2> SUFFICES ASSUME StoreInv  PROVE KeysBounded
    OBVIOUS
  <2>1. len(data) \in Nat
    BY Lengths
  <2> QED  BY <2>1, InsertingFinite, StoreAssumption DEF StoreInv, AloneInv, SizeInv, KeysBounded
<1> QED  BY <1>1, StoreCorrect, PTL

\* While calls do not overlap and nothing is restored, the notifications of set,
\* delete and clear are a complete and gapless record of the store.
THEOREM EventsStayComplete == Spec => []EventsTellState
<1>1. StoreInv => EventsTellState
  <2> SUFFICES ASSUME StoreInv, enable_notifications, Quiet, ~overlapped, ~restored
               PROVE  EventsTellState
    BY DEF EventsTellState
  <2>1. \A k \in Keys : Chained(events, k) /\ Tells(events, k, OldValue(k))
    BY DEF StoreInv, TellInv, Told, ValueOf, OldValue
  <2>2. \A k \in Keys : About(k) = AboutIn(events, k)
    BY DEF About, AboutIn
  <2>3. ASSUME NEW k \in Keys  PROVE  About(k) = {} => data[k] = None
    <3>1. About(k) = {} => OldValue(k) = None
      BY <2>1, <2>2 DEF Tells
    <3>2. data[k] \in Entry \cup {None}
      BY DEF StoreInv, Basic, TypeOK, Map
    <3>3. data[k] # None => data[k].value \in Values
      BY <3>2 DEF Entry
    <3> QED  BY <3>1, <3>3, StoreAssumption DEF OldValue
  <2> QED  BY <2>1, <2>2, <2>3 DEF EventsTellState, Chained, Tells, NewOf
<1> QED  BY <1>1, StoreCorrect, PTL
=============================================================================
