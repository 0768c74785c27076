-------------------------- MODULE NetworkSimulator --------------------------
(***************************************************************************)
(* The simulated network of rabia-testing/src/network_sim.rs.  The nodes     *)
(* call SimulatedNetwork, one call at a time each, and the calls interleave   *)
(* at the locks they take; one task delivers what is queued and forgets old   *)
(* partitions.  Time is abstract: a queued message may become due, and a       *)
(* partition expire, at any moment.  As the queue is served from its head and  *)
(* only while the head is due, the latencies drawn never reorder it, and a tick *)
(* that delivers several messages is as many deliveries.                       *)
(***************************************************************************)
EXTENDS Integers, Sequences, FiniteSets

CONSTANTS Nodes, None

\* What is queued and delivered, numbered by its sender; a partition; and how far
\* a node's call of send_to or broadcast has come.
Message   == [from : Nodes, to : Nodes, id : Nat]
Partition == [id : Nat, nodes : SUBSET Nodes, live : BOOLEAN]
Call      == [todo : SUBSET Nodes, at : {"next", "check", "queue"}, to : Nodes \cup {None},
              walls : SUBSET Nat]

ASSUME SimulatorAssumption == IsFiniteSet(Nodes) /\ None \notin Nodes /\ None \notin Call

VARIABLES
  nodes,       \* registered nodes
  open,        \* nodes whose receiver exists
  connected,   \* per node: SimulatedNetwork::connected_nodes
  conditions,  \* "default", "lossy" or "slow"
  partitions,  \* [id, nodes, live]; live until the duration is over
  pending,     \* pending_messages
  stats,       \* NetworkStats
  inbox,       \* per node: its channel
  calls,       \* per node: the send_to or broadcast under way, or None
  shutdown, running,
  sent_by,     \* per node: calls made, which number the messages
  lost,        \* history: messages to nodes that are gone, which no statistic counts
  heard        \* history, per receiver and sender: the message received last

simulatorVars == <<nodes, open, connected, conditions, partitions, pending, stats, inbox,
                   calls, shutdown, running, sent_by, lost, heard>>

\* new, then SimulatedNetwork::new for every node, with connect_to_nodes(view), as
\* the harness does it before the first engine runs
SimulatorInit(view) ==
  /\ nodes = Nodes /\ open = Nodes
  /\ connected = [n \in Nodes |-> view]
  /\ conditions = "default" /\ partitions = {} /\ pending = <<>>
  /\ stats = [messages_sent |-> 0, messages_delivered |-> 0, messages_dropped |-> 0]
  /\ inbox = [n \in Nodes |-> <<>>]
  /\ calls = [n \in Nodes |-> None]
  /\ shutdown = FALSE /\ running = TRUE
  /\ sent_by = [n \in Nodes |-> 0]
  /\ lost = 0
  /\ heard = [n \in Nodes |-> [m \in Nodes |-> 0]]

-----------------------------------------------------------------------------
(* Sending                                                                  *)

Separates(p, a, b) == (a \in p.nodes) # (b \in p.nodes)

\* mutant: only the partition created last is looked at
are_nodes_partitioned_last(a, b) ==
  \E p \in partitions : /\ \A q \in partitions : q.id <= p.id
                        /\ p.live /\ Separates(p, a, b)

are_nodes_partitioned(a, b) == \E p \in partitions : p.live /\ Separates(p, a, b)

Idle(n) == n \in open /\ calls[n] = None

begin(n, targets) ==
  /\ Idle(n) /\ targets # {}
  /\ sent_by' = [sent_by EXCEPT ![n] = @ + 1]
  /\ calls' = [calls EXCEPT ![n] = [todo |-> targets, at |-> "next", to |-> None, walls |-> {}]]
  /\ UNCHANGED <<nodes, open, connected, conditions, partitions, pending, stats, inbox,
                 shutdown, running, lost, heard>>

send_to(n, target) == begin(n, {target})

\* The engine excludes itself, and so does broadcast.  connected_nodes stays
\* locked for reading until the last send.
broadcast(n) == begin(n, connected[n] \ {n})

\* send_message counts the message; `walls' remembers the partitions in its way.
count(n) ==
  /\ calls[n] # None /\ calls[n].at = "next"
  /\ \E to \in calls[n].todo :
       calls' = [calls EXCEPT ![n].at = "check", ![n].to = to,
                   ![n].walls = {p.id : p \in {q \in partitions :
                                                 q.live /\ Separates(q, n, to)}}]
  /\ stats' = [stats EXCEPT !.messages_sent = @ + 1]
  /\ UNCHANGED <<nodes, open, connected, conditions, partitions, pending, inbox,
                 shutdown, running, sent_by, lost, heard>>

\* send_message has returned: the next target, or the end of the call
Returned(n) ==
  LET left == calls[n].todo \ {calls[n].to} IN
  IF left = {} THEN [calls EXCEPT ![n] = None]
  ELSE [calls EXCEPT ![n] = [todo |-> left, at |-> "next", to |-> None, walls |-> {}]]

Dropped == [stats EXCEPT !.messages_dropped = @ + 1]

\* mutant: a message stopped by a partition is not counted
check_uncounted(n) ==
  /\ calls[n] # None /\ calls[n].at = "check"
  /\ calls' = IF are_nodes_partitioned(n, calls[n].to) THEN Returned(n)
              ELSE [calls EXCEPT ![n].at = "queue"]
  /\ UNCHANGED <<nodes, open, connected, conditions, partitions, pending, stats, inbox,
                 shutdown, running, sent_by, lost, heard>>

check(n) ==
  /\ calls[n] # None /\ calls[n].at = "check"
  /\ \/ /\ are_nodes_partitioned(n, calls[n].to)
        /\ stats' = Dropped /\ calls' = Returned(n)
     \/ /\ ~are_nodes_partitioned(n, calls[n].to)
        /\ calls' = [calls EXCEPT ![n].at = "queue"]
        /\ UNCHANGED stats
  /\ UNCHANGED <<nodes, open, connected, conditions, partitions, pending, inbox,
                 shutdown, running, sent_by, lost, heard>>

\* The rest of send_message: the coin of the packet loss, then the queue
queue(n) ==
  /\ calls[n] # None /\ calls[n].at = "queue"
  /\ \/ /\ conditions = "lossy"
        /\ stats' = Dropped
        /\ UNCHANGED pending
     \/ /\ pending' = Append(pending, [from |-> n, to |-> calls[n].to, id |-> sent_by[n]])
        /\ UNCHANGED stats
  /\ calls' = Returned(n)
  /\ UNCHANGED <<nodes, open, connected, conditions, partitions, inbox,
                 shutdown, running, sent_by, lost, heard>>

-----------------------------------------------------------------------------
(* run_simulation                                                           *)

\* deliver_pending_messages for the i-th message of the queue
DeliverFrom(i) ==
  LET msg == pending[i] IN
  /\ pending' = SubSeq(pending, 1, i - 1) \o SubSeq(pending, i + 1, Len(pending))
  /\ IF msg.to \in nodes \cap open
     THEN /\ inbox' = [inbox EXCEPT ![msg.to] = Append(@, msg)]
          /\ stats' = [stats EXCEPT !.messages_delivered = @ + 1]
          /\ UNCHANGED lost
     ELSE lost' = lost + 1 /\ UNCHANGED <<inbox, stats>>
  /\ UNCHANGED <<nodes, open, connected, conditions, partitions, calls,
                 shutdown, running, sent_by, heard>>

\* mutant: messages that are due overtake one that is not
deliver_due == running /\ \E i \in DOMAIN pending : DeliverFrom(i)

\* mutant: a message to an unknown node is not taken out of the queue
deliver_known == running /\ pending # <<>> /\ pending[1].to \in nodes /\ DeliverFrom(1)

deliver == running /\ pending # <<>> /\ DeliverFrom(1)

\* Time passes.
expire ==
  /\ \E p \in partitions : /\ p.live
                           /\ partitions' = (partitions \ {p}) \cup {[p EXCEPT !.live = FALSE]}
  /\ UNCHANGED <<nodes, open, connected, conditions, pending, stats, inbox, calls,
                 shutdown, running, sent_by, lost, heard>>

cleanup_expired_partitions ==
  /\ running /\ \E p \in partitions : ~p.live
  /\ partitions' = {p \in partitions : p.live}
  /\ UNCHANGED <<nodes, open, connected, conditions, pending, stats, inbox, calls,
                 shutdown, running, sent_by, lost, heard>>

\* The task looks at the flag when a sleep of 100 milliseconds wins a round of
\* select!.  Every round starts that sleep anew and the delivery tick comes every
\* millisecond, so in practice it never does, unless the task is held up for so
\* long; the model lets it stop at any time after shutdown, or not at all.
stop ==
  /\ shutdown /\ running
  /\ running' = FALSE
  /\ UNCHANGED <<nodes, open, connected, conditions, partitions, pending, stats, inbox,
                 calls, shutdown, sent_by, lost, heard>>

-----------------------------------------------------------------------------
(* The other operations                                                     *)

\* SimulatedNetwork::receive; nothing comes any more once the channel is closed
\* and empty
receive(n) ==
  /\ Idle(n) /\ inbox[n] # <<>>
  /\ heard' = [heard EXCEPT ![n][Head(inbox[n]).from] = Head(inbox[n]).id]
  /\ inbox' = [inbox EXCEPT ![n] = Tail(@)]
  /\ UNCHANGED <<nodes, open, connected, conditions, partitions, pending, stats, calls,
                 shutdown, running, sent_by, lost>>

\* connect_to_nodes, or disconnect if ns is empty.  Both wait for a broadcast.
connect_to_nodes(n, ns) ==
  /\ Idle(n)
  /\ connected' = [connected EXCEPT ![n] = ns]
  /\ UNCHANGED <<nodes, open, conditions, partitions, pending, stats, inbox, calls,
                 shutdown, running, sent_by, lost, heard>>

update_conditions(c) ==
  /\ conditions' = c
  /\ UNCHANGED <<nodes, open, connected, partitions, pending, stats, inbox, calls,
                 shutdown, running, sent_by, lost, heard>>

create_partition(ns, id) ==
  /\ partitions' = partitions \cup {[id |-> id, nodes |-> ns, live |-> TRUE]}
  /\ UNCHANGED <<nodes, open, connected, conditions, pending, stats, inbox, calls,
                 shutdown, running, sent_by, lost, heard>>

heal_partitions ==
  /\ partitions' = {}
  /\ UNCHANGED <<nodes, open, connected, conditions, pending, stats, inbox, calls,
                 shutdown, running, sent_by, lost, heard>>

\* The node is no longer a destination; what it sends is queued as before.
remove_node(n) ==
  /\ nodes' = nodes \ {n}
  /\ UNCHANGED <<open, connected, conditions, partitions, pending, stats, inbox, calls,
                 shutdown, running, sent_by, lost, heard>>

\* The owner of a SimulatedNetwork drops it, and the receiver with it.
drop(n) ==
  /\ Idle(n)
  /\ open' = open \ {n}
  /\ UNCHANGED <<nodes, connected, conditions, partitions, pending, stats, inbox, calls,
                 shutdown, running, sent_by, lost, heard>>

\* SimulatedNetwork::new for a node whose network was dropped: a new channel, no
\* connections
add_node(n) ==
  /\ n \notin open
  /\ nodes' = nodes \cup {n} /\ open' = open \cup {n}
  /\ inbox' = [inbox EXCEPT ![n] = <<>>]
  /\ connected' = [connected EXCEPT ![n] = {}]
  /\ UNCHANGED <<conditions, partitions, pending, stats, calls, shutdown, running,
                 sent_by, lost, heard>>

request_shutdown ==
  /\ shutdown' = TRUE
  /\ UNCHANGED <<nodes, open, connected, conditions, partitions, pending, stats, inbox,
                 calls, running, sent_by, lost, heard>>

-----------------------------------------------------------------------------
(* Properties                                                               *)

InCall == Cardinality({n \in Nodes : calls[n] # None /\ calls[n].at # "next"})

\* Every message that send_message counted is counted once more, as delivered or as
\* dropped, unless it is still under way or its receiver is gone; nothing is counted
\* twice however sends, deliveries and faults interleave.
Accounted ==
  stats.messages_sent = stats.messages_delivered + stats.messages_dropped + lost
                        + Len(pending) + InCall

\* What node m has not received yet, the oldest first
Ahead(m) == inbox[m] \o pending

\* A node receives the messages of another one in the order in which they were sent,
\* whatever latency was drawn for each of them.
LinkOrder ==
  \A m \in Nodes : \A j \in 1..Len(Ahead(m)) :
    LET x == Ahead(m)[j] IN
    x.to = m => /\ heard[m][x.from] < x.id
                /\ \A i \in 1..j - 1 :
                     Ahead(m)[i].from = x.from /\ Ahead(m)[i].to = m => Ahead(m)[i].id < x.id

\* A message does not get through a partition that was there when send_message was
\* called and is there when the message is queued, however many others were created,
\* expired, cleaned up or healed in between.
PartitionsHold ==
  \A n \in Nodes : calls[n] # None /\ calls[n].at = "queue" =>
    \A p \in partitions : p.id \in calls[n].walls => ~p.live

\* The queue empties, for nodes that left as for nodes that are there, unless the
\* simulation is stopped: no message holds up the ones behind it for ever.
QueueDrains == pending # <<>> ~> pending = <<>> \/ ~running
=============================================================================
