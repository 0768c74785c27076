----------------------------- MODULE Membership -----------------------------
(***************************************************************************)
(* What a node believes of its cluster: the NetworkMonitor of               *)
(* rabia-core/src/network.rs turns the transport's connections into events,  *)
(* the NetworkEventHandler of rabia-engine/src/engine.rs takes them one by     *)
(* one, and EngineState keeps what comes of it.  The program has the two ends  *)
(* and no task between them: that the events are handed over in order is what   *)
(* the interface asks for.  The leader is left out: no event changes it.        *)
(***************************************************************************)
EXTENDS Integers, Sequences, FiniteSets

CONSTANT Nodes

VARIABLES
  monitor,        \* per node: [connected_nodes, has_quorum]
  events,         \* per node: events not yet handled
  active_nodes,   \* per node: EngineState
  has_quorum,
  is_active,
  told            \* history, per node: has the engine heard of the monitor's view?

quorum_size == (Cardinality(Nodes) \div 2) + 1

\* ClusterConfig::has_quorum and the comparison in update_active_nodes
enough(ns) == Cardinality(ns) >= quorum_size

\* initialize reads the connections there are; NetworkMonitor::new assumes all.
MembershipInit(view) ==
  /\ monitor = [n \in Nodes |-> [connected_nodes |-> Nodes, has_quorum |-> enough(Nodes)]]
  /\ events = [n \in Nodes |-> <<>>]
  /\ active_nodes = [n \in Nodes |-> view]
  /\ has_quorum = [n \in Nodes |-> enough(view)]
  /\ is_active = [n \in Nodes |-> enough(view)]
  /\ told = [n \in Nodes |-> view = Nodes]

Event(type, ns) == [type |-> type, nodes |-> ns]

\* mutant: nodes that come back are no partition
EventsOf_lost_only(old, new, had) ==
     (IF old # new THEN <<Event("Changed", {})>> ELSE <<>>)
  \o (IF had /\ ~enough(new) THEN <<Event("QuorumLost", {})>>
      ELSE IF ~had /\ enough(new) THEN <<Event("QuorumRestored", new)>> ELSE <<>>)
  \o (IF old \ new # {} THEN <<Event("NetworkPartition", new)>> ELSE <<>>)

\* The events of a change of connections from old to new, in the order of the code
\* (NodeConnected and NodeDisconnected, which no handler uses, are one event)
EventsOf(old, new, had) ==
     (IF old # new THEN <<Event("Changed", {})>> ELSE <<>>)
  \o (IF had /\ ~enough(new) THEN <<Event("QuorumLost", {})>>
      ELSE IF ~had /\ enough(new) THEN <<Event("QuorumRestored", new)>> ELSE <<>>)
  \o (IF old # new THEN <<Event("NetworkPartition", new)>> ELSE <<>>)

update_connected_nodes(n, ns) ==
  LET m == monitor[n] IN
  /\ events' = [events EXCEPT ![n] = @ \o EventsOf(m.connected_nodes, ns, m.has_quorum)]
  /\ monitor' = [monitor EXCEPT ![n] = [connected_nodes |-> ns, has_quorum |-> enough(ns)]]
  /\ UNCHANGED <<active_nodes, has_quorum, is_active, told>>

\* update_active_nodes: set_quorum and set_active follow the size of the view
update_active_nodes(n, ns) ==
  /\ active_nodes' = [active_nodes EXCEPT ![n] = ns]
  /\ has_quorum' = [has_quorum EXCEPT ![n] = enough(ns)]
  /\ told' = [told EXCEPT ![n] = TRUE]

\* on_node_connected and on_node_disconnected, on_network_partition,
\* on_quorum_lost, on_quorum_restored
handle_event(n) ==
  LET e == Head(events[n]) IN
  /\ events[n] # <<>>
  /\ events' = [events EXCEPT ![n] = Tail(@)]
  /\ \/ /\ e.type = "Changed"
        /\ UNCHANGED <<active_nodes, has_quorum, is_active, told>>
     \/ /\ e.type = "NetworkPartition"
        /\ update_active_nodes(n, e.nodes)
        /\ is_active' = [is_active EXCEPT ![n] = enough(e.nodes)]
     \/ /\ e.type = "QuorumLost"
        /\ is_active' = [is_active EXCEPT ![n] = FALSE]
        /\ UNCHANGED <<active_nodes, has_quorum, told>>
     \/ /\ e.type = "QuorumRestored"
        /\ update_active_nodes(n, e.nodes)
        /\ is_active' = [is_active EXCEPT ![n] = TRUE]
  /\ UNCHANGED monitor

-----------------------------------------------------------------------------
(* Properties                                                               *)

\* When a node has handled its events it believes what the monitor saw last: the
\* engine takes batches exactly if the monitor sees a quorum, though it is told so
\* by a queue of events of several kinds that changes may have overtaken.  A node
\* that started before its connections were up gets there with the first change.
QuorumFollows ==
  \A n \in Nodes : told[n] /\ events[n] = <<>> =>
    /\ active_nodes[n] = monitor[n].connected_nodes
    /\ has_quorum[n] = monitor[n].has_quorum
    /\ is_active[n] = has_quorum[n]
=============================================================================
