----------------------------- MODULE TcpNetwork -----------------------------
(***************************************************************************)
(* The TCP transport (rabia-engine/src/network/tcp.rs): every node dials    *)
(* the peers it knows, accepts connections from the others, and keeps one   *)
(* entry per peer in `connections'.  Both ends may dial at the same time,   *)
(* so there may be several streams between two nodes; the entry that was    *)
(* registered last is the one a node sends on, and all of them are read.    *)
(* The delays between attempts, message framing and the addresses are left  *)
(* out; the periodic health check and shutdown only log.                    *)
(***************************************************************************)
EXTENDS Integers, Sequences, FiniteSets, FiniteSetsExt

CONSTANTS Nodes, None,
          PeerAddresses,  \* TcpNetworkConfig::peer_addresses of every node
          max_attempts,   \* RetryConfig
          Budgets,        \* bounds on connection attempts that time out, streams that
                          \* break, crashes, remove_peer and reconnect calls,
                          \* messages and streams; a behaviour has one of them
          MaxConnections  \* the largest bound on streams

Budget == [timeouts : Nat, breaks : Nat, crashes : Nat, removals : Nat,
           reconnects : Nat, messages : Nat, connections : 0..MaxConnections]

ASSUME TcpAssumption ==
  /\ PeerAddresses \in [Nodes -> SUBSET Nodes]
  /\ \A n \in Nodes : n \notin PeerAddresses[n]
  /\ max_attempts \in Nat /\ MaxConnections \in Nat /\ None \notin Nat
  /\ Budgets \subseteq Budget

VARIABLES
  up,            \* nodes that run and listen
  peers,         \* peer_addresses, per node
  connections,   \* per node and peer: index into `streams', or None
  dial,          \* per node, peer and caller: the connect_to_peer call in progress
  streams,       \* TCP streams, in the order they were opened
  outgoing,      \* per node: number of messages it queued
  received,      \* per node and sender: the messages read, in order
  restarted,     \* history: nodes that crashed and run again
  doubled,       \* history: pairs of nodes that may have two streams, because attempts to
                 \* connect overlapped or an entry was dropped while its stream is read
  faults,        \* history: what happened of "break" and "crash"
  budget         \* what is left of the bounds

vars == <<up, peers, connections, dial, streams, outgoing, received, restarted, doubled,
          faults, budget>>

Ids     == 1..Len(streams)
Ends(c) == {streams[c].dialer, streams[c].acceptor}

NotDialling == [stage |-> "idle", attempts |-> 0, stream |-> None]
NoEntries   == [p \in Nodes |-> None]

\* connect_to_peer is called by the connection manager and by the owner of the
\* network (add_peer, reconnect), one call at a time each.
Callers == {"manager", "owner"}
NoDials == [p \in Nodes |-> [w \in Callers |-> NotDialling]]

Init ==
  /\ up = {} /\ peers = PeerAddresses
  /\ connections = [n \in Nodes |-> NoEntries]
  /\ dial = [n \in Nodes |-> NoDials]
  /\ streams = <<>>
  /\ outgoing = [n \in Nodes |-> 0]
  /\ received = [n \in Nodes |-> [p \in Nodes |-> <<>>]]
  /\ restarted = {} /\ doubled = {} /\ faults = {}
  /\ budget \in Budgets

-----------------------------------------------------------------------------
(* connect_to_peer                                                          *)

Called     == [stage |-> "look_up", attempts |-> 0, stream |-> None]
Idle(n, p) == dial[n][p]["owner"].stage = "idle"

\* Calls and accepted streams between n and p that are not finished: when there
\* are two of them, each may have missed the entry the other one registers.
InProgress(d, n, p) ==
  LET calls(x, y) == {w \in Callers : d[x][y][w].stage # "idle"}
      accepted    == {c \in Ids : /\ {n, p} = Ends(c)
                                  /\ streams[c].inbound \in {"accepted", "answered"}}
  IN  Cardinality(calls(n, p)) + Cardinality(calls(p, n)) + Cardinality(accepted)

\* dial' after new calls, and the pairs of nodes for which they overlap others.
Call(d) ==
  /\ dial' = d
  /\ doubled' = doubled \cup
       {P \in SUBSET Nodes : \E n, p \in Nodes : P = {n, p} /\ InProgress(d, n, p) > 1}

\* mutant: a node that starts waits to be dialled
start_passive(n) ==
  /\ n \notin up
  /\ up' = up \cup {n}
  /\ UNCHANGED <<peers, connections, dial, streams, outgoing, received, restarted, doubled, faults, budget>>

\* new: the listener is up, and start_connection_manager dials every known peer.
start(n) ==
  /\ n \notin up
  /\ up' = up \cup {n}
  /\ Call([dial EXCEPT ![n] = [p \in Nodes |-> [NoDials[p] EXCEPT !["manager"] =
                                   IF p \in peers[n] THEN Called ELSE @]]])
  /\ UNCHANGED <<peers, connections, streams, outgoing, received, restarted, faults, budget>>

\* reconnect, for one of the known peers
reconnect(n, p) ==
  /\ n \in up /\ p \in peers[n] /\ Idle(n, p) /\ budget.reconnects > 0
  /\ Call([dial EXCEPT ![n][p]["owner"] = Called])
  /\ budget' = [budget EXCEPT !.reconnects = @ - 1]
  /\ UNCHANGED <<up, peers, connections, streams, outgoing, received, restarted, faults>>

\* mutant: an existing connection is not looked for
look_up_nothing(n, p, w) ==
  /\ dial[n][p][w].stage = "look_up"
  /\ dial' = [dial EXCEPT ![n][p][w].stage = "connect"]
  /\ UNCHANGED <<up, peers, connections, streams, outgoing, received, restarted, doubled, faults, budget>>

\* connect_to_peer returns at once if there is an entry for the peer.
look_up(n, p, w) ==
  /\ dial[n][p][w].stage = "look_up"
  /\ dial' = [dial EXCEPT ![n][p][w] = IF connections[n][p] # None THEN NotDialling
                                       ELSE [@ EXCEPT !.stage = "connect"]]
  /\ UNCHANGED <<up, peers, connections, streams, outgoing, received, restarted, doubled, faults, budget>>

\* mutant: the first failure is the last
AfterFailure_giving_up(d) == NotDialling

\* The call after one more failed attempt: the loop goes on or gives up.
AfterFailure(d) ==
  IF d.attempts + 1 < max_attempts
  THEN [stage |-> "connect", attempts |-> d.attempts + 1, stream |-> None]
  ELSE NotDialling

\* TcpStream::connect succeeds and the node's own id is sent.
connect(n, p, w) ==
  /\ dial[n][p][w].stage = "connect" /\ p \in up /\ Len(streams) < budget.connections
  /\ streams' = Append(streams, [dialer |-> n, acceptor |-> p, open |-> TRUE,
                                 inbound |-> "accepted", reading |-> {},
                                 queue |-> [x \in {n, p} |-> <<>>]])
  /\ dial' = [dial EXCEPT ![n][p][w] = [@ EXCEPT !.stage = "handshake", !.stream = Len(streams')]]
  /\ UNCHANGED <<up, peers, connections, outgoing, received, restarted, doubled, faults, budget>>

\* The peer does not listen, or the attempt times out.
connect_fails(n, p, w) ==
  /\ dial[n][p][w].stage = "connect"
  /\ \/ p \notin up /\ UNCHANGED budget
     \/ /\ p \in up /\ budget.timeouts > 0
        /\ budget' = [budget EXCEPT !.timeouts = @ - 1]
  /\ dial' = [dial EXCEPT ![n][p][w] = AfterFailure(@)]
  /\ UNCHANGED <<up, peers, connections, streams, outgoing, received, restarted, doubled,
                 faults>>

\* mutant: the stream that is replaced is closed
Register_closing(n, p, c, inbound) ==
  /\ connections' = [connections EXCEPT ![n][p] = c]
  /\ streams' = [x \in Ids |->
                   IF x = c THEN [streams[x] EXCEPT !.inbound = inbound, !.reading = @ \cup {n}]
                   ELSE IF x = connections[n][p]
                   THEN [streams[x] EXCEPT !.open = FALSE, !.reading = {}]
                   ELSE streams[x]]

\* The entry of the peer is inserted or replaced and the handler of the stream
\* is started.  The handler of a stream that is replaced keeps it open.
Register(n, p, c, inbound) ==
  /\ connections' = [connections EXCEPT ![n][p] = c]
  /\ streams' = [streams EXCEPT ![c].inbound = inbound, ![c].reading = @ \cup {n}]

\* perform_outbound_handshake: the answer is there (it can also be read after
\* the other end is gone).  A crash or a break before that is a failed attempt.
outbound_handshake(n, p, w) ==
  LET c == dial[n][p][w].stream IN
  /\ dial[n][p][w].stage = "handshake" /\ streams[c].inbound \in {"answered", "done"}
  /\ dial' = [dial EXCEPT ![n][p][w].stage = "register"]
  /\ UNCHANGED <<up, peers, connections, streams, outgoing, received, restarted, doubled, faults, budget>>

outbound_handshake_fails(n, p, w) ==
  /\ dial[n][p][w].stage = "handshake" /\ ~streams[dial[n][p][w].stream].open
  /\ dial' = [dial EXCEPT ![n][p][w] = AfterFailure(@)]
  /\ UNCHANGED <<up, peers, connections, streams, outgoing, received, restarted, doubled, faults, budget>>

register_outbound(n, p, w) ==
  /\ dial[n][p][w].stage = "register"
  /\ Register(n, p, dial[n][p][w].stream, streams[dial[n][p][w].stream].inbound)
  /\ dial' = [dial EXCEPT ![n][p][w] = NotDialling]
  /\ UNCHANGED <<up, peers, outgoing, received, restarted, doubled, faults, budget>>

-----------------------------------------------------------------------------
(* Inbound connections: the task of an accepted stream reads the peer's id,  *)
(* answers with its own and registers the stream.                            *)

Inbound(c, stage) == streams[c].inbound = stage /\ streams[c].acceptor \in up

inbound_handshake(c) ==
  /\ Inbound(c, "accepted")
  /\ streams' = [streams EXCEPT ![c].inbound = "answered"]
  /\ UNCHANGED <<up, peers, connections, dial, outgoing, received, restarted, doubled, faults, budget>>

inbound_handshake_fails(c) ==
  /\ Inbound(c, "accepted") /\ ~streams[c].open
  /\ streams' = [streams EXCEPT ![c].inbound = "gone"]
  /\ UNCHANGED <<up, peers, connections, dial, outgoing, received, restarted, doubled, faults, budget>>

register_inbound(c) ==
  /\ Inbound(c, "answered")
  /\ Register(streams[c].acceptor, streams[c].dialer, c, "done")
  /\ UNCHANGED <<up, peers, dial, outgoing, received, restarted, doubled, faults, budget>>

-----------------------------------------------------------------------------
(* Messages.  A node numbers the messages it sends.  queue[n] is what n put  *)
(* into the outbound queue of a stream and the other end has not read.       *)

\* send_to and broadcast: on a broken stream the message is lost (the first
\* one silently, the others with an error).
Send(n, targets) ==
  LET on == {connections[n][p] : p \in targets} \cap {c \in Ids : streams[c].open} IN
  /\ n \in up /\ budget.messages > 0
  /\ budget' = [budget EXCEPT !.messages = @ - 1]
  /\ outgoing' = [outgoing EXCEPT ![n] = @ + 1]
  /\ streams' = [c \in Ids |-> IF c \in on
                               THEN [streams[c] EXCEPT !.queue[n] = Append(@, outgoing'[n])]
                               ELSE streams[c]]
  /\ UNCHANGED <<up, peers, connections, dial, received, restarted, doubled, faults>>

\* get_connected_nodes
Connected(n) == {p \in Nodes : connections[n][p] # None}

send_to(n, p) == p \in Connected(n) /\ Send(n, {p})
broadcast(n)  == Connected(n) # {} /\ Send(n, Connected(n))

\* The reader of the stream puts the next message of the other end into the
\* incoming queue.
read(n, c) ==
  \E p \in Ends(c) \ {n} :
    /\ n \in streams[c].reading /\ streams[c].queue[p] # <<>>
    /\ received' = [received EXCEPT ![n][p] = Append(@, Head(streams[c].queue[p]))]
    /\ streams' = [streams EXCEPT ![c].queue[p] = Tail(@)]
    /\ UNCHANGED <<up, peers, connections, dial, outgoing, restarted, doubled, faults, budget>>

\* Once the stream is closed the reader stops, with or without having read what
\* had arrived.
read_fails(n, c) ==
  /\ n \in streams[c].reading /\ ~streams[c].open
  /\ streams' = [streams EXCEPT ![c].reading = @ \ {n}]
  /\ UNCHANGED <<up, peers, connections, dial, outgoing, received, restarted, doubled, faults, budget>>

-----------------------------------------------------------------------------
(* Peers, breaks and crashes                                                *)

\* remove_peer drops the entry; the handlers of the stream keep running.
remove_peer(n, p) ==
  /\ n \in up /\ p \in peers[n] /\ budget.removals > 0
  /\ peers' = [peers EXCEPT ![n] = @ \ {p}]
  /\ connections' = [connections EXCEPT ![n][p] = None]
  /\ budget' = [budget EXCEPT !.removals = @ - 1]
  /\ doubled' = doubled \cup {{n, p}}
  /\ UNCHANGED <<up, dial, streams, outgoing, received, restarted, faults>>

add_peer(n, p) ==
  /\ n \in up /\ p \in PeerAddresses[n] \ peers[n] /\ Idle(n, p)
  /\ peers' = [peers EXCEPT ![n] = @ \cup {p}]
  /\ Call([dial EXCEPT ![n][p]["owner"] = Called])
  /\ UNCHANGED <<up, connections, streams, outgoing, received, restarted, faults, budget>>

\* A stream breaks.  Nothing removes its entries.
break(c) ==
  /\ streams[c].open /\ budget.breaks > 0
  /\ budget' = [budget EXCEPT !.breaks = @ - 1]
  /\ faults' = faults \cup {"break"}
  /\ streams' = [streams EXCEPT ![c].open = FALSE]
  /\ UNCHANGED <<up, peers, connections, dial, outgoing, received, restarted, doubled>>

\* The task of an accepted stream dies with its node, but not an answer it sent.
AfterCrash(inbound) == IF inbound \in {"accepted", "gone"} THEN "gone" ELSE "done"

\* A node crashes, and all its streams with it; it may be started again.
crash(n) ==
  /\ n \in up /\ budget.crashes > 0
  /\ budget' = [budget EXCEPT !.crashes = @ - 1]
  /\ up' = up \ {n}
  /\ restarted' = restarted \cup {n}
  /\ faults' = faults \cup {"crash"}
  /\ connections' = [connections EXCEPT ![n] = NoEntries]
  /\ dial' = [dial EXCEPT ![n] = NoDials]
  /\ streams' = [c \in Ids |->
                   IF n \notin Ends(c) THEN streams[c]
                   ELSE [streams[c] EXCEPT !.open = FALSE, !.reading = @ \ {n},
                           !.inbound = IF n = streams[c].acceptor THEN AfterCrash(@) ELSE @]]
  /\ doubled' = doubled \cup {{n, p} : p \in Nodes}
  /\ UNCHANGED <<peers, outgoing, received>>

-----------------------------------------------------------------------------
\* What the tasks of a node do by themselves.
DialStep(n, p, w) ==
  \/ look_up(n, p, w) \/ connect(n, p, w) \/ connect_fails(n, p, w)
  \/ outbound_handshake(n, p, w) \/ outbound_handshake_fails(n, p, w) \/ register_outbound(n, p, w)

InboundStep(c) == inbound_handshake(c) \/ inbound_handshake_fails(c) \/ register_inbound(c)

Next ==
  \/ \E n \in Nodes : start(n) \/ crash(n) \/ broadcast(n)
  \/ \E n, p \in Nodes, w \in Callers : DialStep(n, p, w)
  \/ \E n, p \in Nodes :
       reconnect(n, p) \/ add_peer(n, p) \/ remove_peer(n, p) \/ send_to(n, p)
  \/ \E c \in Ids : InboundStep(c) \/ break(c)
  \/ \E n \in Nodes, c \in Ids : read(n, c) \/ read_fails(n, c)

\* Every node is started, and its tasks run.
Fairness ==
  /\ \A n \in Nodes : WF_vars(start(n))
  /\ \A n, p \in Nodes, w \in Callers : WF_vars(DialStep(n, p, w))
  /\ \A c \in 1..MaxConnections : WF_vars(c \in Ids /\ InboundStep(c))
  /\ \A n \in Nodes, c \in 1..MaxConnections : WF_vars(c \in Ids /\ read(n, c))

Spec == Init /\ [][Next]_vars /\ Fairness

-----------------------------------------------------------------------------
(* Properties                                                               *)

\* What node n queues for p now goes onto a stream that reaches p.
Live(n, p) == connections[n][p] # None /\ streams[connections[n][p]].open

\* Whatever the order in which the nodes start, and although a node that finds
\* nobody listening gives up after max_attempts, every node ends up with a
\* working connection to each of its peers.  (A stream that breaks is another
\* matter: its entry stays, and connect_to_peer then leaves the peer alone.)
MeshForms == <>[](faults = {} => \A n \in Nodes : \A p \in peers[n] : Live(n, p))

\* A message that was queued for a peer is read by it, also when it was queued
\* on a stream that another one has replaced in the meantime.
MaxMessages  == Max({b.messages : b \in Budgets})
Queued(n, p) == {k \in 1..MaxMessages : \E c \in Ids : n \in Ends(c) /\ p \in Ends(c)
                    /\ \E i \in 1..Len(streams[c].queue[n]) : streams[c].queue[n][i] = k}
Read(n, p)   == {received[p][n][i] : i \in 1..Len(received[p][n])}

QueuedArrives ==
  \A n \in Nodes, p \in Nodes : \A k \in 1..MaxMessages :
    n # p => (k \in Queued(n, p) ~> k \in Read(n, p) \/ faults # {})

\* Messages are read in the order they were sent, as long as the look-up in
\* connect_to_peer keeps a second stream from being opened beside the first, where it
\* could be overtaken: attempts to connect the two nodes did not overlap, and
\* neither remove_peer nor a crash dropped the entry of a stream that is still read.
InOrder ==
  \A n, p \in Nodes : {n, p} \notin doubled =>
    \A i, j \in 1..Len(received[n][p]) : i < j => received[n][p][i] < received[n][p][j]

\* A node that crashed and was started again gets working connections to its
\* peers, whatever dials and accepted streams its end cut off, as long as no
\* stream between running nodes breaks.
RestartedConnects ==
  <>[]("break" \notin faults => \A n \in restarted : \A p \in peers[n] : Live(n, p))
=============================================================================
