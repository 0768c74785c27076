---------------------------- MODULE MCTcpNetwork ----------------------------
EXTENDS TcpNetwork

\* Every node knows every other one, as the examples configure it.
EveryoneKnown == [n \in Nodes |-> Nodes \ {n}]

NoBudget == [timeouts |-> 0, breaks |-> 0, crashes |-> 0, removals |-> 0,
             reconnects |-> 0, messages |-> 0, connections |-> 6]

\* Peers come and go; the owner reconnects, or a stream breaks, while messages
\* are under way; attempts time out and a node crashes.
Scenarios == {[NoBudget EXCEPT !.removals = 1],
              [NoBudget EXCEPT !.reconnects = 1, !.messages = 2, !.connections = 2],
              [NoBudget EXCEPT !.breaks = 1, !.messages = 2, !.connections = 2],
              [NoBudget EXCEPT !.timeouts = 1, !.crashes = 1]}
=============================================================================
