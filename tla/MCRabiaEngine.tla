--------------------------- MODULE MCRabiaEngine ---------------------------
EXTENDS RabiaEngine, TLC

\* Every transport reports the whole cluster as connected.
AllConnected == {Nodes}

\* ... or a node starts before any peer is connected.
MaybeIsolated == {Nodes, {}}

\* The budgets of a run: nothing but clients and messages, ...
NoBudget == [forced |-> 0, syncs |-> 0, cleanups |-> 0, restarts |-> 0, lost |-> 0]
Undisturbed == {NoBudget}

\* ... what an operator can do to a cluster with an unreliable network, ...
Operated == {[NoBudget EXCEPT !.forced = 1, !.syncs = 1, !.lost = 1]}

\* ... and each kind of disturbance with what makes it interesting.
Disturbed == {[NoBudget EXCEPT !.restarts = 1],
              [NoBudget EXCEPT !.syncs = 1],
              [NoBudget EXCEPT !.forced = 1, !.cleanups = 1, !.lost = 1]}

Symm == Permutations(Nodes) \cup Permutations(Batches)
SymmN == Permutations(Nodes)
=============================================================================
