---------------------------- MODULE MCTestCluster ----------------------------
(* Plans for TestCluster on three nodes.                                       *)
EXTENDS TestCluster

CONSTANTS n1, n2, n3

Bounds == [commits |-> 0, failures |-> 0, sends |-> 0, cuts |-> 0, heals |-> 0,
           drops |-> 0, joins |-> 0, connects |-> 0, polls |-> 0, ends |-> 0]

Direct == [driver |-> "test", view |-> Nodes, bounds |-> Bounds, faults |-> <<>>,
           submit |-> <<n1, n2>>, order |-> <<n1, n2, n3>>, expected |-> "AllCommitted",
           total_operations |-> 0, batch_size |-> 1, conditions |-> "default", groups |-> {{n1}, {n1, n2}}]

\* One call while partitions come and go; two while nodes leave and come back; views
\* change.
Partitions == [Direct EXCEPT !.bounds.sends = 1, !.bounds.cuts = 2, !.bounds.heals = 1]
Leaving    == [Direct EXCEPT !.bounds.sends = 2, !.bounds.drops = 1, !.bounds.joins = 1]
Views      == { [Direct EXCEPT !.view = v, !.bounds.connects = 2, !.bounds.polls = 2,
                               !.groups = {{}, {n1, n2}, Nodes}]
                : v \in {Nodes, {n1}} }

Scenario(faults, expected) ==
  [Direct EXCEPT !.driver = "harness", !.faults = faults, !.expected = expected,
                 !.bounds.commits = 3, !.bounds.ends = 1]

Crash     == [type |-> "NodeCrash", node |-> n1]
Cut       == [type |-> "NetworkPartition", nodes |-> {n1}]
Loss      == [type |-> "PacketLoss"]
Latency   == [type |-> "HighLatency"]
Slow      == [type |-> "Logged"]

Scenarios == { Scenario(<<>>, "AllCommitted"),
               [Scenario(<<Crash>>, "PartialCommitment") EXCEPT
                  !.bounds.sends = 1, !.bounds.commits = 0, !.bounds.ends = 0, !.submit = <<>>],
               [Scenario(<<Loss, Latency>>, "EventualConsistency") EXCEPT
                  !.bounds.sends = 1, !.bounds.commits = 0, !.bounds.ends = 0, !.submit = <<>>],
               [Scenario(<<Cut, Slow>>, "NoProgress") EXCEPT
                  !.bounds.failures = 1, !.bounds.commits = 1] }

\* Three operations in batches of two, on nodes with and without a quorum
Benchmarks == { [Direct EXCEPT !.driver = "benchmark", !.view = v, !.total_operations = 3,
                               !.batch_size = 2, !.conditions = "lossy",
                               !.bounds.commits = 1, !.bounds.failures = 1]
                : v \in {Nodes, {n1}} }

\* Three nodes that see each other
Connected == {b \in Benchmarks : b.view = Nodes}

AllPlans == {Partitions, Leaving} \cup Views \cup Scenarios \cup Benchmarks
=============================================================================
