---------------------------- MODULE TestCluster ----------------------------
(***************************************************************************)
(* A cluster on the simulated network and what drives it: the                *)
(* ConsensusTestHarness of rabia-testing/src/fault_injection.rs, which         *)
(* submits commands, injects faults and judges the outcome, or the             *)
(* PerformanceBenchmark of rabia-testing/src/scenarios.rs, which submits        *)
(* batches and waits for each answer, or tests that call the network directly.  *)
(* Of the engines only the interface is left: a queue of commands, handled one   *)
(* at a time, a number of committed phases that grows, and messages sent.        *)
(***************************************************************************)
EXTENDS NetworkSimulator, SequencesExt

CONSTANTS Plans,    \* what a behaviour may do: the driver, its script, and bounds
          MaxPhase  \* bound on committed phases

\* SlowNode and MessageReordering are "Logged": nothing else is done about them.
FaultType == [type : {"NodeCrash"}, node : Nodes]
             \cup [type : {"NetworkPartition"}, nodes : SUBSET Nodes]
             \cup [type : {"PacketLoss", "HighLatency", "Logged"}]

ExpectedOutcome == {"AllCommitted", "PartialCommitment", "NoProgress", "EventualConsistency"}

\* What a plan bounds: commits of engines, engines that fail at once, sends, and
\* what a test does to the network
Bounded == {"commits", "failures", "sends", "cuts", "heals", "drops", "joins", "connects",
            "polls", "ends"}

ASSUME PlansAssumption ==
  \A p \in Plans : /\ p.faults \in Seq(FaultType)
                   /\ p.bounds \in [Bounded -> Nat]
                   /\ p.view \subseteq Nodes /\ p.groups \subseteq SUBSET Nodes
                   /\ p.expected \in ExpectedOutcome
                   /\ p.driver \in {"harness", "benchmark", "test"}
                   /\ ToSet(p.order) = Nodes /\ ToSet(p.submit) \subseteq Nodes
                   /\ p.batch_size \in Nat \ {0} /\ p.total_operations \in Nat

VARIABLES
  monitor, events, active_nodes, has_quorum, is_active, told,  \* see Membership
  plan,
  budget,      \* what is left of the plan's bounds
  commands,    \* per node: the command channel of its engine
  committed,   \* per node: last_committed_phase
  restores,    \* timers that will restore the default conditions
  harness,     \* run_scenario: [pc, at, todo, asked, answers, success]
  benchmark    \* run_performance_test: [pc, operation_count, successful, failed] and
               \* the request it waits for: [node, channel], or None

INSTANCE Membership

membershipVars == <<monitor, events, active_nodes, has_quorum, is_active, told>>
driverVars == <<plan, budget, commands, committed, restores, harness, benchmark>>
vars == <<simulatorVars, membershipVars, driverVars>>

Has(what)   == budget[what] > 0
Spend(what) == budget' = [budget EXCEPT ![what] = @ - 1]

\* PerformanceBenchmark::new builds its cluster like the harness.
BenchmarkInit ==
  benchmark = [pc |-> IF plan.driver = "benchmark" THEN "start" ELSE "off",
               operation_count |-> 0, successful |-> 0, failed |-> 0, request |-> None]

Init ==
  /\ plan \in Plans
  /\ SimulatorInit(plan.view) /\ MembershipInit(plan.view)
  /\ budget = plan.bounds
  /\ commands = [n \in Nodes |-> <<>>]
  /\ committed = [n \in Nodes |-> 0]
  /\ restores = 0
  /\ harness = [pc |-> IF plan.driver = "harness" THEN "submit" ELSE "off", at |-> 1,
                todo |-> plan.order, asked |-> None, answers |-> {}, success |-> FALSE]
  /\ BenchmarkInit

-----------------------------------------------------------------------------
(* Engines                                                                  *)

Running(n) == n \in open

\* What the benchmark's receiver sees: "answered" is a value, even Err
Resolve(n, how) ==
  IF benchmark.request # None /\ benchmark.request.node = n /\ benchmark.request.channel = "open"
  THEN [benchmark EXCEPT !.request.channel = how] ELSE benchmark

\* process_batch_request: without a quorum the sender gets an Err for an answer;
\* otherwise the batch is proposed and the sender is dropped with the request.
process_batch_request(n) ==
  benchmark' = Resolve(n, IF has_quorum[n] THEN "closed" ELSE "answered")

\* get_statistics, for a harness that is still waiting
get_statistics(n) ==
  harness' = IF harness.pc = "poll" /\ harness.asked = n
             THEN [harness EXCEPT !.asked = None, !.todo = Tail(@),
                                  !.answers = @ \cup {<<n, committed[n]>>}]
             ELSE harness

\* handle_command.  Shutdown returns an error, which the loop logs.
handle_command(n) ==
  LET command == Head(commands[n]) IN
  /\ Running(n) /\ commands[n] # <<>> /\ calls[n] = None
  /\ commands' = [commands EXCEPT ![n] = Tail(@)]
  /\ \/ command = "ProcessBatch" /\ process_batch_request(n) /\ UNCHANGED harness
     \/ command = "GetStatistics" /\ get_statistics(n) /\ UNCHANGED benchmark
     \/ command = "Shutdown" /\ UNCHANGED <<harness, benchmark>>
  /\ UNCHANGED <<plan, budget, committed, restores, simulatorVars, membershipVars>>

\* A phase is committed, by whatever the engine does with its messages.
commit(n) ==
  /\ Running(n) /\ Has("commits") /\ Spend("commits")
  /\ committed[n] < MaxPhase
  /\ committed' = [committed EXCEPT ![n] = @ + 1]
  /\ UNCHANGED <<plan, commands, restores, harness, benchmark, simulatorVars, membershipVars>>

\* The harness gives up on the node it asked.
Skip == [harness EXCEPT !.asked = None, !.todo = Tail(@)]

\* The channels are gone with the driver: the run loop ends.  Or run returns an
\* error at once; what was sent to the engine is dropped, and the senders with it.
end_engine(n) ==
  /\ drop(n)
  /\ \/ /\ harness.pc = "dropped" /\ commands[n] = <<>>
        /\ UNCHANGED <<commands, budget, benchmark>>
     \/ /\ Has("failures") /\ Spend("failures") /\ sent_by[n] = 0 /\ committed[n] = 0
        /\ commands' = [commands EXCEPT ![n] = <<>>]
        /\ benchmark' = Resolve(n, "closed")
  /\ harness' = IF harness.asked = n THEN Skip ELSE harness
  /\ UNCHANGED <<plan, committed, restores, membershipVars>>

\* Engines, and tests, send and receive.
transport(n) ==
  /\ \/ Has("sends") /\ Spend("sends") /\ (broadcast(n) \/ \E m \in Nodes : send_to(n, m))
     \/ (count(n) \/ check(n) \/ queue(n) \/ receive(n)) /\ UNCHANGED budget
  /\ UNCHANGED <<plan, commands, committed, restores, harness, benchmark, membershipVars>>

-----------------------------------------------------------------------------
(* ConsensusTestHarness                                                     *)

Send(q, n, c) == IF Running(n) THEN [q EXCEPT ![n] = Append(@, c)] ELSE q

\* run_scenario begins: the initial commands go round the nodes.
submit ==
  /\ harness.pc = "submit"
  /\ commands' = FoldLeft(LAMBDA q, n : Send(q, n, "ProcessBatch"), commands, plan.submit)
  /\ harness' = [harness EXCEPT !.pc = "faults"]
  /\ UNCHANGED <<plan, budget, committed, restores, benchmark, simulatorVars, membershipVars>>

\* mutant: high latency is not taken back
set_conditions_forgetting(c) ==
  update_conditions(c) /\ restores' = IF c = "lossy" THEN restores + 1 ELSE restores

\* PacketLoss and HighLatency: a task will put back the default conditions.
set_conditions(c) == update_conditions(c) /\ restores' = restores + 1

\* inject_fault, the next one of the script after its delay.  SlowNode and
\* MessageReordering are only logged; a crashed node does not come back.
inject_fault ==
  LET fault == plan.faults[harness.at] IN
  /\ harness.pc = "faults" /\ harness.at <= Len(plan.faults)
  /\ harness' = [harness EXCEPT !.at = @ + 1]
  /\ \/ fault.type = "NodeCrash" /\ remove_node(fault.node) /\ UNCHANGED restores
     \/ fault.type = "NetworkPartition" /\ create_partition(fault.nodes, harness.at)
        /\ UNCHANGED restores
     \/ fault.type = "PacketLoss" /\ set_conditions("lossy")
     \/ fault.type = "HighLatency" /\ set_conditions("slow")
     \/ fault.type = "Logged" /\ UNCHANGED <<simulatorVars, restores>>
  /\ UNCHANGED <<plan, budget, commands, committed, benchmark, membershipVars>>

\* The timer of a fault runs out, and the default conditions are set, also if
\* another fault has set others since.
restore ==
  /\ restores > 0
  /\ restores' = restores - 1
  /\ update_conditions("default")
  /\ UNCHANGED <<plan, budget, commands, committed, harness, benchmark, membershipVars>>

\* All faults are injected and the scenario's timeout is over.
collect ==
  /\ harness.pc = "faults" /\ harness.at > Len(plan.faults)
  /\ harness' = [harness EXCEPT !.pc = "poll"]
  /\ UNCHANGED <<plan, budget, commands, committed, restores, benchmark,
                 simulatorVars, membershipVars>>

\* mutant: the harness waits as long as it takes
poll_patient(n) ==
  /\ harness.pc = "poll" /\ harness.todo # <<>> /\ n = Head(harness.todo)
  /\ harness.asked = None
  /\ commands' = Send(commands, n, "GetStatistics")
  /\ harness' = IF Running(n) THEN [harness EXCEPT !.asked = n] ELSE Skip
  /\ UNCHANGED <<plan, budget, committed, restores, benchmark, simulatorVars, membershipVars>>

\* analyze_outcome asks one node after the other, each for 100 milliseconds.
poll(n) ==
  /\ harness.pc = "poll" /\ harness.todo # <<>> /\ n = Head(harness.todo)
  /\ \/ /\ harness.asked = None
        /\ commands' = Send(commands, n, "GetStatistics")
        /\ harness' = IF Running(n) THEN [harness EXCEPT !.asked = n] ELSE Skip
     \/ /\ harness.asked = n
        /\ harness' = Skip
        /\ UNCHANGED commands
  /\ UNCHANGED <<plan, budget, committed, restores, benchmark, simulatorVars, membershipVars>>

\* min_committed is 1 wherever it is used.
check_expected_outcome(expected, phases) ==
  CASE expected = "AllCommitted"        -> \E p \in phases : p > 0 /\ phases = {p}
    [] expected = "PartialCommitment"   -> \E p \in phases : p >= 1
    [] expected = "NoProgress"          -> \A p \in phases : p = 0
    [] expected = "EventualConsistency" -> \A p, q \in phases : p - q <= 2

judge ==
  /\ harness.pc = "poll" /\ harness.todo = <<>>
  /\ harness' = [harness EXCEPT !.pc = "judged",
                   !.success = check_expected_outcome(plan.expected, {a[2] : a \in harness.answers})]
  /\ UNCHANGED <<plan, budget, commands, committed, restores, benchmark,
                 simulatorVars, membershipVars>>

\* shutdown, after which the test drops the harness
end_harness ==
  /\ harness.pc = "judged" /\ Has("ends") /\ Spend("ends")
  /\ harness' = [harness EXCEPT !.pc = "dropped"]
  /\ commands' = [n \in Nodes |-> IF Running(n) THEN Append(commands[n], "Shutdown")
                                  ELSE commands[n]]
  /\ request_shutdown
  /\ UNCHANGED <<plan, committed, restores, benchmark, membershipVars>>

-----------------------------------------------------------------------------
(* PerformanceBenchmark                                                     *)

\* run_performance_test begins: the conditions of the test, which stay
run_performance_test ==
  /\ benchmark.pc = "start"
  /\ benchmark' = [benchmark EXCEPT !.pc = "loop"]
  /\ update_conditions(plan.conditions)
  /\ UNCHANGED <<plan, budget, commands, committed, restores, harness, membershipVars>>

\* The next batch goes to the next node; an engine that has ended refuses it.
submit_batch ==
  LET b == benchmark
      n == plan.order[(b.operation_count % Len(plan.order)) + 1]
  IN
  /\ b.pc = "loop" /\ b.operation_count < plan.total_operations
  /\ \/ /\ Running(n)
        /\ commands' = Send(commands, n, "ProcessBatch")
        /\ benchmark' = [b EXCEPT !.pc = "wait", !.request = [node |-> n, channel |-> "open"]]
     \/ /\ ~Running(n)
        /\ benchmark' = [b EXCEPT !.failed = @ + plan.batch_size,
                                  !.operation_count = @ + plan.batch_size]
        /\ UNCHANGED commands
  /\ UNCHANGED <<plan, budget, committed, restores, harness, simulatorVars, membershipVars>>

\* A full batch is counted, also for the last one, which may be smaller.
take_answer(success) ==
  [benchmark EXCEPT !.pc = "loop", !.request = None,
     !.successful = IF success THEN @ + plan.batch_size ELSE @,
     !.failed = IF success THEN @ ELSE @ + plan.batch_size,
     !.operation_count = @ + plan.batch_size]

\* The answer, the end of the channel, or five seconds
await_answer ==
  /\ benchmark.pc = "wait"
  /\ \/ benchmark.request.channel = "answered" /\ benchmark' = take_answer(TRUE)
     \/ benchmark.request.channel = "closed" /\ benchmark' = take_answer(FALSE)
     \/ benchmark.request.channel = "open" /\ benchmark' = take_answer(FALSE)
  /\ UNCHANGED <<plan, budget, commands, committed, restores, harness,
                 simulatorVars, membershipVars>>

\* All operations are done, or the duration of the test is over.
end_benchmark ==
  /\ benchmark.pc = "loop"
  /\ benchmark' = [benchmark EXCEPT !.pc = "done"]
  /\ request_shutdown
  /\ commands' = [n \in Nodes |-> IF Running(n) THEN Append(commands[n], "Shutdown")
                                  ELSE commands[n]]
  /\ UNCHANGED <<plan, budget, committed, restores, harness, membershipVars>>

-----------------------------------------------------------------------------

\* Tells the partitions of a test from each other and from those of a script.
CutId == Len(plan.faults) + 1 + plan.bounds.cuts - budget.cuts

\* Tests that use the network directly
test ==
  /\ \/ \E ns \in plan.groups : /\ Has("cuts") /\ Spend("cuts")
                                 /\ create_partition(ns, CutId)
     \/ Has("heals") /\ Spend("heals") /\ heal_partitions
     \/ \E n \in Nodes : Has("drops") /\ Spend("drops") /\ drop(n)
     \/ \E n \in Nodes : Has("joins") /\ Spend("joins") /\ add_node(n)
     \/ \E n \in Nodes, ns \in plan.groups : /\ Has("connects") /\ Spend("connects")
                                             /\ connect_to_nodes(n, ns)
  /\ UNCHANGED <<plan, commands, committed, restores, harness, benchmark, membershipVars>>

\* The monitor of node n asks the transport.
poll_connections(n) ==
  /\ Has("polls") /\ Spend("polls")
  /\ update_connected_nodes(n, connected[n])
  /\ UNCHANGED <<plan, commands, committed, restores, harness, benchmark, simulatorVars>>

hear(n) ==
  /\ handle_event(n)
  /\ UNCHANGED <<simulatorVars, driverVars>>

simulate == /\ deliver \/ expire \/ cleanup_expired_partitions \/ stop
            /\ UNCHANGED <<membershipVars, driverVars>>

Next ==
  \/ \E n \in Nodes : \/ handle_command(n) \/ commit(n) \/ end_engine(n) \/ transport(n)
                      \/ poll(n) \/ poll_connections(n) \/ hear(n)
  \/ submit \/ inject_fault \/ restore \/ collect \/ judge \/ end_harness
  \/ run_performance_test \/ submit_batch \/ await_answer \/ end_benchmark
  \/ test \/ simulate

\* The simulator's task and the timers run, and so do the drivers, which wait for
\* nothing longer than a timeout.  Engines need not answer.
Fairness ==
  /\ WF_vars(deliver /\ UNCHANGED <<membershipVars, driverVars>>)
  /\ WF_vars(expire /\ UNCHANGED <<membershipVars, driverVars>>)
  /\ WF_vars(restore)
  /\ WF_vars(submit \/ inject_fault \/ collect \/ judge)
  /\ \A n \in Nodes : WF_vars(poll(n))

Spec == Init /\ [][Next]_vars /\ Fairness

-----------------------------------------------------------------------------
(* Properties                                                               *)

\* A scenario comes to its verdict although engines are silent or have ended.
ScenarioEnds == plan.driver = "harness" ~> harness.pc \in {"judged", "dropped"}

\* Every injected fault passes but the crash of a node: in the end no partition is
\* left and the network has its default conditions, however the faults overlapped.
FaultsPass ==
  <>[](/\ plan.driver # "benchmark" => conditions = "default"
       /\ \A p \in partitions : ~p.live)

\* "The response will be sent when consensus completes" (rabia-engine/src/engine.rs):
\* the channel of a batch that a running engine accepted stays open until then.
ResponseKept ==
  LET r == benchmark.request IN
  r # None /\ r.channel = "closed" /\ Running(r.node) => committed[r.node] > 0
=============================================================================
