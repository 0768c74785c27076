-------------------------- MODULE TestClusterProofs --------------------------
(***************************************************************************)
(* The simulated network under every driver, for any number of nodes, faults *)
(* and calls: it accounts for every message, keeps the order of each link and *)
(* lets nothing through a partition; and a node that has handled the events    *)
(* of its monitor believes what the monitor saw.                              *)
(***************************************************************************)
EXTENDS TestCluster, FiniteSetTheorems, SequenceTheorems, TLAPS

-----------------------------------------------------------------------------
(* The inductive invariants                                                 *)

NetworkStats == [messages_sent : Nat, messages_delivered : Nat, messages_dropped : Nat]

TypeOK ==
  /\ nodes \subseteq Nodes /\ open \subseteq Nodes
  /\ connected \in [Nodes -> SUBSET Nodes]
  /\ partitions \subseteq Partition
  /\ pending \in Seq(Message)
  /\ stats \in NetworkStats
  /\ inbox \in [Nodes -> Seq(Message)]
  /\ calls \in [Nodes -> Call \cup {None}]
  /\ \A n \in Nodes : calls[n] # None /\ calls[n].at # "next" => calls[n].to \in calls[n].todo
  /\ sent_by \in [Nodes -> Nat]
  /\ lost \in Nat
  /\ heard \in [Nodes -> [Nodes -> Nat]]

\* Every message from a node to another one that is not queued yet has a larger
\* number than those that are, which have larger numbers than those received.
Later(n, m, k) ==
  /\ heard[m][n] < k
  /\ \A i \in 1..Len(pending) : pending[i].from = n /\ pending[i].to = m => pending[i].id < k
  /\ \A i \in 1..Len(inbox[m]) : inbox[m][i].from = n => inbox[m][i].id < k

OrderInv ==
  /\ \A m \in Nodes : \A i \in 1..Len(inbox[m]) :
       /\ inbox[m][i].to = m
       /\ heard[m][inbox[m][i].from] < inbox[m][i].id
       /\ \A j \in 1..i - 1 : inbox[m][j].from = inbox[m][i].from =>
                              inbox[m][j].id < inbox[m][i].id
       /\ \A j \in 1..Len(pending) :
            pending[j].from = inbox[m][i].from /\ pending[j].to = m =>
            inbox[m][i].id < pending[j].id
  /\ \A i \in 1..Len(pending) :
       /\ heard[pending[i].to][pending[i].from] < pending[i].id
       /\ \A j \in 1..i - 1 :
            pending[j].from = pending[i].from /\ pending[j].to = pending[i].to =>
            pending[j].id < pending[i].id
  /\ \A n, m \in Nodes : Later(n, m, sent_by[n] + 1)
  /\ \A n \in Nodes : calls[n] # None => \A m \in calls[n].todo : Later(n, m, sent_by[n])

\* The numbers that partitions of the script and of tests have had so far
Used(i) ==
  \/ i < harness.at /\ i <= Len(plan.faults)
  \/ i > Len(plan.faults) /\ i < CutId

\* A call passes only partitions that are over.
WallInv ==
  /\ \A p \in partitions : Used(p.id)
  /\ \A p, q \in partitions : p.id = q.id => p = q
  /\ \A n \in Nodes : calls[n] # None /\ calls[n].at # "next" =>
       /\ \A i \in calls[n].walls : Used(i)
       /\ \A p \in partitions : p.id \in calls[n].walls => Separates(p, n, calls[n].to)
       /\ calls[n].at = "queue" => \A p \in partitions : p.id \in calls[n].walls => ~p.live

\* The script and the bounds.
DriverInv ==
  /\ plan \in Plans
  /\ "at" \in DOMAIN harness /\ harness.at \in Nat \ {0}
  /\ budget \in [Bounded -> Nat] /\ budget.cuts <= plan.bounds.cuts

\* The last event of a queue brings what the monitor saw last.
MembershipInv ==
  /\ monitor \in [Nodes -> [connected_nodes : SUBSET Nodes, has_quorum : BOOLEAN]]
  /\ events \in [Nodes -> Seq([type : {"Changed", "QuorumLost", "QuorumRestored",
                                       "NetworkPartition"}, nodes : SUBSET Nodes])]
  /\ active_nodes \in [Nodes -> SUBSET Nodes]
  /\ has_quorum \in [Nodes -> BOOLEAN] /\ is_active \in [Nodes -> BOOLEAN]
  /\ told \in [Nodes -> BOOLEAN]
  /\ \A n \in Nodes :
       /\ monitor[n].has_quorum = enough(monitor[n].connected_nodes)
       /\ events[n] # <<>> =>
            events[n][Len(events[n])] = Event("NetworkPartition", monitor[n].connected_nodes)
  /\ QuorumFollows

SimulatorInv == TypeOK /\ Accounted /\ OrderInv

ClusterInv == SimulatorInv /\ DriverInv /\ WallInv /\ MembershipInv

-----------------------------------------------------------------------------
(* Types                                                                    *)

\* A record of a call is a call: begin and Returned.
LEMMA NextIsCall ==
  ASSUME NEW S \in SUBSET Nodes
  PROVE  /\ [todo |-> S, at |-> "next", to |-> None, walls |-> {}] \in Call
         /\ [todo |-> S, at |-> "next", to |-> None, walls |-> {}] # None
BY SimulatorAssumption DEF Call

\* Returned only changes the entry of its node.
LEMMA ReturnedIs ==
  ASSUME TypeOK, NEW n \in Nodes, calls[n] # None
  PROVE  /\ Returned(n) \in [Nodes -> Call \cup {None}]
         /\ \A k \in Nodes : k # n => Returned(n)[k] = calls[k]
         /\ Returned(n)[n] # None =>
              /\ Returned(n)[n].at = "next"
              /\ Returned(n)[n].todo \subseteq calls[n].todo \ {calls[n].to}
<1>1. calls[n] \in Call /\ calls[n].todo \in SUBSET Nodes
  BY DEF TypeOK, Call
<1> DEFINE left == calls[n].todo \ {calls[n].to}
           new  == [todo |-> left, at |-> "next", to |-> None, walls |-> {}]
<1>2. new \in Call /\ new # None /\ new.at = "next" /\ new.todo \subseteq calls[n].todo \ {calls[n].to}
  BY <1>1, NextIsCall
<1> HIDE DEF new
<1>3. Returned(n) = [calls EXCEPT ![n] = IF left = {} THEN None ELSE new]
  BY DEF Returned, new
<1> QED  BY <1>1, <1>2, <1>3, SMTT(30) DEF TypeOK

\* What counting does to the statistics.
LEMMA Counting ==
  ASSUME NEW s \in NetworkStats
  PROVE  LET sent      == [s EXCEPT !.messages_sent = @ + 1]
             delivered == [s EXCEPT !.messages_delivered = @ + 1]
             dropped   == [s EXCEPT !.messages_dropped = @ + 1]
         IN /\ sent \in NetworkStats
            /\ sent.messages_sent = s.messages_sent + 1
            /\ sent.messages_delivered = s.messages_delivered
            /\ sent.messages_dropped = s.messages_dropped
            /\ delivered \in NetworkStats
            /\ delivered.messages_sent = s.messages_sent
            /\ delivered.messages_delivered = s.messages_delivered + 1
            /\ delivered.messages_dropped = s.messages_dropped
            /\ dropped \in NetworkStats
            /\ dropped.messages_sent = s.messages_sent
            /\ dropped.messages_delivered = s.messages_delivered
            /\ dropped.messages_dropped = s.messages_dropped + 1
            /\ s.messages_sent \in Nat /\ s.messages_delivered \in Nat
            /\ s.messages_dropped \in Nat
BY DEF NetworkStats

\* The steps of the simulated network keep the types: a call begins.
LEMMA BeginType ==
  ASSUME TypeOK, NEW n \in Nodes, NEW S \in SUBSET Nodes, begin(n, S)
  PROVE  TypeOK'
<1>1. calls' \in [Nodes -> Call \cup {None}] /\ calls'[n].at = "next"
      /\ \A k \in Nodes : k # n => calls'[k] = calls[k]
  BY NextIsCall DEF TypeOK, begin
<1>2. sent_by' \in [Nodes -> Nat]
  BY DEF TypeOK, begin
<1> QED  BY <1>1, <1>2 DEF TypeOK, begin

\* What counting a message for the target `to' does.
Counted(n, to) ==
  /\ to \in calls[n].todo /\ to \in Nodes
  /\ calls[n] \in Call /\ calls[n] # None /\ calls[n].at = "next"
  /\ calls' \in [Nodes -> Call \cup {None}]
  /\ calls'[n] \in Call /\ calls'[n] # None /\ calls'[n].at = "check" /\ calls'[n].to = to
  /\ calls'[n].todo = calls[n].todo
  /\ calls'[n].walls = {p.id : p \in {q \in partitions : q.live /\ Separates(q, n, to)}}
  /\ \A k \in Nodes : k # n => calls'[k] = calls[k]

\* The step finds a target and the partitions in its way.
LEMMA CountIs ==
  ASSUME TypeOK, NEW n \in Nodes, count(n)
  PROVE  \E to : Counted(n, to)
<1>1. calls[n] \in Call /\ calls[n] # None /\ calls[n].at = "next"
  BY DEF TypeOK, count
<1>2. PICK to \in calls[n].todo :
        calls' = [calls EXCEPT ![n].at = "check", ![n].to = to,
                    ![n].walls = {p.id : p \in {q \in partitions :
                                                  q.live /\ Separates(q, n, to)}}]
  BY DEF count
<1> DEFINE W == {p.id : p \in {q \in partitions : q.live /\ Separates(q, n, to)}}
<1>3. W \in SUBSET Nat
  BY DEF TypeOK, Partition
<1>4. to \in Nodes /\ calls[n].todo \in SUBSET Nodes
  BY <1>1 DEF Call
<1>5. calls' = [calls EXCEPT ![n] = [calls[n] EXCEPT !.at = "check", !.to = to, !.walls = W]]
  BY <1>1, <1>2 DEF TypeOK
<1> HIDE DEF W
<1> DEFINE new == [calls[n] EXCEPT !.at = "check", !.to = to, !.walls = W]
<1>6. /\ new \in Call /\ new.at = "check" /\ new.to = to
      /\ new.todo = calls[n].todo /\ new.walls = W
  BY <1>1, <1>3, <1>4 DEF Call
<1>7. new # None
  BY <1>6, SimulatorAssumption
<1> HIDE DEF new
<1>8. /\ calls' \in [Nodes -> Call \cup {None}] /\ calls'[n] = new
      /\ \A k \in Nodes : k # n => calls'[k] = calls[k]
  BY <1>5, <1>6 DEF TypeOK, new
<1> QED  BY <1>1, <1>4, <1>6, <1>7, <1>8 DEF Counted, W

\* count, check and queue keep the types.
LEMMA CountType ==
  ASSUME TypeOK, NEW n \in Nodes, count(n)
  PROVE  TypeOK'
<1>1. PICK to : Counted(n, to)
  BY CountIs
<1>2. \A k \in Nodes : calls'[k] # None /\ calls'[k].at # "next" => calls'[k].to \in calls'[k].todo
  BY <1>1 DEF TypeOK, Counted
<1>3. stats' \in NetworkStats
  BY Counting DEF TypeOK, count
<1> QED  BY <1>1, <1>2, <1>3 DEF TypeOK, count, Counted

\* A message that passes is still between its targets.
LEMMA CheckType ==
  ASSUME TypeOK, NEW n \in Nodes, check(n)
  PROVE  TypeOK'
<1>1. calls[n] \in Call /\ calls[n] # None /\ calls[n].at = "check"
  BY DEF TypeOK, check
<1>2. CASE calls' = Returned(n) /\ stats' = Dropped
  <2>1. \A k \in Nodes : calls'[k] # None /\ calls'[k].at # "next" => calls'[k].to \in calls'[k].todo
    BY <1>1, <1>2, ReturnedIs DEF TypeOK
  <2> QED  BY <1>1, <1>2, <2>1, ReturnedIs, Counting DEF TypeOK, Dropped, check
<1>3. CASE calls' = [calls EXCEPT ![n].at = "queue"] /\ UNCHANGED stats
  <2>1. calls' \in [Nodes -> Call \cup {None}]
    BY <1>1, <1>3 DEF TypeOK, Call
  <2>2. \A k \in Nodes : calls'[k] # None /\ calls'[k].at # "next" => calls'[k].to \in calls'[k].todo
    BY <1>1, <1>3 DEF TypeOK, Call
  <2> QED  BY <1>3, <2>1, <2>2 DEF TypeOK, check
<1> QED  BY <1>2, <1>3 DEF check

\* What is queued is a message.
LEMMA QueueType ==
  ASSUME TypeOK, NEW n \in Nodes, queue(n)
  PROVE  TypeOK'
<1>1. calls[n] \in Call /\ calls[n] # None /\ calls[n].to \in Nodes
  BY DEF TypeOK, queue, Call
<1>2. \A k \in Nodes : calls'[k] # None /\ calls'[k].at # "next" => calls'[k].to \in calls'[k].todo
  BY <1>1, ReturnedIs DEF TypeOK, queue
<1>3. [from |-> n, to |-> calls[n].to, id |-> sent_by[n]] \in Message
  BY <1>1 DEF TypeOK, Message
<1>4. pending' \in Seq(Message)
  <2> DEFINE msg == [from |-> n, to |-> calls[n].to, id |-> sent_by[n]]
  <2>1. pending' = pending \/ pending' = Append(pending, msg)
    BY DEF queue
  <2>2. msg \in Message
    BY <1>3
  <2> HIDE DEF msg
  <2>3. pending \in Seq(Message)
    BY DEF TypeOK
  <2>4. Append(pending, msg) \in Seq(Message)
    BY <2>2, <2>3
  <2> QED  BY <2>1, <2>3, <2>4
<1>5. stats' \in NetworkStats
  BY Counting DEF TypeOK, Dropped, queue
<1> QED  BY <1>1, <1>2, <1>4, <1>5, ReturnedIs DEF TypeOK, queue

\* Taking the first element out of a queue.
LEMMA TakingOut ==
  ASSUME NEW S, NEW s \in Seq(S), s # <<>>
  PROVE  LET t == SubSeq(s, 1, 0) \o SubSeq(s, 2, Len(s)) IN
         /\ t \in Seq(S) /\ Len(t) = Len(s) - 1
         /\ \A i \in 1..Len(t) : t[i] = s[i + 1]
         /\ s[1] \in S /\ Len(s) \in Nat \ {0}
<1>0. Len(s) \in Nat \ {0}
  OBVIOUS
<1>1. SubSeq(s, 1, 0) = <<>>
  OBVIOUS
<1>2. /\ SubSeq(s, 2, Len(s)) \in Seq(S) /\ Len(SubSeq(s, 2, Len(s))) = Len(s) - 1
      /\ \A i \in 1..Len(s) - 1 : SubSeq(s, 2, Len(s))[i] = s[i + 1]
  <2>1. SubSeq(s, 2, Len(s)) = Tail(s)
    BY TailIsSubSeq
  <2>2. Tail(s) \in Seq(S) /\ Len(Tail(s)) = Len(s) - 1
    BY HeadTailProperties
  <2>3. \A i \in 1..Len(s) - 1 : Tail(s)[i] = s[i + 1]
    OBVIOUS
  <2> QED  BY <1>0, <2>1, <2>2, <2>3
<1>3. SubSeq(s, 1, 0) \o SubSeq(s, 2, Len(s)) = SubSeq(s, 2, Len(s))
  BY <1>1, <1>2
<1> QED  BY <1>0, <1>2, <1>3

\* The message at the head of the queue is delivered, or lost.
Delivered ==
  LET msg == pending[1] IN
  /\ msg \in Message /\ Len(pending) \in Nat \ {0}
  /\ pending' \in Seq(Message) /\ Len(pending') = Len(pending) - 1
  /\ \A i \in 1..Len(pending') : pending'[i] = pending[i + 1]
  /\ \/ /\ inbox' = [inbox EXCEPT ![msg.to] = Append(@, msg)]
        /\ stats' = [stats EXCEPT !.messages_delivered = @ + 1]
        /\ UNCHANGED lost
     \/ lost' = lost + 1 /\ UNCHANGED <<inbox, stats>>
  /\ UNCHANGED <<nodes, open, connected, conditions, partitions, calls,
                 shutdown, running, sent_by, heard>>

\* deliver is such a step.
LEMMA DeliverIs ==
  ASSUME TypeOK, deliver
  PROVE  Delivered
<1>1. pending \in Seq(Message) /\ pending # <<>>
  BY DEF TypeOK, deliver
<1>2. pending' = SubSeq(pending, 1, 0) \o SubSeq(pending, 2, Len(pending))
  BY DEF deliver, DeliverFrom
<1>3. /\ pending[1] \in Message /\ Len(pending) \in Nat \ {0}
      /\ pending' \in Seq(Message) /\ Len(pending') = Len(pending) - 1
      /\ \A i \in 1..Len(pending') : pending'[i] = pending[i + 1]
  BY <1>1, <1>2, TakingOut
<1> QED  BY <1>3 DEF deliver, DeliverFrom, Delivered

\* What is delivered is a message.
LEMMA DeliverType ==
  ASSUME TypeOK, Delivered
  PROVE  TypeOK'
<1>1. inbox' \in [Nodes -> Seq(Message)]
  <2>1. pending[1].to \in Nodes /\ pending[1] \in Message
    BY DEF Delivered, Message
  <2>2. inbox[pending[1].to] \in Seq(Message)
    BY <2>1 DEF TypeOK
  <2>3. Append(inbox[pending[1].to], pending[1]) \in Seq(Message)
    BY <2>1, <2>2
  <2> QED  BY <2>1, <2>3 DEF TypeOK, Delivered
<1>2. stats' \in NetworkStats
  BY Counting DEF TypeOK, Delivered
<1>3. lost' \in Nat
  BY DEF TypeOK, Delivered
<1> QED  BY <1>1, <1>2, <1>3 DEF TypeOK, Delivered

\* What is received was a message.
LEMMA ReceiveType ==
  ASSUME TypeOK, NEW n \in Nodes, receive(n)
  PROVE  TypeOK'
<1>1. inbox[n] \in Seq(Message) /\ inbox[n] # <<>>
  BY DEF TypeOK, receive
<1>2. Head(inbox[n]) \in Message /\ Tail(inbox[n]) \in Seq(Message)
  BY <1>1
<1>3. inbox' \in [Nodes -> Seq(Message)]
  BY <1>2 DEF TypeOK, receive
<1>4. heard' \in [Nodes -> [Nodes -> Nat]]
  BY <1>2 DEF TypeOK, receive, Message
<1> QED  BY <1>3, <1>4 DEF TypeOK, receive

\* The steps that change none of the messages, the calls and their counts.
Elsewhere ==
  /\ nodes' \subseteq Nodes /\ open' \subseteq Nodes
  /\ connected' \in [Nodes -> SUBSET Nodes]
  /\ partitions' \subseteq Partition
  /\ \A n \in Nodes : inbox'[n] = inbox[n] \/ inbox'[n] = <<>>
  /\ inbox' \in [Nodes -> Seq(Message)]
  /\ UNCHANGED <<pending, stats, calls, sent_by, lost, heard>>

\* They keep the types.
LEMMA ElsewhereType ==
  ASSUME TypeOK, Elsewhere
  PROVE  TypeOK'
BY DEF TypeOK, Elsewhere

\* Which steps these are.
LEMMA ElsewhereSteps ==
  ASSUME TypeOK
  PROVE  /\ expire => Elsewhere
         /\ cleanup_expired_partitions => Elsewhere
         /\ stop => Elsewhere
         /\ heal_partitions => Elsewhere
         /\ request_shutdown => Elsewhere
         /\ \A c : update_conditions(c) => Elsewhere
         /\ \A n \in Nodes : drop(n) => Elsewhere
         /\ \A n \in Nodes : add_node(n) => Elsewhere
         /\ \A n : remove_node(n) => Elsewhere
         /\ \A n \in Nodes, S \in SUBSET Nodes : connect_to_nodes(n, S) => Elsewhere
         /\ \A S \in SUBSET Nodes, i \in Nat : create_partition(S, i) => Elsewhere
         /\ UNCHANGED simulatorVars => Elsewhere
<1>1. expire => Elsewhere
  <2> SUFFICES ASSUME expire PROVE Elsewhere
    OBVIOUS
  <2>1. PICK p \in partitions :
          partitions' = (partitions \ {p}) \cup {[p EXCEPT !.live = FALSE]}
    BY DEF expire
  <2>2. [p EXCEPT !.live = FALSE] \in Partition
    BY DEF TypeOK, Partition
  <2> QED  BY <2>1, <2>2 DEF TypeOK, Elsewhere, expire
<1>2. cleanup_expired_partitions => Elsewhere
  BY DEF TypeOK, Elsewhere, cleanup_expired_partitions
<1>3. stop => Elsewhere
  BY DEF TypeOK, Elsewhere, stop
<1>4. heal_partitions => Elsewhere
  BY DEF TypeOK, Elsewhere, heal_partitions
<1>5. request_shutdown => Elsewhere
  BY DEF TypeOK, Elsewhere, request_shutdown
<1>6. \A c : update_conditions(c) => Elsewhere
  BY DEF TypeOK, Elsewhere, update_conditions
<1>7. \A n \in Nodes : drop(n) => Elsewhere
  BY DEF TypeOK, Elsewhere, drop
<1>8. \A n \in Nodes : add_node(n) => Elsewhere
  <2> SUFFICES ASSUME NEW n \in Nodes, add_node(n) PROVE Elsewhere
    OBVIOUS
  <2>1. <<>> \in Seq(Message)
    OBVIOUS
  <2>2. inbox' \in [Nodes -> Seq(Message)] /\ \A k \in Nodes : inbox'[k] = inbox[k] \/ inbox'[k] = <<>>
    BY <2>1 DEF TypeOK, add_node
  <2> QED  BY <2>2 DEF TypeOK, Elsewhere, add_node
<1>9. \A n : remove_node(n) => Elsewhere
  BY DEF TypeOK, Elsewhere, remove_node
<1>10. \A n \in Nodes, S \in SUBSET Nodes : connect_to_nodes(n, S) => Elsewhere
  BY DEF TypeOK, Elsewhere, connect_to_nodes
<1>11. \A S \in SUBSET Nodes, i \in Nat : create_partition(S, i) => Elsewhere
  <2> SUFFICES ASSUME NEW S \in SUBSET Nodes, NEW i \in Nat, create_partition(S, i)
               PROVE  Elsewhere
    OBVIOUS
  <2>1. [id |-> i, nodes |-> S, live |-> TRUE] \in Partition
    BY DEF Partition
  <2> QED  BY <2>1 DEF TypeOK, Elsewhere, create_partition
<1>12. UNCHANGED simulatorVars => Elsewhere
  BY DEF TypeOK, Elsewhere, simulatorVars
<1> QED  BY <1>1, <1>2, <1>3, <1>4, <1>5, <1>6, <1>7, <1>8, <1>9, <1>10, <1>11, <1>12

-----------------------------------------------------------------------------
(* Accounts                                                                 *)

\* The nodes with a message that is counted as sent and not yet queued.
Busy == {n \in Nodes : calls[n] # None /\ calls[n].at # "next"}

\* Entering and leaving the set of busy nodes.
LEMMA BusyCount ==
  /\ IsFiniteSet(Busy) /\ InCall = Cardinality(Busy) /\ InCall \in Nat
  /\ \A n \in Nodes : n \notin Busy => Cardinality(Busy \cup {n}) = InCall + 1
  /\ \A n \in Busy : Cardinality(Busy \ {n}) = InCall - 1
<1>1. IsFiniteSet(Busy)
  BY SimulatorAssumption, FS_Subset DEF Busy
<1>2. InCall = Cardinality(Busy)
  BY DEF Busy, InCall
<1> QED  BY <1>1, <1>2, FS_CardinalityType, FS_AddElement, FS_RemoveElement

\* Every step keeps the books.
LEMMA AccountedStep ==
  ASSUME TypeOK, Accounted
  PROVE  /\ Elsewhere => Accounted'
         /\ \A n \in Nodes : count(n) => Accounted'
         /\ \A n \in Nodes : check(n) => Accounted'
         /\ \A n \in Nodes : queue(n) => Accounted'
         /\ \A n \in Nodes : receive(n) => Accounted'
         /\ \A n \in Nodes, S \in SUBSET Nodes : begin(n, S) => Accounted'
         /\ Delivered => Accounted'
<1>0. /\ InCall \in Nat /\ lost \in Nat /\ Len(pending) \in Nat
      /\ stats \in NetworkStats
      /\ stats.messages_sent \in Nat /\ stats.messages_delivered \in Nat
      /\ stats.messages_dropped \in Nat
  <2>1. stats \in NetworkStats /\ lost \in Nat /\ Len(pending) \in Nat
    BY DEF TypeOK
  <2> QED  BY <2>1, BusyCount, Counting
<1> DEFINE Sum(delivered, dropped, gone, queued, busy) ==
             delivered + dropped + gone + queued + busy
<1>a. /\ stats.messages_sent = Sum(stats.messages_delivered, stats.messages_dropped + 1, lost,
                                   Len(pending), InCall - 1)
      /\ stats.messages_sent = Sum(stats.messages_delivered + 1, stats.messages_dropped, lost,
                                   Len(pending) - 1, InCall)
      /\ stats.messages_sent = Sum(stats.messages_delivered, stats.messages_dropped, lost + 1,
                                   Len(pending) - 1, InCall)
  <2>1. \A delivered, dropped, gone, queued, busy \in Nat :
          /\ Sum(delivered, dropped, gone, queued, busy)
               = Sum(delivered, dropped + 1, gone, queued, busy - 1)
          /\ Sum(delivered, dropped, gone, queued, busy)
               = Sum(delivered + 1, dropped, gone, queued - 1, busy)
          /\ Sum(delivered, dropped, gone, queued, busy)
               = Sum(delivered, dropped, gone + 1, queued - 1, busy)
    OBVIOUS
  <2>2. stats.messages_sent = Sum(stats.messages_delivered, stats.messages_dropped, lost,
                                  Len(pending), InCall)
    BY DEF Accounted
  <2> DEFINE d == stats.messages_delivered  x == stats.messages_dropped
             q == Len(pending)  b == InCall
  <2>3. d \in Nat /\ x \in Nat /\ lost \in Nat /\ q \in Nat /\ b \in Nat
        /\ stats.messages_sent = Sum(d, x, lost, q, b)
    BY <1>0, <2>2
  <2> HIDE DEF Sum, d, x, q, b
  <2>4. /\ stats.messages_sent = Sum(d, x + 1, lost, q, b - 1)
        /\ stats.messages_sent = Sum(d + 1, x, lost, q - 1, b)
        /\ stats.messages_sent = Sum(d, x, lost + 1, q - 1, b)
    BY <2>1, <2>3
  <2> QED  BY <2>4 DEF d, x, q, b
<1>b. Accounted' <=> stats'.messages_sent = Sum(stats'.messages_delivered,
                       stats'.messages_dropped, lost', Len(pending'), InCall')
  BY DEF Accounted
<1> HIDE DEF Sum
<1>1. Elsewhere => Accounted'
  BY DEF Elsewhere, Accounted, InCall
<1>2. ASSUME NEW n \in Nodes, count(n)  PROVE Accounted'
  <2>1. n \notin Busy /\ Busy' = Busy \cup {n}
    <3>1. PICK to : Counted(n, to)
      BY <1>2, CountIs
    <3> QED  BY <3>1 DEF Busy, Counted
  <2>2. InCall' = InCall + 1
    BY <2>1, BusyCount DEF InCall, Busy
  <2>3. /\ stats'.messages_sent = stats.messages_sent + 1
        /\ stats'.messages_delivered = stats.messages_delivered
        /\ stats'.messages_dropped = stats.messages_dropped
        /\ UNCHANGED <<pending, lost>>
    BY <1>0, <1>2, Counting DEF count
  <2> QED  BY <1>0, <2>2, <2>3 DEF Accounted
<1>3. ASSUME NEW n \in Nodes, calls[n] # None, calls[n].at # "next", calls' = Returned(n)
      PROVE  InCall' = InCall - 1
  <2>1. n \in Busy /\ Busy' = Busy \ {n}
    BY <1>3, ReturnedIs DEF Busy
  <2> QED  BY <2>1, BusyCount DEF InCall, Busy
<1>4. stats' = Dropped =>
        /\ stats'.messages_sent = stats.messages_sent
        /\ stats'.messages_delivered = stats.messages_delivered
        /\ stats'.messages_dropped = stats.messages_dropped + 1
  BY <1>0, Counting DEF Dropped
<1>5. ASSUME NEW n \in Nodes, check(n)  PROVE Accounted'
  <2>1. calls[n] # None /\ calls[n].at = "check" /\ calls[n] \in Call /\ UNCHANGED <<pending, lost>>
    BY <1>5 DEF check, TypeOK
  <2>2. CASE calls' = Returned(n) /\ stats' = Dropped
    <3>1. InCall' = InCall - 1
      BY <1>3, <2>1, <2>2
    <3> QED  BY <1>a, <1>b, <1>4, <2>1, <2>2, <3>1
  <2>3. CASE calls' = [calls EXCEPT ![n].at = "queue"] /\ UNCHANGED stats
    <3>1. /\ calls'[n] \in Call /\ calls'[n].at = "queue"
          /\ \A k \in Nodes : k # n => calls'[k] = calls[k]
      BY <2>1, <2>3 DEF TypeOK, Call
    <3>2. calls'[n] # None
      BY <3>1, SimulatorAssumption
    <3>3. Busy' = Busy
      BY <2>1, <3>1, <3>2 DEF Busy
    <3>4. InCall' = InCall
      BY <3>3 DEF InCall, Busy
    <3> QED  BY <2>1, <2>3, <3>4 DEF Accounted
  <2> QED  BY <1>5, <2>2, <2>3 DEF check
<1>6. ASSUME NEW n \in Nodes, queue(n)  PROVE Accounted'
  <2>1. calls[n] # None /\ calls[n].at # "next" /\ UNCHANGED lost /\ calls' = Returned(n)
    BY <1>6 DEF queue
  <2>2. InCall' = InCall - 1
    BY <1>3, <2>1
  <2>3. CASE stats' = Dropped /\ UNCHANGED pending
    <3>1. /\ stats'.messages_sent = stats.messages_sent
          /\ stats'.messages_delivered = stats.messages_delivered
          /\ stats'.messages_dropped = stats.messages_dropped + 1
          /\ lost' = lost /\ Len(pending') = Len(pending)
      BY <1>4, <2>1, <2>3
    <3> QED  BY <1>a, <1>b, <2>2, <3>1
  <2>4. CASE UNCHANGED stats /\ \E msg : pending' = Append(pending, msg)
    <3>1. Len(pending') = Len(pending) + 1
      BY <2>4 DEF TypeOK
    <3> QED  BY <1>0, <2>1, <2>2, <2>4, <3>1 DEF Accounted
  <2> QED  BY <1>6, <2>3, <2>4 DEF queue
<1>7. ASSUME NEW n \in Nodes, receive(n)  PROVE Accounted'
  BY <1>7 DEF receive, Accounted, InCall
<1>8. ASSUME NEW n \in Nodes, NEW S \in SUBSET Nodes, begin(n, S)  PROVE Accounted'
  <2>1. calls[n] = None /\ calls'[n].at = "next" /\ \A k \in Nodes : k # n => calls'[k] = calls[k]
    BY <1>8 DEF begin, Idle, TypeOK
  <2>2. Busy' = Busy
    BY <2>1 DEF Busy
  <2> QED  BY <1>8, <2>2 DEF begin, Accounted, InCall, Busy
<1>9. ASSUME Delivered  PROVE Accounted'
  <2>1. InCall' = InCall /\ Len(pending') = Len(pending) - 1
    BY <1>9 DEF Delivered, InCall
  <2>2. CASE stats' = [stats EXCEPT !.messages_delivered = @ + 1] /\ UNCHANGED lost
    <3>1. /\ stats'.messages_sent = stats.messages_sent
          /\ stats'.messages_delivered = stats.messages_delivered + 1
          /\ stats'.messages_dropped = stats.messages_dropped
      BY <1>0, <2>2, Counting
    <3>2. lost' = lost
      BY <2>2
    <3> QED  BY <1>a, <1>b, <2>1, <3>1, <3>2
  <2>3. CASE lost' = lost + 1 /\ UNCHANGED stats
    <3>1. /\ stats'.messages_sent = stats.messages_sent
          /\ stats'.messages_delivered = stats.messages_delivered
          /\ stats'.messages_dropped = stats.messages_dropped
          /\ lost' = lost + 1
      BY <2>3
    <3> QED  BY <1>a, <1>b, <2>1, <3>1
  <2> QED  BY <1>9, <2>2, <2>3 DEF Delivered
<1> QED  BY <1>1, <1>2, <1>5, <1>6, <1>7, <1>8, <1>9

-----------------------------------------------------------------------------
(* Order                                                                    *)

\* The types of what is queued, delivered and heard, for use element by element.
Numbers ==
  /\ \A a \in Nodes, m \in Nodes : heard[m][a] \in Nat
  /\ \A i \in 1..Len(pending) :
       pending[i].from \in Nodes /\ pending[i].to \in Nodes /\ pending[i].id \in Nat
  /\ \A m \in Nodes : \A i \in 1..Len(inbox[m]) :
       inbox[m][i].from \in Nodes /\ inbox[m][i].id \in Nat
  /\ \A n \in Nodes : sent_by[n] \in Nat
  /\ Len(pending) \in Nat /\ \A m \in Nodes : Len(inbox[m]) \in Nat

\* They follow from the types.
LEMMA AllNumbers ==
  ASSUME TypeOK
  PROVE  Numbers
<1>1. \A i \in 1..Len(pending) : pending[i] \in Message
  BY DEF TypeOK
<1>2. \A m \in Nodes : Len(inbox[m]) \in Nat /\ \A i \in 1..Len(inbox[m]) : inbox[m][i] \in Message
  <2> SUFFICES ASSUME NEW m \in Nodes
               PROVE  Len(inbox[m]) \in Nat /\ \A i \in 1..Len(inbox[m]) : inbox[m][i] \in Message
    OBVIOUS
  <2>1. inbox[m] \in Seq(Message)
    BY DEF TypeOK
  <2> QED  BY <2>1
<1>3. Len(pending) \in Nat
  BY DEF TypeOK
<1>4. \A n \in Nodes : sent_by[n] \in Nat /\ \A m \in Nodes : heard[m][n] \in Nat
  BY DEF TypeOK
<1> QED  BY <1>1, <1>2, <1>3, <1>4 DEF Message, Numbers

\* The steps that change no message: what a node still has to send shrinks.
LEMMA OrderStays ==
  ASSUME TypeOK, OrderInv,
         \A m \in Nodes : inbox'[m] = inbox[m] \/ inbox'[m] = <<>>,
         UNCHANGED <<pending, heard, sent_by>>,
         \A n \in Nodes : calls'[n] # None =>
           calls[n] # None /\ calls'[n].todo \subseteq calls[n].todo
  PROVE  OrderInv'
<1>1. \A m \in Nodes : \A i \in 1..Len(inbox'[m]) :
        inbox'[m] = inbox[m] /\ i \in 1..Len(inbox[m])
  OBVIOUS
<1>2. \A n, m \in Nodes, k \in Nat : Later(n, m, k) => Later(n, m, k)'
  BY <1>1 DEF Later
<1>3. \A n \in Nodes : sent_by[n] \in Nat /\ sent_by[n] + 1 \in Nat
  BY DEF TypeOK
<1>4. \A n, m \in Nodes : Later(n, m, sent_by[n] + 1)'
  BY <1>2, <1>3 DEF OrderInv
<1>5. \A n \in Nodes : calls'[n] # None => \A m \in calls'[n].todo : Later(n, m, sent_by[n])'
  <2> SUFFICES ASSUME NEW n \in Nodes, calls'[n] # None, NEW m \in calls'[n].todo
               PROVE  Later(n, m, sent_by[n])'
    OBVIOUS
  <2>1. calls[n] # None /\ m \in calls[n].todo
    OBVIOUS
  <2>2. m \in Nodes
    BY <2>1 DEF TypeOK, Call
  <2> QED  BY <1>2, <1>3, <2>1, <2>2 DEF OrderInv
<1> QED  BY <1>1, <1>4, <1>5 DEF OrderInv

\* A node that begins a call numbers it with the next number.
LEMMA OrderBegin ==
  ASSUME TypeOK, OrderInv, NEW n \in Nodes, NEW S \in SUBSET Nodes, begin(n, S)
  PROVE  OrderInv'
<1>1. /\ sent_by'[n] = sent_by[n] + 1 /\ \A k \in Nodes : k # n => sent_by'[k] = sent_by[k]
      /\ \A k \in Nodes : sent_by[k] \in Nat
      /\ calls'[n].todo = S /\ \A k \in Nodes : k # n => calls'[k] = calls[k]
      /\ UNCHANGED <<pending, inbox, heard>>
  BY DEF TypeOK, begin
<1>2. Numbers
  BY AllNumbers
<1>3. \A a, m \in Nodes, k \in Nat : Later(a, m, k) => Later(a, m, k + 1)
  BY <1>2 DEF Later, Numbers
<1>4. \A a, m \in Nodes, k \in Nat : Later(a, m, k)' <=> Later(a, m, k)
  BY <1>1 DEF Later
<1>5. \A a, m \in Nodes : Later(a, m, sent_by[a] + 1)'
  <2> SUFFICES ASSUME NEW a \in Nodes, NEW m \in Nodes  PROVE Later(a, m, sent_by[a] + 1)'
    OBVIOUS
  <2>1. Later(a, m, sent_by[a] + 1) /\ Later(a, m, (sent_by[a] + 1) + 1)
    BY <1>1, <1>3 DEF OrderInv
  <2>2. Later(a, m, sent_by'[a] + 1)
    BY <1>1, <2>1
  <2> QED  BY <1>1, <2>2 DEF Later
<1>6. \A a \in Nodes : calls'[a] # None => \A m \in calls'[a].todo : Later(a, m, sent_by[a])'
  <2> SUFFICES ASSUME NEW a \in Nodes, calls'[a] # None, NEW m \in calls'[a].todo
               PROVE  Later(a, m, sent_by[a])'
    OBVIOUS
  <2>1. m \in Nodes
    BY <1>1 DEF TypeOK, Call
  <2>2. Later(a, m, sent_by'[a])
    <3>1. CASE a = n
      BY <1>1, <2>1, <3>1 DEF OrderInv
    <3>2. CASE a # n
      BY <1>1, <2>1, <3>2 DEF OrderInv
    <3> QED  BY <3>1, <3>2
  <2> QED  BY <1>1, <2>2 DEF Later
<1> QED  BY <1>1, <1>5, <1>6 DEF OrderInv

\* A message that is queued has the largest number of its link so far.
LEMMA OrderQueue ==
  ASSUME TypeOK, OrderInv, NEW n \in Nodes, queue(n)
  PROVE  OrderInv'
<1> DEFINE to == calls[n].to
           N  == Len(pending) + 1
<1>1. /\ calls[n] # None /\ to \in calls[n].todo /\ to \in Nodes
      /\ \A k \in Nodes : calls'[k] # None =>
           /\ calls[k] # None /\ calls'[k].todo \subseteq calls[k].todo
           /\ k = n => to \notin calls'[k].todo
  <2>1. calls[n] # None /\ to \in calls[n].todo /\ to \in Nodes /\ calls' = Returned(n)
    BY DEF queue, TypeOK, Call
  <2> QED  BY <2>1, ReturnedIs
<1>2. Numbers /\ Later(n, to, sent_by[n])
  BY <1>1, AllNumbers DEF OrderInv
<1>3. CASE UNCHANGED pending
  BY <1>1, <1>3, OrderStays DEF queue
<1>4. CASE pending' = Append(pending, [from |-> n, to |-> to, id |-> sent_by[n]])
  <2>1. /\ Len(pending') = N /\ UNCHANGED <<inbox, heard, sent_by>>
        /\ \A i \in 1..Len(pending) : pending'[i] = pending[i]
        /\ pending'[N].from = n /\ pending'[N].to = to /\ pending'[N].id = sent_by[n]
        /\ \A i \in 1..N : i # N => i \in 1..Len(pending)
        /\ N \in 1..N /\ Len(pending) \in Nat
    BY <1>4 DEF queue, TypeOK
  <2> HIDE DEF to, N
  <2>2. \A m \in Nodes : \A i \in 1..Len(inbox[m]) : \A j \in 1..N :
          pending'[j].from = inbox[m][i].from /\ pending'[j].to = m =>
          inbox[m][i].id < pending'[j].id
    <3> SUFFICES ASSUME NEW m \in Nodes, NEW i \in 1..Len(inbox[m]), NEW j \in 1..N,
                        pending'[j].from = inbox[m][i].from, pending'[j].to = m
                 PROVE  inbox[m][i].id < pending'[j].id
      OBVIOUS
    <3>1. CASE j = N
      BY <1>2, <2>1, <3>1 DEF Later
    <3>2. CASE j # N
      BY <2>1, <3>2 DEF OrderInv
    <3> QED  BY <3>1, <3>2
  <2>3. \A i \in 1..N :
          /\ heard[pending'[i].to][pending'[i].from] < pending'[i].id
          /\ \A j \in 1..i - 1 :
               pending'[j].from = pending'[i].from /\ pending'[j].to = pending'[i].to =>
               pending'[j].id < pending'[i].id
    <3> SUFFICES ASSUME NEW i \in 1..N
                 PROVE  /\ heard[pending'[i].to][pending'[i].from] < pending'[i].id
                        /\ \A j \in 1..i - 1 :
                             pending'[j].from = pending'[i].from /\ pending'[j].to = pending'[i].to
                             => pending'[j].id < pending'[i].id
      OBVIOUS
    <3>0. \A j \in 1..i - 1 : j \in 1..Len(pending) /\ pending'[j] = pending[j]
      BY <2>1 DEF N
    <3>1. CASE i = N
      BY <1>2, <2>1, <3>0, <3>1 DEF Later
    <3>2. CASE i # N
      BY <2>1, <3>0, <3>2 DEF OrderInv
    <3> QED  BY <3>1, <3>2
  <2>4. \A a, m \in Nodes, k \in Nat :
          Later(a, m, k) /\ (a = n /\ m = to => sent_by[n] < k) => Later(a, m, k)'
    <3> SUFFICES ASSUME NEW a \in Nodes, NEW m \in Nodes, NEW k \in Nat, Later(a, m, k),
                        a = n /\ m = to => sent_by[n] < k
                 PROVE  Later(a, m, k)'
      OBVIOUS
    <3>1. \A i \in 1..N : pending'[i].from = a /\ pending'[i].to = m => pending'[i].id < k
      BY <2>1 DEF Later
    <3> QED  BY <2>1, <3>1 DEF Later
  <2>5. \A a, m \in Nodes : Later(a, m, sent_by[a] + 1)'
    <3> SUFFICES ASSUME NEW a \in Nodes, NEW m \in Nodes  PROVE Later(a, m, sent_by[a] + 1)'
      OBVIOUS
    <3>1. sent_by[a] + 1 \in Nat /\ sent_by[a] < sent_by[a] + 1 /\ Later(a, m, sent_by[a] + 1)
      BY <1>2 DEF Numbers, OrderInv
    <3> QED  BY <2>1, <2>4, <3>1
  <2>6. \A a \in Nodes : calls'[a] # None => \A m \in calls'[a].todo : Later(a, m, sent_by[a])'
    <3> SUFFICES ASSUME NEW a \in Nodes, calls'[a] # None, NEW m \in calls'[a].todo
                 PROVE  Later(a, m, sent_by[a])'
      OBVIOUS
    <3>1. calls[a] # None /\ m \in calls[a].todo /\ ~(a = n /\ m = to)
      BY <1>1
    <3>2. m \in Nodes /\ sent_by[a] \in Nat
      BY <3>1 DEF TypeOK, Call
    <3>3. Later(a, m, sent_by[a])
      BY <3>1 DEF OrderInv
    <3> QED  BY <2>1, <2>4, <3>1, <3>2, <3>3
  <2> QED  BY <2>1, <2>2, <2>3, <2>5, <2>6 DEF OrderInv
<1> QED  BY <1>3, <1>4 DEF queue

\* A node receives the oldest of the messages that have arrived.
LEMMA OrderReceive ==
  ASSUME TypeOK, OrderInv, NEW n \in Nodes, receive(n)
  PROVE  OrderInv'
<1> DEFINE first == inbox[n][1]
<1>1. /\ inbox[n] \in Seq(Message) /\ Len(inbox[n]) \in Nat \ {0}
      /\ first.from \in Nodes /\ first.id \in Nat /\ first = Head(inbox[n])
  <2>1. inbox[n] \in Seq(Message) /\ inbox[n] # <<>>
    BY DEF TypeOK, receive
  <2>2. Len(inbox[n]) \in Nat \ {0} /\ first \in Message /\ first = Head(inbox[n])
    BY <2>1
  <2> QED  BY <2>1, <2>2 DEF Message
<1>2. /\ Len(inbox'[n]) = Len(inbox[n]) - 1
      /\ \A i \in 1..Len(inbox'[n]) : inbox'[n][i] = inbox[n][i + 1] /\ i + 1 \in 1..Len(inbox[n])
      /\ \A m \in Nodes : m # n => inbox'[m] = inbox[m]
      /\ UNCHANGED <<pending, calls, sent_by>>
  BY <1>1, SMTT(30) DEF receive, TypeOK
<1>3. /\ heard'[n][first.from] = first.id
      /\ \A m, a \in Nodes : m # n \/ a # first.from => heard'[m][a] = heard[m][a]
  BY <1>1 DEF receive, TypeOK
<1>4. Numbers
  BY AllNumbers
<1> HIDE DEF first
<1>5. /\ \A i \in 1..Len(inbox[n]) : i # 1 /\ inbox[n][i].from = first.from =>
                                     first.id < inbox[n][i].id
      /\ \A j \in 1..Len(pending) : pending[j].from = first.from /\ pending[j].to = n =>
                                    first.id < pending[j].id
  <2>1. 1 \in 1..Len(inbox[n])
    BY <1>1
  <2>2. \A i \in 1..Len(inbox[n]) : i # 1 => 1 \in 1..i - 1
    BY <1>1
  <2> QED  BY <2>1, <2>2 DEF OrderInv, first
<1>6. \A m \in Nodes : \A i \in 1..Len(inbox'[m]) :
        /\ inbox'[m][i].to = m
        /\ heard'[m][inbox'[m][i].from] < inbox'[m][i].id
        /\ \A j \in 1..i - 1 : inbox'[m][j].from = inbox'[m][i].from =>
                               inbox'[m][j].id < inbox'[m][i].id
        /\ \A j \in 1..Len(pending) :
             pending[j].from = inbox'[m][i].from /\ pending[j].to = m =>
             inbox'[m][i].id < pending[j].id
  <2> SUFFICES ASSUME NEW m \in Nodes, NEW i \in 1..Len(inbox'[m])
               PROVE  /\ inbox'[m][i].to = m
                      /\ heard'[m][inbox'[m][i].from] < inbox'[m][i].id
                      /\ \A j \in 1..i - 1 : inbox'[m][j].from = inbox'[m][i].from =>
                                             inbox'[m][j].id < inbox'[m][i].id
                      /\ \A j \in 1..Len(pending) :
                           pending[j].from = inbox'[m][i].from /\ pending[j].to = m =>
                           inbox'[m][i].id < pending[j].id
    OBVIOUS
  <2>1. CASE m = n
    <3>1. inbox'[m][i] = inbox[n][i + 1] /\ i + 1 \in 1..Len(inbox[n]) /\ i + 1 # 1
      BY <1>2, <2>1
    <3>2. \A j \in 1..i - 1 : inbox'[m][j] = inbox[n][j + 1] /\ j + 1 \in 1..i
      <4>1. i \in 1..(Len(inbox[n]) - 1) /\ Len(inbox'[n]) = Len(inbox[n]) - 1
        BY <1>2, <2>1
      <4>2. \A j \in 1..i - 1 : j \in 1..(Len(inbox[n]) - 1) /\ j + 1 \in 1..i
        BY <1>1, <4>1
      <4> QED  BY <1>2, <2>1, <4>1, <4>2
    <3>3. inbox[n][i + 1].from \in Nodes
      BY <1>4, <3>1 DEF Numbers
    <3>4. heard'[n][inbox[n][i + 1].from] < inbox[n][i + 1].id
      BY <1>3, <1>5, <3>1, <3>3, SMTT(30) DEF OrderInv
    <3>5. \A j \in 1..i - 1 : inbox'[m][j].from = inbox'[m][i].from =>
                              inbox'[m][j].id < inbox'[m][i].id
      <4>1. \A j \in 1..(i + 1) - 1 : inbox[n][j].from = inbox[n][i + 1].from =>
                                      inbox[n][j].id < inbox[n][i + 1].id
        BY <3>1 DEF OrderInv
      <4>2. (i + 1) - 1 = i
        BY <3>1
      <4> QED  BY <3>1, <3>2, <4>1, <4>2
    <3> QED  BY <2>1, <3>1, <3>4, <3>5 DEF OrderInv
  <2>2. CASE m # n
    <3>1. inbox'[m] = inbox[m] /\ i \in 1..Len(inbox[m])
      BY <1>2, <2>2
    <3>2. inbox[m][i].from \in Nodes
      BY <1>4, <3>1 DEF Numbers
    <3>3. heard'[m][inbox[m][i].from] = heard[m][inbox[m][i].from]
      BY <1>3, <2>2, <3>2
    <3> QED  BY <3>1, <3>3 DEF OrderInv
  <2> QED  BY <2>1, <2>2
<1>7. \A i \in 1..Len(pending) : heard'[pending[i].to][pending[i].from] < pending[i].id
  BY <1>3, <1>4, <1>5, SMTT(30) DEF OrderInv, Numbers
<1>8. \A a, m \in Nodes, k \in Nat : Later(a, m, k) => Later(a, m, k)'
  <2> SUFFICES ASSUME NEW a \in Nodes, NEW m \in Nodes, NEW k \in Nat, Later(a, m, k)
               PROVE  Later(a, m, k)'
    OBVIOUS
  <2>1. heard'[m][a] < k
    <3>1. 1 \in 1..Len(inbox[n]) /\ first = inbox[n][1]
      BY <1>1 DEF first
    <3> QED  BY <1>3, <3>1 DEF Later
  <2>2. \A i \in 1..Len(inbox'[m]) : inbox'[m][i].from = a => inbox'[m][i].id < k
    BY <1>2, SMTT(30) DEF Later
  <2> QED  BY <1>2, <2>1, <2>2 DEF Later
<1>9. \A a, m \in Nodes : Later(a, m, sent_by[a] + 1)'
  <2> SUFFICES ASSUME NEW a \in Nodes, NEW m \in Nodes  PROVE Later(a, m, sent_by[a] + 1)'
    OBVIOUS
  <2>1. sent_by[a] + 1 \in Nat /\ Later(a, m, sent_by[a] + 1)
    BY <1>4 DEF Numbers, OrderInv
  <2> QED  BY <1>2, <1>8, <2>1
<1>10. \A a \in Nodes : calls'[a] # None => \A m \in calls'[a].todo : Later(a, m, sent_by[a])'
  <2> SUFFICES ASSUME NEW a \in Nodes, calls'[a] # None, NEW m \in calls'[a].todo
               PROVE  Later(a, m, sent_by[a])'
    OBVIOUS
  <2>1. m \in Nodes /\ sent_by[a] \in Nat /\ Later(a, m, sent_by[a])
    BY <1>2 DEF TypeOK, Call, OrderInv
  <2> QED  BY <1>2, <1>8, <2>1
<1> QED  BY <1>2, <1>6, <1>7, <1>9, <1>10 DEF OrderInv

\* The oldest message of the queue becomes the latest of its receiver.
LEMMA OrderDeliver ==
  ASSUME TypeOK, OrderInv, Delivered
  PROVE  OrderInv'
<1> DEFINE msg == pending[1]
           to  == msg.to
<1>1. /\ Len(pending) \in Nat \ {0} /\ Len(pending') = Len(pending) - 1
      /\ \A i \in 1..Len(pending') : pending'[i] = pending[i + 1] /\ i + 1 \in 1..Len(pending)
      /\ UNCHANGED <<calls, sent_by, heard>>
      /\ 1 \in 1..Len(pending) /\ \A i \in 1..Len(pending') : 1 \in 1..(i + 1) - 1
  BY DEF Delivered
<1>2. Numbers
  BY AllNumbers
<1>3. msg \in Message /\ msg.from \in Nodes /\ to \in Nodes /\ msg.id \in Nat
  BY DEF Delivered, Message
<1>4. \A j \in 1..Len(pending) : j # 1 /\ pending[j].from = msg.from /\ pending[j].to = to =>
                                 msg.id < pending[j].id
  <2>1. \A j \in 1..Len(pending) : j # 1 => 1 \in 1..j - 1
    BY <1>1
  <2> QED  BY <2>1 DEF OrderInv
<1>5. \A i \in 1..Len(pending') :
        /\ heard[pending'[i].to][pending'[i].from] < pending'[i].id
        /\ \A j \in 1..i - 1 :
             pending'[j].from = pending'[i].from /\ pending'[j].to = pending'[i].to =>
             pending'[j].id < pending'[i].id
  <2> SUFFICES ASSUME NEW i \in 1..Len(pending')
               PROVE  /\ heard[pending'[i].to][pending'[i].from] < pending'[i].id
                      /\ \A j \in 1..i - 1 :
                           pending'[j].from = pending'[i].from /\ pending'[j].to = pending'[i].to =>
                           pending'[j].id < pending'[i].id
    OBVIOUS
  <2>1. /\ pending'[i] = pending[i + 1] /\ i + 1 \in 1..Len(pending)
        /\ \A j \in 1..i - 1 : j \in 1..Len(pending') /\ j + 1 \in 1..(i + 1) - 1
    BY <1>1
  <2>2. \A j \in 1..i - 1 : pending'[j] = pending[j + 1]
    BY <1>1, <2>1
  <2>3. /\ heard[pending[i + 1].to][pending[i + 1].from] < pending[i + 1].id
        /\ \A j \in 1..(i + 1) - 1 :
             pending[j].from = pending[i + 1].from /\ pending[j].to = pending[i + 1].to =>
             pending[j].id < pending[i + 1].id
    BY <2>1 DEF OrderInv
  <2> QED  BY <2>1, <2>2, <2>3
<1> DEFINE InboxOrder(box, m) ==
      \A i \in 1..Len(box) :
        /\ box[i].to = m
        /\ heard[m][box[i].from] < box[i].id
        /\ \A j \in 1..i - 1 : box[j].from = box[i].from => box[j].id < box[i].id
        /\ \A j \in 1..Len(pending') :
             pending'[j].from = box[i].from /\ pending'[j].to = m => box[i].id < pending'[j].id
<1>6. \A m \in Nodes : InboxOrder(inbox[m], m)
  <2> SUFFICES ASSUME NEW m \in Nodes, NEW i \in 1..Len(inbox[m])
               PROVE  /\ inbox[m][i].to = m
                      /\ heard[m][inbox[m][i].from] < inbox[m][i].id
                      /\ \A j \in 1..i - 1 : inbox[m][j].from = inbox[m][i].from =>
                                             inbox[m][j].id < inbox[m][i].id
                      /\ \A j \in 1..Len(pending') :
                           pending'[j].from = inbox[m][i].from /\ pending'[j].to = m =>
                           inbox[m][i].id < pending'[j].id
    OBVIOUS
  <2>1. \A j \in 1..Len(pending) :
          pending[j].from = inbox[m][i].from /\ pending[j].to = m => inbox[m][i].id < pending[j].id
    BY DEF OrderInv
  <2>2. \A j \in 1..Len(pending') :
          pending'[j].from = inbox[m][i].from /\ pending'[j].to = m =>
          inbox[m][i].id < pending'[j].id
    BY <1>1, <2>1
  <2> QED  BY <2>2 DEF OrderInv
<1> DEFINE box == Append(inbox[to], msg)
<1>7. /\ Len(box) = Len(inbox[to]) + 1 /\ Len(inbox[to]) \in Nat
      /\ \A i \in 1..Len(inbox[to]) : box[i] = inbox[to][i]
      /\ box[Len(box)] = msg
  <2>1. inbox[to] \in Seq(Message)
    BY <1>3 DEF TypeOK
  <2> HIDE DEF msg, to
  <2> QED  BY <1>3, <2>1
<1>8. InboxOrder(box, to)
  <2> HIDE DEF box, msg
  <2> SUFFICES ASSUME NEW i \in 1..Len(box)
               PROVE  /\ box[i].to = to
                      /\ heard[to][box[i].from] < box[i].id
                      /\ \A j \in 1..i - 1 : box[j].from = box[i].from => box[j].id < box[i].id
                      /\ \A j \in 1..Len(pending') :
                           pending'[j].from = box[i].from /\ pending'[j].to = to =>
                           box[i].id < pending'[j].id
    OBVIOUS
  <2>0. \A j \in 1..i - 1 : j \in 1..Len(inbox[to]) /\ box[j] = inbox[to][j]
    BY <1>7
  <2>1. CASE i = Len(box)
    <3>1. box[i] = msg /\ msg = pending[1] /\ 1 \in 1..Len(pending)
      BY <1>1, <1>7, <2>1 DEF msg
    <3>2. heard[to][msg.from] < msg.id
      BY <3>1 DEF OrderInv
    <3>3. \A j \in 1..i - 1 : box[j].from = msg.from => box[j].id < msg.id
      BY <1>3, <2>0, <3>1 DEF OrderInv
    <3>4. \A j \in 1..Len(pending') :
            pending'[j].from = msg.from /\ pending'[j].to = to => msg.id < pending'[j].id
      BY <1>1, <1>4, SMTT(30)
    <3> QED  BY <3>1, <3>2, <3>3, <3>4
  <2>2. CASE i # Len(box)
    <3>1. i \in 1..Len(inbox[to]) /\ box[i] = inbox[to][i]
      BY <1>7, <2>2
    <3>2. InboxOrder(inbox[to], to)
      BY <1>3, <1>6
    <3> QED  BY <2>0, <3>1, <3>2
  <2> QED  BY <2>1, <2>2
<1>9. \A m \in Nodes : InboxOrder(inbox'[m], m)
  <2> HIDE DEF InboxOrder
  <2>1. inbox'[to] = box \/ inbox'[to] = inbox[to]
    BY <1>3 DEF Delivered, TypeOK
  <2>2. \A m \in Nodes : m # to => inbox'[m] = inbox[m]
    BY <1>3 DEF Delivered, TypeOK
  <2> QED  BY <1>6, <1>8, <2>1, <2>2
<1>10. \A a, m \in Nodes, k \in Nat : Later(a, m, k) => Later(a, m, k)'
  <2> SUFFICES ASSUME NEW a \in Nodes, NEW m \in Nodes, NEW k \in Nat, Later(a, m, k)
               PROVE  Later(a, m, k)'
    OBVIOUS
  <2>1. \A i \in 1..Len(pending') : pending'[i].from = a /\ pending'[i].to = m => pending'[i].id < k
    BY <1>1 DEF Later
  <2>2. inbox'[m] = inbox[m] \/ (m = to /\ inbox'[m] = box)
    BY <1>3 DEF Delivered, TypeOK
  <2>3. m = to => \A i \in 1..Len(box) : box[i].from = a => box[i].id < k
    <3> HIDE DEF box, msg
    <3> SUFFICES ASSUME m = to, NEW i \in 1..Len(box), box[i].from = a  PROVE box[i].id < k
      OBVIOUS
    <3>1. CASE i = Len(box)
      <4>1. box[i] = pending[1] /\ 1 \in 1..Len(pending) /\ pending[1].to = m
        BY <1>1, <1>7, <3>1 DEF msg
      <4> QED  BY <4>1 DEF Later
    <3>2. CASE i # Len(box)
      BY <1>7, <3>2 DEF Later
    <3> QED  BY <3>1, <3>2
  <2>4. \A i \in 1..Len(inbox'[m]) : inbox'[m][i].from = a => inbox'[m][i].id < k
    <3> HIDE DEF box, msg
    <3> QED  BY <2>2, <2>3 DEF Later
  <2> QED  BY <1>1, <2>1, <2>4 DEF Later
<1>11. \A a, m \in Nodes : Later(a, m, sent_by[a] + 1)'
  <2> SUFFICES ASSUME NEW a \in Nodes, NEW m \in Nodes  PROVE Later(a, m, sent_by[a] + 1)'
    OBVIOUS
  <2>1. sent_by[a] + 1 \in Nat /\ Later(a, m, sent_by[a] + 1)
    BY <1>2 DEF Numbers, OrderInv
  <2> QED  BY <1>1, <1>10, <2>1
<1>12. \A a \in Nodes : calls'[a] # None => \A m \in calls'[a].todo : Later(a, m, sent_by[a])'
  <2> SUFFICES ASSUME NEW a \in Nodes, calls'[a] # None, NEW m \in calls'[a].todo
               PROVE  Later(a, m, sent_by[a])'
    OBVIOUS
  <2>1. m \in Nodes /\ sent_by[a] \in Nat /\ Later(a, m, sent_by[a])
    BY <1>1 DEF TypeOK, Call, OrderInv
  <2> QED  BY <1>1, <1>10, <2>1
<1> HIDE DEF msg, to, box
<1> QED  BY <1>1, <1>5, <1>9, <1>11, <1>12 DEF OrderInv

\* No other step changes the order.
LEMMA OrderElsewhere ==
  ASSUME TypeOK, OrderInv
  PROVE  /\ Elsewhere => OrderInv'
         /\ \A n \in Nodes : count(n) => OrderInv'
         /\ \A n \in Nodes : check(n) => OrderInv'
<1>1. Elsewhere => OrderInv'
  BY OrderStays DEF Elsewhere
<1>2. ASSUME NEW n \in Nodes, count(n)  PROVE OrderInv'
  <2>1. PICK to : Counted(n, to)
    BY <1>2, CountIs
  <2> QED  BY <1>2, <2>1, OrderStays DEF count, Counted
<1>3. ASSUME NEW n \in Nodes, check(n)  PROVE OrderInv'
  <2>1. calls[n] # None /\ calls[n] \in Call
    BY <1>3 DEF check, TypeOK
  <2>2. \A k \in Nodes : calls'[k] # None => calls[k] # None /\ calls'[k].todo \subseteq calls[k].todo
    <3>1. CASE calls' = Returned(n)
      BY <2>1, <3>1, ReturnedIs
    <3>2. CASE calls' = [calls EXCEPT ![n].at = "queue"]
      BY <2>1, <3>2 DEF TypeOK, Call
    <3> QED  BY <1>3, <3>1, <3>2 DEF check
  <2> QED  BY <1>3, <2>2, OrderStays DEF check
<1> QED  BY <1>1, <1>2, <1>3

\* The steps of the simulated network together.
LEMMA SimulatorSteps ==
  ASSUME SimulatorInv
  PROVE  /\ Elsewhere => SimulatorInv'
         /\ \A n \in Nodes : count(n) \/ check(n) \/ queue(n) \/ receive(n) => SimulatorInv'
         /\ \A n \in Nodes, S \in SUBSET Nodes : begin(n, S) => SimulatorInv'
         /\ deliver => SimulatorInv'
<1>0. TypeOK /\ Accounted /\ OrderInv
  BY DEF SimulatorInv
<1>1. Elsewhere => SimulatorInv'
  BY <1>0, ElsewhereType, AccountedStep, OrderElsewhere DEF SimulatorInv
<1>2. ASSUME NEW n \in Nodes, count(n)  PROVE SimulatorInv'
  BY <1>0, <1>2, CountType, AccountedStep, OrderElsewhere DEF SimulatorInv
<1>3. ASSUME NEW n \in Nodes, check(n)  PROVE SimulatorInv'
  BY <1>0, <1>3, CheckType, AccountedStep, OrderElsewhere DEF SimulatorInv
<1>4. ASSUME NEW n \in Nodes, queue(n)  PROVE SimulatorInv'
  BY <1>0, <1>4, QueueType, AccountedStep, OrderQueue DEF SimulatorInv
<1>5. ASSUME NEW n \in Nodes, receive(n)  PROVE SimulatorInv'
  BY <1>0, <1>5, ReceiveType, AccountedStep, OrderReceive DEF SimulatorInv
<1>6. ASSUME NEW n \in Nodes, NEW S \in SUBSET Nodes, begin(n, S)  PROVE SimulatorInv'
  BY <1>0, <1>6, BeginType, AccountedStep, OrderBegin DEF SimulatorInv
<1>7. ASSUME deliver  PROVE SimulatorInv'
  BY <1>0, <1>7, DeliverIs, DeliverType, AccountedStep, OrderDeliver DEF SimulatorInv
<1> QED  BY <1>1, <1>2, <1>3, <1>4, <1>5, <1>6, <1>7

-----------------------------------------------------------------------------
(* Partitions                                                               *)

\* The parts of WallInv about a set of partitions and about a call.
Distinct(ps) == \A p, q \in ps : p.id = q.id => p = q

Passes(c, n, ps) ==
  c # None /\ c.at # "next" =>
    /\ \A i \in c.walls : Used(i)
    /\ \A p \in ps : p.id \in c.walls => Separates(p, n, c.to)
    /\ c.at = "queue" => \A p \in ps : p.id \in c.walls => ~p.live

\* WallInv is the conjunction of its parts.
LEMMA WallParts ==
  WallInv <=> /\ \A p \in partitions : Used(p.id)
              /\ Distinct(partitions)
              /\ \A n \in Nodes : Passes(calls[n], n, partitions)
BY DEF WallInv, Distinct, Passes

\* What every step does to the script and to the bounds.
DriverStep ==
  /\ plan' = plan
  /\ "at" \in DOMAIN harness' /\ harness'.at \in {harness.at, harness.at + 1}
  /\ budget' \in [Bounded -> Nat] /\ budget'.cuts <= budget.cuts

\* Such a step keeps the bounds, and the numbers used so far stay used.
LEMMA DriverStays ==
  ASSUME DriverInv, DriverStep
  PROVE  /\ DriverInv'
         /\ \A i \in Nat : Used(i) => Used(i)'
<1>1. budget.cuts \in Nat /\ budget'.cuts \in Nat /\ plan.bounds.cuts \in Nat /\ Len(plan.faults) \in Nat
  <2>1. "cuts" \in Bounded
    BY DEF Bounded
  <2> QED  BY <2>1, PlansAssumption DEF DriverInv, DriverStep
<1>2. harness.at \in Nat /\ harness'.at \in Nat /\ harness.at <= harness'.at
  BY DEF DriverInv, DriverStep
<1>3. DriverInv'
  BY <1>1, <1>2 DEF DriverInv, DriverStep
<1>4. \A i \in Nat : Used(i) => Used(i)'
  BY <1>1, <1>2, SMTT(30) DEF Used, CutId, DriverStep
<1> QED  BY <1>3, <1>4

\* A bound is used up.
LEMMA Spending ==
  ASSUME DriverInv, NEW what \in Bounded, Has(what), Spend(what)
  PROVE  /\ budget' \in [Bounded -> Nat] /\ budget'.cuts <= budget.cuts
         /\ what = "cuts" => budget'.cuts = budget.cuts - 1
<1>1. budget \in [Bounded -> Nat] /\ "cuts" \in Bounded /\ budget[what] > 0
  BY DEF DriverInv, Has, Bounded
<1>2. budget' = [budget EXCEPT ![what] = budget[what] - 1]
  BY <1>1 DEF Spend
<1> QED  BY <1>1, <1>2

\* A partition that is created has a number of its own.
LEMMA FreshNumbers ==
  ASSUME DriverInv
  PROVE  /\ harness.at <= Len(plan.faults) /\ plan' = plan /\ harness'.at = harness.at + 1 =>
              harness.at \in Nat /\ ~Used(harness.at) /\ (\A i : i = harness.at => Used(i)')
         /\ plan' = plan /\ budget'.cuts = budget.cuts - 1 =>
              CutId \in Nat /\ ~Used(CutId) /\ (\A i : i = CutId => Used(i)')
<1>1. budget.cuts \in Nat /\ plan.bounds.cuts \in Nat /\ Len(plan.faults) \in Nat
      /\ budget.cuts <= plan.bounds.cuts
  <2>1. "cuts" \in Bounded
    BY DEF Bounded
  <2> QED  BY <2>1, PlansAssumption DEF DriverInv
<1>2. harness.at \in Nat
  BY DEF DriverInv
<1>3. CutId \in Nat /\ CutId > Len(plan.faults)
  BY <1>1 DEF CutId
<1>4. plan' = plan /\ budget'.cuts = budget.cuts - 1 => CutId' = CutId + 1
  BY <1>1, SMTT(30) DEF CutId
<1>5. ~Used(CutId)
  BY <1>1, <1>2, <1>3 DEF Used
<1>6. plan' = plan /\ CutId' = CutId + 1 => \A i : i = CutId => Used(i)'
  BY <1>1, <1>3 DEF Used
<1>7. harness.at <= Len(plan.faults) => ~Used(harness.at)
  BY <1>1, <1>2, <1>3 DEF Used
<1>8. harness.at <= Len(plan.faults) /\ plan' = plan /\ harness'.at = harness.at + 1 =>
        \A i : i = harness.at => Used(i)'
  BY <1>1, <1>2 DEF Used
<1> QED  BY <1>2, <1>3, <1>4, <1>5, <1>6, <1>7, <1>8

\* Partitions end, are forgotten or stay as they are.
Thinner ==
  /\ \A p \in partitions' : \E q \in partitions :
       q.id = p.id /\ q.nodes = p.nodes /\ (p.live => q.live)
  /\ Distinct(partitions) => Distinct(partitions')

\* A call goes on, ends, or a new one begins.
CallsThin == \A n \in Nodes : calls'[n] # None /\ calls'[n].at # "next" => calls'[n] = calls[n]

\* With fewer partitions and no new message under way, nothing new can pass.
LEMMA WallThin ==
  ASSUME WallInv, TypeOK, TypeOK', \A i \in Nat : Used(i) => Used(i)', Thinner, CallsThin
  PROVE  WallInv'
<1>1. /\ \A p \in partitions : Used(p.id)
      /\ Distinct(partitions)
      /\ \A n \in Nodes : Passes(calls[n], n, partitions)
  BY WallParts
<1>2. \A p \in partitions' : Used(p.id)'
  <2> SUFFICES ASSUME NEW p \in partitions'  PROVE Used(p.id)'
    OBVIOUS
  <2>1. p.id \in Nat
    BY DEF TypeOK, Partition
  <2>2. Used(p.id)
    BY <1>1 DEF Thinner
  <2> QED  BY <2>1, <2>2
<1>3. \A n \in Nodes : Passes(calls[n], n, partitions)'
  <2> SUFFICES ASSUME NEW n \in Nodes, calls'[n] # None, calls'[n].at # "next"
               PROVE  /\ \A i \in calls'[n].walls : Used(i)'
                      /\ \A p \in partitions' : p.id \in calls'[n].walls =>
                                                Separates(p, n, calls'[n].to)
                      /\ calls'[n].at = "queue" =>
                           \A p \in partitions' : p.id \in calls'[n].walls => ~p.live
    BY DEF Passes
  <2>1. calls'[n] = calls[n] /\ Passes(calls[n], n, partitions) /\ calls[n].walls \subseteq Nat
    BY <1>1 DEF CallsThin, TypeOK, Call
  <2>2. \A i \in calls'[n].walls : Used(i)'
    BY <2>1 DEF Passes
  <2> QED  BY <2>1, <2>2 DEF Passes, Thinner, Separates
<1>4. Distinct(partitions')
  BY <1>1 DEF Thinner
<1> QED  BY <1>2, <1>3, <1>4 DEF WallInv, Passes, Distinct

\* A partition is created while calls are under way.
LEMMA WallCreate ==
  ASSUME WallInv, TypeOK, TypeOK', \A i \in Nat : Used(i) => Used(i)',
         NEW S, NEW new \in Nat, create_partition(S, new), ~Used(new), Used(new)'
  PROVE  WallInv'
<1>1. /\ \A p \in partitions : Used(p.id)
      /\ Distinct(partitions)
      /\ \A n \in Nodes : Passes(calls[n], n, partitions)
  BY WallParts
<1> DEFINE part == [id |-> new, nodes |-> S, live |-> TRUE]
<1>2. partitions' = partitions \cup {part} /\ calls' = calls /\ part.id = new
  BY DEF create_partition
<1> HIDE DEF part
<1>3. \A p \in partitions' : Used(p.id)'
  <2> SUFFICES ASSUME NEW p \in partitions'  PROVE Used(p.id)'
    OBVIOUS
  <2>1. CASE p = part
    <3>1. p.id = new
      BY <1>2, <2>1
    <3> QED  BY <3>1
  <2>2. CASE p \in partitions
    <3>1. p.id \in Nat
      BY <2>2 DEF TypeOK, Partition
    <3> QED  BY <1>1, <2>2, <3>1
  <2> QED  BY <1>2, <2>1, <2>2
<1>4. Distinct(partitions')
  BY <1>1, <1>2 DEF Distinct
<1>5. \A n \in Nodes : Passes(calls[n], n, partitions)'
  <2> SUFFICES ASSUME NEW n \in Nodes, calls'[n] # None, calls'[n].at # "next"
               PROVE  /\ \A i \in calls'[n].walls : Used(i)'
                      /\ \A p \in partitions' : p.id \in calls'[n].walls =>
                                                Separates(p, n, calls'[n].to)
                      /\ calls'[n].at = "queue" =>
                           \A p \in partitions' : p.id \in calls'[n].walls => ~p.live
    BY DEF Passes
  <2>1. calls'[n] = calls[n] /\ Passes(calls[n], n, partitions) /\ calls[n].walls \subseteq Nat
    BY <1>1, <1>2 DEF TypeOK, Call
  <2>2. \A i \in calls'[n].walls : Used(i)'
    BY <2>1 DEF Passes
  <2>3. new \notin calls[n].walls
    BY <2>1 DEF Passes
  <2> QED  BY <1>2, <2>1, <2>2, <2>3 DEF Passes
<1> QED  BY <1>3, <1>4, <1>5 DEF WallInv, Passes, Distinct

\* send_message remembers the partitions in its way.
LEMMA WallCount ==
  ASSUME WallInv, TypeOK, TypeOK', \A i \in Nat : Used(i) => Used(i)',
         NEW n \in Nodes, count(n)
  PROVE  WallInv'
<1>1. /\ \A p \in partitions : Used(p.id)
      /\ Distinct(partitions)
      /\ \A k \in Nodes : Passes(calls[k], k, partitions)
      /\ partitions' = partitions
  BY WallParts DEF count
<1>2. PICK to : Counted(n, to)
  BY CountIs
<1>3. \A p \in partitions : p.id \in Nat /\ Used(p.id)'
  <2>1. \A p \in partitions : p.id \in Nat
    BY DEF TypeOK, Partition
  <2> QED  BY <1>1, <2>1
<1>4. \A k \in Nodes : Passes(calls[k], k, partitions)'
  <2> SUFFICES ASSUME NEW k \in Nodes, calls'[k] # None, calls'[k].at # "next"
               PROVE  /\ \A i \in calls'[k].walls : Used(i)'
                      /\ \A p \in partitions : p.id \in calls'[k].walls =>
                                               Separates(p, k, calls'[k].to)
                      /\ calls'[k].at = "queue" =>
                           \A p \in partitions : p.id \in calls'[k].walls => ~p.live
    BY <1>1 DEF Passes
  <2>1. CASE k = n
    <3>1. /\ calls'[k].at = "check" /\ calls'[k].to = to
          /\ calls'[k].walls = {p.id : p \in {q \in partitions : q.live /\ Separates(q, n, to)}}
      BY <1>2, <2>1 DEF Counted
    <3>2. \A i \in calls'[k].walls : Used(i)'
      BY <1>3, <3>1
    <3>3. \A p \in partitions : p.id \in calls'[k].walls => Separates(p, n, to)
      BY <1>1, <3>1 DEF Distinct
    <3> QED  BY <2>1, <3>1, <3>2, <3>3
  <2>2. CASE k # n
    <3>1. calls'[k] = calls[k] /\ Passes(calls[k], k, partitions) /\ calls[k].walls \subseteq Nat
      BY <1>1, <1>2, <2>2 DEF Counted, TypeOK, Call
    <3>2. \A i \in calls'[k].walls : Used(i)'
      BY <3>1 DEF Passes
    <3> QED  BY <3>1, <3>2 DEF Passes
  <2> QED  BY <2>1, <2>2
<1> QED  BY <1>1, <1>3, <1>4 DEF WallInv, Passes, Distinct

\* A call that goes on after the look at the partitions passes none that is live.
LEMMA WallCheck ==
  ASSUME WallInv, TypeOK, TypeOK', \A i \in Nat : Used(i) => Used(i)',
         NEW n \in Nodes, check(n)
  PROVE  WallInv'
<1>1. /\ \A p \in partitions : Used(p.id)
      /\ Distinct(partitions)
      /\ \A k \in Nodes : Passes(calls[k], k, partitions)
      /\ partitions' = partitions
      /\ calls[n] # None /\ calls[n].at = "check" /\ calls[n] \in Call
  BY WallParts DEF check, TypeOK
<1>2. CASE calls' = Returned(n)
  <2>1. CallsThin
    BY <1>1, <1>2, ReturnedIs DEF CallsThin
  <2>2. Thinner
    BY <1>1 DEF Thinner, Distinct
  <2> QED  BY <2>1, <2>2, WallThin
<1>3. CASE calls' = [calls EXCEPT ![n].at = "queue"] /\ ~are_nodes_partitioned(n, calls[n].to)
  <2>1. /\ calls'[n].at = "queue" /\ calls'[n].to = calls[n].to /\ calls'[n].walls = calls[n].walls
        /\ \A k \in Nodes : k # n => calls'[k] = calls[k]
    BY <1>1, <1>3 DEF TypeOK, Call
  <2>2. \A p \in partitions : Used(p.id)'
    <3>1. \A p \in partitions : p.id \in Nat
      BY DEF TypeOK, Partition
    <3> QED  BY <1>1, <3>1
  <2>3. \A k \in Nodes : Passes(calls[k], k, partitions)'
    <3> SUFFICES ASSUME NEW k \in Nodes, calls'[k] # None, calls'[k].at # "next"
                 PROVE  /\ \A i \in calls'[k].walls : Used(i)'
                        /\ \A p \in partitions : p.id \in calls'[k].walls =>
                                                 Separates(p, k, calls'[k].to)
                        /\ calls'[k].at = "queue" =>
                             \A p \in partitions : p.id \in calls'[k].walls => ~p.live
      BY <1>1 DEF Passes
    <3>1. CASE k = n
      <4>1. Passes(calls[n], n, partitions) /\ calls[n].walls \subseteq Nat
        BY <1>1 DEF Call
      <4>2. \A i \in calls[n].walls : Used(i)'
        BY <1>1, <4>1 DEF Passes
      <4>3. \A p \in partitions : p.id \in calls[n].walls => Separates(p, n, calls[n].to) /\ ~p.live
        BY <1>1, <1>3, <4>1 DEF Passes, are_nodes_partitioned
      <4> QED  BY <2>1, <3>1, <4>2, <4>3
    <3>2. CASE k # n
      <4>1. calls'[k] = calls[k] /\ Passes(calls[k], k, partitions) /\ calls[k].walls \subseteq Nat
        BY <1>1, <2>1, <3>2 DEF TypeOK, Call
      <4>2. \A i \in calls'[k].walls : Used(i)'
        BY <4>1 DEF Passes
      <4> QED  BY <4>1, <4>2 DEF Passes
    <3> QED  BY <3>1, <3>2
  <2> QED  BY <1>1, <2>2, <2>3 DEF WallInv, Passes, Distinct
<1> QED  BY <1>2, <1>3 DEF check

-----------------------------------------------------------------------------
(* The steps of the whole                                                   *)

\* What a step of the cluster is to the simulated network.
NetworkStep ==
  \/ Elsewhere /\ Thinner
  \/ \E S \in SUBSET Nodes, i \in Nat : create_partition(S, i) /\ ~Used(i) /\ Used(i)'
  \/ \E n \in Nodes : count(n) \/ check(n) \/ queue(n) \/ receive(n)
  \/ \E n \in Nodes, S \in SUBSET Nodes : begin(n, S)
  \/ deliver

\* Each of these keeps the invariants of the network.
LEMMA NetworkStays ==
  ASSUME SimulatorInv, WallInv, \A i \in Nat : Used(i) => Used(i)', NetworkStep
  PROVE  SimulatorInv' /\ WallInv'
<1>0. TypeOK
  BY DEF SimulatorInv
<1>1. CASE Elsewhere /\ Thinner
  <2>1. SimulatorInv' /\ TypeOK'
    BY <1>1, SimulatorSteps DEF SimulatorInv
  <2>2. CallsThin
    BY <1>1 DEF Elsewhere, CallsThin
  <2> QED  BY <1>0, <1>1, <2>1, <2>2, WallThin
<1>2. ASSUME NEW S \in SUBSET Nodes, NEW i \in Nat, create_partition(S, i), ~Used(i), Used(i)'
      PROVE  SimulatorInv' /\ WallInv'
  <2>1. SimulatorInv' /\ TypeOK'
    BY <1>0, <1>2, ElsewhereSteps, SimulatorSteps DEF SimulatorInv
  <2> QED  BY <1>0, <1>2, <2>1, WallCreate
<1>3. ASSUME NEW n \in Nodes, count(n)  PROVE SimulatorInv' /\ WallInv'
  <2>1. SimulatorInv' /\ TypeOK'
    BY <1>3, SimulatorSteps DEF SimulatorInv
  <2> QED  BY <1>0, <1>3, <2>1, WallCount
<1>4. ASSUME NEW n \in Nodes, check(n)  PROVE SimulatorInv' /\ WallInv'
  <2>1. SimulatorInv' /\ TypeOK'
    BY <1>4, SimulatorSteps DEF SimulatorInv
  <2> QED  BY <1>0, <1>4, <2>1, WallCheck
<1>5. ASSUME NEW n \in Nodes, queue(n)  PROVE SimulatorInv' /\ WallInv'
  <2>1. SimulatorInv' /\ TypeOK'
    BY <1>5, SimulatorSteps DEF SimulatorInv
  <2>2. CallsThin
    BY <1>0, <1>5, ReturnedIs DEF queue, CallsThin
  <2>3. Thinner
    BY <1>5 DEF queue, Thinner, Distinct
  <2> QED  BY <1>0, <2>1, <2>2, <2>3, WallThin
<1>6. ASSUME NEW n \in Nodes, receive(n)  PROVE SimulatorInv' /\ WallInv'
  <2>1. SimulatorInv' /\ TypeOK'
    BY <1>6, SimulatorSteps DEF SimulatorInv
  <2>2. CallsThin /\ Thinner
    BY <1>6 DEF receive, Thinner, Distinct, CallsThin
  <2> QED  BY <1>0, <2>1, <2>2, WallThin
<1>7. ASSUME NEW n \in Nodes, NEW S \in SUBSET Nodes, begin(n, S)
      PROVE  SimulatorInv' /\ WallInv'
  <2>1. SimulatorInv' /\ TypeOK'
    BY <1>7, SimulatorSteps DEF SimulatorInv
  <2>2. CallsThin
    BY <1>0, <1>7 DEF begin, CallsThin, TypeOK
  <2>3. Thinner
    BY <1>7 DEF begin, Thinner, Distinct
  <2> QED  BY <1>0, <2>1, <2>2, <2>3, WallThin
<1>8. CASE deliver
  <2>1. SimulatorInv' /\ TypeOK'
    BY <1>8, SimulatorSteps DEF SimulatorInv
  <2>2. CallsThin /\ Thinner
    BY <1>8 DEF deliver, DeliverFrom, Thinner, Distinct, CallsThin
  <2> QED  BY <1>0, <2>1, <2>2, WallThin
<1> QED  BY <1>1, <1>2, <1>3, <1>4, <1>5, <1>6, <1>7, <1>8 DEF NetworkStep

\* Which steps change partitions only by ending them.
LEMMA ThinnerSteps ==
  /\ UNCHANGED partitions => Thinner
  /\ heal_partitions => Thinner
  /\ cleanup_expired_partitions => Thinner
  /\ partitions \subseteq Partition /\ expire => Thinner
<1>1. UNCHANGED partitions => Thinner
  BY DEF Thinner, Distinct
<1>2. heal_partitions => Thinner
  BY DEF Thinner, Distinct, heal_partitions
<1>3. cleanup_expired_partitions => Thinner
  BY DEF Thinner, Distinct, cleanup_expired_partitions
<1>4. ASSUME partitions \subseteq Partition, expire  PROVE Thinner
  <2>1. PICK p \in partitions : p.live /\
          partitions' = (partitions \ {p}) \cup {[p EXCEPT !.live = FALSE]}
    BY <1>4 DEF expire
  <2> DEFINE new == [p EXCEPT !.live = FALSE]
  <2>2. new.id = p.id /\ new.nodes = p.nodes /\ ~new.live
    BY <1>4 DEF Partition
  <2> HIDE DEF new
  <2>3. partitions' = (partitions \ {p}) \cup {new}
    BY <2>1 DEF new
  <2> QED  BY <2>1, <2>2, <2>3 DEF Thinner, Distinct
<1> QED  BY <1>1, <1>2, <1>3, <1>4

\* The steps in which nothing happens on the network but that conditions, nodes,
\* connections or the flags change.
LEMMA QuietSteps ==
  ASSUME TypeOK
  PROVE  /\ UNCHANGED simulatorVars => NetworkStep
         /\ \A c : update_conditions(c) => NetworkStep
         /\ \A n : remove_node(n) => NetworkStep
         /\ \A n \in Nodes : drop(n) => NetworkStep
         /\ \A n \in Nodes : add_node(n) => NetworkStep
         /\ \A n \in Nodes, S \in SUBSET Nodes : connect_to_nodes(n, S) => NetworkStep
         /\ request_shutdown => NetworkStep
         /\ heal_partitions => NetworkStep
         /\ expire \/ cleanup_expired_partitions \/ stop => NetworkStep
<1>1. /\ UNCHANGED simulatorVars => UNCHANGED partitions
      /\ \A c : update_conditions(c) => UNCHANGED partitions
      /\ \A n : remove_node(n) => UNCHANGED partitions
      /\ \A n : drop(n) => UNCHANGED partitions
      /\ \A n : add_node(n) => UNCHANGED partitions
      /\ \A n, S : connect_to_nodes(n, S) => UNCHANGED partitions
      /\ request_shutdown => UNCHANGED partitions
      /\ stop => UNCHANGED partitions
  BY DEF simulatorVars, update_conditions, remove_node, drop, add_node, connect_to_nodes,
         request_shutdown, stop
<1>2. partitions \subseteq Partition
  BY DEF TypeOK
<1> QED  BY <1>1, <1>2, ElsewhereSteps, ThinnerSteps DEF NetworkStep

\* What every step of the cluster is to its driver and to its network.
LEMMA StepIs ==
  ASSUME DriverInv, TypeOK, [Next]_vars
  PROVE  DriverStep /\ NetworkStep
<1>0. /\ budget \in [Bounded -> Nat] /\ budget.cuts \in Nat
      /\ "at" \in DOMAIN harness /\ harness.at \in Nat
  BY DEF DriverInv, Bounded
<1>1. UNCHANGED budget => budget' \in [Bounded -> Nat] /\ budget'.cuts <= budget.cuts
  BY <1>0
<1>2. \A what \in Bounded : Has(what) /\ Spend(what) =>
        /\ budget' \in [Bounded -> Nat] /\ budget'.cuts <= budget.cuts
        /\ what = "cuts" => budget'.cuts = budget.cuts - 1
  BY Spending
<1>3. {"commits", "failures", "sends", "cuts", "heals", "drops", "joins", "connects",
       "polls", "ends"} \subseteq Bounded
  BY DEF Bounded
<1> DEFINE Asking == "at" \in DOMAIN harness' /\ harness'.at = harness.at
<1>4. /\ UNCHANGED harness => Asking
      /\ harness' = Skip => Asking
      /\ \A x : harness' = [harness EXCEPT !.pc = x] => Asking
      /\ \A x : harness' = [harness EXCEPT !.asked = x] => Asking
      /\ \A x, y : harness' = [harness EXCEPT !.pc = x, !.success = y] => Asking
      /\ harness' = [harness EXCEPT !.at = @ + 1] =>
           "at" \in DOMAIN harness' /\ harness'.at = harness.at + 1
  BY <1>0 DEF Skip
<1>5. /\ Asking /\ UNCHANGED <<plan, budget>> => DriverStep
      /\ \A what \in Bounded : Asking /\ UNCHANGED plan /\ Has(what) /\ Spend(what) => DriverStep
  BY <1>1, <1>2 DEF DriverStep
<1> HIDE DEF Asking
<1>6. ASSUME NEW n \in Nodes, handle_command(n)  PROVE DriverStep /\ NetworkStep
  <2>1. Asking
    <3>1. UNCHANGED harness \/ get_statistics(n)
      BY <1>6 DEF handle_command
    <3> QED  BY <1>0, <3>1 DEF get_statistics, Asking
  <2> QED  BY <1>5, <1>6, <2>1, QuietSteps DEF handle_command
<1>7. ASSUME NEW n \in Nodes, commit(n)  PROVE DriverStep /\ NetworkStep
  BY <1>3, <1>4, <1>5, <1>7, QuietSteps DEF commit
<1>8. ASSUME NEW n \in Nodes, end_engine(n)  PROVE DriverStep /\ NetworkStep
  <2>1. Asking
    BY <1>4, <1>8 DEF end_engine
  <2>2. DriverStep
    BY <1>3, <1>5, <1>8, <2>1 DEF end_engine
  <2> QED  BY <1>8, <2>2, QuietSteps DEF end_engine
<1>9. ASSUME NEW n \in Nodes, transport(n)  PROVE DriverStep /\ NetworkStep
  <2>1. DriverStep
    BY <1>3, <1>4, <1>5, <1>9 DEF transport
  <2>2. connected[n] \ {n} \in SUBSET Nodes /\ \A m \in Nodes : {m} \in SUBSET Nodes
    BY DEF TypeOK
  <2>3. NetworkStep
    BY <1>9, <2>2 DEF transport, broadcast, send_to, NetworkStep
  <2> QED  BY <2>1, <2>3
<1>10. ASSUME NEW n \in Nodes, poll(n)  PROVE DriverStep /\ NetworkStep
  <2>1. Asking
    BY <1>4, <1>10 DEF poll
  <2> QED  BY <1>5, <1>10, <2>1, QuietSteps DEF poll
<1>11. ASSUME NEW n \in Nodes, poll_connections(n)  PROVE DriverStep /\ NetworkStep
  BY <1>3, <1>4, <1>5, <1>11, QuietSteps DEF poll_connections
<1>12. ASSUME NEW n \in Nodes, hear(n)  PROVE DriverStep /\ NetworkStep
  BY <1>4, <1>5, <1>12, QuietSteps DEF hear, driverVars
<1>13. CASE submit \/ collect \/ judge
  <2>1. Asking
    BY <1>4, <1>13 DEF submit, collect, judge
  <2>2. UNCHANGED <<plan, budget>> /\ UNCHANGED simulatorVars
    BY <1>13 DEF submit, collect, judge
  <2> QED  BY <1>5, <2>1, <2>2, QuietSteps
<1>14. CASE inject_fault
  <2> DEFINE fault == plan.faults[harness.at]
  <2>1. /\ harness.at <= Len(plan.faults) /\ UNCHANGED <<plan, budget>>
        /\ "at" \in DOMAIN harness' /\ harness'.at = harness.at + 1
    BY <1>4, <1>14 DEF inject_fault
  <2>2. DriverStep
    BY <1>1, <2>1 DEF DriverStep
  <2>3. fault \in FaultType
    <3>1. plan.faults \in Seq(FaultType) /\ harness.at \in Nat \ {0}
      BY PlansAssumption DEF DriverInv
    <3> QED  BY <2>1, <3>1
  <2>4. fault.type = "NetworkPartition" => fault.nodes \in SUBSET Nodes
    BY <2>3 DEF FaultType
  <2> HIDE DEF fault
  <2>5. CASE fault.type = "NetworkPartition" /\ create_partition(fault.nodes, harness.at)
    <3>1. harness.at \in Nat /\ ~Used(harness.at) /\ (\A i : i = harness.at => Used(i)')
      BY <2>1, FreshNumbers
    <3> QED  BY <2>2, <2>4, <2>5, <3>1 DEF NetworkStep
  <2>6. CASE remove_node(fault.node) \/ (\E c : update_conditions(c)) \/ UNCHANGED simulatorVars
    BY <2>2, <2>6, QuietSteps
  <2> QED  BY <1>14, <2>5, <2>6 DEF inject_fault, set_conditions, fault
<1>15. CASE restore
  BY <1>4, <1>5, <1>15, QuietSteps DEF restore
<1>16. CASE end_harness
  <2>1. Asking
    BY <1>4, <1>16 DEF end_harness
  <2> QED  BY <1>3, <1>5, <1>16, <2>1, QuietSteps DEF end_harness
<1>17. CASE run_performance_test
  BY <1>4, <1>5, <1>17, QuietSteps DEF run_performance_test
<1>18. CASE submit_batch \/ await_answer
  <2>1. UNCHANGED <<plan, budget, harness>> /\ UNCHANGED simulatorVars
    BY <1>18 DEF submit_batch, await_answer
  <2> QED  BY <1>4, <1>5, <2>1, QuietSteps
<1>19. CASE end_benchmark
  BY <1>4, <1>5, <1>19, QuietSteps DEF end_benchmark
<1>20. CASE test
  <2>0. UNCHANGED <<plan, harness>>
    BY <1>20 DEF test
  <2>1. DriverStep
    BY <1>3, <1>4, <1>5, <1>20, <2>0 DEF test
  <2>2. plan.groups \subseteq SUBSET Nodes
    BY PlansAssumption DEF DriverInv
  <2>3. ASSUME NEW ns \in plan.groups, Has("cuts"), Spend("cuts"), create_partition(ns, CutId)
        PROVE  NetworkStep
    <3>1. budget'.cuts = budget.cuts - 1
      BY <1>2, <1>3, <2>3
    <3>2. CutId \in Nat /\ ~Used(CutId) /\ (\A i : i = CutId => Used(i)')
      BY <2>0, <3>1, FreshNumbers
    <3>3. PICK i \in Nat : i = CutId
      BY <3>2
    <3>4. create_partition(ns, i) /\ ~Used(i) /\ Used(i)'
      BY <2>3, <3>2, <3>3
    <3> QED  BY <2>2, <3>4 DEF NetworkStep
  <2>4. NetworkStep
    BY <1>20, <2>2, <2>3, QuietSteps DEF test
  <2> QED  BY <2>1, <2>4
<1>21. CASE simulate
  <2>1. DriverStep
    BY <1>4, <1>5, <1>21 DEF simulate, driverVars
  <2>2. NetworkStep
    BY <1>21, QuietSteps DEF simulate, NetworkStep
  <2> QED  BY <2>1, <2>2
<1>22. CASE UNCHANGED vars
  BY <1>4, <1>5, <1>22, QuietSteps DEF vars, driverVars
<1> QED  BY <1>6, <1>7, <1>8, <1>9, <1>10, <1>11, <1>12, <1>13, <1>14, <1>15, <1>16, <1>17,
            <1>18, <1>19, <1>20, <1>21, <1>22 DEF Next

-----------------------------------------------------------------------------
(* Membership                                                               *)

EventType == [type : {"Changed", "QuorumLost", "QuorumRestored", "NetworkPartition"},
              nodes : SUBSET Nodes]

\* A change of connections ends in the event that carries the new ones.
LEMMA EventsOfIs ==
  ASSUME NEW old \in SUBSET Nodes, NEW new \in SUBSET Nodes
  PROVE  LET es == EventsOf(old, new, enough(old)) IN
         /\ es \in Seq(EventType)
         /\ old = new => es = <<>>
         /\ old # new => es # <<>> /\ es[Len(es)] = Event("NetworkPartition", new)
<1>1. /\ Event("Changed", {}) \in EventType /\ Event("QuorumLost", {}) \in EventType
      /\ Event("QuorumRestored", new) \in EventType
      /\ Event("NetworkPartition", new) \in EventType
  BY DEF Event, EventType
<1> QED  BY <1>1 DEF EventsOf

\* update_connected_nodes queues its events behind those that are waiting.
LEMMA MembershipPoll ==
  ASSUME MembershipInv, NEW n \in Nodes, NEW ns \in SUBSET Nodes, update_connected_nodes(n, ns)
  PROVE  MembershipInv'
<1> DEFINE old == monitor[n].connected_nodes
           es  == EventsOf(old, ns, enough(old))
<1>1. /\ old \in SUBSET Nodes /\ monitor[n].has_quorum = enough(old)
      /\ events \in [Nodes -> Seq(EventType)]
  BY DEF MembershipInv, EventType
<1>2. /\ es \in Seq(EventType)
      /\ old = ns => es = <<>>
      /\ old # ns => es # <<>> /\ es[Len(es)] = Event("NetworkPartition", ns)
  BY <1>1, EventsOfIs
<1>3. enough(ns) \in BOOLEAN
  BY DEF enough
<1>4. /\ monitor' = [monitor EXCEPT ![n] = [connected_nodes |-> ns, has_quorum |-> enough(ns)]]
      /\ events' = [events EXCEPT ![n] = @ \o es]
      /\ UNCHANGED <<active_nodes, has_quorum, is_active, told>>
  BY <1>1 DEF update_connected_nodes
<1>5. /\ monitor' \in [Nodes -> [connected_nodes : SUBSET Nodes, has_quorum : BOOLEAN]]
      /\ monitor'[n].connected_nodes = ns /\ monitor'[n].has_quorum = enough(ns)
      /\ \A k \in Nodes : k # n => monitor'[k] = monitor[k]
  BY <1>3, <1>4 DEF MembershipInv
<1> HIDE DEF es
<1>6. /\ events' \in [Nodes -> Seq(EventType)] /\ events'[n] = events[n] \o es
      /\ \A k \in Nodes : k # n => events'[k] = events[k]
  BY <1>1, <1>2, <1>4
<1> DEFINE Newest(k) == events'[k] # <<>> => events'[k][Len(events'[k])] =
                        Event("NetworkPartition", monitor'[k].connected_nodes)
           Follows(k) == told[k] /\ events'[k] = <<>> =>
                           /\ active_nodes[k] = monitor'[k].connected_nodes
                           /\ has_quorum[k] = monitor'[k].has_quorum
                           /\ is_active[k] = has_quorum[k]
<1>7. \A k \in Nodes : Newest(k) /\ Follows(k)
  <2> SUFFICES ASSUME NEW k \in Nodes  PROVE Newest(k) /\ Follows(k)
    OBVIOUS
  <2>1. CASE k # n
    BY <1>5, <1>6, <2>1 DEF MembershipInv, QuorumFollows
  <2>2. CASE k = n /\ old = ns
    <3>1. events'[n] = events[n] /\ monitor'[n].connected_nodes = monitor[n].connected_nodes
          /\ monitor'[n].has_quorum = monitor[n].has_quorum
      BY <1>1, <1>2, <1>5, <1>6, <2>2
    <3> QED  BY <2>2, <3>1 DEF MembershipInv, QuorumFollows
  <2>3. CASE k = n /\ old # ns
    <3>1. events'[n] # <<>> /\ events'[n][Len(events'[n])] = es[Len(es)]
      <4>1. events[n] \in Seq(EventType) /\ es \in Seq(EventType) /\ es # <<>>
        BY <1>1, <1>2, <2>3
      <4>2. /\ Len(events[n] \o es) = Len(events[n]) + Len(es)
            /\ Len(es) \in Nat \ {0} /\ Len(events[n]) \in Nat
        BY <4>1
      <4>3. (events[n] \o es)[Len(events[n]) + Len(es)] = es[Len(es)]
        BY <4>1, <4>2
      <4> QED  BY <1>6, <4>1, <4>2, <4>3
    <3> QED  BY <1>2, <1>5, <2>3, <3>1
  <2> QED  BY <2>1, <2>2, <2>3
<1>8. \A k \in Nodes : monitor'[k].has_quorum = enough(monitor'[k].connected_nodes)
  BY <1>5 DEF MembershipInv
<1>9. QuorumFollows'
  BY <1>4, <1>7 DEF QuorumFollows
<1> QED  BY <1>4, <1>5, <1>6, <1>7, <1>8, <1>9 DEF MembershipInv, enough, quorum_size, EventType

\* A node that handles the last event of its queue has the monitor's view.
LEMMA MembershipHear ==
  ASSUME MembershipInv, NEW n \in Nodes, handle_event(n)
  PROVE  MembershipInv'
<1> DEFINE e == Head(events[n])
<1>1. events \in [Nodes -> Seq(EventType)] /\ events[n] \in Seq(EventType) /\ events[n] # <<>>
  BY DEF MembershipInv, EventType, handle_event
<1>2. /\ e \in EventType /\ Tail(events[n]) \in Seq(EventType)
      /\ Len(Tail(events[n])) = Len(events[n]) - 1 /\ Len(events[n]) \in Nat \ {0}
      /\ \A i \in 1..Len(events[n]) - 1 : Tail(events[n])[i] = events[n][i + 1]
      /\ e = events[n][1]
  BY <1>1
<1>3. /\ events' \in [Nodes -> Seq(EventType)] /\ events'[n] = Tail(events[n])
      /\ \A k \in Nodes : k # n => events'[k] = events[k]
      /\ UNCHANGED monitor
  BY <1>1, <1>2 DEF handle_event
<1>4. e.nodes \in SUBSET Nodes /\ enough(e.nodes) \in BOOLEAN
  BY <1>2 DEF EventType, enough
<1>5. /\ active_nodes' \in [Nodes -> SUBSET Nodes]
      /\ has_quorum' \in [Nodes -> BOOLEAN] /\ is_active' \in [Nodes -> BOOLEAN]
      /\ told' \in [Nodes -> BOOLEAN]
      /\ \A k \in Nodes : k # n =>
           /\ active_nodes'[k] = active_nodes[k] /\ has_quorum'[k] = has_quorum[k]
           /\ is_active'[k] = is_active[k] /\ told'[k] = told[k]
  <2>1. \/ UNCHANGED <<active_nodes, has_quorum, told>>
        \/ \E S \in SUBSET Nodes, b \in BOOLEAN :
             /\ active_nodes' = [active_nodes EXCEPT ![n] = S]
             /\ has_quorum' = [has_quorum EXCEPT ![n] = b]
             /\ told' = [told EXCEPT ![n] = TRUE]
    BY <1>4 DEF handle_event, update_active_nodes
  <2>2. is_active' = is_active \/ \E b \in BOOLEAN : is_active' = [is_active EXCEPT ![n] = b]
    BY <1>4 DEF handle_event
  <2>3. /\ active_nodes \in [Nodes -> SUBSET Nodes] /\ has_quorum \in [Nodes -> BOOLEAN]
        /\ is_active \in [Nodes -> BOOLEAN] /\ told \in [Nodes -> BOOLEAN]
    BY DEF MembershipInv
  <2>4. /\ is_active' \in [Nodes -> BOOLEAN]
        /\ \A k \in Nodes : k # n => is_active'[k] = is_active[k]
    BY <2>2, <2>3
  <2>5. /\ active_nodes' \in [Nodes -> SUBSET Nodes]
        /\ \A k \in Nodes : k # n => active_nodes'[k] = active_nodes[k]
    BY <2>1, <2>3
  <2>6. /\ has_quorum' \in [Nodes -> BOOLEAN]
        /\ \A k \in Nodes : k # n => has_quorum'[k] = has_quorum[k]
    BY <2>1, <2>3
  <2>7. told' \in [Nodes -> BOOLEAN] /\ \A k \in Nodes : k # n => told'[k] = told[k]
    BY <2>1, <2>3
  <2> QED  BY <2>4, <2>5, <2>6, <2>7
<1>6. \A k \in Nodes : events'[k] # <<>> =>
        events'[k][Len(events'[k])] = Event("NetworkPartition", monitor[k].connected_nodes)
  <2> SUFFICES ASSUME NEW k \in Nodes, events'[k] # <<>>
               PROVE  events'[k][Len(events'[k])] = Event("NetworkPartition", monitor[k].connected_nodes)
    OBVIOUS
  <2>1. CASE k # n
    BY <1>3, <2>1 DEF MembershipInv
  <2>2. CASE k = n
    <3>1. Len(events[n]) - 1 \in 1..Len(events[n]) - 1
      BY <1>2, <1>3, <2>2
    <3>2. Tail(events[n])[Len(events[n]) - 1] = events[n][Len(events[n])]
      BY <1>2, <3>1
    <3> QED  BY <1>1, <1>2, <1>3, <2>2, <3>2 DEF MembershipInv
  <2> QED  BY <2>1, <2>2
<1>7. ASSUME events'[n] = <<>>
      PROVE  /\ active_nodes'[n] = monitor[n].connected_nodes
             /\ has_quorum'[n] = monitor[n].has_quorum /\ is_active'[n] = has_quorum'[n]
  <2>1. Len(events[n]) = 1
    <3>1. Len(Tail(events[n])) = 0
      <4>1. Tail(events[n]) = <<>>
        BY <1>3, <1>7
      <4>2. Len(<<>>) = 0
        OBVIOUS
      <4> QED  BY <4>1, <4>2, Zenon
    <3> QED  BY <1>2, <3>1
  <2>2. e = Event("NetworkPartition", monitor[n].connected_nodes)
    BY <1>1, <1>2, <2>1 DEF MembershipInv
  <2>3. e.type = "NetworkPartition" /\ e.nodes = monitor[n].connected_nodes
    BY <2>2 DEF Event
  <2>4. update_active_nodes(n, e.nodes) /\ is_active' = [is_active EXCEPT ![n] = enough(e.nodes)]
    BY <2>3 DEF handle_event
  <2>5. active_nodes'[n] = e.nodes /\ has_quorum'[n] = enough(e.nodes) /\ is_active'[n] = enough(e.nodes)
    BY <2>4 DEF update_active_nodes, MembershipInv
  <2> QED  BY <2>3, <2>5 DEF MembershipInv
<1>8. QuorumFollows'
  <2> SUFFICES ASSUME NEW k \in Nodes, told'[k], events'[k] = <<>>
               PROVE  /\ active_nodes'[k] = monitor'[k].connected_nodes
                      /\ has_quorum'[k] = monitor'[k].has_quorum /\ is_active'[k] = has_quorum'[k]
    BY DEF QuorumFollows
  <2>1. CASE k # n
    BY <1>3, <1>5, <2>1 DEF MembershipInv, QuorumFollows
  <2>2. CASE k = n
    BY <1>3, <1>7, <2>2
  <2> QED  BY <2>1, <2>2
<1> HIDE DEF e
<1>9. \A k \in Nodes : monitor'[k].has_quorum = enough(monitor'[k].connected_nodes)
  BY <1>3 DEF MembershipInv
<1>10. monitor' \in [Nodes -> [connected_nodes : SUBSET Nodes, has_quorum : BOOLEAN]]
  BY <1>3 DEF MembershipInv
<1> QED  BY <1>3, <1>5, <1>6, <1>8, <1>9, <1>10 DEF MembershipInv, enough, quorum_size, EventType

\* Every other step leaves the membership alone.
LEMMA MembershipNext ==
  ASSUME MembershipInv, TypeOK, [Next]_vars
  PROVE  MembershipInv'
<1>1. UNCHANGED membershipVars => MembershipInv'
  BY DEF membershipVars, MembershipInv, QuorumFollows, enough, quorum_size
<1>2. ASSUME NEW n \in Nodes, poll_connections(n)  PROVE MembershipInv'
  <2>1. connected[n] \in SUBSET Nodes
    BY DEF TypeOK
  <2> QED  BY <1>2, <2>1, MembershipPoll DEF poll_connections
<1>3. ASSUME NEW n \in Nodes, hear(n)  PROVE MembershipInv'
  BY <1>3, MembershipHear DEF hear
<1>4. ASSUME NEW n \in Nodes,
             handle_command(n) \/ commit(n) \/ end_engine(n) \/ transport(n) \/ poll(n)
      PROVE  UNCHANGED membershipVars
  BY <1>4 DEF handle_command, commit, end_engine, transport, poll
<1>5. ASSUME submit \/ inject_fault \/ restore \/ collect \/ judge \/ end_harness
             \/ run_performance_test \/ submit_batch \/ await_answer \/ end_benchmark
             \/ test \/ simulate
      PROVE  UNCHANGED membershipVars
  BY <1>5 DEF submit, inject_fault, restore, collect, judge, end_harness, run_performance_test,
              submit_batch, await_answer, end_benchmark, test, simulate
<1>6. UNCHANGED vars => UNCHANGED membershipVars
  BY DEF vars
<1> QED  BY <1>1, <1>2, <1>3, <1>4, <1>5, <1>6 DEF Next

-----------------------------------------------------------------------------
(* Theorems                                                                 *)

\* The invariant holds in the state that the harness sets up.
LEMMA ClusterInit == Init => ClusterInv
<1> SUFFICES ASSUME Init  PROVE ClusterInv
  OBVIOUS
<1>1. /\ plan \in Plans /\ plan.faults \in Seq(FaultType) /\ plan.bounds \in [Bounded -> Nat]
      /\ plan.view \in SUBSET Nodes
  BY PlansAssumption DEF Init
<1>2. SimulatorInit(plan.view) /\ MembershipInit(plan.view)
  BY DEF Init
<1>3. <<>> \in Seq(Message) /\ Len(<<>>) = 0
  OBVIOUS
<1>4. TypeOK
  BY <1>1, <1>2, <1>3 DEF SimulatorInit, TypeOK, NetworkStats
<1>5. Accounted
  <2>1. {n \in Nodes : calls[n] # None /\ calls[n].at # "next"} = {}
    BY <1>2 DEF SimulatorInit
  <2>2. InCall = 0
    BY <2>1, FS_EmptySet DEF InCall
  <2> QED  BY <1>2, <1>3, <2>2 DEF SimulatorInit, Accounted
<1>6. OrderInv
  BY <1>2, <1>3 DEF SimulatorInit, OrderInv, Later
<1>7. DriverInv
  <2>1. "cuts" \in Bounded
    BY DEF Bounded
  <2> QED  BY <1>1, <2>1 DEF Init, DriverInv
<1>8. WallInv
  BY <1>2 DEF SimulatorInit, WallInv
<1>9. MembershipInv
  <2>1. \A S : enough(S) \in BOOLEAN
    BY DEF enough
  <2>2. \A S : (S = Nodes) \in BOOLEAN
    OBVIOUS
  <2>3. /\ monitor = [n \in Nodes |-> [connected_nodes |-> Nodes, has_quorum |-> enough(Nodes)]]
        /\ events = [n \in Nodes |-> <<>>] /\ active_nodes = [n \in Nodes |-> plan.view]
        /\ has_quorum = [n \in Nodes |-> enough(plan.view)]
        /\ is_active = [n \in Nodes |-> enough(plan.view)]
        /\ told = [n \in Nodes |-> plan.view = Nodes]
    BY <1>2 DEF MembershipInit
  <2>4. monitor \in [Nodes -> [connected_nodes : SUBSET Nodes, has_quorum : BOOLEAN]]
    BY <2>1, <2>3
  <2>5. /\ has_quorum \in [Nodes -> BOOLEAN] /\ is_active \in [Nodes -> BOOLEAN]
        /\ active_nodes \in [Nodes -> SUBSET Nodes]
    BY <1>1, <2>1, <2>3
  <2>6. told \in [Nodes -> BOOLEAN]
    BY <2>2, <2>3
  <2>7. events \in [Nodes -> Seq(EventType)]
    BY <2>3
  <2>8. \A n \in Nodes : /\ monitor[n].has_quorum = enough(monitor[n].connected_nodes)
                         /\ events[n] = <<>>
    BY <2>3
  <2>9. QuorumFollows
    BY <2>3 DEF QuorumFollows
  <2> QED  BY <2>4, <2>5, <2>6, <2>7, <2>8, <2>9 DEF MembershipInv, EventType
<1> QED  BY <1>4, <1>5, <1>6, <1>7, <1>8, <1>9 DEF ClusterInv, SimulatorInv

\* Every step keeps the invariant.
LEMMA ClusterNext == ClusterInv /\ [Next]_vars => ClusterInv'
<1> SUFFICES ASSUME ClusterInv, [Next]_vars  PROVE ClusterInv'
  OBVIOUS
<1>1. SimulatorInv /\ TypeOK /\ DriverInv /\ WallInv /\ MembershipInv
  BY DEF ClusterInv, SimulatorInv
<1>2. DriverStep /\ NetworkStep
  BY <1>1, StepIs
<1>3. DriverInv' /\ \A i \in Nat : Used(i) => Used(i)'
  BY <1>1, <1>2, DriverStays
<1>4. SimulatorInv' /\ WallInv'
  BY <1>1, <1>2, <1>3, NetworkStays
<1>5. MembershipInv'
  BY <1>1, MembershipNext
<1> QED  BY <1>3, <1>4, <1>5 DEF ClusterInv

\* The invariant holds in every reachable state, whatever the driver.
THEOREM ClusterCorrect == Spec => []ClusterInv
BY ClusterInit, ClusterNext, PTL DEF Spec

\* The statistics of the simulator add up at any time, for every interleaving of
\* send_message, deliveries and faults.
THEOREM MessagesAreAccounted == Spec => []Accounted
<1>1. ClusterInv => Accounted
  BY DEF ClusterInv, SimulatorInv
<1> QED  BY <1>1, ClusterCorrect, PTL

\* deliver_pending_messages keeps the order of every link, although a broadcast
\* interleaves with everything else between its sends.
THEOREM LinksKeepOrder == Spec => []LinkOrder
<1>1. ClusterInv => LinkOrder
  <2> SUFFICES ASSUME ClusterInv, NEW m \in Nodes, NEW j \in 1..Len(Ahead(m)), Ahead(m)[j].to = m
               PROVE  /\ heard[m][Ahead(m)[j].from] < Ahead(m)[j].id
                      /\ \A i \in 1..j - 1 :
                           Ahead(m)[i].from = Ahead(m)[j].from /\ Ahead(m)[i].to = m =>
                           Ahead(m)[i].id < Ahead(m)[j].id
    BY DEF LinkOrder
  <2>1. TypeOK /\ OrderInv
    BY DEF ClusterInv, SimulatorInv
  <2>2. inbox[m] \in Seq(Message) /\ pending \in Seq(Message)
    BY <2>1 DEF TypeOK
  <2> DEFINE k == Len(inbox[m])
  <2>3. /\ k \in Nat /\ Len(pending) \in Nat /\ Len(Ahead(m)) = k + Len(pending)
        /\ \A i \in 1..k : Ahead(m)[i] = inbox[m][i]
        /\ \A i \in 1..Len(Ahead(m)) : i > k => Ahead(m)[i] = pending[i - k] /\ i - k \in 1..Len(pending)
    BY <2>2 DEF Ahead
  <2> HIDE DEF k
  <2>4. CASE j <= k
    <3>1. j \in 1..k /\ \A i \in 1..j - 1 : i \in 1..k
      BY <2>3, <2>4
    <3>2. Ahead(m)[j] = inbox[m][j] /\ \A i \in 1..j - 1 : Ahead(m)[i] = inbox[m][i]
      BY <2>3, <3>1
    <3> QED  BY <2>1, <3>1, <3>2 DEF OrderInv, k
  <2>5. CASE j > k
    <3>1. Ahead(m)[j] = pending[j - k] /\ j - k \in 1..Len(pending)
      BY <2>3, <2>5
    <3>2. heard[m][Ahead(m)[j].from] < Ahead(m)[j].id
      BY <2>1, <3>1 DEF OrderInv
    <3>3. ASSUME NEW i \in 1..j - 1, Ahead(m)[i].from = Ahead(m)[j].from, Ahead(m)[i].to = m
          PROVE  Ahead(m)[i].id < Ahead(m)[j].id
      <4>1. CASE i <= k
        <5>1. i \in 1..k /\ Ahead(m)[i] = inbox[m][i]
          BY <2>3, <4>1
        <5> QED  BY <2>1, <3>1, <3>3, <5>1 DEF OrderInv, k
      <4>2. CASE i > k
        <5>1. i \in 1..Len(Ahead(m))
          OBVIOUS
        <5>2. Ahead(m)[i] = pending[i - k] /\ i - k \in 1..Len(pending) /\ i - k \in 1..(j - k) - 1
          BY <2>3, <4>2, <5>1
        <5> QED  BY <2>1, <3>1, <3>3, <5>2 DEF OrderInv
      <4> QED  BY <2>3, <4>1, <4>2
    <3> QED  BY <3>2, <3>3
  <2> QED  BY <2>3, <2>4, <2>5
<1> QED  BY <1>1, ClusterCorrect, PTL

\* are_nodes_partitioned is asked after the message is counted, under another lock:
\* what was in the way all the time still stops the message.
THEOREM PartitionsStop == Spec => []PartitionsHold
<1>1. ClusterInv => PartitionsHold
  BY DEF ClusterInv, WallInv, PartitionsHold
<1> QED  BY <1>1, ClusterCorrect, PTL

\* A node that has handled the events of its monitor believes what the monitor saw
\* last, however many changes came while it was handling them.
THEOREM QuorumIsFollowed == Spec => []QuorumFollows
<1>1. ClusterInv => QuorumFollows
  BY DEF ClusterInv, MembershipInv
<1> QED  BY <1>1, ClusterCorrect, PTL

=============================================================================
