-------------------------- MODULE TcpNetworkProofs --------------------------
(***************************************************************************)
(* The order of messages on the TCP transport, for any nodes, peers,       *)
(* numbers of attempts, breaks, time-outs, crashes and messages.           *)
(*                                                                         *)
(* Between two nodes there may be any number of streams even if calls of   *)
(* connect_to_peer never overlap: an attempt whose handshake fails leaves  *)
(* its stream behind, and the accepting end may have registered it and     *)
(* sent on it.  The argument is that a message is read only from a stream  *)
(* that its dialer registered, and that there is at most one of these.     *)
(***************************************************************************)
EXTENDS TcpNetwork, FiniteSetTheorems, TLAPS

-----------------------------------------------------------------------------
(* The inductive invariant                                                  *)

Stages == {"idle", "look_up", "connect", "handshake", "register"}
Queues == UNION {[P -> Seq(Nat)] : P \in SUBSET Nodes}
Stream == [dialer : Nodes, acceptor : Nodes, open : BOOLEAN,
           inbound : {"accepted", "answered", "gone", "done"},
           reading : SUBSET Nodes, queue : Queues]
Dial   == [stage : Stages, attempts : Nat, stream : Nat \cup {None}]

TypeOK ==
  /\ up \in SUBSET Nodes
  /\ peers \in [Nodes -> SUBSET Nodes]
  /\ connections \in [Nodes -> [Nodes -> Nat \cup {None}]]
  /\ dial \in [Nodes -> [Nodes -> [Callers -> Dial]]]
  /\ streams \in Seq(Stream)
  /\ outgoing \in [Nodes -> Nat]
  /\ received \in [Nodes -> [Nodes -> Seq(Nat)]]
  /\ doubled \subseteq SUBSET Nodes
  /\ budget \in Budget

Stage(n, p, w) == dial[n][p][w].stage

\* Streams that n dialled to p, and whether their acceptance is in progress.
Opened(n, p) == {c \in Ids : streams[c].dialer = n /\ streams[c].acceptor = p}
Pending(c)   == streams[c].inbound \in {"accepted", "answered"}

\* A stream has two ends and only they use it, an entry is a stream between the two
\* nodes, and a call has the stream that it dialled.
WiringInv ==
  /\ \A n \in Nodes : n \notin peers[n]
  /\ \A c \in Ids : /\ streams[c].dialer # streams[c].acceptor
                    /\ streams[c].queue \in [Ends(c) -> Seq(Nat)]
                    /\ streams[c].reading \subseteq Ends(c)
  /\ \A n, p \in Nodes :
       /\ connections[n][p] # None => connections[n][p] \in Opened(n, p) \cup Opened(p, n)
       /\ \A w \in Callers :
            /\ Stage(n, p, w) # "idle" => n # p
            /\ Stage(n, p, w) \in {"handshake", "register"} => dial[n][p][w].stream \in Opened(n, p)

\* Two nodes whose attempts did not overlap.  A call of n is the only one, it began
\* when no stream was being accepted, and from the look-up on there is no entry.
CallInv(n, p) ==
  \A w \in Callers : Stage(n, p, w) # "idle" =>
    /\ \A v \in Callers : /\ Stage(n, p, v) # "idle" => v = w
                          /\ Stage(p, n, v) = "idle"
    /\ \A c \in Opened(p, n) : ~Pending(c)
    /\ Stage(n, p, w) = "look_up" => \A c \in Opened(n, p) : ~Pending(c)
    /\ Stage(n, p, w) # "look_up" => connections[n][p] = None
    /\ Stage(n, p, w) = "register" =>
         streams[dial[n][p][w].stream].inbound \in {"answered", "done"}

\* Node n uses none of the streams it dialled but the one it has registered, and
\* then no stream that p dialled was ever used; p has an entry once it accepted.
UseInv(n, p) ==
  \A c \in Opened(n, p) :
    /\ connections[n][p] # c => n \notin streams[c].reading /\ streams[c].queue[n] = <<>>
    /\ connections[n][p] = c => /\ streams[c].inbound \in {"answered", "done"}
                                /\ \A d \in Opened(p, n) : streams[d].inbound = "gone"
    /\ streams[c].inbound = "done" => connections[p][n] # None

Rising(s) == \A i, j \in 1..Len(s) : i < j => s[i] < s[j]
UpTo(s, k) == \A i \in 1..Len(s) : s[i] <= k

\* Stream c is the one that its dialer has registered.
Registered(c) == connections[streams[c].dialer][streams[c].acceptor] = c

\* Messages of p on their way to n: what n has read came before all that is in the
\* queue of the registered stream.
OrderInv(n, p) ==
  /\ Rising(received[n][p])
  /\ received[n][p] # <<>> =>
       \E c \in Opened(n, p) \cup Opened(p, n) : Registered(c)
  /\ \A c \in Opened(n, p) \cup Opened(p, n) : Registered(c) =>
       \A i \in 1..Len(received[n][p]), j \in 1..Len(streams[c].queue[p]) :
         received[n][p][i] < streams[c].queue[p][j]

\* A node numbers its messages in the order in which it sends them.
NumbersInv ==
  /\ \A c \in Ids : \A x \in Ends(c) :
       Rising(streams[c].queue[x]) /\ UpTo(streams[c].queue[x], outgoing[x])
  /\ \A n, p \in Nodes : UpTo(received[n][p], outgoing[p])

PairInv(n, p) == CallInv(n, p) /\ UseInv(n, p) /\ OrderInv(n, p)

TcpInv ==
  /\ TypeOK /\ WiringInv /\ NumbersInv
  /\ \A n, p \in Nodes : n # p /\ {n, p} \notin doubled => PairInv(n, p)
  /\ \A n \in Nodes : received[n][n] = <<>>

-----------------------------------------------------------------------------
(* Steps that leave a pair of nodes alone                                   *)

\* What is said of a stream depends on that stream only.
LEMMA StreamTypes ==
  ASSUME TypeOK, WiringInv, NEW c \in Ids
  PROVE  /\ streams[c] \in Stream /\ Len(streams) \in Nat
         /\ streams[c].dialer \in Nodes /\ streams[c].acceptor \in Nodes
         /\ streams[c].dialer # streams[c].acceptor
         /\ streams[c].queue \in [Ends(c) -> Seq(Nat)]
         /\ streams[c].queue[streams[c].dialer] \in Seq(Nat)
         /\ streams[c].queue[streams[c].acceptor] \in Seq(Nat)
         /\ streams[c].reading \subseteq {streams[c].dialer, streams[c].acceptor}
<1>1. streams[c] \in Stream /\ Len(streams) \in Nat
  BY DEF TypeOK, Ids
<1> QED  BY <1>1 DEF WiringInv, Stream, Ends

\* The pair {a, b} has the calls, entries, streams and messages that it had.
Alone(a, b) ==
  /\ \A w \in Callers : dial'[a][b][w] = dial[a][b][w] /\ dial'[b][a][w] = dial[b][a][w]
  /\ connections'[a][b] = connections[a][b] /\ connections'[b][a] = connections[b][a]
  /\ Opened(a, b)' = Opened(a, b) /\ Opened(b, a)' = Opened(b, a)
  /\ \A c \in Opened(a, b) \cup Opened(b, a) : streams'[c] = streams[c]
  /\ received'[a][b] = received[a][b] /\ received'[b][a] = received[b][a]

\* What holds of a pair of nodes goes on to hold when the step leaves the pair alone.
LEMMA PairAlone ==
  ASSUME NEW a \in Nodes, NEW b \in Nodes, TypeOK, WiringInv, Alone(a, b), PairInv(a, b)
  PROVE  PairInv(a, b)'
<1>1. CallInv(a, b)'
  BY DEF PairInv, CallInv, Alone, Stage, Pending, WiringInv
<1>2. UseInv(a, b)'
  BY DEF PairInv, UseInv, Alone
<1>3. OrderInv(a, b)'
  BY DEF PairInv, OrderInv, Alone, Registered, Opened, Rising
<1> QED  BY <1>1, <1>2, <1>3 DEF PairInv

-----------------------------------------------------------------------------
(* Initially nothing is connected                                           *)

\* Init: no node runs and there is no stream.
LEMMA TcpInit ==
  ASSUME Init
  PROVE  TcpInv
<1>1. TypeOK
  BY TcpAssumption DEF Init, TypeOK, NoEntries, NoDials, NotDialling, Dial, Stages, Callers
<1>2. WiringInv
  BY TcpAssumption DEF Init, WiringInv, Ids, Ends, Opened, Stage, NoEntries, NoDials, NotDialling
<1>3. NumbersInv
  BY DEF Init, NumbersInv, Ids, UpTo
<1>4. ASSUME NEW n \in Nodes, NEW p \in Nodes  PROVE PairInv(n, p)
  BY DEF Init, PairInv, CallInv, UseInv, OrderInv, Stage, Opened, Ids, Rising, NoDials, NotDialling
<1> QED  BY <1>1, <1>2, <1>3, <1>4 DEF TcpInv, Init

-----------------------------------------------------------------------------
(* Calls of connect_to_peer                                                 *)

\* One call changes into x.
LEMMA DialOne ==
  ASSUME NEW d \in [Nodes -> [Nodes -> [Callers -> Dial]]],
         NEW n \in Nodes, NEW p \in Nodes, NEW w \in Callers, NEW x \in Dial
  PROVE  /\ [d EXCEPT ![n][p][w] = x] \in [Nodes -> [Nodes -> [Callers -> Dial]]]
         /\ \A a, b \in Nodes, v \in Callers :
              [d EXCEPT ![n][p][w] = x][a][b][v] = IF a = n /\ b = p /\ v = w THEN x ELSE d[a][b][v]
<1>1. [d EXCEPT ![n][p][w] = x] \in [Nodes -> [Nodes -> [Callers -> Dial]]]
  OBVIOUS
<1>2. \A a, b \in Nodes, v \in Callers :
        [d EXCEPT ![n][p][w] = x][a][b][v] = IF a = n /\ b = p /\ v = w THEN x ELSE d[a][b][v]
  OBVIOUS
<1> QED  BY <1>1, <1>2

\* One call goes on, and nothing else changes: the call has the stream it had, or none.
LEMMA DialGoesOn ==
  ASSUME TcpInv, NEW n \in Nodes, NEW p \in Nodes, NEW w \in Callers, NEW x \in Dial,
         dial' = [dial EXCEPT ![n][p][w] = x],
         UNCHANGED <<peers, connections, streams, outgoing, received, doubled>>,
         up' \subseteq Nodes, budget' \in Budget,
         Stage(n, p, w) # "idle",
         x.stage # "look_up",
         x.stage \in {"handshake", "register"} =>
           x.stream = dial[n][p][w].stream /\ Stage(n, p, w) \in {"handshake", "register"},
         x.stage # "idle" => Stage(n, p, w) # "look_up" \/ connections[n][p] = None,
         x.stage = "register" => streams[x.stream].inbound \in {"answered", "done"}
  PROVE  TcpInv'
<1>1. \A a, b \in Nodes, v \in Callers :
        dial'[a][b][v] = IF a = n /\ b = p /\ v = w THEN x ELSE dial[a][b][v]
  BY SMTT(30) DEF TcpInv, TypeOK
<1>2. TypeOK'
  <2>1. dial' \in [Nodes -> [Nodes -> [Callers -> Dial]]]
    BY DEF TcpInv, TypeOK
  <2> QED  BY <2>1 DEF TcpInv, TypeOK
<1>3. WiringInv'
  <2>1. Ids' = Ids /\ \A a, b \in Nodes : Opened(a, b)' = Opened(a, b)
    BY DEF Ids, Opened
  <2>2. ASSUME NEW a \in Nodes, NEW b \in Nodes, NEW v \in Callers
        PROVE  /\ Stage(a, b, v)' # "idle" => a # b
               /\ Stage(a, b, v)' \in {"handshake", "register"} =>
                    dial'[a][b][v].stream \in Opened(a, b)
    BY <1>1 DEF TcpInv, WiringInv, Stage
  <2>3. /\ \A a \in Nodes : a \notin peers'[a]
        /\ \A c \in Ids' : /\ streams'[c].dialer # streams'[c].acceptor
                           /\ streams'[c].queue \in [Ends(c)' -> Seq(Nat)]
                           /\ streams'[c].reading \subseteq Ends(c)'
        /\ \A a, b \in Nodes : connections'[a][b] # None
                                => connections'[a][b] \in Opened(a, b)' \cup Opened(b, a)'
    BY <2>1 DEF TcpInv, WiringInv, Ends
  <2> QED  BY <2>1, <2>2, <2>3 DEF WiringInv
<1>4. NumbersInv'
  BY DEF TcpInv, NumbersInv, Ids, Ends, Rising, UpTo
<1>5. ASSUME NEW a \in Nodes, NEW b \in Nodes, a # b, {a, b} \notin doubled  PROVE PairInv(a, b)'
  <2>1. PairInv(a, b) /\ PairInv(b, a)
    <3>1. {b, a} = {a, b}
      OBVIOUS
    <3> QED  BY <1>5, <3>1 DEF TcpInv
  <2>2. Ids' = Ids /\ \A c, d \in Nodes : Opened(c, d)' = Opened(c, d)
    BY DEF Ids, Opened
  <2>3. CallInv(a, b)'
    <3>1. \A v \in Callers : Stage(a, b, v)' # "idle" => Stage(a, b, v) # "idle"
      BY <1>1 DEF Stage
    <3>2. \A v \in Callers : Stage(b, a, v)' # "idle" => Stage(b, a, v) # "idle"
      BY <1>1 DEF Stage
    <3>3. SUFFICES ASSUME NEW v \in Callers, Stage(a, b, v)' # "idle"
                   PROVE  /\ \A u \in Callers : /\ Stage(a, b, u)' # "idle" => u = v
                                                /\ Stage(b, a, u)' = "idle"
                          /\ \A c \in Opened(b, a) : ~Pending(c)'
                          /\ Stage(a, b, v)' = "look_up" => \A c \in Opened(a, b) : ~Pending(c)'
                          /\ Stage(a, b, v)' # "look_up" => connections[a][b] = None
                          /\ Stage(a, b, v)' = "register" =>
                               streams[dial'[a][b][v].stream].inbound \in {"answered", "done"}
      BY <2>2 DEF CallInv
    <3>4. Stage(a, b, v) # "idle"
      BY <3>1, <3>3
    <3>5. /\ \A u \in Callers : /\ Stage(a, b, u)' # "idle" => u = v
                                /\ Stage(b, a, u)' = "idle"
          /\ \A c \in Opened(b, a) : ~Pending(c)'
      BY <2>1, <3>1, <3>2, <3>4 DEF PairInv, CallInv, Pending
    <3>6. CASE a = n /\ b = p /\ v = w
      <4>1. dial'[a][b][v] = x
        BY <1>1, <3>6
      <4>2. connections[a][b] = None
        BY <2>1, <3>3, <3>4, <3>6, <4>1 DEF PairInv, CallInv, Stage
      <4> QED  BY <3>5, <4>1, <4>2 DEF Stage
    <3>7. CASE ~(a = n /\ b = p /\ v = w)
      <4>1. dial'[a][b][v] = dial[a][b][v]
        BY <1>1, <3>7
      <4>2. /\ Stage(a, b, v) = "look_up" => \A c \in Opened(a, b) : ~Pending(c)
            /\ Stage(a, b, v) # "look_up" => connections[a][b] = None
            /\ Stage(a, b, v) = "register" =>
                 streams[dial[a][b][v].stream].inbound \in {"answered", "done"}
        BY <2>1, <3>4 DEF PairInv, CallInv
      <4>3. Stage(a, b, v)' = Stage(a, b, v) /\ \A c : Pending(c)' = Pending(c)
        BY <4>1 DEF Stage, Pending
      <4> QED  BY <3>5, <4>1, <4>2, <4>3
    <3> QED  BY <3>6, <3>7
  <2>4. UseInv(a, b)' /\ OrderInv(a, b)'
    BY <2>1, <2>2 DEF PairInv, UseInv, OrderInv, Registered, Rising
  <2> QED  BY <2>3, <2>4 DEF PairInv
<1> QED  BY <1>2, <1>3, <1>4, <1>5 DEF TcpInv

\* connect_to_peer finds an entry and returns, or goes on because there is none.
LEMMA LookUpStep ==
  ASSUME TcpInv, NEW n \in Nodes, NEW p \in Nodes, NEW w \in Callers, look_up(n, p, w)
  PROVE  TcpInv'
<1> DEFINE x == IF connections[n][p] # None THEN NotDialling
                ELSE [dial[n][p][w] EXCEPT !.stage = "connect"]
<1>1. dial[n][p][w] \in Dial
  BY DEF TcpInv, TypeOK
<1>2. x \in Dial /\ x.stage \in {"idle", "connect"} /\ (x.stage # "idle" => connections[n][p] = None)
  BY <1>1 DEF Dial, NotDialling, Stages
<1>3. dial' = [dial EXCEPT ![n][p][w] = x]
  BY DEF look_up
<1>4. /\ Stage(n, p, w) # "idle"
      /\ UNCHANGED <<up, peers, connections, streams, outgoing, received, doubled, budget>>
  BY DEF look_up, Stage
<1> HIDE DEF x
<1>5. up' \subseteq Nodes /\ budget' \in Budget
  BY <1>4 DEF TcpInv, TypeOK
<1> QED  BY <1>2, <1>3, <1>4, <1>5, DialGoesOn

\* The call after a failed attempt
LEMMA FailureType ==
  ASSUME NEW d \in Dial
  PROVE  AfterFailure(d) \in Dial /\ AfterFailure(d).stage \in {"idle", "connect"}
BY TcpAssumption DEF AfterFailure, Dial, NotDialling, Stages

\* Spending from the budget
LEMMA BudgetSpent ==
  ASSUME budget \in Budget
  PROVE  /\ budget.timeouts > 0 => [budget EXCEPT !.timeouts = @ - 1] \in Budget
         /\ budget.breaks > 0 => [budget EXCEPT !.breaks = @ - 1] \in Budget
         /\ budget.crashes > 0 => [budget EXCEPT !.crashes = @ - 1] \in Budget
         /\ budget.removals > 0 => [budget EXCEPT !.removals = @ - 1] \in Budget
         /\ budget.reconnects > 0 => [budget EXCEPT !.reconnects = @ - 1] \in Budget
         /\ budget.messages > 0 => [budget EXCEPT !.messages = @ - 1] \in Budget
BY DEF Budget

\* The attempt to connect fails: the call tries again or gives up.
LEMMA ConnectFailsStep ==
  ASSUME TcpInv, NEW n \in Nodes, NEW p \in Nodes, NEW w \in Callers, connect_fails(n, p, w)
  PROVE  TcpInv'
<1> DEFINE x == AfterFailure(dial[n][p][w])
<1>1. dial[n][p][w] \in Dial
  BY DEF TcpInv, TypeOK
<1>2. x \in Dial /\ x.stage \in {"idle", "connect"}
  BY <1>1, FailureType
<1>3. dial' = [dial EXCEPT ![n][p][w] = x]
  BY DEF connect_fails
<1>4. /\ Stage(n, p, w) # "idle" /\ Stage(n, p, w) # "look_up"
      /\ UNCHANGED <<up, peers, connections, streams, outgoing, received, doubled>>
  BY DEF connect_fails, Stage
<1>5. up' \subseteq Nodes /\ budget' \in Budget
  <2>1. CASE UNCHANGED budget
    BY <1>4, <2>1 DEF TcpInv, TypeOK
  <2>2. CASE budget.timeouts > 0 /\ budget' = [budget EXCEPT !.timeouts = @ - 1]
    <3>1. [budget EXCEPT !.timeouts = @ - 1] \in Budget
      BY <2>2, BudgetSpent DEF TcpInv, TypeOK
    <3> QED  BY <1>4, <2>2, <3>1 DEF TcpInv, TypeOK
  <2> QED  BY <2>1, <2>2 DEF connect_fails
<1> HIDE DEF x
<1> QED  BY <1>2, <1>3, <1>4, <1>5, DialGoesOn

\* The dialer reads the answer: the acceptance of its stream is past the handshake.
LEMMA OutboundHandshakeStep ==
  ASSUME TcpInv, NEW n \in Nodes, NEW p \in Nodes, NEW w \in Callers, outbound_handshake(n, p, w)
  PROVE  TcpInv'
<1> DEFINE x == [dial[n][p][w] EXCEPT !.stage = "register"]
<1>1. dial[n][p][w] \in Dial
  BY DEF TcpInv, TypeOK
<1>2. x \in Dial /\ x.stage = "register" /\ x.stream = dial[n][p][w].stream
  BY <1>1 DEF Dial, Stages
<1>3. dial' = [dial EXCEPT ![n][p][w] = x]
  BY DEF outbound_handshake
<1>4. /\ Stage(n, p, w) = "handshake"
      /\ streams[dial[n][p][w].stream].inbound \in {"answered", "done"}
      /\ UNCHANGED <<up, peers, connections, streams, outgoing, received, doubled, budget>>
  BY DEF outbound_handshake, Stage
<1>5. up' \subseteq Nodes /\ budget' \in Budget
  BY <1>4 DEF TcpInv, TypeOK
<1> HIDE DEF x
<1> QED  BY <1>2, <1>3, <1>4, <1>5, DialGoesOn

\* The handshake fails: the call forgets the stream, which the acceptor may still register.
LEMMA OutboundHandshakeFailsStep ==
  ASSUME TcpInv, NEW n \in Nodes, NEW p \in Nodes, NEW w \in Callers,
         outbound_handshake_fails(n, p, w)
  PROVE  TcpInv'
<1> DEFINE x == AfterFailure(dial[n][p][w])
<1>1. dial[n][p][w] \in Dial
  BY DEF TcpInv, TypeOK
<1>2. x \in Dial /\ x.stage \in {"idle", "connect"}
  BY <1>1, FailureType
<1>3. dial' = [dial EXCEPT ![n][p][w] = x]
  BY DEF outbound_handshake_fails
<1>4. /\ Stage(n, p, w) = "handshake"
      /\ UNCHANGED <<up, peers, connections, streams, outgoing, received, doubled, budget>>
  BY DEF outbound_handshake_fails, Stage
<1>5. up' \subseteq Nodes /\ budget' \in Budget
  BY <1>4 DEF TcpInv, TypeOK
<1> HIDE DEF x
<1> QED  BY <1>2, <1>3, <1>4, <1>5, DialGoesOn

\* What InProgress counts when it counts at most one: a call excludes every other
\* one and every stream that is being accepted.
LEMMA OneInProgress ==
  ASSUME TypeOK, NEW a \in Nodes, NEW b \in Nodes, NEW d, ~(InProgress(d, a, b) > 1),
         NEW v \in Callers, d[a][b][v].stage # "idle"
  PROVE  /\ \A u \in Callers : d[a][b][u].stage # "idle" => u = v
         /\ a # b => \A u \in Callers : d[b][a][u].stage = "idle"
         /\ \A c \in Opened(a, b) \cup Opened(b, a) : ~Pending(c)
<1> DEFINE calls(x, y) == {w \in Callers : d[x][y][w].stage # "idle"}
           accepted    == {c \in Ids : /\ {a, b} = Ends(c)
                                       /\ streams[c].inbound \in {"accepted", "answered"}}
<1>1. IsFiniteSet(Callers)
  <2>1. Callers = {"manager"} \cup {"owner"}
    BY DEF Callers
  <2> QED  BY <2>1, FS_Singleton, FS_Union
<1>2. /\ IsFiniteSet(calls(a, b)) /\ Cardinality(calls(a, b)) \in Nat
      /\ IsFiniteSet(calls(b, a)) /\ Cardinality(calls(b, a)) \in Nat
  BY <1>1, FS_Subset, FS_CardinalityType
<1>3. IsFiniteSet(accepted) /\ Cardinality(accepted) \in Nat
  <2>1. IsFiniteSet(Ids)
    BY FS_Interval DEF TypeOK, Ids
  <2> QED  BY <2>1, FS_Subset, FS_CardinalityType
<1>4. Cardinality(calls(a, b)) + Cardinality(calls(b, a)) + Cardinality(accepted) <= 1
  <2>1. InProgress(d, a, b) = Cardinality(calls(a, b)) + Cardinality(calls(b, a)) + Cardinality(accepted)
    BY DEF InProgress
  <2> HIDE DEF calls, accepted
  <2> QED  BY <1>2, <1>3, <2>1
<1>5. v \in calls(a, b)
  OBVIOUS
<1>6. Cardinality(calls(a, b)) # 0
  BY <1>2, <1>5, FS_EmptySet
<1>7. Cardinality(calls(a, b)) = 1 /\ Cardinality(calls(b, a)) = 0 /\ Cardinality(accepted) = 0
  <2> HIDE DEF calls, accepted
  <2> QED  BY <1>2, <1>3, <1>4, <1>6
<1>8. \E x : calls(a, b) = {x}
  <2> HIDE DEF calls, accepted
  <2> QED  BY <1>2, <1>7, FS_Singleton
<1>9. calls(b, a) = {} /\ accepted = {}
  <2> HIDE DEF calls, accepted
  <2> QED  BY <1>2, <1>3, <1>7, FS_EmptySet
<1>10. \A u \in Callers : d[a][b][u].stage # "idle" => u = v
  BY <1>5, <1>8
<1>11. \A c \in Opened(a, b) \cup Opened(b, a) : ~Pending(c)
  BY <1>9 DEF Opened, Ends, Pending
<1> QED  BY <1>9, <1>10, <1>11

\* Calls begin or are gone, and the pairs for which they overlap are noted.
LEMMA CallsBegin ==
  ASSUME TcpInv, NEW d, Call(d), d \in [Nodes -> [Nodes -> [Callers -> Dial]]],
         \A a, b \in Nodes, v \in Callers :
           \/ d[a][b][v] = dial[a][b][v]
           \/ d[a][b][v] = NotDialling
           \/ d[a][b][v] = Called /\ a # b,
         UNCHANGED <<connections, streams, outgoing, received>>,
         up' \subseteq Nodes, budget' \in Budget, peers' \in [Nodes -> SUBSET Nodes],
         \A a \in Nodes : a \notin peers'[a]
  PROVE  TcpInv'
<1>1. dial' = d /\ doubled \subseteq doubled'
  BY DEF Call
<1>2. \A a, b \in Nodes : {a, b} \notin doubled' => ~(InProgress(d, a, b) > 1)
  BY DEF Call
<1>3. Ids' = Ids /\ \A a, b \in Nodes : Opened(a, b)' = Opened(a, b)
  BY DEF Ids, Opened
<1>4. TypeOK'
  <2>1. doubled' \subseteq SUBSET Nodes
    BY DEF Call, TcpInv, TypeOK
  <2> QED  BY <1>1, <2>1 DEF TcpInv, TypeOK
<1>5. WiringInv'
  <2>1. ASSUME NEW a \in Nodes, NEW b \in Nodes, NEW v \in Callers
        PROVE  /\ Stage(a, b, v)' # "idle" => a # b
               /\ Stage(a, b, v)' \in {"handshake", "register"} =>
                    dial'[a][b][v].stream \in Opened(a, b)
    <3>1. \/ d[a][b][v] = dial[a][b][v]
          \/ d[a][b][v] = NotDialling
          \/ d[a][b][v] = Called /\ a # b
      OBVIOUS
    <3>2. CASE d[a][b][v] = dial[a][b][v]
      BY <1>1, <3>2 DEF TcpInv, WiringInv, Stage
    <3> QED  BY <1>1, <3>1, <3>2 DEF Stage, NotDialling, Called
  <2>2. /\ \A c \in Ids' : /\ streams'[c].dialer # streams'[c].acceptor
                           /\ streams'[c].queue \in [Ends(c)' -> Seq(Nat)]
                           /\ streams'[c].reading \subseteq Ends(c)'
        /\ \A a, b \in Nodes : connections'[a][b] # None
                                => connections'[a][b] \in Opened(a, b)' \cup Opened(b, a)'
    BY <1>3 DEF TcpInv, WiringInv, Ends
  <2> QED  BY <1>3, <2>1, <2>2 DEF WiringInv
<1>6. NumbersInv'
  BY DEF TcpInv, NumbersInv, Ids, Ends, Rising, UpTo
<1>7. ASSUME NEW a \in Nodes, NEW b \in Nodes, a # b, {a, b} \notin doubled'  PROVE PairInv(a, b)'
  <2>1. PairInv(a, b) /\ PairInv(b, a)
    <3>1. {b, a} = {a, b}
      OBVIOUS
    <3> QED  BY <1>1, <1>7, <3>1 DEF TcpInv
  <2>2. CallInv(a, b)'
    <3>1. SUFFICES ASSUME NEW v \in Callers, Stage(a, b, v)' # "idle"
                   PROVE  /\ \A u \in Callers : /\ Stage(a, b, u)' # "idle" => u = v
                                                /\ Stage(b, a, u)' = "idle"
                          /\ \A c \in Opened(b, a) : ~Pending(c)'
                          /\ Stage(a, b, v)' = "look_up" => \A c \in Opened(a, b) : ~Pending(c)'
                          /\ Stage(a, b, v)' # "look_up" => connections[a][b] = None
                          /\ Stage(a, b, v)' = "register" =>
                               streams[dial'[a][b][v].stream].inbound \in {"answered", "done"}
      BY <1>3 DEF CallInv
    <3>2. /\ \A u \in Callers : d[a][b][u].stage # "idle" => u = v
          /\ \A u \in Callers : d[b][a][u].stage = "idle"
          /\ \A c \in Opened(a, b) \cup Opened(b, a) : ~Pending(c)
      BY <1>1, <1>2, <1>7, <3>1, OneInProgress DEF Stage, TcpInv
    <3>3. CASE d[a][b][v] = Called
      BY <1>1, <3>2, <3>3 DEF Stage, Called, Pending
    <3>4. CASE d[a][b][v] = dial[a][b][v]
      <4>1. Stage(a, b, v) # "idle" /\ Stage(a, b, v)' = Stage(a, b, v)
        BY <1>1, <3>1, <3>4 DEF Stage
      <4> QED  BY <1>1, <2>1, <3>2, <3>4, <4>1 DEF PairInv, CallInv, Stage, Pending
    <3>5. d[a][b][v] # NotDialling
      BY <1>1, <3>1 DEF Stage, NotDialling
    <3> QED  BY <3>3, <3>4, <3>5
  <2>3. UseInv(a, b)' /\ OrderInv(a, b)'
    BY <2>1, <1>3 DEF PairInv, UseInv, OrderInv, Registered, Rising
  <2> QED  BY <2>2, <2>3 DEF PairInv
<1> QED  BY <1>4, <1>5, <1>6, <1>7 DEF TcpInv

\* A node starts and its connection manager calls connect_to_peer for every peer.
LEMMA StartStep ==
  ASSUME TcpInv, NEW n \in Nodes, start(n)
  PROVE  TcpInv'
<1> DEFINE d == [dial EXCEPT ![n] = [p \in Nodes |-> [NoDials[p] EXCEPT !["manager"] =
                                       IF p \in peers[n] THEN Called ELSE @]]]
<1>1. Called \in Dial /\ NotDialling \in Dial
  BY DEF Called, NotDialling, Dial, Stages
<1> DEFINE g == [p \in Nodes |-> [w \in Callers |-> IF w = "manager" /\ p \in peers[n] THEN Called
                                                     ELSE NotDialling]]
<1>2. d = [dial EXCEPT ![n] = g]
  <2>1. \A p \in Nodes : [NoDials[p] EXCEPT !["manager"] = IF p \in peers[n] THEN Called ELSE @]
                         = [w \in Callers |-> IF w = "manager" /\ p \in peers[n] THEN Called
                                              ELSE NotDialling]
    BY DEF NoDials, Callers
  <2> QED  BY <2>1
<1>3. /\ d \in [Nodes -> [Nodes -> [Callers -> Dial]]]
      /\ \A a, b \in Nodes, v \in Callers :
           \/ d[a][b][v] = dial[a][b][v]
           \/ d[a][b][v] = NotDialling
           \/ d[a][b][v] = Called /\ a # b
  <2>1. g \in [Nodes -> [Callers -> Dial]]
    BY <1>1
  <2>2. \A b \in Nodes, v \in Callers : g[b][v] = NotDialling \/ (g[b][v] = Called /\ n # b)
    <3>1. n \notin peers[n]
      BY DEF TcpInv, WiringInv
    <3>2. SUFFICES ASSUME NEW b \in Nodes, NEW v \in Callers
                   PROVE  g[b][v] = NotDialling \/ (g[b][v] = Called /\ n # b)
      OBVIOUS
    <3>3. g[b][v] = IF v = "manager" /\ b \in peers[n] THEN Called ELSE NotDialling
      OBVIOUS
    <3>4. CASE v = "manager" /\ b \in peers[n]
      <4>1. g[b][v] = Called /\ n # b
        BY <3>1, <3>4
      <4> QED  BY <4>1
    <3>5. CASE ~(v = "manager" /\ b \in peers[n])
      <4>1. g[b][v] = NotDialling
        BY <3>3, <3>5
      <4> HIDE DEF g
      <4> QED  BY <4>1
    <3> QED  BY <3>4, <3>5
  <2> HIDE DEF d, g
  <2> QED  BY <1>2, <2>1, <2>2 DEF TcpInv, TypeOK
<1>4. /\ Call(d) /\ up' \subseteq Nodes
      /\ UNCHANGED <<peers, connections, streams, outgoing, received, budget>>
  BY DEF start, TcpInv, TypeOK
<1>5. /\ budget' \in Budget /\ peers' \in [Nodes -> SUBSET Nodes]
      /\ \A a \in Nodes : a \notin peers'[a]
  BY <1>4 DEF TcpInv, TypeOK, WiringInv
<1> HIDE DEF d
<1> QED  BY <1>3, <1>4, <1>5, CallsBegin

\* The owner calls connect_to_peer.
LEMMA OwnerCalls ==
  ASSUME TcpInv, NEW n \in Nodes, NEW p \in Nodes, n # p,
         Call([dial EXCEPT ![n][p]["owner"] = Called]),
         UNCHANGED <<up, connections, streams, outgoing, received>>,
         budget' \in Budget, peers' \in [Nodes -> SUBSET Nodes],
         \A a \in Nodes : a \notin peers'[a]
  PROVE  TcpInv'
<1> DEFINE d == [dial EXCEPT ![n][p]["owner"] = Called]
<1>1. Called \in Dial /\ "owner" \in Callers
  BY DEF Called, Dial, Stages, Callers
<1>2. /\ d \in [Nodes -> [Nodes -> [Callers -> Dial]]]
      /\ \A a, b \in Nodes, v \in Callers :
           \/ d[a][b][v] = dial[a][b][v]
           \/ d[a][b][v] = NotDialling
           \/ d[a][b][v] = Called /\ a # b
  BY <1>1 DEF TcpInv, TypeOK
<1>3. up' \subseteq Nodes
  BY DEF TcpInv, TypeOK
<1>4. Call(d)
  OBVIOUS
<1> HIDE DEF d
<1> QED  BY <1>2, <1>3, <1>4, CallsBegin

\* reconnect calls connect_to_peer for a known peer.
LEMMA ReconnectStep ==
  ASSUME TcpInv, NEW n \in Nodes, NEW p \in Nodes, reconnect(n, p)
  PROVE  TcpInv'
<1>1. n # p /\ budget' \in Budget
  BY BudgetSpent DEF TcpInv, TypeOK, WiringInv, reconnect
<1>2. peers' = peers /\ peers \in [Nodes -> SUBSET Nodes] /\ \A a \in Nodes : a \notin peers[a]
  BY DEF TcpInv, TypeOK, WiringInv, reconnect
<1> QED  BY <1>1, <1>2, OwnerCalls DEF reconnect

\* add_peer calls connect_to_peer for a new peer.
LEMMA AddPeerStep ==
  ASSUME TcpInv, NEW n \in Nodes, NEW p \in Nodes, add_peer(n, p)
  PROVE  TcpInv'
<1>1. n # p
  BY TcpAssumption DEF add_peer
<1>2. peers' \in [Nodes -> SUBSET Nodes] /\ \A a \in Nodes : a \notin peers'[a]
  BY <1>1 DEF TcpInv, TypeOK, WiringInv, add_peer
<1>3. budget' \in Budget
  BY DEF TcpInv, TypeOK, add_peer
<1> QED  BY <1>1, <1>2, <1>3, OwnerCalls DEF add_peer

-----------------------------------------------------------------------------
(* Streams change                                                           *)

\* Stream c goes on: it keeps its ends, nobody starts to use it, its acceptance goes
\* on or ends without an entry.
GoesOn(c) ==
  /\ streams'[c].dialer = streams[c].dialer /\ streams'[c].acceptor = streams[c].acceptor
  /\ streams'[c].queue \in [Ends(c) -> Seq(Nat)]
  /\ streams'[c].reading \subseteq streams[c].reading
  /\ \/ streams'[c].inbound = streams[c].inbound
     \/ streams[c].inbound = "accepted" /\ streams'[c].inbound \in {"answered", "gone"}
  /\ ~Registered(c) /\ streams[c].queue[streams[c].dialer] = <<>>
       => streams'[c].queue[streams[c].dialer] = <<>>

\* When all streams go on, entries, calls and their relation to the streams remain.
LEMMA StreamsGoOn ==
  ASSUME TcpInv, UNCHANGED <<peers, connections, dial>>, doubled \subseteq doubled',
         streams' \in Seq(Stream), Len(streams') = Len(streams), \A c \in Ids : GoesOn(c)
  PROVE  /\ WiringInv' /\ Ids' = Ids
         /\ \A c \in Ids : Ends(c)' = Ends(c) /\ Registered(c)' = Registered(c)
         /\ \A a, b \in Nodes : Opened(a, b)' = Opened(a, b)
         /\ \A a, b \in Nodes : a # b /\ {a, b} \notin doubled' =>
              CallInv(a, b)' /\ UseInv(a, b)' /\ PairInv(a, b)
<1>1. Ids' = Ids
  BY DEF Ids
<1>2. \A a, b \in Nodes : Opened(a, b)' = Opened(a, b)
  BY <1>1 DEF Opened, GoesOn
<1>3. \A c \in Ids : Ends(c)' = Ends(c) /\ Registered(c)' = Registered(c)
  BY DEF Ends, Registered, GoesOn
<1>4. WiringInv'
  <2>1. \A c \in Ids' : /\ streams'[c].dialer # streams'[c].acceptor
                        /\ streams'[c].queue \in [Ends(c)' -> Seq(Nat)]
                        /\ streams'[c].reading \subseteq Ends(c)'
    BY <1>1, <1>3 DEF TcpInv, WiringInv, GoesOn
  <2>2. \A a \in Nodes : a \notin peers'[a]
    BY DEF TcpInv, WiringInv
  <2>3. ASSUME NEW n \in Nodes, NEW p \in Nodes
        PROVE  /\ connections'[n][p] # None => connections'[n][p] \in Opened(n, p) \cup Opened(p, n)
               /\ \A w \in Callers :
                    /\ Stage(n, p, w)' # "idle" => n # p
                    /\ Stage(n, p, w)' \in {"handshake", "register"}
                         => dial'[n][p][w].stream \in Opened(n, p)
    BY DEF TcpInv, WiringInv, Stage
  <2> QED  BY <1>2, <2>1, <2>2, <2>3 DEF WiringInv
<1>5. ASSUME NEW a \in Nodes, NEW b \in Nodes, a # b, {a, b} \notin doubled'
      PROVE  CallInv(a, b)' /\ UseInv(a, b)' /\ PairInv(a, b)
  <2>1. PairInv(a, b)
    BY <1>5 DEF TcpInv
  <2>2. Opened(a, b) \subseteq Ids /\ Opened(b, a) \subseteq Ids
    BY DEF Opened
  <2>3. \A c \in Ids : Pending(c)' => Pending(c)
    BY DEF Pending, GoesOn
  <2>4. CallInv(a, b)'
    <3>1. SUFFICES ASSUME NEW v \in Callers, Stage(a, b, v) # "idle"
                   PROVE  /\ \A u \in Callers : /\ Stage(a, b, u) # "idle" => u = v
                                                /\ Stage(b, a, u) = "idle"
                          /\ \A c \in Opened(b, a) : ~Pending(c)'
                          /\ Stage(a, b, v) = "look_up" => \A c \in Opened(a, b) : ~Pending(c)'
                          /\ Stage(a, b, v) # "look_up" => connections[a][b] = None
                          /\ Stage(a, b, v) = "register" =>
                               streams'[dial[a][b][v].stream].inbound \in {"answered", "done"}
      BY <1>2 DEF CallInv, Stage
    <3>2. Stage(a, b, v) = "register" =>
            streams'[dial[a][b][v].stream].inbound \in {"answered", "done"}
      BY <2>1, <2>2 DEF PairInv, CallInv, GoesOn, TcpInv, WiringInv
    <3> QED  BY <2>1, <2>2, <2>3, <3>1, <3>2 DEF PairInv, CallInv
  <2>5. UseInv(a, b)'
    <3>1. SUFFICES ASSUME NEW c \in Opened(a, b)
                   PROVE  /\ connections[a][b] # c =>
                               a \notin streams'[c].reading /\ streams'[c].queue[a] = <<>>
                          /\ connections[a][b] = c =>
                               /\ streams'[c].inbound \in {"answered", "done"}
                               /\ \A e \in Opened(b, a) : streams'[e].inbound = "gone"
                          /\ streams'[c].inbound = "done" => connections[b][a] # None
      BY <1>2 DEF UseInv
    <3>2. GoesOn(c) /\ streams[c].dialer = a /\ streams[c].acceptor = b
      BY <2>2 DEF Opened
    <3>3. connections[a][b] # c => a \notin streams'[c].reading /\ streams'[c].queue[a] = <<>>
      BY <2>1, <3>2 DEF PairInv, UseInv, GoesOn, Registered
    <3>4. connections[a][b] = c =>
            /\ streams'[c].inbound \in {"answered", "done"}
            /\ \A e \in Opened(b, a) : streams'[e].inbound = "gone"
      BY <2>1, <2>2, <3>2 DEF PairInv, UseInv, GoesOn
    <3> QED  BY <2>1, <3>2, <3>3, <3>4 DEF PairInv, UseInv, GoesOn
  <2> QED  BY <2>1, <2>4, <2>5
<1> QED  BY <1>1, <1>2, <1>3, <1>4, <1>5

\* The messages are where they were.
LEMMA SameMessages ==
  ASSUME TcpInv, UNCHANGED <<received, outgoing>>, Ids' = Ids,
         \A c \in Ids : /\ streams'[c].queue = streams[c].queue
                        /\ Ends(c)' = Ends(c) /\ Registered(c)' = Registered(c),
         \A a, b \in Nodes : Opened(a, b)' = Opened(a, b)
  PROVE  /\ NumbersInv' /\ \A n \in Nodes : received'[n][n] = <<>>
         /\ \A a, b \in Nodes : OrderInv(a, b) => OrderInv(a, b)'
<1>1. NumbersInv'
  BY DEF TcpInv, NumbersInv, Rising, UpTo
<1>2. \A n \in Nodes : received'[n][n] = <<>>
  BY DEF TcpInv
<1>3. ASSUME NEW a \in Nodes, NEW b \in Nodes, OrderInv(a, b)  PROVE OrderInv(a, b)'
  <2>1. Opened(a, b) \subseteq Ids /\ Opened(b, a) \subseteq Ids
    BY DEF Opened
  <2> QED  BY <1>3, <2>1 DEF OrderInv, Rising
<1> QED  BY <1>1, <1>2, <1>3

\* One stream changes into s.
LEMMA OneStream ==
  ASSUME TypeOK, NEW c \in Ids, NEW s \in Stream, streams' = [streams EXCEPT ![c] = s]
  PROVE  /\ streams' \in Seq(Stream) /\ Len(streams') = Len(streams) /\ Ids' = Ids
         /\ streams'[c] = s /\ \A e \in Ids : e # c => streams'[e] = streams[e]
BY DEF TypeOK, Ids

\* One stream changes in what does not concern the messages.
LEMMA OneGoesOn ==
  ASSUME TcpInv, NEW c \in Ids, NEW s \in Stream, streams' = [streams EXCEPT ![c] = s],
         s.dialer = streams[c].dialer, s.acceptor = streams[c].acceptor,
         s.queue = streams[c].queue, s.reading \subseteq streams[c].reading,
         \/ s.inbound = streams[c].inbound
         \/ streams[c].inbound = "accepted" /\ s.inbound \in {"answered", "gone"},
         UNCHANGED <<up, peers, connections, dial, outgoing, received, doubled>>,
         budget' \in Budget
  PROVE  TcpInv'
<1>1. TypeOK /\ WiringInv
  BY DEF TcpInv
<1>2. /\ streams' \in Seq(Stream) /\ Len(streams') = Len(streams) /\ Ids' = Ids
      /\ streams'[c] = s /\ \A e \in Ids : e # c => streams'[e] = streams[e]
  BY <1>1, OneStream
<1>3. ASSUME NEW e \in Ids  PROVE GoesOn(e) /\ streams'[e].queue = streams[e].queue
  <2>1. streams[e].queue \in [Ends(e) -> Seq(Nat)]
    BY <1>1, StreamTypes
  <2>2. CASE e = c
    BY <1>2, <2>1, <2>2 DEF GoesOn
  <2>3. CASE e # c
    BY <1>2, <2>1, <2>3 DEF GoesOn
  <2> QED  BY <2>2, <2>3
<1>4. TypeOK'
  BY <1>2 DEF TcpInv, TypeOK
<1>5. doubled \subseteq doubled'
  OBVIOUS
<1>6. /\ WiringInv'
      /\ \A e \in Ids : Ends(e)' = Ends(e) /\ Registered(e)' = Registered(e)
      /\ \A a, b \in Nodes : Opened(a, b)' = Opened(a, b)
      /\ \A a, b \in Nodes : a # b /\ {a, b} \notin doubled' =>
           CallInv(a, b)' /\ UseInv(a, b)' /\ PairInv(a, b)
  BY <1>2, <1>3, <1>5, StreamsGoOn
<1>7. /\ NumbersInv' /\ \A n \in Nodes : received'[n][n] = <<>>
      /\ \A a, b \in Nodes : OrderInv(a, b) => OrderInv(a, b)'
  BY <1>2, <1>3, <1>6, SameMessages
<1> QED  BY <1>4, <1>6, <1>7 DEF TcpInv, PairInv

\* The task of an accepted stream answers, or fails because the stream is closed.
LEMMA InboundHandshakeStep ==
  ASSUME TcpInv, NEW c \in Ids, inbound_handshake(c) \/ inbound_handshake_fails(c)
  PROVE  TcpInv'
<1>1. streams[c] \in Stream /\ budget \in Budget
  BY StreamTypes DEF TcpInv, TypeOK
<1>2. PICK i \in {"answered", "gone"} : streams' = [streams EXCEPT ![c].inbound = i]
  BY DEF inbound_handshake, inbound_handshake_fails
<1> DEFINE s == [streams[c] EXCEPT !.inbound = i]
<1>3. s \in Stream /\ streams' = [streams EXCEPT ![c] = s]
  BY <1>1, <1>2 DEF Stream
<1>4. /\ s.dialer = streams[c].dialer /\ s.acceptor = streams[c].acceptor
      /\ s.queue = streams[c].queue /\ s.reading = streams[c].reading /\ s.inbound = i
  BY <1>1 DEF Stream
<1>5. /\ streams[c].inbound = "accepted"
      /\ UNCHANGED <<up, peers, connections, dial, outgoing, received, doubled, budget>>
  BY DEF inbound_handshake, inbound_handshake_fails, Inbound
<1> HIDE DEF s
<1> QED  BY <1>1, <1>3, <1>4, <1>5, OneGoesOn

\* A stream breaks; its entries and its queues remain.
LEMMA BreakStep ==
  ASSUME TcpInv, NEW c \in Ids, break(c)
  PROVE  TcpInv'
<1>1. streams[c] \in Stream
  BY StreamTypes DEF TcpInv
<1> DEFINE s == [streams[c] EXCEPT !.open = FALSE]
<1>3. s \in Stream /\ streams' = [streams EXCEPT ![c] = s]
  BY <1>1 DEF Stream, break
<1>4. /\ s.dialer = streams[c].dialer /\ s.acceptor = streams[c].acceptor
      /\ s.queue = streams[c].queue /\ s.reading = streams[c].reading
      /\ s.inbound = streams[c].inbound
  BY <1>1 DEF Stream
<1>5. /\ UNCHANGED <<up, peers, connections, dial, outgoing, received, doubled>>
      /\ budget' \in Budget
  BY BudgetSpent DEF break, TcpInv, TypeOK
<1> HIDE DEF s
<1> QED  BY <1>3, <1>4, <1>5, OneGoesOn

\* The reader of a closed stream stops.
LEMMA ReadFailsStep ==
  ASSUME TcpInv, NEW n \in Nodes, NEW c \in Ids, read_fails(n, c)
  PROVE  TcpInv'
<1>1. streams[c] \in Stream
  BY StreamTypes DEF TcpInv
<1> DEFINE s == [streams[c] EXCEPT !.reading = @ \ {n}]
<1>3. s \in Stream /\ streams' = [streams EXCEPT ![c] = s]
  BY <1>1 DEF Stream, read_fails
<1>4. /\ s.dialer = streams[c].dialer /\ s.acceptor = streams[c].acceptor
      /\ s.queue = streams[c].queue /\ s.reading \subseteq streams[c].reading
      /\ s.inbound = streams[c].inbound
  BY <1>1 DEF Stream
<1>5. /\ UNCHANGED <<up, peers, connections, dial, outgoing, received, doubled, budget>>
      /\ budget' \in Budget
  BY DEF read_fails, TcpInv, TypeOK
<1> HIDE DEF s
<1> QED  BY <1>3, <1>4, <1>5, OneGoesOn

\* The stream that a pair of nodes has registered is the only one.
LEMMA OneRegistered ==
  ASSUME NEW a \in Nodes, NEW b \in Nodes, UseInv(a, b), UseInv(b, a),
         NEW c \in Opened(a, b) \cup Opened(b, a), NEW e \in Opened(a, b) \cup Opened(b, a),
         Registered(c), Registered(e)
  PROVE  c = e
BY DEF UseInv, Opened, Registered

\* The oldest message of a queue is taken and put behind those that were read.
LEMMA RisingTail ==
  ASSUME NEW q \in Seq(Nat), q # <<>>, Rising(q), NEW k \in Nat, UpTo(q, k)
  PROVE  /\ Rising(Tail(q)) /\ UpTo(Tail(q), k) /\ Head(q) <= k
         /\ \A j \in 1..Len(Tail(q)) : Head(q) < Tail(q)[j]
<1>1. /\ Len(Tail(q)) = Len(q) - 1 /\ Head(q) = q[1] /\ Len(q) \in Nat /\ Len(q) > 0
      /\ \A i \in 1..Len(Tail(q)) : i + 1 \in 1..Len(q) /\ Tail(q)[i] = q[i + 1]
  OBVIOUS
<1>2. \A i \in 1..Len(q) : q[i] \in Nat
  OBVIOUS
<1> QED  BY <1>1, <1>2 DEF Rising, UpTo

\* A number behind smaller ones
LEMMA RisingAppend ==
  ASSUME NEW r \in Seq(Nat), Rising(r), NEW x \in Nat, \A i \in 1..Len(r) : r[i] < x
  PROVE  Rising(Append(r, x))
<1>1. /\ Len(Append(r, x)) = Len(r) + 1 /\ Len(r) \in Nat
      /\ \A i \in 1..Len(r) + 1 : Append(r, x)[i] = IF i = Len(r) + 1 THEN x ELSE r[i]
  OBVIOUS
<1> QED  BY <1>1 DEF Rising

\* A bound on all numbers, with one more
LEMMA UpToAppend ==
  ASSUME NEW r \in Seq(Nat), NEW x \in Nat, NEW k \in Nat, UpTo(r, k), x <= k
  PROVE  UpTo(Append(r, x), k)
<1>1. /\ Len(Append(r, x)) = Len(r) + 1 /\ Len(r) \in Nat
      /\ \A i \in 1..Len(r) + 1 : Append(r, x)[i] = IF i = Len(r) + 1 THEN x ELSE r[i]
  OBVIOUS
<1> QED  BY <1>1 DEF UpTo

\* All numbers read are below those of a queue that gets one more.
LEMMA BelowAppend ==
  ASSUME NEW r \in Seq(Nat), NEW q \in Seq(Nat), NEW x \in Nat,
         \A i \in 1..Len(r), j \in 1..Len(q) : r[i] < q[j], \A i \in 1..Len(r) : r[i] < x
  PROVE  \A i \in 1..Len(r), j \in 1..Len(Append(q, x)) : r[i] < Append(q, x)[j]
<1>1. /\ Len(Append(q, x)) = Len(q) + 1 /\ Len(q) \in Nat
      /\ \A i \in 1..Len(q) + 1 : Append(q, x)[i] = IF i = Len(q) + 1 THEN x ELSE q[i]
  OBVIOUS
<1> QED  BY <1>1

\* The oldest number of the queue moves to those that were read.
LEMMA ReadOn ==
  ASSUME NEW r \in Seq(Nat), NEW q \in Seq(Nat), q # <<>>, Rising(q),
         \A i \in 1..Len(r), j \in 1..Len(q) : r[i] < q[j]
  PROVE  \A i \in 1..Len(Append(r, Head(q))), j \in 1..Len(Tail(q)) :
           Append(r, Head(q))[i] < Tail(q)[j]
<1>1. /\ Len(Append(r, Head(q))) = Len(r) + 1 /\ Len(r) \in Nat
      /\ \A i \in 1..Len(r) + 1 : Append(r, Head(q))[i] = IF i = Len(r) + 1 THEN Head(q) ELSE r[i]
  OBVIOUS
<1>2. /\ Len(Tail(q)) = Len(q) - 1 /\ Head(q) = q[1] /\ Len(q) \in Nat /\ Len(q) > 0
      /\ \A i \in 1..Len(Tail(q)) : i + 1 \in 1..Len(q) /\ Tail(q)[i] = q[i + 1]
  OBVIOUS
<1> QED  BY <1>1, <1>2 DEF Rising

\* A message is read from the only stream of the pair that is used, where it is the
\* oldest: it is newer than all that were read.
LEMMA ReadStep ==
  ASSUME TcpInv, NEW n \in Nodes, NEW c \in Ids, read(n, c)
  PROVE  TcpInv'
<1>1. PICK p \in Ends(c) \ {n} :
        /\ n \in streams[c].reading /\ streams[c].queue[p] # <<>>
        /\ received' = [received EXCEPT ![n][p] = Append(@, Head(streams[c].queue[p]))]
        /\ streams' = [streams EXCEPT ![c].queue[p] = Tail(@)]
        /\ UNCHANGED <<up, peers, connections, dial, outgoing, doubled, budget>>
  BY DEF read
<1> DEFINE q == streams[c].queue[p]
           s == [streams[c] EXCEPT !.queue[p] = Tail(@)]
<1>2. TypeOK /\ WiringInv
  BY DEF TcpInv
<1>3. /\ streams[c] \in Stream /\ streams[c].queue \in [Ends(c) -> Seq(Nat)]
      /\ n \in Ends(c) /\ p \in Ends(c) /\ Ends(c) = {n, p} /\ n \in Nodes /\ p \in Nodes /\ n # p
  BY <1>1, <1>2, StreamTypes DEF Ends
<1>4. q \in Seq(Nat) /\ q # <<>>
  BY <1>1, <1>3
<1>5. /\ Tail(q) \in Seq(Nat) /\ Len(Tail(q)) = Len(q) - 1 /\ Head(q) = q[1] /\ Len(q) \in Nat /\ Len(q) > 0
      /\ Head(q) \in Nat /\ \A i \in 1..Len(Tail(q)) : i + 1 \in 1..Len(q) /\ Tail(q)[i] = q[i + 1]
  BY <1>4
<1>6. /\ s \in Stream /\ streams' = [streams EXCEPT ![c] = s]
      /\ s.dialer = streams[c].dialer /\ s.acceptor = streams[c].acceptor
      /\ s.reading = streams[c].reading /\ s.inbound = streams[c].inbound
      /\ s.queue = [streams[c].queue EXCEPT ![p] = Tail(q)]
  <2>1. streams' = [streams EXCEPT ![c] = s]
    BY <1>1
  <2>2. [streams[c].queue EXCEPT ![p] = Tail(q)] \in Queues
    <3>1. [streams[c].queue EXCEPT ![p] = Tail(q)] \in [{n, p} -> Seq(Nat)]
      BY <1>3, <1>5
    <3> QED  BY <1>3, <3>1 DEF Queues
  <2>3. s = [streams[c] EXCEPT !.queue = [streams[c].queue EXCEPT ![p] = Tail(q)]]
    BY <1>3
  <2> HIDE DEF s, q
  <2> QED  BY <1>3, <2>1, <2>2, <2>3 DEF Stream
<1>7. /\ s.queue \in [Ends(c) -> Seq(Nat)] /\ s.queue[p] = Tail(q)
      /\ \A x \in Ends(c) : x # p => s.queue[x] = streams[c].queue[x]
  <2> HIDE DEF s, q
  <2> QED  BY <1>3, <1>5, <1>6
<1>8. /\ received' \in [Nodes -> [Nodes -> Seq(Nat)]]
      /\ received'[n][p] = Append(received[n][p], Head(q))
      /\ \A a, b \in Nodes : ~(a = n /\ b = p) => received'[a][b] = received[a][b]
      /\ received[n][p] \in Seq(Nat)
  <2> DEFINE x == Append(received[n][p], Head(q))
  <2>1. received[n][p] \in Seq(Nat) /\ x \in Seq(Nat)
    BY <1>2, <1>3, <1>5 DEF TypeOK
  <2>2. received' = [received EXCEPT ![n][p] = x]
    BY <1>1
  <2> HIDE DEF x
  <2>3. /\ received' \in [Nodes -> [Nodes -> Seq(Nat)]] /\ received'[n][p] = x
        /\ \A a, b \in Nodes : ~(a = n /\ b = p) => received'[a][b] = received[a][b]
    BY <1>2, <1>3, <2>1, <2>2 DEF TypeOK
  <2> QED  BY <2>1, <2>3 DEF x
<1> HIDE DEF s, q
<1>9. /\ streams' \in Seq(Stream) /\ Len(streams') = Len(streams) /\ Ids' = Ids
      /\ streams'[c] = s /\ \A e \in Ids : e # c => streams'[e] = streams[e]
  BY <1>2, <1>6, OneStream
<1>10. ASSUME NEW e \in Ids  PROVE GoesOn(e)
  <2>1. streams[e].queue \in [Ends(e) -> Seq(Nat)] /\ streams[e].dialer \in Ends(e)
    BY <1>2, StreamTypes DEF Ends
  <2>2. CASE e = c
    <3>1. ~Registered(c) /\ streams[c].queue[streams[c].dialer] = <<>>
            => s.queue[streams[c].dialer] = <<>>
      BY <1>4, <1>7, <2>1, <2>2 DEF q
    <3> QED  BY <1>6, <1>7, <1>9, <2>1, <2>2, <3>1 DEF GoesOn
  <2>3. CASE e # c
    BY <1>9, <2>1, <2>3 DEF GoesOn
  <2> QED  BY <2>2, <2>3
<1>11. TypeOK'
  BY <1>1, <1>8, <1>9 DEF TcpInv, TypeOK
<1>12. doubled \subseteq doubled' /\ UNCHANGED <<peers, connections, dial>>
  BY <1>1
<1>13. /\ WiringInv'
       /\ \A e \in Ids : Ends(e)' = Ends(e) /\ Registered(e)' = Registered(e)
       /\ \A a, b \in Nodes : Opened(a, b)' = Opened(a, b)
       /\ \A a, b \in Nodes : a # b /\ {a, b} \notin doubled' =>
            CallInv(a, b)' /\ UseInv(a, b)' /\ PairInv(a, b)
  BY <1>9, <1>10, <1>12, StreamsGoOn
<1>14. Rising(q) /\ UpTo(q, outgoing[p]) /\ UpTo(received[n][p], outgoing[p])
  BY <1>3 DEF TcpInv, NumbersInv, q
<1>15. Rising(Tail(q)) /\ UpTo(Tail(q), outgoing[p]) /\ UpTo(received'[n][p], outgoing[p])
  <2>1. outgoing[p] \in Nat
    BY <1>2, <1>3 DEF TypeOK
  <2>2. Rising(Tail(q)) /\ UpTo(Tail(q), outgoing[p]) /\ Head(q) <= outgoing[p]
    BY <1>4, <1>14, <2>1, RisingTail
  <2>3. UpTo(Append(received[n][p], Head(q)), outgoing[p])
    BY <1>5, <1>8, <1>14, <2>1, <2>2, UpToAppend
  <2> QED  BY <1>8, <2>2, <2>3
<1>16. NumbersInv'
  <2>1. ASSUME NEW e \in Ids, NEW x \in Ends(e)
        PROVE  Rising(streams'[e].queue[x]) /\ UpTo(streams'[e].queue[x], outgoing[x])
    <3>1. CASE e = c /\ x = p
      BY <1>7, <1>9, <1>15, <3>1
    <3>2. CASE ~(e = c /\ x = p)
      BY <1>7, <1>9, <2>1, <3>2 DEF TcpInv, NumbersInv
    <3> QED  BY <3>1, <3>2
  <2>2. ASSUME NEW a \in Nodes, NEW b \in Nodes  PROVE UpTo(received'[a][b], outgoing[b])
    BY <1>8, <1>15 DEF TcpInv, NumbersInv
  <2> QED  BY <1>1, <1>9, <1>13, <2>1, <2>2 DEF NumbersInv, Rising, UpTo
<1>17. ASSUME NEW a \in Nodes, NEW b \in Nodes, a # b, {a, b} \notin doubled'  PROVE OrderInv(a, b)'
  <2>1. PairInv(a, b) /\ PairInv(b, a)
    <3>1. {b, a} = {a, b}
      OBVIOUS
    <3> QED  BY <1>13, <1>17, <3>1
  <2>2. Opened(a, b) \subseteq Ids /\ Opened(b, a) \subseteq Ids
    BY DEF Opened
  <2>3. CASE a = n /\ b = p
    <3>1. c \in Opened(n, p) \cup Opened(p, n)
      BY <1>3 DEF Opened, Ends
    <3>2. Registered(c)
      <4>1. CASE streams[c].dialer = n
        BY <1>1, <1>3, <2>1, <2>3, <3>1, <4>1 DEF PairInv, UseInv, Opened, Registered, Ends
      <4>2. CASE streams[c].dialer = p
        BY <1>1, <1>3, <2>1, <2>3, <3>1, <4>2 DEF PairInv, UseInv, Opened, Registered, Ends
      <4> QED  BY <1>3, <4>1, <4>2 DEF Ends
    <3>3. \A i \in 1..Len(received[n][p]), j \in 1..Len(q) : received[n][p][i] < q[j]
      BY <2>1, <2>3, <3>1, <3>2 DEF PairInv, OrderInv, q
    <3>4. Rising(received'[n][p])
      <4>1. \A i \in 1..Len(received[n][p]) : received[n][p][i] < Head(q)
        BY <1>5, <3>3
      <4>2. Rising(received[n][p])
        BY <2>1, <2>3 DEF PairInv, OrderInv
      <4> QED  BY <1>5, <1>8, <4>1, <4>2, RisingAppend
    <3>5. \A i \in 1..Len(received'[n][p]), j \in 1..Len(Tail(q)) : received'[n][p][i] < Tail(q)[j]
      BY <1>4, <1>8, <1>14, <3>3, ReadOn
    <3>6. \A e \in Opened(n, p) \cup Opened(p, n) : Registered(e) => e = c
      BY <2>1, <2>3, <3>1, <3>2, OneRegistered DEF PairInv
    <3>7. \E e \in Opened(n, p) \cup Opened(p, n) : Registered(e)'
      BY <1>13, <2>2, <2>3, <3>1, <3>2
    <3>8. ASSUME NEW e \in Opened(n, p) \cup Opened(p, n), Registered(e)'
          PROVE  \A i \in 1..Len(received'[n][p]), j \in 1..Len(streams'[e].queue[p]) :
                   received'[n][p][i] < streams'[e].queue[p][j]
      <4>1. e = c
        BY <1>13, <2>2, <2>3, <3>6, <3>8
      <4> QED  BY <1>7, <1>9, <3>5, <4>1
    <3> QED  BY <1>13, <2>3, <3>4, <3>7, <3>8 DEF OrderInv
  <2>4. CASE ~(a = n /\ b = p)
    <3>1. received'[a][b] = received[a][b]
      BY <1>8, <2>4
    <3>2. \A e \in Opened(a, b) \cup Opened(b, a) :
            b \in Ends(e) /\ ~(e = c /\ b = p) /\ streams'[e].queue[b] = streams[e].queue[b]
      BY <1>3, <1>7, <1>9, <2>2, <2>4, <1>17 DEF Opened, Ends
    <3> QED  BY <1>13, <2>1, <2>2, <3>1, <3>2 DEF PairInv, OrderInv, Rising
  <2> QED  BY <2>3, <2>4
<1>18. \A a \in Nodes : received'[a][a] = <<>>
  BY <1>3, <1>8 DEF TcpInv
<1> QED  BY <1>11, <1>13, <1>16, <1>17, <1>18 DEF TcpInv, PairInv

\* A message is put behind those of the queue; its number is the largest.
LEMMA SendStep ==
  ASSUME TcpInv, NEW n \in Nodes, NEW targets \in SUBSET Nodes, Send(n, targets)
  PROVE  TcpInv'
<1> DEFINE on == {connections[n][p] : p \in targets} \cap {c \in Ids : streams[c].open}
           k  == outgoing[n] + 1
<1>1. TypeOK /\ WiringInv
  BY DEF TcpInv
<1>2. /\ outgoing[n] \in Nat /\ outgoing' = [outgoing EXCEPT ![n] = k] /\ outgoing'[n] = k
      /\ outgoing' \in [Nodes -> Nat] /\ \A x \in Nodes : x # n => outgoing'[x] = outgoing[x]
      /\ k \in Nat
  BY <1>1 DEF TypeOK, Send
<1>3. /\ streams' = [c \in Ids |-> IF c \in on
                                   THEN [streams[c] EXCEPT !.queue[n] = Append(@, k)]
                                   ELSE streams[c]]
      /\ UNCHANGED <<up, peers, connections, dial, received, doubled>>
      /\ budget' \in Budget
  BY <1>2, BudgetSpent DEF Send, TcpInv, TypeOK
<1>4. ASSUME NEW c \in Ids
      PROVE  /\ streams'[c] \in Stream
             /\ streams'[c].dialer = streams[c].dialer /\ streams'[c].acceptor = streams[c].acceptor
             /\ streams'[c].reading = streams[c].reading /\ streams'[c].inbound = streams[c].inbound
             /\ streams'[c].queue \in [Ends(c) -> Seq(Nat)]
             /\ \A x \in Ends(c) : \/ streams'[c].queue[x] = streams[c].queue[x]
                                   \/ /\ x = n /\ c \in on
                                      /\ streams'[c].queue[n] = Append(streams[c].queue[n], k)
             /\ streams[c].queue \in [Ends(c) -> Seq(Nat)] /\ Ends(c) \subseteq Nodes
  <2>1. /\ streams[c] \in Stream /\ streams[c].queue \in [Ends(c) -> Seq(Nat)]
        /\ Ends(c) \subseteq Nodes
    BY <1>1, StreamTypes DEF Ends
  <2>2. CASE c \notin on
    BY <1>3, <2>1, <2>2
  <2>3. CASE c \in on
    <3> DEFINE q == [streams[c].queue EXCEPT ![n] = Append(streams[c].queue[n], k)]
    <3>1. n \in Ends(c)
      <4>1. PICK p \in targets : c = connections[n][p]
        BY <2>3
      <4>2. c # None
        BY <1>1, TcpAssumption DEF TypeOK, Ids
      <4> QED  BY <1>1, <4>1, <4>2 DEF WiringInv, Opened, Ends
    <3>2. /\ q \in [Ends(c) -> Seq(Nat)] /\ q[n] = Append(streams[c].queue[n], k)
          /\ \A x \in Ends(c) : x # n => q[x] = streams[c].queue[x]
      BY <1>2, <2>1, <3>1
    <3>3. streams'[c] = [streams[c] EXCEPT !.queue = q]
      BY <1>3, <2>3
    <3>4. q \in Queues
      BY <2>1, <3>2 DEF Queues
    <3> HIDE DEF q, on, k
    <3> QED  BY <2>1, <2>3, <3>1, <3>2, <3>3, <3>4 DEF Stream
  <2> QED  BY <2>2, <2>3
<1>5. streams' \in Seq(Stream) /\ Len(streams') = Len(streams) /\ Ids' = Ids
  <2>1. Len(streams) \in Nat
    BY <1>1 DEF TypeOK
  <2>2. streams' \in [1..Len(streams) -> Stream]
    BY <1>3, <1>4 DEF Ids
  <2> QED  BY <2>1, <2>2 DEF Ids
<1>6. \A c \in on : \E p \in targets : c = connections[n][p] /\ p \in Nodes /\ c \in Ids
  OBVIOUS
<1> HIDE DEF on, k
<1>7. ASSUME NEW c \in Ids  PROVE GoesOn(c)
  <2>1. streams[c].dialer \in Ends(c)
    BY DEF Ends
  <2>2. ASSUME c \in on, streams[c].dialer = n  PROVE Registered(c)
    <3>1. PICK p \in Nodes : c = connections[n][p]
      BY <1>6, <2>2
    <3>2. c # None
      BY <1>1, TcpAssumption DEF TypeOK, Ids
    <3>3. c \in Opened(n, p)
      BY <1>1, <2>2, <3>1, <3>2 DEF WiringInv, Opened
    <3> QED  BY <3>1, <3>3 DEF Opened, Registered
  <2> QED  BY <1>4, <2>1, <2>2 DEF GoesOn
<1>8. doubled \subseteq doubled' /\ UNCHANGED <<peers, connections, dial>>
  BY <1>3
<1>9. /\ WiringInv'
      /\ \A c \in Ids : Ends(c)' = Ends(c) /\ Registered(c)' = Registered(c)
      /\ \A a, b \in Nodes : Opened(a, b)' = Opened(a, b)
      /\ \A a, b \in Nodes : a # b /\ {a, b} \notin doubled' =>
           CallInv(a, b)' /\ UseInv(a, b)' /\ PairInv(a, b)
  BY <1>5, <1>7, <1>8, StreamsGoOn
<1>10. TypeOK'
  BY <1>2, <1>3, <1>5 DEF TcpInv, TypeOK
<1>11. NumbersInv'
  <2>1. ASSUME NEW c \in Ids, NEW x \in Ends(c)
        PROVE  Rising(streams'[c].queue[x]) /\ UpTo(streams'[c].queue[x], outgoing'[x])
    <3>1. /\ Rising(streams[c].queue[x]) /\ UpTo(streams[c].queue[x], outgoing[x])
          /\ streams[c].queue[x] \in Seq(Nat) /\ x \in Nodes /\ outgoing[x] \in Nat
      BY <1>1, <1>4, <2>1 DEF TcpInv, NumbersInv, TypeOK
    <3>2. outgoing[x] <= outgoing'[x] /\ outgoing'[x] \in Nat
      BY <1>2, <3>1 DEF k
    <3>3. UpTo(streams[c].queue[x], outgoing'[x])
      BY <3>1, <3>2, SMTT(30) DEF UpTo
    <3>4. CASE streams'[c].queue[x] = streams[c].queue[x]
      BY <3>1, <3>3, <3>4
    <3>5. CASE x = n /\ streams'[c].queue[n] = Append(streams[c].queue[n], k)
      <4>1. \A i \in 1..Len(streams[c].queue[n]) : streams[c].queue[n][i] < k
        BY <1>2, <3>1, <3>5, SMTT(30) DEF UpTo, k
      <4>2. Rising(Append(streams[c].queue[n], k))
        BY <1>2, <3>1, <3>5, <4>1, RisingAppend
      <4>3. UpTo(Append(streams[c].queue[n], k), k)
        BY <1>2, <3>1, <3>3, <3>5, UpToAppend
      <4> QED  BY <1>2, <3>5, <4>2, <4>3
    <3> QED  BY <1>4, <2>1, <3>4, <3>5
  <2>2. ASSUME NEW a \in Nodes, NEW b \in Nodes  PROVE UpTo(received[a][b], outgoing'[b])
    <3>1. UpTo(received[a][b], outgoing[b]) /\ outgoing[b] <= outgoing'[b]
          /\ outgoing[b] \in Nat /\ outgoing'[b] \in Nat /\ received[a][b] \in Seq(Nat)
      BY <1>1, <1>2 DEF TcpInv, NumbersInv, TypeOK, k
    <3> QED  BY <3>1 DEF UpTo
  <2> QED  BY <1>3, <1>5, <1>9, <2>1, <2>2 DEF NumbersInv, Rising, UpTo
<1>12. ASSUME NEW a \in Nodes, NEW b \in Nodes, a # b, {a, b} \notin doubled'  PROVE OrderInv(a, b)'
  <2>1. OrderInv(a, b)
    BY <1>9, <1>12 DEF PairInv
  <2>2. ASSUME NEW c \in Opened(a, b) \cup Opened(b, a), Registered(c)
        PROVE  \A i \in 1..Len(received[a][b]), j \in 1..Len(streams'[c].queue[b]) :
                 received[a][b][i] < streams'[c].queue[b][j]
    <3>1. c \in Ids /\ b \in Ends(c)
      BY DEF Opened, Ends
    <3>2. /\ \A i \in 1..Len(received[a][b]), j \in 1..Len(streams[c].queue[b]) :
               received[a][b][i] < streams[c].queue[b][j]
          /\ streams[c].queue[b] \in Seq(Nat)
      BY <1>4, <2>1, <2>2, <3>1 DEF OrderInv
    <3>3. CASE streams'[c].queue[b] = streams[c].queue[b]
      BY <3>2, <3>3
    <3>4. CASE b = n /\ streams'[c].queue[n] = Append(streams[c].queue[n], k)
      <4>1. \A i \in 1..Len(received[a][n]) : received[a][n][i] < k
        <5>1. UpTo(received[a][n], outgoing[n]) /\ received[a][n] \in Seq(Nat)
          BY <1>1 DEF TcpInv, NumbersInv, TypeOK
        <5> QED  BY <1>2, <5>1 DEF UpTo, k
      <4>2. received[a][n] \in Seq(Nat)
        BY <1>1 DEF TypeOK
      <4>3. \A i \in 1..Len(received[a][n]), j \in 1..Len(Append(streams[c].queue[n], k)) :
              received[a][n][i] < Append(streams[c].queue[n], k)[j]
        BY <1>2, <3>2, <3>4, <4>1, <4>2, BelowAppend
      <4> QED  BY <3>4, <4>3
    <3> QED  BY <1>4, <3>1, <3>3, <3>4
  <2>3. Opened(a, b) \subseteq Ids /\ Opened(b, a) \subseteq Ids
    BY DEF Opened
  <2> QED  BY <1>3, <1>9, <2>1, <2>2, <2>3 DEF OrderInv, Rising
<1>13. \A a \in Nodes : received'[a][a] = <<>>
  BY <1>3 DEF TcpInv
<1> QED  BY <1>9, <1>10, <1>11, <1>12, <1>13 DEF TcpInv, PairInv

-----------------------------------------------------------------------------
(* Streams are opened and registered                                        *)

\* A new stream is opened: there is no entry, so no stream of the pair is in use, and
\* nobody uses the new one.
LEMMA ConnectStep ==
  ASSUME TcpInv, NEW n \in Nodes, NEW p \in Nodes, NEW w \in Callers, connect(n, p, w)
  PROVE  TcpInv'
<1> DEFINE s == [dialer |-> n, acceptor |-> p, open |-> TRUE, inbound |-> "accepted",
                 reading |-> {}, queue |-> [x \in {n, p} |-> <<>>]]
<1>0. PICK k \in Nat : k = Len(streams) + 1
  <2>1. Len(streams) \in Nat
    BY DEF TcpInv, TypeOK
  <2> QED  BY <2>1
<1>1. /\ TypeOK /\ WiringInv
      /\ Stage(n, p, w) = "connect" /\ n # p
  BY DEF TcpInv, WiringInv, connect, Stage
<1>2. /\ streams' = Append(streams, s)
      /\ UNCHANGED <<up, peers, connections, outgoing, received, doubled, budget>>
  BY DEF connect
<1>3. /\ s \in Stream /\ s.queue \in [{n, p} -> Seq(Nat)] /\ s.reading = {}
      /\ s.dialer = n /\ s.acceptor = p /\ s.inbound = "accepted"
      /\ s.queue[n] = <<>> /\ s.queue[p] = <<>>
  <2>1. [y \in {n, p} |-> <<>>] \in Queues
    <3>1. [y \in {n, p} |-> <<>>] \in [{n, p} -> Seq(Nat)]
      OBVIOUS
    <3>2. {n, p} \in SUBSET Nodes
      OBVIOUS
    <3> QED  BY <3>1, <3>2 DEF Queues
  <2> QED  BY <2>1 DEF Stream
<1>4. dial[n][p][w] \in Dial
  BY <1>1 DEF TypeOK
<1> HIDE DEF s
<1>5. /\ Len(streams) \in Nat /\ k \in Nat /\ streams' \in Seq(Stream) /\ Len(streams') = k
      /\ streams'[k] = s /\ \A c \in Ids : streams'[c] = streams[c]
      /\ Ids' = Ids \cup {k} /\ k \notin Ids
  <2>1. streams \in Seq(Stream) /\ s \in Stream
    BY <1>1, <1>3 DEF TypeOK
  <2>2. /\ Len(streams) \in Nat /\ streams' \in Seq(Stream) /\ Len(streams') = Len(streams) + 1
        /\ \A c \in 1..Len(streams) + 1 :
             streams'[c] = IF c = Len(streams) + 1 THEN s ELSE streams[c]
    BY <1>2, <2>1
  <2> QED  BY <1>0, <2>2 DEF Ids
<1>6. PICK d \in Dial : d = [dial[n][p][w] EXCEPT !.stage = "handshake", !.stream = k]
  BY <1>4, <1>5 DEF Dial, Stages
<1>7. dial' = [dial EXCEPT ![n][p][w] = d] /\ d.stage = "handshake" /\ d.stream = k
  <2>1. d.stage = "handshake" /\ d.stream = k
    BY <1>4, <1>6 DEF Dial
  <2> QED  BY <1>5, <1>6, <2>1 DEF connect
<1>8. /\ dial' \in [Nodes -> [Nodes -> [Callers -> Dial]]]
      /\ \A a, b \in Nodes, v \in Callers :
           dial'[a][b][v] = IF a = n /\ b = p /\ v = w THEN d ELSE dial[a][b][v]
  <2>1. dial \in [Nodes -> [Nodes -> [Callers -> Dial]]] /\ d \in Dial
    BY <1>1, <1>6 DEF TypeOK
  <2>2. dial' = [dial EXCEPT ![n][p][w] = d]
    BY <1>7
  <2> QED  BY <2>1, <2>2, DialOne
<1>9. TypeOK'
  BY <1>2, <1>5, <1>8 DEF TcpInv, TypeOK
<1>10. /\ Opened(n, p)' = Opened(n, p) \cup {k}
       /\ \A a, b \in Nodes : ~(a = n /\ b = p) => Opened(a, b)' = Opened(a, b)
       /\ \A a, b \in Nodes : Opened(a, b) \subseteq Ids
  BY <1>3, <1>5 DEF Opened
<1>11. WiringInv'
  <2>1. \A c \in Ids' : /\ streams'[c].dialer # streams'[c].acceptor
                        /\ streams'[c].queue \in [Ends(c)' -> Seq(Nat)]
                        /\ streams'[c].reading \subseteq Ends(c)'
    <3>1. \A c \in Ids : /\ streams'[c].dialer # streams'[c].acceptor
                         /\ streams'[c].queue \in [Ends(c)' -> Seq(Nat)]
                         /\ streams'[c].reading \subseteq Ends(c)'
      BY <1>1, <1>5 DEF WiringInv, Ends
    <3>2. Ends(k)' = {n, p}
      BY <1>3, <1>5 DEF Ends
    <3> QED  BY <1>1, <1>3, <1>5, <3>1, <3>2
  <2>2. ASSUME NEW a \in Nodes, NEW b \in Nodes, NEW v \in Callers
        PROVE  /\ Stage(a, b, v)' # "idle" => a # b
               /\ Stage(a, b, v)' \in {"handshake", "register"} =>
                    dial'[a][b][v].stream \in Opened(a, b)'
    <3>1. CASE a = n /\ b = p /\ v = w
      BY <1>1, <1>7, <1>8, <1>10, <3>1
    <3>2. CASE ~(a = n /\ b = p /\ v = w)
      <4>1. dial'[a][b][v] = dial[a][b][v] /\ Opened(a, b) \subseteq Opened(a, b)'
        BY <1>8, <1>10, <3>2
      <4> QED  BY <1>1, <4>1 DEF WiringInv, Stage
    <3> QED  BY <3>1, <3>2
  <2>3. /\ \A a \in Nodes : a \notin peers'[a]
        /\ \A a, b \in Nodes : connections'[a][b] # None
                                => connections'[a][b] \in Opened(a, b)' \cup Opened(b, a)'
    BY <1>1, <1>2, <1>10 DEF WiringInv
  <2> QED  BY <2>1, <2>2, <2>3 DEF WiringInv
<1>12. NumbersInv'
  <2>1. ASSUME NEW c \in Ids', NEW y \in Ends(c)'
        PROVE  Rising(streams'[c].queue[y]) /\ UpTo(streams'[c].queue[y], outgoing'[y])
    <3>1. CASE c \in Ids
      BY <1>2, <1>5, <2>1, <3>1 DEF TcpInv, NumbersInv, Ends
    <3>2. CASE c = k
      BY <1>3, <1>5, <2>1, <3>2 DEF Ends, Rising, UpTo
    <3> QED  BY <1>5, <3>1, <3>2
  <2>2. \A a, b \in Nodes : UpTo(received'[a][b], outgoing'[b])
    BY <1>2 DEF TcpInv, NumbersInv
  <2> QED  BY <2>1, <2>2 DEF NumbersInv, Rising, UpTo
<1>13. ASSUME NEW a \in Nodes, NEW b \in Nodes, a # b, {a, b} \notin doubled'  PROVE PairInv(a, b)'
  <2>1. PairInv(a, b) /\ PairInv(b, a)
    <3>1. {b, a} = {a, b}
      OBVIOUS
    <3> QED  BY <1>2, <1>13, <3>1 DEF TcpInv
  <2>2. CASE {a, b} # {n, p}
    <3>1. ~(a = n /\ b = p) /\ ~(b = n /\ a = p)
      BY <2>2
    <3>2. Alone(a, b)
      <4>1. \A v \in Callers : dial'[a][b][v] = dial[a][b][v] /\ dial'[b][a][v] = dial[b][a][v]
        BY <1>8, <3>1
      <4> QED  BY <1>2, <1>5, <1>10, <3>1, <4>1 DEF Alone
    <3> QED  BY <1>1, <2>1, <3>2, PairAlone
  <2>3. ASSUME {a, b} = {n, p}
        PROVE  /\ PairInv(n, p) /\ PairInv(p, n) /\ connections[n][p] = None
               /\ \A v \in Callers : Stage(p, n, v) = "idle" /\ (Stage(n, p, v) # "idle" => v = w)
               /\ \A c \in Opened(p, n) : ~Pending(c) /\ ~Registered(c)
               /\ \A c \in Opened(n, p) : ~Registered(c)
    <3>1. PairInv(n, p) /\ PairInv(p, n)
      BY <1>1, <1>13, <2>1, <2>3
    <3>2. /\ connections[n][p] = None
          /\ \A v \in Callers : Stage(p, n, v) = "idle" /\ (Stage(n, p, v) # "idle" => v = w)
          /\ \A c \in Opened(p, n) : ~Pending(c)
      BY <1>1, <3>1 DEF PairInv, CallInv
    <3>3. \A c \in Opened(n, p) : ~Registered(c)
      <4>1. \A c \in Ids : c # None
        BY <1>5, TcpAssumption DEF Ids
      <4> QED  BY <3>2, <4>1 DEF Registered, Opened
    <3>4. \A c \in Opened(p, n) : ~Registered(c)
      BY <3>1, <3>2 DEF PairInv, UseInv, Registered, Opened, Pending
    <3> QED  BY <3>1, <3>2, <3>3, <3>4
  <2>4. CASE a = n /\ b = p
    <3>1. CallInv(n, p)'
      <4>1. \A v \in Callers : /\ Stage(p, n, v)' = "idle"
                               /\ Stage(n, p, v)' # "idle" => v = w /\ Stage(n, p, v)' = "handshake"
        BY <1>1, <1>7, <1>8, <2>3, <2>4 DEF Stage
      <4>2. /\ connections'[n][p] = None /\ Opened(p, n)' = Opened(p, n)
            /\ \A c \in Opened(p, n) : ~Pending(c)'
        BY <1>1, <1>2, <1>5, <1>10, <2>3, <2>4 DEF Pending
      <4> QED  BY <4>1, <4>2 DEF CallInv
    <3>2. UseInv(n, p)'
      <4>1. Opened(p, n)' = Opened(p, n)
        BY <1>1, <1>10
      <4>2. ASSUME NEW c \in Opened(n, p)
            PROVE  /\ streams'[c] = streams[c] /\ c # None
        BY <1>5, <1>10, TcpAssumption DEF Ids
      <4>3. k # None
        BY <1>5, TcpAssumption
      <4>4. connections'[n][p] = None /\ connections' = connections
        BY <1>2, <2>3, <2>4
      <4>5. ASSUME NEW c \in Opened(n, p)
            PROVE  /\ n \notin streams'[c].reading /\ streams'[c].queue[n] = <<>>
                   /\ streams'[c].inbound = "done" => connections'[p][n] # None
        <5>1. UseInv(n, p) /\ connections[n][p] # c
          BY <2>3, <2>4, <4>2 DEF PairInv
        <5> QED  BY <4>2, <4>4, <5>1 DEF UseInv
      <4>6. n \notin streams'[k].reading /\ streams'[k].queue[n] = <<>> /\ streams'[k].inbound # "done"
        BY <1>3, <1>5
      <4>7. \A c \in Opened(n, p)' : connections'[n][p] # c
        BY <1>10, <4>2, <4>3, <4>4
      <4> QED  BY <1>10, <4>5, <4>6, <4>7 DEF UseInv
    <3>3. OrderInv(n, p)'
      BY <1>2, <1>3, <1>5, <1>10, <2>3, <2>4 DEF PairInv, OrderInv, Registered, Rising
    <3> QED  BY <2>4, <3>1, <3>2, <3>3 DEF PairInv
  <2>5. CASE a = p /\ b = n
    <3>1. CallInv(p, n)'
      BY <1>1, <1>8, <2>3, <2>5, ZenonT(60) DEF CallInv, Stage
    <3>2. UseInv(p, n)'
      <4>1. Opened(p, n)' = Opened(p, n)
        BY <1>1, <1>10
      <4>2. ASSUME NEW c \in Opened(p, n)
            PROVE  streams'[c] = streams[c] /\ connections[p][n] # c
        <5>1. ~Registered(c) /\ streams[c].dialer = p /\ streams[c].acceptor = n
          BY <2>3, <2>5 DEF Opened
        <5> QED  BY <1>5, <1>10, <5>1 DEF Registered
      <4>3. ASSUME NEW c \in Opened(p, n)
            PROVE  /\ p \notin streams'[c].reading /\ streams'[c].queue[p] = <<>>
                   /\ streams'[c].inbound = "done" => connections'[n][p] # None
                   /\ connections'[p][n] # c
        <5>1. UseInv(p, n)
          BY <2>3, <2>5 DEF PairInv
        <5> QED  BY <1>2, <4>2, <5>1, ZenonT(60) DEF UseInv
      <4> QED  BY <4>1, <4>3 DEF UseInv
    <3>3. OrderInv(p, n)'
      BY <1>2, <1>3, <1>5, <1>10, <2>3, <2>5 DEF PairInv, OrderInv, Registered, Rising
    <3> QED  BY <2>5, <3>1, <3>2, <3>3 DEF PairInv
  <2> QED  BY <2>2, <2>4, <2>5
<1> QED  BY <1>2, <1>9, <1>11, <1>12, <1>13 DEF TcpInv

\* Node x registers stream c for the other end y; calls between the two may end.
Registers(x, y, c, i) ==
  /\ x # y /\ Ends(c) = {x, y} /\ i \in {"accepted", "answered", "gone", "done"}
  /\ Register(x, y, c, i)
  /\ dial' \in [Nodes -> [Nodes -> [Callers -> Dial]]]
  /\ \A a, b \in Nodes, v \in Callers :
       \/ dial'[a][b][v] = dial[a][b][v]
       \/ a = x /\ b = y /\ dial'[a][b][v] = NotDialling
  /\ UNCHANGED <<up, peers, outgoing, received, doubled, budget>>

\* Only the stream and the entry of the pair change.
LEMMA RegistersOne ==
  ASSUME TcpInv, NEW x \in Nodes, NEW y \in Nodes, NEW c \in Ids, NEW i, Registers(x, y, c, i)
  PROVE  /\ streams' \in Seq(Stream) /\ Ids' = Ids
         /\ streams'[c].dialer = streams[c].dialer /\ streams'[c].acceptor = streams[c].acceptor
         /\ streams'[c].inbound = i /\ streams'[c].reading = streams[c].reading \cup {x}
         /\ streams'[c].queue = streams[c].queue
         /\ \A e \in Ids : e # c => streams'[e] = streams[e]
         /\ connections' \in [Nodes -> [Nodes -> Nat \cup {None}]] /\ connections'[x][y] = c
         /\ \A a, b \in Nodes : ~(a = x /\ b = y) => connections'[a][b] = connections[a][b]
         /\ \A a, b \in Nodes : Opened(a, b)' = Opened(a, b)
<1>1. TypeOK /\ WiringInv
  BY DEF TcpInv
<1>2. streams[c] \in Stream /\ c \in Nat
  BY <1>1, StreamTypes DEF Ids
<1> DEFINE s == [streams[c] EXCEPT !.inbound = i, !.reading = @ \cup {x}]
<1>3. /\ s \in Stream /\ s.dialer = streams[c].dialer /\ s.acceptor = streams[c].acceptor
      /\ s.inbound = i /\ s.reading = streams[c].reading \cup {x} /\ s.queue = streams[c].queue
  BY <1>2 DEF Stream, Registers
<1>4. streams' = [streams EXCEPT ![c] = s]
  BY <1>1, <1>2 DEF Registers, Register, TypeOK, Ids
<1> HIDE DEF s
<1>5. /\ streams' \in Seq(Stream) /\ Ids' = Ids
      /\ streams'[c] = s /\ \A e \in Ids : e # c => streams'[e] = streams[e]
  BY <1>1, <1>3, <1>4, OneStream
<1>6. /\ connections' \in [Nodes -> [Nodes -> Nat \cup {None}]] /\ connections'[x][y] = c
      /\ \A a, b \in Nodes : ~(a = x /\ b = y) => connections'[a][b] = connections[a][b]
  BY <1>1, <1>2 DEF TypeOK, Registers, Register
<1>7. \A e \in Ids : streams'[e].dialer = streams[e].dialer /\ streams'[e].acceptor = streams[e].acceptor
  BY <1>3, <1>5
<1>8. \A a, b \in Nodes : Opened(a, b)' = Opened(a, b)
  BY <1>5, <1>7 DEF Opened
<1> QED  BY <1>3, <1>5, <1>6, <1>8

\* All but what is said of the pair itself.
LEMMA RegistersInv ==
  ASSUME TcpInv, NEW x \in Nodes, NEW y \in Nodes, NEW c \in Ids, NEW i, Registers(x, y, c, i)
  PROVE  /\ TypeOK' /\ WiringInv' /\ NumbersInv' /\ \A a \in Nodes : received'[a][a] = <<>>
         /\ \A a, b \in Nodes : a # b /\ {a, b} \notin doubled' /\ {a, b} # {x, y} => PairInv(a, b)'
<1>1. /\ TypeOK /\ WiringInv
      /\ x # y /\ Ends(c) = {x, y}
      /\ UNCHANGED <<up, peers, outgoing, received, doubled, budget>>
      /\ dial' \in [Nodes -> [Nodes -> [Callers -> Dial]]]
      /\ \A a, b \in Nodes, v \in Callers :
           \/ dial'[a][b][v] = dial[a][b][v]
           \/ a = x /\ b = y /\ dial'[a][b][v] = NotDialling
  BY DEF TcpInv, Registers
<1>2. /\ streams' \in Seq(Stream) /\ Ids' = Ids
      /\ streams'[c].dialer = streams[c].dialer /\ streams'[c].acceptor = streams[c].acceptor
      /\ streams'[c].reading = streams[c].reading \cup {x}
      /\ streams'[c].queue = streams[c].queue
      /\ \A e \in Ids : e # c => streams'[e] = streams[e]
      /\ connections' \in [Nodes -> [Nodes -> Nat \cup {None}]] /\ connections'[x][y] = c
      /\ \A a, b \in Nodes : ~(a = x /\ b = y) => connections'[a][b] = connections[a][b]
      /\ \A a, b \in Nodes : Opened(a, b)' = Opened(a, b)
  BY RegistersOne
<1>3. TypeOK'
  BY <1>1, <1>2 DEF TypeOK
<1>4. \A e \in Ids : Ends(e)' = Ends(e) /\ streams'[e].queue = streams[e].queue
  BY <1>2 DEF Ends
<1>5. c \in Opened(x, y) \cup Opened(y, x)
  BY <1>1, ZenonT(60) DEF Opened, Ends
<1>6. WiringInv'
  <2>1. \A e \in Ids : /\ streams'[e].dialer # streams'[e].acceptor
                       /\ streams'[e].queue \in [Ends(e) -> Seq(Nat)]
                       /\ streams'[e].reading \subseteq Ends(e)
    <3>1. \A e \in Ids : /\ streams[e].dialer # streams[e].acceptor
                         /\ streams[e].queue \in [Ends(e) -> Seq(Nat)]
                         /\ streams[e].reading \subseteq Ends(e)
      BY <1>1 DEF WiringInv
    <3>2. streams'[c].reading \subseteq Ends(c)
      BY <1>1, <1>2, <3>1
    <3> QED  BY <1>2, <3>1, <3>2
  <2>2. ASSUME NEW a \in Nodes, NEW b \in Nodes
        PROVE  connections'[a][b] # None => connections'[a][b] \in Opened(a, b) \cup Opened(b, a)
    <3>1. CASE a = x /\ b = y
      BY <1>2, <1>5, <3>1
    <3>2. CASE ~(a = x /\ b = y)
      <4>1. connections'[a][b] = connections[a][b]
        BY <1>2, <3>2
      <4> QED  BY <1>1, <4>1 DEF WiringInv
    <3> QED  BY <3>1, <3>2
  <2>3. ASSUME NEW a \in Nodes, NEW b \in Nodes, NEW v \in Callers
        PROVE  /\ Stage(a, b, v)' # "idle" => a # b
               /\ Stage(a, b, v)' \in {"handshake", "register"} =>
                    dial'[a][b][v].stream \in Opened(a, b)
    <3>1. CASE dial'[a][b][v] = dial[a][b][v]
      BY <1>1, <3>1 DEF WiringInv, Stage
    <3>2. CASE dial'[a][b][v] = NotDialling
      BY <3>2 DEF Stage, NotDialling
    <3> QED  BY <1>1, <3>1, <3>2
  <2>4. \A a \in Nodes : a \notin peers'[a]
    BY <1>1 DEF WiringInv
  <2> QED  BY <1>2, <1>4, <2>1, <2>2, <2>3, <2>4 DEF WiringInv
<1>7. NumbersInv'
  BY <1>1, <1>2, <1>4, ZenonT(60) DEF TcpInv, NumbersInv, Rising, UpTo
<1>8. ASSUME NEW a \in Nodes, NEW b \in Nodes, a # b, {a, b} \notin doubled', {a, b} # {x, y}
      PROVE  PairInv(a, b)'
  <2>1. ~(a = x /\ b = y) /\ ~(b = x /\ a = y)
    BY <1>8
  <2>2. c \notin Opened(a, b) /\ c \notin Opened(b, a)
    <3>1. {a, b} # Ends(c) /\ {b, a} # Ends(c)
      BY <1>1, <1>8
    <3> QED  BY <3>1 DEF Opened, Ends
  <2>3. Opened(a, b) \subseteq Ids /\ Opened(b, a) \subseteq Ids
    BY DEF Opened
  <2>4. Alone(a, b)
    BY <1>1, <1>2, <2>1, <2>2, <2>3 DEF Alone
  <2>5. PairInv(a, b)
    BY <1>1, <1>8 DEF TcpInv
  <2> QED  BY <1>1, <2>4, <2>5, PairAlone
<1>9. \A a \in Nodes : received'[a][a] = <<>>
  BY <1>1 DEF TcpInv
<1> QED  BY <1>3, <1>6, <1>7, <1>8, <1>9

\* The dialer registers the stream whose handshake it completed: no other stream
\* between the two was used, and nothing was read.
LEMMA RegisterOutboundStep ==
  ASSUME TcpInv, NEW n \in Nodes, NEW p \in Nodes, NEW w \in Callers, register_outbound(n, p, w)
  PROVE  TcpInv'
<1>1. PICK c : c = dial[n][p][w].stream
  OBVIOUS
<1>2. /\ TypeOK /\ WiringInv /\ Stage(n, p, w) = "register" /\ n # p
      /\ c \in Opened(n, p) /\ c \in Ids /\ Ends(c) = {n, p}
  <2>1. TypeOK /\ WiringInv /\ Stage(n, p, w) = "register"
    BY DEF TcpInv, register_outbound, Stage
  <2>2. n # p /\ c \in Opened(n, p)
    BY <1>1, <2>1 DEF WiringInv
  <2> QED  BY <2>1, <2>2 DEF Opened, Ends
<1>3. PICK i : i = streams[c].inbound
  OBVIOUS
<1>4. /\ dial' = [dial EXCEPT ![n][p][w] = NotDialling] /\ Register(n, p, c, i)
      /\ UNCHANGED <<up, peers, outgoing, received, doubled, budget>>
  BY <1>1, <1>3 DEF register_outbound
<1>5. /\ dial' \in [Nodes -> [Nodes -> [Callers -> Dial]]]
      /\ \A a, b \in Nodes, v \in Callers :
           dial'[a][b][v] = IF a = n /\ b = p /\ v = w THEN NotDialling ELSE dial[a][b][v]
  <2>1. NotDialling \in Dial
    BY DEF NotDialling, Dial, Stages
  <2>2. PICK x \in Dial : x = NotDialling /\ dial' = [dial EXCEPT ![n][p][w] = x]
    BY <1>4, <2>1
  <2>3. dial \in [Nodes -> [Nodes -> [Callers -> Dial]]]
    BY <1>2 DEF TypeOK
  <2>4. /\ dial' \in [Nodes -> [Nodes -> [Callers -> Dial]]]
        /\ \A a, b \in Nodes, v \in Callers :
             dial'[a][b][v] = IF a = n /\ b = p /\ v = w THEN x ELSE dial[a][b][v]
    BY <2>2, <2>3, DialOne
  <2> QED  BY <2>2, <2>4
<1>6. /\ i \in {"accepted", "answered", "gone", "done"}
      /\ \A a, b \in Nodes, v \in Callers :
           \/ dial'[a][b][v] = dial[a][b][v]
           \/ a = n /\ b = p /\ dial'[a][b][v] = NotDialling
  <2>1. streams[c] \in Stream
    BY <1>2, StreamTypes
  <2> QED  BY <1>3, <1>5, <2>1 DEF Stream
<1>7. Registers(n, p, c, i)
  BY <1>2, <1>4, <1>5, <1>6 DEF Registers
<1>8. /\ Ids' = Ids
      /\ streams'[c].inbound = i /\ streams'[c].queue = streams[c].queue
      /\ \A e \in Ids : e # c => streams'[e] = streams[e]
      /\ connections'[n][p] = c
      /\ \A a, b \in Nodes : ~(a = n /\ b = p) => connections'[a][b] = connections[a][b]
      /\ \A a, b \in Nodes : Opened(a, b)' = Opened(a, b)
  BY <1>2, <1>7, RegistersOne
<1>9. /\ TypeOK' /\ WiringInv' /\ NumbersInv' /\ \A a \in Nodes : received'[a][a] = <<>>
      /\ \A a, b \in Nodes : a # b /\ {a, b} \notin doubled' /\ {a, b} # {n, p} => PairInv(a, b)'
  BY <1>2, <1>7, RegistersInv
<1>10. ASSUME {n, p} \notin doubled'
       PROVE  PairInv(n, p)' /\ PairInv(p, n)'
  <2>1. PairInv(n, p) /\ PairInv(p, n)
    <3>1. {p, n} = {n, p}
      OBVIOUS
    <3> QED  BY <1>2, <1>4, <1>10, <3>1 DEF TcpInv
  <2>2. /\ connections[n][p] = None /\ i \in {"answered", "done"}
        /\ \A v \in Callers : Stage(p, n, v) = "idle" /\ (Stage(n, p, v) # "idle" => v = w)
        /\ \A e \in Opened(p, n) : ~Pending(e)
    BY <1>1, <1>2, <1>3, <2>1 DEF PairInv, CallInv
  <2>3. Opened(n, p) \subseteq Ids /\ Opened(p, n) \subseteq Ids /\ c \notin Opened(p, n)
    BY <1>2 DEF Opened
  <2>4. ASSUME NEW e \in Opened(p, n)
        PROVE  streams[e].inbound = "gone" /\ connections[p][n] # e
    <3>1. streams[e].inbound \in {"accepted", "answered", "gone", "done"}
      <4>1. streams[e] \in Stream
        BY <1>2, <2>3, StreamTypes
      <4> QED  BY <4>1 DEF Stream
    <3>2. streams[e].inbound = "gone"
      BY <2>1, <2>2, <3>1 DEF PairInv, UseInv, Pending
    <3> QED  BY <2>1, <3>2 DEF PairInv, UseInv
  <2>5. \A e \in Ids : e # None
    BY <1>2, TcpAssumption DEF Ids, TypeOK
  <2>6. received[n][p] = <<>> /\ received[p][n] = <<>>
    <3>1. \A e \in Opened(n, p) \cup Opened(p, n) : ~Registered(e)
      BY <2>2, <2>3, <2>4, <2>5 DEF Registered, Opened
    <3> QED  BY <2>1, <3>1 DEF PairInv, OrderInv
  <2>7. CallInv(n, p)' /\ CallInv(p, n)'
    <3>1. \A v \in Callers : Stage(n, p, v)' = "idle" /\ Stage(p, n, v)' = "idle"
      <4>1. dial'[n][p][w].stage = "idle"
        BY <1>5 DEF NotDialling
      <4>2. \A v \in Callers : dial'[p][n][v] = dial[p][n][v]
        BY <1>2, <1>5
      <4>3. \A v \in Callers : v # w => dial'[n][p][v] = dial[n][p][v]
        BY <1>5
      <4> QED  BY <2>2, <4>1, <4>2, <4>3 DEF Stage
    <3> QED  BY <3>1 DEF CallInv
  <2>8. UseInv(n, p)'
    <3>1. SUFFICES ASSUME NEW e \in Opened(n, p)
                   PROVE  /\ e # c => n \notin streams'[e].reading /\ streams'[e].queue[n] = <<>>
                          /\ e = c => /\ streams'[e].inbound \in {"answered", "done"}
                                      /\ \A d \in Opened(p, n) : streams'[d].inbound = "gone"
                          /\ streams'[e].inbound = "done" => connections'[p][n] # None
      BY <1>8 DEF UseInv
    <3>2. /\ n \notin streams[e].reading \/ e = c
          /\ streams[e].queue[n] = <<>> \/ e = c
          /\ streams[e].inbound = "done" => connections[p][n] # None
      BY <2>1, <2>2, <2>3, <2>5 DEF PairInv, UseInv
    <3>3. streams'[e].inbound = streams[e].inbound /\ connections'[p][n] = connections[p][n]
      BY <1>2, <1>3, <1>8, <2>3
    <3>4. \A d \in Opened(p, n) : streams'[d].inbound = "gone"
      BY <1>8, <2>3, <2>4
    <3> QED  BY <1>8, <2>2, <2>3, <3>2, <3>3, <3>4
  <2>9. UseInv(p, n)'
    <3>1. SUFFICES ASSUME NEW e \in Opened(p, n)
                   PROVE  /\ connections'[p][n] # e
                          /\ p \notin streams'[e].reading /\ streams'[e].queue[p] = <<>>
                          /\ streams'[e].inbound = "gone"
      BY <1>8 DEF UseInv
    <3>2. streams'[e] = streams[e] /\ connections'[p][n] = connections[p][n]
      BY <1>2, <1>8, <2>3
    <3> QED  BY <2>1, <2>4, <3>2 DEF PairInv, UseInv
  <2>10. OrderInv(n, p)' /\ OrderInv(p, n)'
    BY <1>4, <2>6 DEF OrderInv, Rising
  <2> QED  BY <2>7, <2>8, <2>9, <2>10 DEF PairInv
<1>11. ASSUME NEW a \in Nodes, NEW b \in Nodes, a # b, {a, b} \notin doubled'  PROVE PairInv(a, b)'
  <2>1. CASE {a, b} = {n, p}
    BY <1>10, <1>11, <2>1
  <2> QED  BY <1>9, <1>11, <2>1
<1> QED  BY <1>9, <1>11 DEF TcpInv

\* The acceptor registers the stream, or replaces its entry by it.  It has no call of
\* its own, and it used no stream that it dialled, for then this one would be gone.
LEMMA RegisterInboundStep ==
  ASSUME TcpInv, NEW c \in Ids, register_inbound(c)
  PROVE  TcpInv'
<1>1. PICK n \in Nodes, p \in Nodes :
        n = streams[c].acceptor /\ p = streams[c].dialer /\ n # p
  BY StreamTypes DEF TcpInv
<1>2. /\ TypeOK /\ WiringInv /\ Pending(c) /\ Ends(c) = {n, p}
      /\ c \in Opened(p, n) /\ c \notin Opened(n, p)
  BY <1>1 DEF TcpInv, register_inbound, Inbound, Pending, Opened, Ends
<1>3. /\ Register(n, p, c, "done")
      /\ UNCHANGED <<up, peers, dial, outgoing, received, doubled, budget>>
  BY <1>1 DEF register_inbound
<1>4. Registers(n, p, c, "done")
  BY <1>1, <1>2, <1>3 DEF Registers, TypeOK
<1>5. /\ Ids' = Ids
      /\ streams'[c].inbound = "done" /\ streams'[c].queue = streams[c].queue
      /\ streams'[c].reading = streams[c].reading \cup {n}
      /\ \A e \in Ids : e # c => streams'[e] = streams[e]
      /\ connections'[n][p] = c
      /\ \A a, b \in Nodes : ~(a = n /\ b = p) => connections'[a][b] = connections[a][b]
      /\ \A a, b \in Nodes : Opened(a, b)' = Opened(a, b)
  BY <1>4, RegistersOne
<1>6. /\ TypeOK' /\ WiringInv' /\ NumbersInv' /\ \A a \in Nodes : received'[a][a] = <<>>
      /\ \A a, b \in Nodes : a # b /\ {a, b} \notin doubled' /\ {a, b} # {n, p} => PairInv(a, b)'
  BY <1>4, RegistersInv
<1>7. ASSUME {n, p} \notin doubled'
      PROVE  PairInv(n, p)' /\ PairInv(p, n)'
  <2>1. PairInv(n, p) /\ PairInv(p, n)
    <3>1. {p, n} = {n, p}
      OBVIOUS
    <3> QED  BY <1>1, <1>3, <1>7, <3>1 DEF TcpInv
  <2>2. Opened(n, p) \subseteq Ids /\ Opened(p, n) \subseteq Ids
    BY DEF Opened
  <2>3. /\ \A v \in Callers : Stage(n, p, v) = "idle" /\ Stage(p, n, v) # "look_up"
        /\ \A e \in Opened(n, p) : connections[n][p] # e
    <3>1. streams[c].inbound # "gone"
      BY <1>2 DEF Pending
    <3>2. \A v \in Callers : Stage(n, p, v) = "idle"
      BY <1>2, <2>1 DEF PairInv, CallInv
    <3>3. \A v \in Callers : Stage(p, n, v) # "look_up"
      BY <1>2, <2>1 DEF PairInv, CallInv
    <3>4. \A e \in Opened(n, p) : connections[n][p] # e
      BY <1>2, <2>1, <3>1 DEF PairInv, UseInv
    <3> QED  BY <3>2, <3>3, <3>4
  <2>4. connections'[p][n] = connections[p][n] /\ c # None
    BY <1>1, <1>2, <1>5, TcpAssumption DEF Ids, TypeOK
  <2>5. CallInv(n, p)'
    BY <1>3, <2>3 DEF CallInv, Stage
  <2>6. CallInv(p, n)'
    <3>1. SUFFICES ASSUME NEW v \in Callers, Stage(p, n, v) # "idle"
                   PROVE  /\ \A u \in Callers : /\ Stage(p, n, u) # "idle" => u = v
                                                /\ Stage(n, p, u) = "idle"
                          /\ \A e \in Opened(n, p) : ~Pending(e)'
                          /\ connections[p][n] = None
                          /\ Stage(p, n, v) = "register" =>
                               streams'[dial[p][n][v].stream].inbound \in {"answered", "done"}
      BY <1>3, <1>5, <2>3, <2>4 DEF CallInv, Stage
    <3>2. \A e \in Opened(n, p) : streams'[e] = streams[e]
      BY <1>2, <1>5, <2>2
    <3>3. \A e \in Opened(n, p) : ~Pending(e)'
      BY <2>1, <3>1, <3>2 DEF PairInv, CallInv, Pending
    <3>4. ASSUME Stage(p, n, v) = "register"
          PROVE  streams'[dial[p][n][v].stream].inbound \in {"answered", "done"}
      <4>1. /\ dial[p][n][v].stream \in Ids
            /\ streams[dial[p][n][v].stream].inbound \in {"answered", "done"}
        BY <1>2, <2>1, <2>2, <3>4 DEF PairInv, CallInv, WiringInv
      <4> QED  BY <1>5, <4>1
    <3> QED  BY <2>1, <2>3, <3>1, <3>3, <3>4 DEF PairInv, CallInv
  <2>7. UseInv(n, p)'
    <3>1. SUFFICES ASSUME NEW e \in Opened(n, p)
                   PROVE  /\ c # e /\ n \notin streams'[e].reading /\ streams'[e].queue[n] = <<>>
                          /\ streams'[e].inbound = "done" => connections[p][n] # None
      BY <1>5, <2>4 DEF UseInv
    <3>2. c # e /\ streams'[e] = streams[e]
      BY <1>2, <1>5, <2>2
    <3> QED  BY <2>1, <2>3, <3>2 DEF PairInv, UseInv
  <2>8. UseInv(p, n)'
    <3>1. SUFFICES ASSUME NEW e \in Opened(p, n)
                   PROVE  /\ connections[p][n] # e =>
                               p \notin streams'[e].reading /\ streams'[e].queue[p] = <<>>
                          /\ connections[p][n] = e =>
                               /\ streams'[e].inbound \in {"answered", "done"}
                               /\ \A d \in Opened(n, p) : streams'[d].inbound = "gone"
      BY <1>5, <2>4 DEF UseInv
    <3>2. \A d \in Opened(n, p) : streams'[d] = streams[d]
      BY <1>2, <1>5, <2>2
    <3>3. /\ p \in streams'[e].reading => p \in streams[e].reading
          /\ streams'[e].queue = streams[e].queue
          /\ streams[e].inbound \in {"answered", "done"} =>
               streams'[e].inbound \in {"answered", "done"}
      BY <1>1, <1>5, <2>2
    <3> QED  BY <2>1, <3>2, <3>3 DEF PairInv, UseInv
  <2>9. ASSUME NEW e \in Opened(n, p) \cup Opened(p, n)
        PROVE  Registered(e)' = Registered(e) /\ streams'[e].queue = streams[e].queue
    <3>1. CASE e \in Opened(n, p)
      <4>1. /\ streams'[e] = streams[e] /\ e # c
            /\ streams[e].dialer = n /\ streams[e].acceptor = p
        BY <1>2, <1>5, <2>2, <3>1 DEF Opened
      <4> QED  BY <1>5, <2>3, <3>1, <4>1 DEF Registered
    <3>2. CASE e \in Opened(p, n)
      <4>1. /\ streams'[e].dialer = p /\ streams'[e].acceptor = n
            /\ streams[e].dialer = p /\ streams[e].acceptor = n
            /\ streams'[e].queue = streams[e].queue
        BY <1>5, <2>2, <3>2 DEF Opened
      <4> QED  BY <2>4, <4>1 DEF Registered
    <3> QED  BY <3>1, <3>2
  <2>10. OrderInv(n, p)' /\ OrderInv(p, n)'
    <3>1. OrderInv(n, p)'
      BY <1>3, <1>5, <2>1, <2>9, SMTT(30) DEF PairInv, OrderInv, Rising
    <3>2. OrderInv(p, n)'
      BY <1>3, <1>5, <2>1, <2>9 DEF PairInv, OrderInv, Rising
    <3> QED  BY <3>1, <3>2
  <2> QED  BY <2>5, <2>6, <2>7, <2>8, <2>10 DEF PairInv
<1>8. ASSUME NEW a \in Nodes, NEW b \in Nodes, a # b, {a, b} \notin doubled'  PROVE PairInv(a, b)'
  <2>1. CASE {a, b} = {n, p}
    BY <1>7, <1>8, <2>1
  <2> QED  BY <1>6, <1>8, <2>1
<1> QED  BY <1>6, <1>8 DEF TcpInv

-----------------------------------------------------------------------------
(* Entries are dropped                                                      *)

\* remove_peer: the pair may get a second stream from now on, the others are as before.
LEMMA RemovePeerStep ==
  ASSUME TcpInv, NEW n \in Nodes, NEW p \in Nodes, remove_peer(n, p)
  PROVE  TcpInv'
<1>1. /\ TypeOK /\ WiringInv
      /\ UNCHANGED <<up, dial, streams, outgoing, received>>
      /\ doubled' = doubled \cup {{n, p}}
  BY DEF TcpInv, remove_peer
<1>2. /\ connections' \in [Nodes -> [Nodes -> Nat \cup {None}]] /\ connections'[n][p] = None
      /\ \A a, b \in Nodes : ~(a = n /\ b = p) => connections'[a][b] = connections[a][b]
  BY <1>1 DEF TypeOK, remove_peer
<1>3. peers' \in [Nodes -> SUBSET Nodes] /\ \A a \in Nodes : a \notin peers'[a]
  BY <1>1 DEF TypeOK, WiringInv, remove_peer
<1>4. TypeOK'
  <2>1. budget' \in Budget
    BY <1>1, BudgetSpent DEF TypeOK, remove_peer
  <2> QED  BY <1>1, <1>2, <1>3, <2>1 DEF TypeOK
<1>5. /\ Ids' = Ids /\ \A a, b \in Nodes : Opened(a, b)' = Opened(a, b)
      /\ \A c \in Ids : Ends(c)' = Ends(c)
  BY <1>1 DEF Ids, Opened, Ends
<1>6. WiringInv'
  <2>1. \A c \in Ids' : /\ streams'[c].dialer # streams'[c].acceptor
                        /\ streams'[c].queue \in [Ends(c)' -> Seq(Nat)]
                        /\ streams'[c].reading \subseteq Ends(c)'
    BY <1>1, <1>5 DEF WiringInv
  <2>2. \A a, b \in Nodes : connections'[a][b] # None
                              => connections'[a][b] \in Opened(a, b)' \cup Opened(b, a)'
    BY <1>1, <1>2, <1>5 DEF WiringInv
  <2>3. \A a, b \in Nodes, v \in Callers :
          /\ Stage(a, b, v)' # "idle" => a # b
          /\ Stage(a, b, v)' \in {"handshake", "register"} => dial'[a][b][v].stream \in Opened(a, b)'
    BY <1>1, <1>5 DEF WiringInv, Stage
  <2> QED  BY <1>3, <2>1, <2>2, <2>3 DEF WiringInv
<1>7. NumbersInv'
  BY <1>1, <1>5 DEF TcpInv, NumbersInv, Rising, UpTo
<1>8. ASSUME NEW a \in Nodes, NEW b \in Nodes, a # b, {a, b} \notin doubled'  PROVE PairInv(a, b)'
  <2>1. {a, b} # {n, p} /\ {a, b} \notin doubled
    BY <1>1, <1>8
  <2>2. ~(a = n /\ b = p) /\ ~(b = n /\ a = p)
    BY <2>1
  <2>3. Alone(a, b)
    BY <1>1, <1>2, <1>5, <2>2 DEF Alone
  <2>4. PairInv(a, b)
    BY <1>8, <2>1 DEF TcpInv
  <2> QED  BY <1>1, <2>3, <2>4, PairAlone
<1>9. \A a \in Nodes : received'[a][a] = <<>>
  BY <1>1 DEF TcpInv
<1> QED  BY <1>4, <1>6, <1>7, <1>8, <1>9 DEF TcpInv

\* What a crash of n makes of a stream.
LEMMA CrashedStream ==
  ASSUME TcpInv, NEW n \in Nodes, crash(n), NEW c \in Ids
  PROVE  /\ streams'[c] \in Stream
         /\ streams'[c].dialer = streams[c].dialer /\ streams'[c].acceptor = streams[c].acceptor
         /\ streams'[c].queue = streams[c].queue /\ streams'[c].reading \subseteq streams[c].reading
         /\ n \notin Ends(c) => streams'[c] = streams[c]
<1>1. streams[c] \in Stream
  BY StreamTypes DEF TcpInv
<1> DEFINE i == IF n = streams[c].acceptor THEN AfterCrash(streams[c].inbound) ELSE streams[c].inbound
<1>2. i \in {"accepted", "answered", "gone", "done"}
  BY <1>1 DEF AfterCrash, Stream
<1>3. streams'[c] = IF n \notin Ends(c) THEN streams[c]
                    ELSE [streams[c] EXCEPT !.open = FALSE, !.reading = @ \ {n}, !.inbound = i]
  BY DEF crash
<1> HIDE DEF i
<1>4. CASE n \in Ends(c)
  <2> DEFINE r == streams[c].reading \ {n}
  <2>1. r \in SUBSET Nodes /\ r \subseteq streams[c].reading
    BY <1>1 DEF Stream
  <2>2. streams'[c] = [streams[c] EXCEPT !.open = FALSE, !.reading = r, !.inbound = i]
    BY <1>3, <1>4
  <2> HIDE DEF r
  <2> QED  BY <1>1, <1>2, <1>4, <2>1, <2>2 DEF Stream
<1>5. CASE n \notin Ends(c)
  BY <1>1, <1>3, <1>5
<1> QED  BY <1>4, <1>5

\* A crash: every pair with n may get a second stream, the others are as before.
LEMMA CrashStep ==
  ASSUME TcpInv, NEW n \in Nodes, crash(n)
  PROVE  TcpInv'
<1>1. /\ TypeOK /\ WiringInv /\ up' \subseteq Nodes
      /\ UNCHANGED <<peers, outgoing, received>>
      /\ doubled' = doubled \cup {{n, p} : p \in Nodes}
  BY DEF TcpInv, TypeOK, crash
<1>2. /\ streams' \in Seq(Stream) /\ Ids' = Ids
      /\ \A c \in Ids :
           /\ streams'[c].dialer = streams[c].dialer /\ streams'[c].acceptor = streams[c].acceptor
           /\ streams'[c].queue = streams[c].queue /\ streams'[c].reading \subseteq streams[c].reading
           /\ n \notin Ends(c) => streams'[c] = streams[c]
  <2>1. \A c \in Ids :
           /\ streams'[c] \in Stream
           /\ streams'[c].dialer = streams[c].dialer /\ streams'[c].acceptor = streams[c].acceptor
           /\ streams'[c].queue = streams[c].queue /\ streams'[c].reading \subseteq streams[c].reading
           /\ n \notin Ends(c) => streams'[c] = streams[c]
    BY CrashedStream
  <2>2. Len(streams) \in Nat
    BY <1>1 DEF TypeOK
  <2>3. streams' \in [1..Len(streams) -> Stream]
    <3>1. DOMAIN streams' = 1..Len(streams) /\ streams' = [c \in 1..Len(streams) |-> streams'[c]]
      BY DEF crash, Ids
    <3> QED  BY <2>1, <3>1 DEF Ids
  <2>4. streams' \in Seq(Stream) /\ Len(streams') = Len(streams)
    BY <2>2, <2>3
  <2> QED  BY <2>1, <2>4 DEF Ids
<1>3. /\ connections' \in [Nodes -> [Nodes -> Nat \cup {None}]]
      /\ \A a, b \in Nodes : connections'[a][b] = IF a = n THEN None ELSE connections[a][b]
  BY <1>1 DEF TypeOK, crash, NoEntries
<1>4. /\ dial' \in [Nodes -> [Nodes -> [Callers -> Dial]]]
      /\ \A a, b \in Nodes, v \in Callers :
           dial'[a][b][v] = IF a = n THEN NotDialling ELSE dial[a][b][v]
  <2>1. NotDialling \in Dial
    BY DEF NotDialling, Dial, Stages
  <2>2. NoDials \in [Nodes -> [Callers -> Dial]] /\ dial' = [dial EXCEPT ![n] = NoDials]
    BY <2>1 DEF NoDials, crash
  <2>3. \A b \in Nodes, v \in Callers : NoDials[b][v] = NotDialling
    BY DEF NoDials
  <2> QED  BY <1>1, <2>2, <2>3 DEF TypeOK
<1>5. TypeOK'
  <2>1. budget' \in Budget
    BY <1>1, BudgetSpent DEF TypeOK, crash
  <2>2. doubled' \subseteq SUBSET Nodes
    <3>1. {{n, p} : p \in Nodes} \subseteq SUBSET Nodes
      OBVIOUS
    <3> QED  BY <1>1, <3>1 DEF TypeOK
  <2> QED  BY <1>1, <1>2, <1>3, <1>4, <2>1, <2>2 DEF TypeOK
<1>6. /\ \A a, b \in Nodes : Opened(a, b)' = Opened(a, b)
      /\ \A c \in Ids : Ends(c)' = Ends(c)
  BY <1>2 DEF Opened, Ends
<1>7. WiringInv'
  <2>1. \A c \in Ids : /\ streams'[c].dialer # streams'[c].acceptor
                       /\ streams'[c].queue \in [Ends(c) -> Seq(Nat)]
                       /\ streams'[c].reading \subseteq Ends(c)
    BY <1>1, <1>2 DEF WiringInv
  <2>2. \A a, b \in Nodes : connections'[a][b] # None
                              => connections'[a][b] \in Opened(a, b) \cup Opened(b, a)
    BY <1>1, <1>3 DEF WiringInv
  <2>3. ASSUME NEW a \in Nodes, NEW b \in Nodes, NEW v \in Callers
        PROVE  /\ Stage(a, b, v)' # "idle" => a # b
               /\ Stage(a, b, v)' \in {"handshake", "register"} => dial'[a][b][v].stream \in Opened(a, b)
    <3>1. CASE a = n
      BY <1>4, <3>1 DEF Stage, NotDialling
    <3>2. CASE a # n
      <4>1. dial'[a][b][v] = dial[a][b][v]
        BY <1>4, <3>2
      <4> QED  BY <1>1, <4>1 DEF Stage, WiringInv
    <3> QED  BY <3>1, <3>2
  <2>4. \A a \in Nodes : a \notin peers'[a]
    BY <1>1 DEF WiringInv
  <2> QED  BY <1>2, <1>6, <2>1, <2>2, <2>3, <2>4 DEF WiringInv
<1>8. NumbersInv'
  BY <1>1, <1>2, <1>6, SMTT(30) DEF TcpInv, NumbersInv, Rising, UpTo
<1>9. ASSUME NEW a \in Nodes, NEW b \in Nodes, a # b, {a, b} \notin doubled'  PROVE PairInv(a, b)'
  <2>1. a # n /\ b # n /\ {a, b} \notin doubled
    <3>1. b # n
      <4>1. {b, a} = {a, b}
        OBVIOUS
      <4> QED  BY <1>1, <1>9, <4>1
    <3> QED  BY <1>1, <1>9, <3>1
  <2>2. \A c \in Opened(a, b) \cup Opened(b, a) : c \in Ids /\ n \notin Ends(c)
    BY <2>1 DEF Opened, Ends
  <2>3. Alone(a, b)
    BY <1>1, <1>2, <1>3, <1>4, <1>6, <2>1, <2>2 DEF Alone
  <2>4. PairInv(a, b)
    BY <1>9, <2>1 DEF TcpInv
  <2> QED  BY <1>1, <2>3, <2>4, PairAlone
<1>10. \A a \in Nodes : received'[a][a] = <<>>
  BY <1>1 DEF TcpInv
<1> QED  BY <1>5, <1>7, <1>8, <1>9, <1>10 DEF TcpInv

-----------------------------------------------------------------------------
(* The theorems                                                             *)

\* Every step of the transport keeps the invariant.
LEMMA TcpNext ==
  ASSUME TcpInv, [Next]_vars
  PROVE  TcpInv'
<1>1. CASE UNCHANGED vars
  <2>1. UNCHANGED <<up, peers, connections, dial, streams, outgoing, received, doubled, budget>>
    BY <1>1 DEF vars
  <2>2. TypeOK' /\ WiringInv' /\ NumbersInv'
    <3>1. TypeOK'
      BY <2>1 DEF TcpInv, TypeOK
    <3>2. WiringInv'
      <4>1. /\ Ids' = Ids /\ \A a, b \in Nodes : Opened(a, b)' = Opened(a, b)
            /\ \A c \in Ids : Ends(c)' = Ends(c)
        BY <2>1 DEF Ids, Opened, Ends
      <4>2. \A a, b \in Nodes, v \in Callers : Stage(a, b, v)' = Stage(a, b, v)
        BY <2>1 DEF Stage
      <4> QED  BY <2>1, <4>1, <4>2 DEF TcpInv, WiringInv
    <3>3. NumbersInv'
      BY <2>1 DEF TcpInv, NumbersInv, Ids, Ends, Rising, UpTo
    <3> QED  BY <3>1, <3>2, <3>3
  <2>3. \A a, b \in Nodes : Opened(a, b)' = Opened(a, b)
    BY <2>1 DEF Opened, Ids
  <2>4. ASSUME NEW a \in Nodes, NEW b \in Nodes, a # b, {a, b} \notin doubled'  PROVE PairInv(a, b)'
    <3>1. Alone(a, b) /\ PairInv(a, b) /\ TypeOK /\ WiringInv
      BY <2>1, <2>3, <2>4 DEF Alone, TcpInv
    <3> QED  BY <3>1, PairAlone
  <2>5. \A a \in Nodes : received'[a][a] = <<>>
    BY <2>1 DEF TcpInv
  <2> QED  BY <2>2, <2>4, <2>5 DEF TcpInv
<1>2. ASSUME NEW n \in Nodes, start(n) \/ crash(n)  PROVE TcpInv'
  BY <1>2, StartStep, CrashStep
<1>3. ASSUME NEW n \in Nodes, broadcast(n)  PROVE TcpInv'
  <2>1. Connected(n) \in SUBSET Nodes /\ Send(n, Connected(n))
    BY <1>3 DEF broadcast, Connected
  <2> QED  BY <2>1, SendStep
<1>4. ASSUME NEW n \in Nodes, NEW p \in Nodes, NEW w \in Callers, DialStep(n, p, w)  PROVE TcpInv'
  BY <1>4, LookUpStep, ConnectStep, ConnectFailsStep, OutboundHandshakeStep,
     OutboundHandshakeFailsStep, RegisterOutboundStep DEF DialStep
<1>5. ASSUME NEW n \in Nodes, NEW p \in Nodes, reconnect(n, p) \/ add_peer(n, p) \/ remove_peer(n, p)
      PROVE  TcpInv'
  BY <1>5, ReconnectStep, AddPeerStep, RemovePeerStep
<1>6. ASSUME NEW n \in Nodes, NEW p \in Nodes, send_to(n, p)  PROVE TcpInv'
  <2>1. {p} \in SUBSET Nodes /\ Send(n, {p})
    BY <1>6 DEF send_to
  <2> QED  BY <2>1, SendStep
<1>7. ASSUME NEW c \in Ids, InboundStep(c) \/ break(c)  PROVE TcpInv'
  BY <1>7, InboundHandshakeStep, RegisterInboundStep, BreakStep DEF InboundStep
<1>8. ASSUME NEW n \in Nodes, NEW c \in Ids, read(n, c) \/ read_fails(n, c)  PROVE TcpInv'
  BY <1>8, ReadStep, ReadFailsStep
<1> QED  BY <1>1, <1>2, <1>3, <1>4, <1>5, <1>6, <1>7, <1>8 DEF Next

\* The invariant of the transport holds in every reachable state: what connect_to_peer,
\* the tasks of accepted streams, send_to, broadcast and the readers rely on.
THEOREM TcpCorrect == Spec => []TcpInv
<1>1. Init => TcpInv
  BY TcpInit
<1>2. TcpInv /\ [Next]_vars => TcpInv'
  BY TcpNext
<1> QED  BY <1>1, <1>2, PTL DEF Spec

\* Messages of a peer are read in the order in which it sent them, over any number of
\* streams that attempts, breaks and registrations leave between the two nodes, as long
\* as the look-up of connect_to_peer was not bypassed (InOrder).
THEOREM MessagesStayInOrder == Spec => []InOrder
<1>1. TcpInv => InOrder
  <2>1. SUFFICES ASSUME TcpInv, NEW n \in Nodes, NEW p \in Nodes, {n, p} \notin doubled
                 PROVE  Rising(received[n][p])
    BY DEF InOrder, Rising
  <2>2. CASE n = p
    BY <2>1, <2>2 DEF TcpInv, Rising
  <2>3. CASE n # p
    BY <2>1, <2>3 DEF TcpInv, PairInv, OrderInv
  <2> QED  BY <2>2, <2>3
<1> QED  BY <1>1, TcpCorrect, PTL
=============================================================================
