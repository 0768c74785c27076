------------------------- MODULE RabiaEngineProofs -------------------------
(***************************************************************************)
(* Proofs about the engine cluster, for every number of nodes, batches and *)
(* phases, every Recorded, and every number of crashes and lost messages,  *)
(* except where a theorem names its hypotheses: agreement is about quorums *)
(* of all the others, rest about clusters in which nothing is lost.        *)
(***************************************************************************)
EXTENDS RabiaEngine, FiniteSetTheorems, TLAPS

Channels == [Links -> Seq(Messages)]

-----------------------------------------------------------------------------
(* Channels                                                                 *)

\* The head and the tail of a non-empty channel.
LEMMA HeadTail ==
  ASSUME NEW q \in Channels, NEW l \in Links, q[l] # <<>>
  PROVE  /\ Head(q[l]) \in OnLink(q, l)
         /\ Head(q[l]) \in Messages
         /\ Tail(q[l]) \in Seq(Messages)
         /\ \A i \in 1..Len(Tail(q[l])) : Tail(q[l])[i] \in OnLink(q, l)
<1>1. q[l] \in Seq(Messages)
  BY DEF Channels
<1>2. Len(q[l]) \in Nat /\ Len(q[l]) > 0 /\ Head(q[l]) = q[l][1]
  BY <1>1
<1>3. \A i \in 1..Len(Tail(q[l])) : i + 1 \in 1..Len(q[l]) /\ Tail(q[l])[i] = q[l][i + 1]
  BY <1>1, <1>2
<1> QED  BY <1>1, <1>2, <1>3 DEF OnLink

\* Taking the head of a link leaves only messages that were there.
LEMMA TakenChannels ==
  ASSUME net \in Channels, NEW l \in Links, net[l] # <<>>
  PROVE  /\ Taken(l) \in Channels
         /\ \A k \in Links : OnLink(Taken(l), k) \subseteq OnLink(net, k)
<1>1. Taken(l) \in Channels
  BY HeadTail DEF Taken, Channels
<1>2. ASSUME NEW k \in Links PROVE OnLink(Taken(l), k) \subseteq OnLink(net, k)
  <2>1. CASE k = l
    BY <2>1, HeadTail DEF Taken, OnLink, Channels
  <2>2. CASE k # l
    BY <2>2 DEF Taken, OnLink, Channels
  <2> QED  BY <2>1, <2>2
<1> QED  BY <1>1, <1>2

\* A broadcast adds its message to the links of the sender and nothing else.
LEMMA BroadcastChannels ==
  ASSUME NEW q \in Channels, NEW n \in Nodes, NEW m \in Messages
  PROVE  /\ Broadcast(q, n, m) \in Channels
         /\ \A k \in Links : k[1] # n => OnLink(Broadcast(q, n, m), k) = OnLink(q, k)
         /\ \A k \in Links : OnLink(Broadcast(q, n, m), k) \subseteq OnLink(q, k) \cup {m}
<1>1. Broadcast(q, n, m) \in Channels
  BY DEF Broadcast, Channels
<1>2. ASSUME NEW k \in Links, k[1] # n
      PROVE  OnLink(Broadcast(q, n, m), k) = OnLink(q, k)
  BY <1>2 DEF Broadcast, OnLink
<1>3. ASSUME NEW k \in Links
      PROVE  OnLink(Broadcast(q, n, m), k) \subseteq OnLink(q, k) \cup {m}
  <2>1. CASE k[1] = n
    <3>1. q[k] \in Seq(Messages) /\ Broadcast(q, n, m)[k] = Append(q[k], m)
      BY <2>1 DEF Broadcast, Channels
    <3> QED  BY <3>1 DEF OnLink
  <2> QED  BY <1>2, <2>1
<1> QED  BY <1>1, <1>2, <1>3

\* A send adds its message to the end of one link.
LEMMA SendToChannels ==
  ASSUME NEW q \in Channels, NEW l \in Links, NEW m \in Messages
  PROVE  /\ SendTo(q, l, m) \in Channels
         /\ \A k \in Links : k # l => OnLink(SendTo(q, l, m), k) = OnLink(q, k)
         /\ OnLink(SendTo(q, l, m), l) \subseteq OnLink(q, l) \cup {m}
<1>1. SendTo(q, l, m) \in Channels
  BY DEF SendTo, Channels
<1>2. ASSUME NEW k \in Links, k # l PROVE OnLink(SendTo(q, l, m), k) = OnLink(q, k)
  BY <1>2 DEF SendTo, OnLink, Channels
<1>3. OnLink(SendTo(q, l, m), l) \subseteq OnLink(q, l) \cup {m}
  <2>1. q[l] \in Seq(Messages) /\ SendTo(q, l, m)[l] = Append(q[l], m)
    BY DEF SendTo, Channels
  <2> QED  BY <2>1 DEF OnLink
<1> QED  BY <1>1, <1>2, <1>3

-----------------------------------------------------------------------------
(* Records and messages                                                     *)

\* The operations of PhaseData map records to records.
LEMMA VoteTypes ==
  ASSUME NEW ph \in PhaseRecord, NEW n \in Nodes, NEW v \in StateValue
  PROVE  /\ add_round1_vote(ph, n, v) \in PhaseRecord
         /\ add_round2_vote(ph, n, v) \in PhaseRecord
BY DEF PhaseRecord, add_round1_vote, add_round2_vote, Votes, OptValue

\* set_decision maps records to records.
LEMMA DecisionTypes ==
  ASSUME NEW ph \in PhaseRecord, NEW v \in StateValue
  PROVE  set_decision(ph, v) \in PhaseRecord
BY DEF PhaseRecord, set_decision, OptValue

\* So do the updates of propose_batch, handle_propose and handle_decision.
LEMMA RecordTypes ==
  ASSUME NEW ph \in PhaseRecord, NEW v \in StateValue, NEW b \in OptBatch
  PROVE  /\ [ph EXCEPT !.proposed_value = v, !.batch = b] \in PhaseRecord
         /\ [ph EXCEPT !.proposed_value = OrElse(@, v), !.batch = OrElse(@, b)] \in PhaseRecord
         /\ [set_decision(ph, v) EXCEPT !.batch = OrElse(@, b)] \in PhaseRecord
BY DEF PhaseRecord, set_decision, OrElse, OptValue, OptBatch

\* count_votes answers with a StateValue or None.
LEMMA CountVotesType ==
  ASSUME NEW votes, NEW q
  PROVE  count_votes(votes, q) \in OptValue
BY DEF count_votes, OptValue, StateValue

\* The record map a node starts with.
LEMMA FreshPhasesType == FreshPhases \in [Phases -> PhaseRecord \cup {None}]
<1>1. NewPhaseData \in PhaseRecord
  BY DEF NewPhaseData, PhaseRecord, Votes, OptValue, OptBatch
<1> QED  BY <1>1 DEF FreshPhases

\* The message constructors build protocol messages.
LEMMA MessageTypes ==
  /\ \A p \in Phases, v \in StateValue, b \in Batches : Propose(p, v, b) \in Messages
  /\ \A p \in Phases, v \in StateValue : VoteRound1(p, v) \in Messages
  /\ \A p \in Phases, v \in StateValue, e \in BOOLEAN : VoteRound2(p, v, e) \in Messages
  /\ \A p \in Phases, v \in StateValue, b \in OptBatch : Decision(p, v, b) \in Messages
  /\ \A p \in PhaseIds : SyncRequest(p) \in Messages
  /\ \A p \in PhaseIds, s \in Snapshots : SyncResponse(p, s) \in Messages
BY DEF Messages, Propose, VoteRound1, VoteRound2, Decision, SyncRequest, SyncResponse

\* What the type of a message says about its fields.
LEMMA MessageFields ==
  ASSUME NEW m \in Messages
  PROVE  /\ m.type = "Propose" => m.phase \in Phases /\ m.value \in StateValue /\ m.batch \in Batches
         /\ m.type = "VoteRound1" => m.phase \in Phases /\ m.vote \in StateValue
         /\ m.type = "VoteRound2" => m.phase \in Phases /\ m.vote \in StateValue
         /\ m.type = "Decision" => m.phase \in Phases /\ m.decision \in StateValue /\ m.batch \in OptBatch
         /\ m.type = "SyncRequest" => m.phase \in PhaseIds
         /\ m.type = "SyncResponse" => m.phase \in PhaseIds /\ m.snapshot \in Snapshots
BY DEF Messages

-----------------------------------------------------------------------------
(* Types                                                                    *)

\* The states after initialize are well typed.
LEMMA TypeInit == Init => TypeOK
<1> SUFFICES ASSUME Init PROVE TypeOK
  OBVIOUS
<1>1. 0 \in PhaseIds
  BY EngineAssumption DEF PhaseIds
<1>2. active_nodes \in [Nodes -> SUBSET Nodes]
  BY EngineAssumption DEF Init
<1>3. budget \in Budget
  BY EngineAssumption DEF Init
<1>4. net \in [Links -> Seq(Messages)]
  BY DEF Init
<1>5. sync_responses \in [Nodes -> [Nodes -> Response \cup {None}]]
  BY DEF Init, NoResponses
<1> QED
  BY <1>1, <1>2, <1>3, <1>4, <1>5, FreshPhasesType DEF Init, TypeOK

\* update_phase with a record keeps the type of phases.
LEMMA UpdatePhaseType ==
  ASSUME TypeOK, NEW n \in Nodes, NEW p \in Phases, NEW ph,
         phases[n][p] # None => ph \in PhaseRecord, update_phase(n, p, ph)
  PROVE  phases' \in [Nodes -> [Phases -> PhaseRecord \cup {None}]]
BY DEF TypeOK, update_phase

\* Channels is the type TypeOK gives to net.
LEMMA NetChannels == TypeOK <=> TypeOK /\ net \in Channels
BY DEF TypeOK, Channels

\* process_batch_request, with propose_batch, keeps the types.
LEMMA TypeProcess ==
  ASSUME TypeOK, NEW n \in Nodes, NEW b \in Batches, process_batch_request(n, b)
  PROVE  TypeOK'
<1>0. /\ submitted' = submitted \cup {b}
      /\ UNCHANGED <<last_committed_phase, sync_responses, active_nodes,
                     state_machine, persisted, cast, budget>>
  BY DEF process_batch_request
<1>1. CASE UNCHANGED <<current_phase, pending_batches, phases, net, proposals>>
  BY <1>0, <1>1 DEF TypeOK
<1>2. CASE ~UNCHANGED <<current_phase, pending_batches, phases, net, proposals>>
  <2> DEFINE p  == current_phase[n] + 1
             ph == [phases[n][p] EXCEPT !.proposed_value = "V1", !.batch = b]
  <2>0. /\ current_phase[n] < MaxPhase
        /\ pending_batches' = [pending_batches EXCEPT ![n] = @ \cup {b}]
        /\ current_phase' = [current_phase EXCEPT ![n] = p]
        /\ update_phase(n, p, ph)
        /\ net' = Broadcast(net, n, Propose(p, "V1", b))
        /\ proposals' = proposals \cup {<<n, p, b>>}
    BY <1>2 DEF process_batch_request
  <2>1. p \in Phases /\ p \in PhaseIds
    BY <2>0, EngineAssumption DEF TypeOK, Phases, PhaseIds
  <2>2. phases' \in [Nodes -> [Phases -> PhaseRecord \cup {None}]]
    <3>1. "V1" \in StateValue /\ b \in OptBatch
      BY DEF StateValue, OptBatch
    <3>2. phases[n][p] # None => phases[n][p] \in PhaseRecord
      BY <2>1 DEF TypeOK
    <3>3. phases[n][p] # None => ph \in PhaseRecord
      BY <3>1, <3>2, RecordTypes
    <3> QED  BY <2>0, <2>1, <3>3, UpdatePhaseType
  <2>3. net' \in Channels
    <3>1. Propose(p, "V1", b) \in Messages
      BY <2>1, MessageTypes DEF StateValue
    <3> QED  BY <2>0, <3>1, BroadcastChannels, NetChannels
  <2>4. proposals' \in SUBSET (Nodes \X Phases \X Batches)
    BY <2>0, <2>1 DEF TypeOK
  <2>5. current_phase' \in [Nodes -> PhaseIds]
    BY <2>0, <2>1 DEF TypeOK
  <2>6. pending_batches' \in [Nodes -> SUBSET Batches]
    BY <2>0 DEF TypeOK
  <2> QED
    BY <1>0, <2>2, <2>3, <2>4, <2>5, <2>6 DEF TypeOK, Channels
<1> QED  BY <1>1, <1>2

\* What is left of a bound stays a natural number.
LEMMA BudgetType ==
  ASSUME TypeOK
  PROVE  /\ budget.forced > 0 => [budget EXCEPT !.forced = @ - 1] \in Budget
         /\ budget.syncs > 0 => [budget EXCEPT !.syncs = @ - 1] \in Budget
         /\ budget.cleanups > 0 => [budget EXCEPT !.cleanups = @ - 1] \in Budget
         /\ budget.restarts > 0 => [budget EXCEPT !.restarts = @ - 1] \in Budget
         /\ budget.lost > 0 => [budget EXCEPT !.lost = @ - 1] \in Budget
<1>1. budget \in Budget
  BY DEF TypeOK
<1> QED  BY <1>1 DEF Budget

\* ForcePhaseAdvance keeps the types.
LEMMA TypeForce ==
  ASSUME TypeOK, NEW n \in Nodes, advance_to_next_phase(n)
  PROVE  TypeOK'
<1>1. current_phase[n] + 1 \in PhaseIds
  BY EngineAssumption DEF TypeOK, advance_to_next_phase, PhaseIds
<1>2. current_phase' \in [Nodes -> PhaseIds] /\ budget' \in Budget
  BY <1>1, BudgetType DEF TypeOK, advance_to_next_phase
<1> QED  BY <1>2 DEF TypeOK, advance_to_next_phase

\* TriggerSync keeps the types.
LEMMA TypeInitiateSync ==
  ASSUME TypeOK, NEW n \in Nodes, initiate_sync(n)
  PROVE  TypeOK'
<1>1. SyncRequest(current_phase[n]) \in Messages
  BY MessageTypes DEF TypeOK
<1>2. net' \in [Links -> Seq(Messages)] /\ budget' \in Budget
  BY <1>1, BudgetType DEF TypeOK, initiate_sync
<1> QED  BY <1>2 DEF TypeOK, initiate_sync

\* handle_propose keeps the types.
LEMMA TypeHandlePropose ==
  ASSUME TypeOK, NEW src \in Nodes, NEW n \in Nodes, src # n, net[<<src, n>>] # <<>>,
         NEW m \in Messages, handle_propose(src, n, m)
  PROVE  TypeOK'
<1> DEFINE q == Taken(<<src, n>>)
           p == m.phase
           new == [phases[n][p] EXCEPT !.proposed_value = OrElse(@, m.value),
                                       !.batch = OrElse(@, m.batch)]
<1>1. <<src, n>> \in Links /\ <<n, src>> \in Links
  BY DEF Links
<1>2. q \in Channels
  BY <1>1, TakenChannels, NetChannels
<1>3. m.type = "Propose" /\ p \in Phases /\ m.value \in StateValue /\ m.batch \in Batches
  BY MessageFields DEF handle_propose
<1>4. UNCHANGED <<current_phase, last_committed_phase, sync_responses, active_nodes,
                  state_machine, persisted, submitted, proposals, cast, budget>>
  BY DEF handle_propose
<1>5. CASE ~(validate(m) /\ has_quorum(n))
  <2>1. net' = q /\ UNCHANGED <<pending_batches, phases>>
    BY <1>5 DEF handle_propose
  <2> QED  BY <1>2, <1>4, <2>1 DEF TypeOK, Channels
<1>6. CASE validate(m) /\ has_quorum(n)
  <2>1. PICK vote \in determine_round1_vote(phases[n][p], m.value) :
          net' = SendTo(q, <<n, src>>, VoteRound1(p, vote))
    BY <1>6 DEF handle_propose
  <2>2. /\ pending_batches' = [pending_batches EXCEPT ![n] = @ \cup {m.batch}]
        /\ update_phase(n, p, new)
    BY <1>6 DEF handle_propose
  <2>3. vote \in StateValue
    BY <1>3, <2>1 DEF determine_round1_vote, randomized_vote, StateValue
  <2>4. net' \in Channels
    BY <1>1, <1>2, <1>3, <2>1, <2>3, MessageTypes, SendToChannels
  <2>5. phases' \in [Nodes -> [Phases -> PhaseRecord \cup {None}]]
    <3>1. phases[n][p] # None => phases[n][p] \in PhaseRecord
      BY <1>3 DEF TypeOK
    <3>2. phases[n][p] # None => new \in PhaseRecord
      BY <1>3, <3>1, RecordTypes DEF OptBatch
    <3> QED  BY <1>3, <2>2, <3>2, UpdatePhaseType
  <2>6. pending_batches' \in [Nodes -> SUBSET Batches]
    BY <1>3, <2>2 DEF TypeOK
  <2> QED  BY <1>4, <2>4, <2>5, <2>6 DEF TypeOK, Channels
<1> QED  BY <1>5, <1>6

\* What proceed_to_round2 does to the record and the channels.
LEMMA TypeProceed ==
  ASSUME TypeOK, NEW n \in Nodes, NEW p \in Phases, NEW ph \in PhaseRecord,
         NEW r \in StateValue, NEW q \in Channels, proceed_to_round2(n, p, ph, r, q)
  PROVE  /\ phases' \in [Nodes -> [Phases -> PhaseRecord \cup {None}]]
         /\ net' \in Channels
         /\ cast' \in SUBSET (Nodes \X Phases \X StateValue)
<1>1. PICK v \in round2_votes_after(r) :
        /\ update_phase(n, p, add_round2_vote(ph, n, v))
        /\ net' = Broadcast(q, n, VoteRound2(p, v, Voters(ph.round1_votes) = {}))
        /\ cast' = cast \cup {<<n, p, v>>}
  BY DEF proceed_to_round2
<1>2. v \in StateValue
  BY <1>1 DEF round2_votes_after, determine_round2_vote_for_question, StateValue
<1>3. VoteRound2(p, v, Voters(ph.round1_votes) = {}) \in Messages
  BY <1>2, MessageTypes
<1>4. cast' \in SUBSET (Nodes \X Phases \X StateValue)
  BY <1>1, <1>2 DEF TypeOK
<1> QED
  BY <1>1, <1>2, <1>3, <1>4, VoteTypes, UpdatePhaseType, BroadcastChannels

\* handle_vote_round1 keeps the types.
LEMMA TypeHandleVoteRound1 ==
  ASSUME TypeOK, NEW src \in Nodes, NEW n \in Nodes, src # n, net[<<src, n>>] # <<>>,
         NEW m \in Messages, handle_vote_round1(src, n, m)
  PROVE  TypeOK'
<1> DEFINE q   == Taken(<<src, n>>)
           p   == m.phase
           ph  == add_round1_vote(phases[n][p], src, m.vote)
           maj == has_round1_majority(ph, quorum_size)
<1>1. q \in Channels
  <2>1. <<src, n>> \in Links
    BY DEF Links
  <2> QED  BY <2>1, TakenChannels, NetChannels
<1>2. m.type = "VoteRound1" /\ p \in Phases /\ m.vote \in StateValue
  BY MessageFields DEF handle_vote_round1
<1>3. UNCHANGED <<current_phase, last_committed_phase, pending_batches, sync_responses,
                  active_nodes, state_machine, persisted, submitted, proposals, budget>>
  BY DEF handle_vote_round1
<1>4. /\ phases' \in [Nodes -> [Phases -> PhaseRecord \cup {None}]] /\ net' \in Channels
      /\ cast' \in SUBSET (Nodes \X Phases \X StateValue)
  <2>1. CASE phases[n][p] = None
    BY <1>1, <2>1 DEF handle_vote_round1, TypeOK
  <2>2. CASE phases[n][p] # None
    <3>1. phases[n][p] \in PhaseRecord
      BY <1>2, <2>2 DEF TypeOK
    <3>2. ph \in PhaseRecord
      BY <1>2, <3>1, VoteTypes
    <3>3. \/ maj # None /\ proceed_to_round2(n, p, ph, maj, q)
          \/ proceed_to_round2(n, p, ph, "VQuestion", q)
          \/ update_phase(n, p, ph) /\ net' = q /\ UNCHANGED cast
      BY <2>2 DEF handle_vote_round1
    <3>4. maj # None => maj \in StateValue
      BY CountVotesType DEF has_round1_majority, OptValue
    <3>5. "VQuestion" \in StateValue
      BY DEF StateValue
    <3>6. cast \in SUBSET (Nodes \X Phases \X StateValue)
      BY DEF TypeOK
    <3> QED  BY <1>1, <1>2, <3>2, <3>3, <3>4, <3>5, <3>6, TypeProceed, UpdatePhaseType
  <2> QED  BY <2>1, <2>2
<1> QED  BY <1>3, <1>4 DEF TypeOK, Channels

\* apply_batch, commit_phase and save_state keep the types.
LEMMA TypeApplyAndCommit ==
  ASSUME TypeOK, NEW n \in Nodes, NEW p \in Phases, NEW b \in Batches,
         ApplyAndCommit(n, p, b)
  PROVE  /\ state_machine' \in [Nodes -> Seq(Batches)]
         /\ pending_batches' \in [Nodes -> SUBSET Batches]
         /\ last_committed_phase' \in [Nodes -> PhaseIds]
         /\ persisted' \in [Nodes -> Saved \cup {None}]
<1>1. state_machine' \in [Nodes -> Seq(Batches)]
  BY DEF ApplyAndCommit, TypeOK
<1>2. pending_batches' \in [Nodes -> SUBSET Batches]
  BY ZenonT(60) DEF ApplyAndCommit, TypeOK
<1>3. last_committed_phase' \in [Nodes -> PhaseIds]
  <2>1. p \in PhaseIds
    BY EngineAssumption DEF Phases, PhaseIds
  <2> QED  BY <2>1 DEF ApplyAndCommit, commit_phase, TypeOK
<1>4. persisted' \in [Nodes -> Saved \cup {None}]
  <2>1. save_state(n) \/ UNCHANGED persisted
    BY DEF ApplyAndCommit
  <2>2. CASE UNCHANGED persisted
    BY <2>2 DEF TypeOK
  <2>3. CASE persisted' = [persisted EXCEPT ![n] =
                             [current_phase        |-> current_phase[n],
                              last_committed_phase |-> last_committed_phase'[n],
                              snapshot             |-> state_machine'[n]]]
    <3>1. [current_phase        |-> current_phase[n],
           last_committed_phase |-> last_committed_phase'[n],
           snapshot             |-> state_machine'[n]] \in Saved
      BY <1>1, <1>3 DEF Saved, TypeOK
    <3> QED  BY <2>3, <3>1 DEF TypeOK
  <2> QED  BY <2>1, <2>2, <2>3 DEF save_state
<1> QED  BY <1>1, <1>2, <1>3, <1>4

\* make_decision keeps the types.
LEMMA TypeMakeDecision ==
  ASSUME TypeOK, NEW n \in Nodes, NEW p \in Phases, NEW ph \in PhaseRecord,
         NEW d \in StateValue, NEW q \in Channels, make_decision(n, p, ph, d, q)
  PROVE  /\ phases' \in [Nodes -> [Phases -> PhaseRecord \cup {None}]]
         /\ net' \in Channels
         /\ state_machine' \in [Nodes -> Seq(Batches)]
         /\ pending_batches' \in [Nodes -> SUBSET Batches]
         /\ last_committed_phase' \in [Nodes -> PhaseIds]
         /\ persisted' \in [Nodes -> Saved \cup {None}]
<1>1. ph.batch \in OptBatch
  BY DEF PhaseRecord
<1>2. phases' \in [Nodes -> [Phases -> PhaseRecord \cup {None}]]
  <2>1. update_phase(n, p, set_decision(ph, d))
    BY DEF make_decision
  <2> QED  BY <2>1, DecisionTypes, UpdatePhaseType
<1>3. net' \in Channels
  <2>1. net' = q \/ net' = Broadcast(q, n, Decision(p, d, ph.batch))
    BY DEF make_decision
  <2> QED  BY <1>1, <2>1, MessageTypes, BroadcastChannels
<1>4. \/ ph.batch # None /\ ApplyAndCommit(n, p, ph.batch)
      \/ UNCHANGED <<state_machine, pending_batches, last_committed_phase, persisted>>
  BY DEF make_decision
<1>5. CASE ph.batch # None /\ ApplyAndCommit(n, p, ph.batch)
  <2>1. ph.batch \in Batches
    BY <1>1, <1>5 DEF OptBatch
  <2> QED  BY <1>2, <1>3, <1>5, <2>1, TypeApplyAndCommit
<1>6. CASE UNCHANGED <<state_machine, pending_batches, last_committed_phase, persisted>>
  BY <1>2, <1>3, <1>6 DEF TypeOK
<1> QED  BY <1>4, <1>5, <1>6

\* handle_vote_round2 keeps the types.
LEMMA TypeHandleVoteRound2 ==
  ASSUME TypeOK, NEW src \in Nodes, NEW n \in Nodes, src # n, net[<<src, n>>] # <<>>,
         NEW m \in Messages, handle_vote_round2(src, n, m)
  PROVE  TypeOK'
<1> DEFINE q  == Taken(<<src, n>>)
           p  == m.phase
           ph == add_round2_vote(phases[n][p], src, m.vote)
           d  == has_round2_majority(ph, quorum_size)
<1>1. q \in Channels
  <2>1. <<src, n>> \in Links
    BY DEF Links
  <2> QED  BY <2>1, TakenChannels, NetChannels
<1>2. m.type = "VoteRound2" /\ p \in Phases /\ m.vote \in StateValue
  BY MessageFields DEF handle_vote_round2
<1>3. UNCHANGED <<current_phase, sync_responses, active_nodes, submitted, proposals, cast, budget>>
  BY DEF handle_vote_round2
<1>4. \/ /\ net' = q
         /\ UNCHANGED <<phases, state_machine, pending_batches, last_committed_phase, persisted>>
      \/ phases[n][p] # None /\ d # None /\ make_decision(n, p, ph, d, q)
      \/ /\ phases[n][p] # None /\ update_phase(n, p, ph) /\ net' = q
         /\ UNCHANGED <<state_machine, pending_batches, last_committed_phase, persisted>>
  BY DEF handle_vote_round2
<1>5. phases[n][p] # None => ph \in PhaseRecord
  BY <1>2, VoteTypes DEF TypeOK
<1>6. d # None => d \in StateValue
  BY CountVotesType DEF has_round2_majority, OptValue
<1>7. CASE /\ net' = q
           /\ UNCHANGED <<phases, state_machine, pending_batches, last_committed_phase, persisted>>
  BY <1>1, <1>3, <1>7 DEF TypeOK, Channels
<1>8. CASE phases[n][p] # None /\ d # None /\ make_decision(n, p, ph, d, q)
  <2>1. /\ phases' \in [Nodes -> [Phases -> PhaseRecord \cup {None}]]
        /\ net' \in Channels
        /\ state_machine' \in [Nodes -> Seq(Batches)]
        /\ pending_batches' \in [Nodes -> SUBSET Batches]
        /\ last_committed_phase' \in [Nodes -> PhaseIds]
        /\ persisted' \in [Nodes -> Saved \cup {None}]
    BY <1>1, <1>2, <1>5, <1>6, <1>8, TypeMakeDecision
  <2> QED  BY <1>3, <2>1 DEF TypeOK, Channels
<1>9. CASE /\ phases[n][p] # None /\ update_phase(n, p, ph) /\ net' = q
           /\ UNCHANGED <<state_machine, pending_batches, last_committed_phase, persisted>>
  <2>1. phases' \in [Nodes -> [Phases -> PhaseRecord \cup {None}]]
    BY <1>2, <1>5, <1>9, UpdatePhaseType
  <2> QED  BY <1>1, <1>3, <1>9, <2>1 DEF TypeOK, Channels
<1> QED  BY <1>4, <1>7, <1>8, <1>9

\* handle_decision keeps the types.
LEMMA TypeHandleDecision ==
  ASSUME TypeOK, NEW src \in Nodes, NEW n \in Nodes, src # n, net[<<src, n>>] # <<>>,
         NEW m \in Messages, handle_decision(src, n, m)
  PROVE  TypeOK'
<1> DEFINE p   == m.phase
           new == [set_decision(phases[n][p], m.decision) EXCEPT !.batch = OrElse(@, m.batch)]
<1>1. net' \in Channels
  <2>1. <<src, n>> \in Links
    BY DEF Links
  <2> QED  BY <2>1, TakenChannels, NetChannels DEF handle_decision
<1>2. p \in Phases /\ m.decision \in StateValue /\ m.batch \in OptBatch
  BY MessageFields DEF handle_decision
<1>3. UNCHANGED <<current_phase, sync_responses, active_nodes, submitted, proposals, cast, budget>>
  BY DEF handle_decision
<1>4. phases' \in [Nodes -> [Phases -> PhaseRecord \cup {None}]]
  <2>1. UNCHANGED phases \/ update_phase(n, p, new)
    BY DEF handle_decision
  <2>2. phases[n][p] # None => phases[n][p] \in PhaseRecord
    BY <1>2 DEF TypeOK
  <2>3. phases[n][p] # None => new \in PhaseRecord
    BY <1>2, <2>2, RecordTypes
  <2>4. CASE UNCHANGED phases
    BY <2>4 DEF TypeOK
  <2> QED  BY <1>2, <2>1, <2>3, <2>4, UpdatePhaseType
<1>5. \/ m.batch # None /\ ApplyAndCommit(n, p, m.batch)
      \/ UNCHANGED <<state_machine, pending_batches, last_committed_phase, persisted>>
  BY DEF handle_decision
<1>6. CASE m.batch # None /\ ApplyAndCommit(n, p, m.batch)
  <2>1. m.batch \in Batches
    BY <1>2, <1>6 DEF OptBatch
  <2>2. /\ state_machine' \in [Nodes -> Seq(Batches)]
        /\ pending_batches' \in [Nodes -> SUBSET Batches]
        /\ last_committed_phase' \in [Nodes -> PhaseIds]
        /\ persisted' \in [Nodes -> Saved \cup {None}]
    BY <1>2, <1>6, <2>1, TypeApplyAndCommit
  <2> QED  BY <1>1, <1>3, <1>4, <2>2 DEF TypeOK, Channels
<1>7. CASE UNCHANGED <<state_machine, pending_batches, last_committed_phase, persisted>>
  BY <1>1, <1>3, <1>4, <1>7 DEF TypeOK, Channels
<1> QED  BY <1>5, <1>6, <1>7

\* handle_sync_request keeps the types.
LEMMA TypeHandleSyncRequest ==
  ASSUME TypeOK, NEW src \in Nodes, NEW n \in Nodes, src # n, net[<<src, n>>] # <<>>,
         NEW m \in Messages, handle_sync_request(src, n, m)
  PROVE  TypeOK'
<1> DEFINE snapshot == IF current_phase[n] > m.phase THEN state_machine[n] ELSE None
<1>1. <<src, n>> \in Links /\ <<n, src>> \in Links
  BY DEF Links
<1>2. SyncResponse(current_phase[n], snapshot) \in Messages
  <2>1. snapshot \in Snapshots
    BY DEF TypeOK, Snapshots
  <2> QED  BY <2>1, MessageTypes DEF TypeOK
<1>3. net' = SendTo(Taken(<<src, n>>), <<n, src>>, SyncResponse(current_phase[n], snapshot))
  BY DEF handle_sync_request
<1>4. net' \in Channels
  BY <1>1, <1>2, <1>3, TakenChannels, SendToChannels, NetChannels
<1> QED  BY <1>4 DEF handle_sync_request, TypeOK, Channels

\* handle_sync_response, with resolve_sync, keeps the types.
LEMMA TypeHandleSyncResponse ==
  ASSUME TypeOK, NEW src \in Nodes, NEW n \in Nodes, src # n, net[<<src, n>>] # <<>>,
         NEW m \in Messages, handle_sync_response(src, n, m)
  PROVE  TypeOK'
<1> DEFINE responses == [sync_responses[n] EXCEPT
                           ![src] = [phase |-> m.phase, snapshot |-> m.snapshot]]
<1>1. net' \in Channels
  <2>1. <<src, n>> \in Links
    BY DEF Links
  <2> QED  BY <2>1, TakenChannels, NetChannels DEF handle_sync_response
<1>2. responses \in [Nodes -> Response \cup {None}]
  BY MessageFields DEF handle_sync_response, TypeOK, Response
<1>3. NoResponses \in [Nodes -> Response \cup {None}]
  BY DEF NoResponses
<1>4. UNCHANGED <<last_committed_phase, pending_batches, phases, active_nodes,
                  persisted, submitted, proposals, cast, budget>>
  BY DEF handle_sync_response
<1>5. /\ current_phase' \in [Nodes -> PhaseIds]
      /\ state_machine' \in [Nodes -> Seq(Batches)]
      /\ sync_responses' \in [Nodes -> [Nodes -> Response \cup {None}]]
  <2>1. CASE resolve_sync(n, responses)
    <3>1. PICK s \in Voters(responses) :
            /\ current_phase' \in {current_phase, [current_phase EXCEPT ![n] = responses[s].phase]}
            /\ \/ UNCHANGED state_machine
               \/ /\ responses[s].snapshot # None
                  /\ state_machine' = [state_machine EXCEPT ![n] = responses[s].snapshot]
            /\ sync_responses' \in {[sync_responses EXCEPT ![n] = NoResponses],
                                    [sync_responses EXCEPT ![n] = responses]}
      BY <2>1 DEF resolve_sync
    <3>2. responses[s] \in Response
      BY <1>2 DEF Voters
    <3>3. responses[s].phase \in PhaseIds
          /\ (responses[s].snapshot # None => responses[s].snapshot \in Seq(Batches))
      BY <3>2 DEF Response, Snapshots
    <3>4. current_phase' \in [Nodes -> PhaseIds]
      BY <3>1, <3>3 DEF TypeOK
    <3>5. state_machine' \in [Nodes -> Seq(Batches)]
      BY <3>1, <3>3 DEF TypeOK
    <3>6. sync_responses' \in [Nodes -> [Nodes -> Response \cup {None}]]
      <4>1. CASE sync_responses' = [sync_responses EXCEPT ![n] = NoResponses]
        BY <1>3, <4>1 DEF TypeOK
      <4>2. CASE sync_responses' = [sync_responses EXCEPT ![n] = responses]
        BY <1>2, <4>2 DEF TypeOK
      <4> QED  BY <3>1, <4>1, <4>2
    <3> QED  BY <3>4, <3>5, <3>6
  <2>2. CASE /\ sync_responses' = [sync_responses EXCEPT ![n] = responses]
             /\ UNCHANGED <<current_phase, state_machine>>
    BY <1>2, <2>2 DEF TypeOK
  <2> QED  BY <2>1, <2>2 DEF handle_sync_response
<1> QED  BY <1>1, <1>4, <1>5 DEF TypeOK, Channels

\* cleanup_old_state keeps the types.
LEMMA TypeCleanup ==
  ASSUME TypeOK, NEW n \in Nodes, cleanup_old_state(n)
  PROVE  TypeOK'
<1>1. phases' \in [Nodes -> [Phases -> PhaseRecord \cup {None}]]
  BY DEF cleanup_old_state, TypeOK
<1>2. pending_batches' \in [Nodes -> SUBSET Batches]
  BY DEF cleanup_old_state, TypeOK
<1>3. budget' \in Budget
  BY BudgetType DEF cleanup_old_state
<1> QED  BY <1>1, <1>2, <1>3 DEF cleanup_old_state, TypeOK

\* A restart, with initialize, keeps the types.
LEMMA TypeRestart ==
  ASSUME TypeOK, NEW n \in Nodes, restart(n)
  PROVE  TypeOK'
<1>1. persisted[n] # None => /\ persisted[n].current_phase \in PhaseIds
                             /\ persisted[n].last_committed_phase \in PhaseIds
                             /\ persisted[n].snapshot \in Seq(Batches)
  BY DEF TypeOK, Saved
<1>2. 0 \in PhaseIds
  BY EngineAssumption DEF PhaseIds
<1>3. /\ current_phase' \in [Nodes -> PhaseIds]
      /\ last_committed_phase' \in [Nodes -> PhaseIds]
      /\ state_machine' \in [Nodes -> Seq(Batches)]
  BY <1>1, <1>2 DEF restart, TypeOK
<1>4. /\ pending_batches' \in [Nodes -> SUBSET Batches]
      /\ phases' \in [Nodes -> [Phases -> PhaseRecord \cup {None}]]
      /\ sync_responses' \in [Nodes -> [Nodes -> Response \cup {None}]]
  BY FreshPhasesType DEF restart, TypeOK, NoResponses
<1>5. active_nodes' \in [Nodes -> SUBSET Nodes]
  BY EngineAssumption DEF restart, TypeOK
<1>6. net' \in [Links -> Seq(Messages)] /\ budget' \in Budget
  BY BudgetType DEF restart, TypeOK
<1> QED  BY <1>3, <1>4, <1>5, <1>6 DEF restart, TypeOK

\* The loss of a message keeps the types.
LEMMA TypeLose ==
  ASSUME TypeOK, NEW l \in Links, lose(l)
  PROVE  TypeOK'
<1>1. net' \in Channels
  BY TakenChannels, NetChannels DEF lose
<1>2. budget' \in Budget
  BY BudgetType DEF lose
<1> QED  BY <1>1, <1>2 DEF lose, TypeOK, Channels

\* The steps of handle_message, with the facts every handler may rely on.
LEMMA MessageStep ==
  ASSUME TypeOK, NEW l \in Links, handle_message(l[1], l[2])
  PROVE  \E src, n \in Nodes, m \in Messages :
           /\ src # n /\ l = <<src, n>> /\ net[<<src, n>>] # <<>>
           /\ m \in OnLink(net, <<src, n>>)
           /\ \/ handle_propose(src, n, m)
              \/ handle_vote_round1(src, n, m)
              \/ handle_vote_round2(src, n, m)
              \/ handle_decision(src, n, m)
              \/ handle_sync_request(src, n, m)
              \/ handle_sync_response(src, n, m)
<1>1. l[1] \in Nodes /\ l[2] \in Nodes /\ l[1] # l[2] /\ l = <<l[1], l[2]>>
  BY DEF Links
<1>2. net[l] # <<>>
  BY <1>1 DEF handle_message
<1>3. Head(net[l]) \in OnLink(net, l) /\ Head(net[l]) \in Messages
  BY <1>2, HeadTail, NetChannels
<1> QED  BY <1>1, <1>2, <1>3 DEF handle_message

\* TypeOK is inductive.
LEMMA TypeNext == TypeOK /\ [Next]_vars => TypeOK'
<1> SUFFICES ASSUME TypeOK, [Next]_vars PROVE TypeOK'
  OBVIOUS
<1>1. CASE UNCHANGED vars
  BY <1>1 DEF vars, TypeOK
<1>2. ASSUME NEW l \in Links, handle_message(l[1], l[2]) PROVE TypeOK'
  BY <1>2, MessageStep, TypeHandlePropose, TypeHandleVoteRound1, TypeHandleVoteRound2,
     TypeHandleDecision, TypeHandleSyncRequest, TypeHandleSyncResponse
<1> QED
  BY <1>1, <1>2, TypeProcess, TypeForce, TypeInitiateSync, TypeCleanup, TypeRestart,
     TypeLose DEF Next

\* Every handler keeps the engine's variables within their Rust types, for
\* every cluster size.
THEOREM TypeCorrect == Spec => []TypeOK
BY TypeInit, TypeNext, PTL DEF Spec

-----------------------------------------------------------------------------
(* Provenance                                                               *)

\* A cluster is finite, so its size and quorum are natural numbers.
LEMMA QuorumType == Cardinality(Nodes) \in Nat /\ quorum_size \in Nat
<1>1. Cardinality(Nodes) \in Nat
  BY PhaseDataAssumption, FS_CardinalityType
<1> QED  BY <1>1 DEF quorum_size

\* A set of nodes at least as large as a set of quorum_size nodes.
LEMMA LargerSet ==
  ASSUME NEW S, NEW T, S \subseteq T, T \subseteq Nodes, Cardinality(S) >= quorum_size
  PROVE  Cardinality(T) >= quorum_size
<1>1. IsFiniteSet(T)
  BY PhaseDataAssumption, FS_Subset
<1>2. IsFiniteSet(S) /\ Cardinality(S) <= Cardinality(T)
  BY <1>1, FS_Subset
<1>3. Cardinality(S) \in Nat /\ Cardinality(T) \in Nat
  BY <1>1, <1>2, FS_CardinalityType
<1> QED  BY <1>2, <1>3, QuorumType

\* proposals only grows, so what is justified stays justified.
LEMMA JustifiedStays ==
  ASSUME proposals \subseteq proposals'
  PROVE  /\ \A p : Proposers(p) \subseteq Proposers(p)'
         /\ \A p : QuorumProposed(p) => QuorumProposed(p)'
         /\ \A log : AllJustified(log) => AllJustified(log)'
         /\ \A l, m : MessageJustified(l, m) => MessageJustified(l, m)'
         /\ \A p, ph : RecordJustified(p, ph) => RecordJustified(p, ph)'
<1>1. ASSUME NEW p PROVE Proposers(p) \subseteq Proposers(p)'
  BY DEF Proposers
<1>2. ASSUME NEW p, QuorumProposed(p) PROVE QuorumProposed(p)'
  <2>1. Proposers(p)' \subseteq Nodes
    BY DEF Proposers
  <2> QED  BY <1>1, <1>2, <2>1, LargerSet DEF QuorumProposed
<1>3. ASSUME NEW p, NEW b, Proposed(p, b) PROVE Proposed(p, b)'
  BY <1>3 DEF Proposed
<1>4. ASSUME NEW b, Justified(b) PROVE Justified(b)'
  BY <1>2, <1>4 DEF Justified, QuorumProposed
<1>5. ASSUME NEW log, AllJustified(log) PROVE AllJustified(log)'
  BY <1>4, <1>5 DEF AllJustified
<1>6. ASSUME NEW l, NEW m, MessageJustified(l, m) PROVE MessageJustified(l, m)'
  BY <1>1, <1>2, <1>3, <1>5, <1>6 DEF MessageJustified
<1>7. ASSUME NEW p, NEW ph, RecordJustified(p, ph) PROVE RecordJustified(p, ph)'
  BY <1>1, <1>2, <1>3, <1>7 DEF RecordJustified
<1> QED  BY <1>1, <1>2, <1>5, <1>6, <1>7

\* A step keeps Provenance if all it adds is justified.
LEMMA ProvenanceFrame ==
  ASSUME Provenance, proposals \subseteq proposals',
         \A l \in Links : \A m \in OnLink(net', l) :
            m \in OnLink(net, l) \/ MessageJustified(l, m)',
         \A n \in Nodes, p \in Phases :
            \/ phases'[n][p] \in {phases[n][p], None}
            \/ RecordJustified(p, phases[n][p])',
         \A n \in Nodes : \/ state_machine'[n] = state_machine[n]
                          \/ AllJustified(state_machine[n])',
         \A n \in Nodes : \/ persisted'[n] = persisted[n]
                          \/ AllJustified(persisted[n].snapshot)',
         \A n \in Nodes : \A s \in Voters(sync_responses'[n]) :
            \/ sync_responses'[n][s] = sync_responses[n][s]
            \/ sync_responses'[n][s].snapshot # None
                 => AllJustified(sync_responses[n][s].snapshot)'
  PROVE  Provenance'
<1>1. \A l \in Links : \A m \in OnLink(net, l)' : MessageJustified(l, m)'
  BY JustifiedStays DEF Provenance, OnLink
<1>2. \A n \in Nodes, p \in Phases :
        phases'[n][p] # None => RecordJustified(p, phases[n][p])'
  BY JustifiedStays DEF Provenance
<1>3. \A n \in Nodes :
       /\ AllJustified(state_machine[n])'
       /\ persisted'[n] # None => AllJustified(persisted[n].snapshot)'
  BY JustifiedStays DEF Provenance
<1>4. \A n \in Nodes : \A s \in Voters(sync_responses'[n]) :
        sync_responses'[n][s].snapshot # None
          => AllJustified(sync_responses[n][s].snapshot)'
  BY JustifiedStays DEF Provenance, Voters
<1> QED  BY <1>1, <1>2, <1>3, <1>4 DEF Provenance

\* The same for a step that proposes nothing, in terms of the current proposals.
LEMMA ProvenanceStep ==
  ASSUME Provenance, UNCHANGED proposals,
         \A l \in Links : \A m \in OnLink(net', l) :
            m \in OnLink(net, l) \/ MessageJustified(l, m),
         \A n \in Nodes, p \in Phases :
            \/ phases'[n][p] \in {phases[n][p], None}
            \/ RecordJustified(p, phases'[n][p]),
         \A n \in Nodes : \/ state_machine'[n] = state_machine[n]
                          \/ AllJustified(state_machine'[n]),
         \A n \in Nodes : \/ persisted'[n] = persisted[n]
                          \/ AllJustified(persisted'[n].snapshot),
         \A n \in Nodes : \A s \in Voters(sync_responses'[n]) :
            \/ sync_responses'[n][s] = sync_responses[n][s]
            \/ sync_responses'[n][s].snapshot # None
                 => AllJustified(sync_responses'[n][s].snapshot)
  PROVE  Provenance'
BY JustifiedStays, ProvenanceFrame

\* update_phase touches one record, with the given value.
LEMMA UpdatePhaseRecords ==
  ASSUME TypeOK, NEW n \in Nodes, NEW p \in Phases, NEW ph, update_phase(n, p, ph)
  PROVE  /\ phases[n][p] = None => phases' = phases
         /\ \A k \in Nodes, r \in Phases :
              \/ phases'[k][r] = phases[k][r]
              \/ k = n /\ r = p /\ phases[n][p] # None /\ phases'[k][r] = ph
BY DEF TypeOK, update_phase

\* Nothing needs a justification after initialize.
LEMMA ProvenanceInit == Init => Provenance
<1> SUFFICES ASSUME Init PROVE Provenance
  OBVIOUS
<1>1. \A l \in Links : OnLink(net, l) = {}
  BY DEF Init, OnLink
<1>2. \A n \in Nodes, p \in Phases : phases[n][p] # None => RecordJustified(p, phases[n][p])
  BY DEF Init, FreshPhases, NewPhaseData, RecordJustified, Voters
<1>3. \A n \in Nodes : AllJustified(state_machine[n]) /\ persisted[n] = None
  BY DEF Init, AllJustified
<1>4. \A n \in Nodes : Voters(sync_responses[n]) = {}
  BY DEF Init, NoResponses, Voters
<1> QED  BY <1>1, <1>2, <1>3, <1>4 DEF Provenance

\* propose_batch adds its own proposal before it broadcasts it.
LEMMA ProvenanceProcess ==
  ASSUME TypeOK, Provenance, NEW n \in Nodes, NEW b \in Batches, process_batch_request(n, b)
  PROVE  Provenance'
<1>0. UNCHANGED <<last_committed_phase, sync_responses, active_nodes,
                  state_machine, persisted, budget>>
  BY DEF process_batch_request
<1>1. CASE UNCHANGED <<current_phase, pending_batches, phases, net, proposals>>
  BY <1>0, <1>1, ProvenanceFrame
<1>2. CASE ~UNCHANGED <<current_phase, pending_batches, phases, net, proposals>>
  <2>p. PICK p : p = current_phase[n] + 1
    OBVIOUS
  <2>ph. PICK ph : ph = [phases[n][p] EXCEPT !.proposed_value = "V1", !.batch = b]
    OBVIOUS
  <2>m. PICK m : m = Propose(p, "V1", b)
    OBVIOUS
  <2>0. /\ current_phase[n] < MaxPhase
        /\ update_phase(n, p, ph)
        /\ net' = Broadcast(net, n, m)
        /\ proposals' = proposals \cup {<<n, p, b>>}
    BY <1>2, <2>p, <2>ph, <2>m DEF process_batch_request
  <2>1. p \in Phases
    BY <2>p, <2>0, EngineAssumption DEF TypeOK, Phases, PhaseIds
  <2>2. \A l \in Links : \A x \in OnLink(net', l) :
           x \in OnLink(net, l) \/ MessageJustified(l, x)'
    <3>1. m \in Messages
      BY <2>m, <2>1, MessageTypes DEF StateValue
    <3>2. ASSUME NEW l \in Links, NEW x \in OnLink(net', l), x \notin OnLink(net, l)
          PROVE  l[1] = n /\ x = m
      BY <2>0, <3>1, <3>2, BroadcastChannels, NetChannels
    <3>3. \A l \in Links : l[1] = n => MessageJustified(l, m)'
      BY <2>m, <2>0 DEF MessageJustified, Propose
    <3> QED  BY <3>2, <3>3
  <2>3. \A k \in Nodes, r \in Phases :
           phases'[k][r] \in {phases[k][r], None} \/ RecordJustified(r, phases[k][r])'
    <3>1. ASSUME phases[n][p] # None PROVE RecordJustified(p, ph)'
      <4>1. phases[n][p] \in PhaseRecord /\ RecordJustified(p, phases[n][p])
        BY <2>1, <3>1 DEF TypeOK, Provenance
      <4>2. /\ ph.batch = b /\ ph.decision = phases[n][p].decision
            /\ ph.round2_votes = phases[n][p].round2_votes
        BY <2>ph, <4>1 DEF PhaseRecord
      <4>3. Proposed(p, b)'
        BY <2>0 DEF Proposed
      <4>4. Proposers(p) \subseteq Proposers(p)' /\ (QuorumProposed(p) => QuorumProposed(p)')
        BY <2>0, JustifiedStays
      <4> QED  BY <4>1, <4>2, <4>3, <4>4 DEF RecordJustified
    <3> QED  BY <2>0, <2>1, <3>1, UpdatePhaseRecords
  <2>4. proposals \subseteq proposals'
    BY <2>0
  <2> QED  BY <1>0, <2>2, <2>3, <2>4, ProvenanceFrame
<1> QED  BY <1>1, <1>2

\* handle_propose sends its vote to the proposer alone.
LEMMA ProvenanceHandlePropose ==
  ASSUME TypeOK, Provenance, NEW src \in Nodes, NEW n \in Nodes, src # n,
         net[<<src, n>>] # <<>>, NEW m \in Messages, m \in OnLink(net, <<src, n>>),
         handle_propose(src, n, m)
  PROVE  Provenance'
<1> DEFINE q == Taken(<<src, n>>)
           p == m.phase
           new == [phases[n][p] EXCEPT !.proposed_value = OrElse(@, m.value),
                                       !.batch = OrElse(@, m.batch)]
<1>1. <<src, n>> \in Links /\ <<n, src>> \in Links
  BY DEF Links
<1>2. q \in Channels /\ \A k \in Links : OnLink(q, k) \subseteq OnLink(net, k)
  BY <1>1, TakenChannels, NetChannels
<1>3. /\ m.type = "Propose" /\ p \in Phases /\ m.value \in StateValue /\ m.batch \in Batches
      /\ <<src, p, m.batch>> \in proposals
  BY <1>1, MessageFields DEF handle_propose, Provenance, MessageJustified
<1>4. UNCHANGED <<sync_responses, state_machine, persisted, proposals>>
  BY DEF handle_propose
<1>5. CASE ~(validate(m) /\ has_quorum(n))
  <2>1. net' = q /\ UNCHANGED phases
    BY <1>5 DEF handle_propose
  <2> QED  BY <1>2, <1>4, <2>1, ProvenanceStep
<1>6. CASE validate(m) /\ has_quorum(n)
  <2>1. PICK vote \in determine_round1_vote(phases[n][p], m.value) :
          net' = SendTo(q, <<n, src>>, VoteRound1(p, vote))
    BY <1>6 DEF handle_propose
  <2>2. update_phase(n, p, new)
    BY <1>6 DEF handle_propose
  <2>3. vote \in StateValue
    BY <1>3, <2>1 DEF determine_round1_vote, randomized_vote, StateValue
  <2>4. \A l \in Links : \A x \in OnLink(net', l) :
           x \in OnLink(net, l) \/ MessageJustified(l, x)
    <3>1. MessageJustified(<<n, src>>, VoteRound1(p, vote))
      BY <1>3 DEF MessageJustified, VoteRound1, Proposers
    <3>2. VoteRound1(p, vote) \in Messages
      BY <1>3, <2>3, MessageTypes
    <3> QED  BY <1>1, <1>2, <2>1, <3>1, <3>2, SendToChannels
  <2>5. \A k \in Nodes, r \in Phases :
           phases'[k][r] \in {phases[k][r], None} \/ RecordJustified(r, phases'[k][r])
    <3>1. ASSUME phases[n][p] # None PROVE RecordJustified(p, new)
      <4>1. phases[n][p] \in PhaseRecord /\ RecordJustified(p, phases[n][p])
        BY <1>3, <3>1 DEF TypeOK, Provenance
      <4>2. /\ new.batch \in {phases[n][p].batch, m.batch}
            /\ new.decision = phases[n][p].decision
            /\ new.round2_votes = phases[n][p].round2_votes
        BY <4>1 DEF PhaseRecord, OrElse
      <4>3. Proposed(p, m.batch)
        BY <1>3 DEF Proposed
      <4> QED  BY <4>1, <4>2, <4>3 DEF RecordJustified
    <3> QED  BY <1>3, <2>2, <3>1, UpdatePhaseRecords
  <2> QED  BY <1>4, <2>4, <2>5, ProvenanceStep
<1> QED  BY <1>5, <1>6

\* Adding a vote of a proposer to a justified record.
LEMMA VoteJustified ==
  ASSUME NEW ph \in PhaseRecord, NEW p \in Phases, NEW v \in StateValue, NEW n \in Nodes,
         RecordJustified(p, ph)
  PROVE  /\ RecordJustified(p, add_round1_vote(ph, n, v))
         /\ n \in Proposers(p) => RecordJustified(p, add_round2_vote(ph, n, v))
<1>1. RecordJustified(p, add_round1_vote(ph, n, v))
  BY DEF RecordJustified, add_round1_vote, PhaseRecord
<1>2. ASSUME n \in Proposers(p) PROVE RecordJustified(p, add_round2_vote(ph, n, v))
  <2> DEFINE new == add_round2_vote(ph, n, v)
  <2>1. /\ new.batch = ph.batch /\ new.decision = ph.decision
        /\ new.round2_votes = [ph.round2_votes EXCEPT ![n] = v]
        /\ ph.round2_votes \in Votes
    BY DEF add_round2_vote, PhaseRecord
  <2>2. Voters(new.round2_votes) \subseteq Voters(ph.round2_votes) \cup {n}
    BY <2>1 DEF Voters, Votes
  <2> QED  BY <1>2, <2>1, <2>2 DEF RecordJustified
<1> QED  BY <1>1, <1>2

\* Only a proposer receives round 1 votes, so only a proposer votes in round 2.
LEMMA ProvenanceHandleVoteRound1 ==
  ASSUME TypeOK, Provenance, NEW src \in Nodes, NEW n \in Nodes, src # n,
         net[<<src, n>>] # <<>>, NEW m \in Messages, m \in OnLink(net, <<src, n>>),
         handle_vote_round1(src, n, m)
  PROVE  Provenance'
<1> DEFINE q  == Taken(<<src, n>>)
           p  == m.phase
           ph == add_round1_vote(phases[n][p], src, m.vote)
<1>1. <<src, n>> \in Links
  BY DEF Links
<1>2. q \in Channels /\ \A k \in Links : OnLink(q, k) \subseteq OnLink(net, k)
  BY <1>1, TakenChannels, NetChannels
<1>3. m.type = "VoteRound1" /\ p \in Phases /\ m.vote \in StateValue /\ n \in Proposers(p)
  BY <1>1, MessageFields DEF handle_vote_round1, Provenance, MessageJustified
<1>4. UNCHANGED <<sync_responses, state_machine, persisted, proposals>>
  BY DEF handle_vote_round1
<1>5. CASE phases[n][p] = None
  <2>1. net' = q /\ UNCHANGED phases
    BY <1>5 DEF handle_vote_round1
  <2> QED  BY <1>2, <1>4, <2>1, ProvenanceStep
<1>6. CASE phases[n][p] # None
  <2>1. phases[n][p] \in PhaseRecord /\ RecordJustified(p, phases[n][p])
    BY <1>3, <1>6 DEF TypeOK, Provenance
  <2>2. ph \in PhaseRecord /\ RecordJustified(p, ph)
    BY <1>3, <2>1, VoteTypes, VoteJustified
  <2>3. \/ update_phase(n, p, ph) /\ net' = q
        \/ \E r \in OptValue : r # None /\ proceed_to_round2(n, p, ph, r, q)
    BY <1>6, CountVotesType, PhaseDataAssumption
       DEF handle_vote_round1, has_round1_majority, OptValue, StateValue
  <2>4. CASE update_phase(n, p, ph) /\ net' = q
    <3>1. \A k \in Nodes, r \in Phases :
             phases'[k][r] \in {phases[k][r], None} \/ RecordJustified(r, phases'[k][r])
      BY <1>3, <2>2, <2>4, UpdatePhaseRecords
    <3> QED  BY <1>2, <1>4, <2>4, <3>1, ProvenanceStep
  <2>5. ASSUME NEW r \in OptValue, r # None, proceed_to_round2(n, p, ph, r, q)
        PROVE  Provenance'
    <3> DEFINE e == Voters(ph.round1_votes) = {}
    <3>1. PICK v \in round2_votes_after(r) :
            /\ update_phase(n, p, add_round2_vote(ph, n, v))
            /\ net' = Broadcast(q, n, VoteRound2(p, v, e))
      BY <2>5 DEF proceed_to_round2
    <3>2. v \in StateValue
      BY <2>5, <3>1 DEF round2_votes_after, determine_round2_vote_for_question,
                        StateValue, OptValue
    <3>3. RecordJustified(p, add_round2_vote(ph, n, v))
      BY <1>3, <2>2, <3>2, VoteJustified
    <3>4. \A k \in Nodes, s \in Phases :
             phases'[k][s] \in {phases[k][s], None} \/ RecordJustified(s, phases'[k][s])
      BY <1>3, <3>1, <3>3, UpdatePhaseRecords
    <3>5. \A l \in Links : l[1] = n => MessageJustified(l, VoteRound2(p, v, e))
      BY <1>3 DEF MessageJustified, VoteRound2
    <3>6. VoteRound2(p, v, e) \in Messages
      BY <1>3, <3>2, MessageTypes
    <3>7. \A l \in Links : \A x \in OnLink(net', l) :
             x \in OnLink(net, l) \/ MessageJustified(l, x)
      BY <1>2, <3>1, <3>5, <3>6, BroadcastChannels
    <3> QED  BY <1>4, <3>4, <3>7, ProvenanceStep
  <2> QED  BY <2>3, <2>4, <2>5
<1> QED  BY <1>5, <1>6

\* A batch of a decided phase is justified, and so is the log it is applied to.
LEMMA AppliedJustified ==
  ASSUME TypeOK, Provenance, NEW n \in Nodes, NEW p \in Phases, NEW b \in Batches,
         QuorumProposed(p), Proposed(p, b), ApplyAndCommit(n, p, b)
  PROVE  /\ \A k \in Nodes : \/ state_machine'[k] = state_machine[k]
                            \/ AllJustified(state_machine'[k])
         /\ \A k \in Nodes : \/ persisted'[k] = persisted[k]
                            \/ AllJustified(persisted'[k].snapshot)
<1>1. Justified(b)
  BY DEF Justified, Proposed, QuorumProposed
<1>2. state_machine[n] \in Seq(Batches) /\ AllJustified(state_machine[n])
  BY DEF TypeOK, Provenance
<1>3. state_machine' = [state_machine EXCEPT ![n] = Append(@, b)]
  BY DEF ApplyAndCommit
<1>4. state_machine'[n] = Append(state_machine[n], b)
  BY <1>3 DEF TypeOK
<1>5. AllJustified(state_machine'[n])
  BY <1>1, <1>2, <1>4 DEF AllJustified
<1>6. \A k \in Nodes : k # n => state_machine'[k] = state_machine[k]
  BY <1>3 DEF TypeOK
<1>7. \/ UNCHANGED persisted
      \/ persisted' = [persisted EXCEPT ![n] =
                          [current_phase        |-> current_phase[n],
                           last_committed_phase |-> last_committed_phase'[n],
                           snapshot             |-> state_machine'[n]]]
  BY DEF ApplyAndCommit, save_state
<1>8. \A k \in Nodes : persisted'[k] = persisted[k] \/ persisted'[k].snapshot = state_machine'[n]
  BY <1>7 DEF TypeOK
<1> QED  BY <1>5, <1>6, <1>8

\* A decision taken on a quorum of round 2 votes has a quorum of proposers.
LEMMA ProvenanceMakeDecision ==
  ASSUME TypeOK, Provenance, NEW n \in Nodes, NEW p \in Phases, NEW ph \in PhaseRecord,
         NEW d \in StateValue, NEW q \in Channels, make_decision(n, p, ph, d, q),
         RecordJustified(p, ph), QuorumProposed(p),
         \A k \in Links : OnLink(q, k) \subseteq OnLink(net, k),
         UNCHANGED <<sync_responses, proposals>>
  PROVE  Provenance'
<1>1. ph.batch \in OptBatch /\ (ph.batch # None => Proposed(p, ph.batch))
  BY DEF PhaseRecord, RecordJustified
<1>2. \A k \in Nodes, r \in Phases :
         phases'[k][r] \in {phases[k][r], None} \/ RecordJustified(r, phases'[k][r])
  <2>1. update_phase(n, p, set_decision(ph, d))
    BY DEF make_decision
  <2>2. RecordJustified(p, set_decision(ph, d))
    BY DEF RecordJustified, set_decision, PhaseRecord
  <2> QED  BY <2>1, <2>2, UpdatePhaseRecords
<1>3. \A l \in Links : \A x \in OnLink(net', l) :
         x \in OnLink(net, l) \/ MessageJustified(l, x)
  <2>1. net' = q \/ net' = Broadcast(q, n, Decision(p, d, ph.batch))
    BY DEF make_decision
  <2>2. \A l \in Links : MessageJustified(l, Decision(p, d, ph.batch))
    BY <1>1 DEF MessageJustified, Decision
  <2>3. Decision(p, d, ph.batch) \in Messages
    BY <1>1, MessageTypes
  <2> QED  BY <2>1, <2>2, <2>3, BroadcastChannels
<1>4. /\ \A k \in Nodes : \/ state_machine'[k] = state_machine[k]
                         \/ AllJustified(state_machine'[k])
      /\ \A k \in Nodes : \/ persisted'[k] = persisted[k]
                         \/ AllJustified(persisted'[k].snapshot)
  <2>1. \/ ph.batch # None /\ ApplyAndCommit(n, p, ph.batch)
        \/ UNCHANGED <<state_machine, persisted>>
    BY DEF make_decision
  <2> QED  BY <1>1, <2>1, AppliedJustified DEF OptBatch
<1> QED  BY <1>2, <1>3, <1>4, ProvenanceStep

\* handle_vote_round2 counts a vote of a proposer.
LEMMA ProvenanceHandleVoteRound2 ==
  ASSUME TypeOK, Provenance, NEW src \in Nodes, NEW n \in Nodes, src # n,
         net[<<src, n>>] # <<>>, NEW m \in Messages, m \in OnLink(net, <<src, n>>),
         handle_vote_round2(src, n, m)
  PROVE  Provenance'
<1> DEFINE q  == Taken(<<src, n>>)
           p  == m.phase
           ph == add_round2_vote(phases[n][p], src, m.vote)
           d  == has_round2_majority(ph, quorum_size)
<1>1. <<src, n>> \in Links
  BY DEF Links
<1>2. q \in Channels /\ \A k \in Links : OnLink(q, k) \subseteq OnLink(net, k)
  BY <1>1, TakenChannels, NetChannels
<1>3. m.type = "VoteRound2" /\ p \in Phases /\ m.vote \in StateValue /\ src \in Proposers(p)
  BY <1>1, MessageFields DEF handle_vote_round2, Provenance, MessageJustified
<1>4. UNCHANGED <<sync_responses, proposals>>
  BY DEF handle_vote_round2
<1>5. \/ net' = q /\ UNCHANGED <<phases, state_machine, persisted>>
      \/ phases[n][p] # None /\ d # None /\ make_decision(n, p, ph, d, q)
      \/ /\ phases[n][p] # None /\ update_phase(n, p, ph) /\ net' = q
         /\ UNCHANGED <<state_machine, persisted>>
  BY DEF handle_vote_round2
<1>6. ASSUME phases[n][p] # None PROVE ph \in PhaseRecord /\ RecordJustified(p, ph)
  <2>1. phases[n][p] \in PhaseRecord /\ RecordJustified(p, phases[n][p])
    BY <1>3, <1>6 DEF TypeOK, Provenance
  <2> QED  BY <1>3, <2>1, VoteTypes, VoteJustified
<1>7. CASE net' = q /\ UNCHANGED <<phases, state_machine, persisted>>
  BY <1>2, <1>4, <1>7, ProvenanceStep
<1>8. CASE phases[n][p] # None /\ d # None /\ make_decision(n, p, ph, d, q)
  <2>1. d \in StateValue
    BY <1>8, CountVotesType DEF has_round2_majority, OptValue
  <2>2. Cardinality(VotersFor(ph.round2_votes, d)) >= quorum_size
    BY <1>8 DEF has_round2_majority, count_votes
  <2>3. VotersFor(ph.round2_votes, d) \subseteq Proposers(p)
    BY <1>6, <1>8 DEF RecordJustified, VotersFor, Voters
  <2>4. QuorumProposed(p)
    <3>1. Proposers(p) \subseteq Nodes
      BY DEF Proposers
    <3> QED  BY <2>2, <2>3, <3>1, LargerSet DEF QuorumProposed
  <2> QED  BY <1>2, <1>3, <1>4, <1>6, <1>8, <2>1, <2>4, ProvenanceMakeDecision
<1>9. CASE /\ phases[n][p] # None /\ update_phase(n, p, ph) /\ net' = q
           /\ UNCHANGED <<state_machine, persisted>>
  <2>1. \A k \in Nodes, r \in Phases :
           phases'[k][r] \in {phases[k][r], None} \/ RecordJustified(r, phases'[k][r])
    BY <1>3, <1>6, <1>9, UpdatePhaseRecords
  <2> QED  BY <1>2, <1>4, <1>9, <2>1, ProvenanceStep
<1> QED  BY <1>5, <1>7, <1>8, <1>9

\* handle_decision repeats a decision that is justified already.
LEMMA ProvenanceHandleDecision ==
  ASSUME TypeOK, Provenance, NEW src \in Nodes, NEW n \in Nodes, src # n,
         net[<<src, n>>] # <<>>, NEW m \in Messages, m \in OnLink(net, <<src, n>>),
         handle_decision(src, n, m)
  PROVE  Provenance'
<1> DEFINE p   == m.phase
           new == [set_decision(phases[n][p], m.decision) EXCEPT !.batch = OrElse(@, m.batch)]
<1>1. <<src, n>> \in Links
  BY DEF Links
<1>2. \A k \in Links : OnLink(net', k) \subseteq OnLink(net, k)
  BY <1>1, TakenChannels, NetChannels DEF handle_decision
<1>3. /\ p \in Phases /\ m.decision \in StateValue /\ m.batch \in OptBatch
      /\ QuorumProposed(p) /\ (m.batch # None => Proposed(p, m.batch))
  BY <1>1, MessageFields DEF handle_decision, Provenance, MessageJustified
<1>4. UNCHANGED <<sync_responses, proposals>>
  BY DEF handle_decision
<1>5. \A k \in Nodes, r \in Phases :
         phases'[k][r] \in {phases[k][r], None} \/ RecordJustified(r, phases'[k][r])
  <2>1. UNCHANGED phases \/ update_phase(n, p, new)
    BY DEF handle_decision
  <2>2. ASSUME phases[n][p] # None PROVE RecordJustified(p, new)
    <3>1. phases[n][p] \in PhaseRecord /\ RecordJustified(p, phases[n][p])
      BY <1>3, <2>2 DEF TypeOK, Provenance
    <3>2. /\ new.batch \in {phases[n][p].batch, m.batch}
          /\ new.round2_votes = phases[n][p].round2_votes
      BY <3>1 DEF PhaseRecord, set_decision, OrElse
    <3> QED  BY <1>3, <3>1, <3>2 DEF RecordJustified
  <2> QED  BY <1>3, <2>1, <2>2, UpdatePhaseRecords
<1>6. /\ \A k \in Nodes : \/ state_machine'[k] = state_machine[k]
                         \/ AllJustified(state_machine'[k])
      /\ \A k \in Nodes : \/ persisted'[k] = persisted[k]
                         \/ AllJustified(persisted'[k].snapshot)
  <2>1. \/ m.batch # None /\ ApplyAndCommit(n, p, m.batch)
        \/ UNCHANGED <<state_machine, persisted>>
    BY DEF handle_decision
  <2> QED  BY <1>3, <2>1, AppliedJustified DEF OptBatch
<1> QED  BY <1>2, <1>4, <1>5, <1>6, ProvenanceStep

\* A sync copies a justified state machine.
LEMMA ProvenanceSync ==
  ASSUME TypeOK, Provenance, NEW src \in Nodes, NEW n \in Nodes, src # n,
         net[<<src, n>>] # <<>>, NEW m \in Messages, m \in OnLink(net, <<src, n>>),
         handle_sync_request(src, n, m) \/ handle_sync_response(src, n, m)
  PROVE  Provenance'
<1>1. <<src, n>> \in Links /\ <<n, src>> \in Links
  BY DEF Links
<1>2. /\ Taken(<<src, n>>) \in Channels
      /\ \A k \in Links : OnLink(Taken(<<src, n>>), k) \subseteq OnLink(net, k)
  BY <1>1, TakenChannels, NetChannels
<1>3. CASE handle_sync_request(src, n, m)
  <2> DEFINE snapshot == IF current_phase[n] > m.phase THEN state_machine[n] ELSE None
             x        == SyncResponse(current_phase[n], snapshot)
  <2>1. snapshot # None => AllJustified(snapshot)
    BY DEF Provenance
  <2>2. MessageJustified(<<n, src>>, x)
    BY <2>1 DEF MessageJustified, SyncResponse
  <2>3. x \in Messages
    <3>1. snapshot \in Snapshots
      BY DEF TypeOK, Snapshots
    <3> QED  BY <3>1, MessageTypes DEF TypeOK
  <2>4. net' = SendTo(Taken(<<src, n>>), <<n, src>>, x)
    BY <1>3 DEF handle_sync_request
  <2>5. \A l \in Links : \A y \in OnLink(net', l) :
           y \in OnLink(net, l) \/ MessageJustified(l, y)
    BY <1>1, <1>2, <2>2, <2>3, <2>4, SendToChannels
  <2>6. UNCHANGED <<phases, sync_responses, state_machine, persisted, proposals>>
    BY <1>3 DEF handle_sync_request
  <2> QED  BY <2>5, <2>6, ProvenanceStep
<1>4. CASE handle_sync_response(src, n, m)
  <2> DEFINE responses == [sync_responses[n] EXCEPT
                             ![src] = [phase |-> m.phase, snapshot |-> m.snapshot]]
  <2>1. net' = Taken(<<src, n>>) /\ UNCHANGED <<phases, persisted, proposals>>
    BY <1>4 DEF handle_sync_response
  <2>2. m.snapshot # None => AllJustified(m.snapshot)
    BY <1>1, <1>4 DEF handle_sync_response, Provenance, MessageJustified
  <2>3. ASSUME NEW s \in Voters(responses), responses[s].snapshot # None
        PROVE  AllJustified(responses[s].snapshot)
    <3>1. s \in Nodes /\ responses[s] # None
      BY DEF Voters
    <3>2. sync_responses[n] \in [Nodes -> Response \cup {None}]
      BY DEF TypeOK
    <3>3. CASE s = src
      BY <2>2, <2>3, <3>2, <3>3
    <3>4. CASE s # src
      <4>1. responses[s] = sync_responses[n][s] /\ s \in Voters(sync_responses[n])
        BY <3>1, <3>2, <3>4 DEF Voters
      <4> QED  BY <2>3, <4>1 DEF Provenance
    <3> QED  BY <3>3, <3>4
  <2>4. /\ \/ UNCHANGED state_machine
           \/ \E s \in Voters(responses) :
                /\ responses[s].snapshot # None
                /\ state_machine' = [state_machine EXCEPT ![n] = responses[s].snapshot]
        /\ \/ sync_responses' = [sync_responses EXCEPT ![n] = NoResponses]
           \/ sync_responses' = [sync_responses EXCEPT ![n] = responses]
    BY <1>4 DEF handle_sync_response, resolve_sync
  <2>5. \A k \in Nodes : \/ state_machine'[k] = state_machine[k]
                         \/ AllJustified(state_machine'[k])
    BY <2>3, <2>4 DEF TypeOK
  <2>6. \A k \in Nodes : \A s \in Voters(sync_responses'[k]) :
           \/ sync_responses'[k][s] = sync_responses[k][s]
           \/ sync_responses'[k][s].snapshot # None
                => AllJustified(sync_responses'[k][s].snapshot)
    <3>1. \A k \in Nodes : k # n => sync_responses'[k] = sync_responses[k]
      BY <2>4 DEF TypeOK
    <3>2. sync_responses'[n] = NoResponses \/ sync_responses'[n] = responses
      BY <2>4 DEF TypeOK
    <3>3. Voters(NoResponses) = {}
      BY DEF Voters, NoResponses
    <3> QED  BY <2>3, <3>1, <3>2, <3>3
  <2> QED  BY <1>2, <2>1, <2>5, <2>6, ProvenanceStep
<1> QED  BY <1>3, <1>4

\* Timers, restarts and losses add nothing that needs a justification.
LEMMA ProvenanceOther ==
  ASSUME TypeOK, Provenance,
         \/ \E n \in Nodes : \/ advance_to_next_phase(n) \/ initiate_sync(n)
                              \/ cleanup_old_state(n) \/ restart(n)
         \/ \E l \in Links : lose(l)
  PROVE  Provenance'
<1>1. ASSUME NEW n \in Nodes, advance_to_next_phase(n) PROVE Provenance'
  <2>1. UNCHANGED <<phases, sync_responses, state_machine, persisted, net, proposals>>
    BY <1>1 DEF advance_to_next_phase
  <2> QED  BY <2>1, ProvenanceStep
<1>2. ASSUME NEW n \in Nodes, initiate_sync(n) PROVE Provenance'
  <2> DEFINE x == SyncRequest(current_phase[n])
  <2>1. UNCHANGED <<phases, sync_responses, state_machine, persisted, proposals>>
    BY <1>2 DEF initiate_sync
  <2>2. \A l \in Links : MessageJustified(l, x)
    BY DEF MessageJustified, SyncRequest
  <2>3. \A l \in Links : net'[l] = net[l] \/ net'[l] = Append(net[l], x)
    BY <1>2 DEF initiate_sync
  <2>4. \A l \in Links : net[l] \in Seq(Messages)
    BY DEF TypeOK
  <2>5. \A l \in Links : OnLink(net', l) \subseteq OnLink(net, l) \cup {x}
    BY <2>3, <2>4, SMTT(30) DEF OnLink
  <2> QED  BY <2>1, <2>2, <2>5, ProvenanceStep
<1>3. ASSUME NEW n \in Nodes, cleanup_old_state(n) PROVE Provenance'
  <2>1. UNCHANGED <<sync_responses, state_machine, persisted, net, proposals>>
    BY <1>3 DEF cleanup_old_state
  <2>2. \A k \in Nodes, r \in Phases : phases'[k][r] \in {phases[k][r], None}
    BY <1>3 DEF cleanup_old_state, TypeOK
  <2> QED  BY <2>1, <2>2, ProvenanceStep
<1>4. ASSUME NEW n \in Nodes, restart(n) PROVE Provenance'
  <2>1. UNCHANGED <<persisted, proposals>>
    BY <1>4 DEF restart
  <2>2. \A l \in Links : OnLink(net', l) \subseteq OnLink(net, l)
    BY <1>4 DEF restart, OnLink
  <2>3. \A k \in Nodes, r \in Phases :
           phases'[k][r] \in {phases[k][r], None} \/ RecordJustified(r, phases'[k][r])
    <3>1. \A k \in Nodes, r \in Phases :
             phases'[k][r] \in {phases[k][r], None, NewPhaseData}
      BY <1>4 DEF restart, TypeOK, FreshPhases
    <3>2. \A r : RecordJustified(r, NewPhaseData)
      BY DEF RecordJustified, NewPhaseData, Voters
    <3> QED  BY <3>1, <3>2
  <2>4. \A k \in Nodes : \/ state_machine'[k] = state_machine[k]
                         \/ AllJustified(state_machine'[k])
    <3>1. AllJustified(<<>>)
      BY DEF AllJustified
    <3>2. \A k \in Nodes : \/ state_machine'[k] = state_machine[k]
                           \/ state_machine'[k] = <<>>
                           \/ persisted[k] # None /\ state_machine'[k] = persisted[k].snapshot
      BY <1>4 DEF restart, TypeOK
    <3> QED  BY <3>1, <3>2 DEF Provenance
  <2>5. \A k \in Nodes : sync_responses'[k] \in {sync_responses[k], NoResponses}
    BY <1>4 DEF restart, TypeOK
  <2>6. Voters(NoResponses) = {}
    BY DEF Voters, NoResponses
  <2> QED  BY <2>1, <2>2, <2>3, <2>4, <2>5, <2>6, ProvenanceStep
<1>5. ASSUME NEW l \in Links, lose(l) PROVE Provenance'
  <2>1. UNCHANGED <<phases, sync_responses, state_machine, persisted, proposals>>
    BY <1>5 DEF lose
  <2>2. \A k \in Links : OnLink(net', k) \subseteq OnLink(net, k)
    BY <1>5, TakenChannels, NetChannels DEF lose
  <2> QED  BY <2>1, <2>2, ProvenanceStep
<1> QED  BY <1>1, <1>2, <1>3, <1>4, <1>5

\* Provenance is inductive, given the types.
LEMMA ProvenanceNext == TypeOK /\ Provenance /\ [Next]_vars => Provenance'
<1> SUFFICES ASSUME TypeOK, Provenance, [Next]_vars PROVE Provenance'
  OBVIOUS
<1>1. CASE UNCHANGED vars
  BY <1>1, ProvenanceStep DEF vars
<1>2. ASSUME NEW l \in Links, handle_message(l[1], l[2]) PROVE Provenance'
  BY <1>2, MessageStep, ProvenanceHandlePropose, ProvenanceHandleVoteRound1,
     ProvenanceHandleVoteRound2, ProvenanceHandleDecision, ProvenanceSync
<1> QED
  BY <1>1, <1>2, ProvenanceProcess, ProvenanceOther DEF Next

\* Everything on the way to a decision stems from proposals: the inductive
\* invariant behind the next two theorems.
THEOREM ProvenanceCorrect == Spec => []Provenance
BY TypeCorrect, ProvenanceInit, ProvenanceNext, PTL DEF Spec

\* In a cluster of any size, under any loss and any crashes, no phase is
\* decided unless a quorum of nodes ran propose_batch with that phase id.
THEOREM DecidedByProposersCorrect == Spec => []DecidedByProposers
<1>1. Provenance => DecidedByProposers
  BY DEF Provenance, DecidedByProposers, Decided, RecordJustified, QuorumProposed
<1> QED  BY <1>1, ProvenanceCorrect, PTL

\* apply_batch, restore_snapshot and initialize never put a batch into a state
\* machine that was not proposed in a phase with a quorum of proposers.
THEOREM AppliedWasProposedCorrect == Spec => []AppliedWasProposed
<1>1. Provenance => AppliedWasProposed
  BY DEF Provenance, AppliedWasProposed, AllJustified
<1> QED  BY <1>1, ProvenanceCorrect, PTL

-----------------------------------------------------------------------------
(* The phase counters                                                       *)

\* apply_batch, commit_phase and save_state leave the counters in order.
LEMMA CommitCounters ==
  ASSUME TypeOK, CommittedWithinCurrent, NEW n \in Nodes, NEW p \in Phases,
         NEW b \in Batches, ApplyAndCommit(n, p, b), UNCHANGED current_phase
  PROVE  CommittedWithinCurrent'
<1>1. /\ current_phase \in [Nodes -> Int] /\ last_committed_phase \in [Nodes -> Int]
      /\ \A k \in Nodes : persisted[k] # None =>
             persisted[k].current_phase \in Int /\ persisted[k].last_committed_phase \in Int
  BY EngineAssumption DEF TypeOK, PhaseIds, Saved
<1>2. p \in Int
  BY DEF Phases
<1>3. CASE UNCHANGED <<last_committed_phase, persisted>>
  BY <1>3 DEF CommittedWithinCurrent
<1>4. CASE MayCommit(n, p) /\ commit_phase(n, p) /\ save_state(n)
  <2>1. /\ \A k \in Nodes : last_committed_phase[k] <= last_committed_phase'[k]
        /\ \A k \in Nodes : last_committed_phase'[k] <= current_phase'[k]
        /\ last_committed_phase' \in [Nodes -> Int]
    BY <1>1, <1>2, <1>4 DEF MayCommit, commit_phase, CommittedWithinCurrent
  <2>2. ASSUME NEW k \in Nodes, persisted'[k] # None
        PROVE  /\ persisted'[k].last_committed_phase <= persisted'[k].current_phase
               /\ persisted'[k].last_committed_phase <= last_committed_phase'[k]
    <3>1. CASE persisted'[k] = persisted[k]
      BY <1>1, <2>1, <2>2, <3>1 DEF CommittedWithinCurrent
    <3>2. CASE persisted'[k] # persisted[k]
      <4>1. k = n /\ persisted'[k] = [current_phase        |-> current_phase[n],
                                      last_committed_phase |-> last_committed_phase'[n],
                                      snapshot             |-> state_machine'[n]]
        BY <1>4, <3>2 DEF save_state, TypeOK
      <4> QED  BY <1>1, <2>1, <4>1
    <3> QED  BY <3>1, <3>2
  <2> QED  BY <2>1, <2>2 DEF CommittedWithinCurrent
<1> QED  BY <1>3, <1>4 DEF ApplyAndCommit

\* The order of the two phase counters is inductive, given the types.
LEMMA CountersNext ==
  TypeOK /\ CommittedWithinCurrent /\ [Next]_vars => CommittedWithinCurrent'
<1> SUFFICES ASSUME TypeOK, CommittedWithinCurrent, [Next]_vars
             PROVE  CommittedWithinCurrent'
  OBVIOUS
<1>1. /\ current_phase \in [Nodes -> Int] /\ last_committed_phase \in [Nodes -> Int]
      /\ \A k \in Nodes : persisted[k] # None =>
             persisted[k].current_phase \in Int /\ persisted[k].last_committed_phase \in Int
  BY EngineAssumption DEF TypeOK, PhaseIds, Saved
\* A step that only lets current phases grow.
<1>2. ASSUME UNCHANGED <<last_committed_phase, persisted>>,
             current_phase' \in [Nodes -> Int],
             \A n \in Nodes : current_phase[n] <= current_phase'[n]
      PROVE  CommittedWithinCurrent'
  BY <1>1, <1>2 DEF CommittedWithinCurrent
<1>3. ASSUME NEW n \in Nodes, NEW b \in Batches, process_batch_request(n, b)
      PROVE  CommittedWithinCurrent'
  <2>1. \/ UNCHANGED current_phase
        \/ current_phase' = [current_phase EXCEPT ![n] = current_phase[n] + 1]
    BY <1>3 DEF process_batch_request
  <2>2. UNCHANGED <<last_committed_phase, persisted>>
    BY <1>3 DEF process_batch_request
  <2> QED  BY <1>1, <1>2, <2>1, <2>2
<1>4. ASSUME NEW n \in Nodes, advance_to_next_phase(n) PROVE CommittedWithinCurrent'
  BY <1>1, <1>2, <1>4 DEF advance_to_next_phase
<1>5. ASSUME NEW n \in Nodes, initiate_sync(n) \/ cleanup_old_state(n)
      PROVE  CommittedWithinCurrent'
  BY <1>1, <1>2, <1>5 DEF initiate_sync, cleanup_old_state
<1>6. ASSUME NEW n \in Nodes, restart(n) PROVE CommittedWithinCurrent'
  <2>1. \A k \in Nodes :
          \/ /\ current_phase'[k] = current_phase[k]
             /\ last_committed_phase'[k] = last_committed_phase[k]
          \/ persisted[k] = None /\ current_phase'[k] = 0 /\ last_committed_phase'[k] = 0
          \/ /\ persisted[k] # None
             /\ current_phase'[k] = persisted[k].current_phase
             /\ last_committed_phase'[k] = persisted[k].last_committed_phase
    BY <1>1, <1>6 DEF restart
  <2>2. UNCHANGED persisted
    BY <1>6 DEF restart
  <2> QED  BY <1>1, <2>1, <2>2 DEF CommittedWithinCurrent
<1>7. ASSUME NEW l \in Links, lose(l) PROVE CommittedWithinCurrent'
  BY <1>1, <1>2, <1>7 DEF lose
<1>8. ASSUME NEW l \in Links, handle_message(l[1], l[2]) PROVE CommittedWithinCurrent'
  <2>1. PICK src \in Nodes, n \in Nodes, m \in Messages :
           \/ handle_propose(src, n, m)
           \/ handle_vote_round1(src, n, m)
           \/ handle_vote_round2(src, n, m)
           \/ handle_decision(src, n, m)
           \/ handle_sync_request(src, n, m)
           \/ handle_sync_response(src, n, m)
    BY <1>8, MessageStep
  <2>2. CASE \/ handle_propose(src, n, m) \/ handle_vote_round1(src, n, m)
             \/ handle_sync_request(src, n, m)
    <3>1. UNCHANGED <<current_phase, last_committed_phase, persisted>>
      BY <2>2 DEF handle_propose, handle_vote_round1, handle_sync_request
    <3> QED  BY <1>1, <1>2, <3>1
  <2>3. CASE handle_vote_round2(src, n, m)
    <3> DEFINE ph == add_round2_vote(phases[n][m.phase], src, m.vote)
    <3>1. m.phase \in Phases /\ m.vote \in StateValue /\ UNCHANGED current_phase
      BY <2>3, MessageFields DEF handle_vote_round2
    <3>2. \/ UNCHANGED <<last_committed_phase, persisted>>
          \/ /\ phases[n][m.phase] # None /\ ph.batch # None
             /\ ApplyAndCommit(n, m.phase, ph.batch)
      BY <2>3 DEF handle_vote_round2, make_decision
    <3>3. phases[n][m.phase] # None => ph.batch \in OptBatch
      <4>1. phases[n][m.phase] # None => phases[n][m.phase] \in PhaseRecord
        BY <3>1 DEF TypeOK
      <4>2. phases[n][m.phase] # None => ph \in PhaseRecord
        BY <3>1, <4>1, VoteTypes
      <4> QED  BY <4>2 DEF PhaseRecord
    <3>4. CASE UNCHANGED <<last_committed_phase, persisted>>
      BY <1>1, <1>2, <3>1, <3>4
    <3> QED  BY <3>1, <3>2, <3>3, <3>4, CommitCounters DEF OptBatch
  <2>4. CASE handle_decision(src, n, m)
    <3>1. m.phase \in Phases /\ m.batch \in OptBatch /\ UNCHANGED current_phase
      BY <2>4, MessageFields DEF handle_decision
    <3>2. \/ UNCHANGED <<last_committed_phase, persisted>>
          \/ m.batch # None /\ ApplyAndCommit(n, m.phase, m.batch)
      BY <2>4 DEF handle_decision
    <3>3. CASE UNCHANGED <<last_committed_phase, persisted>>
      BY <1>1, <1>2, <3>1, <3>3
    <3> QED  BY <3>1, <3>2, <3>3, CommitCounters DEF OptBatch
  <2>5. CASE handle_sync_response(src, n, m)
    <3>1. UNCHANGED <<last_committed_phase, persisted>>
      BY <2>5 DEF handle_sync_response
    <3>2. \/ UNCHANGED current_phase
          \/ \E r : r > current_phase[n] /\ current_phase' = [current_phase EXCEPT ![n] = r]
      BY <2>5 DEF handle_sync_response, resolve_sync
    <3>3. current_phase' \in [Nodes -> Int]
      <4>1. TypeOK'
        BY <1>8, TypeNext DEF Next
      <4> QED  BY <4>1, EngineAssumption DEF TypeOK, PhaseIds
    <3> QED  BY <1>1, <1>2, <3>1, <3>2, <3>3
  <2> QED  BY <2>1, <2>2, <2>3, <2>4, <2>5
<1>9. CASE UNCHANGED vars
  BY <1>1, <1>2, <1>9 DEF vars
<1> QED
  BY <1>3, <1>4, <1>5, <1>6, <1>7, <1>8, <1>9 DEF Next

\* The committed phase never passes the current phase, in memory or on disk:
\* commit_phase, initialize and resolve_sync together keep what the validation
\* of heartbeats demands.
THEOREM CommittedWithinCurrentCorrect == Spec => []CommittedWithinCurrent
<1>1. Init => CommittedWithinCurrent
  BY DEF Init, CommittedWithinCurrent
<1> QED  BY <1>1, TypeCorrect, CountersNext, PTL DEF Spec

-----------------------------------------------------------------------------
(* The program as it stands: no phase has a record                          *)

\* What keeps the engine inert: there are no records, no Decision is on its
\* way, and every snapshot that travels is the initial state.
InertInv ==
  /\ Inert
  /\ \A n \in Nodes, p \in Phases : phases[n][p] = None
  /\ \A l \in Links : \A m \in OnLink(net, l) :
       m.type # "Decision" /\ (m.type = "SyncResponse" => m.snapshot \in {None, <<>>})
  /\ \A n \in Nodes : \A s \in Voters(sync_responses[n]) :
       sync_responses[n][s].snapshot \in {None, <<>>}

\* A step keeps the engine inert if it creates no record, applies nothing and
\* sends neither a Decision nor a snapshot of anything.
LEMMA InertStep ==
  ASSUME InertInv, UNCHANGED <<last_committed_phase, persisted>>,
         \A n \in Nodes, p \in Phases : phases'[n][p] = None,
         \A n \in Nodes : state_machine'[n] = <<>>,
         \A l \in Links : \A m \in OnLink(net', l) :
           \/ m \in OnLink(net, l)
           \/ m.type # "Decision" /\ (m.type = "SyncResponse" => m.snapshot \in {None, <<>>}),
         \A n \in Nodes : \A s \in Voters(sync_responses'[n]) :
           sync_responses'[n][s].snapshot \in {None, <<>>}
  PROVE  InertInv'
<1>1. Inert'
  BY DEF InertInv, Inert, Decided
<1>2. \A l \in Links : \A m \in OnLink(net, l)' :
        m.type # "Decision" /\ (m.type = "SyncResponse" => m.snapshot \in {None, <<>>})
  BY DEF InertInv, OnLink
<1> QED  BY <1>1, <1>2 DEF InertInv, OnLink

\* Without records InertInv is inductive, given the types.
LEMMA InertNext ==
  ASSUME Recorded = {}
  PROVE  TypeOK /\ InertInv /\ [Next]_vars => InertInv'
<1> SUFFICES ASSUME TypeOK, InertInv, [Next]_vars PROVE InertInv'
  OBVIOUS
<1>1. /\ \A n \in Nodes, p \in Phases : phases[n][p] = None
      /\ \A n \in Nodes : state_machine[n] = <<>> /\ persisted[n] = None
                        /\ last_committed_phase[n] = 0
      /\ \A n \in Nodes : \A s \in Voters(sync_responses[n]) :
           sync_responses[n][s].snapshot \in {None, <<>>}
  BY DEF InertInv, Inert
<1>2. ASSUME NEW n \in Nodes, NEW b \in Batches, process_batch_request(n, b)
      PROVE  InertInv'
  <2>1. UNCHANGED <<last_committed_phase, persisted, state_machine, sync_responses>>
    BY <1>2 DEF process_batch_request
  <2>2. \/ UNCHANGED <<phases, net>>
        \/ \E p : /\ current_phase[n] < MaxPhase /\ p = current_phase[n] + 1
                  /\ phases' = IF phases[n][p] = None THEN phases
                               ELSE [phases EXCEPT ![n][p] =
                                      [phases[n][p] EXCEPT !.proposed_value = "V1", !.batch = b]]
                  /\ net' = Broadcast(net, n, Propose(p, "V1", b))
    BY <1>2 DEF process_batch_request, update_phase
  <2>3. CASE UNCHANGED <<phases, net>>
    BY <1>1, <2>1, <2>3, InertStep
  <2>4. ASSUME NEW p, current_phase[n] < MaxPhase, p = current_phase[n] + 1,
               phases' = IF phases[n][p] = None THEN phases
                         ELSE [phases EXCEPT ![n][p] =
                                [phases[n][p] EXCEPT !.proposed_value = "V1", !.batch = b]],
               net' = Broadcast(net, n, Propose(p, "V1", b))
        PROVE  InertInv'
    <3>1. p \in Phases
      BY <2>4, EngineAssumption DEF TypeOK, Phases, PhaseIds
    <3>2. UNCHANGED phases
      BY <1>1, <2>4, <3>1
    <3>3. Propose(p, "V1", b) \in Messages /\ Propose(p, "V1", b).type = "Propose"
      BY <3>1, MessageTypes DEF StateValue, Propose
    <3>4. \A l \in Links : OnLink(net', l) \subseteq OnLink(net, l) \cup {Propose(p, "V1", b)}
      BY <2>4, <3>3, BroadcastChannels, NetChannels
    <3> QED  BY <1>1, <2>1, <3>2, <3>3, <3>4, InertStep
  <2> QED  BY <2>2, <2>3, <2>4
<1>3. ASSUME NEW n \in Nodes, advance_to_next_phase(n) PROVE InertInv'
  <2>1. UNCHANGED <<last_committed_phase, persisted, state_machine, sync_responses, phases, net>>
    BY <1>3 DEF advance_to_next_phase
  <2> QED  BY <1>1, <2>1, InertStep
<1>4. ASSUME NEW n \in Nodes, initiate_sync(n) PROVE InertInv'
  <2> DEFINE x == SyncRequest(current_phase[n])
  <2>1. UNCHANGED <<last_committed_phase, persisted, state_machine, sync_responses, phases>>
    BY <1>4 DEF initiate_sync
  <2>2. \A l \in Links : net'[l] = net[l] \/ net'[l] = Append(net[l], x)
    BY <1>4 DEF initiate_sync
  <2>3. \A l \in Links : net[l] \in Seq(Messages)
    BY DEF TypeOK
  <2>4. \A l \in Links : OnLink(net', l) \subseteq OnLink(net, l) \cup {x}
    BY <2>2, <2>3 DEF OnLink
  <2>5. x.type = "SyncRequest"
    BY DEF SyncRequest
  <2> QED  BY <1>1, <2>1, <2>4, <2>5, InertStep
<1>5. ASSUME NEW n \in Nodes, cleanup_old_state(n) PROVE InertInv'
  <2>1. UNCHANGED <<last_committed_phase, persisted, state_machine, sync_responses, net>>
    BY <1>5 DEF cleanup_old_state
  <2>2. \A k \in Nodes, p \in Phases : phases'[k][p] = None
    BY <1>1, <1>5 DEF cleanup_old_state, TypeOK
  <2> QED  BY <1>1, <2>1, <2>2, InertStep
<1>6. ASSUME NEW n \in Nodes, restart(n) PROVE InertInv'
  <2>1. UNCHANGED <<last_committed_phase, persisted>>
    BY <1>1, <1>6 DEF restart, TypeOK
  <2>2. \A k \in Nodes : state_machine'[k] = <<>>
    BY <1>1, <1>6 DEF restart, TypeOK
  <2>3. \A k \in Nodes, p \in Phases : phases'[k][p] = None
    BY <1>1, <1>6 DEF restart, TypeOK, FreshPhases
  <2>4. \A l \in Links : OnLink(net', l) \subseteq OnLink(net, l)
    BY <1>6 DEF restart, OnLink
  <2>5. \A k \in Nodes : sync_responses'[k] \in {sync_responses[k], NoResponses}
    BY <1>6 DEF restart, TypeOK
  <2>6. Voters(NoResponses) = {}
    BY DEF Voters, NoResponses
  <2> QED  BY <1>1, <2>1, <2>2, <2>3, <2>4, <2>5, <2>6, InertStep
<1>7. ASSUME NEW l \in Links, lose(l) PROVE InertInv'
  <2>1. UNCHANGED <<last_committed_phase, persisted, state_machine, sync_responses, phases>>
    BY <1>7 DEF lose
  <2>2. \A k \in Links : OnLink(net', k) \subseteq OnLink(net, k)
    BY <1>7, TakenChannels, NetChannels DEF lose
  <2> QED  BY <1>1, <2>1, <2>2, InertStep
<1>8. ASSUME NEW l \in Links, handle_message(l[1], l[2]) PROVE InertInv'
  <2>1. PICK src \in Nodes, n \in Nodes, m \in Messages :
           /\ src # n /\ net[<<src, n>>] # <<>> /\ m \in OnLink(net, <<src, n>>)
           /\ \/ handle_propose(src, n, m)
              \/ handle_vote_round1(src, n, m)
              \/ handle_vote_round2(src, n, m)
              \/ handle_decision(src, n, m)
              \/ handle_sync_request(src, n, m)
              \/ handle_sync_response(src, n, m)
    BY <1>8, MessageStep
  <2> DEFINE q == Taken(<<src, n>>)
  <2>2. <<src, n>> \in Links /\ <<n, src>> \in Links
    BY <2>1 DEF Links
  <2>3. q \in Channels /\ \A k \in Links : OnLink(q, k) \subseteq OnLink(net, k)
    BY <2>1, <2>2, TakenChannels, NetChannels
  <2>4. m.type # "Decision" /\ (m.type = "SyncResponse" => m.snapshot \in {None, <<>>})
    BY <2>1, <2>2 DEF InertInv
  \* A reply that is neither a Decision nor a snapshot of anything.
  <2>5. ASSUME NEW x \in Messages, net' = SendTo(q, <<n, src>>, x), x.type # "Decision",
               x.type = "SyncResponse" => x.snapshot \in {None, <<>>},
               UNCHANGED <<phases, last_committed_phase, persisted, state_machine, sync_responses>>
        PROVE  InertInv'
    <3>1. \A k \in Links : OnLink(net', k) \subseteq OnLink(net, k) \cup {x}
      BY <2>2, <2>3, <2>5, SendToChannels
    <3> QED  BY <1>1, <2>5, <3>1, InertStep
  <2>6. ASSUME net' = q, UNCHANGED <<phases, last_committed_phase, persisted,
                                     state_machine, sync_responses>>
        PROVE  InertInv'
    BY <1>1, <2>3, <2>6, InertStep
  <2>7. CASE handle_propose(src, n, m)
    <3>1. m.phase \in Phases /\ m.value \in StateValue
      BY <2>7, MessageFields DEF handle_propose
    <3>2. UNCHANGED <<phases, last_committed_phase, persisted, state_machine, sync_responses>>
      BY <1>1, <2>7, <3>1 DEF handle_propose, update_phase
    <3>3. \/ net' = q
          \/ \E v \in determine_round1_vote(phases[n][m.phase], m.value) :
               net' = SendTo(q, <<n, src>>, VoteRound1(m.phase, v))
      BY <2>7 DEF handle_propose
    <3>4. determine_round1_vote(phases[n][m.phase], m.value) \subseteq StateValue
      BY <3>1 DEF determine_round1_vote, randomized_vote, StateValue
    <3>5. \A v \in StateValue : /\ VoteRound1(m.phase, v) \in Messages
                                /\ VoteRound1(m.phase, v).type = "VoteRound1"
      BY <3>1, MessageTypes DEF VoteRound1
    <3> QED  BY <2>5, <2>6, <3>2, <3>3, <3>4, <3>5
  <2>8. CASE handle_vote_round1(src, n, m)
    <3>1. phases[n][m.phase] = None
      BY <1>1, <2>8, MessageFields DEF handle_vote_round1
    <3> QED  BY <2>6, <2>8, <3>1 DEF handle_vote_round1
  <2>9. CASE handle_vote_round2(src, n, m)
    <3>1. phases[n][m.phase] = None
      BY <1>1, <2>9, MessageFields DEF handle_vote_round2
    <3> QED  BY <2>6, <2>9, <3>1 DEF handle_vote_round2
  <2>10. CASE handle_decision(src, n, m)
    BY <2>4, <2>10 DEF handle_decision
  <2>11. CASE handle_sync_request(src, n, m)
    <3> DEFINE snapshot == IF current_phase[n] > m.phase THEN state_machine[n] ELSE None
               x        == SyncResponse(current_phase[n], snapshot)
    <3>1. snapshot \in {None, <<>>} /\ snapshot \in Snapshots
      <4>1. state_machine[n] = <<>>
        BY <1>1
      <4>2. state_machine[n] \in Seq(Batches)
        BY DEF TypeOK
      <4> QED  BY <4>1, <4>2 DEF Snapshots
    <3>2. x \in Messages
      BY <3>1, MessageTypes DEF TypeOK
    <3>3. x.type = "SyncResponse" /\ x.snapshot \in {None, <<>>}
      BY <3>1 DEF SyncResponse
    <3>4. net' = SendTo(q, <<n, src>>, x)
      BY <2>11 DEF handle_sync_request
    <3>5. UNCHANGED <<phases, last_committed_phase, persisted, state_machine, sync_responses>>
      BY <2>11 DEF handle_sync_request
    <3> QED  BY <2>5, <3>2, <3>3, <3>4, <3>5
  <2>12. CASE handle_sync_response(src, n, m)
    <3> DEFINE responses == [sync_responses[n] EXCEPT
                               ![src] = [phase |-> m.phase, snapshot |-> m.snapshot]]
    <3>1. net' = q /\ UNCHANGED <<phases, last_committed_phase, persisted>>
      BY <2>12 DEF handle_sync_response
    <3>2. \A s \in Voters(responses) : responses[s].snapshot \in {None, <<>>}
      <4>1. m.snapshot \in {None, <<>>}
        BY <2>4, <2>12 DEF handle_sync_response
      <4>2. sync_responses[n] \in [Nodes -> Response \cup {None}]
        BY DEF TypeOK
      <4> QED  BY <1>1, <4>1, <4>2 DEF Voters
    <3>3. /\ \/ UNCHANGED state_machine
             \/ \E s \in Voters(responses) :
                  /\ responses[s].snapshot # None
                  /\ state_machine' = [state_machine EXCEPT ![n] = responses[s].snapshot]
          /\ \/ sync_responses' = [sync_responses EXCEPT ![n] = NoResponses]
             \/ sync_responses' = [sync_responses EXCEPT ![n] = responses]
      BY <2>12 DEF handle_sync_response, resolve_sync
    <3>4. \A k \in Nodes : state_machine'[k] = <<>>
      BY <1>1, <3>2, <3>3, ZenonT(60) DEF TypeOK
    <3>5. /\ \A k \in Nodes : k # n => sync_responses'[k] = sync_responses[k]
          /\ sync_responses'[n] = NoResponses \/ sync_responses'[n] = responses
      BY <3>3 DEF TypeOK
    <3>6. Voters(NoResponses) = {}
      BY DEF Voters, NoResponses
    <3>7. \A k \in Nodes : \A s \in Voters(sync_responses'[k]) :
             sync_responses'[k][s].snapshot \in {None, <<>>}
      BY <1>1, <3>2, <3>5, <3>6
    <3> QED  BY <1>1, <2>3, <3>1, <3>4, <3>7, InertStep
  <2> QED  BY <2>1, <2>7, <2>8, <2>9, <2>10, <2>11, <2>12
<1>9. CASE UNCHANGED vars
  BY <1>1, <1>9, InertStep DEF vars
<1> QED
  BY <1>2, <1>3, <1>4, <1>5, <1>6, <1>7, <1>8, <1>9 DEF Next

\* With get_or_create_phase never called, no cluster of any size ever decides,
\* applies, commits or saves anything.
THEOREM InertCorrect ==
  ASSUME Recorded = {}
  PROVE  Spec => []Inert
<1>1. Init => InertInv
  <2> SUFFICES ASSUME Init PROVE InertInv
    OBVIOUS
  <2>1. \A n \in Nodes, p \in Phases : phases[n][p] = None
    BY DEF Init, FreshPhases
  <2>2. \A l \in Links : OnLink(net, l) = {}
    BY DEF Init, OnLink
  <2>3. \A n \in Nodes : Voters(sync_responses[n]) = {}
    BY DEF Init, NoResponses, Voters
  <2>4. Inert
    BY <2>1 DEF Init, Inert, Decided
  <2> QED  BY <2>1, <2>2, <2>3, <2>4 DEF InertInv
<1>2. InertInv => Inert
  BY DEF InertInv
<1>3. TypeOK /\ InertInv /\ [Next]_vars => InertInv'
  BY InertNext
<1> QED  BY <1>1, <1>2, <1>3, TypeCorrect, PTL DEF Spec
-----------------------------------------------------------------------------
(***************************************************************************)
(* Agreement of the engine cluster: the nodes that decide a phase decide   *)
(* the same value and keep it.  It holds for clusters in which a quorum is *)
(* all the others (up to four nodes) and in which no node is restarted,    *)
(* whatever is lost, forgotten, skipped by ForcePhaseAdvance or            *)
(* synchronized.                                                           *)
(*                                                                         *)
(* No counter keeps a node from casting two round 2 votes in a phase: the  *)
(* code runs proceed_to_round2 whenever a round 1 vote completes or        *)
(* exceeds a quorum.  What prevents it is the number of round 1 votes: a   *)
(* node proposes a phase once, another node answers a proposal once, and a *)
(* quorum needs the answers of all the others.                             *)
(***************************************************************************)

\* Clusters in which a node needs the round 1 votes of all the others.
NeedsAllOthers == Cardinality(Nodes) - 1 <= quorum_size

\* Behaviours without crashes.
NeverRestarted == \A b \in Budgets : b.restarts = 0

-----------------------------------------------------------------------------
(* The inductive invariant                                                  *)

\* A message of type t for phase p is in channel s.
Carries(s, t, p) == \E i \in 1..Len(s) : s[i].type = t /\ s[i].phase = p

\* Channel s holds no two proposals and no two round 1 votes of one phase.
Unique(s) ==
  \A i, j \in 1..Len(s) :
    /\ s[i].type = s[j].type /\ s[i].phase = s[j].phase
    /\ s[i].type \in {"Propose", "VoteRound1"}
    => i = j

\* The state of the one round 1 vote that node k may give a proposer in phase
\* p: asked for on the channel out, answered on the channel in, or counted in
\* the proposer's record ph, and none of these before the proposer's counter
\* cp has reached the phase.
OneVote(cp, ph, out, in, k, p) ==
  LET asked    == Carries(out, "Propose", p)
      answered == Carries(in, "VoteRound1", p)
      counted  == ph # None /\ ph.round1_votes[k] # None
  IN  /\ asked \/ answered \/ counted => p <= cp
      /\ ~(asked /\ answered) /\ ~(asked /\ counted) /\ ~(answered /\ counted)

\* Every node gives every proposer at most one round 1 vote.
RoundOneInv ==
  /\ \A l \in Links : Unique(net[l])
  /\ \A n, k \in Nodes, p \in Phases :
       n # k => OneVote(current_phase[n], phases[n][p], net[<<n, k>>], net[<<k, n>>], k, p)
  /\ \A n \in Nodes, p \in Phases :
       phases[n][p] # None => phases[n][p].round1_votes[n] = None

\* A node that has cast its round 2 vote has the round 1 votes of all the
\* others, so it casts no second one.
CastInv ==
  /\ \A n \in Nodes, p \in Phases, v \in StateValue :
       <<n, p, v>> \in cast =>
         phases[n][p] = None \/ Voters(phases[n][p].round1_votes) = Nodes \ {n}
  /\ \A n \in Nodes, p \in Phases, v, w \in StateValue :
       <<n, p, v>> \in cast /\ <<n, p, w>> \in cast => v = w

\* The nodes that cast v in phase p, and whether they are a quorum.
Casters(p, v) == {n \in Nodes : <<n, p, v>> \in cast}
Backed(p, v)  == Cardinality(Casters(p, v)) >= quorum_size

\* Round 2 votes and decisions, in messages and in records, go back to cast.
MessageBacked(l, m) ==
  /\ m.type = "VoteRound2" => <<l[1], m.phase, m.vote>> \in cast
  /\ m.type = "Decision" => Backed(m.phase, m.decision)

RecordBacked(p, ph) ==
  /\ \A k \in Voters(ph.round2_votes) : <<k, p, ph.round2_votes[k]>> \in cast
  /\ ph.decision # None => Backed(p, ph.decision)

BackedInv ==
  /\ \A l \in Links : \A m \in OnLink(net, l) : MessageBacked(l, m)
  /\ \A n \in Nodes, p \in Phases :
       phases[n][p] # None => RecordBacked(p, phases[n][p])

AgreementInv ==
  /\ TypeOK
  /\ budget.restarts = 0
  /\ RoundOneInv
  /\ CastInv
  /\ BackedInv

-----------------------------------------------------------------------------
(* Channels as sequences                                                    *)

\* What is left of a channel when its oldest message is taken: no other
\* proposal or round 1 vote of the phase of that message.
LEMMA TailMessages ==
  ASSUME NEW s \in Seq(Messages), s # <<>>, Unique(s)
  PROVE  /\ Unique(Tail(s))
         /\ \A t, p : Carries(Tail(s), t, p) => Carries(s, t, p)
         /\ Carries(s, Head(s).type, Head(s).phase)
         /\ Head(s).type \in {"Propose", "VoteRound1"}
              => ~Carries(Tail(s), Head(s).type, Head(s).phase)
<1>1. Len(s) \in Nat /\ Len(s) > 0 /\ Head(s) = s[1] /\ 1 \in 1..Len(s)
  OBVIOUS
<1>2. \A i \in 1..Len(Tail(s)) :
        i + 1 \in 1..Len(s) /\ Tail(s)[i] = s[i + 1] /\ i + 1 # 1
  BY <1>1
<1>3. \A i, j \in 1..Len(Tail(s)) : i + 1 = j + 1 => i = j
  BY <1>1
<1>4. Unique(Tail(s))
  BY <1>2, <1>3 DEF Unique
<1>5. \A t, p : Carries(Tail(s), t, p) => Carries(s, t, p)
  BY <1>2 DEF Carries
<1>6. Carries(s, Head(s).type, Head(s).phase)
  BY <1>1 DEF Carries
<1>7. ASSUME Head(s).type \in {"Propose", "VoteRound1"},
             Carries(Tail(s), Head(s).type, Head(s).phase)
      PROVE  FALSE
  <2>1. PICK i \in 1..Len(Tail(s)) : /\ Tail(s)[i].type = Head(s).type
                                     /\ Tail(s)[i].phase = Head(s).phase
    BY <1>7 DEF Carries
  <2>2. i + 1 = 1
    BY <1>1, <1>2, <1>7, <2>1 DEF Unique
  <2> QED  BY <1>2, <2>2
<1> QED  BY <1>4, <1>5, <1>6, <1>7

\* What a channel carries after a message was added.
LEMMA AppendMessages ==
  ASSUME NEW s \in Seq(Messages), NEW m \in Messages
  PROVE  /\ \A t, p : Carries(Append(s, m), t, p)
                        <=> Carries(s, t, p) \/ (m.type = t /\ m.phase = p)
         /\ /\ Unique(s)
            /\ m.type \in {"Propose", "VoteRound1"} => ~Carries(s, m.type, m.phase)
            => Unique(Append(s, m))
<1> DEFINE a == Append(s, m)
           L == Len(s)
<1>1. L \in Nat /\ Len(a) = L + 1 /\ a[L + 1] = m /\ \A i \in 1..L : a[i] = s[i]
  OBVIOUS
<1>2. /\ \A i : i \in 1..Len(a) <=> i \in 1..L \/ i = L + 1
      /\ ~(L + 1 \in 1..L)
  BY <1>1
<1> HIDE DEF a, L
<1>3. ASSUME NEW t, NEW p PROVE Carries(a, t, p) <=> Carries(s, t, p) \/ (m.type = t /\ m.phase = p)
  BY <1>1, <1>2 DEF Carries, L
<1>4. ASSUME Unique(s),
             m.type \in {"Propose", "VoteRound1"} => ~Carries(s, m.type, m.phase),
             NEW i \in 1..Len(a), NEW j \in 1..Len(a),
             a[i].type = a[j].type, a[i].phase = a[j].phase,
             a[i].type \in {"Propose", "VoteRound1"}
      PROVE  i = j
  <2>1. CASE i \in 1..L /\ j \in 1..L
    BY <1>1, <1>4, <2>1 DEF Unique, L
  <2>2. CASE i \in 1..L /\ j = L + 1
    BY <1>1, <1>4, <2>2 DEF Carries, L
  <2>3. CASE i = L + 1 /\ j \in 1..L
    BY <1>1, <1>4, <2>3 DEF Carries, L
  <2> QED  BY <1>2, <2>1, <2>2, <2>3
<1>5. /\ Unique(s)
      /\ m.type \in {"Propose", "VoteRound1"} => ~Carries(s, m.type, m.phase)
      => Unique(a)
  BY <1>4 DEF Unique
<1> QED  BY <1>3, <1>5 DEF a

\* The ways a channel changes without a new proposal or round 1 vote: it keeps
\* its messages, its oldest one is taken, or one of another kind is added.
Quiet(s, s2) ==
  \/ s2 = s
  \/ s # <<>> /\ s2 = Tail(s)
  \/ \E m \in Messages : m.type \notin {"Propose", "VoteRound1"} /\ s2 = Append(s, m)

\* Such a change keeps a channel unique and adds nothing that OneVote is about.
LEMMA QuietChannel ==
  ASSUME NEW s \in Seq(Messages), NEW s2, Unique(s), Quiet(s, s2)
  PROVE  /\ Unique(s2)
         /\ \A p : Carries(s2, "Propose", p) => Carries(s, "Propose", p)
         /\ \A p : Carries(s2, "VoteRound1", p) => Carries(s, "VoteRound1", p)
<1>1. CASE s2 = s
  BY <1>1
<1>2. CASE s # <<>> /\ s2 = Tail(s)
  BY <1>2, TailMessages
<1>3. ASSUME NEW m \in Messages, m.type \notin {"Propose", "VoteRound1"}, s2 = Append(s, m)
      PROVE  /\ Unique(s2)
             /\ \A p : Carries(s2, "Propose", p) => Carries(s, "Propose", p)
             /\ \A p : Carries(s2, "VoteRound1", p) => Carries(s, "VoteRound1", p)
  BY <1>3, AppendMessages
<1> QED  BY <1>1, <1>2, <1>3 DEF Quiet

\* A handler takes the head of its channel ...
LEMMA TakenLinks ==
  ASSUME TypeOK, NEW src \in Nodes, NEW n \in Nodes, src # n, net[<<src, n>>] # <<>>
  PROVE  /\ Taken(<<src, n>>)[<<src, n>>] = Tail(net[<<src, n>>])
         /\ \A k \in Links : k # <<src, n>> => Taken(<<src, n>>)[k] = net[k]
         /\ \A k \in Links : Quiet(net[k], Taken(<<src, n>>)[k])
BY DEF TypeOK, Taken, Links, Quiet

\* ... and may broadcast a message, ...
LEMMA BroadcastLinks ==
  ASSUME TypeOK, NEW src \in Nodes, NEW n \in Nodes, src # n, net[<<src, n>>] # <<>>,
         NEW m \in Messages, m.type \notin {"Propose", "VoteRound1"}
  PROVE  \A k \in Links : Quiet(net[k], Broadcast(Taken(<<src, n>>), n, m)[k])
<1> SUFFICES ASSUME NEW k \in Links
             PROVE  Quiet(net[k], Broadcast(Taken(<<src, n>>), n, m)[k])
  OBVIOUS
<1>1. CASE k[1] = n
  <2>1. k # <<src, n>>
    BY <1>1
  <2>2. Broadcast(Taken(<<src, n>>), n, m)[k] = Append(net[k], m)
    BY <1>1, <2>1, TakenLinks DEF Broadcast
  <2> QED  BY <2>2 DEF Quiet
<1>2. CASE k[1] # n
  BY <1>2, TakenLinks DEF Broadcast
<1> QED  BY <1>1, <1>2

\* ... or answer the sender.
LEMMA AnswerLinks ==
  ASSUME TypeOK, NEW src \in Nodes, NEW n \in Nodes, src # n, net[<<src, n>>] # <<>>, NEW m,
         NEW net2, net2 = SendTo(Taken(<<src, n>>), <<n, src>>, m)
  PROVE  /\ net2[<<src, n>>] = Tail(net[<<src, n>>])
         /\ net2[<<n, src>>] = Append(net[<<n, src>>], m)
         /\ \A k \in Links : k \notin {<<src, n>>, <<n, src>>} => net2[k] = net[k]
<1>1. <<src, n>> \in Links /\ <<n, src>> \in Links /\ <<src, n>> # <<n, src>>
  BY DEF Links
<1>2. DOMAIN Taken(<<src, n>>) = Links
  BY DEF Taken, TypeOK
<1> QED  BY <1>1, <1>2, TakenLinks DEF SendTo

\* OneVote survives when a counter grows and nothing is added.
LEMMA OneVoteKept ==
  ASSUME NEW cp \in Nat, NEW cp2 \in Nat, NEW ph, NEW ph2, NEW out, NEW out2, NEW in, NEW in2,
         NEW k, NEW p \in Nat,
         OneVote(cp, ph, out, in, k, p), cp <= cp2,
         Carries(out2, "Propose", p) => Carries(out, "Propose", p),
         Carries(in2, "VoteRound1", p) => Carries(in, "VoteRound1", p),
         ph2 # None /\ ph2.round1_votes[k] # None => ph # None /\ ph.round1_votes[k] # None
  PROVE  OneVote(cp2, ph2, out2, in2, k, p)
<1>1. p <= cp => p <= cp2
  OBVIOUS
<1> QED  BY <1>1, Zenon DEF OneVote

\* The round 1 votes of the records a step leaves are those it found.
Round1Kept ==
  \A n \in Nodes, p \in Phases :
    phases'[n][p] # None =>
      phases[n][p] # None /\ phases'[n][p].round1_votes = phases[n][p].round1_votes

\* No step without a restart takes a counter back.
CountersGrow == \A n \in Nodes : current_phase[n] <= current_phase'[n]

\* What a step does that neither proposes nor votes in round 1.
LEMMA RoundOneFrame ==
  ASSUME TypeOK, TypeOK', RoundOneInv, CountersGrow, Round1Kept,
         \A l \in Links : Quiet(net[l], net'[l])
  PROVE  RoundOneInv'
<1>0. \A l \in Links : net[l] \in Seq(Messages)
  BY DEF TypeOK
<1>1. \A l \in Links : /\ Unique(net'[l])
                       /\ \A p : Carries(net'[l], "Propose", p) => Carries(net[l], "Propose", p)
                       /\ \A p : Carries(net'[l], "VoteRound1", p) => Carries(net[l], "VoteRound1", p)
  BY <1>0, QuietChannel DEF RoundOneInv
<1>2. ASSUME NEW n \in Nodes, NEW k \in Nodes, NEW p \in Phases, n # k
      PROVE  OneVote(current_phase'[n], phases'[n][p], net'[<<n, k>>], net'[<<k, n>>], k, p)
  <2>1. <<n, k>> \in Links /\ <<k, n>> \in Links
    BY <1>2 DEF Links
  <2>2. current_phase[n] \in Nat /\ current_phase'[n] \in Nat /\ p \in Nat
    BY EngineAssumption DEF TypeOK, PhaseIds, Phases
  <2>3. OneVote(current_phase[n], phases[n][p], net[<<n, k>>], net[<<k, n>>], k, p)
    BY <1>2 DEF RoundOneInv
  <2>4. current_phase[n] <= current_phase'[n]
    BY DEF CountersGrow
  <2>5. phases'[n][p] # None /\ phases'[n][p].round1_votes[k] # None
          => phases[n][p] # None /\ phases[n][p].round1_votes[k] # None
    BY DEF Round1Kept
  <2> QED  BY <1>1, <2>1, <2>2, <2>3, <2>4, <2>5, OneVoteKept
<1>3. \A n \in Nodes, p \in Phases :
        phases'[n][p] # None => phases'[n][p].round1_votes[n] = None
  BY DEF RoundOneInv, Round1Kept
<1> QED  BY <1>1, <1>2, <1>3 DEF RoundOneInv

\* The same for the votes cast.
LEMMA CastFrame ==
  ASSUME CastInv, Round1Kept, UNCHANGED cast
  PROVE  CastInv'
BY DEF CastInv, Round1Kept

-----------------------------------------------------------------------------
(* Proposing, answering and counting                                        *)

\* propose_batch asks for the votes of a phase its node has not reached before.
LEMMA RoundOnePropose ==
  ASSUME TypeOK, TypeOK', RoundOneInv, NEW n \in Nodes, NEW b \in Batches, NEW p,
         p = current_phase[n] + 1, p \in Phases,
         current_phase' = [current_phase EXCEPT ![n] = p],
         net' = Broadcast(net, n, Propose(p, "V1", b)), Round1Kept
  PROVE  RoundOneInv'
<1> DEFINE msg == Propose(p, "V1", b)
<1>0. msg \in Messages /\ msg.type = "Propose" /\ msg.phase = p
  BY MessageTypes DEF Propose, StateValue
<1> HIDE DEF msg
<1>1. /\ \A l \in Links : net[l] \in Seq(Messages)
      /\ \A l \in Links : net'[l] = IF l[1] = n THEN Append(net[l], msg) ELSE net[l]
  BY DEF TypeOK, Broadcast, msg
<1>2. \A k \in Nodes : /\ current_phase[k] \in Nat /\ current_phase'[k] \in Nat
                       /\ current_phase[k] <= current_phase'[k]
  BY EngineAssumption DEF TypeOK, PhaseIds
<1>3. \A r \in Phases : r \in Nat
  BY EngineAssumption DEF Phases
<1>4. current_phase'[n] = p /\ p <= p /\ ~(p <= current_phase[n])
  BY <1>2, <1>3 DEF TypeOK
<1>5. ASSUME NEW l \in Links PROVE Unique(net'[l])
  <2>1. CASE l[1] = n
    <3>1. l[2] \in Nodes /\ l[2] # n /\ l = <<n, l[2]>>
      BY <2>1 DEF Links
    <3>2. ~Carries(net[l], "Propose", p)
      BY <1>4, <3>1 DEF RoundOneInv, OneVote
    <3> QED  BY <1>0, <1>1, <2>1, <3>2, AppendMessages DEF RoundOneInv
  <2>2. CASE l[1] # n
    BY <1>1, <2>2 DEF RoundOneInv
  <2> QED  BY <2>1, <2>2
<1>6. \A l \in Links : \A r :
        /\ Carries(net'[l], "VoteRound1", r) => Carries(net[l], "VoteRound1", r)
        /\ Carries(net'[l], "Propose", r) =>
             Carries(net[l], "Propose", r) \/ (l[1] = n /\ r = p)
  BY <1>0, <1>1, AppendMessages
<1>7. ASSUME NEW i \in Nodes, NEW k \in Nodes, NEW r \in Phases, i # k
      PROVE  OneVote(current_phase'[i], phases'[i][r], net'[<<i, k>>], net'[<<k, i>>], k, r)
  <2>1. <<i, k>> \in Links /\ <<k, i>> \in Links /\ <<i, k>>[1] = i
    BY <1>7 DEF Links
  <2>2. OneVote(current_phase[i], phases[i][r], net[<<i, k>>], net[<<k, i>>], k, r)
    BY <1>7 DEF RoundOneInv
  <2>3. phases'[i][r] # None /\ phases'[i][r].round1_votes[k] # None
          => phases[i][r] # None /\ phases[i][r].round1_votes[k] # None
    BY DEF Round1Kept
  <2>4. CASE i = n /\ r = p
    <3>1. /\ ~Carries(net[<<i, k>>], "Propose", r) /\ ~Carries(net[<<k, i>>], "VoteRound1", r)
          /\ ~(phases[i][r] # None /\ phases[i][r].round1_votes[k] # None)
      BY <1>4, <2>2, <2>4 DEF OneVote
    <3>2. r <= current_phase'[i]
      BY <1>4, <2>4
    <3>3. ~Carries(net'[<<k, i>>], "VoteRound1", r)
      BY <1>6, <2>1, <3>1
    <3> QED  BY <2>3, <3>1, <3>2, <3>3, Zenon DEF OneVote
  <2>5. CASE ~(i = n /\ r = p)
    <3>1. /\ Carries(net'[<<i, k>>], "Propose", r) => Carries(net[<<i, k>>], "Propose", r)
          /\ Carries(net'[<<k, i>>], "VoteRound1", r) => Carries(net[<<k, i>>], "VoteRound1", r)
      BY <1>6, <2>1, <2>5
    <3> QED  BY <1>2, <1>3, <2>2, <2>3, <3>1, OneVoteKept
  <2> QED  BY <2>4, <2>5
<1>8. \A i \in Nodes, r \in Phases : phases'[i][r] # None => phases'[i][r].round1_votes[i] = None
  BY DEF RoundOneInv, Round1Kept
<1> QED  BY <1>5, <1>7, <1>8 DEF RoundOneInv

\* handle_propose turns the one proposal of a phase into the one answer.
LEMMA RoundOneAnswer ==
  ASSUME TypeOK, TypeOK', RoundOneInv, NEW src \in Nodes, NEW n \in Nodes, src # n,
         net[<<src, n>>] # <<>>, Head(net[<<src, n>>]).type = "Propose",
         NEW p \in Phases, p = Head(net[<<src, n>>]).phase, NEW v \in StateValue,
         net' = SendTo(Taken(<<src, n>>), <<n, src>>, VoteRound1(p, v)),
         UNCHANGED current_phase, Round1Kept
  PROVE  RoundOneInv'
<1> DEFINE msg == VoteRound1(p, v)
           out == net[<<src, n>>]
           in  == net[<<n, src>>]
<1>0. msg \in Messages /\ msg.type = "VoteRound1" /\ msg.phase = p
  BY MessageTypes DEF VoteRound1
<1>1. <<src, n>> \in Links /\ <<n, src>> \in Links /\ <<src, n>> # <<n, src>>
  BY DEF Links
<1>2. /\ net'[<<src, n>>] = Tail(out)
      /\ net'[<<n, src>>] = Append(in, msg)
      /\ \A k \in Links : k \notin {<<src, n>>, <<n, src>>} => net'[k] = net[k]
  BY AnswerLinks
<1> HIDE DEF msg
<1>3. /\ out \in Seq(Messages) /\ in \in Seq(Messages) /\ Unique(out) /\ Unique(in)
      /\ out # <<>> /\ Head(out).type = "Propose" /\ Head(out).phase = p
  BY <1>1 DEF TypeOK, RoundOneInv
<1>4. /\ Carries(out, "Propose", p) /\ ~Carries(Tail(out), "Propose", p) /\ Unique(Tail(out))
      /\ \A t, r : Carries(Tail(out), t, r) => Carries(out, t, r)
  BY <1>3, TailMessages
<1>5. OneVote(current_phase[src], phases[src][p], out, in, n, p)
  BY DEF RoundOneInv
<1>6. /\ p <= current_phase[src] /\ ~Carries(in, "VoteRound1", p)
      /\ ~(phases[src][p] # None /\ phases[src][p].round1_votes[n] # None)
  BY <1>4, <1>5, Zenon DEF OneVote
<1>7. /\ Unique(Append(in, msg))
      /\ \A t, r : Carries(Append(in, msg), t, r) <=>
                     Carries(in, t, r) \/ (t = "VoteRound1" /\ r = p)
  BY <1>0, <1>3, <1>6, AppendMessages, ZenonT(30)
<1>8. \A l \in Links : Unique(net'[l])
  BY <1>2, <1>4, <1>7 DEF RoundOneInv
<1>9. \A l \in Links : \A r :
        /\ Carries(net'[l], "Propose", r) => Carries(net[l], "Propose", r)
        /\ Carries(net'[l], "VoteRound1", r) =>
             Carries(net[l], "VoteRound1", r) \/ (l = <<n, src>> /\ r = p)
  BY <1>2, <1>4, <1>7
<1>10. \A k \in Nodes : current_phase[k] \in Nat /\ current_phase'[k] = current_phase[k]
                        /\ current_phase[k] <= current_phase'[k]
  BY EngineAssumption DEF TypeOK, PhaseIds
<1>11. \A r \in Phases : r \in Nat
  BY EngineAssumption DEF Phases
<1> HIDE DEF out, in
<1>12. ASSUME NEW i \in Nodes, NEW k \in Nodes, NEW r \in Phases, i # k
      PROVE  OneVote(current_phase'[i], phases'[i][r], net'[<<i, k>>], net'[<<k, i>>], k, r)
  <2>1. <<i, k>> \in Links /\ <<k, i>> \in Links
    BY <1>12 DEF Links
  <2>2. OneVote(current_phase[i], phases[i][r], net[<<i, k>>], net[<<k, i>>], k, r)
    BY <1>12 DEF RoundOneInv
  <2>3. phases'[i][r] # None /\ phases'[i][r].round1_votes[k] # None
          => phases[i][r] # None /\ phases[i][r].round1_votes[k] # None
    BY DEF Round1Kept
  <2>4. CASE i = src /\ k = n /\ r = p
    <3>1. ~Carries(net'[<<i, k>>], "Propose", r)
      BY <1>2, <1>4, <2>4
    <3>2. ~(phases[i][r] # None /\ phases[i][r].round1_votes[k] # None)
      BY <1>6, <2>4
    <3>3. r <= current_phase'[i]
      BY <1>6, <1>10, <2>4
    <3> QED  BY <2>3, <3>1, <3>2, <3>3, Zenon DEF OneVote
  <2>5. CASE ~(i = src /\ k = n /\ r = p)
    <3>0. <<k, i>> = <<n, src>> /\ r = p => i = src /\ k = n /\ r = p
      OBVIOUS
    <3>1. /\ Carries(net'[<<i, k>>], "Propose", r) => Carries(net[<<i, k>>], "Propose", r)
          /\ Carries(net'[<<k, i>>], "VoteRound1", r) => Carries(net[<<k, i>>], "VoteRound1", r)
      BY <1>9, <2>1, <2>5, <3>0
    <3> QED  BY <1>10, <1>11, <2>2, <2>3, <3>1, OneVoteKept
  <2> QED  BY <2>4, <2>5
<1>13. \A i \in Nodes, r \in Phases : phases'[i][r] # None => phases'[i][r].round1_votes[i] = None
  BY DEF RoundOneInv, Round1Kept
<1> QED  BY <1>8, <1>12, <1>13 DEF RoundOneInv

\* The answer to a proposal is counted once: the node that answered is not yet
\* among the voters, and no other answer of it is on its way.
LEMMA NotYetCounted ==
  ASSUME TypeOK, RoundOneInv, NEW src \in Nodes, NEW n \in Nodes, src # n,
         net[<<src, n>>] # <<>>, Head(net[<<src, n>>]).type = "VoteRound1",
         NEW p \in Phases, p = Head(net[<<src, n>>]).phase
  PROVE  /\ ~Carries(Tail(net[<<src, n>>]), "VoteRound1", p)
         /\ ~Carries(net[<<n, src>>], "Propose", p)
         /\ p <= current_phase[n]
         /\ phases[n][p] # None => phases[n][p].round1_votes[src] = None
<1>1. <<src, n>> \in Links
  BY DEF Links
<1>2. net[<<src, n>>] \in Seq(Messages) /\ Unique(net[<<src, n>>])
  BY <1>1 DEF TypeOK, RoundOneInv
<1>3. /\ Carries(net[<<src, n>>], "VoteRound1", p)
      /\ ~Carries(Tail(net[<<src, n>>]), "VoteRound1", p)
  BY <1>2, TailMessages
<1>4. OneVote(current_phase[n], phases[n][p], net[<<n, src>>], net[<<src, n>>], src, p)
  BY DEF RoundOneInv
<1> QED  BY <1>3, <1>4, Zenon DEF OneVote

\* handle_vote_round1 moves the answer into the record, and leaves the answers
\* of the other nodes alone.
LEMMA RoundOneCount ==
  ASSUME TypeOK, TypeOK', RoundOneInv, NEW src \in Nodes, NEW n \in Nodes, src # n,
         net[<<src, n>>] # <<>>, Head(net[<<src, n>>]).type = "VoteRound1",
         NEW p \in Phases, p = Head(net[<<src, n>>]).phase,
         \A l \in Links : Quiet(net[l], net'[l]),
         net'[<<src, n>>] = Tail(net[<<src, n>>]),
         UNCHANGED current_phase,
         \A i, k \in Nodes, r \in Phases :
           phases'[i][r] # None =>
             /\ phases[i][r] # None
             /\ ~(i = n /\ r = p /\ k = src) =>
                  phases'[i][r].round1_votes[k] = phases[i][r].round1_votes[k]
  PROVE  RoundOneInv'
<1>1. \A l \in Links : net[l] \in Seq(Messages)
  BY DEF TypeOK
<1>2. \A l \in Links : /\ Unique(net'[l])
                       /\ \A r : Carries(net'[l], "Propose", r) => Carries(net[l], "Propose", r)
                       /\ \A r : Carries(net'[l], "VoteRound1", r) => Carries(net[l], "VoteRound1", r)
  BY <1>1, QuietChannel DEF RoundOneInv
<1>3. \A k \in Nodes : current_phase[k] \in Nat /\ current_phase'[k] = current_phase[k]
                       /\ current_phase[k] <= current_phase'[k]
  BY EngineAssumption DEF TypeOK, PhaseIds
<1>4. \A r \in Phases : r \in Nat
  BY EngineAssumption DEF Phases
<1>0. /\ ~Carries(Tail(net[<<src, n>>]), "VoteRound1", p)
      /\ ~Carries(net[<<n, src>>], "Propose", p)
      /\ p <= current_phase[n]
  BY NotYetCounted
<1>5. ASSUME NEW i \in Nodes, NEW k \in Nodes, NEW r \in Phases, i # k
      PROVE  OneVote(current_phase'[i], phases'[i][r], net'[<<i, k>>], net'[<<k, i>>], k, r)
  <2>1. <<i, k>> \in Links /\ <<k, i>> \in Links
    BY <1>5 DEF Links
  <2>2. CASE i = n /\ k = src /\ r = p
    <3>1. ~Carries(net'[<<k, i>>], "VoteRound1", r) /\ r <= current_phase'[i]
      BY <1>0, <1>3, <2>2
    <3>2. ~Carries(net'[<<i, k>>], "Propose", r)
      BY <1>0, <1>2, <2>1, <2>2
    <3> QED  BY <3>1, <3>2, Zenon DEF OneVote
  <2>3. CASE ~(i = n /\ k = src /\ r = p)
    <3>1. OneVote(current_phase[i], phases[i][r], net[<<i, k>>], net[<<k, i>>], k, r)
      BY <1>5 DEF RoundOneInv
    <3>2. phases'[i][r] # None /\ phases'[i][r].round1_votes[k] # None
            => phases[i][r] # None /\ phases[i][r].round1_votes[k] # None
      BY <2>3
    <3> QED  BY <1>2, <1>3, <1>4, <2>1, <3>1, <3>2, OneVoteKept
  <2> QED  BY <2>2, <2>3
<1>6. \A i \in Nodes, r \in Phases : phases'[i][r] # None => phases'[i][r].round1_votes[i] = None
  BY DEF RoundOneInv
<1> QED  BY <1>2, <1>5, <1>6 DEF RoundOneInv

-----------------------------------------------------------------------------
(* Casting, and what is backed by the votes cast                            *)

\* Among all the others, only all of them are as many as a quorum.
LEMMA AllOthers ==
  ASSUME NeedsAllOthers, NEW n \in Nodes, NEW S \in SUBSET (Nodes \ {n}),
         Cardinality(S) >= quorum_size
  PROVE  S = Nodes \ {n}
<1>1. IsFiniteSet(Nodes \ {n}) /\ Cardinality(Nodes \ {n}) = Cardinality(Nodes) - 1
  BY PhaseDataAssumption, FS_RemoveElement
<1>2. IsFiniteSet(S) /\ Cardinality(S) <= Cardinality(Nodes \ {n})
      /\ (Cardinality(Nodes \ {n}) = Cardinality(S) => Nodes \ {n} = S)
  BY <1>1, FS_Subset
<1>3. Cardinality(S) \in Nat /\ Cardinality(Nodes) \in Nat /\ quorum_size \in Nat
  BY <1>2, FS_CardinalityType, QuorumType
<1>4. Cardinality(Nodes \ {n}) = Cardinality(S)
  BY <1>1, <1>2, <1>3 DEF NeedsAllOthers
<1> QED  BY <1>2, <1>4

\* Before the vote that completes the quorum a node has cast nothing, and after
\* it no vote is missing.
LEMMA CastOnce ==
  ASSUME NeedsAllOthers, TypeOK, TypeOK', RoundOneInv, RoundOneInv', CastInv,
         NEW src \in Nodes, NEW n \in Nodes, src # n,
         net[<<src, n>>] # <<>>, Head(net[<<src, n>>]).type = "VoteRound1",
         NEW p \in Phases, p = Head(net[<<src, n>>]).phase, phases[n][p] # None,
         \A i \in Nodes, r \in Phases : (i = n /\ r = p) \/ phases'[i][r] = phases[i][r],
         phases'[n][p] # None,
         \/ UNCHANGED cast
         \/ \E v \in StateValue :
              /\ cast' = cast \cup {<<n, p, v>>}
              /\ Cardinality(Voters(phases'[n][p].round1_votes)) >= quorum_size
  PROVE  CastInv'
<1> DEFINE votes2 == phases'[n][p].round1_votes
<1>1. src \notin Voters(phases[n][p].round1_votes)
  BY NotYetCounted DEF Voters
<1>2. \A v \in StateValue : <<n, p, v>> \notin cast
  BY <1>1 DEF CastInv
<1>3. Voters(votes2) \in SUBSET (Nodes \ {n})
  <2>1. votes2[n] = None
    BY Zenon DEF RoundOneInv
  <2> QED  BY <2>1 DEF Voters
<1>4. Cardinality(Voters(votes2)) >= quorum_size => Voters(votes2) = Nodes \ {n}
  BY <1>3, AllOthers
<1>5. \A i \in Nodes, r \in Phases, v \in StateValue :
        <<i, r, v>> \in cast => ~(i = n /\ r = p)
  BY <1>2
<1>6. CASE UNCHANGED cast
  BY <1>5, <1>6 DEF CastInv
<1>7. ASSUME NEW v \in StateValue, cast' = cast \cup {<<n, p, v>>},
             Cardinality(Voters(votes2)) >= quorum_size
      PROVE  CastInv'
  <2>1. \A i \in Nodes, r \in Phases, w \in StateValue :
          <<i, r, w>> \in cast' <=> <<i, r, w>> \in cast \/ (i = n /\ r = p /\ w = v)
    BY <1>7
  <2>2. ASSUME NEW i \in Nodes, NEW r \in Phases, NEW w \in StateValue, <<i, r, w>> \in cast'
        PROVE  phases'[i][r] = None \/ Voters(phases'[i][r].round1_votes) = Nodes \ {i}
    <3>1. CASE i = n /\ r = p
      BY <1>4, <1>7, <3>1
    <3>2. CASE ~(i = n /\ r = p)
      <4>1. <<i, r, w>> \in cast /\ phases'[i][r] = phases[i][r]
        BY <2>1, <2>2, <3>2
      <4> QED  BY <4>1 DEF CastInv
    <3> QED  BY <3>1, <3>2
  <2>3. \A i \in Nodes, r \in Phases, u, w \in StateValue :
          <<i, r, u>> \in cast' /\ <<i, r, w>> \in cast' => u = w
    BY <1>5, <2>1 DEF CastInv
  <2> QED  BY <2>2, <2>3 DEF CastInv
<1> QED  BY <1>6, <1>7

\* No vote is taken back, so what is backed stays backed.
LEMMA BackedStays ==
  ASSUME cast \subseteq cast'
  PROVE  /\ \A p, v : Backed(p, v) => Backed(p, v)'
         /\ \A l, m : MessageBacked(l, m) => MessageBacked(l, m)'
         /\ \A p, ph : RecordBacked(p, ph) => RecordBacked(p, ph)'
<1>1. ASSUME NEW p, NEW v, Backed(p, v) PROVE Backed(p, v)'
  <2>1. Casters(p, v) \subseteq Casters(p, v)' /\ Casters(p, v)' \subseteq Nodes
    BY DEF Casters
  <2> QED  BY <1>1, <2>1, LargerSet DEF Backed
<1>2. ASSUME NEW l, NEW m, MessageBacked(l, m) PROVE MessageBacked(l, m)'
  BY <1>1, <1>2 DEF MessageBacked
<1>3. ASSUME NEW p, NEW ph, RecordBacked(p, ph) PROVE RecordBacked(p, ph)'
  BY <1>1, <1>3 DEF RecordBacked
<1> QED  BY <1>1, <1>2, <1>3

\* A step keeps BackedInv if what it adds is backed.
LEMMA BackedFrame ==
  ASSUME BackedInv, cast \subseteq cast',
         \A l \in Links : \A m \in OnLink(net', l) :
            m \in OnLink(net, l) \/ MessageBacked(l, m)',
         \A n \in Nodes, p \in Phases :
            \/ phases'[n][p] \in {phases[n][p], None}
            \/ RecordBacked(p, phases[n][p])'
  PROVE  BackedInv'
<1>1. \A l \in Links : \A m \in OnLink(net, l)' : MessageBacked(l, m)'
  BY BackedStays DEF BackedInv, OnLink
<1>2. \A n \in Nodes, p \in Phases :
        phases'[n][p] # None => RecordBacked(p, phases[n][p])'
  BY BackedStays DEF BackedInv
<1> QED  BY <1>1, <1>2 DEF BackedInv

\* A step keeps the invariant if it casts no vote and changes neither
\* proposals nor round 1 votes, and what it adds is backed.
LEMMA AgreementFrame ==
  ASSUME AgreementInv, TypeOK', UNCHANGED cast, budget'.restarts = 0, CountersGrow, Round1Kept,
         \A l \in Links : Quiet(net[l], net'[l]),
         \A l \in Links : \A m \in OnLink(net', l) :
            m \in OnLink(net, l) \/ MessageBacked(l, m),
         \A n \in Nodes, p \in Phases :
            \/ phases'[n][p] \in {phases[n][p], None}
            \/ RecordBacked(p, phases'[n][p])
  PROVE  AgreementInv'
<1>1. RoundOneInv' /\ CastInv'
  BY RoundOneFrame, CastFrame DEF AgreementInv
<1>2. BackedInv'
  BY BackedStays, BackedFrame DEF AgreementInv
<1> QED  BY <1>1, <1>2 DEF AgreementInv

\* No decision is taken back.
DecisionsKept ==
  \A n \in Nodes, p \in Phases :
    Decided(n, p) /\ phases'[n][p] # None => phases'[n][p].decision # None

-----------------------------------------------------------------------------
(* The steps                                                                *)

\* Initially nothing is asked, answered, counted, cast or decided.
LEMMA AgreementInit == NeverRestarted /\ Init => AgreementInv
<1> SUFFICES ASSUME NeverRestarted, Init PROVE AgreementInv
  OBVIOUS
<1>1. TypeOK /\ budget.restarts = 0
  BY TypeInit DEF Init, NeverRestarted
<1>2. \A l \in Links : net[l] = <<>>
  BY DEF Init
<1>3. \A l \in Links : Unique(net[l]) /\ (\A t, p : ~Carries(net[l], t, p)) /\ OnLink(net, l) = {}
  BY <1>2 DEF Unique, Carries, OnLink
<1>4. \A n \in Nodes, p \in Phases : phases[n][p] # None => phases[n][p] = NewPhaseData
  BY DEF Init, FreshPhases
<1>5. \A n \in Nodes, p \in Phases : phases[n][p] # None =>
        /\ \A k \in Nodes : phases[n][p].round1_votes[k] = None
        /\ Voters(phases[n][p].round2_votes) = {} /\ phases[n][p].decision = None
  BY <1>4 DEF NewPhaseData, Voters
<1>6. ASSUME NEW n \in Nodes, NEW k \in Nodes, NEW p \in Phases, n # k
      PROVE  OneVote(current_phase[n], phases[n][p], net[<<n, k>>], net[<<k, n>>], k, p)
  <2>1. <<n, k>> \in Links /\ <<k, n>> \in Links
    BY <1>6 DEF Links
  <2> QED  BY <1>3, <1>5, <2>1, Zenon DEF OneVote
<1>7. RoundOneInv
  BY <1>3, <1>5, <1>6, Zenon DEF RoundOneInv
<1>8. CastInv
  BY DEF Init, CastInv
<1>9. BackedInv
  BY <1>3, <1>5, Zenon DEF BackedInv, RecordBacked
<1> QED  BY <1>1, <1>7, <1>8, <1>9 DEF AgreementInv

\* What update_phase does to the round 1 votes and the decisions when the new
\* record has those of the old one.
LEMMA UpdateKeeps ==
  ASSUME TypeOK, NEW n \in Nodes, NEW p \in Phases, NEW ph, update_phase(n, p, ph),
         phases[n][p] # None =>
           /\ ph.round1_votes = phases[n][p].round1_votes
           /\ phases[n][p].decision # None => ph.decision # None
  PROVE  Round1Kept /\ DecisionsKept
BY UpdatePhaseRecords DEF Round1Kept, DecisionsKept, Decided

\* A step that leaves the records alone.
LEMMA SameRecords ==
  ASSUME UNCHANGED phases
  PROVE  Round1Kept /\ DecisionsKept
BY DEF Round1Kept, DecisionsKept, Decided

\* Most steps leave the counters alone.
LEMMA CountersStay ==
  ASSUME TypeOK, UNCHANGED current_phase
  PROVE  CountersGrow
BY EngineAssumption DEF CountersGrow, TypeOK, PhaseIds

\* process_batch_request
LEMMA AgreementProcess ==
  ASSUME AgreementInv, TypeOK', NEW n \in Nodes, NEW b \in Batches, process_batch_request(n, b)
  PROVE  AgreementInv' /\ DecisionsKept
<1>0. TypeOK /\ UNCHANGED <<cast, budget>> /\ budget'.restarts = 0
  BY DEF AgreementInv, process_batch_request
<1>1. CASE UNCHANGED <<current_phase, phases, net>>
  <2>1. CountersGrow
    BY <1>0, <1>1, EngineAssumption DEF CountersGrow, TypeOK, PhaseIds
  <2> QED  BY <1>0, <1>1, <2>1, SameRecords, AgreementFrame DEF Quiet
<1>2. CASE ~UNCHANGED <<current_phase, phases, net>>
  <2> DEFINE p  == current_phase[n] + 1
             ph == [phases[n][p] EXCEPT !.proposed_value = "V1", !.batch = b]
             m  == Propose(p, "V1", b)
  <2>1. /\ current_phase[n] < MaxPhase
        /\ current_phase' = [current_phase EXCEPT ![n] = p]
        /\ update_phase(n, p, ph)
        /\ net' = Broadcast(net, n, m)
    BY <1>2 DEF process_batch_request
  <2>2. p \in Phases
    BY <1>0, <2>1, EngineAssumption DEF TypeOK, Phases, PhaseIds
  <2>3. phases[n][p] # None => /\ ph.round1_votes = phases[n][p].round1_votes
                               /\ ph.round2_votes = phases[n][p].round2_votes
                               /\ ph.decision = phases[n][p].decision
    BY <1>0, <2>2 DEF TypeOK, PhaseRecord
  <2>4. Round1Kept /\ DecisionsKept
    BY <1>0, <2>1, <2>2, <2>3, UpdateKeeps
  <2>5. RoundOneInv'
    BY <1>0, <2>1, <2>2, <2>4, RoundOnePropose DEF AgreementInv
  <2>6. CastInv'
    BY <1>0, <2>4, CastFrame DEF AgreementInv
  <2>7. BackedInv'
    <3>1. \A l \in Links : \A x \in OnLink(net', l) : x \in OnLink(net, l) \/ MessageBacked(l, x)'
      <4>1. m \in Messages /\ m.type = "Propose"
        BY <2>2, MessageTypes DEF Propose, StateValue
      <4>2. \A l, x : x.type = "Propose" => MessageBacked(l, x)'
        BY DEF MessageBacked
      <4>3. net \in Channels
        BY <1>0, NetChannels
      <4>4. \A l \in Links : OnLink(net', l) \subseteq OnLink(net, l) \cup {m}
        BY <2>1, <4>1, <4>3, BroadcastChannels
      <4> HIDE DEF m
      <4> QED  BY <4>1, <4>2, <4>4
    <3>2. phases[n][p] # None => RecordBacked(p, ph)
      BY <2>2, <2>3 DEF AgreementInv, BackedInv, RecordBacked
    <3>3. \A k \in Nodes, r \in Phases :
            \/ phases'[k][r] \in {phases[k][r], None}
            \/ RecordBacked(r, phases[k][r])'
      BY <1>0, <2>1, <2>2, <3>2, UpdatePhaseRecords, BackedStays
    <3> QED  BY <1>0, <3>1, <3>3, BackedFrame DEF AgreementInv
  <2> QED  BY <1>0, <2>4, <2>5, <2>6, <2>7 DEF AgreementInv
<1> QED  BY <1>1, <1>2

\* The commands and timers that send no votes, and the loss of a message.
LEMMA AgreementQuietSteps ==
  ASSUME AgreementInv, TypeOK',
         \/ \E n \in Nodes : advance_to_next_phase(n)
         \/ \E n \in Nodes : initiate_sync(n)
         \/ \E n \in Nodes : cleanup_old_state(n)
         \/ \E l \in Links : lose(l)
  PROVE  AgreementInv' /\ DecisionsKept
<1>0. TypeOK /\ budget.restarts = 0 /\ budget \in Budget
  BY DEF AgreementInv, TypeOK
<1>1. UNCHANGED cast /\ budget'.restarts = 0
  BY <1>0 DEF advance_to_next_phase, initiate_sync, cleanup_old_state, lose, Budget
<1>2. CountersGrow
  <2>1. CASE UNCHANGED current_phase
    BY <1>0, <2>1, CountersStay
  <2>2. ASSUME NEW n \in Nodes, advance_to_next_phase(n) PROVE CountersGrow
    <3>1. current_phase' = [current_phase EXCEPT ![n] = current_phase[n] + 1]
      BY <2>2 DEF advance_to_next_phase
    <3>2. \A k \in Nodes : current_phase[k] \in Nat
      BY <1>0, EngineAssumption DEF TypeOK, PhaseIds
    <3> QED  BY <1>0, <3>1, <3>2 DEF CountersGrow, TypeOK
  <2> QED  BY <2>1, <2>2 DEF initiate_sync, cleanup_old_state, lose
<1>3. Round1Kept /\ DecisionsKept
      /\ \A n \in Nodes, p \in Phases : phases'[n][p] \in {phases[n][p], None}
  <2>1. CASE UNCHANGED phases
    BY <2>1, SameRecords
  <2>2. ASSUME NEW n \in Nodes, cleanup_old_state(n)
        PROVE  \A k \in Nodes, p \in Phases : phases'[k][p] \in {phases[k][p], None}
    BY <1>0, <2>2 DEF cleanup_old_state, TypeOK
  <2>3. ASSUME \A k \in Nodes, p \in Phases : phases'[k][p] \in {phases[k][p], None}
        PROVE  Round1Kept /\ DecisionsKept
    BY <2>3 DEF Round1Kept, DecisionsKept, Decided
  <2> QED  BY <2>1, <2>2, <2>3 DEF advance_to_next_phase, initiate_sync, lose
<1>4. /\ \A l \in Links : Quiet(net[l], net'[l])
      /\ \A l \in Links : \A m \in OnLink(net', l) : m \in OnLink(net, l) \/ MessageBacked(l, m)
  <2>1. CASE UNCHANGED net
    BY <2>1 DEF Quiet
  <2>2. ASSUME NEW k \in Links, lose(k)
        PROVE  /\ \A l \in Links : Quiet(net[l], net'[l])
               /\ \A l \in Links : OnLink(net', l) \subseteq OnLink(net, l)
    <3>1. net[k] # <<>> /\ net' = Taken(k)
      BY <2>2 DEF lose
    <3>2. \A l \in Links : OnLink(net', l) \subseteq OnLink(net, l)
      BY <1>0, <3>1, TakenChannels, NetChannels
    <3>3. \A l \in Links : Quiet(net[l], net'[l])
      BY <1>0, <3>1 DEF Quiet, Taken, TypeOK
    <3> QED  BY <3>2, <3>3
  <2>3. ASSUME NEW n \in Nodes, initiate_sync(n), NEW l \in Links
        PROVE  /\ Quiet(net[l], net'[l])
               /\ \A x \in OnLink(net', l) : x \in OnLink(net, l) \/ MessageBacked(l, x)
    <3> DEFINE m == SyncRequest(current_phase[n])
    <3>1. m \in Messages /\ m.type = "SyncRequest"
      BY <1>0, MessageTypes DEF TypeOK, SyncRequest
    <3>2. net'[l] \in {net[l], Append(net[l], m)} /\ net[l] \in Seq(Messages)
      BY <1>0, <2>3 DEF initiate_sync, TypeOK
    <3> HIDE DEF m
    <3>3. Quiet(net[l], net'[l])
      BY <3>1, <3>2 DEF Quiet
    <3>4. OnLink(net', l) \subseteq OnLink(net, l) \cup {m}
      <4>1. CASE net'[l] = net[l]
        BY <4>1 DEF OnLink
      <4>2. CASE net'[l] = Append(net[l], m)
        BY <3>1, <3>2, <4>2 DEF OnLink
      <4> QED  BY <3>2, <4>1, <4>2
    <3> QED  BY <3>1, <3>3, <3>4 DEF MessageBacked
  <2> QED  BY <2>1, <2>2, <2>3 DEF advance_to_next_phase, cleanup_old_state
<1> QED  BY <1>1, <1>2, <1>3, <1>4, AgreementFrame


\* A handler works on the head of its channel.
LEMMA HeadStep ==
  ASSUME TypeOK, NEW l \in Links, handle_message(l[1], l[2])
  PROVE  \E src, n \in Nodes, m \in Messages :
           /\ src # n /\ net[<<src, n>>] # <<>> /\ m = Head(net[<<src, n>>])
           /\ m \in OnLink(net, <<src, n>>)
           /\ \/ handle_propose(src, n, m)
              \/ handle_vote_round1(src, n, m)
              \/ handle_vote_round2(src, n, m)
              \/ handle_decision(src, n, m)
              \/ handle_sync_request(src, n, m)
              \/ handle_sync_response(src, n, m)
<1>1. l[1] \in Nodes /\ l[2] \in Nodes /\ l[1] # l[2] /\ l = <<l[1], l[2]>>
  BY DEF Links
<1>2. net[l] # <<>>
  BY <1>1 DEF handle_message
<1>3. Head(net[l]) \in OnLink(net, l) /\ Head(net[l]) \in Messages
  BY <1>2, HeadTail, NetChannels
<1> QED  BY <1>1, <1>2, <1>3 DEF handle_message

\* handle_propose
LEMMA AgreementHandlePropose ==
  ASSUME AgreementInv, TypeOK', NEW src \in Nodes, NEW n \in Nodes, src # n,
         net[<<src, n>>] # <<>>, NEW m \in Messages, m = Head(net[<<src, n>>]),
         handle_propose(src, n, m)
  PROVE  AgreementInv' /\ DecisionsKept
<1> DEFINE q   == Taken(<<src, n>>)
           p   == m.phase
           new == [phases[n][p] EXCEPT !.proposed_value = OrElse(@, m.value),
                                       !.batch = OrElse(@, m.batch)]
<1>0. /\ TypeOK /\ UNCHANGED <<current_phase, cast, budget>> /\ budget'.restarts = 0
      /\ <<src, n>> \in Links /\ <<n, src>> \in Links
  BY DEF AgreementInv, handle_propose, Links
<1>1. m.type = "Propose" /\ p \in Phases /\ m.value \in StateValue
  BY MessageFields DEF handle_propose
<1>2. /\ q \in Channels /\ \A l \in Links : OnLink(q, l) \subseteq OnLink(net, l)
      /\ \A l \in Links : Quiet(net[l], q[l])
  BY <1>0, TakenChannels, NetChannels, TakenLinks
<1>3. CountersGrow
  BY <1>0, CountersStay
<1>4. CASE net' = q /\ UNCHANGED phases
  BY <1>0, <1>2, <1>3, <1>4, SameRecords, AgreementFrame
<1>5. CASE ~(net' = q /\ UNCHANGED phases)
  <2>1. /\ update_phase(n, p, new)
        /\ \E vote \in determine_round1_vote(phases[n][p], m.value) :
             net' = SendTo(q, <<n, src>>, VoteRound1(p, vote))
    BY <1>5 DEF handle_propose
  <2>2. PICK vote \in StateValue : net' = SendTo(q, <<n, src>>, VoteRound1(p, vote))
    BY <1>1, <2>1 DEF determine_round1_vote, randomized_vote, StateValue
  <2>3. phases[n][p] # None => /\ new.round1_votes = phases[n][p].round1_votes
                               /\ new.round2_votes = phases[n][p].round2_votes
                               /\ new.decision = phases[n][p].decision
    BY <1>0, <1>1 DEF TypeOK, PhaseRecord
  <2>4. Round1Kept /\ DecisionsKept
    BY <1>0, <1>1, <2>1, <2>3, UpdateKeeps
  <2>5. RoundOneInv'
    BY <1>0, <1>1, <2>2, <2>4, RoundOneAnswer DEF AgreementInv
  <2>6. CastInv'
    BY <1>0, <2>4, CastFrame DEF AgreementInv
  <2>7. BackedInv'
    <3>1. VoteRound1(p, vote) \in Messages /\ VoteRound1(p, vote).type = "VoteRound1"
      BY <1>1, MessageTypes DEF VoteRound1
    <3>2. \A l \in Links : OnLink(net', l) \subseteq OnLink(net, l) \cup {VoteRound1(p, vote)}
      BY <1>0, <1>2, <2>2, <3>1, SendToChannels
    <3>3. \A l, x : x.type = "VoteRound1" => MessageBacked(l, x)'
      BY DEF MessageBacked
    <3>4. \A l \in Links : \A x \in OnLink(net', l) : x \in OnLink(net, l) \/ MessageBacked(l, x)'
      BY <3>1, <3>2, <3>3
    <3>5. phases[n][p] # None => RecordBacked(p, new)
      BY <1>1, <2>3 DEF AgreementInv, BackedInv, RecordBacked
    <3>6. \A k \in Nodes, r \in Phases :
            \/ phases'[k][r] \in {phases[k][r], None}
            \/ RecordBacked(r, phases[k][r])'
      <4> HIDE DEF new, q
      <4> QED  BY <1>0, <1>1, <2>1, <3>5, UpdatePhaseRecords, BackedStays
    <3> QED  BY <1>0, <3>4, <3>6, BackedFrame DEF AgreementInv
  <2> QED  BY <1>0, <2>4, <2>5, <2>6, <2>7 DEF AgreementInv
<1> QED  BY <1>4, <1>5

\* A vote count that finds a majority has a quorum of voters.
LEMMA MajorityVotes ==
  ASSUME NEW votes \in Votes, count_votes(votes, quorum_size) # None
  PROVE  /\ Cardinality(VotersFor(votes, count_votes(votes, quorum_size))) >= quorum_size
         /\ Cardinality(Voters(votes)) >= quorum_size
<1> DEFINE v == count_votes(votes, quorum_size)
<1>1. v \in StateValue /\ Cardinality(VotersFor(votes, v)) >= quorum_size
  BY DEF count_votes, StateValue
<1>2. v # None
  BY <1>1, PhaseDataAssumption DEF StateValue
<1>3. VotersFor(votes, v) \subseteq Voters(votes) /\ Voters(votes) \subseteq Nodes
  BY <1>2 DEF VotersFor, Voters
<1> QED  BY <1>1, <1>3, LargerSet

\* handle_vote_round1
LEMMA AgreementHandleVoteRound1 ==
  ASSUME NeedsAllOthers,
         AgreementInv, TypeOK', NEW src \in Nodes, NEW n \in Nodes, src # n,
         net[<<src, n>>] # <<>>, NEW m \in Messages, m = Head(net[<<src, n>>]),
         handle_vote_round1(src, n, m)
  PROVE  AgreementInv' /\ DecisionsKept
<1> DEFINE q   == Taken(<<src, n>>)
           p   == m.phase
           ph  == add_round1_vote(phases[n][p], src, m.vote)
           maj == has_round1_majority(ph, quorum_size)
<1>0. /\ TypeOK /\ UNCHANGED <<current_phase, budget>> /\ budget'.restarts = 0
      /\ <<src, n>> \in Links
  BY DEF AgreementInv, handle_vote_round1, Links
<1>1. m.type = "VoteRound1" /\ p \in Phases /\ m.vote \in StateValue
  BY MessageFields DEF handle_vote_round1
<1>2. /\ q \in Channels /\ \A l \in Links : OnLink(q, l) \subseteq OnLink(net, l)
      /\ \A l \in Links : Quiet(net[l], q[l])
      /\ q[<<src, n>>] = Tail(net[<<src, n>>])
  BY <1>0, TakenChannels, NetChannels, TakenLinks
<1>3. CountersGrow
  BY <1>0, CountersStay
<1>4. CASE phases[n][p] = None
  <2>1. net' = q /\ UNCHANGED <<phases, cast>>
    BY <1>4 DEF handle_vote_round1
  <2> QED  BY <1>0, <1>2, <1>3, <2>1, SameRecords, AgreementFrame
<1>5. CASE phases[n][p] # None
  <2>1. phases[n][p] \in PhaseRecord /\ RecordBacked(p, phases[n][p])
    BY <1>0, <1>1, <1>5 DEF TypeOK, AgreementInv, BackedInv
  <2>2. /\ ph \in PhaseRecord
        /\ ph.round1_votes = [phases[n][p].round1_votes EXCEPT ![src] = m.vote]
        /\ ph.round2_votes = phases[n][p].round2_votes
        /\ ph.decision = phases[n][p].decision
    <3>1. ph \in PhaseRecord
      BY <1>1, <2>1, VoteTypes
    <3> QED  BY <2>1, <3>1 DEF PhaseRecord, add_round1_vote
  <2>3. maj # None => maj \in StateValue /\ Cardinality(Voters(ph.round1_votes)) >= quorum_size
    BY <2>2, MajorityVotes, CountVotesType, ZenonT(60) DEF has_round1_majority, PhaseRecord, OptValue
  <2>4. \/ UNCHANGED cast /\ update_phase(n, p, ph) /\ net' = q
        \/ /\ Cardinality(Voters(ph.round1_votes)) >= quorum_size
           /\ \E r \in StateValue : proceed_to_round2(n, p, ph, r, q)
    <3>1. "VQuestion" \in StateValue
      BY DEF StateValue
    <3> QED  BY <1>5, <2>3, <3>1 DEF handle_vote_round1
  <2>5. \/ UNCHANGED cast /\ update_phase(n, p, ph) /\ net' = q
        \/ \E v \in StateValue :
             /\ Cardinality(Voters(ph.round1_votes)) >= quorum_size
             /\ update_phase(n, p, add_round2_vote(ph, n, v))
             /\ net' = Broadcast(q, n, VoteRound2(p, v, Voters(ph.round1_votes) = {}))
             /\ cast' = cast \cup {<<n, p, v>>}
    <3>1. \A r \in StateValue : round2_votes_after(r) \subseteq StateValue
      BY DEF round2_votes_after, determine_round2_vote_for_question, StateValue
    <3> QED  BY <2>4, <3>1 DEF proceed_to_round2
  <2> DEFINE ph2 == phases'[n][p]
  <2>6. /\ \A i \in Nodes, r \in Phases : (i = n /\ r = p) \/ phases'[i][r] = phases[i][r]
        /\ \/ /\ UNCHANGED cast /\ ph2 = ph /\ net' = q
           \/ \E v \in StateValue :
                /\ Cardinality(Voters(ph.round1_votes)) >= quorum_size
                /\ ph2 = add_round2_vote(ph, n, v)
                /\ net' = Broadcast(q, n, VoteRound2(p, v, Voters(ph.round1_votes) = {}))
                /\ cast' = cast \cup {<<n, p, v>>}
    <3>1. ASSUME NEW x, update_phase(n, p, x)
          PROVE  /\ \A i \in Nodes, r \in Phases : (i = n /\ r = p) \/ phases'[i][r] = phases[i][r]
                 /\ phases'[n][p] = x
      BY <1>0, <1>1, <1>5, <3>1 DEF update_phase, TypeOK
    <3> QED  BY <2>5, <3>1
  <2>7. \A v \in StateValue :
          /\ add_round2_vote(ph, n, v) \in PhaseRecord
          /\ add_round2_vote(ph, n, v).round1_votes = ph.round1_votes
          /\ add_round2_vote(ph, n, v).round2_votes = [ph.round2_votes EXCEPT ![n] = v]
          /\ add_round2_vote(ph, n, v).decision = ph.decision
    <3>1. ASSUME NEW v \in StateValue PROVE add_round2_vote(ph, n, v) \in PhaseRecord
      BY <2>2, VoteTypes
    <3> QED  BY <2>2, <3>1, ZenonT(60) DEF add_round2_vote, PhaseRecord
  <2> HIDE DEF ph
  <2>8. ph2 \in PhaseRecord /\ ph2.round1_votes = ph.round1_votes /\ ph2.decision = ph.decision
    BY <2>2, <2>6, <2>7, ZenonT(60)
  <2>9. ph2 # None
    BY <2>8, EngineAssumption
  <2>10. \A v \in StateValue, e \in BOOLEAN :
           VoteRound2(p, v, e) \in Messages /\ VoteRound2(p, v, e).type = "VoteRound2"
           /\ VoteRound2(p, v, e).phase = p /\ VoteRound2(p, v, e).vote = v
    BY <1>1, MessageTypes DEF VoteRound2
  <2>11. /\ \A l \in Links : Quiet(net[l], net'[l])
         /\ net'[<<src, n>>] = Tail(net[<<src, n>>])
    <3>1. CASE net' = q
      BY <1>2, <3>1
    <3>2. ASSUME NEW v \in StateValue, NEW e \in BOOLEAN,
                 net' = Broadcast(q, n, VoteRound2(p, v, e))
          PROVE  /\ \A l \in Links : Quiet(net[l], net'[l])
                 /\ net'[<<src, n>>] = Tail(net[<<src, n>>])
      <4>1. \A l \in Links : Quiet(net[l], net'[l])
        BY <1>0, <2>10, <3>2, BroadcastLinks
      <4>2. net'[<<src, n>>] = Tail(net[<<src, n>>])
        BY <1>0, <1>2, <3>2 DEF Broadcast
      <4> QED  BY <4>1, <4>2
    <3> QED  BY <2>6, <3>1, <3>2
  <2>12. RoundOneInv'
    <3>1. \A k \in Nodes : k # src => ph2.round1_votes[k] = phases[n][p].round1_votes[k]
      BY <2>1, <2>2, <2>8, ZenonT(60) DEF PhaseRecord, Votes
    <3>2. \A i, k \in Nodes, r \in Phases :
            phases'[i][r] # None =>
              /\ phases[i][r] # None
              /\ ~(i = n /\ r = p /\ k = src) =>
                   phases'[i][r].round1_votes[k] = phases[i][r].round1_votes[k]
      BY <1>5, <2>6, <3>1
    <3> QED  BY <1>0, <1>1, <2>11, <3>2, RoundOneCount DEF AgreementInv
  <2>13. CastInv'
    <3>1. \/ UNCHANGED cast
          \/ \E v \in StateValue :
               /\ cast' = cast \cup {<<n, p, v>>}
               /\ Cardinality(Voters(phases'[n][p].round1_votes)) >= quorum_size
      BY <2>6, <2>8
    <3> QED  BY <1>0, <1>1, <1>5, <2>6, <2>9, <2>12, <3>1, CastOnce DEF AgreementInv
  <2>14. BackedInv'
    <3>0. cast \subseteq cast'
      BY <2>6
    <3>1. \A l \in Links : \A x \in OnLink(net', l) : x \in OnLink(net, l) \/ MessageBacked(l, x)'
      <4>1. CASE net' = q
        BY <1>2, <4>1
      <4>2. ASSUME NEW v \in StateValue, NEW e \in BOOLEAN,
                   net' = Broadcast(q, n, VoteRound2(p, v, e)), <<n, p, v>> \in cast',
                   NEW l \in Links, NEW x \in OnLink(net', l), x \notin OnLink(net, l)
            PROVE  MessageBacked(l, x)'
        <5>1. x = VoteRound2(p, v, e) /\ l[1] = n
          BY <1>2, <2>10, <4>2, BroadcastChannels
        <5>2. x.type = "VoteRound2" /\ x.phase = p /\ x.vote = v
          BY <2>10, <5>1
        <5> QED  BY <4>2, <5>1, <5>2 DEF MessageBacked
      <4>3. \/ net' = q
            \/ \E v \in StateValue, e \in BOOLEAN :
                 net' = Broadcast(q, n, VoteRound2(p, v, e)) /\ <<n, p, v>> \in cast'
        BY <2>6
      <4> QED  BY <4>1, <4>2, <4>3
    <3>2. RecordBacked(p, phases[n][p])'
      <4>1. \A k \in Voters(ph2.round2_votes) : <<k, p, ph2.round2_votes[k]>> \in cast'
        <5>1. \A k \in Voters(ph.round2_votes) : <<k, p, ph.round2_votes[k]>> \in cast'
          BY <2>1, <2>2, <3>0 DEF RecordBacked
        <5>2. CASE ph2 = ph
          BY <5>1, <5>2
        <5>3. ASSUME NEW v \in StateValue, ph2 = add_round2_vote(ph, n, v), <<n, p, v>> \in cast',
                     NEW k \in Voters(ph2.round2_votes)
              PROVE  <<k, p, ph2.round2_votes[k]>> \in cast'
          <6>1. ph2.round2_votes = [ph.round2_votes EXCEPT ![n] = v]
            BY <2>7, <5>3
          <6>2. ph.round2_votes \in [Nodes -> OptValue]
            BY <2>2 DEF PhaseRecord, Votes
          <6>3. k \in Nodes /\ ph2.round2_votes[k] # None
            BY <5>3 DEF Voters
          <6>4. CASE k = n
            BY <5>3, <6>1, <6>2, <6>4
          <6>5. CASE k # n
            <7>1. ph2.round2_votes[k] = ph.round2_votes[k]
              BY <6>1, <6>2, <6>3, <6>5
            <7> QED  BY <5>1, <6>3, <7>1 DEF Voters
          <6> QED  BY <6>4, <6>5
        <5> QED  BY <2>6, <5>2, <5>3
      <4>2. \A d : d = ph2.decision /\ d # None => Backed(p, d)'
        BY <2>1, <2>2, <2>8, <3>0, BackedStays DEF RecordBacked
      <4> QED  BY <4>1, <4>2 DEF RecordBacked
    <3>3. \A k \in Nodes, r \in Phases :
            \/ phases'[k][r] \in {phases[k][r], None}
            \/ RecordBacked(r, phases[k][r])'
      BY <2>6, <3>2
    <3> QED  BY <3>0, <3>1, <3>3, BackedFrame DEF AgreementInv
  <2>15. DecisionsKept
    BY <2>2, <2>6, <2>8 DEF DecisionsKept, Decided
  <2> QED  BY <1>0, <2>12, <2>13, <2>14, <2>15 DEF AgreementInv
<1> QED  BY <1>4, <1>5

\* handle_vote_round2, with make_decision: the votes it counts were cast.
LEMMA AgreementHandleVoteRound2 ==
  ASSUME AgreementInv, TypeOK', NEW src \in Nodes, NEW n \in Nodes, src # n,
         net[<<src, n>>] # <<>>, NEW m \in Messages, m \in OnLink(net, <<src, n>>),
         handle_vote_round2(src, n, m)
  PROVE  AgreementInv' /\ DecisionsKept
<1> DEFINE q  == Taken(<<src, n>>)
           p  == m.phase
           ph == add_round2_vote(phases[n][p], src, m.vote)
           d  == has_round2_majority(ph, quorum_size)
<1>0. /\ TypeOK /\ UNCHANGED <<current_phase, cast, budget>> /\ budget'.restarts = 0
      /\ <<src, n>> \in Links
  BY DEF AgreementInv, handle_vote_round2, Links
<1>1. m.type = "VoteRound2" /\ p \in Phases /\ m.vote \in StateValue /\ <<src, p, m.vote>> \in cast
  BY <1>0, MessageFields DEF handle_vote_round2, AgreementInv, BackedInv, MessageBacked
<1>2. /\ q \in Channels /\ \A l \in Links : OnLink(q, l) \subseteq OnLink(net, l)
      /\ \A l \in Links : Quiet(net[l], q[l])
  BY <1>0, TakenChannels, NetChannels, TakenLinks
<1>3. CountersGrow
  BY <1>0, CountersStay
<1>4. CASE net' = q /\ UNCHANGED phases
  BY <1>0, <1>2, <1>3, <1>4, SameRecords, AgreementFrame
<1>5. CASE ~(net' = q /\ UNCHANGED phases)
  <2>1. /\ phases[n][p] # None
        /\ \/ update_phase(n, p, ph) /\ net' = q
           \/ d # None /\ make_decision(n, p, ph, d, q)
    BY <1>5 DEF handle_vote_round2
  <2>2. phases[n][p] \in PhaseRecord /\ RecordBacked(p, phases[n][p])
    BY <1>0, <1>1, <2>1 DEF TypeOK, AgreementInv, BackedInv
  <2>3. /\ ph \in PhaseRecord
        /\ ph.round1_votes = phases[n][p].round1_votes
        /\ ph.round2_votes = [phases[n][p].round2_votes EXCEPT ![src] = m.vote]
        /\ ph.decision = phases[n][p].decision
    <3>1. ph \in PhaseRecord
      BY <1>1, <2>2, VoteTypes
    <3> QED  BY <2>2, <3>1 DEF PhaseRecord, add_round2_vote
  <2>4. RecordBacked(p, ph)
    <3>1. phases[n][p].round2_votes \in [Nodes -> OptValue]
      BY <2>2 DEF PhaseRecord, Votes
    <3>2. ASSUME NEW k \in Voters(ph.round2_votes) PROVE <<k, p, ph.round2_votes[k]>> \in cast
      <4>1. k \in Nodes /\ ph.round2_votes[k] # None
        BY <3>2 DEF Voters
      <4>2. CASE k = src
        BY <1>1, <2>3, <3>1, <4>2
      <4>3. CASE k # src
        <5>1. ph.round2_votes[k] = phases[n][p].round2_votes[k]
          BY <2>3, <3>1, <4>1, <4>3
        <5> QED  BY <2>2, <4>1, <5>1 DEF RecordBacked, Voters
      <4> QED  BY <4>2, <4>3
    <3> QED  BY <2>2, <2>3, <3>2 DEF RecordBacked
  <2> HIDE DEF ph
  <2>5. ASSUME d # None PROVE d \in StateValue /\ Backed(p, d)
    <3>1. d \in StateValue
      BY <2>5, CountVotesType DEF has_round2_majority, OptValue
    <3>2. Cardinality(VotersFor(ph.round2_votes, d)) >= quorum_size
      BY <2>3, <2>5, MajorityVotes DEF has_round2_majority, PhaseRecord
    <3>3. VotersFor(ph.round2_votes, d) \subseteq Casters(p, d)
      BY <2>4, <2>5 DEF RecordBacked, VotersFor, Voters, Casters
    <3>4. Casters(p, d) \subseteq Nodes
      BY DEF Casters
    <3> QED  BY <3>1, <3>2, <3>3, <3>4, LargerSet DEF Backed
  <2>6. PICK ph2 \in {ph, set_decision(ph, d)} :
          /\ update_phase(n, p, ph2)
          /\ ph2 # ph => d # None
          /\ net' = q \/ (d # None /\ net' = Broadcast(q, n, Decision(p, d, ph.batch)))
    BY <2>1 DEF make_decision
  <2>7. d # None => /\ set_decision(ph, d).round1_votes = ph.round1_votes
                    /\ set_decision(ph, d).round2_votes = ph.round2_votes
                    /\ set_decision(ph, d).decision = d
    BY <2>3 DEF set_decision, PhaseRecord
  <2>8. RecordBacked(p, ph2) /\ ph2.round1_votes = phases[n][p].round1_votes
        /\ (phases[n][p].decision # None => ph2.decision # None)
    <3>1. CASE ph2 = ph
      BY <2>3, <2>4, <3>1
    <3>2. CASE ph2 # ph
      BY <2>3, <2>4, <2>5, <2>6, <2>7, <3>2 DEF RecordBacked
    <3> QED  BY <3>1, <3>2
  <2>9. Round1Kept /\ DecisionsKept
    BY <1>0, <1>1, <2>6, <2>8, UpdateKeeps
  <2>10. \A k \in Nodes, r \in Phases :
           phases'[k][r] \in {phases[k][r], None} \/ RecordBacked(r, phases'[k][r])
    BY <1>0, <1>1, <2>6, <2>8, UpdatePhaseRecords
  <2>11. /\ \A l \in Links : Quiet(net[l], net'[l])
         /\ \A l \in Links : \A x \in OnLink(net', l) : x \in OnLink(net, l) \/ MessageBacked(l, x)
    <3>1. CASE net' = q
      BY <1>2, <3>1
    <3>2. CASE d # None /\ net' = Broadcast(q, n, Decision(p, d, ph.batch))
      <4> DEFINE x == Decision(p, d, ph.batch)
      <4>1. ph.batch \in OptBatch
        BY <2>3 DEF PhaseRecord
      <4>2. x \in Messages /\ x.type = "Decision" /\ x.phase = p /\ x.decision = d
        BY <1>1, <2>5, <3>2, <4>1, MessageTypes DEF Decision
      <4>3. net' = Broadcast(q, n, x)
        BY <3>2
      <4> HIDE DEF x
      <4>4. \A l \in Links : Quiet(net[l], net'[l])
        BY <1>0, <4>2, <4>3, BroadcastLinks
      <4>5. \A l \in Links : OnLink(net', l) \subseteq OnLink(net, l) \cup {x}
        BY <1>2, <4>2, <4>3, BroadcastChannels
      <4>6. \A l : MessageBacked(l, x)
        BY <2>5, <3>2, <4>2 DEF MessageBacked
      <4> QED  BY <4>4, <4>5, <4>6
    <3> QED  BY <2>6, <3>1, <3>2
  <2> QED  BY <1>0, <1>3, <2>9, <2>10, <2>11, AgreementFrame
<1> QED  BY <1>4, <1>5

\* handle_decision: the decision it records is backed already.
LEMMA AgreementHandleDecision ==
  ASSUME AgreementInv, TypeOK', NEW src \in Nodes, NEW n \in Nodes, src # n,
         net[<<src, n>>] # <<>>, NEW m \in Messages, m \in OnLink(net, <<src, n>>),
         handle_decision(src, n, m)
  PROVE  AgreementInv' /\ DecisionsKept
<1> DEFINE p   == m.phase
           new == [set_decision(phases[n][p], m.decision) EXCEPT !.batch = OrElse(@, m.batch)]
<1>0. /\ TypeOK /\ UNCHANGED <<current_phase, cast, budget>> /\ budget'.restarts = 0
      /\ <<src, n>> \in Links /\ net' = Taken(<<src, n>>)
  BY DEF AgreementInv, handle_decision, Links
<1>1. p \in Phases /\ m.decision \in StateValue /\ Backed(p, m.decision)
  BY <1>0, MessageFields DEF handle_decision, AgreementInv, BackedInv, MessageBacked
<1>2. /\ \A l \in Links : OnLink(net', l) \subseteq OnLink(net, l)
      /\ \A l \in Links : Quiet(net[l], net'[l])
  BY <1>0, TakenChannels, NetChannels, TakenLinks
<1>3. CountersGrow
  BY <1>0, CountersStay
<1>4. CASE UNCHANGED phases
  BY <1>0, <1>2, <1>3, <1>4, SameRecords, AgreementFrame
<1>5. CASE ~UNCHANGED phases
  <2>1. update_phase(n, p, new)
    BY <1>5 DEF handle_decision
  <2>2. ASSUME phases[n][p] # None
        PROVE  /\ new.round1_votes = phases[n][p].round1_votes
               /\ new.decision # None
               /\ RecordBacked(p, new)
    <3>1. phases[n][p] \in PhaseRecord /\ RecordBacked(p, phases[n][p])
      BY <1>0, <1>1, <2>2 DEF TypeOK, AgreementInv, BackedInv
    <3>2. /\ new.round1_votes = phases[n][p].round1_votes
          /\ new.round2_votes = phases[n][p].round2_votes
          /\ new.decision = m.decision
      BY <3>1 DEF PhaseRecord, set_decision
    <3>3. m.decision # None
      BY <1>1, PhaseDataAssumption DEF StateValue
    <3> QED  BY <1>1, <3>1, <3>2, <3>3 DEF RecordBacked
  <2> HIDE DEF new
  <2>3. Round1Kept /\ DecisionsKept
    BY <1>0, <1>1, <2>1, <2>2, UpdateKeeps
  <2>4. \A k \in Nodes, r \in Phases :
          phases'[k][r] \in {phases[k][r], None} \/ RecordBacked(r, phases'[k][r])
    BY <1>0, <1>1, <2>1, <2>2, UpdatePhaseRecords
  <2> QED  BY <1>0, <1>2, <1>3, <2>3, <2>4, AgreementFrame
<1> QED  BY <1>4, <1>5

\* handle_sync_response never takes a counter back.
LEMMA SyncCounters ==
  ASSUME TypeOK, NEW src \in Nodes, NEW n \in Nodes, NEW m \in Messages,
         handle_sync_response(src, n, m)
  PROVE  CountersGrow
<1>0. \A k \in Nodes : current_phase[k] \in Nat
  BY EngineAssumption DEF TypeOK, PhaseIds
<1>1. CASE UNCHANGED current_phase
  BY <1>1, CountersStay
<1>2. CASE ~UNCHANGED current_phase
  <2> DEFINE responses == [sync_responses[n] EXCEPT
                             ![src] = [phase |-> m.phase, snapshot |-> m.snapshot]]
  <2>1. resolve_sync(n, responses)
    BY <1>2 DEF handle_sync_response
  <2>2. PICK r \in {responses[s] : s \in Voters(responses)} :
          r.phase > current_phase[n] /\ current_phase' = [current_phase EXCEPT ![n] = r.phase]
    BY <1>2, <2>1 DEF resolve_sync
  <2>3. m.phase \in PhaseIds
    BY MessageFields DEF handle_sync_response
  <2>4. r.phase \in Nat
    <3>1. PICK s \in Nodes : r = responses[s] /\ responses[s] # None
      BY <2>2 DEF Voters
    <3>2. CASE s = src
      <4>1. r = [phase |-> m.phase, snapshot |-> m.snapshot]
        BY <3>1, <3>2 DEF TypeOK
      <4> QED  BY <2>3, <4>1, EngineAssumption DEF PhaseIds
    <3>3. CASE s # src
      <4>1. r = sync_responses[n][s] /\ r # None
        BY <3>1, <3>3 DEF TypeOK
      <4>2. r \in Response
        BY <4>1 DEF TypeOK
      <4> QED  BY <4>2, EngineAssumption DEF Response, PhaseIds
    <3> QED  BY <3>2, <3>3
  <2> QED  BY <1>0, <2>2, <2>4 DEF CountersGrow, TypeOK
<1> QED  BY <1>1, <1>2

\* The sync handlers touch no record and add sync messages only.
LEMMA AgreementSync ==
  ASSUME AgreementInv, TypeOK', NEW src \in Nodes, NEW n \in Nodes, src # n,
         net[<<src, n>>] # <<>>, NEW m \in Messages,
         handle_sync_request(src, n, m) \/ handle_sync_response(src, n, m)
  PROVE  AgreementInv' /\ DecisionsKept
<1>0. /\ TypeOK /\ UNCHANGED <<phases, cast, budget>> /\ budget'.restarts = 0
      /\ <<src, n>> \in Links /\ <<n, src>> \in Links
  BY DEF AgreementInv, handle_sync_request, handle_sync_response, Links
<1>1. /\ Taken(<<src, n>>) \in Channels
      /\ \A l \in Links : OnLink(Taken(<<src, n>>), l) \subseteq OnLink(net, l)
      /\ \A l \in Links : Quiet(net[l], Taken(<<src, n>>)[l])
  BY <1>0, TakenChannels, NetChannels, TakenLinks
<1>2. CASE handle_sync_request(src, n, m)
  <2> DEFINE snapshot == IF current_phase[n] > m.phase THEN state_machine[n] ELSE None
             x        == SyncResponse(current_phase[n], snapshot)
  <2>1. x \in Messages /\ x.type = "SyncResponse"
    <3>1. snapshot \in Snapshots
      BY <1>0 DEF TypeOK, Snapshots
    <3> QED  BY <1>0, <3>1, MessageTypes DEF TypeOK, SyncResponse
  <2>2. net' = SendTo(Taken(<<src, n>>), <<n, src>>, x) /\ UNCHANGED current_phase
    BY <1>2 DEF handle_sync_request
  <2> HIDE DEF x
  <2>3. \A l \in Links : Quiet(net[l], net'[l])
    <3>1. /\ net'[<<src, n>>] = Tail(net[<<src, n>>])
          /\ net'[<<n, src>>] = Append(net[<<n, src>>], x)
          /\ \A k \in Links : k \notin {<<src, n>>, <<n, src>>} => net'[k] = net[k]
      BY <1>0, <2>2, AnswerLinks
    <3>2. x.type \notin {"Propose", "VoteRound1"}
      BY <2>1
    <3>3. Quiet(net[<<src, n>>], net'[<<src, n>>]) /\ Quiet(net[<<n, src>>], net'[<<n, src>>])
      BY <2>1, <3>1, <3>2 DEF Quiet
    <3>4. \A k \in Links : k \notin {<<src, n>>, <<n, src>>} => Quiet(net[k], net'[k])
      BY <3>1 DEF Quiet
    <3> QED  BY <3>3, <3>4
  <2>4. \A l \in Links : OnLink(net', l) \subseteq OnLink(net, l) \cup {x}
    BY <1>0, <1>1, <2>1, <2>2, SendToChannels
  <2>5. \A l : MessageBacked(l, x)
    BY <2>1 DEF MessageBacked
  <2>6. CountersGrow
    BY <1>0, <2>2, CountersStay
  <2> QED  BY <1>0, <2>3, <2>4, <2>5, <2>6, SameRecords, AgreementFrame
<1>3. CASE handle_sync_response(src, n, m)
  <2>1. net' = Taken(<<src, n>>) /\ CountersGrow
    BY <1>0, <1>3, SyncCounters DEF handle_sync_response
  <2> QED  BY <1>0, <1>1, <2>1, SameRecords, AgreementFrame
<1> QED  BY <1>2, <1>3

\* No step takes back a round 2 vote.
LEMMA CastGrows ==
  ASSUME TypeOK, [Next]_vars
  PROVE  cast \subseteq cast'
<1>1. CASE UNCHANGED cast
  BY <1>1
<1>2. ASSUME NEW src, NEW n, NEW m, handle_vote_round1(src, n, m) PROVE cast \subseteq cast'
  BY <1>2 DEF handle_vote_round1, proceed_to_round2
<1>3. ASSUME NEW l \in Links, handle_message(l[1], l[2]) PROVE cast \subseteq cast'
  BY <1>1, <1>2, <1>3 DEF handle_message, handle_propose, handle_vote_round2,
     handle_decision, handle_sync_request, handle_sync_response
<1> QED
  BY <1>1, <1>3 DEF Next, vars, process_batch_request, advance_to_next_phase, initiate_sync,
     cleanup_old_state, restart, lose

\* The invariant is inductive, and decisions are never taken back.
LEMMA AgreementNext ==
  ASSUME NeedsAllOthers, AgreementInv, [Next]_vars
  PROVE  AgreementInv' /\ DecisionsKept
<1>0. TypeOK /\ TypeOK'
  BY TypeNext DEF AgreementInv
<1>1. CASE UNCHANGED vars
  <2>1. UNCHANGED <<current_phase, phases, net, cast, budget>>
    BY <1>1 DEF vars
  <2>2. CountersGrow
    BY <1>0, <2>1, CountersStay
  <2>3. budget'.restarts = 0
    BY <2>1 DEF AgreementInv
  <2> QED  BY <1>0, <2>1, <2>2, <2>3, SameRecords, AgreementFrame DEF Quiet
<1>2. ASSUME NEW l \in Links, handle_message(l[1], l[2]) PROVE AgreementInv' /\ DecisionsKept
  BY <1>0, <1>2, HeadStep, AgreementHandlePropose, AgreementHandleVoteRound1,
     AgreementHandleVoteRound2, AgreementHandleDecision, AgreementSync
<1>3. ASSUME NEW n \in Nodes, restart(n) PROVE FALSE
  BY <1>3 DEF restart, AgreementInv
<1> QED
  BY <1>0, <1>1, <1>2, <1>3, AgreementProcess, AgreementQuietSteps DEF Next

-----------------------------------------------------------------------------
(* The theorems                                                             *)

\* A phase has one value that a quorum cast ...
OneBackedValue ==
  \A p \in Phases, v, w \in StateValue : Backed(p, v) /\ Backed(p, w) => v = w

\* ... because two quorums of casters share a node, and a node casts one value.
LEMMA BackedValues == CastInv => OneBackedValue
<1> SUFFICES ASSUME CastInv, NEW p \in Phases, NEW v \in StateValue, NEW w \in StateValue,
                    Backed(p, v), Backed(p, w)
             PROVE  v = w
  BY DEF OneBackedValue
<1> DEFINE S == Casters(p, v)
           T == Casters(p, w)
<1>1. S \subseteq Nodes /\ T \subseteq Nodes
  BY DEF Casters
<1>2. Cardinality(S) \in Nat /\ Cardinality(T) \in Nat
  BY <1>1, PhaseDataAssumption, FS_Subset, FS_CardinalityType
<1>3. Cardinality(S) >= quorum_size /\ Cardinality(T) >= quorum_size
  BY DEF Backed
<1> HIDE DEF S, T
<1>4. Cardinality(S) + Cardinality(T) > Cardinality(Nodes)
  BY <1>2, <1>3, QuorumType DEF quorum_size
<1>5. PICK n : n \in S /\ n \in T
  BY <1>1, <1>4, PhaseDataAssumption, FS_MajoritiesIntersect
<1> QED  BY <1>5 DEF CastInv, Casters, S, T

\* Agreement, in clusters where a quorum is all the others (up to four nodes)
\* and no node is restarted: make_decision and handle_decision never give two
\* nodes different decisions of a phase, whatever is lost, cleaned up, skipped
\* or synchronized.
THEOREM Agreement ==
  ASSUME NeedsAllOthers, NeverRestarted
  PROVE  Spec => []DecisionAgreement
<1>1. Init => AgreementInv
  BY AgreementInit
<1>2. AgreementInv /\ [Next]_vars => AgreementInv'
  BY AgreementNext
<1>3. AgreementInv => DecisionAgreement
  <2> SUFFICES ASSUME AgreementInv, NEW n1 \in Nodes, NEW n2 \in Nodes, NEW p \in Phases,
                      Decided(n1, p), Decided(n2, p)
               PROVE  phases[n1][p].decision = phases[n2][p].decision
    BY DEF DecisionAgreement
  <2>1. /\ phases[n1][p].decision \in StateValue /\ Backed(p, phases[n1][p].decision)
        /\ phases[n2][p].decision \in StateValue /\ Backed(p, phases[n2][p].decision)
    BY DEF AgreementInv, TypeOK, PhaseRecord, OptValue, Decided, BackedInv, RecordBacked
  <2> QED  BY <2>1, BackedValues DEF AgreementInv, OneBackedValue
<1> QED  BY <1>1, <1>2, <1>3, PTL DEF Spec

\* In the same clusters the decision of a node never changes: set_decision
\* overwrites it on every further vote and on every Decision message, always
\* with the same value.
THEOREM DecisionsAreStable ==
  ASSUME NeedsAllOthers, NeverRestarted
  PROVE  Spec => DecisionStable
<1>1. Init => AgreementInv
  BY AgreementInit
<1>2. AgreementInv /\ [Next]_vars => AgreementInv'
  BY AgreementNext
<1>3. ASSUME AgreementInv, [Next]_vars, NEW n \in Nodes, NEW p \in Phases,
             Decided(n, p), phases'[n][p] # None
      PROVE  phases'[n][p].decision = phases[n][p].decision
  <2>0. AgreementInv' /\ DecisionsKept
    BY <1>3, AgreementNext
  <2>1. phases[n][p].decision \in StateValue /\ Backed(p, phases[n][p].decision)
    BY <1>3 DEF AgreementInv, TypeOK, PhaseRecord, OptValue, Decided, BackedInv, RecordBacked
  <2>2. phases'[n][p].decision # None
    BY <1>3, <2>0 DEF DecisionsKept
  <2>3. phases'[n][p].decision \in StateValue /\ Backed(p, phases[n][p].decision)'
    BY <1>3, <2>0, <2>2 DEF AgreementInv, TypeOK, PhaseRecord, OptValue, BackedInv, RecordBacked
  <2>4. cast \subseteq cast'
    BY <1>3, CastGrows DEF AgreementInv
  <2>5. \A v \in StateValue : v = phases[n][p].decision => Backed(p, v)'
    BY <2>1, <2>4, BackedStays
  <2>6. OneBackedValue'
    <3>1. CastInv'
      BY <2>0 DEF AgreementInv
    <3>2. CastInv' => OneBackedValue'
      BY BackedValues, PTL
    <3> QED  BY <3>1, <3>2
  <2> QED  BY <2>1, <2>3, <2>5, <2>6 DEF OneBackedValue
<1>4. AgreementInv /\ [Next]_vars
        => [\A n \in Nodes, p \in Phases :
              Decided(n, p) /\ phases'[n][p] # None
                => phases'[n][p].decision = phases[n][p].decision]_vars
  BY <1>3
<1> QED  BY <1>1, <1>2, <1>4, PTL DEF Spec, DecisionStable

-----------------------------------------------------------------------------
(* Synchronization                                                          *)

\* A sync request names a phase its sender has reached.
MessageInStep(l, m) ==
  /\ m.type = "SyncRequest" => m.phase <= current_phase[l[1]]
  /\ m.type = "SyncResponse" => (m.phase > current_phase[l[2]] => m.snapshot # None)

ResponsesInStep ==
  \A n \in Nodes : \A s \in Voters(sync_responses[n]) :
    sync_responses[n][s].phase > current_phase[n] => sync_responses[n][s].snapshot # None

SyncInv ==
  /\ TypeOK
  /\ budget.restarts = 0
  /\ \A l \in Links : \A m \in OnLink(net, l) : MessageInStep(l, m)
  /\ ResponsesInStep

\* A step keeps SyncInv if the counters grow and what it adds is in step.
LEMMA SyncFrame ==
  ASSUME SyncInv, TypeOK', budget'.restarts = 0, CountersGrow,
         \A l \in Links : \A m \in OnLink(net', l) :
            m \in OnLink(net, l) \/ MessageInStep(l, m),
         \A n \in Nodes : \A s \in Voters(sync_responses'[n]) :
            \/ sync_responses'[n][s] = sync_responses[n][s]
            \/ sync_responses'[n][s].phase > current_phase[n]
                 => sync_responses'[n][s].snapshot # None
  PROVE  SyncInv'
<1>1. \A n \in Nodes : /\ current_phase[n] \in Nat /\ current_phase'[n] \in Nat
                       /\ current_phase[n] <= current_phase'[n]
  BY EngineAssumption DEF SyncInv, TypeOK, PhaseIds, CountersGrow
<1>2. \A n \in Nodes : \A i \in Nat : /\ i <= current_phase[n] => i <= current_phase'[n]
                                      /\ i > current_phase'[n] => i > current_phase[n]
  BY <1>1
<1>3. ASSUME NEW l \in Links, NEW m \in Messages, MessageInStep(l, m) PROVE MessageInStep(l, m)'
  <2>1. l[1] \in Nodes /\ l[2] \in Nodes
    BY DEF Links
  <2>2. m.type \in {"SyncRequest", "SyncResponse"} => m.phase \in Nat
    BY MessageFields, EngineAssumption DEF PhaseIds
  <2> QED  BY <1>2, <1>3, <2>1, <2>2 DEF MessageInStep
<1>4. \A l \in Links : \A m \in OnLink(net', l) : m \in Messages
  BY DEF TypeOK, OnLink
<1>5. \A l \in Links : \A m \in OnLink(net', l) : MessageInStep(l, m)'
  BY <1>3, <1>4 DEF SyncInv
<1>6. ASSUME NEW n \in Nodes, NEW s \in Voters(sync_responses'[n]),
             sync_responses'[n][s].phase > current_phase'[n]
      PROVE  sync_responses'[n][s].snapshot # None
  <2>1. sync_responses'[n][s] \in Response /\ s \in Nodes /\ sync_responses'[n][s] # None
    BY DEF TypeOK, Voters
  <2>2. sync_responses'[n][s].phase \in Nat
    BY <2>1, EngineAssumption DEF Response, PhaseIds
  <2>3. sync_responses'[n][s].phase > current_phase[n]
    BY <1>2, <1>6, <2>2
  <2> QED  BY <2>1, <2>3 DEF SyncInv, ResponsesInStep, Voters
<1> QED  BY <1>5, <1>6 DEF SyncInv, ResponsesInStep, OnLink

\* handle_sync_request sends its state whenever it is ahead of the requester,
\* who cannot have been ahead of the phase it named.
LEMMA SyncHandleRequest ==
  ASSUME SyncInv, TypeOK', NEW src \in Nodes, NEW n \in Nodes, src # n,
         net[<<src, n>>] # <<>>, NEW m \in Messages, m \in OnLink(net, <<src, n>>),
         handle_sync_request(src, n, m)
  PROVE  SyncInv'
<1> DEFINE snapshot == IF current_phase[n] > m.phase THEN state_machine[n] ELSE None
           x        == SyncResponse(current_phase[n], snapshot)
<1>0. /\ TypeOK /\ UNCHANGED <<current_phase, sync_responses, budget>> /\ budget'.restarts = 0
      /\ <<src, n>> \in Links /\ <<n, src>> \in Links
  BY DEF SyncInv, handle_sync_request, Links
<1>1. m.phase \in Nat /\ m.phase <= current_phase[src]
  BY <1>0, MessageFields, EngineAssumption DEF handle_sync_request, SyncInv, MessageInStep, PhaseIds
<1>2. current_phase[n] \in Nat /\ current_phase[src] \in Nat
  BY <1>0, EngineAssumption DEF TypeOK, PhaseIds
<1>3. state_machine[n] # None
  BY <1>0, EngineAssumption DEF TypeOK
<1>4. current_phase[n] > current_phase[src] => snapshot # None
  BY <1>1, <1>2, <1>3
<1>5. x \in Messages /\ x.type = "SyncResponse" /\ x.phase = current_phase[n] /\ x.snapshot = snapshot
  <2>1. snapshot \in Snapshots
    BY <1>0 DEF TypeOK, Snapshots
  <2> QED  BY <1>0, <2>1, MessageTypes DEF TypeOK, SyncResponse
<1>6. MessageInStep(<<n, src>>, x)
  BY <1>4, <1>5 DEF MessageInStep
<1>7. net' = SendTo(Taken(<<src, n>>), <<n, src>>, x)
  BY DEF handle_sync_request
<1> HIDE DEF x
<1>8. \A l \in Links : OnLink(Taken(<<src, n>>), l) \subseteq OnLink(net, l)
      /\ Taken(<<src, n>>) \in Channels
  BY <1>0, TakenChannels, NetChannels
<1>9. \A l \in Links : \A y \in OnLink(net', l) : y \in OnLink(net, l) \/ MessageInStep(l, y)
  BY <1>0, <1>5, <1>6, <1>7, <1>8, SendToChannels
<1>10. CountersGrow
  BY <1>0, CountersStay
<1> QED  BY <1>0, <1>9, <1>10, SyncFrame

\* handle_sync_response stores a response that is in step, or clears them.
LEMMA SyncHandleResponse ==
  ASSUME SyncInv, TypeOK', NEW src \in Nodes, NEW n \in Nodes, src # n,
         net[<<src, n>>] # <<>>, NEW m \in Messages, m \in OnLink(net, <<src, n>>),
         handle_sync_response(src, n, m)
  PROVE  SyncInv'
<1> DEFINE x         == [phase |-> m.phase, snapshot |-> m.snapshot]
           responses == [sync_responses[n] EXCEPT ![src] = x]
<1>0. /\ TypeOK /\ UNCHANGED budget /\ budget'.restarts = 0 /\ <<src, n>> \in Links
      /\ net' = Taken(<<src, n>>)
  BY DEF SyncInv, handle_sync_response, Links
<1>1. m.phase > current_phase[n] => m.snapshot # None
  BY <1>0 DEF handle_sync_response, SyncInv, MessageInStep
<1>2. CountersGrow
  BY <1>0, SyncCounters
<1>3. \A l \in Links : OnLink(net', l) \subseteq OnLink(net, l)
  BY <1>0, TakenChannels, NetChannels
<1>4. sync_responses' \in {[sync_responses EXCEPT ![n] = NoResponses],
                           [sync_responses EXCEPT ![n] = responses]}
  BY DEF handle_sync_response, resolve_sync
<1>5. ASSUME NEW k \in Nodes, NEW s \in Voters(sync_responses'[k])
      PROVE  \/ sync_responses'[k][s] = sync_responses[k][s]
             \/ sync_responses'[k][s].phase > current_phase[k]
                  => sync_responses'[k][s].snapshot # None
  <2>0. s \in Nodes /\ sync_responses'[k][s] # None
    BY <1>5 DEF Voters
  <2>1. CASE k # n
    BY <1>0, <1>4, <2>1 DEF TypeOK
  <2>2. CASE k = n /\ sync_responses' = [sync_responses EXCEPT ![n] = NoResponses]
    BY <1>0, <2>0, <2>2 DEF TypeOK, NoResponses
  <2>3. CASE k = n /\ s # src /\ sync_responses' = [sync_responses EXCEPT ![n] = responses]
    BY <1>0, <2>0, <2>3 DEF TypeOK
  <2>4. CASE k = n /\ s = src /\ sync_responses' = [sync_responses EXCEPT ![n] = responses]
    <3>1. sync_responses'[k][s] = x
      BY <1>0, <2>0, <2>4 DEF TypeOK
    <3>2. x.phase = m.phase /\ x.snapshot = m.snapshot
      OBVIOUS
    <3> HIDE DEF x
    <3> QED  BY <1>1, <2>4, <3>1, <3>2
  <2> QED  BY <1>4, <2>1, <2>2, <2>3, <2>4
<1> QED  BY <1>0, <1>2, <1>3, <1>5, SyncFrame

\* What the handlers of the voting rounds do to the channels.
LEMMA VotingSends ==
  ASSUME TypeOK, NEW src \in Nodes, NEW n \in Nodes, NEW m \in Messages,
         \/ handle_propose(src, n, m) \/ handle_vote_round1(src, n, m)
         \/ handle_vote_round2(src, n, m) \/ handle_decision(src, n, m)
  PROVE  \/ net' = Taken(<<src, n>>)
         \/ \E x \in Messages :
              /\ x.type \in {"VoteRound1", "VoteRound2", "Decision"}
              /\ \/ net' = SendTo(Taken(<<src, n>>), <<n, src>>, x)
                 \/ net' = Broadcast(Taken(<<src, n>>), n, x)
<1> DEFINE q == Taken(<<src, n>>)
<1>1. CASE handle_propose(src, n, m)
  <2>1. m.phase \in Phases /\ m.value \in StateValue
    BY <1>1, MessageFields DEF handle_propose
  <2>2. \/ net' = q
        \/ \E vote \in StateValue : net' = SendTo(q, <<n, src>>, VoteRound1(m.phase, vote))
    BY <1>1, <2>1 DEF handle_propose, determine_round1_vote, randomized_vote, StateValue
  <2>3. \A vote \in StateValue : /\ VoteRound1(m.phase, vote) \in Messages
                                 /\ VoteRound1(m.phase, vote).type = "VoteRound1"
    BY <2>1, MessageTypes DEF VoteRound1
  <2> QED  BY <2>2, <2>3
<1>2. CASE handle_vote_round1(src, n, m)
  <2>1. m.phase \in Phases
    BY <1>2, MessageFields DEF handle_vote_round1
  <2>2. \A r, v : v \in round2_votes_after(r) /\ r \in OptValue /\ r # None => v \in StateValue
    BY DEF round2_votes_after, determine_round2_vote_for_question, StateValue, OptValue
  <2>3. /\ \A ph : has_round1_majority(ph, quorum_size) \in OptValue
        /\ "VQuestion" \in OptValue /\ "VQuestion" # None
    BY CountVotesType, PhaseDataAssumption DEF has_round1_majority, OptValue, StateValue
  <2>4. \/ net' = q
        \/ \E v \in StateValue, e \in BOOLEAN : net' = Broadcast(q, n, VoteRound2(m.phase, v, e))
    BY <1>2, <2>2, <2>3 DEF handle_vote_round1, proceed_to_round2
  <2>5. \A v \in StateValue, e \in BOOLEAN : /\ VoteRound2(m.phase, v, e) \in Messages
                                             /\ VoteRound2(m.phase, v, e).type = "VoteRound2"
    BY <2>1, MessageTypes DEF VoteRound2
  <2> QED  BY <2>4, <2>5
<1>3. CASE handle_vote_round2(src, n, m)
  <2> DEFINE p  == m.phase
             ph == add_round2_vote(phases[n][p], src, m.vote)
             d  == has_round2_majority(ph, quorum_size)
             x  == Decision(p, d, ph.batch)
  <2>1. p \in Phases /\ m.vote \in StateValue
    BY <1>3, MessageFields DEF handle_vote_round2
  <2>2. net' = q \/ (phases[n][p] # None /\ d # None /\ net' = Broadcast(q, n, x))
    BY <1>3 DEF handle_vote_round2, make_decision
  <2>3. d # None => d \in StateValue
    BY CountVotesType DEF has_round2_majority, OptValue
  <2>4. phases[n][p] # None => ph \in PhaseRecord
    BY <2>1, VoteTypes DEF TypeOK
  <2>5. phases[n][p] # None => ph.batch \in OptBatch
    BY <2>4 DEF PhaseRecord
  <2>6. phases[n][p] # None /\ d # None => x \in Messages /\ x.type = "Decision"
    BY <2>1, <2>3, <2>5, MessageTypes DEF Decision
  <2> QED  BY <2>2, <2>6
<1>4. CASE handle_decision(src, n, m)
  BY <1>4 DEF handle_decision
<1> QED  BY <1>1, <1>2, <1>3, <1>4

\* The handlers of the voting rounds add no sync messages.
LEMMA SyncVoting ==
  ASSUME SyncInv, TypeOK', NEW src \in Nodes, NEW n \in Nodes, src # n,
         net[<<src, n>>] # <<>>, NEW m \in Messages,
         \/ handle_propose(src, n, m) \/ handle_vote_round1(src, n, m)
         \/ handle_vote_round2(src, n, m) \/ handle_decision(src, n, m)
  PROVE  SyncInv'
<1> DEFINE q == Taken(<<src, n>>)
<1>0. /\ TypeOK /\ UNCHANGED <<current_phase, sync_responses, budget>> /\ budget'.restarts = 0
      /\ <<src, n>> \in Links /\ <<n, src>> \in Links
  BY DEF SyncInv, Links, handle_propose, handle_vote_round1, handle_vote_round2, handle_decision
<1>1. q \in Channels /\ \A l \in Links : OnLink(q, l) \subseteq OnLink(net, l)
  BY <1>0, TakenChannels, NetChannels
<1>2. \/ net' = q
      \/ \E x \in Messages : /\ x.type \in {"VoteRound1", "VoteRound2", "Decision"}
                             /\ net' = SendTo(q, <<n, src>>, x) \/ net' = Broadcast(q, n, x)
  BY <1>0, VotingSends
<1>3. ASSUME NEW x \in Messages,
             net' = SendTo(q, <<n, src>>, x) \/ net' = Broadcast(q, n, x)
      PROVE  \A l \in Links : \A y \in OnLink(net', l) : y \in OnLink(net, l) \/ y = x
  BY <1>0, <1>1, <1>3, SendToChannels, BroadcastChannels
<1>4. \A l, x : x.type \in {"VoteRound1", "VoteRound2", "Decision"} => MessageInStep(l, x)
  BY DEF MessageInStep
<1>5. \A l \in Links : \A y \in OnLink(net', l) : y \in OnLink(net, l) \/ MessageInStep(l, y)
  BY <1>1, <1>2, <1>3, <1>4
<1>6. CountersGrow
  BY <1>0, CountersStay
<1> QED  BY <1>0, <1>5, <1>6, SyncFrame

\* The commands, the cleanup and the loss of a message.
LEMMA SyncOthers ==
  ASSUME SyncInv, TypeOK',
         \/ \E n \in Nodes, b \in Batches : process_batch_request(n, b)
         \/ \E n \in Nodes : advance_to_next_phase(n)
         \/ \E n \in Nodes : initiate_sync(n)
         \/ \E n \in Nodes : cleanup_old_state(n)
         \/ \E l \in Links : lose(l)
  PROVE  SyncInv'
<1>0. /\ TypeOK /\ budget \in Budget /\ budget.restarts = 0
      /\ \A k \in Nodes : current_phase[k] \in Nat
  <2>1. TypeOK /\ budget.restarts = 0
    BY DEF SyncInv
  <2>2. budget \in Budget /\ current_phase \in [Nodes -> PhaseIds]
    BY <2>1 DEF TypeOK
  <2>3. \A k \in PhaseIds : k \in Nat
    BY EngineAssumption DEF PhaseIds
  <2> QED  BY <2>1, <2>2, <2>3
<1>1. UNCHANGED sync_responses /\ budget'.restarts = 0
  BY <1>0 DEF process_batch_request, advance_to_next_phase, initiate_sync,
     cleanup_old_state, lose, Budget
<1>2. CountersGrow
  <2>1. CASE UNCHANGED current_phase
    BY <1>0, <2>1, CountersStay
  <2>2. ASSUME NEW n \in Nodes, current_phase' = [current_phase EXCEPT ![n] = current_phase[n] + 1]
        PROVE  CountersGrow
    BY <1>0, <2>2 DEF CountersGrow, TypeOK
  <2> QED
    BY <2>1, <2>2 DEF process_batch_request, advance_to_next_phase, initiate_sync,
       cleanup_old_state, lose
<1>3. \A l \in Links : \A m \in OnLink(net', l) : m \in OnLink(net, l) \/ MessageInStep(l, m)
  <2>1. CASE UNCHANGED net
    BY <2>1
  <2>2. ASSUME NEW k \in Links, lose(k), NEW l \in Links PROVE OnLink(net', l) \subseteq OnLink(net, l)
    BY <1>0, <2>2, TakenChannels, NetChannels DEF lose
  <2>3. ASSUME NEW n \in Nodes, initiate_sync(n), NEW l \in Links, NEW y \in OnLink(net', l)
        PROVE  y \in OnLink(net, l) \/ MessageInStep(l, y)
    <3> DEFINE m == SyncRequest(current_phase[n])
    <3>1. m.type = "SyncRequest" /\ m.phase = current_phase[n] /\ m.phase <= current_phase[n]
      BY <1>0 DEF SyncRequest
    <3>2. net[l] \in Seq(Messages) /\ (net'[l] = net[l] \/ (l[1] = n /\ net'[l] = Append(net[l], m)))
      BY <1>0, <2>3 DEF initiate_sync, TypeOK
    <3> HIDE DEF m
    <3>3. CASE net'[l] = net[l]
      BY <2>3, <3>3 DEF OnLink
    <3>4. CASE l[1] = n /\ net'[l] = Append(net[l], m)
      <4>1. y \in OnLink(net, l) \/ y = m
        BY <2>3, <3>2, <3>4 DEF OnLink
      <4> QED  BY <3>1, <3>4, <4>1 DEF MessageInStep
    <3> QED  BY <3>2, <3>3, <3>4
  <2>4. ASSUME NEW n \in Nodes, NEW b \in Batches, process_batch_request(n, b), ~UNCHANGED net,
               NEW l \in Links, NEW y \in OnLink(net', l)
        PROVE  y \in OnLink(net, l) \/ MessageInStep(l, y)
    <3> DEFINE m == Propose(current_phase[n] + 1, "V1", b)
    <3>1. m.type = "Propose"
      BY DEF Propose
    <3>2. net[l] \in Seq(Messages) /\ net'[l] \in {net[l], Append(net[l], m)}
      BY <1>0, <2>4 DEF process_batch_request, TypeOK, Broadcast
    <3> HIDE DEF m
    <3>3. CASE net'[l] = net[l]
      BY <2>4, <3>3 DEF OnLink
    <3>4. CASE net'[l] = Append(net[l], m)
      <4>1. y \in OnLink(net, l) \/ y = m
        BY <2>4, <3>2, <3>4 DEF OnLink
      <4> QED  BY <3>1, <4>1 DEF MessageInStep
    <3> QED  BY <3>2, <3>3, <3>4
  <2> QED  BY <2>1, <2>2, <2>3, <2>4 DEF advance_to_next_phase, cleanup_old_state
<1> QED  BY <1>0, <1>1, <1>2, <1>3, SyncFrame

\* A node that is not restarted never adopts a phase without the state that
\* goes with it: the response to a request of it that is ahead of the node
\* when it arrives carries a snapshot, however many phases the node or the
\* responder advanced in between.
THEOREM SyncsBringState ==
  ASSUME NeverRestarted
  PROVE  Spec => []SyncBringsState
<1>1. Init => SyncInv
  <2> SUFFICES ASSUME Init PROVE SyncInv
    OBVIOUS
  <2>1. TypeOK /\ budget.restarts = 0
    BY TypeInit DEF Init, NeverRestarted
  <2>2. \A l \in Links : OnLink(net, l) = {}
    BY DEF Init, OnLink
  <2>3. \A n \in Nodes : Voters(sync_responses[n]) = {}
    BY DEF Init, NoResponses, Voters
  <2> QED  BY <2>1, <2>2, <2>3 DEF SyncInv, ResponsesInStep
<1>2. SyncInv /\ [Next]_vars => SyncInv'
  <2> SUFFICES ASSUME SyncInv, [Next]_vars PROVE SyncInv'
    OBVIOUS
  <2>0. TypeOK /\ TypeOK'
    BY TypeNext DEF SyncInv
  <2>1. CASE UNCHANGED vars
    <3>1. UNCHANGED <<net, sync_responses, budget, current_phase>>
      BY <2>1 DEF vars
    <3>2. CountersGrow /\ budget'.restarts = 0
      BY <2>0, <3>1, CountersStay DEF SyncInv
    <3> QED  BY <2>0, <3>1, <3>2, SyncFrame
  <2>2. ASSUME NEW l \in Links, handle_message(l[1], l[2]) PROVE SyncInv'
    BY <2>0, <2>2, HeadStep, SyncVoting, SyncHandleRequest, SyncHandleResponse
  <2>3. ASSUME NEW n \in Nodes, restart(n) PROVE FALSE
    BY <2>3 DEF restart, SyncInv
  <2> QED  BY <2>0, <2>1, <2>2, <2>3, SyncOthers DEF Next
<1>3. SyncInv => SyncBringsState
  BY DEF SyncInv, ResponsesInStep, MessageInStep, SyncBringsState
<1> QED  BY <1>1, <1>2, <1>3, PTL DEF Spec
-----------------------------------------------------------------------------
(***************************************************************************)
(* What an engine cluster has done when it comes to rest, if no message is *)
(* lost, no node restarts and no record is cleaned up: every proposer has  *)
(* cast its round 2 vote, and where a quorum cast the same vote every node *)
(* has the decision.                                                       *)
(***************************************************************************)

\* Nothing that was sent or recorded disappears.
NothingLost == \A b \in Budgets : b.restarts = 0 /\ b.cleanups = 0 /\ b.lost = 0

-----------------------------------------------------------------------------
(* The inductive invariants                                                 *)

\* No budget is left for a disturbance, and the records are where they were.
Undamaged ==
  /\ budget.restarts = 0 /\ budget.cleanups = 0 /\ budget.lost = 0
  /\ \A n \in Nodes, p \in Recorded : phases[n][p] # None

\* A proposer's request for a round 1 vote is on its way, answered or counted ...
AskedInv ==
  \A p \in Recorded : \A n \in Proposers(p) : \A k \in Nodes : n # k =>
    \/ Carries(net[<<n, k>>], "Propose", p)
    \/ Carries(net[<<k, n>>], "VoteRound1", p)
    \/ phases[n][p].round1_votes[k] # None

\* ... and a node that has a quorum of round 1 votes has cast its round 2 vote.
EnoughInv ==
  \A n \in Nodes, p \in Recorded :
    Cardinality(Voters(phases[n][p].round1_votes)) >= quorum_size
      => phases[n][p].round2_votes[n] # None

RestInv ==
  /\ TypeOK
  /\ Undamaged
  /\ \A n \in Nodes : has_quorum(n)
  /\ AskedInv
  /\ EnoughInv

\* A round 2 vote that was cast is in the record of its node, whose counter has
\* reached the phase, and at or on its way to every other node.
CastKnown ==
  \A n \in Nodes, p \in Recorded, v \in StateValue :
    <<n, p, v>> \in cast =>
      /\ p <= current_phase[n]
      /\ phases[n][p].round2_votes[n] = v
      /\ \A k \in Nodes : n # k =>
           \/ phases[k][p].round2_votes[n] = v
           \/ Carries(net[<<n, k>>], "VoteRound2", p)

\* No round 2 vote on its way is rejected by validate.
VotesValid ==
  \A l \in Links : \A m \in OnLink(net, l) : m.type = "VoteRound2" => ~m.empty

\* Record ph has a quorum of round 2 votes for v.
Quorum2(ph, v) == Cardinality(VotersFor(ph.round2_votes, v)) >= quorum_size

\* A node that has a quorum of votes has decided, unless its own vote completed
\* it: proceed_to_round2 records that vote and does not count.
QuorumDecides ==
  \A n \in Nodes, p \in Recorded, v \in StateValue :
    Quorum2(phases[n][p], v) /\ ~Decided(n, p) => phases[n][p].round2_votes[n] = v

\* A node has the decision, or a Decision message is on its way to it.
Informed(p, k) ==
  \/ Decided(k, p)
  \/ \E s \in Nodes : s # k /\ Carries(net[<<s, k>>], "Decision", p)

\* Of two nodes with a quorum of votes for v that include both of theirs, the
\* one that voted first got the vote of the other in a message, counted, and
\* told everybody.
BothVoted(ph, i, j, v) ==
  Quorum2(ph, v) /\ ph.round2_votes[i] = v /\ ph.round2_votes[j] = v

PairInforms ==
  \A p \in Recorded, v \in StateValue, i, j \in Nodes :
    i # j /\ BothVoted(phases[i][p], i, j, v) /\ BothVoted(phases[j][p], i, j, v)
      => \A k \in Nodes : Informed(p, k)

SpreadInv ==
  /\ Undamaged
  /\ CastKnown
  /\ VotesValid
  /\ QuorumDecides
  /\ PairInforms

-----------------------------------------------------------------------------
(* What stays in the channels and in the records                            *)

\* Only the message that is taken leaves a channel.
LEMMA TailKeeps ==
  ASSUME NEW s \in Seq(Messages), s # <<>>
  PROVE  \A t, p : Carries(s, t, p) =>
           Carries(Tail(s), t, p) \/ (t = Head(s).type /\ p = Head(s).phase)
<1> SUFFICES ASSUME NEW t, NEW p, Carries(s, t, p), ~(t = Head(s).type /\ p = Head(s).phase)
             PROVE  Carries(Tail(s), t, p)
  OBVIOUS
<1>1. PICK i \in 1..Len(s) : s[i].type = t /\ s[i].phase = p
  BY DEF Carries
<1>2. i # 1 /\ Len(s) \in Nat /\ Len(Tail(s)) = Len(s) - 1
  BY <1>1
<1>3. i - 1 \in 1..Len(Tail(s)) /\ Tail(s)[i - 1] = s[i]
  BY <1>2
<1> QED  BY <1>1, <1>3 DEF Carries

\* A channel that grows keeps its messages.
LEMMA AppendKeeps ==
  ASSUME NEW s \in Seq(Messages), NEW s2, s2 = s \/ \E x \in Messages : s2 = Append(s, x),
         NEW t, NEW p, Carries(s, t, p)
  PROVE  Carries(s2, t, p)
<1>1. ASSUME NEW x \in Messages PROVE Carries(Append(s, x), t, p)
  BY AppendMessages
<1> QED  BY <1>1

\* A handler takes the message it handles and no other.
LEMMA HandlerKeeps ==
  ASSUME TypeOK, NEW src \in Nodes, NEW n \in Nodes, src # n, net[<<src, n>>] # <<>>,
         NEW m \in Messages, m = Head(net[<<src, n>>]),
         \/ handle_propose(src, n, m) \/ handle_vote_round1(src, n, m)
         \/ handle_vote_round2(src, n, m) \/ handle_decision(src, n, m)
         \/ handle_sync_request(src, n, m) \/ handle_sync_response(src, n, m)
  PROVE  \A l \in Links : \A t, p : Carries(net[l], t, p) =>
           Carries(net'[l], t, p) \/ (l = <<src, n>> /\ t = m.type /\ p = m.phase)
<1> DEFINE q == Taken(<<src, n>>)
<1>0. <<src, n>> \in Links /\ <<n, src>> \in Links /\ \A l \in Links : net[l] \in Seq(Messages)
  BY DEF Links, TypeOK
<1>1. \/ net' = q
      \/ \E x \in Messages : net' = SendTo(q, <<n, src>>, x) \/ net' = Broadcast(q, n, x)
  <2>1. CASE handle_sync_request(src, n, m)
    <3> DEFINE snapshot == IF current_phase[n] > m.phase THEN state_machine[n] ELSE None
    <3>1. snapshot \in Snapshots
      BY DEF TypeOK, Snapshots
    <3>2. SyncResponse(current_phase[n], snapshot) \in Messages
      BY <3>1, MessageTypes DEF TypeOK
    <3> QED  BY <2>1, <3>2 DEF handle_sync_request
  <2>2. CASE handle_sync_response(src, n, m)
    BY <2>2 DEF handle_sync_response
  <2> QED  BY <2>1, <2>2, VotingSends
<1>2. \A l \in Links : \A t, p : Carries(net[l], t, p) =>
        Carries(q[l], t, p) \/ (l = <<src, n>> /\ t = m.type /\ p = m.phase)
  <2>1. q[<<src, n>>] = Tail(net[<<src, n>>])
        /\ \A l \in Links : l # <<src, n>> => q[l] = net[l]
    BY TakenLinks
  <2> QED  BY <1>0, <2>1, TailKeeps
<1>3. q \in Channels
  BY <1>0, TakenChannels, NetChannels
<1>4. \A l \in Links : net'[l] = q[l] \/ \E x \in Messages : net'[l] = Append(q[l], x)
  BY <1>0, <1>1, <1>3 DEF SendTo, Broadcast, Channels
<1>5. \A l \in Links : \A t, p : Carries(q[l], t, p) => Carries(net'[l], t, p)
  <2>1. \A l \in Links : q[l] \in Seq(Messages)
    BY <1>3 DEF Channels
  <2> QED  BY <1>4, <2>1, AppendKeeps
<1> QED  BY <1>2, <1>5

\* The commands take no message.
LEMMA CommandKeeps ==
  ASSUME TypeOK,
         \/ \E n \in Nodes, b \in Batches : process_batch_request(n, b)
         \/ \E n \in Nodes : advance_to_next_phase(n)
         \/ \E n \in Nodes : initiate_sync(n)
  PROVE  \A l \in Links : \A t, p : Carries(net[l], t, p) => Carries(net'[l], t, p)
<1>1. ASSUME NEW l \in Links
      PROVE  net'[l] = net[l] \/ \E x \in Messages : net'[l] = Append(net[l], x)
  <2>1. ASSUME NEW n \in Nodes, advance_to_next_phase(n) PROVE net'[l] = net[l]
    BY <2>1 DEF advance_to_next_phase
  <2>2. ASSUME NEW n \in Nodes, initiate_sync(n)
        PROVE  net'[l] = net[l] \/ \E x \in Messages : net'[l] = Append(net[l], x)
    <3>1. SyncRequest(current_phase[n]) \in Messages
      BY MessageTypes DEF TypeOK
    <3> QED  BY <2>2, <3>1 DEF initiate_sync
  <2>3. ASSUME NEW n \in Nodes, NEW b \in Batches, process_batch_request(n, b)
        PROVE  net'[l] = net[l] \/ \E x \in Messages : net'[l] = Append(net[l], x)
    <3>1. CASE UNCHANGED net
      BY <3>1
    <3>2. CASE ~UNCHANGED net
      <4>1. current_phase[n] < MaxPhase
            /\ net' = Broadcast(net, n, Propose(current_phase[n] + 1, "V1", b))
        BY <2>3, <3>2 DEF process_batch_request
      <4>2. current_phase[n] + 1 \in Phases /\ "V1" \in StateValue
        BY <4>1, EngineAssumption DEF TypeOK, PhaseIds, Phases, StateValue
      <4>3. Propose(current_phase[n] + 1, "V1", b) \in Messages
        BY <4>2, MessageTypes
      <4> QED  BY <4>1, <4>3 DEF Broadcast
    <3> QED  BY <3>1, <3>2
  <2> QED  BY <2>1, <2>2, <2>3
<1>2. \A l \in Links : net[l] \in Seq(Messages)
  BY DEF TypeOK
<1> QED  BY <1>1, <1>2, AppendKeeps

\* update_phase replaces one record, if it is there.
LEMMA UpdateExact ==
  ASSUME TypeOK, NEW n \in Nodes, NEW p \in Phases, NEW ph, update_phase(n, p, ph)
  PROVE  /\ \A i \in Nodes, r \in Phases : (i = n /\ r = p) \/ phases'[i][r] = phases[i][r]
         /\ phases'[n][p] = IF phases[n][p] = None THEN None ELSE ph
BY DEF update_phase, TypeOK

\* The budgets that are used up stay used up.
LEMMA BudgetStays ==
  ASSUME TypeOK, Undamaged, Next
  PROVE  /\ budget'.restarts = 0 /\ budget'.cleanups = 0 /\ budget'.lost = 0
         /\ \/ \E n \in Nodes, b \in Batches : process_batch_request(n, b)
            \/ \E n \in Nodes : advance_to_next_phase(n)
            \/ \E n \in Nodes : initiate_sync(n)
            \/ \E l \in Links : handle_message(l[1], l[2])
<1>0. budget \in Budget /\ budget.restarts = 0 /\ budget.cleanups = 0 /\ budget.lost = 0
  BY DEF TypeOK, Undamaged
<1>1. /\ ~\E n \in Nodes : cleanup_old_state(n)
      /\ ~\E n \in Nodes : restart(n)
      /\ ~\E l \in Links : lose(l)
  BY <1>0 DEF cleanup_old_state, restart, lose
<1>2. ASSUME NEW n \in Nodes, NEW b \in Batches, process_batch_request(n, b) PROVE UNCHANGED budget
  BY <1>2 DEF process_batch_request
<1>3. ASSUME NEW l \in Links, handle_message(l[1], l[2]) PROVE UNCHANGED budget
  BY <1>3 DEF handle_message, handle_propose, handle_vote_round1, handle_vote_round2,
     handle_decision, handle_sync_request, handle_sync_response
<1>4. ASSUME NEW n \in Nodes, advance_to_next_phase(n) \/ initiate_sync(n)
      PROVE  budget'.restarts = 0 /\ budget'.cleanups = 0 /\ budget'.lost = 0
  BY <1>0, <1>4 DEF advance_to_next_phase, initiate_sync, Budget
<1> QED  BY <1>0, <1>1, <1>2, <1>3, <1>4 DEF Next

-----------------------------------------------------------------------------
(* Every proposer votes                                                     *)

\* Every node starts connected to a quorum, and clients submit batches that
\* CommandBatch::validate accepts.
WellConnected == \A V \in Views : Cardinality(V) >= quorum_size
BatchesValid  == ValidBatches = Batches

\* A step that proposes nothing, counts no round 1 vote, and takes no proposal
\* and no round 1 vote from a channel.
LEMMA RestFrame ==
  ASSUME RestInv, TypeOK', budget'.restarts = 0, budget'.cleanups = 0, budget'.lost = 0,
         UNCHANGED <<active_nodes, proposals>>,
         \A n \in Nodes, p \in Recorded :
           /\ phases'[n][p] # None
           /\ phases'[n][p].round1_votes = phases[n][p].round1_votes
           /\ phases[n][p].round2_votes[n] # None => phases'[n][p].round2_votes[n] # None,
         \A l \in Links : \A p \in Recorded :
           /\ Carries(net[l], "Propose", p) => Carries(net'[l], "Propose", p)
           /\ Carries(net[l], "VoteRound1", p) => Carries(net'[l], "VoteRound1", p)
  PROVE  RestInv'
<1>1. Undamaged' /\ \A n \in Nodes : has_quorum(n)'
  BY DEF RestInv, Undamaged, has_quorum
<1>2. AskedInv'
  <2>1. \A p : Proposers(p)' = Proposers(p)
    BY DEF Proposers
  <2>2. ASSUME NEW p \in Recorded, NEW n \in Proposers(p), NEW k \in Nodes, n # k
        PROVE  \/ Carries(net'[<<n, k>>], "Propose", p)
               \/ Carries(net'[<<k, n>>], "VoteRound1", p)
               \/ phases'[n][p].round1_votes[k] # None
    <3>1. n \in Nodes /\ <<n, k>> \in Links /\ <<k, n>> \in Links
      BY <2>2 DEF Proposers, Links
    <3> QED  BY <2>2, <3>1 DEF RestInv, AskedInv
  <2> QED  BY <2>1, <2>2 DEF AskedInv
<1>3. EnoughInv'
  BY DEF RestInv, EnoughInv
<1> QED  BY <1>1, <1>2, <1>3 DEF RestInv

\* The records of recorded phases are PhaseData records.
LEMMA RecordsThere ==
  ASSUME TypeOK, Undamaged, NEW n \in Nodes, NEW p \in Recorded
  PROVE  p \in Phases /\ phases[n][p] # None /\ phases[n][p] \in PhaseRecord
BY EngineAssumption DEF TypeOK, Undamaged

\* propose_batch asks every other node.
LEMMA RestProcess ==
  ASSUME RestInv, TypeOK', NEW n \in Nodes, NEW b \in Batches, process_batch_request(n, b)
  PROVE  RestInv'
<1> DEFINE p  == current_phase[n] + 1
           ph == [phases[n][p] EXCEPT !.proposed_value = "V1", !.batch = b]
           m  == Propose(p, "V1", b)
<1>0. /\ TypeOK /\ Undamaged /\ UNCHANGED <<active_nodes, budget>>
      /\ budget'.restarts = 0 /\ budget'.cleanups = 0 /\ budget'.lost = 0
  BY DEF RestInv, Undamaged, process_batch_request
<1>1. /\ current_phase[n] < MaxPhase /\ update_phase(n, p, ph)
      /\ net' = Broadcast(net, n, m) /\ proposals' = proposals \cup {<<n, p, b>>}
  BY DEF process_batch_request, RestInv
<1>2. p \in Phases
  BY <1>0, <1>1, EngineAssumption DEF TypeOK, PhaseIds, Phases
<1>3. ASSUME NEW k \in Nodes, NEW r \in Recorded
      PROVE  /\ phases'[k][r] # None
             /\ phases'[k][r].round1_votes = phases[k][r].round1_votes
             /\ phases'[k][r].round2_votes = phases[k][r].round2_votes
  <2>1. r \in Phases /\ phases[k][r] # None /\ phases[k][r] \in PhaseRecord
    BY <1>0, RecordsThere
  <2>2. CASE k = n /\ r = p
    <3>1. phases'[k][r] = ph
      BY <1>0, <1>1, <1>2, <2>1, <2>2, UpdateExact
    <3>2. ph \in PhaseRecord
      BY <2>1, <2>2, RecordTypes DEF StateValue, OptBatch
    <3>3. ph # None
      BY <3>2, EngineAssumption
    <3> QED  BY <2>1, <2>2, <3>1, <3>3 DEF PhaseRecord
  <2>3. CASE ~(k = n /\ r = p)
    <3>1. phases'[k][r] = phases[k][r]
      BY <1>0, <1>1, <1>2, <2>1, <2>3, UpdateExact
    <3> QED  BY <2>1, <3>1
  <2> QED  BY <2>2, <2>3
<1>4. Undamaged' /\ \A k \in Nodes : has_quorum(k)'
  BY <1>0, <1>3 DEF RestInv, Undamaged, has_quorum
<1>5. AskedInv'
  <2>1. \A l \in Links : \A t, r : Carries(net[l], t, r) => Carries(net'[l], t, r)
    BY <1>0, CommandKeeps
  <2>2. ASSUME NEW k \in Nodes, k # n PROVE Carries(net'[<<n, k>>], "Propose", p)
    <3>1. m \in Messages /\ m.type = "Propose" /\ m.phase = p
      BY <1>2, MessageTypes DEF Propose, StateValue
    <3>2. <<n, k>> \in Links /\ <<n, k>>[1] = n
      BY <2>2 DEF Links
    <3>3. net'[<<n, k>>] = Append(net[<<n, k>>], m) /\ net[<<n, k>>] \in Seq(Messages)
      BY <1>0, <1>1, <3>2 DEF Broadcast, TypeOK
    <3> HIDE DEF m
    <3> QED  BY <3>1, <3>3, AppendMessages
  <2>3. ASSUME NEW r \in Recorded, NEW i \in Proposers(r)', NEW k \in Nodes, i # k
        PROVE  \/ Carries(net'[<<i, k>>], "Propose", r)
               \/ Carries(net'[<<k, i>>], "VoteRound1", r)
               \/ phases'[i][r].round1_votes[k] # None
    <3>1. i \in Nodes /\ (i \in Proposers(r) \/ (i = n /\ r = p))
      BY <1>1, <2>3 DEF Proposers
    <3>2. CASE i = n /\ r = p
      BY <2>2, <2>3, <3>2
    <3>3. CASE i \in Proposers(r)
      <4>1. <<i, k>> \in Links /\ <<k, i>> \in Links
        BY <2>3, <3>1 DEF Links
      <4>2. \/ Carries(net[<<i, k>>], "Propose", r)
            \/ Carries(net[<<k, i>>], "VoteRound1", r)
            \/ phases[i][r].round1_votes[k] # None
        BY <2>3, <3>3 DEF RestInv, AskedInv
      <4> QED  BY <1>3, <2>1, <3>1, <4>1, <4>2
    <3> QED  BY <3>1, <3>2, <3>3
  <2> QED  BY <2>3 DEF AskedInv
<1>6. EnoughInv'
  BY <1>3 DEF RestInv, EnoughInv
<1> QED  BY <1>4, <1>5, <1>6 DEF RestInv

\* handle_propose answers the proposal it takes.
LEMMA RestHandlePropose ==
  ASSUME BatchesValid, RestInv, TypeOK', NEW src \in Nodes, NEW n \in Nodes, src # n,
         net[<<src, n>>] # <<>>, NEW m \in Messages, m = Head(net[<<src, n>>]),
         handle_propose(src, n, m)
  PROVE  RestInv'
<1> DEFINE q  == Taken(<<src, n>>)
           p  == m.phase
           ph == [phases[n][p] EXCEPT !.proposed_value = OrElse(@, m.value),
                                      !.batch = OrElse(@, m.batch)]
<1>0. /\ TypeOK /\ Undamaged /\ UNCHANGED <<active_nodes, proposals, budget>>
      /\ budget'.restarts = 0 /\ budget'.cleanups = 0 /\ budget'.lost = 0
      /\ <<src, n>> \in Links /\ <<n, src>> \in Links
  BY DEF RestInv, Undamaged, handle_propose, Links
<1>1. m.type = "Propose" /\ p \in Phases /\ m.value \in StateValue /\ m.batch \in Batches
  BY MessageFields DEF handle_propose
<1>2. validate(m) /\ has_quorum(n)
  BY <1>1 DEF validate, BatchesValid, RestInv
<1>3. /\ update_phase(n, p, ph)
      /\ \E vote \in determine_round1_vote(phases[n][p], m.value) :
             net' = SendTo(q, <<n, src>>, VoteRound1(p, vote))
  BY <1>2 DEF handle_propose
<1>4. PICK vote \in StateValue : net' = SendTo(q, <<n, src>>, VoteRound1(p, vote))
  BY <1>1, <1>3 DEF determine_round1_vote, randomized_vote, StateValue
<1>5. ASSUME NEW k \in Nodes, NEW r \in Recorded
      PROVE  /\ phases'[k][r] # None
             /\ phases'[k][r].round1_votes = phases[k][r].round1_votes
             /\ phases'[k][r].round2_votes = phases[k][r].round2_votes
  <2>1. r \in Phases /\ phases[k][r] # None /\ phases[k][r] \in PhaseRecord
    BY <1>0, RecordsThere
  <2>2. CASE k = n /\ r = p
    <3>1. phases'[k][r] = ph
      <4> HIDE DEF ph, q
      <4> QED  BY <1>0, <1>1, <1>3, <2>1, <2>2, UpdateExact
    <3>2. ph \in PhaseRecord
      BY <1>1, <2>1, <2>2, RecordTypes DEF OptBatch
    <3>3. ph # None
      BY <3>2, EngineAssumption
    <3> QED  BY <2>1, <2>2, <3>1, <3>3 DEF PhaseRecord
  <2>3. CASE ~(k = n /\ r = p)
    <3>1. phases'[k][r] = phases[k][r]
      BY <1>0, <1>1, <1>3, <2>1, <2>3, UpdateExact
    <3> QED  BY <2>1, <3>1
  <2> QED  BY <2>2, <2>3
<1>6. Undamaged' /\ \A k \in Nodes : has_quorum(k)'
  BY <1>0, <1>5 DEF RestInv, Undamaged, has_quorum
<1>7. Carries(net'[<<n, src>>], "VoteRound1", p)
  <2>1. VoteRound1(p, vote) \in Messages /\ VoteRound1(p, vote).type = "VoteRound1"
        /\ VoteRound1(p, vote).phase = p
    BY <1>1, MessageTypes DEF VoteRound1
  <2>2. net'[<<n, src>>] = Append(net[<<n, src>>], VoteRound1(p, vote))
    BY <1>0, <1>4, AnswerLinks
  <2>3. net[<<n, src>>] \in Seq(Messages)
    BY <1>0 DEF TypeOK
  <2> QED  BY <2>1, <2>2, <2>3, AppendMessages
<1>8. \A l \in Links : \A t, r : Carries(net[l], t, r) =>
        Carries(net'[l], t, r) \/ (l = <<src, n>> /\ t = "Propose" /\ r = p)
  BY <1>0, <1>1, HandlerKeeps
<1>9. AskedInv'
  <2>1. \A r : Proposers(r)' = Proposers(r)
    BY <1>0 DEF Proposers
  <2>2. ASSUME NEW r \in Recorded, NEW i \in Proposers(r), NEW k \in Nodes, i # k
        PROVE  \/ Carries(net'[<<i, k>>], "Propose", r)
               \/ Carries(net'[<<k, i>>], "VoteRound1", r)
               \/ phases'[i][r].round1_votes[k] # None
    <3>1. i \in Nodes /\ <<i, k>> \in Links /\ <<k, i>> \in Links
      BY <2>2 DEF Proposers, Links
    <3>2. \/ Carries(net[<<i, k>>], "Propose", r)
          \/ Carries(net[<<k, i>>], "VoteRound1", r)
          \/ phases[i][r].round1_votes[k] # None
      BY <2>2 DEF RestInv, AskedInv
    <3>3. CASE i = src /\ k = n /\ r = p
      BY <1>7, <3>3
    <3>4. CASE ~(i = src /\ k = n /\ r = p)
      <4>1. /\ Carries(net[<<i, k>>], "Propose", r) => Carries(net'[<<i, k>>], "Propose", r)
            /\ Carries(net[<<k, i>>], "VoteRound1", r) => Carries(net'[<<k, i>>], "VoteRound1", r)
        BY <1>8, <3>1, <3>4
      <4> QED  BY <1>5, <3>1, <3>2, <4>1
    <3> QED  BY <3>3, <3>4
  <2> QED  BY <2>1, <2>2 DEF AskedInv
<1>10. EnoughInv'
  BY <1>5 DEF RestInv, EnoughInv
<1> QED  BY <1>6, <1>9, <1>10 DEF RestInv

\* handle_vote_round1 counts the answer it takes, and casts the round 2 vote
\* when it has enough.
LEMMA RestHandleVoteRound1 ==
  ASSUME RestInv, TypeOK', NEW src \in Nodes, NEW n \in Nodes, src # n,
         net[<<src, n>>] # <<>>, NEW m \in Messages, m = Head(net[<<src, n>>]),
         handle_vote_round1(src, n, m)
  PROVE  RestInv'
<1> DEFINE p   == m.phase
           ph  == add_round1_vote(phases[n][p], src, m.vote)
           ph2 == phases'[n][p]
           maj == has_round1_majority(ph, quorum_size)
<1>0. /\ TypeOK /\ Undamaged /\ UNCHANGED <<active_nodes, proposals, budget>>
      /\ budget'.restarts = 0 /\ budget'.cleanups = 0 /\ budget'.lost = 0
  BY DEF RestInv, Undamaged, handle_vote_round1
<1>1. m.type = "VoteRound1" /\ p \in Phases /\ m.vote \in StateValue
  BY MessageFields DEF handle_vote_round1
<1>2. \A l \in Links : \A t, r : Carries(net[l], t, r) =>
        Carries(net'[l], t, r) \/ (l = <<src, n>> /\ t = "VoteRound1" /\ r = p)
  BY <1>0, <1>1, HandlerKeeps, SMTT(30)
<1>3. \A k \in Nodes, r \in Phases : (k = n /\ r = p) \/ phases'[k][r] = phases[k][r]
  <2>1. UNCHANGED phases \/ \E x : update_phase(n, p, x)
    BY DEF handle_vote_round1, proceed_to_round2
  <2> QED  BY <1>0, <1>1, <2>1, UpdateExact
<1>4. ASSUME phases[n][p] # None
      PROVE  /\ ph2 # None
             /\ ph2.round1_votes = [phases[n][p].round1_votes EXCEPT ![src] = m.vote]
             /\ phases[n][p].round2_votes[n] # None => ph2.round2_votes[n] # None
             /\ Cardinality(Voters(ph2.round1_votes)) >= quorum_size
                  => ph2.round2_votes[n] # None
  <2>1. phases[n][p] \in PhaseRecord
    BY <1>0, <1>1, <1>4 DEF TypeOK
  <2>2. /\ ph \in PhaseRecord
        /\ ph.round1_votes = [phases[n][p].round1_votes EXCEPT ![src] = m.vote]
        /\ ph.round2_votes = phases[n][p].round2_votes
    <3>1. ph \in PhaseRecord
      BY <1>1, <2>1, VoteTypes
    <3> QED  BY <2>1, <3>1 DEF PhaseRecord, add_round1_vote
  <2>3. \A r, v : v \in round2_votes_after(r) /\ r \in OptValue /\ r # None => v \in StateValue
    BY DEF round2_votes_after, determine_round2_vote_for_question, StateValue, OptValue
  <2>4. /\ maj \in OptValue
        /\ "VQuestion" \in OptValue /\ "VQuestion" # None
    BY CountVotesType, PhaseDataAssumption DEF has_round1_majority, OptValue, StateValue
  <2>5. \/ ~(Cardinality(Voters(ph.round1_votes)) >= quorum_size) /\ update_phase(n, p, ph)
        \/ \E v \in StateValue : update_phase(n, p, add_round2_vote(ph, n, v))
    BY <1>4, <2>3, <2>4 DEF handle_vote_round1, proceed_to_round2
  <2> HIDE DEF ph, maj
  <2>6. CASE ~(Cardinality(Voters(ph.round1_votes)) >= quorum_size) /\ update_phase(n, p, ph)
    <3>1. ph2 = ph /\ ph # None
      <4> HIDE DEF p
      <4> QED  BY <1>0, <1>1, <1>4, <2>2, <2>6, UpdateExact, EngineAssumption
    <3> QED  BY <2>2, <2>6, <3>1
  <2>7. ASSUME NEW v \in StateValue, update_phase(n, p, add_round2_vote(ph, n, v))
        PROVE  /\ ph2 # None
               /\ ph2.round1_votes = [phases[n][p].round1_votes EXCEPT ![src] = m.vote]
               /\ ph2.round2_votes[n] # None
    <3>1. ph2 = add_round2_vote(ph, n, v) /\ ph2 \in PhaseRecord
      <4> HIDE DEF p
      <4> QED  BY <1>0, <1>1, <1>4, <2>2, <2>7, UpdateExact, VoteTypes
    <3>2. ph2 # None
      BY <3>1, EngineAssumption
    <3>3. ph2.round1_votes = ph.round1_votes /\ ph2.round2_votes[n] = v
      BY <2>2, <3>1, ZenonT(60) DEF add_round2_vote, PhaseRecord, Votes
    <3>4. v # None
      BY PhaseDataAssumption DEF StateValue
    <3> QED  BY <2>2, <3>2, <3>3, <3>4
  <2> QED  BY <2>5, <2>6, <2>7
<1>5. Undamaged' /\ \A k \in Nodes : has_quorum(k)'
  <2>1. \A k \in Nodes, r \in Recorded : phases'[k][r] # None
    <3> HIDE DEF p, ph, maj
    <3> QED  BY <1>0, <1>3, <1>4, RecordsThere
  <2> QED  BY <1>0, <2>1 DEF RestInv, Undamaged, has_quorum
<1>6. AskedInv'
  <2>1. \A r : Proposers(r)' = Proposers(r)
    BY <1>0 DEF Proposers
  <2>2. ASSUME NEW r \in Recorded, NEW i \in Proposers(r), NEW k \in Nodes, i # k
        PROVE  \/ Carries(net'[<<i, k>>], "Propose", r)
               \/ Carries(net'[<<k, i>>], "VoteRound1", r)
               \/ phases'[i][r].round1_votes[k] # None
    <3>1. i \in Nodes /\ <<i, k>> \in Links /\ <<k, i>> \in Links
      BY <2>2 DEF Proposers, Links
    <3>2. r \in Phases /\ phases[i][r] # None /\ phases[i][r] \in PhaseRecord
      BY <1>0, <3>1, RecordsThere
    <3>3. \/ Carries(net[<<i, k>>], "Propose", r)
          \/ Carries(net[<<k, i>>], "VoteRound1", r)
          \/ phases[i][r].round1_votes[k] # None
      BY <2>2 DEF RestInv, AskedInv
    <3>4. phases[i][r].round1_votes \in [Nodes -> OptValue]
      BY <3>2 DEF PhaseRecord, Votes
    <3>5. m.vote # None
      BY <1>1, PhaseDataAssumption DEF StateValue
    <3>6. CASE i = n /\ k = src /\ r = p
      <4>1. phases'[i][r].round1_votes[k] = m.vote
        BY <1>4, <3>2, <3>4, <3>6
      <4> QED  BY <3>5, <4>1
    <3>7. CASE ~(i = n /\ k = src /\ r = p)
      <4>1. /\ Carries(net[<<i, k>>], "Propose", r) => Carries(net'[<<i, k>>], "Propose", r)
            /\ Carries(net[<<k, i>>], "VoteRound1", r) => Carries(net'[<<k, i>>], "VoteRound1", r)
        BY <1>2, <3>1, <3>7
      <4>2. phases'[i][r].round1_votes[k] = phases[i][r].round1_votes[k]
        <5>1. CASE i = n /\ r = p
          BY <1>4, <3>2, <3>4, <3>7, <5>1
        <5>2. CASE ~(i = n /\ r = p)
          BY <1>3, <3>1, <3>2, <5>2
        <5> QED  BY <5>1, <5>2
      <4> QED  BY <3>3, <4>1, <4>2
    <3> QED  BY <3>6, <3>7
  <2> QED  BY <2>1, <2>2 DEF AskedInv
<1>7. EnoughInv'
  <2>1. ASSUME NEW k \in Nodes, NEW r \in Recorded,
               Cardinality(Voters(phases'[k][r].round1_votes)) >= quorum_size
        PROVE  phases'[k][r].round2_votes[k] # None
    <3>1. r \in Phases /\ phases[k][r] # None
      BY <1>0, RecordsThere
    <3>2. CASE k = n /\ r = p
      BY <1>4, <2>1, <3>1, <3>2
    <3>3. CASE ~(k = n /\ r = p)
      <4>1. phases'[k][r] = phases[k][r]
        BY <1>3, <3>1, <3>3
      <4> QED  BY <2>1, <4>1 DEF RestInv, EnoughInv
    <3> QED  BY <3>2, <3>3
  <2> QED  BY <2>1 DEF EnoughInv
<1> QED  BY <1>5, <1>6, <1>7 DEF RestInv

\* What the handlers of round 2 votes and of decisions leave of a record.
LEMMA LaterRecords ==
  ASSUME TypeOK, Undamaged, NEW src \in Nodes, NEW n \in Nodes, src # n, NEW m \in Messages,
         handle_vote_round2(src, n, m) \/ handle_decision(src, n, m),
         NEW k \in Nodes, NEW r \in Recorded
  PROVE  /\ phases'[k][r] # None
         /\ phases'[k][r].round1_votes = phases[k][r].round1_votes
         /\ phases'[k][r].round2_votes[k] = phases[k][r].round2_votes[k]
<1> DEFINE p   == m.phase
           old == phases[n][p]
<1>0. r \in Phases /\ phases[k][r] # None /\ phases[k][r] \in PhaseRecord
  BY RecordsThere
<1>1. p \in Phases
  BY MessageFields DEF handle_vote_round2, handle_decision
<1>2. ASSUME NEW x, update_phase(n, p, x),
             old # None => /\ x \in PhaseRecord
                           /\ x.round1_votes = old.round1_votes
                           /\ x.round2_votes[n] = old.round2_votes[n]
      PROVE  /\ phases'[k][r] # None
             /\ phases'[k][r].round1_votes = phases[k][r].round1_votes
             /\ phases'[k][r].round2_votes[k] = phases[k][r].round2_votes[k]
  <2>1. CASE k = n /\ r = p
    <3>1. phases'[k][r] = x /\ x \in PhaseRecord
      BY <1>0, <1>1, <1>2, <2>1, UpdateExact
    <3>2. x # None
      BY <3>1, EngineAssumption
    <3> QED  BY <1>0, <1>2, <2>1, <3>1, <3>2
  <2>2. CASE ~(k = n /\ r = p)
    <3>1. phases'[k][r] = phases[k][r]
      BY <1>0, <1>1, <1>2, <2>2, UpdateExact
    <3> QED  BY <1>0, <3>1
  <2> QED  BY <2>1, <2>2
<1>3. CASE UNCHANGED phases
  BY <1>0, <1>3
<1>4. CASE handle_vote_round2(src, n, m) /\ ~UNCHANGED phases
  <2> DEFINE ph == add_round2_vote(old, src, m.vote)
             d  == has_round2_majority(ph, quorum_size)
  <2>1. m.vote \in StateValue
    BY <1>4, MessageFields DEF handle_vote_round2
  <2>2. \/ update_phase(n, p, ph)
        \/ d # None /\ update_phase(n, p, set_decision(ph, d))
    BY <1>4 DEF handle_vote_round2, make_decision
  <2>3. old # None => old \in PhaseRecord
    BY <1>1 DEF TypeOK
  <2>4. old # None => /\ ph \in PhaseRecord
                      /\ ph.round1_votes = old.round1_votes
                      /\ ph.round2_votes[n] = old.round2_votes[n]
    <3>1. old # None => ph \in PhaseRecord
      BY <2>1, <2>3, VoteTypes
    <3> QED  BY <2>3, <3>1 DEF PhaseRecord, Votes, add_round2_vote
  <2> HIDE DEF ph
  <2>5. d # None => d \in StateValue
    BY CountVotesType DEF has_round2_majority, OptValue
  <2>6. old # None /\ d # None =>
          /\ set_decision(ph, d) \in PhaseRecord
          /\ set_decision(ph, d).round1_votes = ph.round1_votes
          /\ set_decision(ph, d).round2_votes = ph.round2_votes
    <3>1. old # None /\ d # None => set_decision(ph, d) \in PhaseRecord
      BY <2>4, <2>5, DecisionTypes
    <3> QED  BY <2>4, <3>1 DEF PhaseRecord, set_decision
  <2>7. CASE update_phase(n, p, ph)
    BY <1>2, <2>4, <2>7
  <2>8. CASE d # None /\ update_phase(n, p, set_decision(ph, d))
    BY <1>2, <2>4, <2>6, <2>8
  <2> QED  BY <2>2, <2>7, <2>8
<1>5. CASE handle_decision(src, n, m) /\ ~UNCHANGED phases
  <2> DEFINE x == [set_decision(old, m.decision) EXCEPT !.batch = OrElse(@, m.batch)]
  <2>1. m.decision \in StateValue /\ m.batch \in OptBatch
    BY <1>5, MessageFields DEF handle_decision
  <2>2. update_phase(n, p, x)
    BY <1>5 DEF handle_decision
  <2>3. old # None => old \in PhaseRecord
    BY <1>1 DEF TypeOK
  <2>4. old # None => /\ x \in PhaseRecord
                      /\ x.round1_votes = old.round1_votes
                      /\ x.round2_votes[n] = old.round2_votes[n]
    <3>1. old # None => x \in PhaseRecord
      BY <2>1, <2>3, RecordTypes
    <3> QED  BY <2>3, <3>1 DEF PhaseRecord, set_decision
  <2> HIDE DEF x
  <2> QED  BY <1>2, <2>2, <2>4
<1> QED  BY <1>3, <1>4, <1>5

\* The other handlers and commands.
LEMMA RestOthers ==
  ASSUME RestInv, TypeOK', NEW src \in Nodes, NEW n \in Nodes, src # n,
         net[<<src, n>>] # <<>>, NEW m \in Messages, m = Head(net[<<src, n>>]),
         \/ handle_vote_round2(src, n, m) \/ handle_decision(src, n, m)
         \/ handle_sync_request(src, n, m) \/ handle_sync_response(src, n, m)
  PROVE  RestInv'
<1>0. /\ TypeOK /\ Undamaged /\ UNCHANGED <<active_nodes, proposals, budget>>
      /\ budget'.restarts = 0 /\ budget'.cleanups = 0 /\ budget'.lost = 0
  BY DEF RestInv, Undamaged, handle_vote_round2, handle_decision, handle_sync_request,
     handle_sync_response
<1>1. m.type \notin {"Propose", "VoteRound1"}
  BY DEF handle_vote_round2, handle_decision, handle_sync_request, handle_sync_response
<1>2. \A l \in Links : \A t, p : Carries(net[l], t, p) =>
        Carries(net'[l], t, p) \/ (l = <<src, n>> /\ t = m.type /\ p = m.phase)
  BY <1>0, HandlerKeeps
<1>3. \A l \in Links : \A p \in Recorded :
        /\ Carries(net[l], "Propose", p) => Carries(net'[l], "Propose", p)
        /\ Carries(net[l], "VoteRound1", p) => Carries(net'[l], "VoteRound1", p)
  BY <1>1, <1>2
<1>4. ASSUME NEW k \in Nodes, NEW r \in Recorded
      PROVE  /\ phases'[k][r] # None
             /\ phases'[k][r].round1_votes = phases[k][r].round1_votes
             /\ phases'[k][r].round2_votes[k] = phases[k][r].round2_votes[k]
  <2>1. CASE handle_vote_round2(src, n, m) \/ handle_decision(src, n, m)
    BY <1>0, <2>1, LaterRecords
  <2>2. CASE handle_sync_request(src, n, m) \/ handle_sync_response(src, n, m)
    BY <1>0, <2>2, RecordsThere DEF handle_sync_request, handle_sync_response
  <2> QED  BY <2>1, <2>2
<1> QED  BY <1>0, <1>3, <1>4, RestFrame

\* In a cluster of three or more nodes that are all connected, with valid
\* batches and no message lost, every proposer has cast its round 2 vote when
\* all messages are handled: round 1 never waits for a vote that does not come.
THEOREM ProposersVote ==
  ASSUME NothingLost, WellConnected, BatchesValid, Cardinality(Nodes) >= 3
  PROVE  Spec => []ProposerVotes
<1>1. Init => RestInv
  <2> SUFFICES ASSUME Init PROVE RestInv
    OBVIOUS
  <2>1. TypeOK
    BY TypeInit
  <2>2. \A n \in Nodes, p \in Recorded : phases[n][p] = NewPhaseData
    BY EngineAssumption DEF Init, FreshPhases
  <2>3. NewPhaseData # None
    <3>1. NewPhaseData \in PhaseRecord
      BY DEF NewPhaseData, PhaseRecord, Votes, OptValue, OptBatch
    <3> QED  BY <3>1, EngineAssumption
  <2>4. Undamaged
    BY <2>2, <2>3 DEF Init, NothingLost, Undamaged
  <2>5. \A n \in Nodes : has_quorum(n)
    BY DEF Init, WellConnected, has_quorum
  <2>6. AskedInv
    BY DEF Init, AskedInv, Proposers
  <2>7. EnoughInv
    <3>1. Voters(NewPhaseData.round1_votes) = {}
      BY DEF NewPhaseData, Voters
    <3>2. Cardinality({}) = 0 /\ ~(0 >= quorum_size)
      BY FS_EmptySet, QuorumType DEF quorum_size
    <3> QED  BY <2>2, <3>1, <3>2 DEF EnoughInv
  <2> QED  BY <2>1, <2>4, <2>5, <2>6, <2>7 DEF RestInv
<1>2. RestInv /\ [Next]_vars => RestInv'
  <2> SUFFICES ASSUME RestInv, [Next]_vars PROVE RestInv'
    OBVIOUS
  <2>0. TypeOK /\ TypeOK' /\ Undamaged
    BY TypeNext DEF RestInv
  <2>1. CASE UNCHANGED vars
    <3>1. UNCHANGED <<budget, active_nodes, proposals, phases, net>>
      BY <2>1 DEF vars
    <3> QED  BY <2>0, <3>1, RestFrame DEF Undamaged
  <2>2. CASE Next
    <3>1. /\ budget'.restarts = 0 /\ budget'.cleanups = 0 /\ budget'.lost = 0
          /\ \/ \E n \in Nodes, b \in Batches : process_batch_request(n, b)
             \/ \E n \in Nodes : advance_to_next_phase(n)
             \/ \E n \in Nodes : initiate_sync(n)
             \/ \E l \in Links : handle_message(l[1], l[2])
      BY <2>0, <2>2, BudgetStays
    <3>2. ASSUME NEW n \in Nodes, advance_to_next_phase(n) \/ initiate_sync(n) PROVE RestInv'
      <4>1. UNCHANGED <<active_nodes, proposals, phases>>
        BY <3>2 DEF advance_to_next_phase, initiate_sync
      <4>2. \A l \in Links : \A t, p : Carries(net[l], t, p) => Carries(net'[l], t, p)
        BY <2>0, <3>2, CommandKeeps
      <4> QED  BY <2>0, <3>1, <4>1, <4>2, RestFrame DEF Undamaged
    <3>3. ASSUME NEW l \in Links, handle_message(l[1], l[2]) PROVE RestInv'
      BY <2>0, <3>3, HeadStep, RestHandlePropose, RestHandleVoteRound1, RestOthers
    <3> QED  BY <2>0, <3>1, <3>2, <3>3, RestProcess
  <2> QED  BY <2>1, <2>2
<1>3. RestInv => ProposerVotes
  <2> SUFFICES ASSUME RestInv, AtRest, NEW p \in Recorded, NEW n \in Proposers(p)
               PROVE  OwnRound2Vote(n, p) # None
    BY DEF ProposerVotes
  <2>0. n \in Nodes
    BY DEF Proposers
  <2>1. \A l \in Links : \A t, r : ~Carries(net[l], t, r)
    BY DEF AtRest, Carries
  <2>2. \A k \in Nodes : k # n => phases[n][p].round1_votes[k] # None
    <3> SUFFICES ASSUME NEW k \in Nodes, k # n PROVE phases[n][p].round1_votes[k] # None
      OBVIOUS
    <3>1. <<n, k>> \in Links /\ <<k, n>> \in Links
      BY <2>0 DEF Links
    <3> QED  BY <2>1, <3>1 DEF RestInv, AskedInv
  <2>3. Nodes \ {n} \subseteq Voters(phases[n][p].round1_votes)
    BY <2>2 DEF Voters
  <2>4. Cardinality(Nodes \ {n}) >= quorum_size
    <3>1. Cardinality(Nodes \ {n}) = Cardinality(Nodes) - 1
      BY <2>0, PhaseDataAssumption, FS_RemoveElement
    <3>2. Cardinality(Nodes) \in Nat
      BY QuorumType
    <3> QED  BY <3>1, <3>2 DEF quorum_size
  <2>5. Cardinality(Voters(phases[n][p].round1_votes)) >= quorum_size
    <3>1. Voters(phases[n][p].round1_votes) \subseteq Nodes
      BY DEF Voters
    <3> QED  BY <2>3, <2>4, <3>1, LargerSet
  <2>6. phases[n][p].round2_votes[n] # None /\ phases[n][p] # None
    BY <2>0, <2>5 DEF RestInv, EnoughInv, Undamaged
  <2> QED  BY <2>6 DEF OwnRound2Vote
<1> QED  BY <1>1, <1>2, <1>3, PTL DEF Spec

-----------------------------------------------------------------------------
(* A quorum of equal votes decides                                          *)

\* The state machine rejects no batch, so make_decision never returns early on
\* the node of a proposer.
NoneFails == FailingBatches = {}

\* A node that has the decision, or is about to, stays so.
LEMMA InformedStays ==
  ASSUME DecisionsKept, NEW p \in Recorded, NEW k \in Nodes, Informed(p, k),
         \A n \in Nodes, r \in Recorded : phases'[n][r] # None,
         \A l \in Links : \A r \in Recorded :
           Carries(net[l], "Decision", r) =>
             Carries(net'[l], "Decision", r) \/ phases'[l[2]][r].decision # None
  PROVE  Informed(p, k)'
<1>0. p \in Phases
  BY EngineAssumption
<1>1. CASE Decided(k, p)
  BY <1>0, <1>1 DEF Informed, DecisionsKept, Decided
<1>2. ASSUME NEW s \in Nodes, s # k, Carries(net[<<s, k>>], "Decision", p)
      PROVE  Informed(p, k)'
  <2>1. <<s, k>> \in Links /\ <<s, k>>[2] = k
    BY <1>2 DEF Links
  <2>2. Carries(net'[<<s, k>>], "Decision", p) \/ phases'[k][p].decision # None
    BY <1>2, <2>1
  <2> QED  BY <1>2, <2>2 DEF Informed, Decided
<1> QED  BY <1>1, <1>2 DEF Informed

\* A step that casts nothing, changes no round 2 votes and takes neither a
\* round 2 vote nor the last notice of a decision.
LEMMA SpreadFrame ==
  ASSUME TypeOK, TypeOK', SpreadInv, DecisionsKept, CountersGrow, UNCHANGED cast,
         budget'.restarts = 0, budget'.cleanups = 0, budget'.lost = 0,
         \A n \in Nodes, p \in Recorded :
           /\ phases'[n][p] # None
           /\ phases'[n][p].round2_votes = phases[n][p].round2_votes,
         \A l \in Links : \A p \in Recorded :
           /\ Carries(net[l], "VoteRound2", p) => Carries(net'[l], "VoteRound2", p)
           /\ Carries(net[l], "Decision", p) =>
                Carries(net'[l], "Decision", p) \/ phases'[l[2]][p].decision # None,
         \A l \in Links : \A m \in OnLink(net', l) :
           m \in OnLink(net, l) \/ (m.type = "VoteRound2" => ~m.empty)
  PROVE  SpreadInv'
<1>0. \A p \in Recorded : p \in Phases /\ p \in Nat
  BY EngineAssumption DEF Phases
<1>1. Undamaged'
  BY DEF Undamaged
<1>2. CastKnown'
  <2>1. ASSUME NEW n \in Nodes, NEW p \in Recorded, NEW v \in StateValue, <<n, p, v>> \in cast
        PROVE  /\ p <= current_phase'[n]
               /\ phases'[n][p].round2_votes[n] = v
               /\ \A k \in Nodes : n # k =>
                    \/ phases'[k][p].round2_votes[n] = v
                    \/ Carries(net'[<<n, k>>], "VoteRound2", p)
    <3>1. /\ p <= current_phase[n]
          /\ phases[n][p].round2_votes[n] = v
          /\ \A k \in Nodes : n # k =>
               \/ phases[k][p].round2_votes[n] = v
               \/ Carries(net[<<n, k>>], "VoteRound2", p)
      BY <2>1 DEF SpreadInv, CastKnown
    <3>2. p <= current_phase'[n]
      <4>1. current_phase[n] <= current_phase'[n] /\ current_phase[n] \in Nat
            /\ current_phase'[n] \in Nat /\ p \in Nat
        BY <1>0, EngineAssumption DEF CountersGrow, TypeOK, PhaseIds
      <4> QED  BY <3>1, <4>1
    <3>3. \A k \in Nodes : n # k => <<n, k>> \in Links
      BY DEF Links
    <3> QED  BY <3>1, <3>2, <3>3
  <2> QED  BY <2>1 DEF CastKnown
<1>3. VotesValid'
  BY DEF SpreadInv, VotesValid, OnLink
<1>4. QuorumDecides'
  <2>1. ASSUME NEW n \in Nodes, NEW p \in Recorded, NEW v \in StateValue,
               Quorum2(phases'[n][p], v), ~Decided(n, p)'
        PROVE  phases'[n][p].round2_votes[n] = v
    <3>1. Quorum2(phases[n][p], v)
      BY <2>1 DEF Quorum2
    <3>2. ~Decided(n, p)
      BY <1>0, <2>1 DEF DecisionsKept, Decided
    <3> QED  BY <3>1, <3>2 DEF SpreadInv, QuorumDecides
  <2> QED  BY <2>1 DEF QuorumDecides, Quorum2
<1>5. PairInforms'
  <2>1. ASSUME NEW p \in Recorded, NEW v \in StateValue, NEW i \in Nodes, NEW j \in Nodes, i # j,
               BothVoted(phases'[i][p], i, j, v), BothVoted(phases'[j][p], i, j, v),
               NEW k \in Nodes
        PROVE  Informed(p, k)'
    <3>1. BothVoted(phases[i][p], i, j, v) /\ BothVoted(phases[j][p], i, j, v)
      BY <2>1 DEF BothVoted, Quorum2
    <3>2. Informed(p, k)
      BY <2>1, <3>1 DEF SpreadInv, PairInforms
    <3> QED  BY <3>2, InformedStays
  <2> QED  BY <2>1 DEF PairInforms, BothVoted, Quorum2
<1> QED  BY <1>1, <1>2, <1>3, <1>4, <1>5 DEF SpreadInv

\* What a handler adds to the channels, as messages.
LEMMA HandlerAdds ==
  ASSUME TypeOK, NEW src \in Nodes, NEW n \in Nodes, src # n, net[<<src, n>>] # <<>>,
         NEW x \in Messages,
         \/ net' = Taken(<<src, n>>)
         \/ net' = SendTo(Taken(<<src, n>>), <<n, src>>, x)
         \/ net' = Broadcast(Taken(<<src, n>>), n, x)
  PROVE  \A l \in Links : \A y \in OnLink(net', l) : y \in OnLink(net, l) \/ y = x
<1>1. <<src, n>> \in Links /\ <<n, src>> \in Links
  BY DEF Links
<1>2. /\ Taken(<<src, n>>) \in Channels
      /\ \A l \in Links : OnLink(Taken(<<src, n>>), l) \subseteq OnLink(net, l)
  BY <1>1, TakenChannels, NetChannels
<1> QED  BY <1>1, <1>2, SendToChannels, BroadcastChannels

\* A broadcast reaches every other node.
LEMMA BroadcastReaches ==
  ASSUME NEW q \in Channels, NEW n \in Nodes, NEW x \in Messages,
         NEW k \in Nodes, k # n
  PROVE  Carries(Broadcast(q, n, x)[<<n, k>>], x.type, x.phase)
<1>1. <<n, k>> \in Links /\ <<n, k>>[1] = n
  BY DEF Links
<1>2. Broadcast(q, n, x)[<<n, k>>] = Append(q[<<n, k>>], x) /\ q[<<n, k>>] \in Seq(Messages)
  BY <1>1 DEF Broadcast, Channels
<1> QED  BY <1>2, AppendMessages

\* The commands touch no round 2 vote.
LEMMA SpreadCommands ==
  ASSUME TypeOK, TypeOK', SpreadInv, DecisionsKept,
         budget'.restarts = 0, budget'.cleanups = 0, budget'.lost = 0,
         \/ \E n \in Nodes, b \in Batches : process_batch_request(n, b)
         \/ \E n \in Nodes : advance_to_next_phase(n)
         \/ \E n \in Nodes : initiate_sync(n)
  PROVE  SpreadInv'
<1>0. Undamaged /\ UNCHANGED cast /\ net \in Channels
      /\ \A k \in Nodes : current_phase[k] \in Nat
  <2>1. Undamaged /\ net \in Channels
    BY NetChannels DEF SpreadInv
  <2>2. UNCHANGED cast
    BY DEF process_batch_request, advance_to_next_phase, initiate_sync
  <2>3. \A k \in Nodes : current_phase[k] \in Nat
    BY EngineAssumption DEF TypeOK, PhaseIds
  <2> QED  BY <2>1, <2>2, <2>3
<1>1. CountersGrow
  <2>1. CASE UNCHANGED current_phase
    BY <2>1, CountersStay
  <2>2. ASSUME NEW n \in Nodes, current_phase' = [current_phase EXCEPT ![n] = current_phase[n] + 1]
        PROVE  CountersGrow
    BY <1>0, <2>2 DEF CountersGrow, TypeOK
  <2> QED
    BY <2>1, <2>2 DEF process_batch_request, advance_to_next_phase, initiate_sync
<1>2. ASSUME NEW k \in Nodes, NEW r \in Recorded
      PROVE  phases'[k][r] # None /\ phases'[k][r].round2_votes = phases[k][r].round2_votes
  <2>1. r \in Phases /\ phases[k][r] # None /\ phases[k][r] \in PhaseRecord
    BY <1>0, RecordsThere
  <2>2. CASE UNCHANGED phases
    BY <2>1, <2>2
  <2>3. ASSUME NEW n \in Nodes, NEW b \in Batches, process_batch_request(n, b), ~UNCHANGED phases
        PROVE  phases'[k][r] # None /\ phases'[k][r].round2_votes = phases[k][r].round2_votes
    <3> DEFINE p  == current_phase[n] + 1
               ph == [phases[n][p] EXCEPT !.proposed_value = "V1", !.batch = b]
    <3>1. current_phase[n] < MaxPhase /\ update_phase(n, p, ph)
      BY <2>3 DEF process_batch_request
    <3>2. p \in Phases
      BY <1>0, <3>1, EngineAssumption DEF Phases
    <3>3. CASE k = n /\ r = p
      <4>1. phases'[k][r] = ph
        BY <2>1, <3>1, <3>2, <3>3, UpdateExact
      <4>2. ph \in PhaseRecord
        BY <2>1, <3>3, RecordTypes DEF StateValue, OptBatch
      <4>3. ph # None
        BY <4>2, EngineAssumption
      <4> QED  BY <2>1, <3>3, <4>1, <4>3 DEF PhaseRecord
    <3>4. CASE ~(k = n /\ r = p)
      <4>1. phases'[k][r] = phases[k][r]
        BY <2>1, <3>1, <3>2, <3>4, UpdateExact
      <4> QED  BY <2>1, <4>1
    <3> QED  BY <3>3, <3>4
  <2> QED  BY <2>2, <2>3 DEF advance_to_next_phase, initiate_sync
<1>3. \A l \in Links : \A t, p : Carries(net[l], t, p) => Carries(net'[l], t, p)
  BY CommandKeeps
<1>4. ASSUME NEW l \in Links, NEW y \in OnLink(net', l)
      PROVE  y \in OnLink(net, l) \/ y.type # "VoteRound2"
  <2>0. net[l] \in Seq(Messages)
    BY DEF TypeOK
  <2>1. ASSUME NEW x, x.type # "VoteRound2", net'[l] = Append(net[l], x)
        PROVE  y \in OnLink(net, l) \/ y.type # "VoteRound2"
    BY <1>4, <2>0, <2>1 DEF OnLink
  <2>2. CASE net'[l] = net[l]
    BY <1>4, <2>2 DEF OnLink
  <2>3. net'[l] = net[l] \/ \E x : x.type # "VoteRound2" /\ net'[l] = Append(net[l], x)
    <3>1. \A n, b : Propose(current_phase[n] + 1, "V1", b).type # "VoteRound2"
      BY DEF Propose
    <3>2. \A n \in Nodes : SyncRequest(current_phase[n]).type # "VoteRound2"
      BY DEF SyncRequest
    <3>3. ASSUME NEW n \in Nodes, NEW b \in Batches, process_batch_request(n, b), ~UNCHANGED net
          PROVE  net' = Broadcast(net, n, Propose(current_phase[n] + 1, "V1", b))
      BY <3>3 DEF process_batch_request
    <3>4. ASSUME NEW n \in Nodes, initiate_sync(n)
          PROVE  net'[l] = net[l] \/ net'[l] = Append(net[l], SyncRequest(current_phase[n]))
      BY <3>4 DEF initiate_sync
    <3>5. \A n, x : Broadcast(net, n, x)[l] \in {net[l], Append(net[l], x)}
      BY DEF Broadcast
    <3>6. ASSUME NEW n \in Nodes, advance_to_next_phase(n) PROVE net'[l] = net[l]
      BY <3>6 DEF advance_to_next_phase
    <3>7. ASSUME NEW n \in Nodes, NEW b \in Batches, process_batch_request(n, b)
          PROVE  \/ net'[l] = net[l]
                 \/ net'[l] = Append(net[l], Propose(current_phase[n] + 1, "V1", b))
      BY <3>3, <3>5, <3>7
    <3> QED  BY <3>1, <3>2, <3>4, <3>6, <3>7
  <2> QED  BY <2>1, <2>2, <2>3
<1> QED  BY <1>0, <1>1, <1>2, <1>3, <1>4, SpreadFrame

\* Neither do the handlers of proposals and of sync messages.
LEMMA SpreadQuiet ==
  ASSUME TypeOK, TypeOK', SpreadInv, DecisionsKept, NEW src \in Nodes, NEW n \in Nodes, src # n,
         net[<<src, n>>] # <<>>, NEW m \in Messages, m = Head(net[<<src, n>>]),
         \/ handle_propose(src, n, m)
         \/ handle_sync_request(src, n, m) \/ handle_sync_response(src, n, m)
  PROVE  SpreadInv'
<1> DEFINE p  == m.phase
           ph == [phases[n][p] EXCEPT !.proposed_value = OrElse(@, m.value),
                                      !.batch = OrElse(@, m.batch)]
<1>0. /\ Undamaged /\ UNCHANGED <<cast, budget>>
      /\ budget'.restarts = 0 /\ budget'.cleanups = 0 /\ budget'.lost = 0
  BY DEF SpreadInv, Undamaged, handle_propose, handle_sync_request, handle_sync_response
<1>1. m.type \notin {"VoteRound2", "Decision"}
  BY DEF handle_propose, handle_sync_request, handle_sync_response
<1>2. \A l \in Links : \A t, r : Carries(net[l], t, r) =>
        Carries(net'[l], t, r) \/ (l = <<src, n>> /\ t = m.type /\ r = p)
  BY HandlerKeeps
<1>3. CountersGrow
  BY CountersStay, SyncCounters DEF handle_propose, handle_sync_request
<1>4. ASSUME NEW k \in Nodes, NEW r \in Recorded
      PROVE  phases'[k][r] # None /\ phases'[k][r].round2_votes = phases[k][r].round2_votes
  <2>1. r \in Phases /\ phases[k][r] # None /\ phases[k][r] \in PhaseRecord
    BY <1>0, RecordsThere
  <2>2. CASE UNCHANGED phases
    BY <2>1, <2>2
  <2>3. CASE ~UNCHANGED phases
    <3>1. handle_propose(src, n, m)
      BY <2>3 DEF handle_sync_request, handle_sync_response
    <3>2. update_phase(n, p, ph)
      BY <2>3, <3>1 DEF handle_propose
    <3>3. p \in Phases /\ m.value \in StateValue /\ m.batch \in Batches
      BY <3>1, MessageFields DEF handle_propose
    <3>4. CASE k = n /\ r = p
      <4>1. phases'[k][r] = ph
        <5> HIDE DEF ph
        <5> QED  BY <2>1, <3>2, <3>3, <3>4, UpdateExact
      <4>2. ph \in PhaseRecord
        BY <2>1, <3>3, <3>4, RecordTypes DEF OptBatch
      <4>3. ph # None
        BY <4>2, EngineAssumption
      <4> QED  BY <2>1, <3>4, <4>1, <4>3 DEF PhaseRecord
    <3>5. CASE ~(k = n /\ r = p)
      <4>1. phases'[k][r] = phases[k][r]
        BY <2>1, <3>2, <3>3, <3>5, UpdateExact
      <4> QED  BY <2>1, <4>1
    <3> QED  BY <3>4, <3>5
  <2> QED  BY <2>2, <2>3
<1>5. \A l \in Links : \A y \in OnLink(net', l) : y \in OnLink(net, l) \/ y.type # "VoteRound2"
  <2>1. CASE handle_propose(src, n, m)
    <3>1. p \in Phases /\ m.value \in StateValue
      BY <2>1, MessageFields DEF handle_propose
    <3>2. \/ net' = Taken(<<src, n>>)
          \/ \E vote \in StateValue :
               net' = SendTo(Taken(<<src, n>>), <<n, src>>, VoteRound1(p, vote))
      BY <2>1, <3>1 DEF handle_propose, determine_round1_vote, randomized_vote, StateValue
    <3>3. \A vote \in StateValue : /\ VoteRound1(p, vote) \in Messages
                                   /\ VoteRound1(p, vote).type # "VoteRound2"
      BY <3>1, MessageTypes DEF VoteRound1
    <3>4. "V1" \in StateValue
      BY DEF StateValue
    <3> QED  BY <3>2, <3>3, <3>4, HandlerAdds
  <2>2. CASE handle_sync_request(src, n, m)
    <3> DEFINE snapshot == IF current_phase[n] > p THEN state_machine[n] ELSE None
               x        == SyncResponse(current_phase[n], snapshot)
    <3>1. snapshot \in Snapshots
      BY DEF TypeOK, Snapshots
    <3>2. x \in Messages /\ x.type # "VoteRound2"
      BY <3>1, MessageTypes DEF TypeOK, SyncResponse
    <3>3. net' = SendTo(Taken(<<src, n>>), <<n, src>>, x)
      BY <2>2 DEF handle_sync_request
    <3> HIDE DEF x
    <3> QED  BY <3>2, <3>3, HandlerAdds
  <2>3. CASE handle_sync_response(src, n, m)
    <3>1. net' = Taken(<<src, n>>) /\ <<src, n>> \in Links
      BY <2>3 DEF handle_sync_response, Links
    <3> QED  BY <3>1, TakenChannels, NetChannels
  <2> QED  BY <2>1, <2>2, <2>3
<1> QED  BY <1>0, <1>1, <1>2, <1>3, <1>4, <1>5, SpreadFrame

\* handle_decision records the decision it takes notice of.
LEMMA SpreadHandleDecision ==
  ASSUME BatchesValid, TypeOK, TypeOK', SpreadInv, DecisionsKept,
         NEW src \in Nodes, NEW n \in Nodes, src # n,
         net[<<src, n>>] # <<>>, NEW m \in Messages, m = Head(net[<<src, n>>]),
         handle_decision(src, n, m)
  PROVE  SpreadInv'
<1> DEFINE p  == m.phase
           ph == [set_decision(phases[n][p], m.decision) EXCEPT !.batch = OrElse(@, m.batch)]
<1>0. /\ Undamaged /\ UNCHANGED <<cast, budget, current_phase>>
      /\ budget'.restarts = 0 /\ budget'.cleanups = 0 /\ budget'.lost = 0
      /\ net' = Taken(<<src, n>>) /\ <<src, n>> \in Links
  BY DEF SpreadInv, Undamaged, handle_decision, Links
<1>1. m.type = "Decision" /\ p \in Phases /\ m.decision \in StateValue /\ m.batch \in OptBatch
  BY MessageFields DEF handle_decision
<1>2. validate(m)
  BY <1>1 DEF validate, BatchesValid, OptBatch
<1>3. update_phase(n, p, ph)
  BY <1>2 DEF handle_decision
<1>4. CountersGrow
  BY <1>0, CountersStay
<1>5. ASSUME NEW k \in Nodes, NEW r \in Recorded
      PROVE  /\ phases'[k][r] # None
             /\ phases'[k][r].round2_votes = phases[k][r].round2_votes
             /\ k = n /\ r = p => phases'[k][r].decision # None
  <2>1. r \in Phases /\ phases[k][r] # None /\ phases[k][r] \in PhaseRecord
    BY <1>0, RecordsThere
  <2>2. CASE k = n /\ r = p
    <3>1. phases'[k][r] = ph
      <4> HIDE DEF ph
      <4> QED  BY <1>1, <1>3, <2>1, <2>2, UpdateExact
    <3>2. ph \in PhaseRecord
      BY <1>1, <2>1, <2>2, RecordTypes
    <3>3. ph # None
      BY <3>2, EngineAssumption
    <3>4. ph.decision = m.decision /\ ph.round2_votes = phases[n][p].round2_votes
      BY <2>1, <2>2 DEF PhaseRecord, set_decision
    <3>5. m.decision # None
      BY <1>1, PhaseDataAssumption DEF StateValue
    <3> QED  BY <2>2, <3>1, <3>3, <3>4, <3>5
  <2>3. CASE ~(k = n /\ r = p)
    <3>1. phases'[k][r] = phases[k][r]
      BY <1>1, <1>3, <2>1, <2>3, UpdateExact
    <3> QED  BY <2>1, <2>3, <3>1
  <2> QED  BY <2>2, <2>3
<1>6. \A l \in Links : \A t, r : Carries(net[l], t, r) =>
        Carries(net'[l], t, r) \/ (l = <<src, n>> /\ t = "Decision" /\ r = p)
  BY <1>1, HandlerKeeps
<1>7. \A l \in Links : \A r \in Recorded :
        /\ Carries(net[l], "VoteRound2", r) => Carries(net'[l], "VoteRound2", r)
        /\ Carries(net[l], "Decision", r) =>
             Carries(net'[l], "Decision", r) \/ phases'[l[2]][r].decision # None
  <2>1. <<src, n>>[2] = n
    OBVIOUS
  <2>2. \A l \in Links, r \in Recorded : l = <<src, n>> /\ r = p => phases'[l[2]][r].decision # None
    BY <1>5, <2>1
  <2> HIDE DEF p
  <2> QED  BY <1>6, <2>2
<1>8. \A l \in Links : \A y \in OnLink(net', l) : y \in OnLink(net, l)
  BY <1>0, TakenChannels, NetChannels
<1> QED  BY <1>0, <1>4, <1>5, <1>7, <1>8, SpreadFrame

\* A step that changes at most the record of phase p at node n, ...
OnlyRecord(n, p) ==
  \A i \in Nodes, r \in Phases : (i = n /\ r = p) \/ phases'[i][r] = phases[i][r]

\* ... one that casts no vote, and one by which n casts v.
CastsNothing ==
  /\ UNCHANGED cast
  /\ \A i \in Nodes, r \in Recorded :
       phases'[i][r] # None /\ phases'[i][r].round2_votes = phases[i][r].round2_votes

Casts(q, n, p, v) ==
  /\ cast' = cast \cup {<<n, p, v>>}
  /\ net' = Broadcast(q, n, VoteRound2(p, v, FALSE))
  /\ phases[n][p] # None /\ phases'[n][p] # None
  /\ phases'[n][p].round2_votes = [phases[n][p].round2_votes EXCEPT ![n] = v]

\* What handle_vote_round1 does to the round 2 votes: nothing, or it casts the
\* one vote of its node, with the round 1 votes attached.
LEMMA CastStep ==
  ASSUME AgreementInv, Undamaged, NEW src \in Nodes, NEW n \in Nodes, src # n,
         net[<<src, n>>] # <<>>, NEW m \in Messages, m = Head(net[<<src, n>>]),
         handle_vote_round1(src, n, m)
  PROVE  /\ m.type = "VoteRound1" /\ m.phase \in Phases /\ OnlyRecord(n, m.phase)
         /\ \/ CastsNothing /\ net' = Taken(<<src, n>>)
            \/ \E v \in StateValue : Casts(Taken(<<src, n>>), n, m.phase, v)
<1> DEFINE q   == Taken(<<src, n>>)
           p   == m.phase
           ph  == add_round1_vote(phases[n][p], src, m.vote)
           maj == has_round1_majority(ph, quorum_size)
<1>0. TypeOK
  BY DEF AgreementInv
<1>1. m.type = "VoteRound1" /\ p \in Phases /\ m.vote \in StateValue
  BY MessageFields DEF handle_vote_round1
<1>2. OnlyRecord(n, p)
  <2>1. UNCHANGED phases \/ \E x : update_phase(n, p, x)
    BY DEF handle_vote_round1, proceed_to_round2
  <2> QED  BY <1>0, <1>1, <2>1, UpdateExact DEF OnlyRecord
<1>3. \A i \in Nodes, r \in Recorded : r \in Phases /\ phases[i][r] # None
  BY <1>0, RecordsThere
<1>4. CASE phases[n][p] = None
  BY <1>1, <1>2, <1>3, <1>4 DEF handle_vote_round1, CastsNothing
<1>5. CASE phases[n][p] # None
  <2>1. phases[n][p] \in PhaseRecord
    BY <1>0, <1>1, <1>5 DEF TypeOK
  <2>2. /\ ph \in PhaseRecord
        /\ ph.round1_votes = [phases[n][p].round1_votes EXCEPT ![src] = m.vote]
        /\ ph.round2_votes = phases[n][p].round2_votes
    <3>1. ph \in PhaseRecord
      BY <1>1, <2>1, VoteTypes
    <3> QED  BY <2>1, <3>1 DEF PhaseRecord, add_round1_vote
  <2>3. maj # None => maj \in StateValue
    BY CountVotesType DEF has_round1_majority, OptValue
  <2>4. \A r \in StateValue : round2_votes_after(r) \subseteq StateValue
    BY DEF round2_votes_after, determine_round2_vote_for_question, StateValue
  <2>5. "VQuestion" \in StateValue
    BY DEF StateValue
  <2>6. \/ UNCHANGED cast /\ update_phase(n, p, ph) /\ net' = q
        \/ \E v \in StateValue :
             /\ update_phase(n, p, add_round2_vote(ph, n, v))
             /\ net' = Broadcast(q, n, VoteRound2(p, v, Voters(ph.round1_votes) = {}))
             /\ cast' = cast \cup {<<n, p, v>>}
    BY <1>5, <2>3, <2>4, <2>5 DEF handle_vote_round1, proceed_to_round2
  <2>7. Voters(ph.round1_votes) # {}
    <3>1. ph.round1_votes[src] = m.vote
      BY <2>1, <2>2 DEF PhaseRecord, Votes
    <3>2. m.vote # None
      BY <1>1, PhaseDataAssumption DEF StateValue
    <3> QED  BY <3>1, <3>2 DEF Voters
  <2> HIDE DEF ph
  <2>8. CASE UNCHANGED cast /\ update_phase(n, p, ph) /\ net' = q
    <3>1. phases'[n][p] = ph /\ ph # None
      <4> HIDE DEF p
      <4> QED  BY <1>0, <1>1, <1>5, <2>2, <2>8, UpdateExact, EngineAssumption
    <3>2. \A i \in Nodes, r \in Recorded :
            phases'[i][r] # None /\ phases'[i][r].round2_votes = phases[i][r].round2_votes
      <4> HIDE DEF p, q, maj
      <4> QED  BY <1>2, <1>3, <2>2, <3>1 DEF OnlyRecord
    <3> QED  BY <1>1, <1>2, <2>8, <3>2 DEF CastsNothing
  <2>9. ASSUME NEW v \in StateValue, update_phase(n, p, add_round2_vote(ph, n, v))
        PROVE  /\ phases'[n][p] # None
               /\ phases'[n][p].round2_votes = [phases[n][p].round2_votes EXCEPT ![n] = v]
    <3>1. phases'[n][p] = add_round2_vote(ph, n, v) /\ phases'[n][p] \in PhaseRecord
      <4> HIDE DEF p
      <4> QED  BY <1>0, <1>1, <1>5, <2>2, <2>9, UpdateExact, VoteTypes
    <3>2. phases'[n][p] # None
      BY <3>1, EngineAssumption
    <3>3. phases'[n][p].round2_votes = [ph.round2_votes EXCEPT ![n] = v]
      BY <2>2, <3>1 DEF add_round2_vote, PhaseRecord
    <3> QED  BY <2>2, <3>2, <3>3
  <2>10. (Voters(ph.round1_votes) = {}) = FALSE
    BY <2>7
  <2> QED  BY <1>1, <1>2, <1>5, <2>6, <2>8, <2>9, <2>10 DEF Casts
<1> QED  BY <1>4, <1>5

\* A node that still misses a round 1 vote has cast nothing, and nobody has a
\* vote of it.
LEMMA FirstCast ==
  ASSUME AgreementInv, NEW src \in Nodes, NEW n \in Nodes, src # n,
         net[<<src, n>>] # <<>>, Head(net[<<src, n>>]).type = "VoteRound1",
         NEW p \in Phases, p = Head(net[<<src, n>>]).phase, phases[n][p] # None
  PROVE  /\ p <= current_phase[n]
         /\ \A w \in StateValue : <<n, p, w>> \notin cast
         /\ \A k \in Nodes : phases[k][p] # None => phases[k][p].round2_votes[n] = None
<1>1. TypeOK /\ RoundOneInv /\ CastInv /\ BackedInv
  BY DEF AgreementInv
<1>2. p <= current_phase[n] /\ src \notin Voters(phases[n][p].round1_votes)
  BY <1>1, NotYetCounted DEF Voters
<1>3. \A w \in StateValue : <<n, p, w>> \notin cast
  BY <1>1, <1>2 DEF CastInv
<1>4. ASSUME NEW k \in Nodes, phases[k][p] # None, phases[k][p].round2_votes[n] # None
      PROVE  FALSE
  <2>1. phases[k][p] \in PhaseRecord
    BY <1>1, <1>4 DEF TypeOK
  <2>2. phases[k][p].round2_votes[n] \in StateValue
    BY <1>4, <2>1 DEF PhaseRecord, Votes, OptValue
  <2>3. <<n, p, phases[k][p].round2_votes[n]>> \in cast
    BY <1>1, <1>4 DEF BackedInv, RecordBacked, Voters
  <2> QED  BY <1>3, <2>2, <2>3
<1> QED  BY <1>2, <1>3, <1>4

\* The vote a node casts reaches all the others, and completes nothing that
\* they would have counted with.
LEMMA SpreadCast ==
  ASSUME AgreementInv, AgreementInv', SpreadInv, DecisionsKept,
         budget'.restarts = 0, budget'.cleanups = 0, budget'.lost = 0, UNCHANGED current_phase,
         NEW src \in Nodes, NEW n \in Nodes, src # n, net[<<src, n>>] # <<>>,
         Head(net[<<src, n>>]).type = "VoteRound1",
         NEW p \in Phases, p = Head(net[<<src, n>>]).phase,
         NEW v \in StateValue, Casts(Taken(<<src, n>>), n, p, v), OnlyRecord(n, p),
         \A l \in Links : \A t, r : Carries(net[l], t, r) =>
           Carries(net'[l], t, r) \/ t = "VoteRound1"
  PROVE  SpreadInv'
<1> DEFINE x == VoteRound2(p, v, FALSE)
<1> USE DEF Casts, OnlyRecord
<1>0. /\ TypeOK /\ Undamaged /\ <<src, n>> \in Links
      /\ \A r \in Recorded : r \in Phases /\ r \in Nat
      /\ \A w \in StateValue : w # None
  <2>1. \A w \in StateValue : w # None
    BY PhaseDataAssumption DEF StateValue
  <2> QED
    <3> HIDE DEF Casts, OnlyRecord, x
    <3> QED  BY <2>1, EngineAssumption DEF AgreementInv, SpreadInv, Phases, Links
<1>1. /\ p <= current_phase[n]
      /\ \A w \in StateValue : <<n, p, w>> \notin cast
      /\ \A k \in Nodes : phases[k][p] # None => phases[k][p].round2_votes[n] = None
  BY FirstCast, ZenonT(60)
<1>2. x \in Messages /\ x.type = "VoteRound2" /\ x.phase = p /\ ~x.empty /\ net' = Broadcast(Taken(<<src, n>>), n, x)
  BY MessageTypes DEF VoteRound2
<1>3. Undamaged'
  <2>1. phases'[n][p] # None
    BY Zenon
  <2> HIDE DEF Casts, x
  <2> QED  BY <1>0, <2>1 DEF Undamaged
<1>4. phases[n][p].round2_votes \in [Nodes -> OptValue]
  <2>1. phases[n][p] \in PhaseRecord
    BY <1>0 DEF TypeOK
  <2> QED  BY <2>1 DEF PhaseRecord, Votes
<1>5. \A i \in Nodes : phases'[n][p].round2_votes[i] = IF i = n THEN v ELSE phases[n][p].round2_votes[i]
  BY <1>4
<1> HIDE DEF x
<1>6. CastKnown'
  <2>1. ASSUME NEW i \in Nodes, NEW r \in Recorded, NEW w \in StateValue, <<i, r, w>> \in cast'
        PROVE  /\ r <= current_phase'[i]
               /\ phases'[i][r].round2_votes[i] = w
               /\ \A k \in Nodes : i # k =>
                    \/ phases'[k][r].round2_votes[i] = w
                    \/ Carries(net'[<<i, k>>], "VoteRound2", r)
    <3>1. CASE <<i, r, w>> \in cast
      <4>1. ~(i = n /\ r = p)
        BY <1>1, <3>1
      <4>2. /\ r <= current_phase[i]
            /\ phases[i][r].round2_votes[i] = w
            /\ \A k \in Nodes : i # k =>
                 \/ phases[k][r].round2_votes[i] = w
                 \/ Carries(net[<<i, k>>], "VoteRound2", r)
        BY <3>1 DEF SpreadInv, CastKnown
      <4>3. phases'[i][r] = phases[i][r]
        BY <1>0, <4>1
      <4>4. ASSUME NEW k \in Nodes, i # k
            PROVE  \/ phases'[k][r].round2_votes[i] = w
                   \/ Carries(net'[<<i, k>>], "VoteRound2", r)
        <5>1. <<i, k>> \in Links
          BY <4>4 DEF Links
        <5>2. Carries(net[<<i, k>>], "VoteRound2", r) => Carries(net'[<<i, k>>], "VoteRound2", r)
          BY <5>1
        <5>3. phases'[k][r].round2_votes[i] = phases[k][r].round2_votes[i]
          BY <1>0, <1>5, <4>1, ZenonT(60)
        <5> QED  BY <4>2, <4>4, <5>2, <5>3
      <4> QED  BY <4>2, <4>3, <4>4
    <3>2. CASE <<i, r, w>> \notin cast
      <4>1. i = n /\ r = p /\ w = v
        BY <2>1, <3>2
      <4>2. ASSUME NEW k \in Nodes, k # n PROVE Carries(net'[<<n, k>>], "VoteRound2", p)
        <5>1. Taken(<<src, n>>) \in Channels
          BY <1>0, TakenChannels, NetChannels
        <5>2. Carries(Broadcast(Taken(<<src, n>>), n, x)[<<n, k>>], x.type, x.phase)
          BY <1>2, <4>2, <5>1, BroadcastReaches
        <5> QED  BY <1>2, <5>2
      <4> QED  BY <1>1, <1>5, <4>1, <4>2
    <3> QED  BY <3>1, <3>2
  <2> QED  BY <2>1, Zenon DEF CastKnown
<1>7. VotesValid'
  <2>1. \A l \in Links : \A y \in OnLink(net', l) : y \in OnLink(net, l) \/ y = x
    <3>1. /\ Taken(<<src, n>>) \in Channels
          /\ \A l \in Links : OnLink(Taken(<<src, n>>), l) \subseteq OnLink(net, l)
      BY <1>0, TakenChannels, NetChannels
    <3>2. \A l \in Links : OnLink(Broadcast(Taken(<<src, n>>), n, x), l)
                            \subseteq OnLink(Taken(<<src, n>>), l) \cup {x}
      BY <1>2, <3>1, BroadcastChannels
    <3> QED  BY <1>2, <3>1, <3>2
  <2> QED  BY <1>2, <2>1 DEF SpreadInv, VotesValid, OnLink
<1>8. QuorumDecides'
  <2>1. ASSUME NEW k \in Nodes, NEW r \in Recorded, NEW w \in StateValue,
               Quorum2(phases'[k][r], w), ~Decided(k, r)'
        PROVE  phases'[k][r].round2_votes[k] = w
    <3>0. ~Decided(k, r)
      BY <1>0, <1>3, <2>1, ZenonT(30) DEF DecisionsKept, Decided, Undamaged
    <3>1. CASE ~(k = n /\ r = p)
      <4>1. phases'[k][r] = phases[k][r]
        BY <1>0, <3>1
      <4> QED
        <5> HIDE DEF Casts, OnlyRecord
        <5> QED  BY <2>1, <3>0, <4>1 DEF SpreadInv, QuorumDecides
    <3>2. CASE k = n /\ r = p /\ w = v
      BY <1>5, <3>2
    <3>3. CASE k = n /\ r = p /\ w # v
      <4>1. /\ VotersFor(phases'[n][p].round2_votes, w) \subseteq VotersFor(phases[n][p].round2_votes, w)
            /\ VotersFor(phases[n][p].round2_votes, w) \subseteq Nodes
        BY <1>5, <3>3 DEF VotersFor
      <4>2. Quorum2(phases[n][p], w)
        BY <2>1, <3>3, <4>1, LargerSet DEF Quorum2
      <4>3. phases[n][p].round2_votes[n] = w
        BY <3>0, <3>3, <4>2 DEF SpreadInv, QuorumDecides
      <4> QED  BY <1>0, <1>1, <4>3
    <3> QED  BY <3>1, <3>2, <3>3
  <2> QED  BY <2>1 DEF QuorumDecides, Quorum2
<1>9. PairInforms'
  <2>1. ASSUME NEW r \in Recorded, NEW w \in StateValue, NEW i \in Nodes, NEW j \in Nodes, i # j,
               BothVoted(phases'[i][r], i, j, w), BothVoted(phases'[j][r], i, j, w),
               NEW k \in Nodes
        PROVE  Informed(r, k)'
    <3>1. ~(r = p /\ (i = n \/ j = n))
      <4>1. ASSUME NEW o \in Nodes, o # n, r = p, phases'[o][r].round2_votes[n] = w PROVE FALSE
        <5>1. phases'[o][p] = phases[o][p] /\ phases[o][p] # None
          BY <1>0, <4>1 DEF Undamaged
        <5> QED  BY <1>0, <1>1, <4>1, <5>1
      <4> QED  BY <2>1, <4>1 DEF BothVoted
    <3>2. phases'[i][r] = phases[i][r] /\ phases'[j][r] = phases[j][r]
      BY <1>0, <3>1
    <3>3. Informed(r, k)
      BY <2>1, <3>2 DEF SpreadInv, PairInforms
    <3>4. \A o \in Nodes, u \in Recorded : phases'[o][u] # None
      BY <1>3 DEF Undamaged
    <3> QED  BY <3>3, <3>4, InformedStays
  <2> QED  BY <2>1, ZenonT(30) DEF PairInforms, BothVoted, Quorum2
<1> QED  BY <1>3, <1>6, <1>7, <1>8, <1>9 DEF SpreadInv

\* handle_vote_round1
LEMMA SpreadHandleVoteRound1 ==
  ASSUME AgreementInv, AgreementInv', SpreadInv, DecisionsKept,
         NEW src \in Nodes, NEW n \in Nodes, src # n,
         net[<<src, n>>] # <<>>, NEW m \in Messages, m = Head(net[<<src, n>>]),
         handle_vote_round1(src, n, m)
  PROVE  SpreadInv'
<1> DEFINE p == m.phase
<1>0. /\ TypeOK /\ TypeOK' /\ Undamaged /\ UNCHANGED <<budget, current_phase>>
      /\ budget'.restarts = 0 /\ budget'.cleanups = 0 /\ budget'.lost = 0
      /\ <<src, n>> \in Links
  BY DEF AgreementInv, SpreadInv, Undamaged, handle_vote_round1, Links
<1>1. m.type = "VoteRound1" /\ p \in Phases /\ OnlyRecord(n, p)
  BY <1>0, CastStep
<1>2. \/ CastsNothing /\ net' = Taken(<<src, n>>)
      \/ \E v \in StateValue : Casts(Taken(<<src, n>>), n, p, v)
  BY <1>0, CastStep
<1>3. \A l \in Links : \A t, r : Carries(net[l], t, r) =>
        Carries(net'[l], t, r) \/ t = "VoteRound1"
  BY <1>0, <1>1, HandlerKeeps, SMTT(30)
<1> HIDE DEF p
<1>4. CASE CastsNothing /\ net' = Taken(<<src, n>>)
  <2>1. \A l \in Links : \A y \in OnLink(net', l) : y \in OnLink(net, l)
    BY <1>0, <1>4, TakenChannels, NetChannels
  <2>2. CountersGrow
    BY <1>0, CountersStay
  <2>3. \A l \in Links : \A r \in Recorded :
          /\ Carries(net[l], "VoteRound2", r) => Carries(net'[l], "VoteRound2", r)
          /\ Carries(net[l], "Decision", r) => Carries(net'[l], "Decision", r)
    BY <1>3
  <2> QED  BY <1>0, <1>4, <2>1, <2>2, <2>3, SpreadFrame DEF CastsNothing
<1>5. ASSUME NEW v \in StateValue, Casts(Taken(<<src, n>>), n, p, v)
      PROVE  SpreadInv'
  <2>1. p = Head(net[<<src, n>>]).phase /\ Head(net[<<src, n>>]).type = "VoteRound1"
    BY <1>1 DEF p
  <2> QED  BY <1>0, <1>1, <1>3, <1>5, <2>1, SpreadCast
<1> QED  BY <1>2, <1>4, <1>5

\* A quorum for any value makes the count succeed.
LEMMA QuorumCounts ==
  ASSUME NEW ph, NEW v \in StateValue, Quorum2(ph, v)
  PROVE  has_round2_majority(ph, quorum_size) # None
BY PhaseDataAssumption DEF Quorum2, has_round2_majority, count_votes, StateValue

\* A step by which n broadcasts the decision of phase p, and one by which n
\* counts the round 2 vote of src.
Announces(q, n, p) ==
  \E x \in Messages : x.type = "Decision" /\ x.phase = p /\ net' = Broadcast(q, n, x)

Counts(q, src, n, p, vote) ==
  /\ phases'[n][p] # None
  /\ phases'[n][p].round2_votes = [phases[n][p].round2_votes EXCEPT ![src] = vote]
  /\ net' = q \/ Announces(q, n, p)
  /\ \A v \in StateValue : Quorum2(phases'[n][p], v) =>
       /\ phases'[n][p].decision # None
       /\ phases[n][p].round2_votes[n] = v => Announces(q, n, p)

\* What handle_vote_round2 does to a record: the vote is added, and a node that
\* has a quorum then decides; if it has voted itself, it tells the others.
LEMMA CountStep ==
  ASSUME NoneFails, AgreementInv, SpreadInv, NEW src \in Nodes, NEW n \in Nodes, src # n,
         net[<<src, n>>] # <<>>, NEW m \in Messages, m \in OnLink(net, <<src, n>>),
         handle_vote_round2(src, n, m), m.phase \in Recorded
  PROVE  OnlyRecord(n, m.phase) /\ Counts(Taken(<<src, n>>), src, n, m.phase, m.vote)
<1> DEFINE p  == m.phase
           q  == Taken(<<src, n>>)
           ph == add_round2_vote(phases[n][p], src, m.vote)
           d  == has_round2_majority(ph, quorum_size)
<1>0. TypeOK /\ Undamaged /\ <<src, n>> \in Links /\ BackedInv /\ CastKnown
  BY DEF AgreementInv, SpreadInv, Links
<1>1. m.type = "VoteRound2" /\ p \in Phases /\ m.vote \in StateValue
  BY MessageFields DEF handle_vote_round2
<1>2. validate(m)
  BY <1>0, <1>1 DEF SpreadInv, VotesValid, validate
<1>3. phases[n][p] # None /\ phases[n][p] \in PhaseRecord
  BY <1>0, RecordsThere
<1>4. \/ d # None /\ make_decision(n, p, ph, d, q)
      \/ d = None /\ update_phase(n, p, ph) /\ net' = q
  BY <1>2, <1>3 DEF handle_vote_round2
<1>5. /\ ph \in PhaseRecord
      /\ ph.round2_votes = [phases[n][p].round2_votes EXCEPT ![src] = m.vote]
  <2>1. ph \in PhaseRecord
    BY <1>1, <1>3, VoteTypes
  <2> QED  BY <1>3, <2>1 DEF PhaseRecord, add_round2_vote
<1>6. d # None => d \in StateValue
  BY CountVotesType DEF has_round2_majority, OptValue
<1> HIDE DEF ph
<1>7. d # None => /\ set_decision(ph, d) \in PhaseRecord
                  /\ set_decision(ph, d).decision = d
                  /\ set_decision(ph, d).round2_votes = ph.round2_votes
  <2>1. d # None => set_decision(ph, d) \in PhaseRecord
    BY <1>5, <1>6, DecisionTypes
  <2> QED  BY <1>5, <2>1 DEF set_decision, PhaseRecord
<1>8. ASSUME NEW x \in PhaseRecord, update_phase(n, p, x)
      PROVE  OnlyRecord(n, p) /\ phases'[n][p] = x /\ x # None
  BY <1>0, <1>1, <1>3, <1>8, UpdateExact, EngineAssumption DEF OnlyRecord
<1>9. CASE d = None /\ update_phase(n, p, ph) /\ net' = q
  <2>1. phases'[n][p] = ph
    BY <1>5, <1>8, <1>9
  <2>2. \A v \in StateValue : ~Quorum2(ph, v)
    BY <1>9, QuorumCounts
  <2>3. OnlyRecord(n, p) /\ ph # None
    BY <1>5, <1>8, <1>9
  <2> QED  BY <1>5, <1>9, <2>1, <2>2, <2>3 DEF Counts
<1>10. CASE d # None /\ make_decision(n, p, ph, d, q)
  <2>1. update_phase(n, p, set_decision(ph, d))
    BY <1>10 DEF make_decision
  <2>2. /\ phases'[n][p] = set_decision(ph, d) /\ phases'[n][p] # None
        /\ OnlyRecord(n, p)
    BY <1>7, <1>8, <1>10, <2>1
  <2>3. net' = q \/ Announces(q, n, p)
    <3>1. net' = q \/ net' = Broadcast(q, n, Decision(p, d, ph.batch))
      BY <1>10 DEF make_decision
    <3>2. ph.batch \in OptBatch
      BY <1>5 DEF PhaseRecord
    <3>3. /\ Decision(p, d, ph.batch) \in Messages
          /\ Decision(p, d, ph.batch).type = "Decision" /\ Decision(p, d, ph.batch).phase = p
      BY <1>1, <1>6, <1>10, <3>2, MessageTypes DEF Decision
    <3> QED  BY <3>1, <3>3 DEF Announces
  <2>4. ASSUME NEW v \in StateValue, phases[n][p].round2_votes[n] = v PROVE Announces(q, n, p)
    <3>1. v # None
      BY PhaseDataAssumption DEF StateValue
    <3>2. <<n, p, v>> \in cast
      BY <1>0, <1>1, <1>3, <2>4, <3>1 DEF BackedInv, RecordBacked, Voters
    <3>3. p <= current_phase[n]
      BY <1>0, <3>2 DEF CastKnown
    <3>4. net' = Broadcast(q, n, Decision(p, d, ph.batch))
      BY <1>10, <3>3 DEF make_decision, MayCommit, NoneFails
    <3>5. ph.batch \in OptBatch
      BY <1>5 DEF PhaseRecord
    <3>6. /\ Decision(p, d, ph.batch) \in Messages
          /\ Decision(p, d, ph.batch).type = "Decision" /\ Decision(p, d, ph.batch).phase = p
      BY <1>1, <1>6, <1>10, <3>5, MessageTypes DEF Decision
    <3> QED  BY <3>4, <3>6 DEF Announces
  <2>5. phases'[n][p].decision # None /\ phases'[n][p].round2_votes = ph.round2_votes
    BY <1>7, <1>10, <2>2
  <2> QED  BY <1>5, <2>2, <2>3, <2>4, <2>5 DEF Counts
<1> QED  BY <1>4, <1>9, <1>10

\* The vote that is counted was the only one its sender cast, and a node that
\* decides by it and has voted informs everybody.
LEMMA SpreadCount ==
  ASSUME AgreementInv, AgreementInv', SpreadInv, DecisionsKept, UNCHANGED <<cast, current_phase>>,
         budget'.restarts = 0, budget'.cleanups = 0, budget'.lost = 0,
         NEW src \in Nodes, NEW n \in Nodes, src # n, net[<<src, n>>] # <<>>,
         NEW p \in Recorded, NEW vote \in StateValue, <<src, p, vote>> \in cast,
         Counts(Taken(<<src, n>>), src, n, p, vote), OnlyRecord(n, p),
         \A l \in Links : \A t, r : Carries(net[l], t, r) =>
           Carries(net'[l], t, r) \/ (l = <<src, n>> /\ t = "VoteRound2" /\ r = p)
  PROVE  SpreadInv'
<1>0. /\ TypeOK /\ Undamaged /\ CastInv /\ BackedInv /\ <<src, n>> \in Links
      /\ \A r \in Recorded : r \in Phases
      /\ \A w \in StateValue : w # None
  <2>1. \A w \in StateValue : w # None
    BY PhaseDataAssumption DEF StateValue
  <2> QED  BY <2>1, EngineAssumption DEF AgreementInv, SpreadInv, Links
<1>1. \A w \in StateValue : <<src, p, w>> \in cast => w = vote
  BY <1>0 DEF CastInv
<1>2. \A i \in Nodes, r \in Recorded : (i = n /\ r = p) \/ phases'[i][r] = phases[i][r]
  BY <1>0 DEF OnlyRecord
<1>3. /\ phases'[n][p] # None
      /\ \A i \in Nodes : phases'[n][p].round2_votes[i] =
                            IF i = src THEN vote ELSE phases[n][p].round2_votes[i]
  <2>1. phases[n][p] \in PhaseRecord
    BY <1>0, RecordsThere
  <2>2. phases[n][p].round2_votes \in [Nodes -> OptValue]
    BY <2>1 DEF PhaseRecord, Votes
  <2> QED  BY <2>2 DEF Counts
<1>4. Undamaged'
  BY <1>0, <1>2, <1>3 DEF Undamaged
<1>5. CastKnown'
  <2>1. ASSUME NEW i \in Nodes, NEW r \in Recorded, NEW w \in StateValue, <<i, r, w>> \in cast
        PROVE  /\ r <= current_phase'[i]
               /\ phases'[i][r].round2_votes[i] = w
               /\ \A k \in Nodes : i # k =>
                    \/ phases'[k][r].round2_votes[i] = w
                    \/ Carries(net'[<<i, k>>], "VoteRound2", r)
    <3>1. /\ r <= current_phase[i]
          /\ phases[i][r].round2_votes[i] = w
          /\ \A k \in Nodes : i # k =>
               \/ phases[k][r].round2_votes[i] = w
               \/ Carries(net[<<i, k>>], "VoteRound2", r)
      BY <2>1 DEF SpreadInv, CastKnown
    <3>2. phases'[i][r].round2_votes[i] = w
      BY <1>2, <1>3, <3>1
    <3>3. ASSUME NEW k \in Nodes, i # k
          PROVE  \/ phases'[k][r].round2_votes[i] = w
                 \/ Carries(net'[<<i, k>>], "VoteRound2", r)
      <4>1. CASE i = src /\ k = n /\ r = p
        BY <1>1, <1>3, <2>1, <4>1
      <4>2. CASE ~(i = src /\ k = n /\ r = p)
        <5>1. <<i, k>> \in Links
          BY <3>3 DEF Links
        <5>2. Carries(net[<<i, k>>], "VoteRound2", r) => Carries(net'[<<i, k>>], "VoteRound2", r)
          BY <4>2, <5>1
        <5>3. phases'[k][r].round2_votes[i] = phases[k][r].round2_votes[i]
          BY <1>2, <1>3, <4>2
        <5> QED  BY <3>1, <3>3, <5>2, <5>3
      <4> QED  BY <4>1, <4>2
    <3> QED  BY <3>1, <3>2, <3>3
  <2> QED  BY <2>1, Zenon DEF CastKnown
<1>6. Taken(<<src, n>>) \in Channels
      /\ \A l \in Links : OnLink(Taken(<<src, n>>), l) \subseteq OnLink(net, l)
  BY <1>0, TakenChannels, NetChannels
<1>7. VotesValid'
  <2>1. ASSUME NEW l \in Links, NEW y \in OnLink(net', l)
        PROVE  y \in OnLink(net, l) \/ y.type # "VoteRound2"
    <3>1. CASE net' = Taken(<<src, n>>)
      BY <1>6, <2>1, <3>1
    <3>2. ASSUME NEW x \in Messages, x.type = "Decision", net' = Broadcast(Taken(<<src, n>>), n, x)
          PROVE  y \in OnLink(net, l) \/ y.type # "VoteRound2"
      <4>1. OnLink(Broadcast(Taken(<<src, n>>), n, x), l) \subseteq OnLink(Taken(<<src, n>>), l) \cup {x}
        BY <1>6, BroadcastChannels
      <4> QED  BY <1>6, <2>1, <3>2, <4>1
    <3> QED  BY <3>1, <3>2 DEF Counts, Announces
  <2> QED  BY <2>1 DEF SpreadInv, VotesValid, OnLink
<1>8. QuorumDecides'
  <2>1. ASSUME NEW k \in Nodes, NEW r \in Recorded, NEW w \in StateValue,
               Quorum2(phases'[k][r], w), ~Decided(k, r)'
        PROVE  phases'[k][r].round2_votes[k] = w
    <3>1. ~Decided(k, r) /\ phases'[k][r].decision = None
      BY <1>0, <1>4, <2>1 DEF DecisionsKept, Decided, Undamaged
    <3>2. ~(k = n /\ r = p)
      BY <2>1, <3>1 DEF Counts
    <3>3. phases'[k][r] = phases[k][r]
      BY <1>2, <3>2
    <3> QED  BY <2>1, <3>1, <3>3 DEF SpreadInv, QuorumDecides
  <2> QED  BY <2>1 DEF QuorumDecides, Quorum2
<1>9. PairInforms'
  <2>1. ASSUME NEW r \in Recorded, NEW w \in StateValue, NEW i \in Nodes, NEW j \in Nodes, i # j,
               BothVoted(phases'[i][r], i, j, w), BothVoted(phases'[j][r], i, j, w),
               NEW k \in Nodes
        PROVE  Informed(r, k)'
    <3>1. CASE r = p /\ (i = n \/ j = n)
      <4>1. Quorum2(phases'[n][p], w) /\ phases'[n][p].round2_votes[n] = w
        BY <2>1, <3>1 DEF BothVoted
      <4>2. phases[n][p].round2_votes[n] = w
        BY <1>3, <4>1
      <4>3. phases'[n][p].decision # None /\ Announces(Taken(<<src, n>>), n, p)
        BY <4>1, <4>2 DEF Counts
      <4>4. CASE k = n
        BY <1>3, <3>1, <4>3, <4>4 DEF Informed, Decided
      <4>5. CASE k # n
        <5>1. PICK x \in Messages : x.type = "Decision" /\ x.phase = p
                                    /\ net' = Broadcast(Taken(<<src, n>>), n, x)
          BY <4>3 DEF Announces
        <5>2. Carries(Broadcast(Taken(<<src, n>>), n, x)[<<n, k>>], x.type, x.phase)
          BY <1>6, <4>5, BroadcastReaches
        <5>3. Carries(net'[<<n, k>>], "Decision", p)
          BY <5>1, <5>2
        <5> QED  BY <3>1, <4>5, <5>3 DEF Informed
      <4> QED  BY <4>4, <4>5
    <3>2. CASE ~(r = p /\ (i = n \/ j = n))
      <4>1. phases'[i][r] = phases[i][r] /\ phases'[j][r] = phases[j][r]
        BY <1>2, <3>2
      <4>2. Informed(r, k)
        BY <2>1, <4>1 DEF SpreadInv, PairInforms
      <4>3. \A o \in Nodes, u \in Recorded : phases'[o][u] # None
        BY <1>4 DEF Undamaged
      <4> QED  BY <4>2, <4>3, InformedStays
    <3> QED  BY <3>1, <3>2
  <2> QED  BY <2>1 DEF PairInforms, BothVoted, Quorum2
<1> QED  BY <1>4, <1>5, <1>7, <1>8, <1>9 DEF SpreadInv

\* handle_vote_round2
LEMMA SpreadHandleVoteRound2 ==
  ASSUME NoneFails, AgreementInv, AgreementInv', SpreadInv, DecisionsKept,
         NEW src \in Nodes, NEW n \in Nodes, src # n,
         net[<<src, n>>] # <<>>, NEW m \in Messages, m = Head(net[<<src, n>>]),
         m \in OnLink(net, <<src, n>>), handle_vote_round2(src, n, m)
  PROVE  SpreadInv'
<1> DEFINE p == m.phase
<1>0. /\ TypeOK /\ TypeOK' /\ Undamaged /\ UNCHANGED <<cast, budget, current_phase>>
      /\ budget'.restarts = 0 /\ budget'.cleanups = 0 /\ budget'.lost = 0
      /\ <<src, n>> \in Links
  BY DEF AgreementInv, SpreadInv, Undamaged, handle_vote_round2, Links
<1>1. /\ m.type = "VoteRound2" /\ p \in Phases /\ m.vote \in StateValue
      /\ <<src, p, m.vote>> \in cast
  BY <1>0, MessageFields DEF handle_vote_round2, AgreementInv, BackedInv, MessageBacked
<1>2. \A l \in Links : \A t, r : Carries(net[l], t, r) =>
        Carries(net'[l], t, r) \/ (l = <<src, n>> /\ t = "VoteRound2" /\ r = p)
  BY <1>0, <1>1, HandlerKeeps, SMTT(30)
<1>3. CASE p \in Recorded
  <2>1. OnlyRecord(n, p) /\ Counts(Taken(<<src, n>>), src, n, p, m.vote)
    BY <1>3, CountStep
  <2> HIDE DEF p
  <2> QED  BY <1>0, <1>1, <1>2, <1>3, <2>1, SpreadCount
<1>4. CASE p \notin Recorded
  <2>1. \A l \in Links : \A r \in Recorded :
          /\ Carries(net[l], "VoteRound2", r) => Carries(net'[l], "VoteRound2", r)
          /\ Carries(net[l], "Decision", r) => Carries(net'[l], "Decision", r)
    BY <1>2, <1>4
  <2>2. \A i \in Nodes, r \in Recorded : phases'[i][r] # None /\ phases'[i][r] = phases[i][r]
    <3>1. UNCHANGED phases \/ \E x : update_phase(n, p, x)
      BY DEF handle_vote_round2, make_decision
    <3> QED  BY <1>0, <1>1, <1>4, <3>1, UpdateExact, RecordsThere
  <2>3. \A l \in Links : \A y \in OnLink(net', l) : y \in OnLink(net, l) \/ y.type # "VoteRound2"
    <3>1. CASE net' = Taken(<<src, n>>)
      BY <1>0, <3>1, TakenChannels, NetChannels
    <3>2. CASE net' # Taken(<<src, n>>)
      <4> DEFINE ph == add_round2_vote(phases[n][p], src, m.vote)
                 d  == has_round2_majority(ph, quorum_size)
                 x  == Decision(p, d, ph.batch)
      <4>1. phases[n][p] # None /\ d # None /\ net' = Broadcast(Taken(<<src, n>>), n, x)
        BY <3>2 DEF handle_vote_round2, make_decision
      <4>2. ph \in PhaseRecord
        <5>1. phases[n][p] # None
          BY <4>1
        <5>2. phases[n][p] \in PhaseRecord \cup {None}
          BY <1>0, <1>1 DEF TypeOK
        <5> QED  BY <1>1, <5>1, <5>2, VoteTypes
      <4>3. ph.batch \in OptBatch
        BY <4>2 DEF PhaseRecord
      <4>4. d \in StateValue
        BY <4>1, CountVotesType DEF has_round2_majority, OptValue
      <4>5. x \in Messages /\ x.type # "VoteRound2"
        BY <1>1, <4>3, <4>4, MessageTypes DEF Decision
      <4> HIDE DEF x
      <4> QED  BY <1>0, <4>1, <4>5, HandlerAdds
    <3> QED  BY <3>1, <3>2
  <2>4. CountersGrow
    BY <1>0, CountersStay
  <2> QED  BY <1>0, <2>1, <2>2, <2>3, <2>4, SpreadFrame
<1> QED  BY <1>3, <1>4

\* Initially nothing is cast and no record has a quorum.
LEMMA SpreadInit == NothingLost /\ Init => SpreadInv
<1> SUFFICES ASSUME NothingLost, Init PROVE SpreadInv
  OBVIOUS
<1>1. \A n \in Nodes, p \in Recorded : phases[n][p] = NewPhaseData
  BY EngineAssumption DEF Init, FreshPhases
<1>2. NewPhaseData # None
  <2>1. NewPhaseData \in PhaseRecord
    BY DEF NewPhaseData, PhaseRecord, Votes, OptValue, OptBatch
  <2> QED  BY <2>1, EngineAssumption
<1>3. Undamaged
  BY <1>1, <1>2 DEF Init, NothingLost, Undamaged
<1>4. CastKnown /\ VotesValid
  BY DEF Init, CastKnown, VotesValid, OnLink
<1>5. \A v \in StateValue : ~Quorum2(NewPhaseData, v)
  <2>1. \A v \in StateValue : VotersFor(NewPhaseData.round2_votes, v) = {}
    BY PhaseDataAssumption DEF NewPhaseData, VotersFor, StateValue
  <2>2. Cardinality({}) = 0 /\ ~(0 >= quorum_size)
    BY FS_EmptySet, QuorumType DEF quorum_size
  <2> QED  BY <2>1, <2>2 DEF Quorum2
<1>6. QuorumDecides /\ PairInforms
  BY <1>1, <1>5 DEF QuorumDecides, PairInforms, BothVoted
<1> QED  BY <1>3, <1>4, <1>6 DEF SpreadInv

\* The invariant is inductive.
LEMMA SpreadNext ==
  ASSUME NeedsAllOthers, BatchesValid, NoneFails, AgreementInv, SpreadInv, [Next]_vars
  PROVE  SpreadInv'
<1>0. /\ AgreementInv' /\ DecisionsKept /\ Undamaged
      /\ TypeOK /\ TypeOK'
  BY AgreementNext DEF SpreadInv, AgreementInv
<1>1. CASE UNCHANGED vars
  <2>1. UNCHANGED <<budget, phases, net, cast, current_phase>>
    BY <1>1 DEF vars
  <2>2. CountersGrow
    BY <1>0, <2>1, CountersStay
  <2> QED  BY <1>0, <2>1, <2>2, SpreadFrame DEF Undamaged
<1>2. CASE Next
  <2>1. /\ budget'.restarts = 0 /\ budget'.cleanups = 0 /\ budget'.lost = 0
        /\ \/ \E n \in Nodes, b \in Batches : process_batch_request(n, b)
           \/ \E n \in Nodes : advance_to_next_phase(n)
           \/ \E n \in Nodes : initiate_sync(n)
           \/ \E l \in Links : handle_message(l[1], l[2])
    BY <1>0, <1>2, BudgetStays
  <2>2. ASSUME NEW l \in Links, handle_message(l[1], l[2]) PROVE SpreadInv'
    BY <1>0, <2>2, HeadStep, SpreadQuiet, SpreadHandleVoteRound1, SpreadHandleVoteRound2,
       SpreadHandleDecision
  <2> QED  BY <1>0, <2>1, <2>2, SpreadCommands
<1> QED  BY <1>1, <1>2

\* In a cluster where a quorum is all the others, with valid batches that the
\* state machine accepts and nothing lost, a quorum of equal round 2 votes ends
\* in that decision on every node once all messages are handled, although a
\* node does not count again when it casts its own vote.
THEOREM MatchingVotesAreDecided ==
  ASSUME NeedsAllOthers, Cardinality(Nodes) >= 2, NothingLost, BatchesValid, NoneFails
  PROVE  Spec => []MatchingVotesDecide
<1>1. Init => AgreementInv /\ SpreadInv
  BY AgreementInit, SpreadInit DEF NothingLost, NeverRestarted
<1>2. AgreementInv /\ SpreadInv /\ [Next]_vars => (AgreementInv /\ SpreadInv)'
  BY AgreementNext, SpreadNext
<1>3. AgreementInv /\ SpreadInv => MatchingVotesDecide
  <2> SUFFICES ASSUME AgreementInv, SpreadInv, AtRest, NEW p \in Recorded, NEW v \in StateValue,
                      Cardinality({i \in Nodes : OwnRound2Vote(i, p) = v}) >= quorum_size,
                      NEW n \in Nodes
               PROVE  Decided(n, p) /\ phases[n][p].decision = v
    BY DEF MatchingVotesDecide
  <2> DEFINE Q == {i \in Nodes : OwnRound2Vote(i, p) = v}
  <2>0. /\ TypeOK /\ Undamaged /\ BackedInv /\ CastInv /\ p \in Phases /\ v # None
        /\ CastKnown /\ QuorumDecides /\ PairInforms
    <3>1. v # None
      BY PhaseDataAssumption DEF StateValue
    <3> QED  BY <3>1, EngineAssumption DEF AgreementInv, SpreadInv
  <2>1. \A k \in Nodes : phases[k][p] # None /\ phases[k][p] \in PhaseRecord
    BY <2>0, RecordsThere
  <2>2. \A l \in Links : \A t, r : ~Carries(net[l], t, r)
    BY DEF AtRest, Carries
  <2>3. \A i \in Q : i \in Nodes /\ phases[i][p].round2_votes[i] = v
    BY <2>1 DEF OwnRound2Vote
  <2>4. \A i \in Q : <<i, p, v>> \in cast
    BY <2>0, <2>1, <2>3 DEF BackedInv, RecordBacked, Voters
  <2>5. ASSUME NEW i \in Q, NEW k \in Nodes PROVE phases[k][p].round2_votes[i] = v
    <3>1. CASE i = k
      BY <2>3, <3>1
    <3>2. CASE i # k
      <4>1. <<i, k>> \in Links
        BY <2>3, <3>2 DEF Links
      <4>2. i \in Nodes /\ <<i, p, v>> \in cast
        BY <2>3, <2>4
      <4>3. \/ phases[k][p].round2_votes[i] = v
            \/ Carries(net[<<i, k>>], "VoteRound2", p)
        BY <2>0, <3>2, <4>2 DEF CastKnown
      <4> QED  BY <2>2, <4>1, <4>3
    <3> QED  BY <3>1, <3>2
  <2>6. Q \subseteq Nodes /\ Cardinality(Q) >= quorum_size
    OBVIOUS
  <2> HIDE DEF Q
  <2>7. ASSUME NEW k \in Nodes PROVE Quorum2(phases[k][p], v)
    <3>1. Q \subseteq VotersFor(phases[k][p].round2_votes, v)
      BY <2>5, <2>6 DEF VotersFor
    <3>2. VotersFor(phases[k][p].round2_votes, v) \subseteq Nodes
      BY DEF VotersFor
    <3> QED  BY <2>6, <3>1, <3>2, LargerSet DEF Quorum2
  <2>8. PICK j \in Q : j # n
    <3> SUFFICES ASSUME Q \subseteq {n} PROVE FALSE
      OBVIOUS
    <3>1. Cardinality({n}) = 1 /\ IsFiniteSet({n})
      BY FS_Singleton
    <3>2. Cardinality(Q) <= 1 /\ Cardinality(Q) \in Nat
      BY <3>1, FS_Subset, FS_CardinalityType
    <3>3. quorum_size \in Nat /\ quorum_size >= 2
      BY QuorumType DEF quorum_size
    <3> QED  BY <2>6, <3>2, <3>3
  <2>9. Decided(n, p)
    <3> SUFFICES ASSUME ~Decided(n, p) PROVE FALSE
      OBVIOUS
    <3>1. phases[n][p].round2_votes[n] = v
      BY <2>0, <2>7 DEF QuorumDecides
    <3>2. n \in Q
      BY <2>1, <3>1 DEF Q, OwnRound2Vote
    <3>3. j \in Nodes /\ BothVoted(phases[n][p], n, j, v) /\ BothVoted(phases[j][p], n, j, v)
      BY <2>5, <2>6, <2>7, <2>8, <3>2 DEF BothVoted
    <3>4. Informed(p, n)
      BY <2>0, <2>8, <3>3 DEF PairInforms
    <3> QED  BY <2>2, <3>4 DEF Informed, Links
  <2>10. phases[n][p].decision \in StateValue /\ Backed(p, phases[n][p].decision)
    BY <2>0, <2>1, <2>9 DEF Decided, PhaseRecord, OptValue, BackedInv, RecordBacked
  <2>11. Backed(p, v)
    <3>1. Q \subseteq Casters(p, v) /\ Casters(p, v) \subseteq Nodes
      BY <2>4, <2>6 DEF Casters
    <3> QED  BY <2>6, <3>1, LargerSet DEF Backed
  <2> QED  BY <2>0, <2>9, <2>10, <2>11, BackedValues DEF OneBackedValue
<1> QED  BY <1>1, <1>2, <1>3, PTL DEF Spec
=============================================================================
