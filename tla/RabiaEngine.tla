---------------------------- MODULE RabiaEngine ----------------------------
(***************************************************************************)
(* A cluster of consensus engines (rabia-engine/src/engine.rs) exchanging  *)
(* protocol messages.  The run loop of a node handles one command or one   *)
(* message at a time, so every handler is one atomic action; the steps of  *)
(* different nodes interleave freely.                                      *)
(*                                                                         *)
(* `Recorded' is the set of phases for which EngineState::phases holds a   *)
(* record.  update_phase changes only records that exist, and              *)
(* get_or_create_phase, the one operation that creates a record, has no    *)
(* caller: the program as it stands is the instance Recorded = {}.         *)
(* Instances with Recorded # {} exercise the voting handlers on records    *)
(* created before the first message arrives.                               *)
(***************************************************************************)
EXTENDS PhaseData, Sequences

CONSTANTS
  ValidBatches,   \* batches that CommandBatch::validate accepts
  FailingBatches, \* batches whose commands the state machine rejects part way
  Views,          \* possible answers of get_connected_nodes at start-up
  Recorded,       \* phases with a record (see above)
  MaxPhase,       \* bound on phase ids
  max_phase_history,
  RestoreMayFail, \* may restore_snapshot return an error?
  Budgets         \* bounds on ForcePhaseAdvance and TriggerSync commands, ticks
                  \* of the cleanup timer, crashes and lost messages; a behaviour
                  \* has one of them

Phases == 1..MaxPhase
Links  == {l \in Nodes \X Nodes : l[1] # l[2]}

\* ClusterConfig::new
quorum_size == (Cardinality(Nodes) \div 2) + 1

Budget == [forced : Nat, syncs : Nat, cleanups : Nat, restarts : Nat, lost : Nat]

ASSUME EngineAssumption ==
  /\ ValidBatches \subseteq Batches /\ FailingBatches \subseteq Batches
  /\ Views \subseteq SUBSET Nodes /\ Views # {}
  /\ MaxPhase \in Nat /\ max_phase_history \in Nat
  /\ Recorded \subseteq Phases
  /\ RestoreMayFail \in BOOLEAN
  /\ Budgets \subseteq Budget
  /\ None \notin PhaseRecord
  /\ None \notin Seq(Batches)

VARIABLES
  current_phase,        \* EngineState, one of each per node
  last_committed_phase,
  pending_batches,
  phases,
  sync_responses,
  active_nodes,
  state_machine,        \* batches applied so far, in order; a snapshot copies it
  persisted,            \* what PersistenceLayer::save_state stored last
  net,                  \* FIFO channel of every link
  submitted,            \* batches clients have submitted
  proposals,            \* history: <<node, phase, batch>> of propose_batch
  cast,                 \* history: <<node, phase, value>> of proceed_to_round2
  budget                \* what is left of the bounds

vars == <<current_phase, last_committed_phase, pending_batches, phases,
          sync_responses, active_nodes, state_machine, persisted, net,
          submitted, proposals, cast, budget>>

-----------------------------------------------------------------------------
(* Messages and channels.  state_version, batch_id and timestamps are left  *)
(* out: no handler looks at them.  A VoteRound2 carries the round 1 votes   *)
(* only for validate, which rejects an empty map.                           *)

Propose(p, v, b)        == [type |-> "Propose", phase |-> p, value |-> v, batch |-> b]
VoteRound1(p, v)        == [type |-> "VoteRound1", phase |-> p, vote |-> v]
VoteRound2(p, v, empty) == [type |-> "VoteRound2", phase |-> p, vote |-> v, empty |-> empty]
Decision(p, d, b)       == [type |-> "Decision", phase |-> p, decision |-> d, batch |-> b]
SyncRequest(p)          == [type |-> "SyncRequest", phase |-> p]
SyncResponse(p, s)      == [type |-> "SyncResponse", phase |-> p, snapshot |-> s]

Snapshots == Seq(Batches) \cup {None}
PhaseIds  == 0..MaxPhase

Messages ==
  [type : {"Propose"}, phase : Phases, value : StateValue, batch : Batches]
  \cup [type : {"VoteRound1"}, phase : Phases, vote : StateValue]
  \cup [type : {"VoteRound2"}, phase : Phases, vote : StateValue, empty : BOOLEAN]
  \cup [type : {"Decision"}, phase : Phases, decision : StateValue, batch : OptBatch]
  \cup [type : {"SyncRequest"}, phase : PhaseIds]
  \cup [type : {"SyncResponse"}, phase : PhaseIds, snapshot : Snapshots]

\* The channels after taking the head of l, after a broadcast by n (which
\* excludes n), and after a send on link l.
Taken(l)           == [net EXCEPT ![l] = Tail(@)]
Broadcast(q, n, m) == [l \in Links |-> IF l[1] = n THEN Append(q[l], m) ELSE q[l]]
SendTo(q, l, m)    == [q EXCEPT ![l] = Append(@, m)]

\* The messages on link l.
OnLink(q, l) == {q[l][i] : i \in 1..Len(q[l])}

\* ProtocolMessage::validate, without the clock (a message rejected for its
\* timestamp is a lost message).
validate(m) ==
  /\ m.type \in {"Propose", "Decision"} => m.batch \in ValidBatches \cup {None}
  /\ m.type = "VoteRound2" => ~m.empty

-----------------------------------------------------------------------------
(* EngineState                                                              *)

has_quorum(n) == Cardinality(active_nodes[n]) >= quorum_size

\* update_phase: does nothing unless the phase has a record
update_phase(n, p, ph) ==
  phases' = IF phases[n][p] = None THEN phases ELSE [phases EXCEPT ![n][p] = ph]

NoResponses == [n \in Nodes |-> None]
\* mutant: every phase has a record from the start (get_or_create_phase called)
FreshPhases_created == [p \in Phases |-> NewPhaseData]
FreshPhases == [p \in Phases |-> IF p \in Recorded THEN NewPhaseData ELSE None]

Init ==
  /\ current_phase = [n \in Nodes |-> 0]
  /\ last_committed_phase = [n \in Nodes |-> 0]
  /\ pending_batches = [n \in Nodes |-> {}]
  /\ phases = [n \in Nodes |-> FreshPhases]
  /\ sync_responses = [n \in Nodes |-> NoResponses]
  /\ active_nodes \in [Nodes -> Views]
  /\ state_machine = [n \in Nodes |-> <<>>]
  /\ persisted = [n \in Nodes |-> None]
  /\ net = [l \in Links |-> <<>>]
  /\ submitted = {}
  /\ proposals = {}
  /\ cast = {}
  /\ budget \in Budgets

-----------------------------------------------------------------------------
(* Commands                                                                 *)

\* handle_command(ProcessBatch): without a quorum the batch is refused;
\* otherwise propose_batch starts the next phase of this node's own counter.
process_batch_request(n, b) ==
  /\ b \notin submitted
  /\ submitted' = submitted \cup {b}
  /\ \/ /\ ~has_quorum(n)
        /\ UNCHANGED <<current_phase, pending_batches, phases, net, proposals>>
     \/ /\ has_quorum(n)
        /\ current_phase[n] < MaxPhase
        /\ LET p == current_phase[n] + 1 IN
             /\ pending_batches' = [pending_batches EXCEPT ![n] = @ \cup {b}]
             /\ current_phase' = [current_phase EXCEPT ![n] = p]
             /\ update_phase(n, p, [phases[n][p] EXCEPT !.proposed_value = "V1",
                                                        !.batch = b])
             /\ net' = Broadcast(net, n, Propose(p, "V1", b))
             /\ proposals' = proposals \cup {<<n, p, b>>}
  /\ UNCHANGED <<last_committed_phase, sync_responses, active_nodes,
                 state_machine, persisted, cast, budget>>

\* handle_command(ForcePhaseAdvance)
advance_to_next_phase(n) ==
  /\ budget.forced > 0
  /\ current_phase[n] < MaxPhase
  /\ current_phase' = [current_phase EXCEPT ![n] = @ + 1]
  /\ budget' = [budget EXCEPT !.forced = @ - 1]
  /\ UNCHANGED <<last_committed_phase, pending_batches, phases, sync_responses,
                 active_nodes, state_machine, persisted, net, submitted, proposals, cast>>

\* handle_command(TriggerSync)
initiate_sync(n) ==
  /\ budget.syncs > 0
  /\ budget' = [budget EXCEPT !.syncs = @ - 1]
  /\ net' = [l \in Links |-> IF l[1] = n /\ l[2] \in active_nodes[n]
                             THEN Append(net[l], SyncRequest(current_phase[n]))
                             ELSE net[l]]
  /\ UNCHANGED <<current_phase, last_committed_phase, pending_batches, phases,
                 sync_responses, active_nodes, state_machine, persisted,
                 submitted, proposals, cast>>

-----------------------------------------------------------------------------
(* Message handlers: message m is the head of the channel from src to n.    *)

randomized_vote(value) == IF value = "VQuestion" THEN {"VQuestion"}
                          ELSE {value, "VQuestion"}

\* The votes the random generator may produce.
determine_round1_vote(ph, value) ==
  IF ph # None /\ ph.proposed_value # None
  THEN {IF ph.proposed_value = value THEN value ELSE "VQuestion"}
  ELSE randomized_vote(value)

OrElse(option, default) == IF option = None THEN default ELSE option

\* mutant: the round 1 vote is broadcast instead of sent to the proposer
handle_propose_broadcasting(src, n, m) ==
  /\ m.type = "Propose" /\ validate(m) /\ has_quorum(n)
  /\ \E vote \in determine_round1_vote(phases[n][m.phase], m.value) :
       net' = Broadcast(Taken(<<src, n>>), n, VoteRound1(m.phase, vote))
  /\ pending_batches' = [pending_batches EXCEPT ![n] = @ \cup {m.batch}]
  /\ update_phase(n, m.phase, [phases[n][m.phase] EXCEPT
                                 !.proposed_value = OrElse(@, m.value),
                                 !.batch = OrElse(@, m.batch)])
  /\ UNCHANGED <<current_phase, last_committed_phase, sync_responses, active_nodes,
                 state_machine, persisted, submitted, proposals, cast, budget>>

handle_propose(src, n, m) ==
  LET p  == m.phase
      ph == phases[n][p]
      q  == Taken(<<src, n>>)
  IN
  /\ m.type = "Propose"
  /\ \/ /\ ~(validate(m) /\ has_quorum(n))
        /\ net' = q
        /\ UNCHANGED <<pending_batches, phases>>
     \/ /\ validate(m) /\ has_quorum(n)
        /\ pending_batches' = [pending_batches EXCEPT ![n] = @ \cup {m.batch}]
        /\ update_phase(n, p,
             [ph EXCEPT !.proposed_value = OrElse(@, m.value),
                        !.batch = OrElse(@, m.batch)])
        /\ \E vote \in determine_round1_vote(ph, m.value) :
             net' = SendTo(q, <<n, src>>, VoteRound1(p, vote))
  /\ UNCHANGED <<current_phase, last_committed_phase, sync_responses, active_nodes,
                 state_machine, persisted, submitted, proposals, cast, budget>>

\* The vote counts only bias the coin of determine_round2_vote_for_question.
determine_round2_vote_for_question == {"V0", "V1"}

round2_votes_after(round1_result) ==
  IF round1_result = "VQuestion" THEN determine_round2_vote_for_question
  ELSE {round1_result}

\* mutant: the round 2 vote is recorded but not broadcast
proceed_to_round2_silent(n, p, ph, round1_result, q) ==
  \E v \in round2_votes_after(round1_result) :
    /\ update_phase(n, p, add_round2_vote(ph, n, v)) /\ net' = q
    /\ cast' = cast \cup {<<n, p, v>>}

\* mutant: without a round 1 majority for a value the node waits for more votes
proceed_to_round2_waiting(n, p, ph, round1_result, q) ==
  IF round1_result = "VQuestion"
  THEN update_phase(n, p, ph) /\ net' = q /\ UNCHANGED cast
  ELSE /\ update_phase(n, p, add_round2_vote(ph, n, round1_result))
       /\ net' = Broadcast(q, n, VoteRound2(p, round1_result, FALSE))
       /\ cast' = cast \cup {<<n, p, round1_result>>}

proceed_to_round2(n, p, ph, round1_result, q) ==
  \E v \in round2_votes_after(round1_result) :
    /\ update_phase(n, p, add_round2_vote(ph, n, v))
    /\ net' = Broadcast(q, n, VoteRound2(p, v, Voters(ph.round1_votes) = {}))
    /\ cast' = cast \cup {<<n, p, v>>}

handle_vote_round1(src, n, m) ==
  LET p   == m.phase
      q   == Taken(<<src, n>>)
      ph  == add_round1_vote(phases[n][p], src, m.vote)
      maj == has_round1_majority(ph, quorum_size)
      enough == Cardinality(Voters(ph.round1_votes)) >= quorum_size
  IN
  /\ m.type = "VoteRound1"
  /\ \/ /\ phases[n][p] = None
        /\ net' = q
        /\ UNCHANGED <<phases, cast>>
     \/ /\ phases[n][p] # None
        /\ \/ /\ maj # None
              /\ proceed_to_round2(n, p, ph, maj, q)
           \/ /\ maj = None /\ enough
              /\ proceed_to_round2(n, p, ph, "VQuestion", q)
           \/ /\ maj = None /\ ~enough
              /\ update_phase(n, p, ph)
              /\ net' = q
              /\ UNCHANGED cast
  /\ UNCHANGED <<current_phase, last_committed_phase, pending_batches, sync_responses,
                 active_nodes, state_machine, persisted, submitted, proposals, budget>>

\* save_state; its failure is only logged
save_state(n) ==
  \/ persisted' = [persisted EXCEPT ![n] =
                     [current_phase        |-> current_phase[n],
                      last_committed_phase |-> last_committed_phase'[n],
                      snapshot             |-> state_machine'[n]]]
  \/ UNCHANGED persisted

\* mutant: no comparison with the current phase
MayCommit_always(n, p) == TRUE

\* commit_phase accepts phases up to the node's own counter.
MayCommit(n, p) == p <= current_phase[n]

\* mutant: the phase after the current one is marked as committed
commit_phase_next(n, p) ==
  last_committed_phase' = [last_committed_phase EXCEPT ![n] = current_phase[n] + 1]

commit_phase(n, p) ==
  last_committed_phase' = [last_committed_phase EXCEPT ![n] = IF @ < p THEN p ELSE @]

\* apply_batch, then commit_phase, then save_state, each only if the one before
\* succeeded.  A failing batch leaves the effect of its first commands behind
\* and stays pending.
ApplyAndCommit(n, p, b) ==
  /\ state_machine' = [state_machine EXCEPT ![n] = Append(@, b)]
  /\ \/ /\ b \in FailingBatches
        /\ UNCHANGED <<pending_batches, last_committed_phase, persisted>>
     \/ /\ b \notin FailingBatches
        /\ pending_batches' = [pending_batches EXCEPT ![n] = @ \ {b}]
        /\ \/ MayCommit(n, p) /\ commit_phase(n, p) /\ save_state(n)
           \/ ~MayCommit(n, p) /\ UNCHANGED <<last_committed_phase, persisted>>

\* The Decision is broadcast unless apply_batch or commit_phase returned early.
make_decision(n, p, ph, d, q) ==
  LET decided == set_decision(ph, d)
      applies == d = "V1" /\ ph.batch # None
      early   == applies /\ (ph.batch \in FailingBatches \/ ~MayCommit(n, p))
  IN
  /\ update_phase(n, p, decided)
  /\ \/ applies /\ ApplyAndCommit(n, p, ph.batch)
     \/ /\ ~applies
        /\ UNCHANGED <<state_machine, pending_batches, last_committed_phase, persisted>>
  /\ net' = IF early THEN q ELSE Broadcast(q, n, Decision(p, d, ph.batch))

handle_vote_round2(src, n, m) ==
  LET p  == m.phase
      q  == Taken(<<src, n>>)
      ph == add_round2_vote(phases[n][p], src, m.vote)
      d  == has_round2_majority(ph, quorum_size)
  IN
  /\ m.type = "VoteRound2"
  /\ \/ /\ ~validate(m) \/ phases[n][p] = None
        /\ net' = q
        /\ UNCHANGED <<phases, state_machine, pending_batches,
                       last_committed_phase, persisted>>
     \/ /\ validate(m) /\ phases[n][p] # None /\ d # None
        /\ make_decision(n, p, ph, d, q)
     \/ /\ validate(m) /\ phases[n][p] # None /\ d = None
        /\ update_phase(n, p, ph)
        /\ net' = q
        /\ UNCHANGED <<state_machine, pending_batches, last_committed_phase, persisted>>
  /\ UNCHANGED <<current_phase, sync_responses, active_nodes, submitted,
                 proposals, cast, budget>>

handle_decision(src, n, m) ==
  LET p  == m.phase
      ph == phases[n][p]
      applies == /\ validate(m)
                 /\ m.decision = "V1" /\ m.batch # None
                 /\ p > last_committed_phase[n]
  IN
  /\ m.type = "Decision"
  /\ net' = Taken(<<src, n>>)
  /\ \/ ~validate(m) /\ UNCHANGED phases
     \/ /\ validate(m)
        /\ update_phase(n, p, [set_decision(ph, m.decision) EXCEPT
                                  !.batch = OrElse(@, m.batch)])
  /\ \/ applies /\ ApplyAndCommit(n, p, m.batch)
     \/ /\ ~applies
        /\ UNCHANGED <<state_machine, pending_batches, last_committed_phase, persisted>>
  /\ UNCHANGED <<current_phase, sync_responses, active_nodes, submitted,
                 proposals, cast, budget>>

\* mutant: off by one in the comparison with the requester's phase
handle_sync_request_late(src, n, m) ==
  /\ m.type = "SyncRequest"
  /\ net' = SendTo(Taken(<<src, n>>), <<n, src>>,
             SyncResponse(current_phase[n],
               IF current_phase[n] > m.phase + 1 THEN state_machine[n] ELSE None))
  /\ UNCHANGED <<current_phase, last_committed_phase, pending_batches, phases,
                 sync_responses, active_nodes, state_machine, persisted,
                 submitted, proposals, cast, budget>>

handle_sync_request(src, n, m) ==
  LET snapshot == IF current_phase[n] > m.phase THEN state_machine[n] ELSE None
  IN
  /\ m.type = "SyncRequest"
  /\ net' = SendTo(Taken(<<src, n>>), <<n, src>>,
                   SyncResponse(current_phase[n], snapshot))
  /\ UNCHANGED <<current_phase, last_committed_phase, pending_batches, phases,
                 sync_responses, active_nodes, state_machine, persisted,
                 submitted, proposals, cast, budget>>

\* resolve_sync: adopt the phase and the snapshot of a response with the
\* highest phase (max_by_key over a HashMap: any of them).  A failed restore
\* returns before the responses are cleared.
resolve_sync(n, responses) ==
  \E r \in {responses[s] : s \in Voters(responses)} :
    /\ \A s \in Voters(responses) : responses[s].phase <= r.phase
    /\ LET ahead   == r.phase > current_phase[n]
           restore == ahead /\ r.snapshot # None
           cleared == [sync_responses EXCEPT ![n] = NoResponses]
       IN
       /\ current_phase' = IF ahead THEN [current_phase EXCEPT ![n] = r.phase]
                           ELSE current_phase
       /\ \/ /\ restore
             /\ state_machine' = [state_machine EXCEPT ![n] = r.snapshot]
             /\ sync_responses' = cleared
          \/ /\ restore /\ RestoreMayFail
             /\ sync_responses' = [sync_responses EXCEPT ![n] = responses]
             /\ UNCHANGED state_machine
          \/ /\ ~restore
             /\ sync_responses' = cleared
             /\ UNCHANGED state_machine

handle_sync_response(src, n, m) ==
  LET responses == [sync_responses[n] EXCEPT
                      ![src] = [phase |-> m.phase, snapshot |-> m.snapshot]]
      enough    == Cardinality(Voters(responses)) >= quorum_size
  IN
  /\ m.type = "SyncResponse"
  /\ net' = Taken(<<src, n>>)
  /\ \/ enough /\ resolve_sync(n, responses)
     \/ /\ ~enough
        /\ sync_responses' = [sync_responses EXCEPT ![n] = responses]
        /\ UNCHANGED <<current_phase, state_machine>>
  /\ UNCHANGED <<last_committed_phase, pending_batches, phases, active_nodes,
                 persisted, submitted, proposals, cast, budget>>

-----------------------------------------------------------------------------
(* Timers, crashes and the transport                                        *)

\* cleanup_old_state: records below the cutoff go, and so do the pending
\* batches that are older than five minutes (any of them may be).
cleanup_old_state(n) ==
  LET cutoff == IF current_phase[n] > max_phase_history
                THEN current_phase[n] - max_phase_history ELSE 0
      kept == [p \in Phases |-> IF p < cutoff THEN None ELSE phases[n][p]]
  IN
  /\ budget.cleanups > 0
  /\ budget' = [budget EXCEPT !.cleanups = @ - 1]
  /\ phases' = [phases EXCEPT ![n] = kept]
  /\ \E old \in SUBSET pending_batches[n] :
       pending_batches' = [pending_batches EXCEPT ![n] = @ \ old]
  /\ UNCHANGED <<current_phase, last_committed_phase, sync_responses, active_nodes,
                 state_machine, persisted, net, submitted, proposals, cast>>

\* A node crashes and starts again: EngineState::new, a fresh state machine,
\* and initialize, which restores what was saved.  What was on its way to the
\* node is gone; what it had sent may still arrive.
restart(n) ==
  LET saved == persisted[n] IN
  /\ budget.restarts > 0
  /\ budget' = [budget EXCEPT !.restarts = @ - 1]
  /\ current_phase' = [current_phase EXCEPT
                         ![n] = IF saved = None THEN 0 ELSE saved.current_phase]
  /\ last_committed_phase' = [last_committed_phase EXCEPT
                         ![n] = IF saved = None THEN 0 ELSE saved.last_committed_phase]
  /\ state_machine' = [state_machine EXCEPT
                         ![n] = IF saved = None THEN <<>> ELSE saved.snapshot]
  /\ pending_batches' = [pending_batches EXCEPT ![n] = {}]
  /\ phases' = [phases EXCEPT ![n] = FreshPhases]
  /\ sync_responses' = [sync_responses EXCEPT ![n] = NoResponses]
  /\ \E view \in Views : active_nodes' = [active_nodes EXCEPT ![n] = view]
  /\ net' = [l \in Links |-> IF l[2] = n THEN <<>> ELSE net[l]]
  /\ UNCHANGED <<persisted, submitted, proposals, cast>>

\* The transport loses the oldest message of a link.
lose(l) ==
  /\ net[l] # <<>>
  /\ budget.lost > 0
  /\ budget' = [budget EXCEPT !.lost = @ - 1]
  /\ net' = Taken(l)
  /\ UNCHANGED <<current_phase, last_committed_phase, pending_batches, phases,
                 sync_responses, active_nodes, state_machine, persisted,
                 submitted, proposals, cast>>

\* handle_message: validation and dispatch on the message type.  Heartbeats
\* change nothing, and no code sends a NewBatch or a QuorumNotification.
handle_message(src, n) ==
  /\ net[<<src, n>>] # <<>>
  /\ LET m == Head(net[<<src, n>>]) IN
       \/ handle_propose(src, n, m)
       \/ handle_vote_round1(src, n, m)
       \/ handle_vote_round2(src, n, m)
       \/ handle_decision(src, n, m)
       \/ handle_sync_request(src, n, m)
       \/ handle_sync_response(src, n, m)

Next ==
  \/ \E n \in Nodes, b \in Batches : process_batch_request(n, b)
  \/ \E n \in Nodes : advance_to_next_phase(n)
  \/ \E n \in Nodes : initiate_sync(n)
  \/ \E l \in Links : handle_message(l[1], l[2])
  \/ \E n \in Nodes : cleanup_old_state(n)
  \/ \E n \in Nodes : restart(n)
  \/ \E l \in Links : lose(l)

Spec == Init /\ [][Next]_vars

\* The run loop keeps polling the network, so a message that has arrived is
\* eventually handled.
Fairness == \A l \in Links : WF_vars(handle_message(l[1], l[2]))
FairSpec == Spec /\ Fairness

-----------------------------------------------------------------------------
(* Properties                                                               *)

Saved == [current_phase : PhaseIds, last_committed_phase : PhaseIds,
          snapshot : Seq(Batches)]
Response == [phase : PhaseIds, snapshot : Snapshots]

\* Every variable has the type its Rust declaration gives it (EngineState,
\* PhaseData, ProtocolMessage, the persisted EngineState).
TypeOK ==
  /\ current_phase \in [Nodes -> PhaseIds]
  /\ last_committed_phase \in [Nodes -> PhaseIds]
  /\ pending_batches \in [Nodes -> SUBSET Batches]
  /\ phases \in [Nodes -> [Phases -> PhaseRecord \cup {None}]]
  /\ sync_responses \in [Nodes -> [Nodes -> Response \cup {None}]]
  /\ active_nodes \in [Nodes -> SUBSET Nodes]
  /\ state_machine \in [Nodes -> Seq(Batches)]
  /\ persisted \in [Nodes -> Saved \cup {None}]
  /\ net \in [Links -> Seq(Messages)]
  /\ submitted \in SUBSET Batches
  /\ proposals \in SUBSET (Nodes \X Phases \X Batches)
  /\ cast \in SUBSET (Nodes \X Phases \X StateValue)
  /\ budget \in Budget

\* The nodes that ran propose_batch in phase p.
Proposers(p) == {n \in Nodes : \E b \in Batches : <<n, p, b>> \in proposals}

Decided(n, p) == phases[n][p] # None /\ phases[n][p].decision # None

\* Round 1 votes go to the proposer alone, and only a node that received them
\* votes in round 2.  So whatever is lost, restarted, forgotten or
\* synchronized, a phase is decided only if a quorum of nodes proposed a batch
\* of their own under that same phase id.
DecidedByProposers ==
  \A n \in Nodes, p \in Phases :
    Decided(n, p) => Cardinality(Proposers(p)) >= quorum_size

\* Whatever a state machine holds, or a saved or travelling snapshot would
\* install, was proposed in a phase that a quorum of nodes proposed in:
\* apply_batch never runs on anything else.
Justified(b) == \E n \in Nodes, p \in Phases :
                  /\ <<n, p, b>> \in proposals
                  /\ Cardinality(Proposers(p)) >= quorum_size

AppliedWasProposed ==
  \A n \in Nodes : \A i \in 1..Len(state_machine[n]) : Justified(state_machine[n][i])

\* Where everything that leads to a decision comes from: the inductive
\* strengthening of the two properties above.
Proposed(p, b)     == \E n \in Nodes : <<n, p, b>> \in proposals
QuorumProposed(p)  == Cardinality(Proposers(p)) >= quorum_size
AllJustified(log)  == \A i \in 1..Len(log) : Justified(log[i])

MessageJustified(l, m) ==
  /\ m.type = "Propose" => <<l[1], m.phase, m.batch>> \in proposals
  /\ m.type = "VoteRound1" => l[2] \in Proposers(m.phase)
  /\ m.type = "VoteRound2" => l[1] \in Proposers(m.phase)
  /\ m.type = "Decision" => /\ QuorumProposed(m.phase)
                            /\ m.batch # None => Proposed(m.phase, m.batch)
  /\ m.type = "SyncResponse" /\ m.snapshot # None => AllJustified(m.snapshot)

RecordJustified(p, ph) ==
  /\ ph.batch # None => Proposed(p, ph.batch)
  /\ Voters(ph.round2_votes) \subseteq Proposers(p)
  /\ ph.decision # None => QuorumProposed(p)

Provenance ==
  /\ \A l \in Links : \A m \in OnLink(net, l) : MessageJustified(l, m)
  /\ \A n \in Nodes, p \in Phases :
       phases[n][p] # None => RecordJustified(p, phases[n][p])
  /\ \A n \in Nodes :
       /\ AllJustified(state_machine[n])
       /\ persisted[n] # None => AllJustified(persisted[n].snapshot)
       /\ \A s \in Voters(sync_responses[n]) :
            sync_responses[n][s].snapshot # None => AllJustified(sync_responses[n][s].snapshot)

\* commit_phase, initialize and resolve_sync write the two counters
\* independently; the committed phase still never passes the current one, live
\* or saved, so no heartbeat of a node is ever rejected by validate.
CommittedWithinCurrent ==
  \A n \in Nodes :
    /\ last_committed_phase[n] <= current_phase[n]
    /\ persisted[n] # None =>
         /\ persisted[n].last_committed_phase <= persisted[n].current_phase
         /\ persisted[n].last_committed_phase <= last_committed_phase[n]

\* Nodes that decide a phase decide the same value (the Agreement of the
\* protocol guide), although a node may decide on its own count of round 2
\* votes or on another node's Decision.  This is about clusters of up to four
\* nodes, in which a proposer gets just a quorum of round 1 votes.  In larger
\* ones handle_vote_round1 runs proceed_to_round2 for every vote from the
\* quorum on, so a node may cast different round 2 votes, and decisions differ.
DecisionAgreement ==
  \A n1, n2 \in Nodes, p \in Phases :
    Decided(n1, p) /\ Decided(n2, p) => phases[n1][p].decision = phases[n2][p].decision

\* A decision of a node is never changed by a later vote or Decision message,
\* in clusters of up to four nodes as above.
DecisionStable ==
  [][\A n \in Nodes, p \in Phases :
       Decided(n, p) /\ phases'[n][p] # None => phases'[n][p].decision = phases[n][p].decision]_vars

\* A sync response that would raise a node's phase brings the state to go with
\* it: the responder compares with the phase of the request, resolve_sync with
\* the phase the node has when the responses are in.
SyncBringsState ==
  \A n \in Nodes :
    /\ \A s \in Voters(sync_responses[n]) :
         sync_responses[n][s].phase > current_phase[n] => sync_responses[n][s].snapshot # None
    /\ \A l \in Links : l[2] = n =>
         \A m \in OnLink(net, l) :
           m.type = "SyncResponse" /\ m.phase > current_phase[n] => m.snapshot # None

\* While no record exists no vote is ever counted: nothing is decided,
\* applied, committed or saved, whatever clients submit.
Inert ==
  \A n \in Nodes :
    /\ \A p \in Phases : ~Decided(n, p)
    /\ state_machine[n] = <<>> /\ last_committed_phase[n] = 0 /\ persisted[n] = None

\* The round 2 vote of node n in phase p, as its own record has it.
OwnRound2Vote(n, p) == IF phases[n][p] = None THEN None
                       ELSE phases[n][p].round2_votes[n]

\* Every message is handled.  A handled message leads to finitely many others, so
\* under Fairness clients who stop submitting leave a cluster that comes to rest.
AtRest == \A l \in Links : net[l] = <<>>

\* With every vote delivered, each proposer got far enough to cast its round 2
\* vote (handle_vote_round1 goes on with a coin when there is no majority).
ProposerVotes ==
  AtRest => \A p \in Recorded : \A n \in Proposers(p) : OwnRound2Vote(n, p) # None

\* If a quorum of nodes cast the same round 2 vote, every node, proposer or not,
\* has learned the decision when the cluster is at rest: a node whose own vote
\* completes the quorum does not count again and depends on others' messages.
MatchingVotesDecide ==
  AtRest => \A p \in Recorded, v \in StateValue :
    Cardinality({n \in Nodes : OwnRound2Vote(n, p) = v}) >= quorum_size
      => \A n \in Nodes : Decided(n, p) /\ phases[n][p].decision = v

\* The protocol guide: `Every proposed batch is eventually decided.'
Termination ==
  \A n \in Nodes, p \in Phases : n \in Proposers(p) ~> Decided(n, p)
=============================================================================
