----------------------------- MODULE PhaseData -----------------------------
(***************************************************************************)
(* The per-phase record of rabia-core/src/messages.rs and the vote count   *)
(* that both voting rounds use.  A HashMap from voters to values is a total *)
(* function that is None where the map has no entry.  The fields batch_id  *)
(* and timestamp are left out: no code reads them.                          *)
(***************************************************************************)
EXTENDS Integers, FiniteSets

CONSTANTS Nodes,     \* the cluster's NodeIds
          Batches,   \* the CommandBatches clients submit
          None       \* Rust's Option::None

ASSUME PhaseDataAssumption ==
          /\ IsFiniteSet(Nodes)
          /\ None \notin Batches
          /\ None \notin {"V0", "V1", "VQuestion"}

StateValue == {"V0", "V1", "VQuestion"}
OptValue   == StateValue \cup {None}
OptBatch   == Batches \cup {None}
Votes      == [Nodes -> OptValue]

PhaseRecord ==
  [proposed_value : OptValue, round1_votes : Votes, round2_votes : Votes,
   decision : OptValue, batch : OptBatch, is_committed : BOOLEAN]

\* PhaseData::new
NewPhaseData ==
  [proposed_value |-> None,
   round1_votes   |-> [n \in Nodes |-> None],
   round2_votes   |-> [n \in Nodes |-> None],
   decision       |-> None,
   batch          |-> None,
   is_committed   |-> FALSE]

add_round1_vote(ph, voter, vote) == [ph EXCEPT !.round1_votes[voter] = vote]
add_round2_vote(ph, voter, vote) == [ph EXCEPT !.round2_votes[voter] = vote]

\* Voters whose entry is v, and all voters with an entry (HashMap::len).
VotersFor(votes, v) == {n \in Nodes : votes[n] = v}
Voters(votes)       == {n \in Nodes : votes[n] # None}

\* The first of V0, V1, VQuestion with quorum_size votes.
count_votes(votes, quorum_size) ==
  LET has(v) == Cardinality(VotersFor(votes, v)) >= quorum_size
  IN  IF has("V0") THEN "V0"
      ELSE IF has("V1") THEN "V1"
      ELSE IF has("VQuestion") THEN "VQuestion"
      ELSE None

\* mutant: one vote too few is a majority
has_round2_majority_short(ph, quorum_size) == count_votes(ph.round2_votes, quorum_size - 1)

has_round1_majority(ph, quorum_size) == count_votes(ph.round1_votes, quorum_size)
has_round2_majority(ph, quorum_size) == count_votes(ph.round2_votes, quorum_size)

set_decision(ph, d) ==
  [ph EXCEPT !.decision = d, !.is_committed = @ \/ d # "VQuestion"]
=============================================================================
