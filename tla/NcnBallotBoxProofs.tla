------------------------- MODULE NcnBallotBoxProofs -------------------------
(***************************************************************************)
(* Proofs about NcnBallotBox, for any number of operators, ballots and     *)
(* snapshot slots.                                                         *)
(***************************************************************************)
EXTENDS NcnBallotBox, FiniteSetTheorems, SequenceTheorems, TLAPS

(***************************************************************************)
(* Integer division grows with its dividend.                               *)
(***************************************************************************)
LEMMA DivMonotone ==
    ASSUME NEW m \in Nat, NEW n \in Nat, NEW d \in Nat \ {0}, m <= n
    PROVE  m \div d \in Nat /\ n \div d \in Nat /\ m \div d <= n \div d
  OBVIOUS

LEMMA BasisPointsAreNat == BasisPoints \subseteq Nat
  BY DEF BasisPoints, BASIS_POINTS_MAX

(***************************************************************************)
(* The recorded votes of a box are no more than its voters.                *)
(***************************************************************************)
LEMMA VotesBounded ==
    ASSUME NEW box \in BallotBox, OneVoteEach(box), VotesFromList(box)
    PROVE  /\ IsFiniteSet(box.voter_list)
           /\ IsFiniteSet(box.operator_votes)
           /\ Cardinality(box.operator_votes) <= Cardinality(box.voter_list)
<1>1. IsFiniteSet(box.voter_list)
  BY WhitelistAssumption, FS_Subset DEF BallotBox
<1> DEFINE f == [v \in box.operator_votes |-> v.operator]
<1>2. f \in Injection(box.operator_votes, box.voter_list)
  BY DEF Injection, IsInjective, OneVoteEach, VotesFromList
<1>3. QED
  BY <1>1, <1>2, FS_Injection

LEMMA VotesForFinite ==
    ASSUME NEW box \in BallotBox, OneVoteEach(box), VotesFromList(box), NEW i
    PROVE  /\ IsFiniteSet(VotesFor(box, i))
           /\ Cardinality(VotesFor(box, i)) \in Nat
<1>1. VotesFor(box, i) \in SUBSET box.operator_votes
  BY DEF VotesFor
<1>2. IsFiniteSet(VotesFor(box, i))
  BY <1>1, VotesBounded, FS_Subset
<1>3. QED
  BY <1>2, FS_CardinalityType

(***************************************************************************)
(* What Tallied and TallyIndex compute: the ballot's tally grows by one,   *)
(* the others keep theirs, and the list stays free of duplicates.          *)
(***************************************************************************)
LEMMA TallyIndexType ==
    ASSUME NEW box \in BallotBox, NEW ballot \in Ballot
    PROVE  /\ TallyIndex(box, ballot) \in Nat
           /\ HasTally(box, ballot) =>
                /\ TallyIndex(box, ballot) \in DOMAIN box.ballot_tallies
                /\ box.ballot_tallies[TallyIndex(box, ballot)].ballot = ballot
           /\ ~HasTally(box, ballot) =>
                TallyIndex(box, ballot) = Len(box.ballot_tallies) + 1
<1>1. box.ballot_tallies \in Seq(BallotTally)
  BY DEF BallotBox
<1>2. DOMAIN box.ballot_tallies \subseteq Nat /\ Len(box.ballot_tallies) \in Nat
  BY <1>1
<1>3. QED
  BY <1>2 DEF TallyIndex, HasTally

LEMMA TalliedType ==
    ASSUME NEW box \in BallotBox, NEW ballot \in Ballot
    PROVE  /\ Tallied(box, ballot) \in Seq(BallotTally)
           /\ DOMAIN Tallied(box, ballot) =
                DOMAIN box.ballot_tallies \cup {TallyIndex(box, ballot)}
           /\ Tallied(box, ballot)[TallyIndex(box, ballot)].ballot = ballot
           /\ \A i \in DOMAIN box.ballot_tallies :
                /\ Tallied(box, ballot)[i].ballot = box.ballot_tallies[i].ballot
                /\ Tallied(box, ballot)[i].tally =
                     IF i = TallyIndex(box, ballot) THEN box.ballot_tallies[i].tally + 1
                                                    ELSE box.ballot_tallies[i].tally
           /\ ~HasTally(box, ballot) =>
                Tallied(box, ballot)[TallyIndex(box, ballot)].tally = 1
<1> DEFINE ts == box.ballot_tallies
           k == TallyIndex(box, ballot)
<1>1. ts \in Seq(BallotTally) /\ Len(ts) \in Nat /\ DOMAIN ts = 1 .. Len(ts)
  BY DEF BallotBox
<1>2. CASE HasTally(box, ballot)
  <2>1. k \in DOMAIN ts /\ ts[k].ballot = ballot /\ ts[k] \in BallotTally
    BY <1>1, <1>2, TallyIndexType
  <2>2. Tallied(box, ballot) = [ts EXCEPT ![k] = [ts[k] EXCEPT !.tally = ts[k].tally + 1]]
    BY <1>2 DEF Tallied
  <2>3. [ts[k] EXCEPT !.tally = ts[k].tally + 1] \in BallotTally
    BY <2>1 DEF BallotTally
  <2>4. Tallied(box, ballot) \in Seq(BallotTally)
    BY <1>1, <2>1, <2>2, <2>3
  <2>5. QED
    BY <1>1, <1>2, <2>1, <2>2, <2>4 DEF BallotTally
<1>3. CASE ~HasTally(box, ballot)
  <2>1. k = Len(ts) + 1
    BY <1>3, TallyIndexType
  <2>2. Tallied(box, ballot) = Append(ts, [ballot |-> ballot, tally |-> 1])
    BY <1>3 DEF Tallied
  <2>3. [ballot |-> ballot, tally |-> 1] \in BallotTally
    BY DEF BallotTally
  <2>4. QED
    BY <1>1, <1>3, <2>1, <2>2, <2>3
<1>4. QED
  BY <1>2, <1>3

(***************************************************************************)
(* A cast vote keeps the box well-formed and well-counted.                 *)
(***************************************************************************)
LEMMA VoteCastFields ==
    ASSUME NEW box \in BallotBox, NEW op, NEW ballot
    PROVE  LET new == VoteCast(box, op, ballot)
           IN /\ new.operator_votes = box.operator_votes \cup {NewVote(box, op, ballot)}
              /\ new.ballot_tallies = Tallied(box, ballot)
              /\ new.slot_consensus_reached =
                   IF ReachesConsensus(box, ballot) THEN slot
                                                    ELSE box.slot_consensus_reached
              /\ new.winning_ballot =
                   IF ReachesConsensus(box, ballot) THEN ballot ELSE box.winning_ballot
              /\ new.voter_list = box.voter_list
              /\ new.min_consensus_threshold_bps = box.min_consensus_threshold_bps
              /\ new.vote_expiry_timestamp = box.vote_expiry_timestamp
              /\ new.tie_breaker_consensus = box.tie_breaker_consensus
  BY DEF VoteCast, BallotBox

LEMMA VoteCastType ==
    ASSUME NEW box \in BallotBox, NEW op \in Operators, NEW ballot \in Ballot, slot \in Nat
    PROVE  VoteCast(box, op, ballot) \in BallotBox
<1>1. NewVote(box, op, ballot) \in OperatorVote
  BY TallyIndexType DEF NewVote, OperatorVote
<1>2. Tallied(box, ballot) \in Seq(BallotTally)
  BY TalliedType
<1>3. QED
  BY <1>1, <1>2 DEF VoteCast, BallotBox

LEMMA VoteCastVotesFor ==
    ASSUME NEW box \in BallotBox, NEW op \in Operators, NEW ballot \in Ballot, NEW i
    PROVE  VotesFor(VoteCast(box, op, ballot), i) =
             IF i = TallyIndex(box, ballot)
             THEN VotesFor(box, i) \cup {NewVote(box, op, ballot)}
             ELSE VotesFor(box, i)
<1>1. NewVote(box, op, ballot).ballot_index = TallyIndex(box, ballot)
  BY DEF NewVote
<1>2. QED
  BY <1>1, VoteCastFields DEF VotesFor

LEMMA VoteCastInv ==
    ASSUME NEW box \in BallotBox, BoxInv(box),
           NEW op \in Operators, op \in box.voter_list, ~HasVoted(box, op),
           NEW ballot \in Ballot, ballot.meta_merkle_root # ZeroRoot,
           slot \in Nat \ {0}
    PROVE  BoxInv(VoteCast(box, op, ballot))
<1> DEFINE new == VoteCast(box, op, ballot)
           v0 == NewVote(box, op, ballot)
           k == TallyIndex(box, ballot)
           ts == box.ballot_tallies
<1> USE DEF BoxInv
<1>1. new \in BallotBox
  BY VoteCastType
<1>2. /\ new.operator_votes = box.operator_votes \cup {v0}
      /\ new.ballot_tallies = Tallied(box, ballot)
      /\ new.voter_list = box.voter_list
      /\ new.min_consensus_threshold_bps = box.min_consensus_threshold_bps
      /\ new.tie_breaker_consensus = box.tie_breaker_consensus
      /\ v0.operator = op
      /\ v0.ballot_index = k
  BY VoteCastFields DEF NewVote
<1>3. v0 \notin box.operator_votes
  BY <1>2 DEF HasVoted
<1>4. OneVoteEach(new)
  BY <1>2 DEF OneVoteEach, HasVoted
<1>5. VotesFromList(new)
  BY <1>2 DEF VotesFromList
<1>t. /\ DOMAIN Tallied(box, ballot) = DOMAIN ts \cup {k}
      /\ Tallied(box, ballot)[k].ballot = ballot
      /\ \A i \in DOMAIN ts :
           /\ Tallied(box, ballot)[i].ballot = ts[i].ballot
           /\ Tallied(box, ballot)[i].tally =
                IF i = k THEN ts[i].tally + 1 ELSE ts[i].tally
      /\ ~HasTally(box, ballot) => Tallied(box, ballot)[k].tally = 1
  BY TalliedType
<1>6. /\ DOMAIN new.ballot_tallies = DOMAIN ts \cup {k}
      /\ new.ballot_tallies[k].ballot = ballot
      /\ \A i \in DOMAIN ts :
           /\ new.ballot_tallies[i].ballot = ts[i].ballot
           /\ new.ballot_tallies[i].tally = IF i = k THEN ts[i].tally + 1 ELSE ts[i].tally
      /\ ~HasTally(box, ballot) => new.ballot_tallies[k].tally = 1
  BY <1>2, <1>t
<1>7. VotesAreIndexed(new)
  BY <1>2, <1>6 DEF VotesAreIndexed
<1>8. OneTallyEach(new)
  BY <1>6, TallyIndexType DEF OneTallyEach, HasTally
<1>9. NonzeroRoots(new)
  BY <1>6 DEF NonzeroRoots
<1>10. ASSUME NEW i
       PROVE /\ IsFiniteSet(VotesFor(box, i))
             /\ Cardinality(VotesFor(box, i)) \in Nat
             /\ Cardinality(VotesFor(new, i)) =
                  IF i = k THEN Cardinality(VotesFor(box, i)) + 1
                           ELSE Cardinality(VotesFor(box, i))
  <2>1. IsFiniteSet(VotesFor(box, i)) /\ Cardinality(VotesFor(box, i)) \in Nat
    BY VotesForFinite
  <2>2. v0 \notin VotesFor(box, i)
    BY <1>3 DEF VotesFor
  <2>3. QED
    BY <2>1, <2>2, VoteCastVotesFor, FS_AddElement
<1>11. TalliesCountVotes(new)
  <2> SUFFICES ASSUME NEW i \in DOMAIN new.ballot_tallies
               PROVE  new.ballot_tallies[i].tally = Cardinality(VotesFor(new, i))
    BY DEF TalliesCountVotes
  <2>1. CASE i \in DOMAIN ts
    BY <1>6, <1>10, <2>1 DEF TalliesCountVotes
  <2>2. CASE i \notin DOMAIN ts
    <3>1. i = k /\ ~HasTally(box, ballot)
      BY <1>6, <2>2, TallyIndexType
    <3>2. VotesFor(box, i) = {}
      BY <2>2 DEF VotesFor, VotesAreIndexed
    <3>3. QED
      BY <1>6, <1>10, <3>1, <3>2, FS_EmptySet
  <2>3. QED
    BY <2>1, <2>2
<1>12. WinnerIsBacked(new)
  <2> SUFFICES ASSUME Decided(new)
               PROVE  \E i \in DOMAIN new.ballot_tallies :
                        /\ new.ballot_tallies[i].ballot = new.winning_ballot
                        /\ new.winning_ballot.meta_merkle_root # ZeroRoot
                        /\ VotesFor(new, i) # {}
                        /\ tally_bps(new, Cardinality(VotesFor(new, i)))
                             >= new.min_consensus_threshold_bps
    BY DEF WinnerIsBacked
  <2>1. CASE ReachesConsensus(box, ballot)
    <3>1. new.winning_ballot = ballot
      BY <2>1, VoteCastFields
    <3>2. k \in DOMAIN new.ballot_tallies
      BY <1>6
    <3>3. new.ballot_tallies[k].ballot = ballot
      BY <1>6
    <3>4. new.ballot_tallies[k].tally = Cardinality(VotesFor(new, k))
      BY <1>11, <3>2 DEF TalliesCountVotes
    <3>5. tally_bps(new, new.ballot_tallies[k].tally) >= new.min_consensus_threshold_bps
      BY <1>2, <2>1 DEF ReachesConsensus, tally_bps
    <3>6. VotesFor(new, k) # {}
      BY VoteCastVotesFor
    <3>7. QED
      BY <3>1, <3>2, <3>3, <3>4, <3>5, <3>6
  <2>2. CASE ~ReachesConsensus(box, ballot)
    <3>1. new.winning_ballot = box.winning_ballot /\ Decided(box)
      BY <1>2, <2>2, VoteCastFields DEF Decided, has_consensus_reached
    <3>2. PICK i \in DOMAIN ts :
              /\ ts[i].ballot = box.winning_ballot
              /\ box.winning_ballot.meta_merkle_root # ZeroRoot
              /\ VotesFor(box, i) # {}
              /\ tally_bps(box, Cardinality(VotesFor(box, i)))
                   >= box.min_consensus_threshold_bps
      BY <3>1 DEF WinnerIsBacked
    <3>3. VotesFor(new, i) # {}
      BY <3>2, VoteCastVotesFor
    <3>4. tally_bps(new, Cardinality(VotesFor(new, i))) >= new.min_consensus_threshold_bps
      <4>1. Cardinality(VotesFor(new, i)) >= Cardinality(VotesFor(box, i))
        BY <1>10
      <4>2. box.voter_list # {} /\ IsFiniteSet(box.voter_list)
        BY VotesBounded
      <4>3. Cardinality(box.voter_list) \in Nat /\ Cardinality(box.voter_list) # 0
        BY <4>2, FS_CardinalityType, FS_EmptySet
      <4>4. box.min_consensus_threshold_bps \in Nat
        <5>1. box.min_consensus_threshold_bps \in BasisPoints
          BY DEF BallotBox
        <5>2. QED
          BY <5>1, BasisPointsAreNat
      <4> DEFINE m == Cardinality(VotesFor(box, i)) * BASIS_POINTS_MAX
                 n == Cardinality(VotesFor(new, i)) * BASIS_POINTS_MAX
                 d == Cardinality(box.voter_list)
      <4>5. m \in Nat /\ n \in Nat /\ m <= n
        BY <1>10, <4>1 DEF BASIS_POINTS_MAX
      <4>6. d \in Nat \ {0}
        BY <4>3
      <4>7. /\ tally_bps(box, Cardinality(VotesFor(box, i))) = m \div d
            /\ tally_bps(new, Cardinality(VotesFor(new, i))) = n \div d
        BY <1>2 DEF tally_bps
      <4> HIDE DEF m, n, d
      <4>8. m \div d \in Nat /\ n \div d \in Nat /\ m \div d <= n \div d
        BY <4>5, <4>6, DivMonotone
      <4>9. QED
        BY <1>2, <3>2, <4>4, <4>7, <4>8
    <3>5. QED
      BY <1>6, <3>1, <3>2, <3>3, <3>4
  <2>3. QED
    BY <2>1, <2>2
<1>13. QED
  BY <1>4, <1>5, <1>7, <1>8, <1>9, <1>11, <1>12

(***************************************************************************)
(* Taking a vote back: the indexed tally is at least 1, so the subtraction *)
(* that remove_vote.rs:48 unwraps succeeds.                                *)
(***************************************************************************)
LEMMA VoteRemovedInv ==
    ASSUME NEW box \in BallotBox, BoxInv(box), ~has_consensus_reached(box),
           NEW v \in box.operator_votes
    PROVE  /\ VoteRemoved(box, v) \in BallotBox
           /\ BoxInv(VoteRemoved(box, v))
           /\ ~has_consensus_reached(VoteRemoved(box, v))
<1> DEFINE new == VoteRemoved(box, v)
           k == v.ballot_index
           ts == box.ballot_tallies
<1> USE DEF BoxInv
<1>1. ts \in Seq(BallotTally) /\ Len(ts) \in Nat /\ DOMAIN ts = 1 .. Len(ts)
  BY DEF BallotBox
<1>2. k \in DOMAIN ts /\ ts[k] \in BallotTally
  BY <1>1 DEF VotesAreIndexed
<1>3. ASSUME NEW i
      PROVE  /\ VotesFor(new, i) = VotesFor(box, i) \ {v}
             /\ IsFiniteSet(VotesFor(box, i))
             /\ Cardinality(VotesFor(box, i)) \in Nat
             /\ Cardinality(VotesFor(new, i)) =
                  IF i = k THEN Cardinality(VotesFor(box, i)) - 1
                           ELSE Cardinality(VotesFor(box, i))
  <2>1. new.operator_votes = box.operator_votes \ {v}
    BY DEF VoteRemoved, BallotBox
  <2>2. VotesFor(new, i) = VotesFor(box, i) \ {v}
    BY <2>1 DEF VotesFor
  <2>3. v \in VotesFor(box, i) <=> i = k
    BY DEF VotesFor
  <2>4. IsFiniteSet(VotesFor(box, i)) /\ Cardinality(VotesFor(box, i)) \in Nat
    BY VotesForFinite
  <2>5. QED
    BY <2>2, <2>3, <2>4, FS_RemoveElement
<1>4. ts[k].tally - 1 \in Nat
  <2>1. v \in VotesFor(box, k)
    BY DEF VotesFor
  <2>2. Cardinality(VotesFor(box, k)) # 0
    BY <1>3, <2>1, FS_EmptySet
  <2>3. ts[k].tally = Cardinality(VotesFor(box, k))
    BY <1>2 DEF TalliesCountVotes
  <2>4. QED
    BY <1>3, <2>2, <2>3
<1> DEFINE t0 == [ts[k] EXCEPT !.tally = ts[k].tally - 1]
<1>5. t0 \in BallotTally /\ t0.ballot = ts[k].ballot /\ t0.tally = ts[k].tally - 1
  BY <1>2, <1>4 DEF BallotTally
<1>u. Untallied(box, v) = [ts EXCEPT ![k] = t0]
  BY DEF Untallied
<1>6. new = [box EXCEPT !.operator_votes = box.operator_votes \ {v},
                        !.ballot_tallies = Untallied(box, v)]
  BY DEF VoteRemoved
<1> HIDE DEF t0
<1>7. [ts EXCEPT ![k] = t0] \in Seq(BallotTally)
  BY <1>1, <1>2, <1>5
<1>8. new \in BallotBox
  BY <1>6, <1>u, <1>7 DEF BallotBox
<1>9. /\ new.operator_votes = box.operator_votes \ {v}
      /\ new.ballot_tallies = [ts EXCEPT ![k] = t0]
      /\ new.voter_list = box.voter_list
      /\ new.slot_consensus_reached = box.slot_consensus_reached
  BY <1>6, <1>u DEF BallotBox
<1> HIDE DEF new
<1>10. /\ DOMAIN new.ballot_tallies = DOMAIN ts
       /\ \A i \in DOMAIN ts :
            /\ new.ballot_tallies[i].ballot = ts[i].ballot
            /\ new.ballot_tallies[i].tally = IF i = k THEN ts[i].tally - 1 ELSE ts[i].tally
  BY <1>5, <1>9, <1>1
<1>11. TalliesCountVotes(new)
  BY <1>3, <1>10 DEF TalliesCountVotes
<1>12. VotesAreIndexed(new)
  BY <1>9, <1>10 DEF VotesAreIndexed
<1>13. OneVoteEach(new) /\ VotesFromList(new)
  BY <1>9 DEF OneVoteEach, VotesFromList
<1>14. OneTallyEach(new)
  BY <1>10 DEF OneTallyEach
<1>15. NonzeroRoots(new)
  BY <1>10 DEF NonzeroRoots
<1>16. ~has_consensus_reached(new)
  BY <1>9 DEF has_consensus_reached
<1>17. WinnerIsBacked(new)
  BY <1>16 DEF WinnerIsBacked, Decided
<1>18. QED
  BY <1>8, <1>11, <1>12, <1>13, <1>14, <1>15, <1>16, <1>17 DEF new

(***************************************************************************)
(* A box without votes and tallies that the operators have not decided is  *)
(* trivially well-counted: a fresh box and a reset one.                    *)
(***************************************************************************)
LEMMA EmptyBoxInv ==
    ASSUME NEW box \in BallotBox, box.operator_votes = {}, box.ballot_tallies = <<>>,
           ~has_consensus_reached(box)
    PROVE  BoxInv(box)
  BY DEF BoxInv, TalliesCountVotes, VotesAreIndexed, OneVoteEach, VotesFromList,
         OneTallyEach, NonzeroRoots, WinnerIsBacked, Decided

\* A config instruction leaves a well-typed config behind.
LEMMA ConfigTypeStep ==
    ASSUME ConfigTypeOK, ConfigNext
    PROVE  program_config' \in ProgramConfig /\ ConfigTypeOK'
<1> USE DEF ConfigTypeOK, ProgramConfig
<1>1. ASSUME NEW k \in Keys, NEW p \in Programs, InitProgramConfig(k, p)
      PROVE  program_config' \in ProgramConfig
  <2>1. 0 \in BasisPoints
    BY DEF BasisPoints, BASIS_POINTS_MAX
  <2>2. QED
    BY <1>1, <2>1 DEF InitProgramConfig
<1>2. ASSUME NEW k \in Keys, NEW pa \in Nominees \cup {None},
             NEW bps \in Thresholds \cup {None}, NEW t \in Keys \cup {DefaultKey, None},
             NEW d \in Durations \cup {None}, NEW p \in Programs \cup {None},
             UpdateProgramConfig(k, pa, bps, t, d, p)
      PROVE  program_config' \in ProgramConfig
  <2>1. program_config \in ProgramConfig
    BY <1>2 DEF UpdateProgramConfig, ConfigExists
  <2>g. /\ bps # None => bps > 0 /\ bps <= 10000
        /\ d # None => d > 0
    BY <1>2 DEF UpdateProgramConfig, ValidThreshold, BASIS_POINTS_MAX
  <2> DEFINE bps1 == Given(bps, program_config.min_consensus_threshold_bps)
             d1 == Given(d, program_config.vote_duration)
             pa1 == Given(pa, program_config.proposed_authority)
             t1 == Given(t, program_config.tie_breaker_admin)
             p1 == Given(p, program_config.svmgov_program_pubkey)
  <2>2. bps1 \in BasisPoints
    <3>1. CASE bps = None
      BY <2>1, <3>1 DEF Given
    <3>2. CASE bps # None
      <4>1. bps \in Int
        BY <3>2, ConfigArgsAssumption
      <4>2. QED
        BY <2>g, <3>2, <4>1 DEF Given, BasisPoints, BASIS_POINTS_MAX
    <3>3. QED
      BY <3>1, <3>2
  <2>3. d1 \in Nat
    <3>1. CASE d = None
      BY <2>1, <3>1 DEF Given
    <3>2. CASE d # None
      BY <2>g, <3>2, ConfigArgsAssumption DEF Given
    <3>3. QED
      BY <3>1, <3>2
  <2>4. pa1 \in Keys \cup {DefaultKey, None}
    BY <2>1, ConfigArgsAssumption DEF Given
  <2>5. t1 \in Keys \cup {DefaultKey}
    BY <2>1 DEF Given
  <2>6. p1 \in Programs
    BY <2>1 DEF Given
  <2>7. program_config' = [program_config EXCEPT !.proposed_authority = pa1,
              !.min_consensus_threshold_bps = bps1, !.tie_breaker_admin = t1,
              !.vote_duration = d1, !.svmgov_program_pubkey = p1]
    BY <1>2 DEF UpdateProgramConfig
  <2> HIDE DEF bps1, d1, pa1, t1, p1
  <2>8. program_config' \in ProgramConfig
    BY <2>1, <2>2, <2>3, <2>4, <2>5, <2>6, <2>7
  <2>9. QED
    BY <2>8
<1>3. ASSUME NEW k \in Keys, FinalizeProposedAuthority(k)
      PROVE  program_config' \in ProgramConfig
  <2>1. program_config \in ProgramConfig
    BY <1>3 DEF FinalizeProposedAuthority, ConfigExists
  <2>2. program_config' \in ProgramConfig
    BY <1>3, <2>1 DEF FinalizeProposedAuthority
  <2>3. QED
    BY <2>2
<1>4. ASSUME NEW k \in Keys, NEW add \in SUBSET Operators, NEW remove \in SUBSET Operators,
             UpdateOperatorWhitelist(k, add, remove)
      PROVE  program_config' \in ProgramConfig
  BY <1>4 DEF UpdateOperatorWhitelist, ConfigExists
<1>5. QED
  BY <1>1, <1>2, <1>3, <1>4 DEF ConfigNext

-----------------------------------------------------------------------------
\* BoxInv speaks of a box, not of the state: the box of the next state is all it reads.
LEMMA BoxInvPrime ==
    ASSUME NEW t \in SnapshotSlots
    PROVE  BoxInv(ballot_box'[t]) <=> BoxInv(ballot_box[t])'
  BY DEF BoxInv, TalliesCountVotes, VotesAreIndexed, OneVoteEach, VotesFromList,
         OneTallyEach, NonzeroRoots, WinnerIsBacked, Decided, has_consensus_reached,
         tally_bps, VotesFor

LEMMA InitIndInv == Init => IndInv
  BY DEF Init, ConfigInit, IndInv, TypeOK, ConfigTypeOK, Opened, Finalized, ResultMatchesBox

(***************************************************************************)
(* The effect on the invariant of replacing one box by another that is     *)
(* well-formed and, if a result was published, kept its decision.          *)
(***************************************************************************)
LEMMA BoxReplaced ==
    ASSUME IndInv, NEW s \in SnapshotSlots, NEW new \in BallotBox,
           BoxInv(new), DecidedAfterSnapshot(new, s),
           Finalized(s) => /\ has_consensus_reached(new)
                           /\ consensus_result[s].ballot = new.winning_ballot
                           /\ consensus_result[s].tie_breaker_consensus
                                = new.tie_breaker_consensus,
           ballot_box' = [ballot_box EXCEPT ![s] = new],
           UNCHANGED <<program_config, slot, unix_timestamp, consensus_result>>
    PROVE  IndInv'
<1>1. TypeOK'
  BY DEF IndInv, TypeOK, ConfigTypeOK
<1>2. ASSUME NEW t \in SnapshotSlots
      PROVE  ballot_box'[t] = IF t = s THEN new ELSE ballot_box[t]
  BY DEF IndInv, TypeOK
<1>3. ASSUME NEW t \in SnapshotSlots, Opened(t)'
      PROVE  BoxInv(ballot_box[t])' /\ DecidedAfterSnapshot(ballot_box[t], t)'
  <2>1. BoxInv(ballot_box'[t]) /\ DecidedAfterSnapshot(ballot_box'[t], t)
    BY <1>2, <1>3 DEF IndInv, Opened
  <2>2. DecidedAfterSnapshot(ballot_box[t], t)'
    BY <2>1 DEF DecidedAfterSnapshot, Decided, has_consensus_reached
  <2>3. QED
    BY <2>1, <2>2, BoxInvPrime
<1>4. new # None
  BY NoneAssumption
<1>5. ResultMatchesBox'
  BY <1>2, <1>4 DEF IndInv, ResultMatchesBox, Finalized, Opened, has_consensus_reached
<1>6. QED
  BY <1>1, <1>3, <1>5 DEF IndInv

(***************************************************************************)
(* Every step keeps the invariant.                                         *)
(***************************************************************************)
LEMMA NextIndInv == IndInv /\ [Next]_vars => IndInv'
<1> SUFFICES ASSUME IndInv, [Next]_vars
             PROVE  IndInv'
  OBVIOUS
<1>a. /\ ConfigTypeOK /\ slot \in Nat \ {0} /\ unix_timestamp \in Nat
      /\ ballot_box \in [SnapshotSlots -> BallotBox \cup {None}]
      /\ consensus_result \in [SnapshotSlots -> ConsensusResult \cup {None}]
      /\ \A s \in SnapshotSlots : Opened(s) => ballot_box[s] \in BallotBox
      /\ \A s \in SnapshotSlots : Opened(s) =>
            BoxInv(ballot_box[s]) /\ DecidedAfterSnapshot(ballot_box[s], s)
      /\ ResultMatchesBox
  BY DEF IndInv, TypeOK, Opened
<1>b. ASSUME UNCHANGED <<ballot_box, consensus_result>>, ConfigTypeOK',
             slot' \in Nat \ {0}, slot' >= slot, unix_timestamp' \in Nat
      PROVE  IndInv'
  <2>1. TypeOK'
    BY <1>a, <1>b DEF TypeOK
  <2>2. ASSUME NEW s \in SnapshotSlots, Opened(s)'
        PROVE  BoxInv(ballot_box[s])' /\ DecidedAfterSnapshot(ballot_box[s], s)'
    <3>1. BoxInv(ballot_box[s])'
      BY <1>a, <1>b, <2>2, BoxInvPrime DEF Opened
    <3>2. Decided(ballot_box[s])' => slot > s
      BY <1>a, <1>b, <2>2 DEF Opened, DecidedAfterSnapshot, Decided, has_consensus_reached
    <3>3. s \in Nat
      BY BoxAssumption
    <3>4. QED
      BY <1>a, <1>b, <3>1, <3>2, <3>3 DEF DecidedAfterSnapshot
  <2>3. ResultMatchesBox'
    BY <1>a, <1>b DEF ResultMatchesBox, Finalized, Opened, has_consensus_reached
  <2>4. QED
    BY <2>1, <2>2, <2>3 DEF IndInv
<1>1. CASE ConfigNext /\ UNCHANGED <<slot, unix_timestamp, ballot_box, consensus_result>>
  BY <1>1, <1>a, <1>b, ConfigTypeStep
<1>2. ASSUME NEW s \in SnapshotSlots, NEW p \in Programs, InitBallotBox(p, s)
      PROVE  IndInv'
  <2> DEFINE new == [slot_consensus_reached |-> 0,
                     min_consensus_threshold_bps |-> program_config.min_consensus_threshold_bps,
                     winning_ballot |-> DefaultBallot,
                     operator_votes |-> {},
                     ballot_tallies |-> <<>>,
                     vote_expiry_timestamp |-> unix_timestamp + program_config.vote_duration,
                     voter_list |-> program_config.whitelisted_operators,
                     tie_breaker_consensus |-> FALSE]
  <2>1. /\ program_config.min_consensus_threshold_bps \in BasisPoints
        /\ program_config.vote_duration \in Nat
        /\ program_config.whitelisted_operators \in SUBSET Operators
    BY <1>2, <1>a DEF InitBallotBox, ConfigTypeOK, ConfigExists, ProgramConfig
  <2>2. DefaultBallot \in Ballot
    BY BoxAssumption DEF DefaultBallot, Ballot
  <2>3. new \in BallotBox
    <3>1. <<>> \in Seq(BallotTally) /\ unix_timestamp + program_config.vote_duration \in Nat
      BY <1>a, <2>1
    <3>2. QED
      BY <2>1, <2>2, <3>1 DEF BallotBox
  <2>4. BoxInv(new)
    BY <2>3, EmptyBoxInv DEF has_consensus_reached
  <2>d. DecidedAfterSnapshot(new, s)
    BY DEF DecidedAfterSnapshot, Decided, has_consensus_reached
  <2>5. ~Finalized(s)
    BY <1>2, <1>a DEF InitBallotBox, ResultMatchesBox
  <2>6. /\ ballot_box' = [ballot_box EXCEPT ![s] = new]
        /\ UNCHANGED <<program_config, slot, unix_timestamp, consensus_result>>
    BY <1>2 DEF InitBallotBox
  <2> HIDE DEF new
  <2>7. QED
    BY <2>3, <2>4, <2>d, <2>5, <2>6, BoxReplaced
<1>3. ASSUME NEW s \in SnapshotSlots, NEW op \in Operators, NEW b \in Ballot,
             CastVote(op, s, b)
      PROVE  IndInv'
  <2> DEFINE box == ballot_box[s]
             new == VoteCast(box, op, b)
  <2>1. /\ Opened(s) /\ op \in box.voter_list /\ ~HasVoted(box, op)
        /\ b.meta_merkle_root # ZeroRoot /\ slot > s
        /\ ballot_box' = [ballot_box EXCEPT ![s] = new]
        /\ UNCHANGED <<program_config, slot, unix_timestamp, consensus_result>>
    BY <1>3 DEF CastVote
  <2>2. box \in BallotBox /\ BoxInv(box)
    BY <1>a, <2>1
  <2>3. new \in BallotBox /\ BoxInv(new)
    BY <1>a, <2>1, <2>2, VoteCastType, VoteCastInv
  <2>4. Finalized(s) => /\ has_consensus_reached(new)
                        /\ consensus_result[s].ballot = new.winning_ballot
                        /\ consensus_result[s].tie_breaker_consensus
                             = new.tie_breaker_consensus
    BY <1>a, <2>2, VoteCastFields
       DEF ResultMatchesBox, ReachesConsensus, has_consensus_reached
  <2>5. DecidedAfterSnapshot(new, s)
    BY <2>1 DEF DecidedAfterSnapshot
  <2> HIDE DEF new, box
  <2>6. QED
    BY <2>1, <2>3, <2>4, <2>5, BoxReplaced
<1>4. ASSUME NEW s \in SnapshotSlots, NEW op \in Operators, RemoveVote(op, s)
      PROVE  IndInv'
  <2> DEFINE box == ballot_box[s]
  <2>1. Opened(s) /\ ~has_consensus_reached(box)
    BY <1>4 DEF RemoveVote
  <2>2. PICK v \in box.operator_votes :
            ballot_box' = [ballot_box EXCEPT ![s] = VoteRemoved(box, v)]
    BY <1>4 DEF RemoveVote
  <2>3. UNCHANGED <<program_config, slot, unix_timestamp, consensus_result>>
    BY <1>4 DEF RemoveVote
  <2>4. ~Finalized(s)
    BY <1>a, <2>1 DEF ResultMatchesBox
  <2>5. VoteRemoved(box, v) \in BallotBox /\ BoxInv(VoteRemoved(box, v))
    BY <1>a, <2>1, VoteRemovedInv
  <2>6. DecidedAfterSnapshot(VoteRemoved(box, v), s)
    BY <1>a, <2>1, VoteRemovedInv DEF DecidedAfterSnapshot, Decided
  <2> HIDE DEF box
  <2>7. QED
    BY <2>2, <2>3, <2>4, <2>5, <2>6, BoxReplaced
<1>5. ASSUME NEW s \in SnapshotSlots, NEW k \in Keys, ResetBallotBox(k, s)
      PROVE  IndInv'
  <2> DEFINE box == ballot_box[s]
             new == [box EXCEPT !.operator_votes = {}, !.ballot_tallies = <<>>]
  <2>1. /\ Opened(s) /\ ~has_consensus_reached(box)
        /\ ballot_box' = [ballot_box EXCEPT ![s] = new]
        /\ UNCHANGED <<program_config, slot, unix_timestamp, consensus_result>>
    BY <1>5 DEF ResetBallotBox
  <2>2. box \in BallotBox /\ ~Finalized(s)
    BY <1>a, <2>1 DEF ResultMatchesBox
  <2>3. new \in BallotBox /\ new.operator_votes = {} /\ new.ballot_tallies = <<>>
    <3>1. <<>> \in Seq(BallotTally)
      OBVIOUS
    <3>2. new \in BallotBox
      BY <2>2, <3>1 DEF BallotBox
    <3>3. QED
      BY <2>2, <3>2 DEF BallotBox
  <2>4. ~has_consensus_reached(new)
    BY <2>1, <2>2 DEF has_consensus_reached, BallotBox
  <2> HIDE DEF new, box
  <2>5. BoxInv(new) /\ DecidedAfterSnapshot(new, s)
    BY <2>3, <2>4, EmptyBoxInv DEF DecidedAfterSnapshot, Decided
  <2>6. QED
    BY <2>1, <2>2, <2>3, <2>5, BoxReplaced
<1>6. ASSUME NEW s \in SnapshotSlots, NEW k \in Keys, NEW b \in Ballot,
             SetTieBreaker(k, s, b)
      PROVE  IndInv'
  <2> DEFINE box == ballot_box[s]
             new == [box EXCEPT !.slot_consensus_reached = slot,
                                !.winning_ballot = b,
                                !.tie_breaker_consensus = TRUE]
  <2>1. /\ Opened(s) /\ ~has_consensus_reached(box)
        /\ ballot_box' = [ballot_box EXCEPT ![s] = new]
        /\ UNCHANGED <<program_config, slot, unix_timestamp, consensus_result>>
    BY <1>6 DEF SetTieBreaker, TieBroken
  <2>2. box \in BallotBox /\ BoxInv(box) /\ ~Finalized(s)
    BY <1>a, <2>1 DEF ResultMatchesBox
  <2>3. /\ new \in BallotBox
        /\ new.operator_votes = box.operator_votes
        /\ new.ballot_tallies = box.ballot_tallies
        /\ new.voter_list = box.voter_list
        /\ new.tie_breaker_consensus = TRUE
    BY <1>a, <2>2 DEF BallotBox
  <2> HIDE DEF new, box
  <2>4. \A i : VotesFor(new, i) = VotesFor(box, i)
    BY <2>3 DEF VotesFor
  <2>5. BoxInv(new)
    BY <2>2, <2>3, <2>4 DEF BoxInv, TalliesCountVotes, VotesAreIndexed, OneVoteEach,
       VotesFromList, OneTallyEach, NonzeroRoots, WinnerIsBacked, Decided
  <2>6. DecidedAfterSnapshot(new, s)
    BY <2>3 DEF DecidedAfterSnapshot, Decided
  <2>7. QED
    BY <2>1, <2>2, <2>3, <2>5, <2>6, BoxReplaced
<1>7. ASSUME NEW s \in SnapshotSlots, FinalizeBallot(s)
      PROVE  IndInv'
  <2>1. /\ Opened(s) /\ has_consensus_reached(ballot_box[s])
        /\ consensus_result' = [consensus_result EXCEPT ![s] =
              [ballot |-> ballot_box[s].winning_ballot,
               tie_breaker_consensus |-> ballot_box[s].tie_breaker_consensus]]
        /\ UNCHANGED <<program_config, slot, unix_timestamp, ballot_box>>
    BY <1>7 DEF FinalizeBallot
  <2>2. TypeOK'
    <3>1. [ballot |-> ballot_box[s].winning_ballot,
           tie_breaker_consensus |-> ballot_box[s].tie_breaker_consensus] \in ConsensusResult
      BY <1>a, <2>1 DEF BallotBox, ConsensusResult
    <3>2. QED
      BY <1>a, <2>1, <3>1 DEF TypeOK, ConfigTypeOK
  <2>3. ASSUME NEW t \in SnapshotSlots, Opened(t)'
        PROVE  BoxInv(ballot_box[t])' /\ DecidedAfterSnapshot(ballot_box[t], t)'
    <3>1. BoxInv(ballot_box[t])'
      BY <1>a, <2>1, <2>3, BoxInvPrime DEF Opened
    <3>2. QED
      BY <1>a, <2>1, <2>3, <3>1
         DEF Opened, DecidedAfterSnapshot, Decided, has_consensus_reached
  <2>4. ResultMatchesBox'
    BY <1>a, <2>1 DEF ResultMatchesBox, Finalized, Opened, has_consensus_reached
  <2>5. QED
    BY <2>2, <2>3, <2>4 DEF IndInv
<1>8. CASE Tick
  BY <1>8, <1>a, <1>b DEF Tick, ConfigTypeOK
<1>9. CASE UNCHANGED vars
  BY <1>9, <1>a, <1>b DEF vars, ConfigTypeOK
<1>10. QED
  BY <1>1, <1>2, <1>3, <1>4, <1>5, <1>6, <1>7, <1>8, <1>9 DEF Next

(***************************************************************************)
(* The accounts are well-typed, the tallies count the recorded votes and a *)
(* winner keeps the votes that made it one, in every reachable state and   *)
(* for every number of operators, ballots and snapshot slots.              *)
(***************************************************************************)
THEOREM IndInvHolds == Spec => []IndInv
<1>1. Init => IndInv
  BY InitIndInv
<1>2. IndInv /\ [Next]_vars => IndInv'
  BY NextIndInv
<1>3. QED
  BY <1>1, <1>2, PTL DEF Spec

\* Every account and the clock keep their type (ballot_box.rs, program_config.rs).
THEOREM TypeCorrect == Spec => []TypeOK
<1>1. IndInv => TypeOK
  BY DEF IndInv
<1>2. QED
  BY <1>1, IndInvHolds, PTL

\* remove_vote indexes and decrements without failing; no operator counts twice.
THEOREM TalliesCorrect == Spec => []TalliesMatchVotes
<1>1. IndInv => TalliesMatchVotes
  BY DEF IndInv, BoxInv, TalliesMatchVotes
<1>2. QED
  BY <1>1, IndInvHolds, PTL

\* The operators' winner keeps the backing of the threshold share of the voters.
THEOREM ConsensusIsBacked == Spec => []ConsensusBacked
<1>1. IndInv => ConsensusBacked
  BY DEF IndInv, BoxInv, ConsensusBacked
<1>2. QED
  BY <1>1, IndInvHolds, PTL

\* The published result is the box's decision, which nothing can still change.
THEOREM ResultIsDecision == Spec => []ResultMatchesBox
<1>1. IndInv => ResultMatchesBox
  BY DEF IndInv
<1>2. QED
  BY <1>1, IndInvHolds, PTL

(***************************************************************************)
(* Two shares that both exceed half of n voters are more than n votes.     *)
(***************************************************************************)
LEMMA MajorityArithmetic ==
    ASSUME NEW a \in Nat, NEW b \in Nat, NEW n \in Nat \ {0}, NEW t \in Nat,
           a + b <= n, 2 * t > 10000,
           (a * 10000) \div n >= t, (b * 10000) \div n >= t
    PROVE  FALSE
<1> DEFINE p == (a * 10000) \div n
           q == (b * 10000) \div n
<1>1. p \in Nat /\ q \in Nat
  OBVIOUS
<1>2. p * n <= a * 10000 /\ q * n <= b * 10000
  OBVIOUS
<1> HIDE DEF p, q
<1>3. p + q > 10000
  BY <1>1 DEF p, q
<1>4. (p + q) * n <= (a + b) * 10000
  BY <1>1, <1>2
<1>5. (p + q) * n >= 10001 * n
  BY <1>1, <1>3
<1>6. QED
  BY <1>1, <1>4, <1>5

(***************************************************************************)
(* With a threshold above one half, the operators' winner is the only      *)
(* ballot that ever holds the threshold share (cast_vote.rs:84-90).        *)
(***************************************************************************)
THEOREM MajorityWinnerUnique == Spec => []MajorityIsUnique
<1>1. ASSUME IndInv
      PROVE  MajorityIsUnique
  <2> SUFFICES ASSUME NEW s \in SnapshotSlots, Opened(s), Decided(ballot_box[s]),
                      ballot_box[s].min_consensus_threshold_bps * 2 > BASIS_POINTS_MAX,
                      NEW j \in DOMAIN ballot_box[s].ballot_tallies,
                      ballot_box[s].ballot_tallies[j].ballot # ballot_box[s].winning_ballot,
                      ~(tally_bps(ballot_box[s], ballot_box[s].ballot_tallies[j].tally)
                           < ballot_box[s].min_consensus_threshold_bps)
               PROVE  FALSE
    BY DEF MajorityIsUnique
  <2> DEFINE box == ballot_box[s]
             t == box.min_consensus_threshold_bps
             n == Cardinality(box.voter_list)
  <2>1. box \in BallotBox /\ BoxInv(box)
    BY <1>1 DEF IndInv, TypeOK, Opened
  <2>2. PICK i \in DOMAIN box.ballot_tallies :
            /\ box.ballot_tallies[i].ballot = box.winning_ballot
            /\ VotesFor(box, i) # {}
            /\ tally_bps(box, Cardinality(VotesFor(box, i))) >= t
    BY <2>1 DEF BoxInv, WinnerIsBacked
  <2> DEFINE I == VotesFor(box, i)
             J == VotesFor(box, j)
  <2>3. i # j
    BY <2>2
  <2>4. /\ IsFiniteSet(I) /\ Cardinality(I) \in Nat
        /\ IsFiniteSet(J) /\ Cardinality(J) \in Nat
    BY <2>1, VotesForFinite DEF BoxInv
  <2>5. I \cap J = {} /\ I \cup J \in SUBSET box.operator_votes
    BY <2>3 DEF VotesFor
  <2>6. /\ IsFiniteSet(box.operator_votes) /\ IsFiniteSet(box.voter_list)
        /\ Cardinality(box.operator_votes) <= n
    BY <2>1, VotesBounded DEF BoxInv
  <2>7. Cardinality(box.operator_votes) \in Nat /\ n \in Nat
    BY <2>6, FS_CardinalityType
  <2>8. Cardinality(I \cup J) = Cardinality(I) + Cardinality(J)
    BY <2>4, <2>5, FS_Union, FS_EmptySet
  <2>9. Cardinality(I \cup J) <= Cardinality(box.operator_votes)
    BY <2>5, <2>6, FS_Subset
  <2>10. Cardinality(I) + Cardinality(J) <= n
    BY <2>4, <2>6, <2>7, <2>8, <2>9
  <2>11. t \in Nat
    <3>1. t \in BasisPoints
      BY <2>1 DEF BallotBox
    <3>2. QED
      BY <3>1, BasisPointsAreNat
  <2>12. box.ballot_tallies[j].tally = Cardinality(J)
    BY <2>1 DEF BoxInv, TalliesCountVotes
  <2>13. n # 0
    <3>1. SUFFICES ASSUME n = 0
                   PROVE  FALSE
      OBVIOUS
    <3>2. box.voter_list = {} /\ box.operator_votes = {}
      BY <2>1, <2>6, <3>1, FS_EmptySet DEF BoxInv, VotesFromList
    <3>3. QED
      BY <2>2, <3>2 DEF VotesFor
  <2>14. QED
    BY <2>2, <2>4, <2>7, <2>10, <2>11, <2>12, <2>13, MajorityArithmetic
       DEF tally_bps, BASIS_POINTS_MAX
<1>2. QED
  BY <1>1, IndInvHolds, PTL

-----------------------------------------------------------------------------
(***************************************************************************)
(* What the ballot boxes promise the governance program, from the same     *)
(* inductive invariant: a decision is final, and the accounts implement    *)
(* SnapshotConsensus.                                                      *)
(***************************************************************************)

(***************************************************************************)
(* What one step does to the box of slot s: nothing, or it opens a missing *)
(* box, or it replaces the box by one that keeps the decision.             *)
(***************************************************************************)
LEMMA StepOnBox ==
    ASSUME IndInv, [Next]_vars, NEW s \in SnapshotSlots, Opened(s)
    PROVE  Opened(s)' /\ KeepsDecision(ballot_box[s], ballot_box'[s])
<1> DEFINE box == ballot_box[s]
<1>a. /\ ballot_box \in [SnapshotSlots -> BallotBox \cup {None}]
      /\ box \in BallotBox /\ slot \in Nat
  BY DEF IndInv, TypeOK, Opened
<1>b. ASSUME NEW t \in SnapshotSlots, NEW new \in BallotBox,
             ballot_box' = [ballot_box EXCEPT ![t] = new],
             t = s => KeepsDecision(box, new)
      PROVE  Opened(s)' /\ KeepsDecision(box, ballot_box'[s])
  BY <1>a, <1>b, NoneAssumption DEF Opened, KeepsDecision
<1>c. ASSUME UNCHANGED ballot_box
      PROVE  Opened(s)' /\ KeepsDecision(box, ballot_box'[s])
  BY <1>c DEF Opened, KeepsDecision
<1>1. CASE ConfigNext /\ UNCHANGED <<slot, unix_timestamp, ballot_box, consensus_result>>
  BY <1>1, <1>c
<1>2. ASSUME NEW t \in SnapshotSlots, NEW p \in Programs, InitBallotBox(p, t)
      PROVE  Opened(s)' /\ KeepsDecision(box, ballot_box'[s])
  <2>1. t # s
    BY <1>2 DEF InitBallotBox
  <2>2. ballot_box'[s] = ballot_box[s]
    BY <1>2, <1>a, <2>1 DEF InitBallotBox
  <2>3. QED
    BY <2>2 DEF Opened, KeepsDecision
<1>3. ASSUME NEW t \in SnapshotSlots, NEW op \in Operators, NEW b \in Ballot,
             CastVote(op, t, b)
      PROVE  Opened(s)' /\ KeepsDecision(box, ballot_box'[s])
  <2> DEFINE old == ballot_box[t]
             new == VoteCast(old, op, b)
  <2>1. Opened(t) /\ ballot_box' = [ballot_box EXCEPT ![t] = new]
    BY <1>3 DEF CastVote
  <2>2. old \in BallotBox
    BY <1>a, <2>1 DEF Opened
  <2>3. new \in BallotBox
    BY <1>a, <2>2, VoteCastType
  <2>4. KeepsDecision(old, new)
    BY <2>2, VoteCastFields DEF KeepsDecision, ReachesConsensus
  <2> HIDE DEF new
  <2>5. QED
    BY <1>b, <2>1, <2>3, <2>4
<1>4. ASSUME NEW t \in SnapshotSlots, NEW op \in Operators, RemoveVote(op, t)
      PROVE  Opened(s)' /\ KeepsDecision(box, ballot_box'[s])
  <2> DEFINE old == ballot_box[t]
  <2>1. Opened(t) /\ ~has_consensus_reached(old)
    BY <1>4 DEF RemoveVote
  <2>2. PICK v \in old.operator_votes :
            ballot_box' = [ballot_box EXCEPT ![t] = VoteRemoved(old, v)]
    BY <1>4 DEF RemoveVote
  <2>3. old \in BallotBox /\ BoxInv(old)
    BY <1>a, <2>1 DEF IndInv, Opened
  <2>4. VoteRemoved(old, v) \in BallotBox
    BY <2>1, <2>3, VoteRemovedInv
  <2>5. KeepsDecision(old, VoteRemoved(old, v))
    BY <2>1, <2>3 DEF KeepsDecision, VoteRemoved, BallotBox
  <2>6. QED
    BY <1>b, <2>2, <2>4, <2>5
<1>5. ASSUME NEW t \in SnapshotSlots, NEW k \in Keys, ResetBallotBox(k, t)
      PROVE  Opened(s)' /\ KeepsDecision(box, ballot_box'[s])
  <2> DEFINE old == ballot_box[t]
             new == [old EXCEPT !.operator_votes = {}, !.ballot_tallies = <<>>]
  <2>1. /\ Opened(t) /\ ~has_consensus_reached(old)
        /\ ballot_box' = [ballot_box EXCEPT ![t] = new]
    BY <1>5 DEF ResetBallotBox
  <2>2. old \in BallotBox
    BY <1>a, <2>1 DEF Opened
  <2>3. <<>> \in Seq(BallotTally)
    OBVIOUS
  <2>4. new \in BallotBox
    BY <2>2, <2>3 DEF BallotBox
  <2>5. KeepsDecision(old, new)
    BY <2>1, <2>2 DEF KeepsDecision, BallotBox
  <2> HIDE DEF new
  <2>6. QED
    BY <1>b, <2>1, <2>4, <2>5
<1>6. ASSUME NEW t \in SnapshotSlots, NEW k \in Keys, NEW b \in Ballot,
             SetTieBreaker(k, t, b)
      PROVE  Opened(s)' /\ KeepsDecision(box, ballot_box'[s])
  <2> DEFINE old == ballot_box[t]
             new == TieBroken(old, b)
  <2>1. /\ Opened(t) /\ ~has_consensus_reached(old)
        /\ ballot_box' = [ballot_box EXCEPT ![t] = new]
    BY <1>6 DEF SetTieBreaker
  <2>2. old \in BallotBox
    BY <1>a, <2>1 DEF Opened
  <2>3. new \in BallotBox
    BY <1>a, <2>2 DEF TieBroken, BallotBox
  <2>4. KeepsDecision(old, new)
    BY <2>1, <2>2 DEF KeepsDecision, TieBroken, BallotBox
  <2> HIDE DEF new
  <2>5. QED
    BY <1>b, <2>1, <2>3, <2>4
<1>7. ASSUME NEW t \in SnapshotSlots, FinalizeBallot(t)
      PROVE  Opened(s)' /\ KeepsDecision(box, ballot_box'[s])
  BY <1>7, <1>c DEF FinalizeBallot
<1>8. CASE Tick
  BY <1>8, <1>c DEF Tick
<1>9. CASE UNCHANGED vars
  BY <1>9, <1>c DEF vars
<1>10. QED
  BY <1>1, <1>2, <1>3, <1>4, <1>5, <1>6, <1>7, <1>8, <1>9 DEF Next

(***************************************************************************)
(* Once a box is decided, no instruction changes its decision or takes     *)
(* back a vote, and the rules it was opened under are never changed        *)
(* (cast_vote.rs:84-90, remove_vote.rs, reset_ballot_box.rs,               *)
(* set_tie_breaker.rs).                                                    *)
(***************************************************************************)
THEOREM DecisionsAreFinal == Spec => DecisionIsFinal
<1> DEFINE Kept == \A s \in SnapshotSlots :
                      Opened(s) => KeepsDecision(ballot_box[s], ballot_box'[s])
<1>1. IndInv /\ [Next]_vars => [Kept]_vars
  BY StepOnBox
<1>2. QED
  BY <1>1, IndInvHolds, PTL DEF Spec, DecisionIsFinal

(***************************************************************************)
(* A step that leaves the boxes' existence, the results and the slot alone *)
(* is a stuttering step of SnapshotConsensus.                              *)
(***************************************************************************)
LEMMA StatusUnchanged ==
    ASSUME UNCHANGED <<slot, consensus_result>>,
           \A s \in SnapshotSlots : Opened(s)' <=> Opened(s)
    PROVE  UNCHANGED <<slot, [s \in SnapshotSlots |-> StatusOf(s)]>>
<1>1. \A s \in SnapshotSlots : StatusOf(s)' = StatusOf(s)
  BY DEF StatusOf, Finalized
<1>2. QED
  BY <1>1

LEMMA ConsensusInit == Init => Consensus!Init
  BY DEF Init, Consensus!Init, StatusOf, Finalized, Opened

\* Opening a box for a slot that has none is OpenBox.
LEMMA InitBallotBoxOpens ==
    ASSUME IndInv, NEW s \in SnapshotSlots, NEW p \in Programs, InitBallotBox(p, s)
    PROVE  Consensus!OpenBox(s)
<1> DEFINE new == [slot_consensus_reached |-> 0,
                   min_consensus_threshold_bps |-> program_config.min_consensus_threshold_bps,
                   winning_ballot |-> DefaultBallot,
                   operator_votes |-> {},
                   ballot_tallies |-> <<>>,
                   vote_expiry_timestamp |-> unix_timestamp + program_config.vote_duration,
                   voter_list |-> program_config.whitelisted_operators,
                   tie_breaker_consensus |-> FALSE]
<1>1. /\ ~Opened(s) /\ s > slot
      /\ ballot_box' = [ballot_box EXCEPT ![s] = new]
      /\ UNCHANGED <<slot, consensus_result>>
  BY DEF InitBallotBox
<1>2. /\ ~Finalized(s)
      /\ ballot_box \in [SnapshotSlots -> BallotBox \cup {None}]
  BY <1>1 DEF IndInv, TypeOK, ResultMatchesBox
<1>3. new # None
  <2>1. TypeOK'
    BY NextIndInv DEF IndInv, Next
  <2>2. ballot_box'[s] = new
    BY <1>1, <1>2
  <2>3. /\ program_config.min_consensus_threshold_bps \in BasisPoints
        /\ program_config.vote_duration \in Nat
        /\ program_config.whitelisted_operators \in SUBSET Operators
        /\ unix_timestamp \in Nat
    BY DEF InitBallotBox, IndInv, TypeOK, ConfigTypeOK, ConfigExists, ProgramConfig
  <2>4. DefaultBallot \in Ballot /\ <<>> \in Seq(BallotTally)
    BY BoxAssumption DEF DefaultBallot, Ballot
  <2>5. new \in BallotBox
    BY <2>3, <2>4 DEF BallotBox
  <2>6. QED
    BY <2>5, NoneAssumption
<1> HIDE DEF new
<1>4. StatusOf(s) = Unopened
  BY <1>1, <1>2 DEF StatusOf
<1>5. ASSUME NEW t \in SnapshotSlots
      PROVE  StatusOf(t)' = IF t = s THEN Open ELSE StatusOf(t)
  BY <1>1, <1>2, <1>3 DEF StatusOf, Finalized, Opened
<1>6. QED
  BY <1>1, <1>4, <1>5 DEF Consensus!OpenBox

\* Creating the ConsensusResult account is Publish.
LEMMA FinalizeBallotPublishes ==
    ASSUME IndInv, NEW s \in SnapshotSlots, FinalizeBallot(s)
    PROVE  \E r \in Consensus!Result : Consensus!Publish(s, r)
<1> DEFINE box == ballot_box[s]
           res == [ballot |-> box.winning_ballot,
                   tie_breaker_consensus |-> box.tie_breaker_consensus]
           r == ReadResult(res)
<1>1. /\ Opened(s) /\ ~Finalized(s) /\ has_consensus_reached(box)
      /\ consensus_result' = [consensus_result EXCEPT ![s] = res]
      /\ UNCHANGED <<slot, ballot_box>>
  BY DEF FinalizeBallot
<1>2. /\ box \in BallotBox /\ BoxInv(box) /\ DecidedAfterSnapshot(box, s)
      /\ consensus_result \in [SnapshotSlots -> ConsensusResult \cup {None}]
  BY <1>1 DEF IndInv, TypeOK, Opened
<1>3. res \in ConsensusResult /\ res # None
  BY <1>2, NoneAssumption DEF BallotBox, ConsensusResult
<1>4. /\ r \in Consensus!Result
      /\ r.root = box.winning_ballot.meta_merkle_root
      /\ r.tie_breaker = box.tie_breaker_consensus
  BY <1>2 DEF BallotBox, Ballot, ReadResult, Consensus!Result
<1>5. r.tie_breaker \/ (slot > s /\ r.root # ZeroRoot)
  BY <1>1, <1>2, <1>4 DEF BoxInv, WinnerIsBacked, Decided, DecidedAfterSnapshot
<1>6. StatusOf(s) = Open
  BY <1>1 DEF StatusOf
<1>7. ASSUME NEW t \in SnapshotSlots
      PROVE  StatusOf(t)' = IF t = s THEN r ELSE StatusOf(t)
  <2>1. consensus_result'[t] = IF t = s THEN res ELSE consensus_result[t]
    BY <1>1, <1>2
  <2> HIDE DEF res
  <2>2. QED
    BY <1>1, <1>3, <2>1 DEF StatusOf, Finalized, Opened, ReadResult
<1> HIDE DEF r, res
<1>8. Consensus!Publish(s, r)
  BY <1>1, <1>5, <1>6, <1>7 DEF Consensus!Publish
<1>9. QED
  BY <1>4, <1>8

(***************************************************************************)
(* Seen through the accounts that svmgov reads, the ncn-snapshot program   *)
(* implements SnapshotConsensus: one result per slot, never changed, and   *)
(* no operators' result before the snapshot slot or for the zero root.     *)
(***************************************************************************)
THEOREM RefinesConsensus == Spec => ImplementsConsensus
<1> DEFINE status == [s \in SnapshotSlots |-> StatusOf(s)]
<1>1. IndInv /\ [Next]_vars => [Consensus!Next]_<<slot, status>>
  <2> SUFFICES ASSUME IndInv, [Next]_vars
               PROVE  Consensus!Next \/ UNCHANGED <<slot, status>>
    OBVIOUS
  <2>a. ASSUME UNCHANGED <<slot, consensus_result>>,
               \A s \in SnapshotSlots : Opened(s)' <=> Opened(s)
        PROVE  UNCHANGED <<slot, status>>
    BY <2>a, StatusUnchanged
  <2>b. ASSUME UNCHANGED <<slot, consensus_result>>,
               NEW s \in SnapshotSlots, Opened(s), NEW new,
               ballot_box' = [ballot_box EXCEPT ![s] = new]
        PROVE  UNCHANGED <<slot, status>>
    <3>1. ASSUME NEW t \in SnapshotSlots
          PROVE  Opened(t)' <=> Opened(t)
      <4>1. Opened(s)'
        BY <2>b, StepOnBox
      <4>2. CASE t # s
        BY <2>b, <4>2 DEF IndInv, TypeOK, Opened
      <4>3. QED
        BY <2>b, <4>1, <4>2
    <3>2. QED
      BY <2>a, <2>b, <3>1
  <2>1. CASE ConfigNext /\ UNCHANGED <<slot, unix_timestamp, ballot_box, consensus_result>>
    BY <2>1, <2>a DEF Opened
  <2>2. ASSUME NEW s \in SnapshotSlots, NEW p \in Programs, InitBallotBox(p, s)
        PROVE  Consensus!Next
    BY <2>2, InitBallotBoxOpens DEF Consensus!Next
  <2>3. ASSUME NEW s \in SnapshotSlots, NEW op \in Operators, NEW b \in Ballot,
               CastVote(op, s, b)
        PROVE  UNCHANGED <<slot, status>>
    BY <2>3, <2>b DEF CastVote
  <2>4. ASSUME NEW s \in SnapshotSlots, NEW op \in Operators, RemoveVote(op, s)
        PROVE  UNCHANGED <<slot, status>>
    BY <2>4, <2>b DEF RemoveVote
  <2>5. ASSUME NEW s \in SnapshotSlots, NEW k \in Keys, ResetBallotBox(k, s)
        PROVE  UNCHANGED <<slot, status>>
    BY <2>5, <2>b DEF ResetBallotBox
  <2>6. ASSUME NEW s \in SnapshotSlots, NEW k \in Keys, NEW b \in Ballot,
               SetTieBreaker(k, s, b)
        PROVE  UNCHANGED <<slot, status>>
    BY <2>6, <2>b DEF SetTieBreaker
  <2>7. ASSUME NEW s \in SnapshotSlots, FinalizeBallot(s)
        PROVE  Consensus!Next
    BY <2>7, FinalizeBallotPublishes DEF Consensus!Next
  <2>8. CASE Tick
    <3>1. UNCHANGED status
      BY <2>8 DEF Tick, StatusOf, Finalized, Opened
    <3>2. slot' = slot + 1 \/ slot' = slot
      BY <2>8 DEF Tick
    <3>3. QED
      BY <3>1, <3>2 DEF Consensus!Next, Consensus!Advance
  <2>9. CASE UNCHANGED vars
    BY <2>9, <2>a DEF vars, Opened
  <2>10. QED
    BY <2>1, <2>2, <2>3, <2>4, <2>5, <2>6, <2>7, <2>8, <2>9 DEF Next
<1>2. QED
  BY <1>1, ConsensusInit, IndInvHolds, PTL DEF Spec, ImplementsConsensus, Consensus!Spec
-----------------------------------------------------------------------------
(***************************************************************************)
(* What else decides: every recorded vote was cast after the snapshot      *)
(* slot, and the tie breaker's flag is set by a decision only, which has a *)
(* slot of its own to be recognised by.                                    *)
(***************************************************************************)
VotedAfter(box, s) ==
    /\ \A v \in box.operator_votes : v.slot_voted > s
    /\ box.tie_breaker_consensus => has_consensus_reached(box)

WaysInv ==
    /\ slot > 0
    /\ \A s \in SnapshotSlots : Opened(s) => VotedAfter(ballot_box[s], s)

LEMMA WaysStep == IndInv /\ WaysInv /\ [Next]_vars => WaysInv'
<1> SUFFICES ASSUME IndInv, WaysInv, [Next]_vars
             PROVE  WaysInv'
  OBVIOUS
<1>a. /\ ballot_box \in [SnapshotSlots -> BallotBox \cup {None}]
      /\ slot \in Nat /\ slot > 0
      /\ \A t \in SnapshotSlots : Opened(t) =>
            ballot_box[t] \in BallotBox /\ VotedAfter(ballot_box[t], t)
  BY DEF IndInv, TypeOK, Opened, WaysInv
<1>b. ASSUME NEW t \in SnapshotSlots, NEW new, UNCHANGED slot,
             ballot_box' = [ballot_box EXCEPT ![t] = new], VotedAfter(new, t)
      PROVE  WaysInv'
  BY <1>a, <1>b DEF WaysInv, Opened, VotedAfter, has_consensus_reached
<1>c. ASSUME UNCHANGED ballot_box, slot' \in Nat, slot' > 0
      PROVE  WaysInv'
  BY <1>a, <1>c DEF WaysInv, Opened, VotedAfter, has_consensus_reached
<1>1. CASE ConfigNext /\ UNCHANGED <<slot, unix_timestamp, ballot_box, consensus_result>>
  BY <1>1, <1>a, <1>c
<1>2. ASSUME NEW t \in SnapshotSlots, NEW p \in Programs, InitBallotBox(p, t)
      PROVE  WaysInv'
  <2> DEFINE new == [slot_consensus_reached |-> 0,
                     min_consensus_threshold_bps |-> program_config.min_consensus_threshold_bps,
                     winning_ballot |-> DefaultBallot,
                     operator_votes |-> {},
                     ballot_tallies |-> <<>>,
                     vote_expiry_timestamp |-> unix_timestamp + program_config.vote_duration,
                     voter_list |-> program_config.whitelisted_operators,
                     tie_breaker_consensus |-> FALSE]
  <2>1. UNCHANGED slot /\ ballot_box' = [ballot_box EXCEPT ![t] = new]
    BY <1>2 DEF InitBallotBox
  <2>2. VotedAfter(new, t)
    BY DEF VotedAfter
  <2> HIDE DEF new
  <2>3. QED
    BY <1>b, <2>1, <2>2
<1>3. ASSUME NEW t \in SnapshotSlots, NEW op \in Operators, NEW b \in Ballot,
             CastVote(op, t, b)
      PROVE  WaysInv'
  <2> DEFINE old == ballot_box[t]
             new == VoteCast(old, op, b)
  <2>1. /\ Opened(t) /\ slot > t /\ UNCHANGED slot
        /\ ballot_box' = [ballot_box EXCEPT ![t] = new]
    BY <1>3 DEF CastVote
  <2>2. old \in BallotBox /\ VotedAfter(old, t)
    BY <1>a, <2>1
  <2>3. NewVote(old, op, b).slot_voted = slot
    BY DEF NewVote
  <2>4. VotedAfter(new, t)
    BY <1>a, <2>1, <2>2, <2>3, VoteCastFields DEF VotedAfter, has_consensus_reached
  <2> HIDE DEF new
  <2>5. QED
    BY <1>b, <2>1, <2>4
<1>4. ASSUME NEW t \in SnapshotSlots, NEW op \in Operators, RemoveVote(op, t)
      PROVE  WaysInv'
  <2> DEFINE old == ballot_box[t]
  <2>1. Opened(t) /\ UNCHANGED slot
    BY <1>4 DEF RemoveVote
  <2>2. PICK v \in old.operator_votes :
            ballot_box' = [ballot_box EXCEPT ![t] = VoteRemoved(old, v)]
    BY <1>4 DEF RemoveVote
  <2>3. old \in BallotBox /\ VotedAfter(old, t)
    BY <1>a, <2>1
  <2>4. VotedAfter(VoteRemoved(old, v), t)
    BY <2>3 DEF VotedAfter, VoteRemoved, has_consensus_reached, BallotBox
  <2>5. QED
    BY <1>b, <2>1, <2>2, <2>4
<1>5. ASSUME NEW t \in SnapshotSlots, NEW k \in Keys, ResetBallotBox(k, t)
      PROVE  WaysInv'
  <2> DEFINE old == ballot_box[t]
             new == [old EXCEPT !.operator_votes = {}, !.ballot_tallies = <<>>]
  <2>1. /\ Opened(t) /\ UNCHANGED slot
        /\ ballot_box' = [ballot_box EXCEPT ![t] = new]
    BY <1>5 DEF ResetBallotBox
  <2>2. VotedAfter(new, t)
    BY <1>a, <2>1 DEF VotedAfter, has_consensus_reached, BallotBox
  <2> HIDE DEF new
  <2>3. QED
    BY <1>b, <2>1, <2>2
<1>6. ASSUME NEW t \in SnapshotSlots, NEW k \in Keys, NEW b \in Ballot,
             SetTieBreaker(k, t, b)
      PROVE  WaysInv'
  <2> DEFINE new == TieBroken(ballot_box[t], b)
  <2>1. /\ Opened(t) /\ UNCHANGED slot
        /\ ballot_box' = [ballot_box EXCEPT ![t] = new]
    BY <1>6 DEF SetTieBreaker
  <2>2. VotedAfter(new, t)
    BY <1>a, <2>1 DEF VotedAfter, TieBroken, has_consensus_reached, BallotBox
  <2> HIDE DEF new
  <2>3. QED
    BY <1>b, <2>1, <2>2
<1>7. ASSUME NEW t \in SnapshotSlots, FinalizeBallot(t)
      PROVE  WaysInv'
  BY <1>7, <1>a, <1>c DEF FinalizeBallot
<1>8. CASE Tick
  BY <1>8, <1>a, <1>c DEF Tick
<1>9. CASE UNCHANGED vars
  BY <1>9, <1>a, <1>c DEF vars
<1>10. QED
  BY <1>1, <1>2, <1>3, <1>4, <1>5, <1>6, <1>7, <1>8, <1>9 DEF Next

(***************************************************************************)
(* The two ways to a decision never overlap: operators decide an unexpired *)
(* box by votes cast after the snapshot slot, the tie breaker an expired   *)
(* one without touching a vote (cast_vote.rs:30-90, set_tie_breaker.rs).   *)
(***************************************************************************)
THEOREM TwoWaysToDecide == Spec => OneWayToDecide
<1> DEFINE OneWay(s) ==
        Opened(s) /\ ~has_consensus_reached(ballot_box[s])
                  /\ has_consensus_reached(ballot_box'[s])
        => IF ballot_box'[s].tie_breaker_consensus
           THEN /\ has_vote_expired(ballot_box[s])
                /\ ballot_box'[s].operator_votes = ballot_box[s].operator_votes
           ELSE /\ ~has_vote_expired(ballot_box[s])
                /\ \A v \in ballot_box'[s].operator_votes : v.slot_voted > s
<1>1. Init => WaysInv
  BY DEF Init, WaysInv, Opened
<1>2. ASSUME IndInv, WaysInv, [Next]_vars, NEW s \in SnapshotSlots
      PROVE  OneWay(s)
  <2> SUFFICES ASSUME Opened(s), ~has_consensus_reached(ballot_box[s]),
                      has_consensus_reached(ballot_box'[s])
               PROVE  OneWay(s)
    OBVIOUS
  <2> DEFINE box == ballot_box[s]
  <2>a. /\ ballot_box \in [SnapshotSlots -> BallotBox \cup {None}]
        /\ box \in BallotBox /\ slot \in Nat
        /\ VotedAfter(box, s) /\ ~box.tie_breaker_consensus
    BY <1>2 DEF IndInv, TypeOK, Opened, WaysInv, VotedAfter
  <2>b. WaysInv'
    BY <1>2, WaysStep
  <2>1. ASSUME NEW t \in SnapshotSlots, NEW op \in Operators, NEW b \in Ballot,
               CastVote(op, t, b)
        PROVE  OneWay(s)
    <3> DEFINE new == VoteCast(ballot_box[t], op, b)
    <3>1. /\ Opened(t) /\ slot > t /\ ~has_vote_expired(ballot_box[t])
          /\ ballot_box' = [ballot_box EXCEPT ![t] = new]
      BY <2>1 DEF CastVote
    <3>2. t = s
      BY <2>a, <3>1
    <3>3. ~new.tie_breaker_consensus
      BY <2>a, <3>2, VoteCastFields
    <3>4. new.operator_votes = box.operator_votes \cup {NewVote(box, op, b)}
      BY <2>a, <3>2, VoteCastFields
    <3>5. \A v \in new.operator_votes : v.slot_voted > s
      BY <2>a, <3>1, <3>2, <3>4 DEF VotedAfter, NewVote
    <3> HIDE DEF new
    <3>6. QED
      BY <2>a, <3>1, <3>2, <3>3, <3>5
  <2>2. ASSUME NEW t \in SnapshotSlots, NEW op \in Operators, RemoveVote(op, t)
        PROVE  OneWay(s)
    <3>1. PICK v \in ballot_box[t].operator_votes :
              ballot_box' = [ballot_box EXCEPT ![t] = VoteRemoved(ballot_box[t], v)]
      BY <2>2 DEF RemoveVote
    <3>2. QED
      BY <2>a, <3>1 DEF VoteRemoved, has_consensus_reached, BallotBox
  <2>3. ASSUME NEW t \in SnapshotSlots, NEW k \in Keys, ResetBallotBox(k, t)
        PROVE  OneWay(s)
    BY <2>a, <2>3 DEF ResetBallotBox, has_consensus_reached, BallotBox
  <2>4. ASSUME NEW t \in SnapshotSlots, NEW k \in Keys, NEW b \in Ballot,
               SetTieBreaker(k, t, b)
        PROVE  OneWay(s)
    <3>1. /\ has_vote_expired(ballot_box[t])
          /\ ballot_box' = [ballot_box EXCEPT ![t] = TieBroken(ballot_box[t], b)]
      BY <2>4 DEF SetTieBreaker
    <3>2. t = s
      BY <2>a, <3>1
    <3>3. /\ TieBroken(box, b).tie_breaker_consensus
          /\ TieBroken(box, b).operator_votes = box.operator_votes
      BY <2>a DEF TieBroken, BallotBox
    <3>4. QED
      BY <2>a, <3>1, <3>2, <3>3
  <2>5. ASSUME NEW t \in SnapshotSlots, NEW p \in Programs, InitBallotBox(p, t)
        PROVE  OneWay(s)
    <3>1. t # s
      BY <2>5 DEF InitBallotBox
    <3>2. ballot_box'[s] = ballot_box[s]
      BY <2>a, <2>5, <3>1 DEF InitBallotBox
    <3>3. QED
      BY <3>2 DEF has_consensus_reached
  <2>6. ASSUME UNCHANGED ballot_box
        PROVE  OneWay(s)
    BY <2>6 DEF has_consensus_reached
  <2>7. QED
    BY <1>2, <2>1, <2>2, <2>3, <2>4, <2>5, <2>6
       DEF Next, vars, FinalizeBallot, Tick
<1> DEFINE Ways == \A s \in SnapshotSlots : OneWay(s)
<1>3. IndInv /\ WaysInv /\ [Next]_vars => [Ways]_vars
  BY <1>2
<1> HIDE DEF WaysInv
<1>4. QED
  BY <1>1, <1>3, WaysStep, IndInvHolds, PTL DEF Spec, OneWayToDecide
-----------------------------------------------------------------------------
(***************************************************************************)
(* The configuration on its own: no sequence of updates lets the whitelist *)
(* outgrow the voter_list of a box (program_config.rs:54).                 *)
(***************************************************************************)
THEOREM WhitelistAlwaysFits == ConfigSpec => []WhitelistFits
<1>1. ConfigInit => WhitelistFits
  BY DEF ConfigInit, WhitelistFits, ConfigTypeOK, ConfigExists
<1>2. WhitelistFits /\ [ConfigNext]_program_config => WhitelistFits'
  <2> SUFFICES ASSUME WhitelistFits, ConfigNext
               PROVE  WhitelistFits'
    BY DEF WhitelistFits, ConfigTypeOK, ConfigExists
  <2>a. ConfigTypeOK /\ ConfigTypeOK'
    BY ConfigTypeStep DEF WhitelistFits
  <2>b. ConfigExists => /\ program_config \in ProgramConfig
                        /\ Cardinality(program_config.whitelisted_operators)
                             <= MAX_OPERATOR_WHITELIST
    BY <2>a DEF WhitelistFits, ConfigTypeOK, ConfigExists
  <2>1. ASSUME NEW k \in Keys, NEW p \in Programs, InitProgramConfig(k, p)
        PROVE  WhitelistFits'
    <3>1. program_config'.whitelisted_operators = {}
      BY <2>1 DEF InitProgramConfig
    <3>2. QED
      BY <2>a, <3>1, FS_EmptySet, WhitelistAssumption DEF WhitelistFits
  <2>2. ASSUME ConfigExists,
               program_config'.whitelisted_operators = program_config.whitelisted_operators
        PROVE  WhitelistFits'
    BY <2>a, <2>b, <2>2 DEF WhitelistFits
  <2>3. ASSUME NEW k \in Keys, NEW add \in SUBSET Operators, NEW remove \in SUBSET Operators,
               UpdateOperatorWhitelist(k, add, remove)
        PROVE  WhitelistFits'
    <3> DEFINE old == program_config.whitelisted_operators
               list == (old \ remove) \cup add
    <3>1. old \in SUBSET Operators /\ ConfigExists
      BY <2>b, <2>3 DEF UpdateOperatorWhitelist, ProgramConfig
    <3>2. program_config'.whitelisted_operators = list
      BY <2>b, <2>3 DEF UpdateOperatorWhitelist, ProgramConfig
    <3>3. CASE add = {}
      <4>1. Cardinality(list) <= Cardinality(old)
        BY <3>1, <3>3, WhitelistAssumption, FS_Subset
      <4>2. /\ Cardinality(list) \in Nat /\ Cardinality(old) \in Nat
            /\ Cardinality(old) <= MAX_OPERATOR_WHITELIST
        BY <2>b, <3>1, <3>3, WhitelistAssumption, FS_Subset, FS_CardinalityType
      <4>3. Cardinality(list) <= MAX_OPERATOR_WHITELIST
        BY <4>1, <4>2, WhitelistAssumption
      <4>4. QED
        BY <2>a, <3>2, <4>3 DEF WhitelistFits
    <3>4. CASE add # {}
      <4>1. Cardinality(list) <= MAX_OPERATOR_WHITELIST
        BY <2>3, <3>4 DEF UpdateOperatorWhitelist
      <4>2. QED
        BY <2>a, <3>2, <4>1 DEF WhitelistFits
    <3>5. QED
      BY <3>3, <3>4
  <2>4. ASSUME NEW k \in Keys, NEW pa \in Nominees \cup {None},
               NEW bps \in Thresholds \cup {None}, NEW t \in Keys \cup {DefaultKey, None},
               NEW d \in Durations \cup {None}, NEW p \in Programs \cup {None},
               UpdateProgramConfig(k, pa, bps, t, d, p)
        PROVE  WhitelistFits'
    BY <2>b, <2>2, <2>4 DEF UpdateProgramConfig, ConfigExists, ProgramConfig
  <2>5. ASSUME NEW k \in Keys, FinalizeProposedAuthority(k)
        PROVE  WhitelistFits'
    BY <2>b, <2>2, <2>5 DEF FinalizeProposedAuthority, ConfigExists, ProgramConfig
  <2>6. QED
    BY <2>1, <2>3, <2>4, <2>5 DEF ConfigNext
<1>3. QED
  BY <1>1, <1>2, PTL DEF ConfigSpec

(***************************************************************************)
(* The authority of ProgramConfig implements TwoStepHandover: it changes   *)
(* only by the signature of the key nominated last                         *)
(* (finalize_proposed_authority.rs, update_program_config.rs).             *)
(***************************************************************************)
THEOREM AuthorityIsHandedOver == ConfigSpec => AuthorityHandover
<1> DEFINE holder == HolderOf(program_config)
           nominee == NomineeOf(program_config)
<1>1. ConfigInit => Handover!Init
  BY DEF ConfigInit, Handover!Init, HolderOf, NomineeOf
<1>2. ConfigTypeOK /\ [ConfigNext]_program_config
        => Handover!Next \/ UNCHANGED <<holder, nominee>>
  <2> SUFFICES ASSUME ConfigTypeOK, ConfigNext
               PROVE  Handover!Next \/ UNCHANGED <<holder, nominee>>
    BY DEF HolderOf, NomineeOf
  <2>a. /\ ConfigExists => program_config \in ProgramConfig
        /\ program_config' \in ProgramConfig
    BY ConfigTypeStep DEF ConfigTypeOK, ConfigExists
  <2>b. None \notin ProgramConfig
    BY NoneAssumption
  <2>1. ASSUME NEW k \in Keys, NEW p \in Programs, InitProgramConfig(k, p)
        PROVE  Handover!Next
    <3>1. /\ program_config = None
          /\ program_config' # None
          /\ program_config'.authority = k
          /\ program_config'.proposed_authority = None
      <4>1. /\ program_config = None
            /\ program_config'.authority = k
            /\ program_config'.proposed_authority = None
        BY <2>1 DEF InitProgramConfig
      <4>2. QED
        BY <2>a, <2>b, <4>1
    <3>2. Handover!Create(k)
      BY <3>1, KeysAssumption DEF Handover!Create, HolderOf, NomineeOf
    <3>3. QED
      BY <3>2 DEF Handover!Next
  <2>2. ASSUME NEW k \in Keys, NEW pa \in Nominees \cup {None},
               NEW bps \in Thresholds \cup {None}, NEW t \in Keys \cup {DefaultKey, None},
               NEW d \in Durations \cup {None}, NEW p \in Programs \cup {None},
               UpdateProgramConfig(k, pa, bps, t, d, p)
        PROVE  Handover!Next
    <3>1. /\ program_config # None /\ program_config' # None
          /\ program_config'.authority = program_config.authority
          /\ program_config.authority \in Keys
      <4>1. program_config # None /\ program_config \in ProgramConfig
        BY <2>2, <2>a DEF UpdateProgramConfig, ConfigExists
      <4>2. /\ program_config'.authority = program_config.authority
            /\ program_config.authority \in Keys
        BY <2>2, <4>1 DEF UpdateProgramConfig, ProgramConfig
      <4>3. QED
        BY <2>a, <2>b, <4>1, <4>2
    <3>2. Handover!Nominate(nominee')
      BY <3>1, KeysAssumption DEF Handover!Nominate, HolderOf
    <3>3. nominee' \in Keys \cup {None}
      BY DEF NomineeOf
    <3>4. QED
      BY <3>2, <3>3 DEF Handover!Next
  <2>3. ASSUME NEW k \in Keys, FinalizeProposedAuthority(k)
        PROVE  Handover!Next
    <3>1. /\ program_config # None /\ program_config' # None
          /\ program_config.proposed_authority = k
          /\ program_config'.authority = k
          /\ program_config'.proposed_authority = None
      BY <2>3, <2>a, <2>b DEF FinalizeProposedAuthority, ConfigExists, ProgramConfig
    <3>2. Handover!Accept
      BY <3>1, KeysAssumption DEF Handover!Accept, HolderOf, NomineeOf
    <3>3. QED
      BY <3>2 DEF Handover!Next
  <2>4. ASSUME NEW k \in Keys, NEW add \in SUBSET Operators, NEW remove \in SUBSET Operators,
               UpdateOperatorWhitelist(k, add, remove)
        PROVE  UNCHANGED <<holder, nominee>>
    <3>1. /\ program_config # None /\ program_config' # None
          /\ program_config'.authority = program_config.authority
          /\ program_config'.proposed_authority = program_config.proposed_authority
      BY <2>4, <2>a, <2>b DEF UpdateOperatorWhitelist, ConfigExists, ProgramConfig
    <3>2. QED
      BY <3>1 DEF HolderOf, NomineeOf
  <2>5. QED
    BY <2>1, <2>2, <2>3, <2>4 DEF ConfigNext
<1>3. ConfigSpec => []ConfigTypeOK
  BY WhitelistAlwaysFits, PTL DEF WhitelistFits
<1>4. QED
  BY <1>1, <1>2, <1>3, PTL DEF ConfigSpec, AuthorityHandover, Handover!Spec
=============================================================================
