---------------------------- MODULE NcnBallotBox ----------------------------
(***************************************************************************)
(* Ballot boxes of the ncn-snapshot program.  For each snapshot slot there *)
(* is at most one BallotBox PDA, in which whitelisted operators vote for   *)
(* the snapshot they computed, and at most one ConsensusResult PDA, which  *)
(* the governance program reads voting power from.                         *)
(*                                                                         *)
(* The clock is the Clock sysvar: slot grows by one, unix_timestamp (a     *)
(* stake-weighted estimate) never decreases but does not follow the slot   *)
(* at a fixed rate.                                                        *)
(***************************************************************************)
EXTENDS NcnProgramConfig, Sequences

CONSTANTS
    Roots,          \* meta merkle roots
    ZeroRoot,       \* [0; 32], the root of Ballot::default()
    Hashes,         \* snapshot hashes
    ZeroHash,       \* [0; 32], the hash of Ballot::default()
    SnapshotSlots,  \* snapshot slots a ballot box may be opened for
    MAX_OPERATOR_VOTES,
    MAX_BALLOT_TALLIES,
    Unopened, Open, \* a slot without a box, or without a result (see StatusOf)
    MaxSlot,        \* bound on the clock's slot
    MaxTime         \* bound on the clock's unix_timestamp

ASSUME BoxAssumption ==
    /\ ZeroRoot \in Roots /\ ZeroHash \in Hashes
    /\ SnapshotSlots \subseteq Nat
    /\ MAX_OPERATOR_VOTES \in Nat /\ MAX_BALLOT_TALLIES \in Nat
    /\ MaxSlot \in Nat /\ MaxTime \in Nat

VARIABLES
    slot,               \* Clock.slot
    unix_timestamp,     \* Clock.unix_timestamp
    ballot_box,         \* snapshot slot -> BallotBox account, or None
    consensus_result    \* snapshot slot -> ConsensusResult account, or None

vars == <<program_config, slot, unix_timestamp, ballot_box, consensus_result>>

Ballot == [meta_merkle_root : Roots, snapshot_hash : Hashes]
DefaultBallot == [meta_merkle_root |-> ZeroRoot, snapshot_hash |-> ZeroHash]

(***************************************************************************)
(* operator_votes is a Vec searched by operator only, so a set; its        *)
(* ballot_index and BallotTally.index are the position in ballot_tallies,  *)
(* counted from 1 here and from 0 in the program.  The bump, epoch and     *)
(* slot_created fields are written once and never read.                    *)
(***************************************************************************)
OperatorVote == [operator : Operators, slot_voted : Nat, ballot_index : Nat]
BallotTally == [ballot : Ballot, tally : Nat]

BallotBox ==
    [slot_consensus_reached : Nat,
     min_consensus_threshold_bps : BasisPoints,
     winning_ballot : Ballot,
     operator_votes : SUBSET OperatorVote,
     ballot_tallies : Seq(BallotTally),
     vote_expiry_timestamp : Nat,
     voter_list : SUBSET Operators,
     tie_breaker_consensus : BOOLEAN]

ConsensusResult == [ballot : Ballot, tie_breaker_consensus : BOOLEAN]

ASSUME StatusAssumption ==
    Unopened # Open /\ {Unopened, Open} \cap [root : Roots, tie_breaker : BOOLEAN] = {}

ASSUME NoneAssumption == None \notin BallotBox \cup ConsensusResult \cup ProgramConfig

Opened(s) == ballot_box[s] # None
Finalized(s) == consensus_result[s] # None

has_vote_expired(box) == unix_timestamp >= box.vote_expiry_timestamp
has_consensus_reached(box) == box.slot_consensus_reached # 0

\* Mutant: the check for an earlier vote is lost.
HasVotedIgnored(box, op) == FALSE

HasVoted(box, op) == \E v \in box.operator_votes : v.operator = op

\* The share of the voter list behind a tally, in basis points, rounded down.
tally_bps(box, tally) == (tally * BASIS_POINTS_MAX) \div Cardinality(box.voter_list)

-----------------------------------------------------------------------------
\* Mutant: the current slot counts as ahead.
InitBallotBoxNow(program, s) ==
    /\ ConfigExists
    /\ program = program_config.svmgov_program_pubkey
    /\ ~Opened(s)
    /\ s >= slot
    /\ ballot_box' = [ballot_box EXCEPT ![s] =
          [slot_consensus_reached |-> 0,
           min_consensus_threshold_bps |-> program_config.min_consensus_threshold_bps,
           winning_ballot |-> DefaultBallot,
           operator_votes |-> {},
           ballot_tallies |-> <<>>,
           vote_expiry_timestamp |-> unix_timestamp + program_config.vote_duration,
           voter_list |-> program_config.whitelisted_operators,
           tie_breaker_consensus |-> FALSE]]
    /\ UNCHANGED <<program_config, slot, unix_timestamp, consensus_result>>

(***************************************************************************)
(* init_ballot_box, called by svmgov with a proposal PDA as signer: the    *)
(* caller must be the configured svmgov program, the PDA must not exist    *)
(* and the snapshot slot must still be ahead.                              *)
(***************************************************************************)
InitBallotBox(program, s) ==
    /\ ConfigExists
    /\ program = program_config.svmgov_program_pubkey
    /\ ~Opened(s)
    /\ s > slot
    /\ ballot_box' = [ballot_box EXCEPT ![s] =
          [slot_consensus_reached |-> 0,
           min_consensus_threshold_bps |-> program_config.min_consensus_threshold_bps,
           winning_ballot |-> DefaultBallot,
           operator_votes |-> {},
           ballot_tallies |-> <<>>,
           vote_expiry_timestamp |-> unix_timestamp + program_config.vote_duration,
           voter_list |-> program_config.whitelisted_operators,
           tie_breaker_consensus |-> FALSE]]
    /\ UNCHANGED <<program_config, slot, unix_timestamp, consensus_result>>

HasTally(box, ballot) ==
    \E i \in DOMAIN box.ballot_tallies : box.ballot_tallies[i].ballot = ballot

\* Where a ballot is tallied: its existing position, or the next free one.
TallyIndex(box, ballot) ==
    IF HasTally(box, ballot)
    THEN CHOOSE i \in DOMAIN box.ballot_tallies : box.ballot_tallies[i].ballot = ballot
    ELSE Len(box.ballot_tallies) + 1

\* ballot_tallies after one more vote: increment in place, or append a tally of 1.
Tallied(box, ballot) ==
    IF HasTally(box, ballot)
    THEN [box.ballot_tallies EXCEPT ![TallyIndex(box, ballot)].tally = @ + 1]
    ELSE Append(box.ballot_tallies, [ballot |-> ballot, tally |-> 1])

\* Mutant: all the votes in the box count for the ballot just voted for.
ReachesConsensusByTurnout(box, ballot) ==
    /\ ~has_consensus_reached(box)
    /\ tally_bps(box, Cardinality(box.operator_votes) + 1)
         >= box.min_consensus_threshold_bps

\* Mutant: a later vote at the threshold decides again.
ReachesConsensusAgain(box, ballot) ==
    tally_bps(box, Tallied(box, ballot)[TallyIndex(box, ballot)].tally)
        >= box.min_consensus_threshold_bps

\* The vote is the one that carries its ballot over the threshold, for the first time.
ReachesConsensus(box, ballot) ==
    /\ ~has_consensus_reached(box)
    /\ tally_bps(box, Tallied(box, ballot)[TallyIndex(box, ballot)].tally)
         >= box.min_consensus_threshold_bps

NewVote(box, op, ballot) ==
    [operator |-> op, slot_voted |-> slot, ballot_index |-> TallyIndex(box, ballot)]

\* The box after op's vote for ballot.
VoteCast(box, op, ballot) ==
    [box EXCEPT
        !.operator_votes = @ \cup {NewVote(box, op, ballot)},
        !.ballot_tallies = Tallied(box, ballot),
        !.slot_consensus_reached = IF ReachesConsensus(box, ballot) THEN slot ELSE @,
        !.winning_ballot = IF ReachesConsensus(box, ballot) THEN ballot ELSE @]

\* Mutant: the voter is looked up in the current whitelist, not in the box's list.
CastVoteCurrentWhitelist(op, s, ballot) ==
    LET cast == VoteCast(ballot_box[s], op, ballot)
    IN /\ Opened(s)
       /\ op \in program_config.whitelisted_operators
       /\ ~has_vote_expired(ballot_box[s])
       /\ ballot.meta_merkle_root # ZeroRoot
       /\ slot > s
       /\ ~HasVoted(ballot_box[s], op)
       /\ ballot_box[s].voter_list # {}
       /\ Len(cast.ballot_tallies) <= MAX_BALLOT_TALLIES
       /\ Cardinality(cast.operator_votes) <= MAX_OPERATOR_VOTES
       /\ ballot_box' = [ballot_box EXCEPT ![s] = cast]
       /\ UNCHANGED <<program_config, slot, unix_timestamp, consensus_result>>

(***************************************************************************)
(* cast_vote.  The vote is recorded even when consensus has already been   *)
(* reached; only the first ballot to reach the threshold becomes the       *)
(* winner.  A full list aborts the whole transaction.                      *)
(***************************************************************************)
CastVote(op, s, ballot) ==
    LET box == ballot_box[s]
        cast == VoteCast(box, op, ballot)
    IN /\ Opened(s)
       /\ op \in box.voter_list
       /\ ~has_vote_expired(box)
       /\ ballot.meta_merkle_root # ZeroRoot
       /\ slot > s
       /\ ~HasVoted(box, op)
       /\ Len(cast.ballot_tallies) <= MAX_BALLOT_TALLIES
       /\ Cardinality(cast.operator_votes) <= MAX_OPERATOR_VOTES
       /\ ballot_box' = [ballot_box EXCEPT ![s] = cast]
       /\ UNCHANGED <<program_config, slot, unix_timestamp, consensus_result>>

\* Mutant: a tally without votes is dropped and the later ones move up.
UntalliedCompacted(box, v) ==
    LET ts == box.ballot_tallies
        k == v.ballot_index
    IN IF ts[k].tally = 1
       THEN SubSeq(ts, 1, k - 1) \o SubSeq(ts, k + 1, Len(ts))
       ELSE [ts EXCEPT ![k].tally = @ - 1]

\* A tally that drops to 0 stays in place, so that indices remain valid.
Untallied(box, v) ==
    [box.ballot_tallies EXCEPT ![v.ballot_index].tally = @ - 1]

\* The box after vote v is taken back.
VoteRemoved(box, v) ==
    [box EXCEPT !.operator_votes = @ \ {v}, !.ballot_tallies = Untallied(box, v)]

\* remove_vote, by the operator, while the box is undecided.
RemoveVote(op, s) ==
    LET box == ballot_box[s]
    IN /\ Opened(s)
       /\ op \in box.voter_list
       /\ ~has_vote_expired(box)
       /\ ~has_consensus_reached(box)
       /\ \E v \in box.operator_votes :
             /\ v.operator = op
             /\ ballot_box' = [ballot_box EXCEPT ![s] = VoteRemoved(box, v)]
       /\ UNCHANGED <<program_config, slot, unix_timestamp, consensus_result>>

\* reset_ballot_box: only a box with no free tally may be emptied.
ResetBallotBox(signer, s) ==
    LET box == ballot_box[s]
    IN /\ ConfigExists /\ signer = program_config.tie_breaker_admin
       /\ Opened(s)
       /\ ~has_consensus_reached(box)
       /\ ~has_vote_expired(box)
       /\ Len(box.ballot_tallies) = MAX_BALLOT_TALLIES
       /\ ballot_box' = [ballot_box EXCEPT
             ![s] = [box EXCEPT !.operator_votes = {}, !.ballot_tallies = <<>>]]
       /\ UNCHANGED <<program_config, slot, unix_timestamp, consensus_result>>

\* The box after the tie breaker's choice.
TieBroken(box, ballot) ==
    [box EXCEPT !.slot_consensus_reached = slot,
                !.winning_ballot = ballot,
                !.tie_breaker_consensus = TRUE]

\* Mutant: the tie breaker may also overrule a decided box.
SetTieBreakerDecided(signer, s, ballot) ==
    /\ ConfigExists /\ signer = program_config.tie_breaker_admin
    /\ Opened(s)
    /\ has_vote_expired(ballot_box[s])
    /\ ballot_box' = [ballot_box EXCEPT ![s] = TieBroken(@, ballot)]
    /\ UNCHANGED <<program_config, slot, unix_timestamp, consensus_result>>

\* Mutant: the tie breaker may cut the vote short.
SetTieBreakerEarly(signer, s, ballot) ==
    /\ ConfigExists /\ signer = program_config.tie_breaker_admin
    /\ Opened(s)
    /\ ~has_consensus_reached(ballot_box[s])
    /\ ballot_box' = [ballot_box EXCEPT ![s] = TieBroken(@, ballot)]
    /\ UNCHANGED <<program_config, slot, unix_timestamp, consensus_result>>

\* set_tie_breaker: any ballot, the operators' or another, the zero root included.
SetTieBreaker(signer, s, ballot) ==
    LET box == ballot_box[s]
    IN /\ ConfigExists /\ signer = program_config.tie_breaker_admin
       /\ Opened(s)
       /\ has_vote_expired(box)
       /\ ~has_consensus_reached(box)
       /\ ballot_box' = [ballot_box EXCEPT ![s] = TieBroken(box, ballot)]
       /\ UNCHANGED <<program_config, slot, unix_timestamp, consensus_result>>

\* Mutant: only a result of the operators is published.
FinalizeBallotByOperators(s) ==
    /\ Opened(s)
    /\ ~Finalized(s)
    /\ has_consensus_reached(ballot_box[s])
    /\ ~ballot_box[s].tie_breaker_consensus
    /\ consensus_result' = [consensus_result EXCEPT ![s] =
          [ballot |-> ballot_box[s].winning_ballot, tie_breaker_consensus |-> FALSE]]
    /\ UNCHANGED <<program_config, slot, unix_timestamp, ballot_box>>

\* finalize_ballot: permissionless, once per snapshot slot (the PDA is init).
FinalizeBallot(s) ==
    /\ Opened(s)
    /\ ~Finalized(s)
    /\ has_consensus_reached(ballot_box[s])
    /\ consensus_result' = [consensus_result EXCEPT ![s] =
          [ballot |-> ballot_box[s].winning_ballot,
           tie_breaker_consensus |-> ballot_box[s].tie_breaker_consensus]]
    /\ UNCHANGED <<program_config, slot, unix_timestamp, ballot_box>>

(***************************************************************************)
(* The cluster produces the next slot; the timestamp may stand still or    *)
(* move.  MaxSlot stands for every later slot, so time still moves there.  *)
(***************************************************************************)
Tick ==
    /\ slot' = IF slot < MaxSlot THEN slot + 1 ELSE slot
    /\ unix_timestamp' \in {t \in unix_timestamp .. unix_timestamp + 1 : t <= MaxTime}
    /\ UNCHANGED <<program_config, ballot_box, consensus_result>>

-----------------------------------------------------------------------------
Init ==
    /\ ConfigInit
    /\ slot = 1 /\ unix_timestamp = 0
    /\ ballot_box = [s \in SnapshotSlots |-> None]
    /\ consensus_result = [s \in SnapshotSlots |-> None]

Next ==
    \/ ConfigNext /\ UNCHANGED <<slot, unix_timestamp, ballot_box, consensus_result>>
    \/ \E s \in SnapshotSlots :
          \/ \E p \in Programs : InitBallotBox(p, s)
          \/ \E op \in Operators, b \in Ballot : CastVote(op, s, b)
          \/ \E op \in Operators : RemoveVote(op, s)
          \/ \E k \in Keys : ResetBallotBox(k, s)
          \/ \E k \in Keys, b \in Ballot : SetTieBreaker(k, s, b)
          \/ FinalizeBallot(s)
    \/ Tick

Spec == Init /\ [][Next]_vars

(***************************************************************************)
(* Fairness: the clock's timestamp keeps moving, and once it can, the tie  *)
(* breaker breaks the tie and somebody finalizes (it is permissionless).   *)
(* Nothing is assumed of the operators.                                    *)
(***************************************************************************)
Fairness ==
    /\ WF_vars(Tick /\ unix_timestamp' > unix_timestamp)
    /\ \A s \in SnapshotSlots :
          /\ WF_vars(\E k \in Keys, b \in Ballot : SetTieBreaker(k, s, b))
          /\ WF_vars(FinalizeBallot(s))

FairSpec == Spec /\ Fairness

-----------------------------------------------------------------------------
TypeOK ==
    /\ ConfigTypeOK
    /\ slot \in Nat \ {0}
    /\ unix_timestamp \in Nat
    /\ ballot_box \in [SnapshotSlots -> BallotBox \cup {None}]
    /\ consensus_result \in [SnapshotSlots -> ConsensusResult \cup {None}]

\* The votes recorded for the ballot at position i.
VotesFor(box, i) == {v \in box.operator_votes : v.ballot_index = i}

Decided(box) == has_consensus_reached(box) /\ ~box.tie_breaker_consensus

TalliesCountVotes(box) ==
    \A i \in DOMAIN box.ballot_tallies :
        box.ballot_tallies[i].tally = Cardinality(VotesFor(box, i))

VotesAreIndexed(box) ==
    \A v \in box.operator_votes : v.ballot_index \in DOMAIN box.ballot_tallies

OneVoteEach(box) ==
    \A v, w \in box.operator_votes : v.operator = w.operator => v = w

(***************************************************************************)
(* Every tally is exactly the number of operators whose recorded vote      *)
(* points at it, every recorded vote points at a tally and no operator is  *)
(* recorded twice, through removals, re-votes and resets                   *)
(* (ballot_index is a bare position: remove_vote.rs:47 indexes with it and *)
(* unwraps the subtraction).                                               *)
(***************************************************************************)
TalliesMatchVotes ==
    \A s \in SnapshotSlots : Opened(s) =>
        /\ TalliesCountVotes(ballot_box[s])
        /\ VotesAreIndexed(ballot_box[s])
        /\ OneVoteEach(ballot_box[s])

WinnerIsBacked(box) ==
    Decided(box) =>
        \E i \in DOMAIN box.ballot_tallies :
            /\ box.ballot_tallies[i].ballot = box.winning_ballot
            /\ box.winning_ballot.meta_merkle_root # ZeroRoot
            /\ VotesFor(box, i) # {}
            /\ tally_bps(box, Cardinality(VotesFor(box, i)))
                 >= box.min_consensus_threshold_bps

(***************************************************************************)
(* A winner that was not set by the tie breaker is, and stays, backed by   *)
(* recorded votes of at least the threshold share of the voter list the    *)
(* box was opened with, although votes keep coming in after consensus and  *)
(* the whitelist and threshold of the config change meanwhile              *)
(* (cast_vote.rs:84-90).                                                   *)
(***************************************************************************)
ConsensusBacked ==
    \A s \in SnapshotSlots : Opened(s) => WinnerIsBacked(ballot_box[s])

(***************************************************************************)
(* When the threshold is more than half of the voters, no ballot other     *)
(* than the operators' winner can collect the threshold, before or after   *)
(* consensus: a ConsensusResult without the tie-breaker flag is the only   *)
(* one the operators could have produced.                                  *)
(***************************************************************************)
MajorityIsUnique ==
    \A s \in SnapshotSlots : Opened(s) =>
        LET box == ballot_box[s]
        IN Decided(box) /\ box.min_consensus_threshold_bps * 2 > BASIS_POINTS_MAX
           => \A i \in DOMAIN box.ballot_tallies :
                 box.ballot_tallies[i].ballot # box.winning_ballot
                   => tally_bps(box, box.ballot_tallies[i].tally)
                        < box.min_consensus_threshold_bps

(***************************************************************************)
(* What finalize_ballot published for a slot is what the box decided, for  *)
(* as long as the accounts live: nothing that may still happen to the box  *)
(* (late votes, tie breaker, reset) changes its decision.                  *)
(***************************************************************************)
ResultMatchesBox ==
    \A s \in SnapshotSlots : Finalized(s) =>
        /\ Opened(s)
        /\ has_consensus_reached(ballot_box[s])
        /\ consensus_result[s].ballot = ballot_box[s].winning_ballot
        /\ consensus_result[s].tie_breaker_consensus = ballot_box[s].tie_breaker_consensus

(***************************************************************************)
(* The inductive invariant: besides the properties above, votes come from  *)
(* the box's own voter list, a ballot has a single tally with a nonzero    *)
(* root, which is what makes "the first match" of cast_vote.rs:45 the only *)
(* match, and operators decide only after the snapshot slot.               *)
(***************************************************************************)
DecidedAfterSnapshot(box, s) == Decided(box) => slot > s

VotesFromList(box) == \A v \in box.operator_votes : v.operator \in box.voter_list

OneTallyEach(box) ==
    \A i, j \in DOMAIN box.ballot_tallies :
        box.ballot_tallies[i].ballot = box.ballot_tallies[j].ballot => i = j

NonzeroRoots(box) ==
    \A i \in DOMAIN box.ballot_tallies :
        box.ballot_tallies[i].ballot.meta_merkle_root # ZeroRoot

BoxInv(box) ==
    /\ TalliesCountVotes(box)
    /\ VotesAreIndexed(box)
    /\ OneVoteEach(box)
    /\ VotesFromList(box)
    /\ OneTallyEach(box)
    /\ NonzeroRoots(box)
    /\ WinnerIsBacked(box)

IndInv ==
    /\ TypeOK
    /\ \A s \in SnapshotSlots : Opened(s) =>
          BoxInv(ballot_box[s]) /\ DecidedAfterSnapshot(ballot_box[s], s)
    /\ ResultMatchesBox

\* What may not change from a box to its successor.
KeepsDecision(old, new) ==
    /\ has_consensus_reached(old) =>
          /\ new.winning_ballot = old.winning_ballot
          /\ new.slot_consensus_reached = old.slot_consensus_reached
          /\ new.tie_breaker_consensus = old.tie_breaker_consensus
          /\ old.operator_votes \subseteq new.operator_votes
    /\ new.voter_list = old.voter_list
    /\ new.min_consensus_threshold_bps = old.min_consensus_threshold_bps
    /\ new.vote_expiry_timestamp = old.vote_expiry_timestamp

(***************************************************************************)
(* The decision of a box is taken once: after slot_consensus_reached is    *)
(* set, the winning ballot, the slot and the tie-breaker flag never change *)
(* and no vote disappears, and the rules the box was opened under never    *)
(* change at all (cast_vote.rs:84, remove_vote.rs, reset_ballot_box.rs).   *)
(***************************************************************************)
DecisionIsFinal ==
    [][\A s \in SnapshotSlots :
         Opened(s) => KeepsDecision(ballot_box[s], ballot_box'[s])]_vars

(***************************************************************************)
(* Operators decide by votes cast after the snapshot slot and while the    *)
(* box is open, the tie breaker only once it has expired: the two ways to  *)
(* a decision never overlap (has_vote_expired is >= in both).              *)
(***************************************************************************)
OneWayToDecide ==
    [][\A s \in SnapshotSlots :
         Opened(s) /\ ~has_consensus_reached(ballot_box[s])
                   /\ has_consensus_reached(ballot_box'[s])
         => IF ballot_box'[s].tie_breaker_consensus
            THEN /\ has_vote_expired(ballot_box[s])
                 /\ ballot_box'[s].operator_votes = ballot_box[s].operator_votes
            ELSE /\ ~has_vote_expired(ballot_box[s])
                 /\ \A v \in ballot_box'[s].operator_votes : v.slot_voted > s]_vars

\* A published result as the governance program reads it.
ReadResult(result) == [root |-> result.ballot.meta_merkle_root,
                       tie_breaker |-> result.tie_breaker_consensus]

\* The state of each snapshot slot as the governance program sees it.
StatusOf(s) ==
    IF Finalized(s) THEN ReadResult(consensus_result[s])
    ELSE IF Opened(s) THEN Open ELSE Unopened

Consensus == INSTANCE SnapshotConsensus
    WITH status <- [s \in SnapshotSlots |-> StatusOf(s)]

(***************************************************************************)
(* All the governance program relies on: seen through the accounts it      *)
(* reads, the ballot boxes implement SnapshotConsensus.                    *)
(***************************************************************************)
ImplementsConsensus == Consensus!Spec

(***************************************************************************)
(* No box stays without a result, whatever the operators do or fail to do: *)
(* the list may be full of withdrawn tallies, reset or never voted in      *)
(* (set_tie_breaker.rs:15-18 waits for the expiry alone), provided a key   *)
(* that can sign ends up as tie breaker.                                   *)
(***************************************************************************)
EveryBoxIsSettled ==
    <>[](ConfigExists /\ program_config.tie_breaker_admin \in Keys)
        => \A s \in SnapshotSlots : Opened(s) ~> Finalized(s)
=============================================================================
