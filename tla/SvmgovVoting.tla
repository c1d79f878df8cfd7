---------------------------- MODULE SvmgovVoting ----------------------------
(***************************************************************************)
(* Stake-weighted voting on svmgov proposals.  A validator votes with all  *)
(* the stake delegated to it; a delegator may override with its own stake, *)
(* before or after the validator votes, and the validator then counts for  *)
(* what is left.  Both may change their minds while the window is open.    *)
(*                                                                         *)
(* Weights come from the snapshot that the published meta merkle root      *)
(* commits to: verify_merkle_proof lets exactly its leaves through, and    *)
(* anyone can store the proof account an instruction needs.  Vote and      *)
(* stake accounts are taken to exist throughout; the instructions only     *)
(* check their owners and the size of a vote account.                      *)
(***************************************************************************)
EXTENDS SvmgovProposal

CONSTANTS
    StakeAccounts,  \* stake accounts; the voting wallet of each signs
    Distributions,  \* votes tried, in basis points per option
    Leaves          \* root -> the leaves of the snapshot it commits to

(***************************************************************************)
(* A snapshot gives every stake account one validator, and every validator *)
(* at least the stake delegated to it here: generate_meta_merkle_snapshot  *)
(* adds a validator up from all its stake accounts, StakeAccounts and the  *)
(* ones that never override.                                               *)
(***************************************************************************)
Snapshots ==
    [active : [Validators -> Nat],
     delegated : [StakeAccounts -> Nat],
     validator_of : [StakeAccounts -> Validators]]

DelegatedTo(leaves, v) == {a \in StakeAccounts : leaves.validator_of[a] = v}

ASSUME VotingAssumption ==
    /\ IsFiniteSet(StakeAccounts)
    /\ Distributions \subseteq [Options -> Nat]
    /\ Leaves \in [Roots \ {ZeroRoot} -> Snapshots]
    /\ \A r \in Roots \ {ZeroRoot}, v \in Validators :
          Sum([a \in DelegatedTo(Leaves[r], v) |-> Leaves[r].delegated[a]])
            <= Leaves[r].active[v]

VARIABLES
    vote,               \* proposal -> validator -> Vote account, or None
    vote_override,      \* proposal -> stake account -> VoteOverride account, or None
    vote_override_cache \* proposal -> validator -> VoteOverrideCache account, or None

voteVars == <<vote, vote_override, vote_override_cache>>
vars == <<proposalVars, voteVars>>

Vote == [bp : Distributions, lamports : [Options -> Nat], stake : Nat, override_lamports : Nat]
VoteOverride == [bp : Distributions, lamports : [Options -> Nat], stake_amount : Nat]
VoteOverrideCache == [lamports : [Options -> Nat], total_stake : Nat]

ASSUME NoVoteAssumption == None \notin Vote \cup VoteOverride \cup VoteOverrideCache

HasVote(p, v) == vote[p][v] # None
HasOverride(p, a) == vote_override[p][a] # None

NoOverrides == [lamports |-> NoLamports, total_stake |-> 0]

\* The cache as it reads: an account not created holds nothing.
Cache(p, v) == IF vote_override_cache[p][v] = None THEN NoOverrides ELSE vote_override_cache[p][v]

\* The shares must add up to 100%.
ValidDistribution(bp) == bp["for"] + bp["against"] + bp["abstain"] = BASIS_POINTS_MAX

\* The proposal has a result it can take weights from.
Weighable(p) ==
    /\ proposal[p].consensus_result # None
    /\ status[proposal[p].consensus_result] \notin {Unopened, Open}
    /\ status[proposal[p].consensus_result].root # ZeroRoot

LeavesOf(p) == Leaves[status[proposal[p].consensus_result].root]

\* Mutant: the last epoch of the window is taken for the epoch after it.
VotingOpenTooLong(p) ==
    /\ Created(p)
    /\ ~proposal[p].finalized
    /\ proposal[p].start_epoch <= epoch /\ epoch <= proposal[p].end_epoch
    /\ Weighable(p)

\* The checks that all four voting instructions begin with.
VotingOpen(p) ==
    /\ Created(p)
    /\ ~proposal[p].finalized
    /\ proposal[p].start_epoch <= epoch /\ epoch < proposal[p].end_epoch
    /\ Weighable(p)

\* Write back proposal p with new totals and n more votes.
Recount(p, totals, n) ==
    proposal' = [proposal EXCEPT ![p].votes_lamports = totals, ![p].vote_count = @ + n]

Unvoted == <<global_config, slot, epoch_stake, status, proposal_index, support>>

-----------------------------------------------------------------------------
\* Mutant: the validator counts in full although delegators overrode before.
CastVoteFull(p, v, bp) ==
    LET lamports == vote_lamports(LeavesOf(p).active[v], bp)
    IN /\ VotingOpen(p) /\ ValidDistribution(bp)
       /\ ~HasVote(p, v)
       /\ LeavesOf(p).active[v] > 0
       /\ Recount(p, Plus(proposal[p].votes_lamports, lamports), 1)
       /\ vote' = [vote EXCEPT ![p][v] =
             [bp |-> bp, lamports |-> lamports, stake |-> LeavesOf(p).active[v],
              override_lamports |-> Cache(p, v).total_stake]]
       /\ UNCHANGED <<Unvoted, vote_override, vote_override_cache>>

\* Mutant: what was overridden before the vote is forgotten.
CastVoteForgetful(p, v, bp) ==
    LET own == LeavesOf(p).active[v] - Cache(p, v).total_stake
        lamports == vote_lamports(own, bp)
    IN /\ VotingOpen(p) /\ ValidDistribution(bp)
       /\ ~HasVote(p, v)
       /\ LeavesOf(p).active[v] > 0
       /\ own >= 0
       /\ Recount(p, Plus(proposal[p].votes_lamports, lamports), 1)
       /\ vote' = [vote EXCEPT ![p][v] =
             [bp |-> bp, lamports |-> lamports, stake |-> LeavesOf(p).active[v],
              override_lamports |-> 0]]
       /\ UNCHANGED <<Unvoted, vote_override, vote_override_cache>>

(***************************************************************************)
(* cast_vote, signed by the voting wallet of vote account v.  The cache    *)
(* holds the stake overridden so far, which is already in the totals.      *)
(***************************************************************************)
CastVote(p, v, bp) ==
    LET active == LeavesOf(p).active[v]
        overridden == Cache(p, v).total_stake
        lamports == vote_lamports(active - overridden, bp)
    IN /\ VotingOpen(p) /\ ValidDistribution(bp)
       /\ ~HasVote(p, v)
       /\ active > 0
       /\ active >= overridden
       /\ Recount(p, Plus(proposal[p].votes_lamports, lamports), 1)
       /\ vote' = [vote EXCEPT ![p][v] =
             [bp |-> bp, lamports |-> lamports, stake |-> active,
              override_lamports |-> overridden]]
       /\ UNCHANGED <<Unvoted, vote_override, vote_override_cache>>

\* modify_vote, signed by the voting wallet of vote account v.
ModifyVote(p, v, bp) ==
    LET old == vote[p][v]
        active == LeavesOf(p).active[v]
        lamports == vote_lamports(active - old.override_lamports, bp)
    IN /\ VotingOpen(p) /\ ValidDistribution(bp)
       /\ HasVote(p, v)
       /\ active > 0
       /\ Covers(proposal[p].votes_lamports, old.lamports)
       /\ active >= old.override_lamports
       /\ Recount(p, Plus(Minus(proposal[p].votes_lamports, old.lamports), lamports), 0)
       /\ vote' = [vote EXCEPT ![p][v].bp = bp, ![p][v].lamports = lamports]
       /\ UNCHANGED <<Unvoted, vote_override, vote_override_cache>>

(***************************************************************************)
(* cast_vote_override when the validator has voted: its vote is reduced by *)
(* the delegator's stake.  init_if_needed creates an empty cache.          *)
(***************************************************************************)
OverrideVoted(p, v, stake, lamports) ==
    LET old == vote[p][v]
        left == LeavesOf(p).active[v] - (stake + old.override_lamports)
        reduced == vote_lamports(left, old.bp)
    IN /\ Covers(proposal[p].votes_lamports, old.lamports)
       /\ left >= 0
       /\ Recount(p, Plus(Plus(Minus(proposal[p].votes_lamports, old.lamports), lamports),
                          reduced), 1)
       /\ vote' = [vote EXCEPT ![p][v].lamports = reduced,
                               ![p][v].override_lamports = @ + stake]
       /\ vote_override_cache' = [vote_override_cache EXCEPT ![p][v] = Cache(p, v)]

\* Mutant: an override cast before the validator's vote waits for that vote to count.
OverrideUnvotedPending(p, v, stake, lamports) ==
    /\ Recount(p, proposal[p].votes_lamports, 1)
    /\ vote_override_cache' = [vote_override_cache EXCEPT ![p][v] =
          [lamports |-> Plus(Cache(p, v).lamports, lamports),
           total_stake |-> Cache(p, v).total_stake + stake]]
    /\ UNCHANGED vote

\* Mutant: the cache is written by the first delegator only.
OverrideUnvotedFirst(p, v, stake, lamports) ==
    /\ Recount(p, Plus(proposal[p].votes_lamports, lamports), 1)
    /\ vote_override_cache' = [vote_override_cache EXCEPT ![p][v] =
          IF Cache(p, v).total_stake = 0
          THEN [lamports |-> lamports, total_stake |-> stake]
          ELSE Cache(p, v)]
    /\ UNCHANGED vote

(***************************************************************************)
(* cast_vote_override before the validator votes: the delegator counts at  *)
(* once, and the cache remembers how much of the validator's stake is      *)
(* taken.                                                                  *)
(***************************************************************************)
OverrideUnvoted(p, v, stake, lamports) ==
    /\ Recount(p, Plus(proposal[p].votes_lamports, lamports), 1)
    /\ vote_override_cache' = [vote_override_cache EXCEPT ![p][v] =
          IF Cache(p, v).total_stake = 0
          THEN [lamports |-> lamports, total_stake |-> stake]
          ELSE [lamports |-> Plus(Cache(p, v).lamports, lamports),
                total_stake |-> Cache(p, v).total_stake + stake]]
    /\ UNCHANGED vote

\* cast_vote_override, signed by the voting wallet of stake account a.
CastVoteOverride(p, a, bp) ==
    LET v == LeavesOf(p).validator_of[a]
        stake == LeavesOf(p).delegated[a]
        lamports == vote_lamports(stake, bp)
    IN /\ VotingOpen(p) /\ ValidDistribution(bp)
       /\ ~HasOverride(p, a)
       /\ stake > 0
       /\ IF HasVote(p, v) THEN OverrideVoted(p, v, stake, lamports)
                           ELSE OverrideUnvoted(p, v, stake, lamports)
       /\ vote_override' = [vote_override EXCEPT ![p][a] =
             [bp |-> bp, lamports |-> lamports, stake_amount |-> stake]]
       /\ UNCHANGED Unvoted

\* The cache after one of its overrides changed from old to new lamports.
CacheSwapped(p, v, old, new) ==
    [vote_override_cache EXCEPT ![p][v].lamports = Plus(Minus(@, old), new)]

\* modify_vote_override; the cache follows until the validator has voted.
ModifyVoteOverride(p, a, bp) ==
    LET v == LeavesOf(p).validator_of[a]
        old == vote_override[p][a]
        stake == LeavesOf(p).delegated[a]
        lamports == vote_lamports(stake, bp)
    IN /\ VotingOpen(p) /\ ValidDistribution(bp)
       /\ HasOverride(p, a)
       /\ stake > 0
       /\ Covers(proposal[p].votes_lamports, old.lamports)
       /\ Recount(p, Plus(Minus(proposal[p].votes_lamports, old.lamports), lamports), 0)
       /\ vote_override' = [vote_override EXCEPT ![p][a].bp = bp, ![p][a].lamports = lamports]
       /\ IF HasVote(p, v)
          THEN UNCHANGED vote_override_cache
          ELSE /\ vote_override_cache[p][v] # None
               /\ Covers(Cache(p, v).lamports, old.lamports)
               /\ vote_override_cache' = CacheSwapped(p, v, old.lamports, lamports)
       /\ UNCHANGED <<Unvoted, vote>>

-----------------------------------------------------------------------------
Init ==
    /\ ProposalInit
    /\ vote = [p \in Proposals |-> [v \in Validators |-> None]]
    /\ vote_override = [p \in Proposals |-> [a \in StakeAccounts |-> None]]
    /\ vote_override_cache = [p \in Proposals |-> [v \in Validators |-> None]]

Next ==
    \/ ProposalNext /\ UNCHANGED voteVars
    \/ \E p \in Proposals, bp \in Distributions :
          \/ \E v \in Validators : CastVote(p, v, bp) \/ ModifyVote(p, v, bp)
          \/ \E a \in StakeAccounts :
                CastVoteOverride(p, a, bp) \/ ModifyVoteOverride(p, a, bp)

Spec == Init /\ [][Next]_vars

-----------------------------------------------------------------------------
TypeOK ==
    /\ ProposalTypeOK
    /\ vote \in [Proposals -> [Validators -> Vote \cup {None}]]
    /\ vote_override \in [Proposals -> [StakeAccounts -> VoteOverride \cup {None}]]
    /\ vote_override_cache \in [Proposals -> [Validators -> VoteOverrideCache \cup {None}]]

Voters(p) == {v \in Validators : HasVote(p, v)}
Overriders(p) == {a \in StakeAccounts : HasOverride(p, a)}
Voted(p) == Voters(p) # {} \/ Overriders(p) # {}

\* The stake accounts of v that have spoken for themselves, and their stake.
OverridersOf(p, v) == {a \in Overriders(p) : LeavesOf(p).validator_of[a] = v}
Overridden(p, v) == Sum([a \in OverridersOf(p, v) |-> LeavesOf(p).delegated[a]])

(***************************************************************************)
(* What the votes amount to for option o, from who chose what alone: each  *)
(* delegator who spoke counts for its own stake and each validator who     *)
(* voted for what is left of its.                                          *)
(***************************************************************************)
Outcome(p, o) ==
    Sum([v \in Voters(p) |->
           vote_lamports(LeavesOf(p).active[v] - Overridden(p, v), vote[p][v].bp)[o]])
      + Sum([a \in Overriders(p) |->
               vote_lamports(LeavesOf(p).delegated[a], vote_override[p][a].bp)[o]])

(***************************************************************************)
(* The totals depend on the choices only, not on the order in which votes, *)
(* overrides and changes of either came in, and no stake is counted twice  *)
(* or lost on the way (cast_vote.rs:156-215, cast_vote_override.rs:200-    *)
(* 370, modify_vote.rs:143-165, modify_vote_override.rs:205-217).          *)
(***************************************************************************)
TotalsAreOutcome ==
    /\ TypeOK
    /\ \A p \in Proposals : Created(p) /\ Voted(p) =>
          \A o \in Options : proposal[p].votes_lamports[o] = Outcome(p, o)

(***************************************************************************)
(* The stake a validator has lost to its delegators is known wherever it   *)
(* will be needed next: in its Vote once it has voted, in the cache until  *)
(* then, together with the lamports pending there                          *)
(* (cast_vote.rs:174, cast_vote_override.rs:244, modify_vote_override.rs:  *)
(* 230).                                                                   *)
(***************************************************************************)
OverridesAreRemembered ==
    \A p \in Proposals, v \in Validators : Created(p) /\ Voted(p) =>
        IF HasVote(p, v)
        THEN vote[p][v].override_lamports = Overridden(p, v)
        ELSE /\ Cache(p, v).total_stake = Overridden(p, v)
             /\ \A o \in Options : Cache(p, v).lamports[o] =
                   Sum([a \in OverridersOf(p, v) |-> vote_override[p][a].lamports[o]])

(***************************************************************************)
(* While voting is open nobody with stake in the snapshot is locked out:   *)
(* each validator and each delegator can vote, or change the vote it cast, *)
(* whatever the others did; no checked_sub fails                           *)
(* (proposal.rs:141-163, cast_vote.rs:174, cast_vote_override.rs:222).     *)
(***************************************************************************)
NobodyIsLockedOut ==
    \A p \in Proposals : Created(p) /\ VotingOpen(p) =>
        \A bp \in {d \in Distributions : ValidDistribution(d)} :
            /\ \A v \in Validators : LeavesOf(p).active[v] > 0 =>
                  ENABLED CastVote(p, v, bp) \/ ENABLED ModifyVote(p, v, bp)
            /\ \A a \in StakeAccounts : LeavesOf(p).delegated[a] > 0 =>
                  ENABLED CastVoteOverride(p, a, bp) \/ ENABLED ModifyVoteOverride(p, a, bp)

\* The stake that has taken part.
StakeVoting(p) ==
    Sum([v \in Voters(p) |-> LeavesOf(p).active[v]])
      + Sum([v \in Validators \ Voters(p) |-> Overridden(p, v)])

(***************************************************************************)
(* Rounding costs at most two lamports per vote and never creates any: the *)
(* three totals add up to the stake that took part, less that              *)
(* (utils.rs:52-61 rounds each of the three shares down).                  *)
(***************************************************************************)
RoundingIsBounded ==
    \A p \in Proposals : Created(p) /\ Voted(p) =>
        LET total == Sum(proposal[p].votes_lamports)
        IN /\ total <= StakeVoting(p)
           /\ total + 2 * proposal[p].vote_count >= StakeVoting(p)

(***************************************************************************)
(* All votes of a proposal are weighed by the one snapshot it is bound to, *)
(* rebindings by the admin included, and one is counted per voter          *)
(* (flush_merkle_root.rs:60, cast_vote.rs:117).                            *)
(***************************************************************************)
WeighedByOneSnapshot ==
    \A p \in Proposals : Created(p) =>
        /\ proposal[p].vote_count = Cardinality(Voters(p)) + Cardinality(Overriders(p))
        /\ Voted(p) =>
              /\ Weighable(p)
              /\ \A v \in Voters(p) : vote[p][v].stake = LeavesOf(p).active[v]
              /\ \A a \in Overriders(p) :
                    vote_override[p][a].stake_amount = LeavesOf(p).delegated[a]

(***************************************************************************)
(* Totals move only inside the voting window, so what finalize_proposal    *)
(* announces is the outcome at the end of the window, and stays so         *)
(* (finalize_proposal.rs:20-33).                                           *)
(***************************************************************************)
TotalsMoveInWindow ==
    [][\A p \in Proposals :
         Created(p) /\ proposal'[p].votes_lamports # proposal[p].votes_lamports
         => /\ proposal[p].start_epoch <= epoch /\ epoch < proposal[p].end_epoch
            /\ ~proposal[p].finalized]_vars
=============================================================================
