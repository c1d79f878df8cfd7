--------------------------- MODULE SvmgovProposal ---------------------------
(***************************************************************************)
(* The life of svmgov proposals: created by a validator, supported until   *)
(* the supporters hold the threshold share of the stake, then bound to a   *)
(* snapshot slot and a voting window, possibly rebound by the admin, and   *)
(* finalized after the window.  Votes are in SvmgovVoting.                 *)
(*                                                                         *)
(* Every instruction is one action.  The ncn-snapshot program is here what *)
(* it promises to be, SnapshotConsensus; its init_ballot_box is called     *)
(* inside the instructions that bind a proposal.                           *)
(***************************************************************************)
EXTENDS SvmgovGlobalConfig, Sequences

CONSTANTS
    Validators,     \* vote accounts; the node identity of each signs for it
    Proposals,      \* proposal PDAs: a seed and a vote account each
    AuthorOf,       \* the vote account in the PDA of each proposal
    StakeMaps,      \* epoch stakes of the vote accounts, as an epoch may have them
    SLOTS_PER_EPOCH,
    SnapshotSlots,  \* bound: slots a proposal may be bound to
    Roots, ZeroRoot, Unopened, Open,    \* see SnapshotConsensus
    MaxSlot         \* bound on the clock

ASSUME ProposalAssumption ==
    /\ AuthorOf \in [Proposals -> Validators]
    /\ StakeMaps \subseteq [Validators -> Nat] /\ StakeMaps # {}
    /\ SLOTS_PER_EPOCH \in Nat \ {0}
    /\ SnapshotSlots \subseteq Nat
    /\ MaxSlot \in Nat
    /\ IsFiniteSet(Validators)

VARIABLES
    slot,           \* Clock.slot
    epoch_stake,    \* sol_get_epoch_stake: stakes of the current epoch
    status,         \* what ncn-snapshot holds for each snapshot slot
    proposal_index, \* ProposalIndex.current_index, None before initialize_index
    proposal,       \* proposal PDA -> Proposal account, or None
    support         \* Support PDAs: pairs of a proposal and a supporter

proposalVars == <<global_config, slot, epoch_stake, status, proposal_index, proposal, support>>

Snapshot == INSTANCE SnapshotConsensus

\* Clock.epoch; the program computes slots with the same 432,000 per epoch.
epoch == slot \div SLOTS_PER_EPOCH

(***************************************************************************)
(* The consensus_result key is derived from the snapshot slot and is that  *)
(* slot here.  supporters is the list kept behind the account's fields.    *)
(* The author, texts, bump, timestamp and stake weight are never read.     *)
(***************************************************************************)
Proposal ==
    [creation_epoch : Nat,
     start_epoch : Nat,
     end_epoch : Nat,
     cluster_support_lamports : Nat,
     votes_lamports : [Options -> Nat],
     voting : BOOLEAN,
     finalized : BOOLEAN,
     vote_count : Nat,
     index : Nat,
     consensus_result : SnapshotSlots \cup {None},
     snapshot_slot : Nat,
     supporters : Seq(Validators)]

\* An account that exists is told from one that does not, and a result from a box.
ASSUME DistinctAssumption ==
    /\ None \notin Proposal \cup Nat
    /\ Unopened # Open /\ {Unopened, Open} \cap Snapshot!Result = {}

Created(p) == proposal[p] # None

-----------------------------------------------------------------------------
\* initialize_index
InitializeIndex ==
    /\ proposal_index = None
    /\ proposal_index' = 0
    /\ UNCHANGED <<global_config, slot, epoch_stake, status, proposal, support>>

\* Mutant: the counter is not written back.
CreateProposalUncounted(p) ==
    /\ Readable
    /\ proposal_index # None
    /\ ~Created(p)
    /\ epoch_stake[AuthorOf[p]] >= params.min_proposal_stake_lamports
    /\ proposal' = [proposal EXCEPT ![p] =
          [creation_epoch |-> epoch, start_epoch |-> 0, end_epoch |-> 0,
           cluster_support_lamports |-> 0, votes_lamports |-> NoLamports,
           voting |-> FALSE, finalized |-> FALSE, vote_count |-> 0,
           index |-> proposal_index + 1, consensus_result |-> None,
           snapshot_slot |-> 0, supporters |-> <<>>]]
    /\ UNCHANGED <<global_config, slot, epoch_stake, status, proposal_index, support>>

\* create_proposal, signed by the node identity of the proposal's vote account.
CreateProposal(p) ==
    /\ Readable
    /\ proposal_index # None
    /\ ~Created(p)
    /\ Sum(epoch_stake) # 0
    /\ epoch_stake[AuthorOf[p]] >= params.min_proposal_stake_lamports
    /\ proposal' = [proposal EXCEPT ![p] =
          [creation_epoch |-> epoch, start_epoch |-> 0, end_epoch |-> 0,
           cluster_support_lamports |-> 0, votes_lamports |-> NoLamports,
           voting |-> FALSE, finalized |-> FALSE, vote_count |-> 0,
           index |-> proposal_index + 1, consensus_result |-> None,
           snapshot_slot |-> 0, supporters |-> <<>>]]
    /\ proposal_index' = proposal_index + 1
    /\ UNCHANGED <<global_config, slot, epoch_stake, status, support>>

\* check_support_window
InSupportWindow(pr) ==
    /\ pr.creation_epoch <= epoch
    /\ epoch <= pr.creation_epoch + params.max_support_epochs

\* tally_supporter_stakes: every supporter at the stake of the current epoch.
tally_supporter_stakes(supporters) ==
    Sum([i \in DOMAIN supporters |-> epoch_stake[supporters[i]]])

\* compute_future_snapshot_slot, before its check against the clock.
SnapshotSlotOf(target_epoch) ==
    target_epoch * SLOTS_PER_EPOCH + params.snapshot_slot_offset

\* proposal_target_epoch
TargetEpoch ==
    epoch + params.discussion_epochs + params.snapshot_epoch_extension

\* The schedule and the snapshot that go with a target epoch.
Scheduled(pr, target_epoch) ==
    [pr EXCEPT !.start_epoch = target_epoch + 1,
               !.end_epoch = target_epoch + 1 + params.voting_epochs,
               !.snapshot_slot = SnapshotSlotOf(target_epoch),
               !.consensus_result = SnapshotSlotOf(target_epoch)]

\* Mutant: the box of a later proposal is left to whoever needs it.
BindSnapshotUnopened(target_epoch) ==
    /\ SnapshotSlotOf(target_epoch) \in SnapshotSlots
    /\ SnapshotSlotOf(target_epoch) > slot
    /\ UNCHANGED <<slot, status>>

\* Mutant: the check is left to init_ballot_box, which is skipped for an existing box.
BindSnapshotUnchecked(target_epoch) ==
    LET s == SnapshotSlotOf(target_epoch)
    IN /\ s \in SnapshotSlots
       /\ IF status[s] = Unopened THEN Snapshot!OpenBox(s) ELSE UNCHANGED <<slot, status>>

(***************************************************************************)
(* Binding to the snapshot slot of an epoch: the slot must be ahead, and   *)
(* its ballot box is opened unless another proposal has opened it.         *)
(***************************************************************************)
BindSnapshot(target_epoch) ==
    LET s == SnapshotSlotOf(target_epoch)
    IN /\ s \in SnapshotSlots
       /\ s > slot
       /\ IF status[s] = Unopened THEN Snapshot!OpenBox(s) ELSE UNCHANGED <<slot, status>>

(***************************************************************************)
(* The end of support_proposal and retally_support: pr is the proposal     *)
(* with its new tally; at the threshold activate_voting runs, and if it    *)
(* fails the instruction fails with it.                                    *)
(***************************************************************************)
ActivateIfSupported(p, pr) ==
    IF pr.cluster_support_lamports
         >= min_stake_threshold(Sum(epoch_stake), params.cluster_support_pct_min_bps)
    THEN /\ BindSnapshot(TargetEpoch)
         /\ proposal' = [proposal EXCEPT ![p] =
               [Scheduled(pr, TargetEpoch) EXCEPT !.voting = TRUE]]
    ELSE /\ proposal' = [proposal EXCEPT ![p] = pr]
         /\ UNCHANGED <<slot, status>>

\* The proposal with one more supporter, everyone measured at the current epoch.
Supported(pr, v) ==
    [pr EXCEPT
        !.supporters = Append(@, v),
        !.cluster_support_lamports = tally_supporter_stakes(pr.supporters) + epoch_stake[v]]

\* Mutant: the Support PDA is created if needed, so supporting twice goes through.
SupportProposalTwice(p, v) ==
    LET pr == proposal[p]
    IN /\ Created(p) /\ Readable
       /\ ~pr.finalized /\ ~pr.voting
       /\ InSupportWindow(pr)
       /\ Len(pr.supporters) < params.max_supporters
       /\ epoch_stake[v] >= params.min_proposal_stake_lamports
       /\ support' = support \cup {<<p, v>>}
       /\ ActivateIfSupported(p, Supported(pr, v))
       /\ UNCHANGED <<global_config, epoch_stake, proposal_index>>

\* support_proposal, signed by the node identity of vote account v.
SupportProposal(p, v) ==
    LET pr == proposal[p]
    IN /\ Created(p) /\ Readable
       /\ <<p, v>> \notin support
       /\ ~pr.finalized /\ ~pr.voting
       /\ InSupportWindow(pr)
       /\ Len(pr.supporters) < params.max_supporters
       /\ epoch_stake[v] >= params.min_proposal_stake_lamports
       /\ support' = support \cup {<<p, v>>}
       /\ ActivateIfSupported(p, Supported(pr, v))
       /\ UNCHANGED <<global_config, epoch_stake, proposal_index>>

\* Mutant: the stored tally is compared with the new threshold.
RetallySupportStale(p) ==
    LET pr == proposal[p]
    IN /\ Created(p) /\ Readable
       /\ ~pr.finalized /\ ~pr.voting
       /\ InSupportWindow(pr)
       /\ pr.supporters # <<>>
       /\ ActivateIfSupported(p, pr)
       /\ UNCHANGED <<global_config, epoch_stake, proposal_index, support>>

\* retally_support, by anyone.
RetallySupport(p) ==
    LET pr == proposal[p]
    IN /\ Created(p) /\ Readable
       /\ ~pr.finalized /\ ~pr.voting
       /\ InSupportWindow(pr)
       /\ pr.supporters # <<>>
       /\ ActivateIfSupported(p, [pr EXCEPT
             !.cluster_support_lamports = tally_supporter_stakes(pr.supporters)])
       /\ UNCHANGED <<global_config, epoch_stake, proposal_index, support>>

\* Mutant: rebinding is possible until the voting ends.
FlushMerkleRootLate(admin, p) ==
    LET target_epoch == epoch + params.snapshot_epoch_extension
    IN /\ Created(p) /\ Readable
       /\ admin = global_config.admin
       /\ ~proposal[p].finalized
       /\ epoch < proposal[p].end_epoch
       /\ proposal[p].snapshot_slot > 0 /\ proposal[p].consensus_result # None
       /\ BindSnapshot(target_epoch)
       /\ proposal' = [proposal EXCEPT ![p] = Scheduled(@, target_epoch)]
       /\ UNCHANGED <<global_config, epoch_stake, proposal_index, support>>

(***************************************************************************)
(* flush_merkle_root: before the voting starts the admin may bind the      *)
(* proposal anew, counted from the current epoch and without the           *)
(* discussion epochs.                                                      *)
(***************************************************************************)
FlushMerkleRoot(admin, p) ==
    LET target_epoch == epoch + params.snapshot_epoch_extension
    IN /\ Created(p) /\ Readable
       /\ admin = global_config.admin
       /\ ~proposal[p].finalized
       /\ epoch < proposal[p].start_epoch
       /\ proposal[p].snapshot_slot > 0
       /\ proposal[p].consensus_result # None
       /\ BindSnapshot(target_epoch)
       /\ proposal' = [proposal EXCEPT ![p] = Scheduled(@, target_epoch)]
       /\ UNCHANGED <<global_config, epoch_stake, proposal_index, support>>

\* finalize_proposal, by anyone once the window is over.
FinalizeProposal(p) ==
    /\ Created(p)
    /\ proposal[p].voting /\ ~proposal[p].finalized
    /\ epoch >= proposal[p].end_epoch
    /\ proposal' = [proposal EXCEPT ![p].finalized = TRUE]
    /\ UNCHANGED <<global_config, slot, epoch_stake, status, proposal_index, support>>

\* The next slot; an epoch begins with stakes of its own.
Tick ==
    /\ slot < MaxSlot
    /\ slot' = slot + 1
    /\ IF epoch' = epoch THEN epoch_stake' = epoch_stake ELSE epoch_stake' \in StakeMaps
    /\ UNCHANGED <<global_config, status, proposal_index, proposal, support>>

\* ncn-snapshot publishes a result on its own.
PublishResult(s, r) ==
    /\ Snapshot!Publish(s, r)
    /\ UNCHANGED <<global_config, epoch_stake, proposal_index, proposal, support>>

-----------------------------------------------------------------------------
ProposalInit ==
    /\ ConfigInit
    /\ slot = 0
    /\ epoch_stake \in StakeMaps
    /\ status = [s \in SnapshotSlots |-> Unopened]
    /\ proposal_index = None
    /\ proposal = [p \in Proposals |-> None]
    /\ support = {}

ProposalNext ==
    \/ ConfigNext /\ UNCHANGED <<slot, epoch_stake, status, proposal_index, proposal, support>>
    \/ InitializeIndex
    \/ \E p \in Proposals :
          \/ CreateProposal(p)
          \/ \E v \in Validators : SupportProposal(p, v)
          \/ RetallySupport(p)
          \/ \E k \in Keys : FlushMerkleRoot(k, p)
          \/ FinalizeProposal(p)
    \/ \E s \in SnapshotSlots, r \in Snapshot!Result : PublishResult(s, r)
    \/ Tick

ProposalSpec == ProposalInit /\ [][ProposalNext]_proposalVars

-----------------------------------------------------------------------------
ProposalTypeOK ==
    /\ ConfigTypeOK
    /\ slot \in Nat
    /\ epoch_stake \in StakeMaps
    /\ status \in [SnapshotSlots -> {Unopened, Open} \cup Snapshot!Result]
    /\ proposal_index \in Nat \cup {None}
    /\ proposal \in [Proposals -> Proposal \cup {None}]
    /\ support \subseteq Proposals \X Validators

(***************************************************************************)
(* A proposal that reached voting is bound to one snapshot slot, key and   *)
(* slot agreeing, whose ballot box exists, although the box may have been  *)
(* opened for another proposal and the binding renewed by the admin; one   *)
(* that did not is bound to nothing (support_proposal.rs:270,              *)
(* flush_merkle_root.rs:126).                                              *)
(***************************************************************************)
BoundToABox ==
    /\ ProposalTypeOK
    /\ \A p \in Proposals : Created(p) =>
          LET pr == proposal[p]
          IN IF pr.voting
             THEN /\ pr.consensus_result = pr.snapshot_slot
                  /\ status[pr.snapshot_slot] # Unopened
                  /\ pr.start_epoch > pr.creation_epoch
                  /\ pr.start_epoch <= pr.end_epoch
                  /\ pr.finalized => epoch >= pr.end_epoch
             ELSE /\ pr.consensus_result = None
                  /\ pr.snapshot_slot = 0 /\ pr.start_epoch = 0 /\ pr.end_epoch = 0
                  /\ ~pr.finalized

SupportersOf(pr) == {pr.supporters[i] : i \in DOMAIN pr.supporters}

(***************************************************************************)
(* The list that every support call walks names each supporter once, just  *)
(* those with a Support account, and never outgrows what one transaction   *)
(* can walk, although the admin moves the cap under it                     *)
(* (support_proposal.rs:102-109, constants.rs:10-15); and proposals are    *)
(* numbered 1, 2, ... in the order of their creation.                      *)
(***************************************************************************)
SupportersAreCounted ==
    /\ \A p \in Proposals : Created(p) =>
          LET pr == proposal[p]
          IN /\ SupportersOf(pr) = {v \in Validators : <<p, v>> \in support}
             /\ Len(pr.supporters) = Cardinality(SupportersOf(pr))
             /\ Len(pr.supporters) <= MAX_SUPPORTERS_LIMIT
    /\ \A x, y \in {p \in Proposals : Created(p)} :
          /\ proposal[x].index \in 1 .. proposal_index
          /\ x # y => proposal[x].index # proposal[y].index
          /\ proposal[x].index < proposal[y].index
               => proposal[x].creation_epoch <= proposal[y].creation_epoch

(***************************************************************************)
(* Voting starts only when the distinct supporters, all of them measured   *)
(* in the epoch of the activation, hold the threshold share of that        *)
(* epoch's stake, whatever stakes and config were when they supported      *)
(* (support_proposal.rs:133-141, retally_support.rs:85-93).                *)
(***************************************************************************)
ActivationIsBacked ==
    [][\A p \in Proposals :
         Created(p) /\ ~proposal[p].voting /\ proposal'[p].voting
         => LET backers == SupportersOf(proposal'[p])
            IN /\ backers # {}
               /\ Sum([v \in backers |-> epoch_stake[v]])
                    >= min_stake_threshold(Sum(epoch_stake),
                                           params.cluster_support_pct_min_bps)
      ]_proposalVars

(***************************************************************************)
(* A proposal is never bound to a snapshot of the past, nor to a result    *)
(* the operators had already agreed on: it always waits for a snapshot     *)
(* taken after the binding (utils.rs:210-217; "SECURITY" comments in       *)
(* support_proposal.rs:235 and flush_merkle_root.rs:82).                   *)
(***************************************************************************)
NeverBackdated ==
    [][\A p \in Proposals :
         Created(p) /\ (proposal'[p].consensus_result # proposal[p].consensus_result)
         => LET s == proposal'[p].consensus_result
            IN /\ s > slot
               /\ status[s] \notin {Unopened, Open} => status[s].tie_breaker
      ]_proposalVars

(***************************************************************************)
(* From the epoch in which voting starts, the snapshot, the window and the *)
(* support that a proposal rests on are fixed for good: votes cast at      *)
(* different times are weighed by one snapshot (flush_merkle_root.rs:60).  *)
(***************************************************************************)
FixedOnceStarted ==
    \A p \in Proposals :
        Created(p) /\ proposal[p].voting /\ epoch >= proposal[p].start_epoch
        => /\ proposal'[p].consensus_result = proposal[p].consensus_result
           /\ proposal'[p].start_epoch = proposal[p].start_epoch
           /\ proposal'[p].end_epoch = proposal[p].end_epoch
           /\ proposal'[p].supporters = proposal[p].supporters
           /\ proposal[p].finalized => proposal'[p] = proposal[p]

(***************************************************************************)
(* The error table of the docs says of InvalidVotingLength that the voting *)
(* length must be greater than 0: every proposal that reaches voting has   *)
(* an epoch in which votes are accepted.                                   *)
(***************************************************************************)
VotingWindowNonEmpty ==
    \A p \in Proposals :
        Created(p) /\ proposal[p].voting => proposal[p].start_epoch < proposal[p].end_epoch

(***************************************************************************)
(* The error reference gives MerkleRootAlreadySet for a flush_merkle_root  *)
(* called when the root is already set: a proposal whose snapshot has a    *)
(* result keeps it.                                                        *)
(***************************************************************************)
RootSetIsKept ==
    [][\A p \in Proposals :
         /\ Created(p) /\ proposal[p].consensus_result # None
         /\ proposal'[p].consensus_result # proposal[p].consensus_result
         => status[proposal[p].consensus_result] = Open]_proposalVars
=============================================================================
