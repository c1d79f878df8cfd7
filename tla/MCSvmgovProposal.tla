-------------------------- MODULE MCSvmgovProposal --------------------------
(***************************************************************************)
(* Small instances of SvmgovProposal, with what the command line says of   *)
(* each proposal, for TLC.                                                 *)
(***************************************************************************)
EXTENDS CliPhases, TLC

CONSTANTS k1, v1, v2, p1, p2

\* 80% of the stake activates; the snapshot is one slot into the target epoch.
MCSetting ==
    [max_support_epochs |-> 1, min_proposal_stake_lamports |-> 1,
     cluster_support_pct_min_bps |-> 8000, discussion_epochs |-> 1, voting_epochs |-> 1,
     snapshot_epoch_extension |-> 0, snapshot_slot_offset |-> 1, max_supporters |-> 2]
MCSettings == {MCSetting}

\* No discussion; the snapshot is at the start of the next epoch.
MCSettingsFlush ==
    {[MCSetting EXCEPT !.discussion_epochs = 0, !.snapshot_epoch_extension = 1,
                       !.snapshot_slot_offset = 0]}

MCNoUpdate == [f \in DOMAIN MCSetting |-> None]

\* The admin drops the discussion but extends snapshots and the voting, or moves
\* the cap on supporters.
MCUpdates ==
    {[MCNoUpdate EXCEPT !.discussion_epochs = 0, !.snapshot_epoch_extension = 1,
                        !.voting_epochs = 2],
     [MCNoUpdate EXCEPT !.max_supporters = 1]}

\* The admin sets the length of the voting to zero.
MCUpdatesZero == {[MCNoUpdate EXCEPT !.voting_epochs = 0]}

MCAuthorOf == (p1 :> v1) @@ (p2 :> v2)

MCAuthorOfOne == p1 :> v1

(***************************************************************************)
(* Stake moves from one validator to the other between epochs and there is *)
(* less of it: v2 falls short with 7 of 10, v1 suffices with 6 of 8.       *)
(***************************************************************************)
MCStakeMaps == {(v1 :> 3) @@ (v2 :> 7), (v1 :> 6) @@ (v2 :> 2)}
=============================================================================
