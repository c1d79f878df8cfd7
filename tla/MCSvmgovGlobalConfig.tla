------------------------ MODULE MCSvmgovGlobalConfig ------------------------
(***************************************************************************)
(* A small instance of SvmgovGlobalConfig for TLC: three keys, and an      *)
(* account that may be of the previous version, with or without a nominee. *)
(***************************************************************************)
EXTENDS SvmgovGlobalConfig, TLC

CONSTANTS k1, k2

MCSetting ==
    [max_support_epochs |-> 1, min_proposal_stake_lamports |-> 1,
     cluster_support_pct_min_bps |-> 6000, discussion_epochs |-> 1, voting_epochs |-> 1,
     snapshot_epoch_extension |-> 0, snapshot_slot_offset |-> 1, max_supporters |-> 2]

\* The second is refused: its share is above 100%.
MCSettings == {MCSetting, [MCSetting EXCEPT !.cluster_support_pct_min_bps = 10001]}

MCNoUpdate == [f \in DOMAIN MCSetting |-> None]

\* Partial updates, with values that the validation refuses among them.
MCUpdates ==
    {[MCNoUpdate EXCEPT !.max_supporters = n] : n \in 0 .. 3}
      \cup {[MCNoUpdate EXCEPT !.voting_epochs = 2],
            [MCNoUpdate EXCEPT !.cluster_support_pct_min_bps = 10001],
            [MCNoUpdate EXCEPT !.cluster_support_pct_min_bps = 10000],
            [MCNoUpdate EXCEPT !.discussion_epochs = 0, !.max_supporters = 1]}

MCLegacy ==
    [admin : {k1}, pending_admin : {k2, None},
     params : {[MCSetting EXCEPT !.max_supporters = 0]}]
=============================================================================
