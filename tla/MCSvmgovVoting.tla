--------------------------- MODULE MCSvmgovVoting ---------------------------
(***************************************************************************)
(* A small instance of SvmgovVoting for TLC: one proposal, one slot per    *)
(* epoch, two validators and two delegators.                               *)
(***************************************************************************)
EXTENDS SvmgovVoting, TLC

CONSTANTS k1, v1, v2, a1, a2, p1, r1, r2

\* One supporter activates; voting takes two epochs.
MCSettings ==
    {[max_support_epochs |-> 0, min_proposal_stake_lamports |-> 1,
      cluster_support_pct_min_bps |-> 1000, discussion_epochs |-> 0, voting_epochs |-> 2,
      snapshot_epoch_extension |-> 1, snapshot_slot_offset |-> 0, max_supporters |-> 1]}

MCAuthorOf == p1 :> v1
MCStakeMaps == {(v1 :> 7) @@ (v2 :> 5)}

Bp(f, g, h) == ("for" :> f) @@ ("against" :> g) @@ ("abstain" :> h)

\* One vote without rounding, one with, and one that does not add up.
MCDistributions == {Bp(10000, 0, 0), Bp(3333, 3334, 3333), Bp(5000, 5000, 1)}

(***************************************************************************)
(* In r1 both delegators belong to v1 and together hold all of its stake.  *)
(* In r2 stakes are different and each validator has one delegator, with   *)
(* stake to spare.                                                         *)
(***************************************************************************)
MCLeaves ==
    (r1 :> [active |-> (v1 :> 7) @@ (v2 :> 5),
            delegated |-> (a1 :> 3) @@ (a2 :> 4),
            validator_of |-> (a1 :> v1) @@ (a2 :> v1)])
    @@ (r2 :> [active |-> (v1 :> 6) @@ (v2 :> 8),
               delegated |-> (a1 :> 2) @@ (a2 :> 7),
               validator_of |-> (a1 :> v1) @@ (a2 :> v2)])
=============================================================================
