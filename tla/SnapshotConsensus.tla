------------------------- MODULE SnapshotConsensus -------------------------
(***************************************************************************)
(* What the ncn-snapshot program promises the governance program: for each *)
(* snapshot slot at most one result, published once and never changed; a   *)
(* box for it is opened only while the slot is still ahead, and only the   *)
(* tie breaker can publish before the slot has passed or publish the zero  *)
(* root.  NcnBallotBox implements it; SvmgovProposal builds on it.         *)
(***************************************************************************)
EXTENDS Integers

CONSTANTS
    SnapshotSlots,  \* slots a box may be opened for
    Roots,          \* meta merkle roots
    ZeroRoot,
    Unopened, Open  \* a slot without a box, and one with a box but no result

VARIABLES
    slot,           \* Clock.slot
    status          \* snapshot slot -> Unopened, Open or the published result

Result == [root : Roots, tie_breaker : BOOLEAN]

Init == slot \in Nat /\ status = [s \in SnapshotSlots |-> Unopened]

OpenBox(s) ==
    /\ status[s] = Unopened
    /\ s > slot
    /\ status' = [status EXCEPT ![s] = Open]
    /\ UNCHANGED slot

Publish(s, r) ==
    /\ status[s] = Open
    /\ r.tie_breaker \/ (slot > s /\ r.root # ZeroRoot)
    /\ status' = [status EXCEPT ![s] = r]
    /\ UNCHANGED slot

Advance == slot' = slot + 1 /\ UNCHANGED status

Next ==
    \/ \E s \in SnapshotSlots :
          \/ OpenBox(s)
          \/ \E r \in Result : Publish(s, r)
    \/ Advance

Spec == Init /\ [][Next]_<<slot, status>>
=============================================================================
