--------------------------- MODULE MCNcnBallotBox ---------------------------
(***************************************************************************)
(* Small instances of NcnBallotBox for TLC.                                *)
(***************************************************************************)
EXTENDS NcnBallotBox, TLC

OperatorSymmetry == Permutations(Operators)
=============================================================================
