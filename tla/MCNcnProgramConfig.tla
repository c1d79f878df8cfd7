------------------------- MODULE MCNcnProgramConfig -------------------------
(***************************************************************************)
(* A small instance of NcnProgramConfig for TLC: several keys, nominations *)
(* included, with a whitelist that can be filled.                          *)
(***************************************************************************)
EXTENDS NcnProgramConfig, TLC

KeySymmetry == Permutations(Keys) \cup Permutations(Operators)
=============================================================================
