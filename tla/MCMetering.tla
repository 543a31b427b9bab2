----------------------------- MODULE MCMetering -----------------------------
(* Metering for a few concurrent calls of one key.                             *)
EXTENDS Metering, TLC

Symmetry == Permutations(Calls) \cup Permutations(Keys)
=============================================================================
