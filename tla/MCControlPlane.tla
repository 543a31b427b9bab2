--------------------------- MODULE MCControlPlane ---------------------------
(* ControlPlane for an administrator, a user of the identity provider, and a   *)
(* few requests at once.                                                       *)
EXTENDS ControlPlane, TLC

Symmetry == Permutations(Ids) \cup Permutations(Handlers) \cup Permutations(Requests)
=============================================================================
