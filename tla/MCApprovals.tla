---------------------------- MODULE MCApprovals -----------------------------
(* Approvals over two requests, two people and two policies.                   *)
EXTENDS Approvals, TLC

(* The people, and the requests, are interchangeable.  Not used in a run that  *)
(* checks liveness.                                                            *)
Symmetry == Permutations(Handlers) \cup Permutations(People)
=============================================================================
