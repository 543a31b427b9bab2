---------------------------- MODULE MCOperations ----------------------------
(* The background work with two calls, two probes and two sends at once, an    *)
(* upstream that offers two tool lists with one tool in common, a tail and a   *)
(* batch smaller than the events there can be, and a cap of one send.          *)
EXTENDS Operations, TLC

MCCatalogs == <<{"read", "write"}, {"read", "list"}>>

Symmetry == Permutations(Calls) \cup Permutations(Probes)
=============================================================================
