--------------------------- MODULE MCRateLimiter ----------------------------
(* RateLimiter with limits of one call per two ticks and of two per tick.      *)
EXTENDS RateLimiter, TLC

MCSpecs == {[cap |-> 2, rate |-> 1, period |-> 2], [cap |-> 4, rate |-> 4, period |-> 1]}
Symmetry == {f @@ g : f \in Permutations(Requests), g \in Permutations(Replicas)}
=============================================================================
