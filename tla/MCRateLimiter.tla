--------------------------- MODULE MCRateLimiter ---------------------------
(* Instances of RateLimiter for TLC.                                       *)
EXTENDS RateLimiter, TLC

CONSTANTS t1, t2, c1, c2, c3, c4, c5

(* All but the last caller compete for one tenant's limiter.               *)
MCTenantOf ==
  (c1 :> t1) @@ (c2 :> t1) @@ (c3 :> t1) @@ (c4 :> t1) @@ (c5 :> t2)
============================================================================
