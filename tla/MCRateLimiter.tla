--------------------------- MODULE MCRateLimiter ---------------------------
(* RateLimiter on a small instance.  Requests and clients are               *)
(* interchangeable.                                                         *)
EXTENDS RateLimiter, TLC

Symmetry == Permutations(Requests) \cup Permutations(Clients)
=============================================================================
