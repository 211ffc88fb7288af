----------------------------- MODULE MCURLCache -----------------------------
(* URLCache on a small instance.  Requests, users and destinations are       *)
(* interchangeable.                                                          *)
EXTENDS URLCache, TLC

Symmetry == Permutations(Requests) \cup Permutations(Users) \cup Permutations(Dests)
=============================================================================
