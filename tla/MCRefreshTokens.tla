--------------------------- MODULE MCRefreshTokens ---------------------------
(* RefreshTokens on a small instance; requests are interchangeable.           *)
EXTENDS RefreshTokens, TLC

Symmetry == Permutations(Requests)
=============================================================================
