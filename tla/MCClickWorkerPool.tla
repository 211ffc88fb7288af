------------------------ MODULE MCClickWorkerPool ------------------------
(* ClickWorkerPool on a small instance: one URL for all redirects, so that   *)
(* redirects, like workers, are interchangeable.                            *)
EXTENDS ClickWorkerPool, TLC

CONSTANT u1

MCUrlOf == [r \in Redirects |-> u1]

Symmetry == Permutations(Redirects) \cup Permutations(Workers)
=============================================================================
