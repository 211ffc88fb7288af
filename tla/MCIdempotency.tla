--------------------------- MODULE MCIdempotency ---------------------------
(* Idempotency on a small instance.  Requests are interchangeable, and so    *)
(* are instances: the specification never orders them.                       *)
EXTENDS Idempotency, TLC

Symmetry == Permutations(Requests) \cup Permutations(Instances)
=============================================================================
