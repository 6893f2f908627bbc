--------------------------- MODULE MCIdempotency ---------------------------
(* Idempotency with small sets; its requests and its keys are interchangeable. *)
EXTENDS Idempotency, TLC

Symmetry == Permutations(Requests) \cup Permutations(Names)
=============================================================================
