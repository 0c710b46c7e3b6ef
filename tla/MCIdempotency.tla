--------------------------- MODULE MCIdempotency ---------------------------
(* Instances of Idempotency for TLC. *)
EXTENDS Idempotency, TLC

Symmetry == Permutations(Requests) \cup Permutations(Keys)
              \cup Permutations(Bodies)
=============================================================================
