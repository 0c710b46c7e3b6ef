---------------------------- MODULE MCOperations ----------------------------
(* Instances of Operations for TLC. *)
EXTENDS Operations, TLC

CONSTANTS s1, t1, t2

\* The one session of the instances belongs to the first target.
OneSession == [s \in {s1} |-> t1]

\* Ids carry no meaning beyond identity; workers are interchangeable.
Symmetry ==
  Permutations(Ops) \cup Permutations(Workers) \cup Permutations(Invs)

=============================================================================
