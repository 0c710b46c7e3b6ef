---------------------------- MODULE MCProvenance ----------------------------
(* Provenance on a small instance. *)
EXTENDS Provenance, TLC

\* At most one unprotected window per behaviour; new ids are taken in order;
\* citations without a run, which no extraction reads, come without extractions;
\* two of the three runs start.
Bounded ==
  /\ Cardinality(windows) <= 1
  /\ Cardinality({r \in Run : run[r] # "new"}) <= 2
  /\ clock > 0 => \A r \in Run : cited[r] = {}
  /\ \A i \in Id : mem[i] # NoRow => \A j \in 1..i - 1 : mem[j] # NoRow

FactsAlike == Permutations(Fact)
=============================================================================
