----------------------------- MODULE MCRegistry -----------------------------
(* Registry on a small instance. *)
EXTENDS Registry

\* At most one unprotected window per behaviour, and two edits beside one
\* proposal or one edit beside two.
Bounded ==
  /\ Cardinality(windows) <= 1
  /\ edits + Cardinality({k \in Proposal : prop[k] # "none"}) <= 3
=============================================================================
