----------------------------- MODULE MCChildren -----------------------------
(* Children on a small instance. *)
EXTENDS Children

\* At most two unprotected windows per behaviour, so that every property is
\* checked without them, with each and with each pair.
TwoWindows == Cardinality(windows) <= 2
=============================================================================
