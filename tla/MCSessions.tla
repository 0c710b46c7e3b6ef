----------------------------- MODULE MCSessions -----------------------------
(* Sessions on a small instance. *)
EXTENDS Sessions

\* At most one unprotected window per behaviour, so that every property is
\* checked without any and with each.
OneWindow == Cardinality(opened) <= 1
=============================================================================
