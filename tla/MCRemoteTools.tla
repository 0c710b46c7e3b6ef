---------------------------- MODULE MCRemoteTools ----------------------------
(***************************************************************************)
(* Three callers of one target.                                            *)
(***************************************************************************)
EXTENDS RemoteTools

OneTarget == {"t"}

\* One window at a time, few faults and calls together.
OneWindow == Cardinality(windows) <= 1
=============================================================================
