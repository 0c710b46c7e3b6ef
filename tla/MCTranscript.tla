---------------------------- MODULE MCTranscript ----------------------------
(* Model checking of Transcript. *)
EXTENDS Transcript

\* At most one of the windows in one behaviour.
OneWindow == Cardinality(windows) <= 1
=============================================================================
