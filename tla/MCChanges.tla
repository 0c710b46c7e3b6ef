------------------------------ MODULE MCChanges ------------------------------
(***************************************************************************)
(* Two change sets over the same two files, in opposite request order; the *)
(* second file is new.                                                     *)
(***************************************************************************)
EXTENDS Changes, FiniteSets, TLC

CONSTANTS c1, c2

TwoSets == {c1, c2}
Opposite == c1 :> <<1, 2>> @@ c2 :> <<2, 1>>
Second == {2}
First == {1}

\* Behaviours with one edit or one unprotected window, and a fault
\* beside no other window.
OneWindow == Cardinality(windows) + edits <= 1 /\ (faults > 0 => windows \subseteq {"partial", "lost", "untidy", "died"})
=============================================================================
