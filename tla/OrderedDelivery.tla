--------------------------- MODULE OrderedDelivery ---------------------------
(***************************************************************************)
(* What the CLI event stream promises to one session: the client sees the  *)
(* durable events of its session one at a time in sequence order, leaving  *)
(* none out, except that an authoritative snapshot may stand for all the   *)
(* events up to the sequence it carries.  And it catches up.  The promise  *)
(* is void from the moment a condition that breaks it has occurred.        *)
(***************************************************************************)
EXTENDS Naturals, Sequences

CONSTANTS Events, Mine(_)

VARIABLES log, cursor, void

vars == <<log, cursor, void>>

\* The events of the session that the client has not seen yet.
Unseen == {i \in DOMAIN log : i > cursor /\ Mine(log[i])}

Init == log = << >> /\ cursor = 0 /\ void = FALSE

\* The control plane records an event.
Record == /\ \E e \in Events : log' = Append(log, e)
          /\ UNCHANGED <<cursor, void>>

\* The client sees the oldest event it has not seen.
See == /\ ~void
       /\ \E i \in Unseen : (\A j \in Unseen : i <= j) /\ cursor' = i
       /\ UNCHANGED <<log, void>>

\* A snapshot stands for every event up to one that it contains.
Resync == /\ ~void
          /\ \E i \in Unseen : cursor' = i
          /\ UNCHANGED <<log, void>>

\* The promise is void, and stays so.
Void == void' = TRUE

Next == Record \/ See \/ Resync \/ Void

\* Nothing is left out ...
Ordered == Init /\ [][Next]_vars

\* ... and the client catches up.
Spec == Ordered /\ WF_vars(See \/ Resync)
=============================================================================
