---------------------------- MODULE MCEventStream ----------------------------
(***************************************************************************)
(* EventStream with two sockets, so that one the client has given up can   *)
(* still speak while the next one replays.                                 *)
(***************************************************************************)
EXTENDS EventStream, TLC

CONSTANTS A, B, c1, c2

OneSession == {A}
TwoSessions == {A, B}
TwoConns == {c1, c2}
\* An event of the session's investigation, one of a row of the session, and
\* one of another session.
OneEach ==
  {[s |-> A, inv |-> 1, kind |-> "log"], [s |-> A, inv |-> 0, kind |-> "row"],
   [s |-> B, inv |-> 0, kind |-> "row"]}
Tasks == {"task"}
Mixed == {"task", "await"}

\* Bound: at most one event that is not of a row of the session.
FewOthers ==
  Cardinality({i \in DOMAIN log : log[i].s = B \/ log[i].kind = "log"}) <= 1

InsideWindows == windows \subseteq {"pruned"}
Symmetry == Permutations(TwoConns)
=============================================================================
