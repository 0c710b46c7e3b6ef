---------------------------- MODULE MCLogPipeline ----------------------------
(***************************************************************************)
(* A file and a container log under a cap of one running subscription.     *)
(***************************************************************************)
EXTENDS LogPipeline

FileAndDocker == <<"file", "docker">>
TwoEach == <<2, 2>>

\* One window at a time, few faults and calls together, fewer with a socket or
\* with blank lines, and not both of these.
OneWindow ==
  /\ Cardinality(opened) <= 1 /\ 2 * faults + calls <= 4
  /\ view.kind = "product" => faults + calls = 0
  /\ view.st /= "off" => 2 * faults + calls <= 2
  /\ "blank" \in opened => view.st = "off" /\ faults + calls <= 1
=============================================================================
