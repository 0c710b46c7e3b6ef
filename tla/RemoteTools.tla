----------------------------- MODULE RemoteTools -----------------------------
(***************************************************************************)
(* The table of SSH sessions that every remote tool shares, and the calls  *)
(* that use it: connecting under the target's lock, child processes in     *)
(* containers, disconnecting, closing everything, one approved command and *)
(* reads of one file whose path is authorised before it is read.           *)
(***************************************************************************)
EXTENDS Integers, FiniteSets

CONSTANTS
  Targets, Callers,
  MaxSessions,     \* bound: transports ever opened
  MaxChildren,     \* bound: container processes ever opened
  MaxFaults,       \* bound: lost connections, failing calls, file swaps
  MaxCalls         \* bound: calls

Sessions == 1..MaxSessions
Children == 1..MaxChildren
None == 0

ASSUME RemoteConstants ==
  /\ {MaxSessions, MaxChildren, MaxFaults, MaxCalls} \subseteq Nat
  /\ Targets /= {} /\ Callers /= {} /\ None \notin Callers

VARIABLES
  table,     \* _sessions: target -> session or None
  tr,        \* session -> its target and the state of its transport
  listed,    \* _container_sessions: the children listed
  kid,       \* child -> its host session and the state of its process
  lock,      \* target -> the call that holds the lock, or None
  call,      \* caller -> the call it makes
  approval,  \* of the one guarded command
  ran,       \* how often the guarded command has begun on the host
  ended,     \* how it ended there, as far as this process can know
  file,      \* what the path names now
  answer,    \* caller -> what its last call returned
  calls, faults,
  windows    \* history: the windows hit

net == <<table, tr, listed, kid>>
vars == <<net, lock, call, approval, ran, ended, file, answer, calls, faults, windows>>

\* HostSession, ContainerSession.
HostSession == [tgt : Targets, st : {"unborn", "open", "dead", "closed"}]
ContainerSession == [host : Sessions \cup {None}, st : {"unborn", "open", "closed"}]

Idle == [op |-> "none", at |-> "idle", tgt |-> CHOOSE t \in Targets : TRUE, s |-> None, canon |-> "in",
         todo |-> {}, rest |-> {}]

\* The calls that close a host session.
Closers(s) == {c \in Callers : call[c].at \in {"kids", "shut"} /\ call[c].s = s}

Begin(c, op) == call[c].at = "idle" /\ calls < MaxCalls /\ calls' = calls + 1 /\ answer' = [answer EXCEPT ![c] = "none"]
Goto(c, r) == call' = [call EXCEPT ![c] = r]
Return(c, a) == call' = [call EXCEPT ![c] = Idle] /\ answer' = [answer EXCEPT ![c] = a]

\* async with: the lock goes with the call that leaves the block.
Released(c) == [t \in Targets |-> IF lock[t] = c THEN None ELSE lock[t]]

\* Mutant: no lock.
UseNoLock(c, t) == lock' = lock

\* _lock_for, and entering the block.
Enter(c, t) == lock[t] = None /\ lock' = [lock EXCEPT ![t] = c]

-----------------------------------------------------------------------------
(* connect.                                                                *)

\* The tools resolve target and service from the registry and connect.
StartTool(c, op, t) ==
  /\ Begin(c, op)
  /\ Goto(c, [Idle EXCEPT !.op = op, !.tgt = t, !.at = "lock"])
  /\ UNCHANGED <<net, lock, approval, ran, ended, file, faults, windows>>

\* The route: find_live returns a live session without the lock.
ConnectRoute(c, t) ==
  /\ Begin(c, "connect")
  /\ Goto(c, [Idle EXCEPT !.op = "connect", !.tgt = t, !.at = IF table[t] = None THEN "lock" ELSE "live", !.s = table[t]])
  /\ UNCHANGED <<net, lock, approval, ran, ended, file, faults, windows>>

FindLive(c) ==
  /\ call[c].at = "live"
  /\ IF tr[call[c].s].st = "open" THEN Return(c, "connected")
     ELSE Goto(c, [call[c] EXCEPT !.at = "lock"]) /\ UNCHANGED answer
  /\ windows' = windows \cup (IF table[call[c].tgt] = call[c].s THEN {} ELSE {"torn"})
  /\ UNCHANGED <<net, lock, approval, ran, ended, file, calls, faults>>

\* The lock is taken and the table read.
Lock(c) ==
  /\ call[c].at = "lock"
  /\ Enter(c, call[c].tgt)
  /\ LET s == table[call[c].tgt]
     IN Goto(c, [call[c] EXCEPT !.s = s, !.at = IF s = None THEN "dial" ELSE "probe"])
  /\ UNCHANGED <<net, approval, ran, ended, file, answer, calls, faults, windows>>

\* The children listed under a host session.
ChildrenOf(s) == {k \in listed : kid[k].host = s}

\* is_alive.
Alive(s) == tr[s].st = "open"

\* A live session is handed out, a stale one is closed first.
Probe(c) ==
  /\ call[c].at = "probe"
  /\ LET s == call[c].s
     IN IF Alive(s)
        THEN /\ Goto(c, [call[c] EXCEPT !.at = "have"]) /\ lock' = Released(c)
             /\ windows' = windows \cup (IF table[call[c].tgt] = s THEN {} ELSE {"torn"})
        ELSE Goto(c, [call[c] EXCEPT !.at = "kids", !.todo = ChildrenOf(s)]) /\ UNCHANGED <<lock, windows>>
  /\ UNCHANGED <<net, approval, ran, ended, file, answer, calls, faults>>

\* factory.connect succeeds: the session is registered and handed out.
Dial(c, s) ==
  /\ call[c].at = "dial" /\ tr[s].st = "unborn" /\ \A r \in Sessions : r < s => tr[r].st /= "unborn"
  /\ tr' = [tr EXCEPT ![s] = [tgt |-> call[c].tgt, st |-> "open"]]
  /\ table' = [table EXCEPT ![call[c].tgt] = s]
  /\ lock' = Released(c)
  /\ Goto(c, [call[c] EXCEPT !.at = "have", !.s = s])
  /\ UNCHANGED <<listed, kid, approval, ran, ended, file, answer, calls, faults, windows>>

\* Mutant: the lock is kept.
FailLocked(c) == Return(c, "failed") /\ UNCHANGED lock

\* The block is left by the exception and the call fails.
Raise(c) == Return(c, "failed") /\ lock' = Released(c)

\* factory.connect fails.
DialFails(c) ==
  /\ call[c].at = "dial"
  /\ Raise(c)
  /\ UNCHANGED <<net, approval, ran, ended, file, calls, faults, windows>>

-----------------------------------------------------------------------------
(* Closing.                                                                *)

\* A child of the list taken at the start is popped and closed.  One that
\* another call has popped in the meantime raises KeyError, and the transport
\* is not closed.
PopChild(c, k) ==
  IF k \in listed
  THEN /\ listed' = listed \ {k} /\ kid' = [kid EXCEPT ![k].st = "closed"]
       /\ Goto(c, [call[c] EXCEPT !.todo = @ \ {k}]) /\ UNCHANGED <<lock, answer, windows>>
  ELSE Raise(c) /\ windows' = windows \cup {"keyerror"} /\ UNCHANGED <<listed, kid>>

\* _close_children_for_host, one child at a time.
CloseChildren(c) ==
  /\ call[c].at = "kids"
  /\ IF call[c].todo = {}
     THEN Goto(c, [call[c] EXCEPT !.at = "shut"]) /\ UNCHANGED <<listed, kid, lock, answer, windows>>
     ELSE PopChild(c, CHOOSE k \in call[c].todo : \A j \in call[c].todo : k <= j)
  /\ UNCHANGED <<table, tr, approval, ran, ended, file, calls, faults>>

\* The transport is closed; connect dials, close_all goes on to the next
\* session, disconnect is done.
CloseTransport(c) ==
  /\ call[c].at = "shut"
  /\ tr' = [tr EXCEPT ![call[c].s].st = "closed"]
  /\ IF call[c].op = "disconnect" THEN Return(c, "closed") /\ lock' = lock
     ELSE /\ Goto(c, [call[c] EXCEPT !.at = IF call[c].op = "close_all" THEN "all" ELSE "dial"])
          /\ UNCHANGED <<lock, answer>>
  /\ UNCHANGED <<table, listed, kid, approval, ran, ended, file, calls, faults, windows>>

\* disconnect, from the delete route: popped without the lock.
Disconnect(c, t) ==
  /\ Begin(c, "disconnect") /\ table[t] /= None
  /\ table' = [table EXCEPT ![t] = None]
  /\ Goto(c, [Idle EXCEPT !.op = "disconnect", !.tgt = t, !.s = table[t], !.at = "kids", !.todo = ChildrenOf(table[t])])
  /\ UNCHANGED <<tr, listed, kid, lock, approval, ran, ended, file, faults, windows>>

\* close_all at shutdown: over the sessions of the table as it was.
CloseAll(c) ==
  /\ Begin(c, "close_all")
  /\ Goto(c, [Idle EXCEPT !.op = "close_all", !.at = "all", !.rest = {table[t] : t \in Targets} \ {None}])
  /\ UNCHANGED <<net, lock, approval, ran, ended, file, faults, windows>>

NextToClose(c) ==
  /\ call[c].at = "all" /\ call[c].rest /= {}
  /\ LET s == CHOOSE r \in call[c].rest : TRUE
     IN Goto(c, [call[c] EXCEPT !.s = s, !.rest = @ \ {s}, !.at = "kids", !.todo = ChildrenOf(s)])
  /\ UNCHANGED <<net, lock, approval, ran, ended, file, answer, calls, faults, windows>>

\* Both tables are cleared, with whatever has been registered since.
ClearTables(c) ==
  /\ call[c].at = "all" /\ call[c].rest = {}
  /\ table' = [t \in Targets |-> None] /\ listed' = {}
  /\ windows' = windows \cup (IF \E s \in Sessions : tr[s].st \in {"open", "dead"} THEN {"late"} ELSE {})
  /\ Return(c, "closed")
  /\ UNCHANGED <<tr, kid, lock, approval, ran, ended, file, calls, faults>>

-----------------------------------------------------------------------------
(* Container children.                                                     *)

\* The route checks the host session, project, service and container name.
Spawn(c, t) ==
  /\ Begin(c, "spawn") /\ table[t] /= None
  /\ Cardinality({d \in Callers : call[d].at = "open"}) < Cardinality({k \in Children : kid[k].st = "unborn"})
  /\ Goto(c, [Idle EXCEPT !.op = "spawn", !.tgt = t, !.s = table[t], !.at = "open"])
  /\ UNCHANGED <<net, lock, approval, ran, ended, file, faults, windows>>

\* open_process returns, and the child is listed under its host.
OpenChild(c, k) ==
  /\ call[c].at = "open" /\ kid[k].st = "unborn" /\ \A j \in Children : j < k => kid[j].st /= "unborn"
  /\ LET s == call[c].s
     IN IF tr[s].st = "open"
        THEN /\ kid' = [kid EXCEPT ![k] = [host |-> s, st |-> "open"]]
             /\ listed' = listed \cup {k}
             /\ windows' = windows \cup (IF \E t \in Targets : table[t] = s /\ Closers(s) = {} THEN {} ELSE {"orphan"})
             /\ Return(c, "spawned")
        ELSE Return(c, "failed") /\ UNCHANGED <<kid, listed, windows>>
  /\ UNCHANGED <<table, tr, lock, approval, ran, ended, file, calls, faults>>

\* close_container_session.
CloseChild(c, k) ==
  /\ Begin(c, "close_child") /\ k \in listed
  /\ listed' = listed \ {k} /\ kid' = [kid EXCEPT ![k].st = "closed"]
  /\ UNCHANGED <<table, tr, lock, call, approval, ran, ended, file, faults, windows>>

-----------------------------------------------------------------------------
(* The guarded command: Gateway.shell, docker_action and their tools.      *)

\* Without an approval one is requested and nothing runs.
RequestApproval(c) ==
  /\ Begin(c, "command") /\ approval = "none"
  /\ approval' = "pending"
  /\ UNCHANGED <<net, lock, call, ran, ended, file, faults, windows>>

Approve ==
  /\ approval = "pending" /\ approval' = "approved"
  /\ UNCHANGED <<net, lock, call, ran, ended, file, answer, calls, faults, windows>>

\* consume: one call wins.
Consume(c) == approval = "approved" /\ approval' = "consumed"

\* The approval is spent before the session is opened.
StartCommand(c, t) ==
  /\ Begin(c, "command")
  /\ Consume(c)
  /\ Goto(c, [Idle EXCEPT !.op = "command", !.tgt = t, !.at = "lock"])
  /\ UNCHANGED <<net, lock, ran, ended, file, faults, windows>>

\* The tools that run it: shell_exec reads a shell up to a marker, the docker
\* actions run one argv.
Kinds == {"shell", "docker"}

\* How waiting for the command ends: with exit status zero or another one, out
\* of time, by a lost connection, or by a channel that ends without a status.
Endings == {"done", "nonzero", "timeout", "lost", "eof"}

\* The endings at which the command's own end has been seen.
Seen == {"done", "nonzero"}

\* Mutant: a timeout is a failure.
AllFailures(kind, how) == {IF how = "done" THEN "done" ELSE "failed"}

\* What the tool may report.  A timeout is uncertain.  A lost connection is
\* uncertain to run_argv, but no error of a shell's read is mapped, and what is
\* not mapped is a failure.  Every other status is a failure, the missing one
\* too, unless what docker wrote reads like a timeout or a refused connection.
Reported(kind, how) ==
  CASE how = "done" -> {"done"}
    [] how = "timeout" -> {"uncertain"}
    [] how = "lost" -> {IF kind = "docker" THEN "uncertain" ELSE "failed"}
    [] OTHER -> {"failed"} \cup (IF kind = "docker" THEN {"uncertain"} ELSE {})

\* The windows: a channel that ended without a status, and a shell cut off.
CutOff(kind, how) ==
  (IF how = "eof" THEN {"eof"} ELSE {}) \cup (IF kind = "shell" /\ how = "lost" THEN {"cut"} ELSE {})

\* open_shell and execute, or run_argv: the command begins, and ends within
\* its time or not.
RunCommand(c, kind, how) ==
  /\ call[c].at = "have" /\ call[c].op = "command" /\ tr[call[c].s].st = "open"
  /\ how \notin Seen => faults < MaxFaults
  /\ faults' = IF how \in Seen THEN faults ELSE faults + 1
  /\ ran' = ran + 1
  /\ ended' = IF how \in Seen THEN how ELSE "unseen"
  /\ \E a \in Reported(kind, how) : Return(c, a)
  /\ windows' = windows \cup CutOff(kind, how)
  /\ UNCHANGED <<net, lock, approval, file, calls>>

-----------------------------------------------------------------------------
(* Reading a file in host scope.                                           *)

\* authorize: the resolved path is compared with the root of the path.
Authorize(c, canon) ==
  IF canon = "out" THEN Return(c, "denied")
  ELSE Goto(c, [call[c] EXCEPT !.at = "lstat", !.canon = canon]) /\ UNCHANGED answer

Realpath(c) ==
  /\ call[c].at = "have" /\ call[c].op = "read" /\ tr[call[c].s].st = "open"
  /\ Authorize(c, IF file = "link" THEN "out" ELSE "in")
  /\ UNCHANGED <<net, lock, approval, ran, ended, file, calls, faults, windows>>

\* The resolved path itself is no link.
NowLink(c) == call[c].canon = "in" /\ file = "link"

Lstat(c) ==
  /\ call[c].at = "lstat" /\ tr[call[c].s].st = "open"
  /\ IF NowLink(c) THEN Return(c, "denied") ELSE Goto(c, [call[c] EXCEPT !.at = "body"]) /\ UNCHANGED answer
  /\ UNCHANGED <<net, lock, approval, ran, ended, file, calls, faults, windows>>

\* read_bytes.
ReadBody(c) ==
  /\ call[c].at = "body" /\ tr[call[c].s].st = "open"
  /\ Return(c, IF call[c].canon = "out" \/ NowLink(c) THEN "outside" ELSE "inside")
  /\ UNCHANGED <<net, lock, approval, ran, ended, file, calls, faults, windows>>

\* A tool finds its transport gone.
ToolFails(c) ==
  /\ call[c].at \in {"have", "lstat", "body"} /\ call[c].op /= "connect" /\ tr[call[c].s].st /= "open"
  /\ Return(c, "failed")
  /\ UNCHANGED <<net, lock, approval, ran, ended, file, calls, faults, windows>>

\* The connect route answers with the session.
Answer(c) ==
  /\ call[c].at = "have" /\ call[c].op = "connect"
  /\ Return(c, "connected")
  /\ UNCHANGED <<net, lock, approval, ran, ended, file, calls, faults, windows>>

-----------------------------------------------------------------------------
(* The host.                                                               *)

Lose(s) ==
  /\ tr[s].st = "open" /\ faults < MaxFaults /\ faults' = faults + 1
  /\ tr' = [tr EXCEPT ![s].st = "dead"]
  /\ UNCHANGED <<table, listed, kid, lock, call, approval, ran, ended, file, answer, calls, windows>>

\* Somebody puts a link out of the root in place of the file, or back.
Swap ==
  /\ faults < MaxFaults /\ faults' = faults + 1
  /\ file' = IF file = "plain" THEN "link" ELSE "plain"
  /\ windows' = windows \cup (IF \E c \in Callers : call[c].at \in {"lstat", "body"} THEN {"swapped"} ELSE {})
  /\ UNCHANGED <<net, lock, call, approval, ran, ended, answer, calls>>

-----------------------------------------------------------------------------
Init ==
  /\ table = [t \in Targets |-> None] /\ tr = [s \in Sessions |-> [tgt |-> Idle.tgt, st |-> "unborn"]]
  /\ listed = {} /\ kid = [k \in Children |-> [host |-> None, st |-> "unborn"]]
  /\ lock = [t \in Targets |-> None] /\ call = [c \in Callers |-> Idle]
  /\ approval = "none" /\ ran = 0 /\ ended = "none" /\ file = "plain" /\ answer = [c \in Callers |-> "none"]
  /\ calls = 0 /\ faults = 0 /\ windows = {}

\* A call that has begun goes on.
Step(c) ==
  \/ FindLive(c) \/ Lock(c) \/ Probe(c) \/ (\E s \in Sessions : Dial(c, s)) \/ DialFails(c)
  \/ CloseChildren(c) \/ CloseTransport(c) \/ NextToClose(c) \/ ClearTables(c)
  \/ (\E k \in Children : OpenChild(c, k))
  \/ (\E kind \in Kinds, how \in Endings : RunCommand(c, kind, how))
  \/ Realpath(c) \/ Lstat(c) \/ ReadBody(c) \/ ToolFails(c) \/ Answer(c)

Next ==
  \/ \E c \in Callers :
       \/ Step(c) \/ CloseAll(c) \/ RequestApproval(c)
       \/ \E t \in Targets :
            \/ StartTool(c, "read", t) \/ ConnectRoute(c, t) \/ Disconnect(c, t) \/ Spawn(c, t)
            \/ StartCommand(c, t)
       \/ \E k \in Children : CloseChild(c, k)
  \/ Approve \/ (\E s \in Sessions : Lose(s)) \/ Swap

Spec == Init /\ [][Next]_vars

\* Every await of a call returns, and the lock is handed on in turn.
FairSpec == Spec /\ \A c \in Callers : WF_vars(Step(c)) /\ SF_vars(Lock(c))

-----------------------------------------------------------------------------
TypeOK ==
  /\ table \in [Targets -> Sessions \cup {None}] /\ tr \in [Sessions -> HostSession]
  /\ listed \subseteq Children /\ kid \in [Children -> ContainerSession]
  /\ lock \in [Targets -> Callers \cup {None}]
  /\ \A c \in Callers : call[c].at \in {"probe", "kids", "shut", "have", "open", "lstat", "body"} => call[c].s \in Sessions
  /\ approval \in {"none", "pending", "approved", "consumed"} /\ ran \in 0..MaxCalls /\ file \in {"plain", "link"}
  /\ ended \in Seen \cup {"none", "unseen"}
  /\ calls \in 0..MaxCalls /\ faults \in 0..MaxFaults
  /\ windows \subseteq {"torn", "keyerror", "late", "orphan", "eof", "cut", "swapped"}

\* One session per target: a transport this process has opened and not closed
\* is the registered one of its target, or a call is closing it.  Two connects
\* never open two.  Exceptions: a child popped by two calls, and a connect
\* that ends while everything is being closed.
NoStrayTransport ==
  windows \cap {"keyerror", "late"} = {} =>
    \A s \in Sessions : tr[s].st \in {"open", "dead"} => table[tr[s].tgt] = s \/ Closers(s) /= {}
                          \/ \E c \in Callers : call[c].op = "close_all" /\ s \in call[c].rest

\* A listed child has a host that is registered or being closed; no child
\* outlives the session it was opened in.  Exception: open_process returned
\* after its host session was popped.
ChildHasHost ==
  windows \cap {"keyerror", "late", "orphan"} = {} =>
    \A k \in listed : (\E t \in Targets : table[t] = kid[k].host) \/ Closers(kid[k].host) /= {}

\* A session that connect hands out is the target's registered one, and not
\* one that this process has closed, unless a disconnect or a close came
\* between the probe and the answer.
HandsOutRegistered ==
  [][\A c \in Callers :
       call[c].at /= "have" /\ call'[c].at = "have" /\ "torn" \notin windows' =>
         /\ table'[call[c].tgt] = call'[c].s
         /\ tr'[call'[c].s].st = "open" /\ tr'[call'[c].s].tgt = call[c].tgt]_vars

\* One approval begins one command, however many calls present it.
ApprovalRunsOnce == ran <= 1 /\ (ran = 1 => approval = "consumed")

\* A guarded command that has begun is reported as failed only when it was seen
\* to fail, and as done only when it was seen to succeed: one whose end nobody
\* saw stops the run as uncertain, and the run does not go on as if nothing had
\* happened.  Exceptions: a channel that ended without a status, and a shell
\* whose connection was lost while it was read.
StartedIsNotFailed ==
  [][\A c \in Callers : ran' > ran /\ call[c] /= call'[c] /\ windows' \cap {"eof", "cut"} = {} =>
       /\ answer'[c] = "failed" => ended' = "nonzero"
       /\ answer'[c] = "done" => ended' = "done"]_vars

\* No read returns what lies outside the roots, unless the path changed under
\* the read after it had been authorised.
ReadsStayInside == "swapped" \notin windows => \A c \in Callers : answer[c] /= "outside"

\* Every call ends: no call keeps a lock that others wait for.
CallsEnd == \A c \in Callers : call[c].at /= "idle" ~> call[c].at = "idle"

\* Every transport and every container process that is open has an owner that
\* will close it.
SessionsOwned ==
  /\ TypeOK
  /\ NoStrayTransport
  /\ ChildHasHost

\* What a call is answered is so: the session is the registered one, a command
\* that began is not called failed, the approval it spent paid for it alone, and
\* a read stayed inside the roots.
AnswersHold ==
  /\ HandsOutRegistered
  /\ StartedIsNotFailed
  /\ [](ApprovalRunsOnce /\ ReadsStayInside)

=============================================================================
