----------------------------- MODULE Operations -----------------------------
(***************************************************************************)
(* Durable operations: the SQLite rows of operations/store.py, the         *)
(* worker pool of operations/dispatcher.py, the startup classification of  *)
(* operations/recovery.py and the shutdown sweep.  Rows survive a crash;   *)
(* the worker pool, its serialization keys and the handlers do not.        *)
(*                                                                         *)
(* The event loop is single threaded, so code between two awaits is one    *)
(* action, except where the process can die between two SQLite commits:    *)
(* there the commits are actions of their own, and only the death of the   *)
(* process can come between them (LoopFree).                               *)
(***************************************************************************)
EXTENDS Naturals, Sequences, FiniteSets

CONSTANTS
  Ops,          \* operation ids
  Workers,      \* worker coroutines of the pool
  Sessions,     \* agent session ids
  Targets,      \* target ids
  SessionTarget, \* agent_sessions.target_id, fixed when the session is created
  Invs,         \* investigation ids
  None,         \* the null of every optional column
  ScanLimit,    \* list_queued(limit=...), 100 in the dispatcher
  MaxRestarts,  \* bound on crashes and orderly stops
  MaxFaults     \* bound on failed event appends

ASSUME NoneAssumption ==
  None \notin Ops \cup Sessions \cup Targets \cup Invs
ASSUME SessionTargetAssumption ==
  SessionTarget \in [Sessions -> Targets]
ASSUME BoundsAssumption ==
  ScanLimit \in Nat \ {0} /\ MaxRestarts \in Nat /\ MaxFaults \in Nat

VARIABLES
  status,       \* operations.status, or "absent" before the INSERT
  attr,         \* the immutable columns of a row
  openAttempts, \* operation_attempts rows still in status 'running'
  created,      \* ids in created_at order
  invStatus,    \* what recovery reads about each investigation and its runs
  sessionInv,   \* agent_sessions.investigation_id
  phase,        \* life cycle of the process and of the dispatcher in it
  todo,         \* rows the running recovery or sweep has still to classify
  wk,           \* each worker coroutine: what it does, and for which operation
  activeSessions, activeTargets,  \* the dispatcher's serialization keys
  restarts, faults,               \* used against MaxRestarts and MaxFaults
  begun, returned, interrupted    \* history: handler runs begun, ended, killed

rowVars  == <<status, attr, openAttempts, created>>
invVars  == <<invStatus, sessionInv>>
keyVars  == <<activeSessions, activeTargets>>
histVars == <<begun, returned, interrupted>>
vars     == <<rowVars, invVars, phase, todo, wk, keyVars, restarts, faults,
              histVars>>

Kinds      == {"agent_message", "target_test", "investigation_start",
               "rollback", "report_generate"}
Registered == {"agent_message", "rollback", "target_test"}
Dangerous  == {"rollback"}
AgentKinds == {"agent_message", "investigation_start"}
Terminal   == {"succeeded", "failed", "cancelled", "uncertain"}
Live       == {"queued", "running", "cancel_requested"}
Status     == Terminal \cup Live

\* OPERATION_TRANSITIONS; a terminal status has no successor.
Transitions ==
  [s \in Status |->
     CASE s = "queued"  -> {"running", "cancel_requested", "cancelled"}
       [] s = "running" -> {"succeeded", "failed", "cancel_requested",
                            "uncertain"}
       [] s = "cancel_requested" -> {"cancelled", "failed", "uncertain"}
       [] OTHER -> {}]

Attr == [kind: Kinds, session: Sessions \cup {None}, target: Targets \cup {None},
         action: {"message", "resume"}, inv: Invs \cup {None}]
NoAttr == [kind |-> "target_test", session |-> None, target |-> None,
           action |-> "message", inv |-> None]

\* The two terminal outcomes of an investigation, the same two outcomes while
\* only its runs are terminal, and an investigation that is still going.
InvStatus   == {"unused", "live", "runs_ok", "runs_bad", "completed", "failed"}
InvTerminal == {"completed", "failed"}

Idle == [st |-> "idle", op |-> None]
Dead == [st |-> "dead", op |-> None]
Busy == {"claimed", "working", "unwinding"}

TypeOK ==
  /\ status \in [Ops -> Status \cup {"absent"}]
  /\ attr \in [Ops -> Attr]
  /\ openAttempts \in [Ops -> Nat]
  /\ created \in Seq(Ops)
  /\ invStatus \in [Invs -> InvStatus]
  /\ sessionInv \in [Sessions -> Invs \cup {None}]
  /\ phase \in {"down", "recovering", "active", "draining", "cancelling",
                "sweeping"}
  /\ todo \subseteq Ops
  /\ wk \in [Workers -> [st: Busy \cup {"idle", "dead"}, op: Ops \cup {None}]]
  /\ activeSessions \subseteq Sessions
  /\ activeTargets \subseteq Targets
  /\ restarts \in 0..MaxRestarts /\ faults \in 0..MaxFaults
  /\ begun \in [Ops -> Nat]
  /\ returned \in [Ops -> {"no", "ok", "error"}]
  /\ interrupted \in [Ops -> BOOLEAN]

Init ==
  /\ status = [o \in Ops |-> "absent"]
  /\ attr = [o \in Ops |-> NoAttr]
  /\ openAttempts = [o \in Ops |-> 0]
  /\ created = <<>>
  /\ invStatus = [i \in Invs |-> "unused"]
  /\ sessionInv = [s \in Sessions |-> None]
  /\ phase = "down"
  /\ todo = {}
  /\ wk = [w \in Workers |-> Idle]
  /\ activeSessions = {} /\ activeTargets = {}
  /\ restarts = 0 /\ faults = 0
  /\ begun = [o \in Ops |-> 0]
  /\ returned = [o \in Ops |-> "no"]
  /\ interrupted = [o \in Ops |-> FALSE]

-----------------------------------------------------------------------------
(* The store: conditional updates of one row. *)

\* OperationStore.transition: the move is validated against the status just
\* read, and a terminal move closes every open attempt in the same transaction.
MoveTo(o, target) ==
  /\ target \in Transitions[status[o]]
  /\ status' = [status EXCEPT ![o] = target]
  /\ openAttempts' = [openAttempts EXCEPT
                        ![o] = IF target \in Terminal THEN 0 ELSE @]

\* OperationStore.requeue: only a running row goes back to the queue.  The
\* attempt row of the interrupted run is not closed.
Requeue(o) ==
  /\ status[o] = "running"
  /\ status' = [status EXCEPT ![o] = "queued"]
  /\ UNCHANGED openAttempts

-----------------------------------------------------------------------------
(* The API, served while the dispatcher is active. *)

\* OperationService.create_operation, called with the columns the routes use:
\* agent messages belong to a session and carry its current investigation;
\* rollbacks and target tests carry neither.
Enqueue(o) ==
  /\ phase = "active" /\ status[o] = "absent"
  /\ \/ \E s \in Sessions, a \in {"message", "resume"} :
          attr' = [attr EXCEPT ![o] =
                     [kind |-> "agent_message", session |-> s, action |-> a,
                      target |-> SessionTarget[s], inv |-> sessionInv[s]]]
     \/ \E k \in {"rollback", "target_test"}, t \in Targets :
          attr' = [attr EXCEPT ![o] =
                     [kind |-> k, session |-> None, action |-> "message",
                      target |-> t, inv |-> None]]
  /\ status' = [status EXCEPT ![o] = "queued"]
  /\ created' = Append(created, o)
  /\ UNCHANGED <<openAttempts, invVars, phase, todo, wk, keyVars, restarts,
                 faults, histVars>>

\* OperationService.cancel.  A repeated cancel and a cancel of a finished row
\* change nothing, so only the two moving cases are steps.
Cancel(o) ==
  /\ phase = "active"
  /\ \/ status[o] = "queued" /\ MoveTo(o, "cancelled")
     \/ status[o] = "running" /\ MoveTo(o, "cancel_requested")
  /\ UNCHANGED <<attr, created, invVars, phase, todo, wk, keyVars, restarts,
                 faults, histVars>>

-----------------------------------------------------------------------------
(* The worker pool. *)

\* Mutant: the operations of a session are not serialized.
BlockedIgnoringSessions(o) ==
  attr[o].kind \in Dangerous /\ attr[o].target \in activeTargets
\* _serialization_blocked: one operation per session, one rollback per target.
SerializationBlocked(o) ==
  \/ attr[o].session \in activeSessions
  \/ attr[o].kind \in Dangerous /\ attr[o].target \in activeTargets

\* Position of a row among the queued rows, oldest first.
QueuePosition(o) ==
  Cardinality({j \in 1..Len(created) :
     /\ status[created[j]] = "queued"
     /\ \E i \in j..Len(created) : created[i] = o})

\* The rows _claim_next can take in this scan: queued, within the scan limit,
\* of a registered kind, and not serialized behind a running operation.
Claimable(o) ==
  /\ status[o] = "queued"
  /\ QueuePosition(o) <= ScanLimit
  /\ attr[o].kind \in Registered
  /\ ~SerializationBlocked(o)

NextClaim(o) ==
  /\ Claimable(o)
  /\ \A p \in Ops : Claimable(p) => QueuePosition(o) <= QueuePosition(p)

\* Mutant: the session key is taken without the null check.
SessionKeyNoNullCheck(o) == {attr[o].session}
\* The keys _claim_next takes and _release gives back.
SessionKey(o) == {attr[o].session} \ {None}
TargetKey(o)  == IF attr[o].kind \in Dangerous THEN {attr[o].target} ELSE {}

\* OperationStore.claim commits the row and the attempt together.
ClaimRow(o) ==
  /\ status' = [status EXCEPT ![o] = "running"]
  /\ openAttempts' = [openAttempts EXCEPT ![o] = @ + 1]

\* _claim_next: the first eligible row of the scan, under the selection lock.
Claim(w, o) ==
  /\ phase = "active" /\ wk[w] = Idle /\ NextClaim(o)
  /\ ClaimRow(o)
  /\ wk' = [wk EXCEPT ![w] = [st |-> "claimed", op |-> o]]
  /\ activeSessions' = activeSessions \cup SessionKey(o)
  /\ activeTargets' = activeTargets \cup TargetKey(o)
  /\ UNCHANGED <<attr, created, invVars, phase, todo, restarts, faults,
                 histVars>>

\* OperationService.claim publishes after the commit.  When the event append
\* raises, the exception leaves _claim_next before the keys are taken and ends
\* the worker coroutine; nobody respawns it.
ClaimPublishFails(w, o) ==
  /\ faults < MaxFaults
  /\ phase = "active" /\ wk[w] = Idle /\ NextClaim(o)
  /\ ClaimRow(o)
  /\ wk' = [wk EXCEPT ![w] = Dead]
  /\ faults' = faults + 1
  /\ UNCHANGED <<attr, created, invVars, phase, todo, keyVars, restarts,
                 histVars>>

\* _release, in the finally of _execute.
Release(w, next) ==
  /\ wk' = [wk EXCEPT ![w] = next]
  /\ activeSessions' = activeSessions \ SessionKey(wk[w].op)
  /\ activeTargets' = activeTargets \ TargetKey(wk[w].op)

\* The end of _execute for a handler that returned or raised.  A success that
\* meets a cancel_requested row is an IllegalTransition, which the generic
\* except turns into FAILED.
Outcome(o, result) ==
  IF result = "ok" /\ status[o] = "running" THEN "succeeded" ELSE "failed"

Finalise(w, result) ==
  LET o == wk[w].op IN
  /\ MoveTo(o, Outcome(o, result))
  /\ returned' = [returned EXCEPT ![o] = result]

\* The session has no investigation to continue.
NeedsInvestigation(s) ==
  IF sessionInv[s] = None THEN TRUE ELSE invStatus[sessionInv[s]] \in InvTerminal

\* The synchronous prologue of a handler.  An agent message creates and binds a
\* fresh investigation when its session has none or a finished one; a resume
\* then raises.  The other handlers go straight to their remote work.
BeginWork(w) ==
  LET o == wk[w].op
      s == attr[o].session
      agent == attr[o].kind = "agent_message"
  IN
  /\ wk[w].st = "claimed"
  /\ \/ /\ agent /\ NeedsInvestigation(s) /\ attr[o].action = "message"
        /\ \E i \in Invs :
             /\ invStatus[i] = "unused"
             /\ invStatus' = [invStatus EXCEPT ![i] = "live"]
             /\ sessionInv' = [sessionInv EXCEPT ![s] = i]
     \/ ~(agent /\ NeedsInvestigation(s)) /\ UNCHANGED invVars
  /\ wk' = [wk EXCEPT ![w] = [st |-> "working", op |-> o]]
  /\ begun' = [begun EXCEPT ![o] = @ + 1]
  /\ UNCHANGED <<rowVars, phase, todo, keyVars, restarts, faults, returned,
                 interrupted>>

ResumeRefused(w) ==
  LET o == wk[w].op
      s == attr[o].session
  IN
  /\ wk[w].st = "claimed"
  /\ attr[o].kind = "agent_message" /\ attr[o].action = "resume"
  /\ NeedsInvestigation(s)
  /\ Finalise(w, "error")
  /\ Release(w, Idle)
  /\ UNCHANGED <<attr, created, invVars, phase, todo, restarts, faults, begun,
                 interrupted>>

\* The handler returns (with or without an error code) or raises.
FinishHandler(w, result) ==
  /\ wk[w].st = "working"
  /\ Finalise(w, result)
  /\ Release(w, Idle)
  /\ UNCHANGED <<attr, created, invVars, phase, todo, restarts, faults, begun,
                 interrupted>>

\* The FAILED row is committed but its event append raises inside
\* _safe_transition_failed: the keys are released and the worker ends.  (When
\* the append of the first transition raises, the second one is illegal on the
\* terminal row and is swallowed: that is FinishHandler.)
FinishPublishFails(w, result) ==
  /\ faults < MaxFaults
  /\ wk[w].st = "working"
  /\ Outcome(wk[w].op, result) = "failed"
  /\ Finalise(w, result)
  /\ Release(w, Dead)
  /\ faults' = faults + 1
  /\ UNCHANGED <<attr, created, invVars, phase, todo, restarts, begun,
                 interrupted>>

\* The investigation stack, seen from here: its runs end, it ends, or a new
\* run of a session message makes it live again.
Settle(i) ==
  /\ phase # "down"
  /\ \/ /\ invStatus[i] \in {"live", "runs_ok", "runs_bad"}
        /\ \E t \in InvTerminal : invStatus' = [invStatus EXCEPT ![i] = t]
     \/ /\ invStatus[i] = "live"
        /\ \E r \in {"runs_ok", "runs_bad"} :
             invStatus' = [invStatus EXCEPT ![i] = r]
     \/ /\ invStatus[i] \in {"runs_ok", "runs_bad"}
        /\ \E w \in Workers : wk[w].st = "working" /\ attr[wk[w].op].session # None
                             /\ sessionInv[attr[wk[w].op].session] = i
        /\ invStatus' = [invStatus EXCEPT ![i] = "live"]
  /\ UNCHANGED <<rowVars, sessionInv, phase, todo, wk, keyVars, restarts,
                 faults, histVars>>

-----------------------------------------------------------------------------
(* Startup, orderly stop, crash. *)

NonTerminal == {o \in Ops : status[o] \in Live}

\* dispatcher.start(): recovery lists the non-terminal rows before any claim.
BeginRecovery ==
  /\ phase = "down"
  /\ phase' = "recovering"
  /\ todo' = NonTerminal
  /\ UNCHANGED <<rowVars, invVars, wk, keyVars, restarts, faults, histVars>>

\* _reconcile_agent_kind, on the investigation recorded in the row.
Reconcile(o) ==
  LET i == attr[o].inv IN
  \/ i = None /\ MoveTo(o, "failed")
  \/ i # None /\ invStatus[i] \in {"completed", "runs_ok"} /\ MoveTo(o, "succeeded")
  \/ i # None /\ invStatus[i] \in {"failed", "runs_bad"} /\ MoveTo(o, "failed")
  \/ i # None /\ invStatus[i] = "live" /\ Requeue(o)

LeaveRow == UNCHANGED <<status, openAttempts>>

\* Mutants: a running rollback is treated as read-only work; a running target
\* test is left as it is.
ClassifyReplaysRollback(o) ==
  \/ status[o] = "queued" /\ LeaveRow
  \/ status[o] = "cancel_requested" /\ MoveTo(o, "cancelled")
  \/ status[o] = "running" /\ Requeue(o)
ClassifySkipsTargetTest(o) ==
  \/ status[o] = "queued" /\ LeaveRow
  \/ status[o] = "cancel_requested" /\ MoveTo(o, "cancelled")
  \/ /\ status[o] = "running"
     /\ \/ attr[o].kind \in Dangerous /\ MoveTo(o, "uncertain")
        \/ attr[o].kind \in AgentKinds /\ Reconcile(o)
        \/ attr[o].kind \notin Dangerous \cup AgentKinds /\ LeaveRow

\* OperationRecovery._classify, one row per commit.
Classify(o) ==
  \/ status[o] = "queued" /\ LeaveRow
  \/ status[o] = "cancel_requested" /\ MoveTo(o, "cancelled")
  \/ /\ status[o] = "running"
     /\ \/ attr[o].kind \in Dangerous /\ MoveTo(o, "uncertain")
        \/ attr[o].kind \in AgentKinds /\ Reconcile(o)
        \/ attr[o].kind \notin Dangerous \cup AgentKinds /\ Requeue(o)

RecoverRow(o) ==
  /\ phase = "recovering" /\ o \in todo
  /\ Classify(o)
  /\ todo' = todo \ {o}
  /\ UNCHANGED <<attr, created, invVars, phase, wk, keyVars, restarts, faults,
                 histVars>>

StartWorkers ==
  /\ phase = "recovering" /\ todo = {}
  /\ phase' = "active"
  /\ UNCHANGED <<rowVars, invVars, todo, wk, keyVars, restarts, faults,
                 histVars>>

\* stop(): no more claims; in-flight handlers drain within the grace period.
BeginStop ==
  /\ phase = "active" /\ restarts < MaxRestarts
  /\ phase' = "draining"
  /\ restarts' = restarts + 1
  /\ UNCHANGED <<rowVars, invVars, todo, wk, keyVars, faults, histVars>>

\* The grace period ends: every pending worker task is cancelled.
GraceExpires ==
  /\ phase = "draining"
  /\ \E w \in Workers : wk[w].st \in Busy
  /\ phase' = "cancelling"
  /\ wk' = [w \in Workers |->
              IF wk[w].st \in Busy THEN [st |-> "unwinding", op |-> wk[w].op]
              ELSE wk[w]]
  /\ interrupted' = [o \in Ops |-> interrupted[o] \/
                       \E w \in Workers : wk[w].st = "working" /\ wk[w].op = o]
  /\ UNCHANGED <<rowVars, invVars, todo, keyVars, restarts, faults, begun,
                 returned>>

\* CancelledError passes through _execute: keys released, row left as it is.
Unwind(w) ==
  /\ wk[w].st = "unwinding"
  /\ Release(w, Idle)
  /\ UNCHANGED <<rowVars, invVars, phase, todo, restarts, faults, histVars>>

\* Mutant: stop() sweeps without awaiting the cancelled workers.
BeginSweepAtOnce ==
  /\ phase \in {"draining", "cancelling"}
  /\ phase' = "sweeping"
  /\ todo' = {o \in NonTerminal : status[o] = "running"}
  /\ UNCHANGED <<rowVars, invVars, wk, keyVars, restarts, faults, histVars>>

\* stop() sweeps once every worker task has ended.
BeginSweep ==
  /\ phase \in {"draining", "cancelling"}
  /\ \A w \in Workers : wk[w].st \notin Busy
  /\ phase' = "sweeping"
  /\ todo' = {o \in NonTerminal : status[o] = "running"}
  /\ UNCHANGED <<rowVars, invVars, wk, keyVars, restarts, faults, histVars>>

\* _sweep_running: a rollback is parked, every other running row is requeued.
SweepRow(o) ==
  /\ phase = "sweeping" /\ o \in todo
  /\ IF attr[o].kind = "rollback" THEN MoveTo(o, "uncertain") ELSE Requeue(o)
  /\ todo' = todo \ {o}
  /\ UNCHANGED <<attr, created, invVars, phase, wk, keyVars, restarts, faults,
                 histVars>>

\* Everything that lives in memory is gone.
Lost ==
  /\ phase' = "down"
  /\ todo' = {}
  /\ wk' = [w \in Workers |-> Idle]
  /\ activeSessions' = {} /\ activeTargets' = {}

Exit ==
  /\ phase = "sweeping" /\ todo = {}
  /\ Lost
  /\ UNCHANGED <<rowVars, invVars, restarts, faults, histVars>>

Crash ==
  /\ phase # "down" /\ restarts < MaxRestarts
  /\ Lost
  /\ restarts' = restarts + 1
  /\ interrupted' = [o \in Ops |-> interrupted[o] \/
                       \E w \in Workers : wk[w].st = "working" /\ wk[w].op = o]
  /\ UNCHANGED <<rowVars, invVars, faults, begun, returned>>

-----------------------------------------------------------------------------
\* No worker is between the commit of its claim and its handler's first await:
\* nothing awaits there, so no other coroutine can run.
LoopFree == \A w \in Workers : wk[w].st # "claimed"

Prologue(w) == BeginWork(w) \/ ResumeRefused(w)

WorkerStep(w) ==
  \/ \E o \in Ops : Claim(w, o) \/ ClaimPublishFails(w, o)
  \/ \E r \in {"ok", "error"} : FinishHandler(w, r) \/ FinishPublishFails(w, r)
  \/ Unwind(w)

Lifecycle ==
  \/ BeginRecovery \/ StartWorkers \/ GraceExpires \/ BeginSweep \/ Exit
  \/ \E o \in Ops : RecoverRow(o) \/ SweepRow(o)

Next ==
  \/ \E w \in Workers : Prologue(w)
  \/ LoopFree /\ \E w \in Workers : WorkerStep(w)
  \/ LoopFree /\ \E o \in Ops : Enqueue(o) \/ Cancel(o)
  \/ LoopFree /\ \E i \in Invs : Settle(i)
  \/ LoopFree /\ (Lifecycle \/ BeginStop)
  \/ Crash

Spec == Init /\ [][Next]_vars

\* Coroutines that can run do run, handlers end (their remote calls carry
\* timeouts), and a supervisor starts the process again.  Nothing else is fair:
\* no client has to call, and no investigation has to settle.
Fairness ==
  /\ \A w \in Workers : /\ WF_vars(Prologue(w))
                         /\ WF_vars(LoopFree /\ WorkerStep(w))
  /\ WF_vars(LoopFree /\ Lifecycle)

FairSpec == Spec /\ Fairness

-----------------------------------------------------------------------------
(* Properties. *)

Executing(w) == wk[w].st \in Busy

\* The handler of a rollback is entered at most once, whatever crashes, stops,
\* cancellations and requeues happen: recovery and the shutdown sweep park it
\* (recovery.py "never auto-replayed").
RollbackRunsAtMostOnce ==
  \A o \in Ops : attr[o].kind = "rollback" => begun[o] <= 1

\* Two workers never execute operations of one session at the same time, also
\* after a requeue or a worker that died after its claim.
OneHandlerPerSession ==
  \A v, w \in Workers :
    v # w /\ Executing(v) /\ Executing(w) =>
      SessionKey(wk[v].op) \cap SessionKey(wk[w].op) = {}

\* Two rollbacks of one target never interleave their restores.
OneRollbackPerTarget ==
  \A v, w \in Workers :
    v # w /\ Executing(v) /\ Executing(w) =>
      TargetKey(wk[v].op) \cap TargetKey(wk[w].op) = {}

\* A serialization key is held exactly while some worker executes an operation
\* that needs it: none leaks, which would block its session for ever, and none
\* is released by the end of another operation.
KeysMatchHandlers ==
  LET held == {w \in Workers : Executing(w)} IN
  /\ activeSessions = UNION {SessionKey(wk[w].op) : w \in held}
  /\ activeTargets = UNION {TargetKey(wk[w].op) : w \in held}

\* What the dispatcher's keys are for: the operations of a session and the
\* rollbacks of a target are executed one at a time, and a key is held exactly
\* as long as the work it stands for.
Serialized ==
  /\ OneHandlerPerSession
  /\ OneRollbackPerTarget
  /\ KeysMatchHandlers

\* A finished row has no worker on it and no attempt left open, although
\* requeue leaves the attempt of the interrupted run open.
FinishedRowsAreQuiet ==
  \A o \in Ops : status[o] \in Terminal =>
    /\ openAttempts[o] = 0
    /\ \A w \in Workers : Executing(w) => wk[w].op # o

\* For the kinds whose outcome the dispatcher itself decides, "succeeded" means
\* the handler returned without an error, "failed" that it ended, and
\* "cancelled" or "uncertain" that it never returned.
TruthfulOutcome ==
  \A o \in Ops : attr[o].kind # "agent_message" =>
    /\ status[o] = "succeeded" => returned[o] = "ok"
    /\ status[o] = "failed" => returned[o] # "no"
    /\ status[o] \in {"cancelled", "uncertain"} => returned[o] = "no"

\* A rollback killed while it ran, whose restores may be applied in part, is never
\* queued again and never called succeeded or failed: it ends uncertain, or
\* cancelled when its cancellation was requested (_classify asks that first).
InterruptedRollbackIsUncertain ==
  \A o \in Ops : attr[o].kind = "rollback" /\ interrupted[o] =>
    status[o] \in {"running", "cancel_requested", "uncertain", "cancelled"}

\* What a row says of its operation is so: a finished row is really at rest, its
\* outcome is what the handler did, and an interrupted rollback is not said to
\* have ended.
HonestRows ==
  /\ FinishedRowsAreQuiet
  /\ TruthfulOutcome
  /\ InterruptedRollbackIsUncertain

\* Every accepted operation reaches a terminal status across crashes, stops and
\* cancellations, unless the append of an event fails: the worker then dies with
\* its claim, and only the next start of the process looks at the row again.
EveryOperationSettles ==
  \A o \in Ops : status[o] \in Live ~> (status[o] \in Terminal \/ faults > 0)

=============================================================================
