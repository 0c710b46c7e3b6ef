-------------------------- MODULE OperationsProofs --------------------------
(***************************************************************************)
(* Proofs about Operations for any number of operations, workers,          *)
(* sessions, targets, restarts and failed event appends; and, behind them, *)
(* about Idempotency, the keys under which the routes enqueue operations,  *)
(* for every set of keys, bodies and requests and for all lease and        *)
(* retention times, provided that no action outlives the lease of its      *)
(* reservation: a longer one can lose its key to the next request while it *)
(* runs.                                                                   *)
(***************************************************************************)
EXTENDS Operations, Idempotency, TLAPS

\* What a row's columns say about each other, and about the row's history.
RowsConsistent ==
  \A o \in Ops :
    /\ status[o] = "absent" => begun[o] = 0
    /\ status[o] # "absent" => attr[o].target \in Targets
    /\ attr[o].kind = "agent_message" => attr[o].session \in Sessions

\* A worker that executes something executes a row the store shows as claimed;
\* no two workers execute the same row, and none executes outside its pool.
WorkersConsistent ==
  /\ \A w \in Workers : Executing(w) =>
       /\ wk[w].op \in Ops
       /\ status[wk[w].op] \in {"running", "cancel_requested"}
       /\ phase \in {"active", "draining", "cancelling"}
  /\ \A v, w \in Workers :
       v # w /\ Executing(v) /\ Executing(w) => wk[v].op # wk[w].op

\* A rollback that can still be started has not been started before.
RollbacksFresh ==
  \A o \in Ops : attr[o].kind = "rollback" =>
    /\ begun[o] <= 1
    /\ status[o] = "queued" => begun[o] = 0
    /\ \A w \in Workers : wk[w].st = "claimed" /\ wk[w].op = o => begun[o] = 0

\* The rows a recovery or a sweep has still to classify are the ones it listed.
TodoConsistent ==
  /\ phase = "recovering" => \A o \in todo : status[o] \in Live
  /\ phase = "sweeping" => \A o \in todo : status[o] = "running"

\* The keys of every executing worker are held, and no others.
KeysHeld ==
  \A w \in Workers : Executing(w) =>
    /\ SessionKey(wk[w].op) \subseteq activeSessions
    /\ TargetKey(wk[w].op) \subseteq activeTargets
KeysNeeded ==
  /\ \A s \in activeSessions :
       \E w \in Workers : Executing(w) /\ s \in SessionKey(wk[w].op)
  /\ \A t \in activeTargets :
       \E w \in Workers : Executing(w) /\ t \in TargetKey(wk[w].op)

IInv ==
  /\ TypeOK /\ RowsConsistent /\ WorkersConsistent /\ TodoConsistent
  /\ RollbacksFresh
  /\ KeysHeld /\ KeysNeeded /\ OneHandlerPerSession /\ OneRollbackPerTarget

LEMMA InitIInv == Init => IInv
  BY NoneAssumption, BoundsAssumption
  DEF Init, IInv, TypeOK, RowsConsistent, WorkersConsistent, TodoConsistent,
      RollbacksFresh, KeysHeld, KeysNeeded, OneHandlerPerSession,
      OneRollbackPerTarget, Executing, Idle, Busy, NoAttr, Attr, Kinds, Status, Terminal, Live, InvStatus

-----------------------------------------------------------------------------
(* What the conditional updates of the store do to a row. *)

LEMMA MoveToType ==
  ASSUME TypeOK, NEW o \in Ops, NEW t \in Status, MoveTo(o, t)
  PROVE  /\ status' \in [Ops -> Status \cup {"absent"}]
         /\ openAttempts' \in [Ops -> Nat]
  BY DEF MoveTo, TypeOK

LEMMA RequeueType ==
  ASSUME TypeOK, NEW o \in Ops, Requeue(o)
  PROVE  /\ status' \in [Ops -> Status \cup {"absent"}]
         /\ openAttempts' \in [Ops -> Nat]
  BY DEF Requeue, TypeOK, Status, Live

LEMMA MoveToFacts ==
  ASSUME TypeOK, NEW o \in Ops, NEW t \in Status, status[o] # "absent",
         MoveTo(o, t)
  PROVE  /\ status' = [status EXCEPT ![o] = t]
         /\ openAttempts' \in [Ops -> Nat]
         /\ \A p \in Ops \ {o} : openAttempts'[p] = openAttempts[p]
         /\ t \in Terminal => openAttempts'[o] = 0
         /\ status[o] \in Live
         /\ t # "running" => status[o] \in {"queued", "running", "cancel_requested"}
<1>1. status[o] \in Status
  BY DEF TypeOK
<1>2. status[o] \in Live
  BY <1>1 DEF MoveTo, Transitions, Status, Live, Terminal
<1>3. QED
  BY <1>2 DEF MoveTo, TypeOK, Live

\* Recovery leaves a queued row alone, finishes a row, or requeues a running
\* row that is no rollback.
LEMMA ClassifyFacts ==
  ASSUME TypeOK, NEW o \in Ops, status[o] \in Live, Classify(o)
  PROVE  \/ status[o] = "queued" /\ UNCHANGED <<status, openAttempts>>
         \/ \E t \in Terminal : MoveTo(o, t) /\ status[o] # "queued"
         \/ Requeue(o) /\ attr[o].kind # "rollback"
<1>1. CASE Requeue(o) /\ attr[o].kind \notin Dangerous
  BY <1>1 DEF Dangerous
<1>2. CASE Reconcile(o) /\ attr[o].kind \in AgentKinds /\ status[o] = "running"
  BY <1>2 DEF Reconcile, Terminal, AgentKinds
<1>3. QED
  BY <1>1, <1>2 DEF Classify, LeaveRow, Terminal

LEMMA TypeStep ==
  TypeOK /\ RowsConsistent /\ WorkersConsistent /\ [Next]_vars => TypeOK'
<1> SUFFICES ASSUME TypeOK, RowsConsistent, WorkersConsistent, [Next]_vars
             PROVE TypeOK'
  OBVIOUS
<1> USE NoneAssumption, BoundsAssumption, SessionTargetAssumption
    DEF TypeOK, RowsConsistent, WorkersConsistent, Executing, Busy, Idle, Dead,
        Attr, Kinds, Status, Terminal, Live, InvStatus, InvTerminal, Dangerous,
        rowVars, invVars, keyVars, histVars
<1>1. ASSUME NEW w \in Workers, BeginWork(w) PROVE TypeOK'
  <2>1. wk[w].op \in Ops
    BY <1>1 DEF BeginWork
  <2>2. /\ wk' \in [Workers -> [st: Busy \cup {"idle", "dead"}, op: Ops \cup {None}]]
        /\ begun' \in [Ops -> Nat]
    BY <1>1, <2>1 DEF BeginWork
  <2>3. invStatus' \in [Invs -> InvStatus] /\ sessionInv' \in [Sessions -> Invs \cup {None}]
    <3>1. CASE UNCHANGED invVars
      BY <3>1
    <3>2. CASE attr[wk[w].op].kind = "agent_message" /\ ~UNCHANGED invVars
      <4> DEFINE s == attr[wk[w].op].session
      <4>1. s \in Sessions
        BY <3>2, <2>1
      <4>2. PICK i \in Invs : /\ invStatus' = [invStatus EXCEPT ![i] = "live"]
                              /\ sessionInv' = [sessionInv EXCEPT ![s] = i]
        BY <1>1, <3>2 DEF BeginWork
      <4>3. QED
        BY <4>1, <4>2
    <3>3. QED
      BY <1>1, <3>1, <3>2 DEF BeginWork
  <2>4. QED
    BY <1>1, <2>2, <2>3 DEF BeginWork
<1>2. ASSUME NEW w \in Workers, ResumeRefused(w) PROVE TypeOK'
  BY <1>2 DEF ResumeRefused, Finalise, MoveTo, Release, SessionKey, TargetKey, Outcome, Transitions
<1>3. ASSUME NEW w \in Workers, NEW o \in Ops, Claim(w, o) PROVE TypeOK'
  BY <1>3 DEF Claim, NextClaim, Claimable, ClaimRow, SessionKey, TargetKey
<1>4. ASSUME NEW w \in Workers, NEW o \in Ops, ClaimPublishFails(w, o) PROVE TypeOK'
  BY <1>4 DEF ClaimPublishFails, NextClaim, Claimable, ClaimRow
<1>5. ASSUME NEW w \in Workers, NEW r \in {"ok", "error"}, FinishHandler(w, r) PROVE TypeOK'
  BY <1>5 DEF FinishHandler, Finalise, MoveTo, Release, SessionKey, TargetKey, Outcome, Transitions
<1>6. ASSUME NEW w \in Workers, NEW r \in {"ok", "error"}, FinishPublishFails(w, r) PROVE TypeOK'
  BY <1>6 DEF FinishPublishFails, Finalise, MoveTo, Release, SessionKey, TargetKey, Outcome, Transitions
<1>7. ASSUME NEW w \in Workers, Unwind(w) PROVE TypeOK'
  BY <1>7 DEF Unwind, Release, SessionKey, TargetKey
<1>8. ASSUME NEW o \in Ops, Enqueue(o) PROVE TypeOK'
  <2>1. attr' \in [Ops -> Attr]
    <3>1. PICK a \in Attr : attr' = [attr EXCEPT ![o] = a]
      BY <1>8 DEF Enqueue
    <3>2. QED
      BY <3>1
  <2>2. created' \in Seq(Ops)
    BY <1>8 DEF Enqueue
  <2>3. QED
    BY <1>8, <2>1, <2>2 DEF Enqueue
<1>9. ASSUME NEW o \in Ops, Cancel(o) PROVE TypeOK'
  <2>1. status' \in [Ops -> Status \cup {"absent"}] /\ openAttempts' \in [Ops -> Nat]
    BY <1>9, MoveToType DEF Cancel
  <2>2. QED
    BY <1>9, <2>1 DEF Cancel
<1>10. ASSUME NEW i \in Invs, Settle(i) PROVE TypeOK'
  <2>1. invStatus' \in [Invs -> InvStatus]
    <3>1. PICK t \in InvStatus : invStatus' = [invStatus EXCEPT ![i] = t]
      BY <1>10 DEF Settle
    <3>2. QED
      BY <3>1
  <2>2. QED
    BY <1>10, <2>1 DEF Settle
<1>11. CASE BeginRecovery
  BY <1>11 DEF BeginRecovery, NonTerminal
<1>12. CASE StartWorkers
  BY <1>12 DEF StartWorkers
<1>13. CASE GraceExpires
  BY <1>13 DEF GraceExpires
<1>14. CASE BeginSweep
  BY <1>14 DEF BeginSweep, NonTerminal
<1>15. CASE Exit
  BY <1>15 DEF Exit, Lost
<1>16. ASSUME NEW o \in Ops, RecoverRow(o) PROVE TypeOK'
  <2>1. (\E t \in Terminal : MoveTo(o, t)) \/ Requeue(o) \/ LeaveRow
    BY <1>16, ClassifyFacts DEF RecoverRow, LeaveRow, Classify
  <2>2. status' \in [Ops -> Status \cup {"absent"}] /\ openAttempts' \in [Ops -> Nat]
    BY <2>1, MoveToType, RequeueType DEF LeaveRow
  <2>3. QED
    BY <1>16, <2>2 DEF RecoverRow
<1>17. ASSUME NEW o \in Ops, SweepRow(o) PROVE TypeOK'
  <2>1. MoveTo(o, "uncertain") \/ Requeue(o)
    BY <1>17 DEF SweepRow
  <2>2. status' \in [Ops -> Status \cup {"absent"}] /\ openAttempts' \in [Ops -> Nat]
    BY <2>1, MoveToType, RequeueType
  <2>3. QED
    BY <1>17, <2>2 DEF SweepRow
<1>18. CASE BeginStop
  BY <1>18 DEF BeginStop
<1>19. CASE Crash
  BY <1>19 DEF Crash, Lost
<1>20. CASE UNCHANGED vars
  BY <1>20 DEF vars
<1> HIDE DEF TypeOK
<1>21. QED
  BY <1>1, <1>2, <1>3, <1>4, <1>5, <1>6, <1>7, <1>8, <1>9, <1>10, <1>11, <1>12, <1>13, <1>14, <1>15, <1>16, <1>17, <1>18, <1>19, <1>20
  DEF Next, Prologue, WorkerStep, Lifecycle

-----------------------------------------------------------------------------
(* What the actions that move a row do to it. *)

LEMMA FinaliseFacts ==
  ASSUME IInv, NEW w \in Workers, NEW r \in {"ok", "error"}, Executing(w),
         Finalise(w, r)
  PROVE  /\ wk[w].op \in Ops
         /\ status[wk[w].op] \in {"running", "cancel_requested"}
         /\ \E t \in {"succeeded", "failed"} :
              status' = [status EXCEPT ![wk[w].op] = t]
  BY DEF IInv, WorkersConsistent, Finalise, MoveTo, Outcome

LEMMA RecoverFacts ==
  ASSUME IInv, NEW o \in Ops, RecoverRow(o)
  PROVE  /\ status[o] \in Live
         /\ \E t \in Status :
              /\ status' = [status EXCEPT ![o] = t]
              /\ t = "queued" => status[o] = "queued" \/ attr[o].kind # "rollback"
<1>1. TypeOK /\ status[o] \in Live /\ Classify(o)
  BY DEF IInv, TodoConsistent, RecoverRow
<1>2. CASE status[o] = "queued" /\ UNCHANGED <<status, openAttempts>>
  BY <1>1, <1>2 DEF TypeOK, Status, Live
<1>3. CASE \E t \in Terminal : MoveTo(o, t)
  BY <1>1, <1>3 DEF MoveTo, Terminal, Status
<1>4. CASE Requeue(o) /\ attr[o].kind # "rollback"
  BY <1>1, <1>4 DEF Requeue, Status, Live
<1>5. QED
  BY <1>1, <1>2, <1>3, <1>4, ClassifyFacts

LEMMA SweepFacts ==
  ASSUME IInv, NEW o \in Ops, SweepRow(o)
  PROVE  /\ status[o] = "running"
         /\ \E t \in {"queued", "uncertain"} :
              /\ status' = [status EXCEPT ![o] = t]
              /\ t = "queued" => attr[o].kind # "rollback"
<1>1. status[o] = "running"
  BY DEF IInv, TodoConsistent, SweepRow
<1>2. QED
  BY <1>1 DEF SweepRow, MoveTo, Requeue

LEMMA EnqueueFacts ==
  ASSUME IInv, NEW o \in Ops, Enqueue(o)
  PROVE  /\ status[o] = "absent" /\ phase = "active"
         /\ status' = [status EXCEPT ![o] = "queued"]
         /\ \E a \in Attr : /\ attr' = [attr EXCEPT ![o] = a]
                            /\ a.target \in Targets
                            /\ a.kind = "agent_message" => a.session \in Sessions
<1>1. PICK a \in Attr : /\ attr' = [attr EXCEPT ![o] = a]
                        /\ a.target \in Targets
                        /\ a.kind = "agent_message" => a.session \in Sessions
  BY SessionTargetAssumption DEF IInv, TypeOK, Enqueue, Attr, Kinds
<1>2. QED
  BY <1>1 DEF Enqueue

LEMMA RowsStep ==
  IInv /\ [Next]_vars => RowsConsistent'
<1> SUFFICES ASSUME IInv, [Next]_vars PROVE RowsConsistent'
  OBVIOUS
<1> USE NoneAssumption DEF IInv, TypeOK, RowsConsistent, WorkersConsistent, Executing, Busy, Attr, Idle, Dead, Status, Terminal, Live, rowVars, invVars, keyVars, histVars
<1>1. ASSUME NEW w \in Workers, BeginWork(w) PROVE RowsConsistent'
  BY <1>1 DEF BeginWork
<1>2. ASSUME NEW w \in Workers, ResumeRefused(w) PROVE RowsConsistent'
  <2>1. Executing(w) /\ Finalise(w, "error")
    BY <1>2 DEF ResumeRefused
  <2>2. PICK t \in {"succeeded", "failed"} : status' = [status EXCEPT ![wk[w].op] = t]
    BY <2>1, FinaliseFacts
  <2>3. wk[w].op \in Ops /\ status[wk[w].op] \in {"running", "cancel_requested"}
    BY <2>1, FinaliseFacts
  <2>4. QED
    BY <1>2, <2>1, <2>2, <2>3 DEF ResumeRefused
<1>3. ASSUME NEW w \in Workers, NEW o \in Ops, Claim(w, o) PROVE RowsConsistent'
  BY <1>3 DEF Claim, NextClaim, Claimable, ClaimRow, SerializationBlocked
<1>4. ASSUME NEW w \in Workers, NEW o \in Ops, ClaimPublishFails(w, o) PROVE RowsConsistent'
  BY <1>4 DEF ClaimPublishFails, NextClaim, Claimable, ClaimRow
<1>5. ASSUME NEW w \in Workers, NEW r \in {"ok", "error"}, FinishHandler(w, r) PROVE RowsConsistent'
  <2>1. Executing(w) /\ Finalise(w, r)
    BY <1>5 DEF FinishHandler
  <2>2. PICK t \in {"succeeded", "failed"} : status' = [status EXCEPT ![wk[w].op] = t]
    BY <2>1, FinaliseFacts
  <2>3. wk[w].op \in Ops /\ status[wk[w].op] \in {"running", "cancel_requested"}
    BY <2>1, FinaliseFacts
  <2>4. QED
    BY <1>5, <2>1, <2>2, <2>3 DEF FinishHandler
<1>6. ASSUME NEW w \in Workers, NEW r \in {"ok", "error"}, FinishPublishFails(w, r) PROVE RowsConsistent'
  <2>1. Executing(w) /\ Finalise(w, r)
    BY <1>6 DEF FinishPublishFails
  <2>2. PICK t \in {"succeeded", "failed"} : status' = [status EXCEPT ![wk[w].op] = t]
    BY <2>1, FinaliseFacts
  <2>3. wk[w].op \in Ops /\ status[wk[w].op] \in {"running", "cancel_requested"}
    BY <2>1, FinaliseFacts
  <2>4. QED
    BY <1>6, <2>1, <2>2, <2>3 DEF FinishPublishFails
<1>7. ASSUME NEW w \in Workers, Unwind(w) PROVE RowsConsistent'
  BY <1>7 DEF Unwind, Release
<1>8. ASSUME NEW o \in Ops, Enqueue(o) PROVE RowsConsistent'
  <2>1. status[o] = "absent" /\ status' = [status EXCEPT ![o] = "queued"] /\ begun' = begun
    BY <1>8 DEF Enqueue
  <2>2. PICK a \in Attr : /\ attr' = [attr EXCEPT ![o] = a]
                          /\ a.target \in Targets
                          /\ a.kind = "agent_message" => a.session \in Sessions
    BY <1>8, EnqueueFacts
  <2>3. QED
    BY <2>1, <2>2
<1>9. ASSUME NEW o \in Ops, Cancel(o) PROVE RowsConsistent'
  BY <1>9 DEF Cancel, MoveTo
<1>10. ASSUME NEW i \in Invs, Settle(i) PROVE RowsConsistent'
  BY <1>10 DEF Settle
<1>11. CASE BeginRecovery
  BY <1>11 DEF BeginRecovery, NonTerminal
<1>12. CASE StartWorkers
  BY <1>12 DEF StartWorkers
<1>13. CASE GraceExpires
  BY <1>13 DEF GraceExpires
<1>14. CASE BeginSweep
  BY <1>14 DEF BeginSweep, NonTerminal
<1>15. CASE Exit
  BY <1>15 DEF Exit, Lost
<1>16. ASSUME NEW o \in Ops, RecoverRow(o) PROVE RowsConsistent'
  BY ZenonT(40), <1>16, RecoverFacts DEF RecoverRow
<1>17. ASSUME NEW o \in Ops, SweepRow(o) PROVE RowsConsistent'
  BY ZenonT(40), <1>17, SweepFacts DEF SweepRow
<1>18. CASE BeginStop
  BY <1>18 DEF BeginStop
<1>19. CASE Crash
  BY <1>19 DEF Crash, Lost
<1>20. CASE UNCHANGED vars
  BY <1>20 DEF vars
<1> HIDE DEF RowsConsistent
<1>21. QED
  BY <1>1, <1>2, <1>3, <1>4, <1>5, <1>6, <1>7, <1>8, <1>9, <1>10, <1>11, <1>12, <1>13, <1>14, <1>15, <1>16, <1>17, <1>18, <1>19, <1>20
  DEF Next, Prologue, WorkerStep, Lifecycle

LEMMA WorkersStep ==
  IInv /\ [Next]_vars => WorkersConsistent'
<1> SUFFICES ASSUME IInv, [Next]_vars PROVE WorkersConsistent'
  OBVIOUS
<1> USE NoneAssumption DEF IInv, TypeOK, RowsConsistent, WorkersConsistent, Executing, Busy, Attr, Idle, Dead, Status, Terminal, Live, rowVars, invVars, keyVars, histVars
<1>1. ASSUME NEW w \in Workers, BeginWork(w) PROVE WorkersConsistent'
  BY <1>1 DEF BeginWork
<1>2. ASSUME NEW w \in Workers, ResumeRefused(w) PROVE WorkersConsistent'
  <2>1. Executing(w) /\ Finalise(w, "error")
    BY <1>2 DEF ResumeRefused
  <2>2. PICK t \in {"succeeded", "failed"} : status' = [status EXCEPT ![wk[w].op] = t]
    BY <2>1, FinaliseFacts
  <2>3. wk[w].op \in Ops /\ status[wk[w].op] \in {"running", "cancel_requested"}
    BY <2>1, FinaliseFacts
  <2>4. QED
    BY <1>2, <2>1, <2>2, <2>3 DEF ResumeRefused, Release
<1>3. ASSUME NEW w \in Workers, NEW o \in Ops, Claim(w, o) PROVE WorkersConsistent'
  <2>1. /\ status[o] = "queued" /\ status' = [status EXCEPT ![o] = "running"]
        /\ wk' = [wk EXCEPT ![w] = [st |-> "claimed", op |-> o]]
        /\ phase = "active" /\ phase' = phase
    BY <1>3 DEF Claim, NextClaim, Claimable, ClaimRow
  <2>2. \A v \in Workers \ {w} : wk'[v] = wk[v] /\ (Executing(v) => wk[v].op # o)
    BY <2>1
  <2>3. wk'[w] = [st |-> "claimed", op |-> o] /\ status'[o] = "running"
    BY <2>1
  <2>4. \A p \in Ops \ {o} : status'[p] = status[p]
    BY <2>1
  <2>5. QED
    BY <2>1, <2>2, <2>3, <2>4
<1>4. ASSUME NEW w \in Workers, NEW o \in Ops, ClaimPublishFails(w, o) PROVE WorkersConsistent'
  BY <1>4 DEF ClaimPublishFails, NextClaim, Claimable, ClaimRow
<1>5. ASSUME NEW w \in Workers, NEW r \in {"ok", "error"}, FinishHandler(w, r) PROVE WorkersConsistent'
  <2>1. Executing(w) /\ Finalise(w, r)
    BY <1>5 DEF FinishHandler
  <2>2. PICK t \in {"succeeded", "failed"} : status' = [status EXCEPT ![wk[w].op] = t]
    BY <2>1, FinaliseFacts
  <2>3. wk[w].op \in Ops /\ status[wk[w].op] \in {"running", "cancel_requested"}
    BY <2>1, FinaliseFacts
  <2>4. QED
    BY <1>5, <2>1, <2>2, <2>3 DEF FinishHandler, Release
<1>6. ASSUME NEW w \in Workers, NEW r \in {"ok", "error"}, FinishPublishFails(w, r) PROVE WorkersConsistent'
  <2>1. Executing(w) /\ Finalise(w, r)
    BY <1>6 DEF FinishPublishFails
  <2>2. PICK t \in {"succeeded", "failed"} : status' = [status EXCEPT ![wk[w].op] = t]
    BY <2>1, FinaliseFacts
  <2>3. wk[w].op \in Ops /\ status[wk[w].op] \in {"running", "cancel_requested"}
    BY <2>1, FinaliseFacts
  <2>4. QED
    BY <1>6, <2>1, <2>2, <2>3 DEF FinishPublishFails, Release
<1>7. ASSUME NEW w \in Workers, Unwind(w) PROVE WorkersConsistent'
  BY <1>7 DEF Unwind, Release
<1>8. ASSUME NEW o \in Ops, Enqueue(o) PROVE WorkersConsistent'
  BY <1>8, EnqueueFacts DEF Enqueue
<1>9. ASSUME NEW o \in Ops, Cancel(o) PROVE WorkersConsistent'
  <2>1. /\ \/ status[o] = "queued" /\ status' = [status EXCEPT ![o] = "cancelled"]
           \/ status[o] = "running" /\ status' = [status EXCEPT ![o] = "cancel_requested"]
        /\ wk' = wk /\ phase' = phase
    BY <1>9 DEF Cancel, MoveTo
  <2>2. \A p \in Ops : status[p] \in {"running", "cancel_requested"} =>
                         status'[p] \in {"running", "cancel_requested"}
    BY <2>1
  <2>3. QED
    BY <2>1, <2>2
<1>10. ASSUME NEW i \in Invs, Settle(i) PROVE WorkersConsistent'
  BY <1>10 DEF Settle
<1>11. CASE BeginRecovery
  BY <1>11 DEF BeginRecovery, NonTerminal
<1>12. CASE StartWorkers
  BY <1>12 DEF StartWorkers
<1>13. CASE GraceExpires
  BY <1>13 DEF GraceExpires
<1>14. CASE BeginSweep
  BY <1>14 DEF BeginSweep, NonTerminal
<1>15. CASE Exit
  BY <1>15 DEF Exit, Lost
<1>16. ASSUME NEW o \in Ops, RecoverRow(o) PROVE WorkersConsistent'
  BY <1>16, RecoverFacts DEF RecoverRow
<1>17. ASSUME NEW o \in Ops, SweepRow(o) PROVE WorkersConsistent'
  BY <1>17, SweepFacts DEF SweepRow
<1>18. CASE BeginStop
  BY <1>18 DEF BeginStop
<1>19. CASE Crash
  BY <1>19 DEF Crash, Lost
<1>20. CASE UNCHANGED vars
  BY <1>20 DEF vars
<1> HIDE DEF WorkersConsistent
<1>21. QED
  BY <1>1, <1>2, <1>3, <1>4, <1>5, <1>6, <1>7, <1>8, <1>9, <1>10, <1>11, <1>12, <1>13, <1>14, <1>15, <1>16, <1>17, <1>18, <1>19, <1>20
  DEF Next, Prologue, WorkerStep, Lifecycle

LEMMA TodoStep ==
  IInv /\ [Next]_vars => TodoConsistent'
<1> SUFFICES ASSUME IInv, [Next]_vars PROVE TodoConsistent'
  OBVIOUS
<1> USE NoneAssumption DEF IInv, TypeOK, RowsConsistent, WorkersConsistent, Executing, Busy, Attr, Idle, Dead, Status, Terminal, Live, rowVars, invVars, keyVars, histVars, TodoConsistent
<1>1. ASSUME NEW w \in Workers, BeginWork(w) PROVE TodoConsistent'
  BY <1>1 DEF BeginWork
<1>2. ASSUME NEW w \in Workers, ResumeRefused(w) PROVE TodoConsistent'
  <2>1. Executing(w) /\ Finalise(w, "error")
    BY <1>2 DEF ResumeRefused
  <2>2. PICK t \in {"succeeded", "failed"} : status' = [status EXCEPT ![wk[w].op] = t]
    BY <2>1, FinaliseFacts
  <2>3. wk[w].op \in Ops /\ status[wk[w].op] \in {"running", "cancel_requested"}
    BY <2>1, FinaliseFacts
  <2>4. QED
    BY <1>2, <2>1, <2>2, <2>3 DEF ResumeRefused, Release
<1>3. ASSUME NEW w \in Workers, NEW o \in Ops, Claim(w, o) PROVE TodoConsistent'
  <2>1. /\ status[o] = "queued" /\ status' = [status EXCEPT ![o] = "running"]
        /\ wk' = [wk EXCEPT ![w] = [st |-> "claimed", op |-> o]]
        /\ phase = "active" /\ phase' = phase
    BY <1>3 DEF Claim, NextClaim, Claimable, ClaimRow
  <2>2. \A v \in Workers \ {w} : wk'[v] = wk[v] /\ (Executing(v) => wk[v].op # o)
    BY ZenonT(40), <2>1
  <2>3. wk'[w] = [st |-> "claimed", op |-> o] /\ status'[o] = "running"
    BY <2>1
  <2>4. \A p \in Ops \ {o} : status'[p] = status[p]
    BY <2>1
  <2>5. QED
    BY <2>1, <2>2, <2>3, <2>4
<1>4. ASSUME NEW w \in Workers, NEW o \in Ops, ClaimPublishFails(w, o) PROVE TodoConsistent'
  BY <1>4 DEF ClaimPublishFails, NextClaim, Claimable, ClaimRow
<1>5. ASSUME NEW w \in Workers, NEW r \in {"ok", "error"}, FinishHandler(w, r) PROVE TodoConsistent'
  <2>1. Executing(w) /\ Finalise(w, r)
    BY <1>5 DEF FinishHandler
  <2>2. PICK t \in {"succeeded", "failed"} : status' = [status EXCEPT ![wk[w].op] = t]
    BY <2>1, FinaliseFacts
  <2>3. wk[w].op \in Ops /\ status[wk[w].op] \in {"running", "cancel_requested"}
    BY <2>1, FinaliseFacts
  <2>4. QED
    BY <1>5, <2>1, <2>2, <2>3 DEF FinishHandler, Release
<1>6. ASSUME NEW w \in Workers, NEW r \in {"ok", "error"}, FinishPublishFails(w, r) PROVE TodoConsistent'
  <2>1. Executing(w) /\ Finalise(w, r)
    BY <1>6 DEF FinishPublishFails
  <2>2. PICK t \in {"succeeded", "failed"} : status' = [status EXCEPT ![wk[w].op] = t]
    BY <2>1, FinaliseFacts
  <2>3. wk[w].op \in Ops /\ status[wk[w].op] \in {"running", "cancel_requested"}
    BY <2>1, FinaliseFacts
  <2>4. QED
    BY <1>6, <2>1, <2>2, <2>3 DEF FinishPublishFails, Release
<1>7. ASSUME NEW w \in Workers, Unwind(w) PROVE TodoConsistent'
  BY <1>7 DEF Unwind, Release
<1>8. ASSUME NEW o \in Ops, Enqueue(o) PROVE TodoConsistent'
  BY <1>8, EnqueueFacts DEF Enqueue
<1>9. ASSUME NEW o \in Ops, Cancel(o) PROVE TodoConsistent'
  BY <1>9 DEF Cancel, MoveTo
<1>10. ASSUME NEW i \in Invs, Settle(i) PROVE TodoConsistent'
  BY <1>10 DEF Settle
<1>11. CASE BeginRecovery
  BY <1>11 DEF BeginRecovery, NonTerminal
<1>12. CASE StartWorkers
  BY <1>12 DEF StartWorkers
<1>13. CASE GraceExpires
  BY <1>13 DEF GraceExpires
<1>14. CASE BeginSweep
  BY <1>14 DEF BeginSweep, NonTerminal
<1>15. CASE Exit
  BY <1>15 DEF Exit, Lost
<1>16. ASSUME NEW o \in Ops, RecoverRow(o) PROVE TodoConsistent'
  <2>1. phase' = "recovering" /\ todo' = todo \ {o}
    BY <1>16 DEF RecoverRow
  <2>2. PICK t \in Status : status' = [status EXCEPT ![o] = t]
    BY <1>16, RecoverFacts
  <2>3. QED
    BY <1>16, <2>1, <2>2 DEF RecoverRow
<1>17. ASSUME NEW o \in Ops, SweepRow(o) PROVE TodoConsistent'
  <2>1. phase' = "sweeping" /\ todo' = todo \ {o}
    BY <1>17 DEF SweepRow
  <2>2. PICK t \in {"queued", "uncertain"} : status' = [status EXCEPT ![o] = t]
    BY <1>17, SweepFacts
  <2>3. QED
    BY <1>17, <2>1, <2>2 DEF SweepRow
<1>18. CASE BeginStop
  BY <1>18 DEF BeginStop
<1>19. CASE Crash
  BY <1>19 DEF Crash, Lost
<1>20. CASE UNCHANGED vars
  BY <1>20 DEF vars
<1> HIDE DEF TodoConsistent
<1>21. QED
  BY <1>1, <1>2, <1>3, <1>4, <1>5, <1>6, <1>7, <1>8, <1>9, <1>10, <1>11, <1>12, <1>13, <1>14, <1>15, <1>16, <1>17, <1>18, <1>19, <1>20
  DEF Next, Prologue, WorkerStep, Lifecycle

LEMMA FreshStep ==
  IInv /\ [Next]_vars => RollbacksFresh'
<1> SUFFICES ASSUME IInv, [Next]_vars PROVE RollbacksFresh'
  OBVIOUS
<1> USE NoneAssumption DEF IInv, TypeOK, RowsConsistent, WorkersConsistent, Executing, Busy, Attr, Idle, Dead, Status, Terminal, Live, rowVars, invVars, keyVars, histVars, RollbacksFresh, TodoConsistent
<1>1. ASSUME NEW w \in Workers, BeginWork(w) PROVE RollbacksFresh'
  <2>1. /\ wk[w].st = "claimed" /\ wk[w].op \in Ops
        /\ wk' = [wk EXCEPT ![w] = [st |-> "working", op |-> wk[w].op]]
        /\ begun' = [begun EXCEPT ![wk[w].op] = @ + 1]
        /\ status' = status /\ attr' = attr
        /\ status[wk[w].op] # "queued"
    BY <1>1 DEF BeginWork
  <2>2. QED
    BY <2>1
<1>2. ASSUME NEW w \in Workers, ResumeRefused(w) PROVE RollbacksFresh'
  <2>1. Executing(w) /\ Finalise(w, "error")
    BY <1>2 DEF ResumeRefused
  <2>2. PICK t \in {"succeeded", "failed"} : status' = [status EXCEPT ![wk[w].op] = t]
    BY <2>1, FinaliseFacts
  <2>3. wk[w].op \in Ops /\ status[wk[w].op] \in {"running", "cancel_requested"}
    BY <2>1, FinaliseFacts
  <2>4. QED
    BY <1>2, <2>1, <2>2, <2>3 DEF ResumeRefused, Release
<1>3. ASSUME NEW w \in Workers, NEW o \in Ops, Claim(w, o) PROVE RollbacksFresh'
  <2>1. /\ status[o] = "queued" /\ status' = [status EXCEPT ![o] = "running"]
        /\ wk' = [wk EXCEPT ![w] = [st |-> "claimed", op |-> o]]
        /\ attr' = attr /\ begun' = begun
    BY <1>3 DEF Claim, NextClaim, Claimable, ClaimRow
  <2>2. QED
    BY <2>1
<1>4. ASSUME NEW w \in Workers, NEW o \in Ops, ClaimPublishFails(w, o) PROVE RollbacksFresh'
  BY <1>4 DEF ClaimPublishFails, NextClaim, Claimable, ClaimRow
<1>5. ASSUME NEW w \in Workers, NEW r \in {"ok", "error"}, FinishHandler(w, r) PROVE RollbacksFresh'
  <2>1. Executing(w) /\ Finalise(w, r)
    BY <1>5 DEF FinishHandler
  <2>2. PICK t \in {"succeeded", "failed"} : status' = [status EXCEPT ![wk[w].op] = t]
    BY <2>1, FinaliseFacts
  <2>3. wk[w].op \in Ops /\ status[wk[w].op] \in {"running", "cancel_requested"}
    BY <2>1, FinaliseFacts
  <2>4. QED
    BY <1>5, <2>1, <2>2, <2>3 DEF FinishHandler, Release
<1>6. ASSUME NEW w \in Workers, NEW r \in {"ok", "error"}, FinishPublishFails(w, r) PROVE RollbacksFresh'
  <2>1. Executing(w) /\ Finalise(w, r)
    BY <1>6 DEF FinishPublishFails
  <2>2. PICK t \in {"succeeded", "failed"} : status' = [status EXCEPT ![wk[w].op] = t]
    BY <2>1, FinaliseFacts
  <2>3. wk[w].op \in Ops /\ status[wk[w].op] \in {"running", "cancel_requested"}
    BY <2>1, FinaliseFacts
  <2>4. QED
    BY <1>6, <2>1, <2>2, <2>3 DEF FinishPublishFails, Release
<1>7. ASSUME NEW w \in Workers, Unwind(w) PROVE RollbacksFresh'
  BY <1>7 DEF Unwind, Release
<1>8. ASSUME NEW o \in Ops, Enqueue(o) PROVE RollbacksFresh'
  BY <1>8, EnqueueFacts DEF Enqueue
<1>9. ASSUME NEW o \in Ops, Cancel(o) PROVE RollbacksFresh'
  BY <1>9 DEF Cancel, MoveTo
<1>10. ASSUME NEW i \in Invs, Settle(i) PROVE RollbacksFresh'
  BY <1>10 DEF Settle
<1>11. CASE BeginRecovery
  BY <1>11 DEF BeginRecovery, NonTerminal
<1>12. CASE StartWorkers
  BY <1>12 DEF StartWorkers
<1>13. CASE GraceExpires
  BY <1>13 DEF GraceExpires
<1>14. CASE BeginSweep
  BY <1>14 DEF BeginSweep, NonTerminal
<1>15. CASE Exit
  BY <1>15 DEF Exit, Lost
<1>16. ASSUME NEW o \in Ops, RecoverRow(o) PROVE RollbacksFresh'
  BY ZenonT(40), <1>16, RecoverFacts DEF RecoverRow
<1>17. ASSUME NEW o \in Ops, SweepRow(o) PROVE RollbacksFresh'
  BY ZenonT(40), <1>17, SweepFacts DEF SweepRow
<1>18. CASE BeginStop
  BY <1>18 DEF BeginStop
<1>19. CASE Crash
  BY <1>19 DEF Crash, Lost
<1>20. CASE UNCHANGED vars
  BY <1>20 DEF vars
<1> HIDE DEF RollbacksFresh
<1>21. QED
  BY <1>1, <1>2, <1>3, <1>4, <1>5, <1>6, <1>7, <1>8, <1>9, <1>10, <1>11, <1>12, <1>13, <1>14, <1>15, <1>16, <1>17, <1>18, <1>19, <1>20
  DEF Next, Prologue, WorkerStep, Lifecycle

-----------------------------------------------------------------------------
(* The serialization keys. *)

\* What the four key formulas say, in one place.
KeysInv == KeysHeld /\ KeysNeeded /\ OneHandlerPerSession /\ OneRollbackPerTarget

\* Releasing an operation gives back its keys and nobody else's.
LEMMA ReleaseKeys ==
  ASSUME IInv, NEW w \in Workers, NEW next \in {Idle, Dead}, Executing(w),
         Release(w, next), attr' = attr
  PROVE  KeysInv'
<1> DEFINE o == wk[w].op
<1>1. /\ wk' = [wk EXCEPT ![w] = next]
      /\ activeSessions' = activeSessions \ SessionKey(o)
      /\ activeTargets' = activeTargets \ TargetKey(o)
      /\ \A p : SessionKey(p)' = SessionKey(p) /\ TargetKey(p)' = TargetKey(p)
  BY DEF Release, SessionKey, TargetKey
<1>2. /\ ~Executing(w)'
      /\ \A v \in Workers \ {w} : wk'[v] = wk[v] /\ (Executing(v)' <=> Executing(v))
  BY <1>1 DEF IInv, TypeOK, Executing, Idle, Dead, Busy
<1>3. \A v \in Workers \ {w} : Executing(v) =>
        /\ SessionKey(wk[v].op) \cap SessionKey(o) = {}
        /\ TargetKey(wk[v].op) \cap TargetKey(o) = {}
  BY DEF IInv, OneHandlerPerSession, OneRollbackPerTarget
<1> HIDE DEF o
<1>4. KeysHeld'
  BY <1>1, <1>2, <1>3 DEF IInv, KeysHeld
<1>5. KeysNeeded'
  <2>1. ASSUME NEW s \in activeSessions'
        PROVE \E v \in Workers : Executing(v)' /\ s \in SessionKey(wk[v].op)'
    BY <1>1, <1>2, <2>1 DEF IInv, KeysNeeded, o
  <2>2. ASSUME NEW t \in activeTargets'
        PROVE \E v \in Workers : Executing(v)' /\ t \in TargetKey(wk[v].op)'
    BY <1>1, <1>2, <2>2 DEF IInv, KeysNeeded, o
  <2>3. QED
    BY <2>1, <2>2 DEF KeysNeeded
<1>6. OneHandlerPerSession' /\ OneRollbackPerTarget'
  BY <1>1, <1>2 DEF IInv, OneHandlerPerSession, OneRollbackPerTarget
<1>7. QED
  BY <1>4, <1>5, <1>6 DEF KeysInv

\* A claim takes keys that no executing worker has.
LEMMA ClaimKeys ==
  ASSUME IInv, NEW w \in Workers, NEW o \in Ops, Claim(w, o)
  PROVE  KeysInv'
<1>1. /\ wk' = [wk EXCEPT ![w] = [st |-> "claimed", op |-> o]]
      /\ activeSessions' = activeSessions \cup SessionKey(o)
      /\ activeTargets' = activeTargets \cup TargetKey(o)
      /\ \A p : SessionKey(p)' = SessionKey(p) /\ TargetKey(p)' = TargetKey(p)
      /\ ~Executing(w)
  BY DEF Claim, SessionKey, TargetKey, Executing, Idle, Busy
<1>2. /\ wk'[w].op = o /\ Executing(w)'
      /\ \A v \in Workers \ {w} : wk'[v] = wk[v] /\ (Executing(v)' <=> Executing(v))
  BY <1>1 DEF IInv, TypeOK, Executing, Busy
<1>3. /\ SessionKey(o) \cap activeSessions = {}
      /\ TargetKey(o) \cap activeTargets = {}
  BY DEF Claim, NextClaim, Claimable, SerializationBlocked, SessionKey, TargetKey
<1>4. KeysHeld'
  BY <1>1, <1>2 DEF IInv, KeysHeld
<1>5. KeysNeeded'
  <2>1. ASSUME NEW s \in activeSessions'
        PROVE \E v \in Workers : Executing(v)' /\ s \in SessionKey(wk[v].op)'
    BY <1>1, <1>2, <2>1 DEF IInv, KeysNeeded
  <2>2. ASSUME NEW t \in activeTargets'
        PROVE \E v \in Workers : Executing(v)' /\ t \in TargetKey(wk[v].op)'
    BY <1>1, <1>2, <2>2 DEF IInv, KeysNeeded
  <2>3. QED
    BY <2>1, <2>2 DEF KeysNeeded
<1>6. \A v \in Workers \ {w} : Executing(v) =>
        /\ SessionKey(wk[v].op) \cap SessionKey(o) = {}
        /\ TargetKey(wk[v].op) \cap TargetKey(o) = {}
  BY <1>3 DEF IInv, KeysHeld
<1>7. OneHandlerPerSession' /\ OneRollbackPerTarget'
  BY <1>1, <1>2, <1>6 DEF IInv, OneHandlerPerSession, OneRollbackPerTarget
<1>8. QED
  BY <1>4, <1>5, <1>7 DEF KeysInv

\* A step that neither starts nor ends an execution keeps the keys right.
LEMMA KeysFrame ==
  ASSUME IInv, UNCHANGED keyVars,
         \A v \in Workers : /\ Executing(v)' <=> Executing(v)
                            /\ Executing(v) => wk'[v].op = wk[v].op
                            /\ Executing(v) => attr'[wk[v].op] = attr[wk[v].op]
  PROVE  KeysInv'
<1>1. \A v \in Workers : Executing(v) =>
        /\ SessionKey(wk[v].op)' = SessionKey(wk[v].op)
        /\ TargetKey(wk[v].op)' = TargetKey(wk[v].op)
  BY DEF SessionKey, TargetKey
<1>2. activeSessions' = activeSessions /\ activeTargets' = activeTargets
  BY DEF keyVars
<1>3. KeysHeld' /\ KeysNeeded'
  BY <1>1, <1>2 DEF IInv, KeysHeld, KeysNeeded
<1>4. OneHandlerPerSession' /\ OneRollbackPerTarget'
  BY <1>1 DEF IInv, OneHandlerPerSession, OneRollbackPerTarget
<1>5. QED
  BY <1>3, <1>4 DEF KeysInv

\* The end of the process: no worker and no key is left.
LEMMA LostKeys ==
  ASSUME IInv, Lost
  PROVE  KeysInv'
  BY DEF Lost, KeysInv, KeysHeld, KeysNeeded, OneHandlerPerSession,
         OneRollbackPerTarget, Executing, Idle, Busy

LEMMA KeysStep ==
  IInv /\ [Next]_vars => KeysInv'
<1> SUFFICES ASSUME IInv, [Next]_vars PROVE KeysInv'
  OBVIOUS
<1> USE NoneAssumption DEF IInv, Executing, Busy, Idle, Dead, rowVars, invVars, keyVars, histVars
<1>1. ASSUME NEW w \in Workers, BeginWork(w) PROVE KeysInv'
  <2>1. \A v \in Workers : wk'[v].op = wk[v].op /\ (Executing(v)' <=> Executing(v))
    BY <1>1 DEF BeginWork, TypeOK
  <2>2. QED
    BY <1>1, <2>1, KeysFrame DEF BeginWork
<1>2. ASSUME NEW w \in Workers, ResumeRefused(w) PROVE KeysInv'
  <2>1. Executing(w) /\ Finalise(w, "error") /\ Release(w, Idle)
    BY <1>2 DEF ResumeRefused
  <2>2. attr' = attr
    BY <1>2 DEF ResumeRefused
  <2>3. QED
    BY <2>1, <2>2, ReleaseKeys
<1>3. ASSUME NEW w \in Workers, NEW o \in Ops, Claim(w, o) PROVE KeysInv'
  BY <1>3, ClaimKeys
<1>4. ASSUME NEW w \in Workers, NEW o \in Ops, ClaimPublishFails(w, o) PROVE KeysInv'
  <2>1. \A v \in Workers : /\ Executing(v)' <=> Executing(v)
                            /\ Executing(v) => wk'[v].op = wk[v].op
    BY <1>4 DEF ClaimPublishFails, TypeOK
  <2>2. QED
    BY <1>4, <2>1, KeysFrame DEF ClaimPublishFails
<1>5. ASSUME NEW w \in Workers, NEW r \in {"ok", "error"}, FinishHandler(w, r) PROVE KeysInv'
  <2>1. Executing(w) /\ Finalise(w, r) /\ Release(w, Idle)
    BY <1>5 DEF FinishHandler
  <2>2. attr' = attr
    BY <1>5 DEF FinishHandler
  <2>3. QED
    BY <2>1, <2>2, ReleaseKeys
<1>6. ASSUME NEW w \in Workers, NEW r \in {"ok", "error"}, FinishPublishFails(w, r) PROVE KeysInv'
  <2>1. Executing(w) /\ Finalise(w, r) /\ Release(w, Dead)
    BY <1>6 DEF FinishPublishFails
  <2>2. attr' = attr
    BY <1>6 DEF FinishPublishFails
  <2>3. QED
    BY <2>1, <2>2, ReleaseKeys
<1>7. ASSUME NEW w \in Workers, Unwind(w) PROVE KeysInv'
  <2>1. Executing(w) /\ Release(w, Idle) /\ attr' = attr
    BY <1>7 DEF Unwind
  <2>2. QED
    BY <2>1, ReleaseKeys
<1>8. ASSUME NEW o \in Ops, Enqueue(o) PROVE KeysInv'
  <2>1. \A v \in Workers : Executing(v) => wk[v].op # o
    BY <1>8, EnqueueFacts DEF WorkersConsistent
  <2>2. \A v \in Workers : Executing(v) => attr'[wk[v].op] = attr[wk[v].op]
    BY <1>8, <2>1, EnqueueFacts DEF TypeOK, WorkersConsistent
  <2>3. QED
    BY <1>8, <2>2, KeysFrame DEF Enqueue
<1>9. ASSUME NEW o \in Ops, Cancel(o) PROVE KeysInv'
  BY <1>9, KeysFrame DEF Cancel
<1>10. ASSUME NEW i \in Invs, Settle(i) PROVE KeysInv'
  BY <1>10, KeysFrame DEF Settle
<1>11. CASE BeginRecovery
  BY <1>11, KeysFrame DEF BeginRecovery
<1>12. CASE StartWorkers
  BY <1>12, KeysFrame DEF StartWorkers
<1>13. CASE GraceExpires
  <2>1. \A v \in Workers : /\ Executing(v)' <=> Executing(v)
                            /\ Executing(v) => wk'[v].op = wk[v].op
    BY <1>13 DEF GraceExpires, TypeOK
  <2>2. QED
    BY <1>13, <2>1, KeysFrame DEF GraceExpires
<1>14. CASE BeginSweep
  BY <1>14, KeysFrame DEF BeginSweep
<1>15. CASE Exit
  BY <1>15, LostKeys DEF Exit
<1>16. ASSUME NEW o \in Ops, RecoverRow(o) PROVE KeysInv'
  BY <1>16, KeysFrame DEF RecoverRow
<1>17. ASSUME NEW o \in Ops, SweepRow(o) PROVE KeysInv'
  BY <1>17, KeysFrame DEF SweepRow
<1>18. CASE BeginStop
  BY <1>18, KeysFrame DEF BeginStop
<1>19. CASE Crash
  BY <1>19, LostKeys DEF Crash
<1>20. CASE UNCHANGED vars
  BY <1>20, KeysFrame DEF vars
<1> HIDE DEF KeysInv
<1>21. QED
  BY <1>1, <1>2, <1>3, <1>4, <1>5, <1>6, <1>7, <1>8, <1>9, <1>10, <1>11, <1>12, <1>13, <1>14, <1>15, <1>16, <1>17, <1>18, <1>19, <1>20
  DEF Next, Prologue, WorkerStep, Lifecycle

-----------------------------------------------------------------------------
(* What a row says of its operation. *)

\* Routes enqueue kinds that have a handler: recovery never settles a rollback
\* or a target test by the state of an investigation.
KindsKnown == \A o \in Ops : attr[o].kind \in Registered

\* A finished row has closed its attempts.
AttemptsClosed == \A o \in Ops : status[o] \in Terminal => openAttempts[o] = 0

\* The handler of a row that has not finished has not returned.
ReturnedIsFinished == \A o \in Ops : status[o] \notin Terminal => returned[o] = "no"

\* A rollback that was killed is never queued again, and nobody works on it.
KilledRollbackRests ==
  \A o \in Ops : attr[o].kind = "rollback" /\ interrupted[o] =>
    /\ status[o] \in {"running", "cancel_requested", "uncertain", "cancelled"}
    /\ \A w \in Workers : wk[w].op = o => wk[w].st \notin {"claimed", "working"}

\* Only a row that was enqueued has had a handler to kill.
KilledWasThere == \A o \in Ops : interrupted[o] => status[o] # "absent"

RowHistory ==
  /\ KindsKnown /\ AttemptsClosed /\ ReturnedIsFinished /\ KilledWasThere
  /\ KilledRollbackRests /\ TruthfulOutcome

\* The end of a handler, in the store.
HandlerEnds(o, t, result) ==
  /\ status[o] \in {"running", "cancel_requested"}
  /\ status' = [status EXCEPT ![o] = t]
  /\ openAttempts'[o] = 0
  /\ \A p \in Ops \ {o} : openAttempts'[p] = openAttempts[p]
  /\ returned' = [returned EXCEPT ![o] = result]
  /\ t = "succeeded" => result = "ok"

LEMMA EndFacts ==
  ASSUME IInv, NEW w \in Workers, NEW r \in {"ok", "error"}, Executing(w),
         Finalise(w, r)
  PROVE  \E t \in {"succeeded", "failed"} : HandlerEnds(wk[w].op, t, r)
<1> DEFINE o == wk[w].op  t == Outcome(o, r)
<1>1. /\ TypeOK /\ o \in Ops /\ status[o] \in {"running", "cancel_requested"}
      /\ t \in {"succeeded", "failed"} /\ t \in Status /\ t \in Terminal
      /\ t = "succeeded" => r = "ok"
      /\ MoveTo(o, t) /\ returned' = [returned EXCEPT ![o] = r]
  BY DEF IInv, WorkersConsistent, Finalise, Outcome, Status, Terminal
<1>2. HandlerEnds(o, t, r)
  <2> HIDE DEF o, t
  <2>1. /\ status' = [status EXCEPT ![o] = t]
        /\ \A p \in Ops \ {o} : openAttempts'[p] = openAttempts[p]
        /\ openAttempts'[o] = 0
    BY <1>1, MoveToFacts
  <2>2. QED
    BY <1>1, <2>1 DEF HandlerEnds
<1>3. QED
  BY <1>1, <1>2

\* The move of a row that no handler makes: it only closes what it finishes.
RowMoves(o, t) ==
  /\ status[o] \in Live
  /\ status' = [status EXCEPT ![o] = t]
  /\ t \in Terminal => openAttempts'[o] = 0
  /\ \A p \in Ops \ {o} : openAttempts'[p] = openAttempts[p]

LEMMA MoveIsRowMove ==
  ASSUME TypeOK, NEW o \in Ops, NEW t \in Status, status[o] # "absent", MoveTo(o, t)
  PROVE  RowMoves(o, t)
  BY MoveToFacts DEF RowMoves

LEMMA RecoverMoves ==
  ASSUME IInv, KindsKnown, NEW o \in Ops, RecoverRow(o)
  PROVE  \E t \in Status :
           /\ RowMoves(o, t)
           /\ t = "queued" => status[o] = "queued" \/ attr[o].kind # "rollback"
           /\ attr[o].kind # "agent_message" => t \in {"queued", "cancelled", "uncertain"}
<1>1. TypeOK /\ status[o] \in Live /\ Classify(o) /\ status[o] # "absent"
  BY DEF IInv, TodoConsistent, RecoverRow, Live
<1>2. CASE status[o] = "queued" /\ LeaveRow
  BY <1>1, <1>2 DEF TypeOK, Status, Live, RowMoves, LeaveRow, Terminal
<1>3. CASE status[o] = "cancel_requested" /\ MoveTo(o, "cancelled")
  BY <1>1, <1>3, MoveIsRowMove DEF Status, Terminal
<1>4. CASE attr[o].kind \in Dangerous /\ MoveTo(o, "uncertain")
  BY <1>1, <1>4, MoveIsRowMove DEF Status, Terminal
<1>5. CASE Requeue(o) /\ attr[o].kind # "rollback"
  BY <1>1, <1>5 DEF Requeue, RowMoves, Status, Live, Terminal, TypeOK
<1>6. CASE attr[o].kind \in AgentKinds /\ status[o] = "running" /\ \E t \in {"succeeded", "failed"} : MoveTo(o, t)
  <2>1. attr[o].kind = "agent_message"
    BY <1>6 DEF KindsKnown, Registered, AgentKinds
  <2>2. QED
    BY <1>1, <1>6, <2>1, MoveIsRowMove DEF Status, Terminal
<1>7. QED
  BY <1>1, <1>2, <1>3, <1>4, <1>5, <1>6 DEF Classify, Reconcile, AgentKinds, Dangerous

LEMMA SweepMoves ==
  ASSUME IInv, NEW o \in Ops, SweepRow(o)
  PROVE  \E t \in {"queued", "uncertain"} :
           RowMoves(o, t) /\ (t = "queued" => attr[o].kind # "rollback")
<1>1. TypeOK /\ status[o] = "running" /\ status[o] # "absent"
  BY DEF IInv, TodoConsistent, SweepRow
<1>2. CASE MoveTo(o, "uncertain")
  BY <1>1, <1>2, MoveIsRowMove DEF Status, Terminal
<1>3. CASE Requeue(o) /\ attr[o].kind # "rollback"
  BY <1>1, <1>3 DEF Requeue, RowMoves, Status, Live, Terminal, TypeOK
<1>4. QED
  BY <1>2, <1>3 DEF SweepRow

\* The end of a handler keeps what the rows say true: its worker was on the row,
\* so the row was not killed.
LEMMA EndKeepsHistory ==
  ASSUME IInv, RowHistory, NEW w \in Workers, wk[w].st \in {"claimed", "working"},
         NEW t \in {"succeeded", "failed"}, NEW r \in {"ok", "error"},
         HandlerEnds(wk[w].op, t, r),
         wk' \in {[wk EXCEPT ![w] = Idle], [wk EXCEPT ![w] = Dead]},
         attr' = attr, interrupted' = interrupted
  PROVE  RowHistory'
<1> DEFINE o == wk[w].op
<1>1. /\ o \in Ops /\ TypeOK /\ Executing(w)
      /\ KindsKnown /\ AttemptsClosed /\ ReturnedIsFinished /\ KilledWasThere
      /\ KilledRollbackRests /\ TruthfulOutcome
  BY DEF IInv, WorkersConsistent, Executing, Busy, RowHistory
<1>2. /\ \A p \in Ops \ {o} : /\ status'[p] = status[p] /\ returned'[p] = returned[p]
                               /\ openAttempts'[p] = openAttempts[p]
      /\ status'[o] = t /\ returned'[o] = r /\ openAttempts'[o] = 0
      /\ t = "succeeded" => r = "ok"
  BY <1>1 DEF HandlerEnds, TypeOK
<1>3. \A v \in Workers : \/ wk'[v] = wk[v]
                        \/ wk'[v].st \notin {"claimed", "working"}
  BY <1>1 DEF Idle, Dead, TypeOK
<1>4. KindsKnown' /\ KilledWasThere'
  BY <1>1, <1>2 DEF KindsKnown, KilledWasThere
<1>5. AttemptsClosed' /\ ReturnedIsFinished'
  BY <1>1, <1>2 DEF AttemptsClosed, ReturnedIsFinished, Terminal
<1>6. TruthfulOutcome'
  BY <1>1, <1>2 DEF TruthfulOutcome
<1>7. KilledRollbackRests'
  <2>1. ~(attr[o].kind = "rollback" /\ interrupted[o])
    BY <1>1 DEF KilledRollbackRests
  <2>2. QED
    BY <1>1, <1>2, <1>3, <2>1 DEF KilledRollbackRests
<1>8. QED
  BY <1>4, <1>5, <1>6, <1>7 DEF RowHistory

\* So does a move that no handler makes, unless it requeues a rollback or calls
\* the work of a handler finished.
LEMMA MoveKeepsHistory ==
  ASSUME IInv, RowHistory, NEW o \in Ops, NEW t \in Status, RowMoves(o, t),
         t = "queued" => status[o] = "queued" \/ attr[o].kind # "rollback",
         attr[o].kind # "agent_message" =>
           t \in {"queued", "cancel_requested", "cancelled", "uncertain"},
         UNCHANGED <<attr, wk, returned, interrupted>>
  PROVE  RowHistory'
<1>1. /\ TypeOK /\ KindsKnown /\ AttemptsClosed /\ ReturnedIsFinished /\ KilledWasThere
      /\ KilledRollbackRests /\ TruthfulOutcome
  BY DEF IInv, RowHistory
<1>2. /\ \A p \in Ops \ {o} : /\ status'[p] = status[p]
                               /\ openAttempts'[p] = openAttempts[p]
      /\ status'[o] = t /\ status[o] \in Live
      /\ t \in Terminal => openAttempts'[o] = 0
  BY <1>1 DEF RowMoves, TypeOK
<1>3. returned[o] = "no"
  BY <1>1, <1>2 DEF ReturnedIsFinished, Live, Terminal
<1>4. KindsKnown' /\ KilledWasThere'
  BY <1>1, <1>2 DEF KindsKnown, KilledWasThere, Status, Terminal, Live
<1>5. AttemptsClosed' /\ ReturnedIsFinished'
  BY <1>1, <1>2, <1>3 DEF AttemptsClosed, ReturnedIsFinished
<1>6. TruthfulOutcome'
  BY <1>1, <1>2, <1>3 DEF TruthfulOutcome
<1>7. KilledRollbackRests'
  BY <1>1, <1>2 DEF KilledRollbackRests, Live
<1>8. QED
  BY <1>4, <1>5, <1>6, <1>7 DEF RowHistory

\* A step that leaves the rows alone keeps their history, also one that kills
\* every handler at once.
LEMMA RestKeepsHistory ==
  ASSUME IInv, RowHistory, UNCHANGED <<status, openAttempts, attr, returned>>,
         \A v \in Workers : wk'[v].st \in {"claimed", "working"} =>
           wk[v].st \in {"claimed", "working"} /\ wk'[v].op = wk[v].op,
         \A o \in Ops : interrupted'[o] =>
           \/ interrupted[o]
           \/ /\ \E w \in Workers : wk[w].st = "working" /\ wk[w].op = o
              /\ \A v \in Workers : wk'[v].st \notin {"claimed", "working"}
  PROVE  RowHistory'
<1>1. /\ KindsKnown /\ AttemptsClosed /\ ReturnedIsFinished /\ KilledWasThere
      /\ KilledRollbackRests /\ TruthfulOutcome
  BY DEF RowHistory
<1>2. KindsKnown' /\ AttemptsClosed' /\ ReturnedIsFinished' /\ TruthfulOutcome'
  BY <1>1 DEF KindsKnown, AttemptsClosed, ReturnedIsFinished, TruthfulOutcome
<1>3. ASSUME NEW o \in Ops, attr[o].kind = "rollback", interrupted'[o]
      PROVE  /\ status[o] \in {"running", "cancel_requested", "uncertain", "cancelled"}
             /\ \A w \in Workers : wk'[w].op = o => wk'[w].st \notin {"claimed", "working"}
  <2>1. CASE interrupted[o]
    BY <1>1, <1>3, <2>1 DEF KilledRollbackRests
  <2>2. CASE ~interrupted[o]
    <3>1. \E w \in Workers : Executing(w) /\ wk[w].op = o
      BY <1>3, <2>2 DEF Executing, Busy
    <3>2. QED
      BY <1>3, <2>2, <3>1 DEF IInv, WorkersConsistent
  <2>3. QED
    BY <2>1, <2>2
<1>4. KilledRollbackRests'
  BY <1>3 DEF KilledRollbackRests
<1>5. KilledWasThere'
  <2>1. \A w \in Workers : wk[w].st = "working" => status[wk[w].op] # "absent"
    BY DEF IInv, WorkersConsistent, Executing, Busy
  <2>2. QED
    BY <1>1, <2>1 DEF KilledWasThere
<1>6. QED
  BY <1>2, <1>4, <1>5 DEF RowHistory

\* A claim finds its row queued: it has not been killed as a rollback.
LEMMA ClaimKeepsHistory ==
  ASSUME IInv, RowHistory, NEW w \in Workers, NEW o \in Ops,
         status[o] = "queued", ClaimRow(o),
         wk' \in {[wk EXCEPT ![w] = [st |-> "claimed", op |-> o]],
                  [wk EXCEPT ![w] = Dead]},
         UNCHANGED <<attr, returned, interrupted>>
  PROVE  RowHistory'
<1>1. /\ TypeOK /\ KindsKnown /\ AttemptsClosed /\ ReturnedIsFinished /\ KilledWasThere
      /\ KilledRollbackRests /\ TruthfulOutcome
  BY DEF IInv, RowHistory
<1>2. /\ \A p \in Ops \ {o} : /\ status'[p] = status[p]
                               /\ openAttempts'[p] = openAttempts[p]
      /\ status'[o] = "running"
  BY <1>1 DEF ClaimRow, TypeOK
<1>3. /\ KindsKnown' /\ AttemptsClosed' /\ ReturnedIsFinished' /\ TruthfulOutcome'
      /\ KilledWasThere'
  BY <1>1, <1>2 DEF KindsKnown, AttemptsClosed, ReturnedIsFinished, TruthfulOutcome,
     KilledWasThere, Terminal
<1>4. \A v \in Workers : wk'[v].st \in {"claimed", "working"} =>
                          wk'[v] = wk[v] \/ wk'[v].op = o
  BY <1>1 DEF TypeOK, Dead
<1>5. KilledRollbackRests'
  BY <1>1, <1>2, <1>4 DEF KilledRollbackRests
<1>6. QED
  BY <1>3, <1>5 DEF RowHistory

LEMMA InitRowHistory == Init => RowHistory
  BY DEF Init, RowHistory, KindsKnown, AttemptsClosed, ReturnedIsFinished,
     KilledRollbackRests, KilledWasThere, TruthfulOutcome, NoAttr, Registered, Terminal

LEMMA RowHistoryStep ==
  IInv /\ RowHistory /\ [Next]_vars => RowHistory'
<1> SUFFICES ASSUME IInv, RowHistory, [Next]_vars PROVE RowHistory'
  OBVIOUS
<1> USE DEF rowVars, invVars, keyVars, histVars
<1>1. ASSUME NEW w \in Workers, BeginWork(w) PROVE RowHistory'
  <2>1. \A v \in Workers : wk'[v].st \in {"claimed", "working"} =>
          wk[v].st \in {"claimed", "working"} /\ wk'[v].op = wk[v].op
    BY <1>1 DEF BeginWork, IInv, TypeOK
  <2>2. QED
    BY <1>1, <2>1, RestKeepsHistory DEF BeginWork
<1>2. ASSUME NEW w \in Workers, ResumeRefused(w) PROVE RowHistory'
  <2>1. /\ wk[w].st \in {"claimed", "working"} /\ Finalise(w, "error")
        /\ wk' \in {[wk EXCEPT ![w] = Idle], [wk EXCEPT ![w] = Dead]}
        /\ attr' = attr /\ interrupted' = interrupted
    BY <1>2 DEF ResumeRefused, Release
  <2>2. Executing(w)
    BY <2>1 DEF Executing, Busy
  <2>3. QED
    BY <2>1, <2>2, EndFacts, EndKeepsHistory
<1>3. ASSUME NEW w \in Workers, NEW o \in Ops, Claim(w, o) PROVE RowHistory'
  BY <1>3, ClaimKeepsHistory DEF Claim, NextClaim, Claimable
<1>4. ASSUME NEW w \in Workers, NEW o \in Ops, ClaimPublishFails(w, o) PROVE RowHistory'
  BY <1>4, ClaimKeepsHistory DEF ClaimPublishFails, NextClaim, Claimable
<1>5. ASSUME NEW w \in Workers, NEW r \in {"ok", "error"}, FinishHandler(w, r) PROVE RowHistory'
  <2>1. /\ wk[w].st \in {"claimed", "working"} /\ Finalise(w, r)
        /\ wk' \in {[wk EXCEPT ![w] = Idle], [wk EXCEPT ![w] = Dead]}
        /\ attr' = attr /\ interrupted' = interrupted
    BY <1>5 DEF FinishHandler, Release
  <2>2. Executing(w)
    BY <2>1 DEF Executing, Busy
  <2>3. QED
    BY <2>1, <2>2, EndFacts, EndKeepsHistory
<1>6. ASSUME NEW w \in Workers, NEW r \in {"ok", "error"}, FinishPublishFails(w, r) PROVE RowHistory'
  <2>1. /\ wk[w].st \in {"claimed", "working"} /\ Finalise(w, r)
        /\ wk' \in {[wk EXCEPT ![w] = Idle], [wk EXCEPT ![w] = Dead]}
        /\ attr' = attr /\ interrupted' = interrupted
    BY <1>6 DEF FinishPublishFails, Release
  <2>2. Executing(w)
    BY <2>1 DEF Executing, Busy
  <2>3. QED
    BY <2>1, <2>2, EndFacts, EndKeepsHistory
<1>7. ASSUME NEW w \in Workers, Unwind(w) PROVE RowHistory'
  <2>1. \A v \in Workers : wk'[v] = wk[v] \/ wk'[v] = Idle
    BY <1>7 DEF Unwind, Release, IInv, TypeOK
  <2>2. QED
    BY <1>7, <2>1, RestKeepsHistory DEF Unwind, Idle
<1>8. ASSUME NEW o \in Ops, Enqueue(o) PROVE RowHistory'
  <2>1. /\ status[o] = "absent" /\ status' = [status EXCEPT ![o] = "queued"]
        /\ \E a \in Attr : a.kind \in Registered /\ attr' = [attr EXCEPT ![o] = a]
        /\ UNCHANGED <<openAttempts, wk, returned, interrupted>>
    <3>1. \A s \in Sessions : SessionTarget[s] \in Targets /\ sessionInv[s] \in Invs \cup {None}
      BY SessionTargetAssumption DEF IInv, TypeOK
    <3>2. QED
      BY <1>8, <3>1 DEF Enqueue, Attr, Kinds, Registered
  <2>2. PICK a \in Attr : a.kind \in Registered /\ attr' = [attr EXCEPT ![o] = a]
    BY <2>1
  <2>3. /\ \A p \in Ops \ {o} : status'[p] = status[p] /\ attr'[p] = attr[p]
        /\ status'[o] = "queued" /\ attr'[o].kind \in Registered
    BY <2>1, <2>2 DEF IInv, TypeOK
  <2>4. ~interrupted[o] /\ returned[o] = "no"
    BY <2>1 DEF RowHistory, KilledWasThere, ReturnedIsFinished, Terminal
  <2>5. /\ KindsKnown' /\ AttemptsClosed' /\ ReturnedIsFinished' /\ TruthfulOutcome'
        /\ KilledWasThere'
    BY <2>1, <2>3, <2>4 DEF RowHistory, KindsKnown, AttemptsClosed,
       ReturnedIsFinished, TruthfulOutcome, KilledWasThere, Terminal
  <2>6. KilledRollbackRests'
    BY <2>1, <2>3, <2>4 DEF RowHistory, KilledRollbackRests
  <2>7. QED
    BY <2>5, <2>6 DEF RowHistory
<1>9. ASSUME NEW o \in Ops, Cancel(o) PROVE RowHistory'
  <2>1. \E t \in {"cancelled", "cancel_requested"} : MoveTo(o, t) /\ status[o] # "absent"
    BY <1>9 DEF Cancel
  <2>2. \E t \in {"cancelled", "cancel_requested"} : RowMoves(o, t)
    BY <2>1, MoveIsRowMove DEF IInv, Status, Terminal, Live
  <2>3. QED
    BY <1>9, <2>2, MoveKeepsHistory DEF Cancel, Status, Terminal, Live
<1>10. ASSUME NEW i \in Invs, Settle(i) PROVE RowHistory'
  BY <1>10, RestKeepsHistory DEF Settle
<1>11. CASE BeginRecovery
  BY <1>11, RestKeepsHistory DEF BeginRecovery
<1>12. CASE StartWorkers
  BY <1>12, RestKeepsHistory DEF StartWorkers
<1>13. CASE GraceExpires
  <2>1. \A v \in Workers : wk'[v].st \notin {"claimed", "working"}
    BY <1>13 DEF GraceExpires, Busy
  <2>2. QED
    BY <1>13, <2>1, RestKeepsHistory DEF GraceExpires
<1>14. CASE BeginSweep
  BY <1>14, RestKeepsHistory DEF BeginSweep
<1>15. CASE Exit
  BY <1>15, RestKeepsHistory DEF Exit, Lost, Idle
<1>16. ASSUME NEW o \in Ops, RecoverRow(o) PROVE RowHistory'
  <2>1. UNCHANGED <<attr, wk, returned, interrupted>> /\ KindsKnown
    BY <1>16 DEF RecoverRow, RowHistory
  <2>2. QED
    BY <1>16, <2>1, RecoverMoves, MoveKeepsHistory
<1>17. ASSUME NEW o \in Ops, SweepRow(o) PROVE RowHistory'
  <2>1. UNCHANGED <<attr, wk, returned, interrupted>>
    BY <1>17 DEF SweepRow
  <2>2. QED
    BY <1>17, <2>1, SweepMoves, MoveKeepsHistory DEF Status, Terminal, Live
<1>18. CASE BeginStop
  BY <1>18, RestKeepsHistory DEF BeginStop
<1>19. CASE Crash
  <2>1. \A v \in Workers : wk'[v].st \notin {"claimed", "working"}
    BY <1>19 DEF Crash, Lost, Idle
  <2>2. QED
    BY <1>19, <2>1, RestKeepsHistory DEF Crash
<1>20. CASE UNCHANGED vars
  BY <1>20, RestKeepsHistory DEF vars
<1>21. QED
  BY <1>1, <1>2, <1>3, <1>4, <1>5, <1>6, <1>7, <1>8, <1>9, <1>10, <1>11, <1>12, <1>13, <1>14, <1>15, <1>16, <1>17, <1>18, <1>19, <1>20
  DEF Next, Prologue, WorkerStep, Lifecycle

-----------------------------------------------------------------------------
LEMMA IInvStep == IInv /\ [Next]_vars => IInv'
  BY TypeStep, RowsStep, WorkersStep, TodoStep, FreshStep, KeysStep
  DEF IInv, KeysInv

\* IInv is an invariant of every behaviour of the dispatcher.
LEMMA IInvHolds == Spec => []IInv
  BY InitIInv, IInvStep, PTL DEF Spec

\* The type invariant: every row, worker and key stays well formed through
\* claims, crashes, recovery and the shutdown sweep.
THEOREM TypeCorrect == Spec => []TypeOK
<1>1. IInv => TypeOK
  BY DEF IInv
<1>2. QED
  BY <1>1, IInvHolds, PTL

\* Dispatcher, recovery and sweep never enter a rollback handler twice.
THEOREM RollbackNeverReplayed == Spec => []RollbackRunsAtMostOnce
<1>1. IInv => RollbackRunsAtMostOnce
  BY DEF IInv, RollbacksFresh, RollbackRunsAtMostOnce
<1>2. QED
  BY <1>1, IInvHolds, PTL

\* The dispatcher serializes the operations of a session.
THEOREM SessionsSerialized == Spec => []OneHandlerPerSession
<1>1. IInv => OneHandlerPerSession
  BY DEF IInv
<1>2. QED
  BY <1>1, IInvHolds, PTL

\* The dispatcher serializes the rollbacks of a target.
THEOREM RollbacksSerialized == Spec => []OneRollbackPerTarget
<1>1. IInv => OneRollbackPerTarget
  BY DEF IInv
<1>2. QED
  BY <1>1, IInvHolds, PTL

\* The dispatcher's key sets are exactly the keys of what its workers execute.
THEOREM KeysExact == Spec => []KeysMatchHandlers
<1>1. IInv => KeysMatchHandlers
  BY DEF IInv, KeysHeld, KeysNeeded, KeysMatchHandlers
<1>2. QED
  BY <1>1, IInvHolds, PTL

\* What the dispatcher's keys are for: sessions and targets are served one
\* operation at a time, and every key is held exactly as long as its work.
THEOREM WorkSerialized == Spec => []Serialized
<1>1. OneHandlerPerSession /\ OneRollbackPerTarget /\ KeysMatchHandlers => Serialized
  BY DEF Serialized
<1>2. QED
  BY <1>1, SessionsSerialized, RollbacksSerialized, KeysExact, PTL

\* What a row says of its operation is so: a finished row is at rest, its
\* outcome is what the handler did, and a killed rollback is not said to have
\* ended (_finalise of the dispatcher, _classify of recovery, _sweep_running).
THEOREM RowsAreHonest == Spec => []HonestRows
<1>1. IInv /\ RowHistory => HonestRows
  BY DEF IInv, WorkersConsistent, RowHistory, AttemptsClosed, KilledRollbackRests,
     HonestRows, FinishedRowsAreQuiet, InterruptedRollbackIsUncertain, Terminal
<1>2. QED
  BY <1>1, InitIInv, IInvStep, InitRowHistory, RowHistoryStep, PTL DEF Spec

-----------------------------------------------------------------------------
(* The idempotency keys of the routes.                                     *)

\* A running action owns the row of its key: unfinished, with its own hash,
\* and with the lease it was given.
OwnsRow(r) ==
  /\ row[req[r].key].state = "in_progress"
  /\ row[req[r].key].sha = req[r].body
  /\ row[req[r].key].expires = req[r].began + Lease

\* The answer of a completed row was stored by a request with the row's key
\* and, unless an action of the key has outlived its lease, the row's hash.
AnswerOf(k) ==
  \E s \in Requests : /\ row[k].answer = s
                      /\ req[s].st = "stored"
                      /\ req[s].key = k
                      /\ req[s].body = row[k].sha \/ Overrun(k)

\* A stored answer that is still within its retention is in the table.
Retained(s) ==
  /\ req[s].key \in Keys
  /\ req[s].ended <= now
  /\ \/ req[s].ended + Retention <= now
     \/ /\ row[req[s].key].state = "completed"
        /\ row[req[s].key].expires = req[s].ended + Retention


\* A key stays taken through the instant in which one of its actions began,
\* so of two actions of a key the one that runs began later.
Taken(q) ==
  /\ req[q].key \in Keys
  /\ req[q].began <= now
  /\ req[q].began = now => /\ row[req[q].key].state # "absent"
                          /\ row[req[q].key].expires > now
RunsLast ==
  \A r, q \in Requests :
    (/\ req[r].st = "running" /\ req[q].st \in Ran /\ ~Overrun(req[r].key)
     /\ req[q].key = req[r].key /\ q # r) => req[q].began < req[r].began

\* The inductive invariant.  What it says of an owner and of a retained answer
\* holds of the keys none of whose actions has outlived its lease.
KeyInv ==
  /\ KeyTypeOK
  /\ \A r \in Requests :
       req[r].st = "running" /\ ~Overrun(req[r].key) => OwnsRow(r)
  /\ OneRunPerKey
  /\ \A k \in Keys : row[k].state = "completed" => AnswerOf(k)
  /\ ReplayIsOwnAnswer
  /\ \A s \in Requests :
       req[s].st = "stored" /\ ~Overrun(req[s].key) => Retained(s)
  /\ \A r \in Requests : req[r].st \in Ran => Taken(r)
  /\ RunsLast
  /\ NoRerunWhileRetained

\* Pruning yields a table of rows and keeps every row that has not expired.
LEMMA PrunedType ==
  ASSUME KeyTypeOK
  PROVE  /\ Pruned \in [Keys -> Row]
         /\ \A k \in Keys : \/ Pruned[k] = row[k] /\ ~Expired(k)
                            \/ Pruned[k] = NoRow /\ Expired(k)
  <1>1. NoRow \in Row
    BY DEF NoRow, Row
  <1> QED
    BY <1>1 DEF KeyTypeOK, Pruned, Expired

\* Arriving changes the one request and gives it the values named.
LEMMA ArrivedType ==
  ASSUME KeyTypeOK, NEW r \in Requests, NEW k \in Keys, NEW b \in Bodies,
         NEW st \in {"running", "replayed", "conflict", "in_progress"},
         NEW a \in Requests \cup {Null}
  PROVE  /\ Arrived(r, st, k, b, a) \in [Requests -> Request]
         /\ Arrived(r, st, k, b, a)[r] =
              [st |-> st, key |-> k, body |-> b, began |-> now, ended |-> now,
               answer |-> a]
         /\ \A s \in Requests \ {r} : Arrived(r, st, k, b, a)[s] = req[s]
  BY DEF KeyTypeOK, Arrived, Request

\* Ending changes the status and the end time of the one request.
LEMMA EndedType ==
  ASSUME KeyTypeOK, NEW r \in Requests, NEW st \in {"stored", "failed", "lost"}
  PROVE  /\ Ended(r, st) \in [Requests -> Request]
         /\ Ended(r, st)[r] =
              [st |-> st, key |-> req[r].key, body |-> req[r].body,
               began |-> req[r].began, ended |-> now, answer |-> req[r].answer]
         /\ \A s \in Requests \ {r} : Ended(r, st)[s] = req[s]
  BY DEF KeyTypeOK, Ended, Request

\* The initial state satisfies the invariant.
LEMMA InitKeyInv == KeyInit => KeyInv
  BY IdempotencyNone DEF KeyInit, KeyInv, KeyTypeOK, OneRunPerKey, Running,
     ReplayIsOwnAnswer, NoRerunWhileRetained, NoRow, Row, NewRequest, Request,
     Ran, RunsLast

\* What has outlived its lease has done so for good.
LEMMA OverrunStays ==
  ASSUME KeyTypeOK, KeyNext, NEW x, Overrun(x)
  PROVE  Overrun(x)'
  <1> USE IdempotencyTimes
  <1>1. PICK q \in Requests : req[q].key = x /\ Outlived(q)
    BY DEF Overrun
  <1>2. req[q] \in Request /\ now \in Nat
    BY DEF KeyTypeOK
  <1>3. CASE \E r \in Requests, k \in Keys, b \in Bodies :
               Reserve(r, k, b) \/ Replay(r, k, b) \/ Conflict(r, k, b)
                 \/ InProgress(r, k, b)
    <2>1. PICK r \in Requests : /\ req[r].st = "new" /\ now' = now
                               /\ \A s \in Requests \ {r} : req'[s] = req[s]
      BY <1>3 DEF Reserve, Replay, Conflict, InProgress, Arrived, KeyTypeOK
    <2>2. req'[q] = req[q]
      BY <2>1, <1>1 DEF Outlived, Ran
    <2> QED BY <2>1, <2>2, <1>1 DEF Overrun, Outlived
  <1>4. CASE \E r \in Requests : Complete(r) \/ Fail(r) \/ WriteFails(r)
    <2>1. PICK r \in Requests, st \in {"stored", "failed", "lost"} :
            req[r].st = "running" /\ now' = now /\ req' = Ended(r, st)
      BY <1>4 DEF Complete, Fail, WriteFails
    <2>e. /\ req'[r] = [st |-> st, key |-> req[r].key, body |-> req[r].body,
                        began |-> req[r].began, ended |-> now,
                        answer |-> req[r].answer]
          /\ \A s \in Requests \ {r} : req'[s] = req[s]
      BY <2>1 DEF KeyTypeOK, Ended, Request
    <2>2. CASE q = r
      <3>1. /\ req'[q].st \in Ran \ {"running"} /\ req'[q].ended = now
            /\ req'[q].began = req[q].began /\ req'[q].key = x
        BY <2>e, <2>2, <1>1 DEF Ran
      <3>2. req[q].began + Lease <= now
        BY <2>1, <2>2, <1>1 DEF Outlived
      <3> QED BY <3>1, <3>2 DEF Overrun, Outlived
    <2>3. CASE q # r
      BY <2>1, <2>3, <1>1, <2>e DEF Overrun, Outlived
    <2> QED BY <2>2, <2>3
  <1>5. CASE ProcessDies
    <2>1. now' = now /\ req'[q] = IF req[q].st = "running"
                                   THEN Ended(q, "lost")[q] ELSE req[q]
      BY <1>5 DEF ProcessDies
    <2>e. Ended(q, "lost")[q] =
            [st |-> "lost", key |-> req[q].key, body |-> req[q].body,
             began |-> req[q].began, ended |-> now, answer |-> req[q].answer]
      BY EndedType
    <2>2. CASE req[q].st = "running"
      <3>1. /\ req'[q].st \in Ran \ {"running"} /\ req'[q].ended = now
            /\ req'[q].began = req[q].began /\ req'[q].key = x
        BY <2>1, <2>e, <2>2, <1>1 DEF Ran
      <3>2. req[q].began + Lease <= now
        BY <2>2, <1>1 DEF Outlived
      <3> QED BY <3>1, <3>2 DEF Overrun, Outlived
    <2>3. CASE req[q].st # "running"
      BY <2>1, <2>3, <1>1 DEF Overrun, Outlived
    <2> QED BY <2>2, <2>3
  <1>6. CASE Tick
    BY <1>6, <1>1, <1>2 DEF Tick, Overrun, Outlived, Request
  <1> QED BY <1>3, <1>4, <1>5, <1>6 DEF KeyNext

\* The lease of an action that has not outlived it is still running.
LEMMA LeaseRuns ==
  ASSUME KeyInv, NEW s \in Requests, req[s].st = "running",
         ~Overrun(req[s].key)
  PROVE  /\ req[s].key \in Keys /\ OwnsRow(s) /\ ~Expired(req[s].key)
         /\ row[req[s].key].state = "in_progress"
         /\ req[s].began <= now /\ now < req[s].began + Lease
  <1>1. Taken(s) /\ OwnsRow(s)
    BY DEF KeyInv, Ran
  <1>2. now \in Nat /\ req[s].began \in Nat /\ Lease \in Nat
    BY IdempotencyTimes DEF KeyInv, KeyTypeOK, Request
  <1>3. now < req[s].began + Lease
    BY <1>2 DEF Overrun, Outlived, Ran
  <1> QED BY <1>1, <1>2, <1>3 DEF Taken, OwnsRow, Expired

\* A reservation wins its key.
LEMMA ReserveKeeps ==
  ASSUME KeyInv, NEW r \in Requests, NEW k \in Keys,
         NEW b \in Bodies, Reserve(r, k, b)
  PROVE  KeyInv'
  <1> USE IdempotencyTimes
  <1>t. KeyTypeOK
    BY DEF KeyInv
  <1>p. /\ Pruned \in [Keys -> Row]
        /\ \A x \in Keys : \/ Pruned[x] = row[x] /\ ~Expired(x)
                           \/ Pruned[x] = NoRow /\ Expired(x)
    BY <1>t, PrunedType
  <1>a. /\ req' \in [Requests -> Request]
        /\ req'[r] = [st |-> "running", key |-> k, body |-> b, began |-> now,
                      ended |-> now, answer |-> Null]
        /\ \A s \in Requests \ {r} : req'[s] = req[s]
    BY <1>t, ArrivedType DEF Reserve
  <1>n. now' = now /\ keyFaults' = keyFaults /\ req[r].st = "new"
    BY DEF Reserve
  <1>v. \A x : Overrun(x) => Overrun(x)'
    BY <1>t, OverrunStays DEF KeyNext
  <1>r. /\ row' \in [Keys -> Row]
        /\ row'[k] = [state |-> "in_progress", sha |-> b, answer |-> Null,
                      expires |-> now + Lease]
        /\ \A x \in Keys \ {k} : row'[x] = Pruned[x]
        /\ Pruned[k].state = "absent"
    BY <1>t, <1>p DEF Reserve, Reserved, Row, KeyTypeOK
  <1>1. KeyTypeOK'
    BY <1>t, <1>a, <1>n, <1>r DEF KeyTypeOK
  \* No action runs under k: its owner's row would not have been pruned.
  <1>2. \A s \in Requests : req[s].st = "running" /\ ~Overrun(req[s].key) =>
          /\ req[s].key \in Keys \ {k} /\ ~Expired(req[s].key) /\ OwnsRow(s)
    <2> SUFFICES ASSUME NEW s \in Requests, req[s].st = "running",
                        ~Overrun(req[s].key)
                 PROVE  req[s].key # k
      BY LeaseRuns
    <2> QED BY LeaseRuns, <1>p, <1>r
  <1>3. \A s \in Requests :
          req'[s].st = "running" /\ ~Overrun(req[s].key)' => OwnsRow(s)'
    <2> SUFFICES ASSUME NEW s \in Requests, req'[s].st = "running",
                        ~Overrun(req[s].key)'
                 PROVE  OwnsRow(s)'
      OBVIOUS
    <2>1. CASE s = r
      BY <2>1, <1>a, <1>r, <1>n, <1>t DEF OwnsRow, KeyTypeOK
    <2>2. CASE s # r
      <3>1. req'[s] = req[s] /\ ~Overrun(req[s].key)
        BY <2>2, <1>a, <1>v
      <3> QED BY <3>1, <1>2, <1>r, <1>p DEF OwnsRow
    <2> QED BY <2>1, <2>2
  <1>4. OneRunPerKey'
    BY <1>2, <1>a, <1>v DEF OneRunPerKey, Running, KeyInv
  <1>5. \A x \in Keys : row'[x].state = "completed" => AnswerOf(x)'
    <2> SUFFICES ASSUME NEW x \in Keys, row'[x].state = "completed"
                 PROVE  AnswerOf(x)'
      OBVIOUS
    <2>1. row'[x] = row[x] /\ AnswerOf(x)
      BY <1>r, <1>p DEF KeyInv, NoRow
    <2> QED BY <2>1, <1>a, <1>n, <1>v DEF AnswerOf
  <1>6. ReplayIsOwnAnswer'
    BY <1>a, <1>n, <1>v DEF ReplayIsOwnAnswer, KeyInv
  \* A stored answer of k has outlived its retention, or k would be taken.
  <1>7. \A s \in Requests :
          req[s].st = "stored" /\ req[s].key = k /\ ~Overrun(k) =>
            req[s].ended + Retention <= now
    BY <1>r, <1>p, <1>t DEF Retained, KeyInv, Expired, KeyTypeOK, Request, Row
  <1>8. \A s \in Requests :
          req'[s].st = "stored" /\ ~Overrun(req[s].key)' => Retained(s)'
    <2> SUFFICES ASSUME NEW s \in Requests, req'[s].st = "stored",
                        ~Overrun(req[s].key)'
                 PROVE  Retained(s)'
      OBVIOUS
    <2>v. ~Overrun(req[s].key)
      BY <1>v, <1>a
    <2>0. s # r /\ req'[s] = req[s]
      BY <1>a
    <2>1. s # r /\ req'[s] = req[s] /\ Retained(s) /\ req[s].ended \in Nat
      BY <2>0, <2>v, <1>t DEF KeyInv, KeyTypeOK, Request
    <2>2. CASE req[s].key = k
      BY <2>1, <2>2, <2>v, <1>7, <1>n DEF Retained
    <2>3. CASE req[s].key # k
      BY <2>1, <2>3, <1>r, <1>p, <1>n DEF Retained, Expired
    <2> QED BY <2>2, <2>3
  <1>9. \A s \in Requests : req'[s].st \in Ran => Taken(s)'
    <2> SUFFICES ASSUME NEW s \in Requests, req'[s].st \in Ran
                 PROVE  Taken(s)'
      OBVIOUS
    <2>1. CASE s = r
      BY <2>1, <1>a, <1>n, <1>r, <1>t DEF Taken, KeyTypeOK
    <2>2. CASE s # r
      <3>1. Taken(s) /\ req'[s] = req[s] /\ req[s].began \in Nat /\ now \in Nat
        BY <2>2, <1>a, <1>t DEF KeyInv, KeyTypeOK, Request
      <3>2. CASE req[s].key = k
        BY <3>1, <3>2, <1>n, <1>r DEF Taken
      <3>3. CASE req[s].key # k
        <4>1. row'[req[s].key] = Pruned[req[s].key] /\ req[s].key \in Keys
          BY <3>1, <3>3, <1>r DEF Taken
        <4>2. req[s].began = now => ~Expired(req[s].key)
          BY <3>1, <4>1, <1>t DEF Taken, Expired, KeyTypeOK, Row
        <4> QED BY <3>1, <4>1, <4>2, <1>n, <1>p DEF Taken
      <3> QED BY <3>2, <3>3
    <2> QED BY <2>1, <2>2
  <1>11. RunsLast'
    <2>1. \A q \in Requests : req[q].st \in Ran /\ req[q].key = k =>
            req[q].began < now
      <3> SUFFICES ASSUME NEW q \in Requests, req[q].st \in Ran, req[q].key = k
                   PROVE  req[q].began < now
        OBVIOUS
      <3>1. Taken(q) /\ req[q].began \in Nat /\ now \in Nat
        BY <1>t DEF KeyInv, KeyTypeOK, Request
      <3>2. req[q].began = now => row[k].state # "absent" /\ ~Expired(k)
        BY <3>1, <1>t DEF Taken, Expired, KeyTypeOK, Row
      <3>3. req[q].began # now
        BY <3>2, <1>p, <1>r
      <3> QED BY <3>1, <3>3 DEF Taken
    <2> QED BY <2>1, <1>2, <1>a, <1>n, <1>v DEF RunsLast, KeyInv
  <1>10. NoRerunWhileRetained'
    BY <1>7, <1>a, <1>n, <1>t, <1>v DEF NoRerunWhileRetained, KeyInv, KeyTypeOK,
       Request, Ran
  <1> QED
    BY <1>1, <1>3, <1>4, <1>5, <1>6, <1>8, <1>9, <1>10, <1>11
    DEF KeyInv

\* An answer from an existing row prunes and changes nothing else that runs.
LEMMA AnswerKeeps ==
  ASSUME KeyInv, NEW r \in Requests, NEW k \in Keys,
         NEW b \in Bodies,
         Replay(r, k, b) \/ Conflict(r, k, b) \/ InProgress(r, k, b)
  PROVE  KeyInv'
  <1> USE IdempotencyTimes
  <1>t. KeyTypeOK
    BY DEF KeyInv
  <1>p. /\ Pruned \in [Keys -> Row]
        /\ \A x \in Keys : \/ Pruned[x] = row[x] /\ ~Expired(x)
                           \/ Pruned[x] = NoRow /\ Expired(x)
    BY <1>t, PrunedType
  <1>n. /\ now' = now /\ keyFaults' = keyFaults /\ req[r].st = "new"
        /\ row' = Pruned
    BY DEF Replay, Conflict, InProgress
  <1>v. \A x : Overrun(x) => Overrun(x)'
    BY <1>t, OverrunStays DEF KeyNext
  <1>a. PICK st \in {"replayed", "conflict", "in_progress"},
             a \in Requests \cup {Null} :
          /\ req' = Arrived(r, st, k, b, a)
          /\ st = "replayed" => Replay(r, k, b) /\ a = Pruned[k].answer
    <2>1. Pruned[k].answer \in Requests \cup {Null}
      BY <1>p DEF Row
    <2> QED BY <2>1 DEF Replay, Conflict, InProgress
  <1>b. /\ req' \in [Requests -> Request]
        /\ req'[r] = [st |-> st, key |-> k, body |-> b, began |-> now,
                      ended |-> now, answer |-> a]
        /\ \A s \in Requests \ {r} : req'[s] = req[s]
    BY <1>a, <1>t, ArrivedType
  <1>1. KeyTypeOK'
    BY <1>t, <1>b, <1>n, <1>p DEF KeyTypeOK
  <1>3. \A s \in Requests :
          req'[s].st = "running" /\ ~Overrun(req[s].key)' => OwnsRow(s)'
    <2> SUFFICES ASSUME NEW s \in Requests, req'[s].st = "running",
                        ~Overrun(req[s].key)'
                 PROVE  OwnsRow(s)'
      OBVIOUS
    <2>1. s # r /\ req'[s] = req[s] /\ ~Overrun(req[s].key)
      BY <1>b, <1>a, <1>v
    <2>2. req[s].key \in Keys /\ OwnsRow(s) /\ ~Expired(req[s].key)
      BY <2>1, LeaseRuns
    <2> QED BY <2>1, <2>2, <1>p, <1>n DEF OwnsRow
  <1>4. OneRunPerKey'
    BY <1>b, <1>a, <1>v DEF OneRunPerKey, Running, KeyInv
  <1>5. \A x \in Keys : row'[x].state = "completed" => AnswerOf(x)'
    <2> SUFFICES ASSUME NEW x \in Keys, row'[x].state = "completed"
                 PROVE  AnswerOf(x)'
      OBVIOUS
    <2>1. row'[x] = row[x] /\ AnswerOf(x)
      BY <1>n, <1>p DEF KeyInv, NoRow
    <2> QED BY <2>1, <1>b, <1>n, <1>v DEF AnswerOf
  <1>6. ReplayIsOwnAnswer'
    <2>1. st = "replayed" => AnswerOf(k) /\ a = row[k].answer /\ b = row[k].sha
      BY <1>a, <1>p DEF Replay, SameRequest, NoRow, KeyInv
    <2> QED BY <2>1, <1>b, <1>n, <1>v DEF ReplayIsOwnAnswer, AnswerOf, KeyInv
  <1>8. \A s \in Requests :
          req'[s].st = "stored" /\ ~Overrun(req[s].key)' => Retained(s)'
    <2> SUFFICES ASSUME NEW s \in Requests, req'[s].st = "stored",
                        ~Overrun(req[s].key)'
                 PROVE  Retained(s)'
      OBVIOUS
    <2>1. s # r /\ req'[s] = req[s] /\ Retained(s)
      BY <1>a, <1>b, <1>v DEF KeyInv
    <2> QED BY <2>1, <1>n, <1>p, <1>t DEF Retained, Expired, KeyTypeOK, Request, Row
  <1>9. \A s \in Requests : req'[s].st \in Ran => Taken(s)'
    BY <1>b, <1>n, <1>p, <1>t, <1>a DEF Taken, KeyInv, Expired, KeyTypeOK, Ran, Row,
       Request
  <1>11. RunsLast'
    BY <1>b, <1>a, <1>v DEF RunsLast, KeyInv, Ran
  <1>10. NoRerunWhileRetained'
    BY <1>b, <1>n, <1>a, <1>t, <1>v DEF NoRerunWhileRetained, KeyInv, Ran
  <1> QED
    BY <1>1, <1>3, <1>4, <1>5, <1>6, <1>8, <1>9, <1>10, <1>11
    DEF KeyInv

\* The end of an action: the row of its key changes, or no row does; unless an
\* action of the key has outlived its lease, no other one runs under it.
LEMMA EndKeeps ==
  ASSUME KeyInv, NEW r \in Requests,
         Complete(r) \/ Fail(r) \/ WriteFails(r)
  PROVE  KeyInv'
  <1> USE IdempotencyTimes
  <1>t. KeyTypeOK
    BY DEF KeyInv
  <1>o. /\ req[r].st = "running" /\ req[r] \in Request
        /\ req[r].key \in Keys /\ row[req[r].key] \in Row
        /\ ~Overrun(req[r].key) =>
             /\ OwnsRow(r)
             /\ \A s \in Requests \ {r} : req[s].st = "running" =>
                   req[s].key # req[r].key
    BY DEF KeyInv, Complete, Fail, WriteFails, OneRunPerKey, Running, KeyTypeOK,
       Taken, Ran
  <1>n. now' = now /\ keyFaults' \in Nat
    BY <1>t DEF Complete, Fail, WriteFails, KeyTypeOK
  <1>v. \A x : Overrun(x) => Overrun(x)'
    BY <1>t, OverrunStays DEF KeyNext
  <1> DEFINE k == req[r].key
  <1>k. k \in Keys
    BY <1>o
  <1>a. PICK st \in {"stored", "failed", "lost"} :
          /\ st # "lost" /\ req' = Ended(r, st)
          /\ st = "stored" <=> Complete(r)
    BY DEF Complete, Fail, WriteFails
  <1>b. /\ req' \in [Requests -> Request]
        /\ req'[r] = [st |-> st, key |-> req[r].key, body |-> req[r].body,
                      began |-> req[r].began, ended |-> now,
                      answer |-> req[r].answer]
        /\ \A s \in Requests \ {r} : req'[s] = req[s]
    <2> HIDE DEF k
    <2>1. req' = Ended(r, st)
      BY <1>a
    <2> QED BY <2>1, <1>t DEF KeyTypeOK, Ended, Request
  <1>r. /\ row' \in [Keys -> Row]
        /\ \A x \in Keys \ {k} : row'[x] = row[x]
        /\ row'[k].sha = row[k].sha
        /\ \/ row'[k] = row[k]
           \/ /\ row[k].state = "in_progress" /\ st = "stored"
              /\ row'[k].state = "completed" /\ row'[k].answer = r
              /\ row'[k].expires = now + Retention
           \/ /\ row[k].state = "in_progress"
              /\ row'[k].state = "in_progress" /\ row'[k].expires > now
        /\ row[k].state = "in_progress" =>
             (st = "stored" <=> row'[k].state = "completed")
    <2>1. CASE Complete(r)
      BY <2>1, <1>o, <1>k, <1>t, <1>a DEF Complete, MarkCompleted, Completed,
         OwnsRow, KeyTypeOK, Row
    <2>2. CASE Fail(r) /\ ~Complete(r)
      BY <2>2, <1>o, <1>k, <1>t, <1>a DEF Fail, RearmLease, Rearmed, OwnsRow,
         KeyTypeOK, Row
    <2>3. CASE WriteFails(r) /\ ~Complete(r)
      BY <2>3, <1>o, <1>k, <1>t, <1>a DEF WriteFails, OwnsRow, KeyTypeOK, Row,
         Request
    <2> QED BY <2>1, <2>2, <2>3
  <1>1. KeyTypeOK'
    BY <1>t, <1>b, <1>n, <1>r DEF KeyTypeOK
  <1>3. \A s \in Requests :
          req'[s].st = "running" /\ ~Overrun(req[s].key)' => OwnsRow(s)'
    <2> SUFFICES ASSUME NEW s \in Requests, req'[s].st = "running",
                        ~Overrun(req[s].key)'
                 PROVE  OwnsRow(s)'
      OBVIOUS
    <2>1. s # r /\ req'[s] = req[s] /\ ~Overrun(req[s].key)
      BY <1>b, <1>a, <1>v
    <2>2. OwnsRow(s) /\ req[s].key \in Keys \ {k}
      BY <2>1, <1>o, LeaseRuns
    <2> QED BY <2>1, <2>2, <1>r, <1>n DEF OwnsRow
  <1>4. OneRunPerKey'
    BY <1>b, <1>a, <1>v DEF OneRunPerKey, Running, KeyInv
  <1>5. \A x \in Keys : row'[x].state = "completed" => AnswerOf(x)'
    <2> SUFFICES ASSUME NEW x \in Keys, row'[x].state = "completed"
                 PROVE  AnswerOf(x)'
      OBVIOUS
    <2>1. CASE row'[x] # row[x]
      <3>1. /\ x = k /\ row'[k].answer = r /\ row'[k].sha = row[k].sha
            /\ st = "stored"
        BY <2>1, <1>r
      <3>2. row[x].sha = req[r].body \/ Overrun(x)'
        BY <3>1, <1>o, <1>v DEF OwnsRow
      <3>3. /\ row'[x].answer = r /\ req'[r].st = "stored" /\ req'[r].key = x
            /\ req'[r].body = row'[x].sha \/ Overrun(x)'
        BY <3>1, <3>2, <1>b
      <3> QED BY <3>3 DEF AnswerOf
    <2>2. CASE row'[x] = row[x]
      <3>1. AnswerOf(x)
        BY <2>2 DEF KeyInv
      <3> QED BY <3>1, <2>2, <1>b, <1>o, <1>v DEF AnswerOf
    <2> QED BY <2>1, <2>2
  <1>6. ReplayIsOwnAnswer'
    BY <1>b, <1>a, <1>o, <1>v DEF ReplayIsOwnAnswer, KeyInv
  <1>7. \A s \in Requests :
          req[s].st = "stored" /\ req[s].key = k /\ ~Overrun(k) =>
            req[s].ended + Retention <= now
    BY <1>o DEF Retained, KeyInv, OwnsRow
  <1>8. \A s \in Requests :
          req'[s].st = "stored" /\ ~Overrun(req[s].key)' => Retained(s)'
    <2> SUFFICES ASSUME NEW s \in Requests, req'[s].st = "stored",
                        ~Overrun(req[s].key)'
                 PROVE  Retained(s)'
      OBVIOUS
    <2>v. ~Overrun(req[s].key)
      BY <1>v, <1>b
    <2>1. CASE s = r
      <3>1. row[k].state = "in_progress" /\ st = "stored"
        BY <2>1, <2>v, <1>b, <1>o DEF OwnsRow
      <3> QED BY <2>1, <3>1, <1>b, <1>r, <1>n, <1>k, <1>t DEF Retained, KeyTypeOK
    <2>2. CASE s # r
      BY <2>2, <2>v, <1>7, <1>b, <1>r, <1>n DEF Retained, KeyInv
    <2> QED BY <2>1, <2>2
  <1>9. \A s \in Requests : req'[s].st \in Ran => Taken(s)'
    <2> SUFFICES ASSUME NEW s \in Requests, req'[s].st \in Ran
                 PROVE  Taken(s)'
      OBVIOUS
    <2>1. /\ Taken(s) /\ req'[s].key = req[s].key
          /\ req'[s].began = req[s].began
      BY <1>b, <1>o DEF KeyInv, Ran
    <2>2. \/ row'[k] = row[k]
          \/ row'[k].state # "absent" /\ row'[k].expires > now
      BY <1>r, <1>t DEF KeyTypeOK
    <2> QED BY <2>1, <2>2, <1>n, <1>r DEF Taken
  <1>11. RunsLast'
    <2>1. \A s \in Requests : /\ req'[s].began = req[s].began
                              /\ req'[s].key = req[s].key
                              /\ req'[s].st \in Ran => req[s].st \in Ran
                              /\ req'[s].st = "running" => req[s].st = "running"
      BY <1>b, <1>o, <1>a DEF Ran
    <2> QED BY <2>1, <1>v DEF RunsLast, KeyInv
  \* Every other action of this key began before this one did.
  <1>10. NoRerunWhileRetained'
    <2> SUFFICES ASSUME NEW q \in Requests, NEW s \in Requests, q # s,
                        req'[s].st = "stored", req'[q].st \in Ran,
                        req'[q].key = req'[s].key,
                        req'[s].ended <= req'[q].began,
                        ~Overrun(req[s].key)'
                 PROVE  req'[s].ended + Retention <= req'[q].began
      BY DEF NoRerunWhileRetained, Ran
    <2>1. CASE s = r
      <3>0. ~Overrun(req[r].key) /\ req[q].st \in Ran /\ req[q].key = req[r].key
        BY <2>1, <1>b, <1>v
      <3>1. req[q].began < req[r].began /\ req[r].began <= now
        BY <2>1, <3>0, <1>o DEF KeyInv, RunsLast, Taken, Ran
      <3>2. /\ req'[s].ended = now /\ req'[q].began = req[q].began
            /\ req[q].began \in Nat /\ req[r].began \in Nat /\ now \in Nat
        BY <2>1, <1>b, <1>t DEF KeyTypeOK, Request
      <3> QED BY <3>1, <3>2
    <2>2. CASE s # r
      BY <2>2, <1>b, <1>a, <1>o, <1>v DEF NoRerunWhileRetained, KeyInv, Ran
    <2> QED BY <2>1, <2>2
  <1> QED
    BY <1>1, <1>3, <1>4, <1>5, <1>6, <1>8, <1>9, <1>10, <1>11
    DEF KeyInv

\* A crash ends every running action and leaves the rows.
LEMMA CrashKeeps ==
  ASSUME KeyInv, ProcessDies
  PROVE  KeyInv'
  <1> USE IdempotencyTimes
  <1>t. KeyTypeOK
    BY DEF KeyInv
  <1>n. now' = now /\ keyFaults' \in Nat /\ row' = row
    BY <1>t DEF ProcessDies, KeyTypeOK
  <1>b. /\ req' \in [Requests -> Request]
        /\ \A s \in Requests :
             IF req[s].st = "running"
               THEN req'[s] = [st |-> "lost", key |-> req[s].key,
                      body |-> req[s].body, began |-> req[s].began,
                      ended |-> now, answer |-> req[s].answer]
               ELSE req'[s] = req[s]
    <2>1. \A s \in Requests :
            /\ Ended(s, "lost")[s] \in Request
            /\ Ended(s, "lost")[s] = [st |-> "lost", key |-> req[s].key,
                      body |-> req[s].body, began |-> req[s].began,
                      ended |-> now, answer |-> req[s].answer]
            /\ req[s] \in Request
      BY <1>t, EndedType DEF KeyTypeOK
    <2>2. req' = [s \in Requests |->
                    IF req[s].st = "running" THEN Ended(s, "lost")[s] ELSE req[s]]
      BY DEF ProcessDies
    <2> HIDE DEF Ended
    <2> QED BY <2>1, <2>2
  <1>c. \A s \in Requests :
          /\ req'[s].key = req[s].key /\ req'[s].body = req[s].body
          /\ req'[s].began = req[s].began /\ req'[s].answer = req[s].answer
          /\ req'[s].st # "running"
          /\ req'[s].st \in Ran <=> req[s].st \in Ran
          /\ req'[s].st = "stored" <=> req[s].st = "stored"
          /\ req'[s].st = "replayed" <=> req[s].st = "replayed"
          /\ req[s].st = "stored" => req'[s].ended = req[s].ended
    BY <1>b DEF Ran
  <1>1. KeyTypeOK'
    BY <1>t, <1>b, <1>n DEF KeyTypeOK
  <1>v. \A x : Overrun(x) => Overrun(x)'
    BY <1>t, OverrunStays DEF KeyNext
  <1>2. /\ \A s \in Requests :
             req'[s].st = "running" /\ ~Overrun(req[s].key)' => OwnsRow(s)'
        /\ OneRunPerKey' /\ RunsLast'
    BY <1>c DEF OneRunPerKey, Running, RunsLast
  <1>3. \A x \in Keys : row'[x].state = "completed" => AnswerOf(x)'
    BY <1>c, <1>n, <1>v DEF KeyInv, AnswerOf
  <1>4. ReplayIsOwnAnswer'
    BY <1>c, <1>v DEF KeyInv, ReplayIsOwnAnswer
  <1>5. \A s \in Requests :
          req'[s].st = "stored" /\ ~Overrun(req[s].key)' => Retained(s)'
    BY <1>c, <1>n, <1>v DEF KeyInv, Retained
  <1>6. \A s \in Requests : req'[s].st \in Ran => Taken(s)'
    BY <1>c, <1>n DEF KeyInv, Taken
  <1>7. NoRerunWhileRetained'
    BY <1>c, <1>v DEF KeyInv, NoRerunWhileRetained, Ran
  <1> QED BY <1>1, <1>2, <1>3, <1>4, <1>5, <1>6, <1>7 DEF KeyInv

\* Time passes; a running action that reaches the end of its lease overruns it.
LEMMA TickKeeps ==
  ASSUME KeyInv, Tick
  PROVE  KeyInv'
  <1> USE IdempotencyTimes
  <1>t. KeyTypeOK
    BY DEF KeyInv
  <1>n. now' = now + 1 /\ UNCHANGED <<row, req, keyFaults>> /\ now \in Nat
    BY <1>t DEF Tick, KeyTypeOK
  <1>1. KeyTypeOK'
    BY <1>t, <1>n DEF KeyTypeOK
  <1>v. \A x : Overrun(x) => Overrun(x)'
    BY <1>t, OverrunStays DEF KeyNext
  <1>2. \A s \in Requests :
          req'[s].st = "running" /\ ~Overrun(req[s].key)' => OwnsRow(s)'
    BY <1>n, <1>v DEF KeyInv, OwnsRow
  <1>3. OneRunPerKey' /\ RunsLast' /\ ReplayIsOwnAnswer' /\ NoRerunWhileRetained'
    BY <1>n, <1>v DEF KeyInv, OneRunPerKey, Running, RunsLast, ReplayIsOwnAnswer,
       NoRerunWhileRetained
  <1>4. \A x \in Keys : row'[x].state = "completed" => AnswerOf(x)'
    BY <1>n, <1>v DEF KeyInv, AnswerOf
  <1>5. \A s \in Requests :
          req'[s].st = "stored" /\ ~Overrun(req[s].key)' => Retained(s)'
    BY <1>n, <1>t, <1>v DEF KeyInv, Retained, KeyTypeOK, Request
  <1>6. \A s \in Requests : req'[s].st \in Ran => Taken(s)'
    BY <1>n, <1>t DEF KeyInv, Taken, KeyTypeOK, Request
  <1> QED BY <1>1, <1>2, <1>3, <1>4, <1>5, <1>6 DEF KeyInv

\* The invariant is inductive.
LEMMA NextKeyInv ==
  ASSUME KeyInv, [KeyNext]_idemVars
  PROVE  KeyInv'
  <1>1. CASE KeyNext
    BY <1>1, ReserveKeeps, AnswerKeeps, EndKeeps, CrashKeeps, TickKeeps DEF KeyNext
  <1>2. CASE UNCHANGED idemVars
    BY <1>2 DEF idemVars, KeyInv, KeyTypeOK, OwnsRow, OneRunPerKey, Running, AnswerOf,
       ReplayIsOwnAnswer, Retained, Taken, RunsLast, NoRerunWhileRetained, Overrun,
       Outlived
  <1> QED BY <1>1, <1>2

\* Every step keeps the types, however long the actions run: mark_completed and
\* rearm_lease rewrite a row as a row, whoever it belongs to by then.
LEMMA KeyTypesKept ==
  ASSUME KeyTypeOK, [KeyNext]_idemVars
  PROVE  KeyTypeOK'
  <1> USE IdempotencyTimes
  <1>1. CASE \E r \in Requests, k \in Keys, b \in Bodies :
               Reserve(r, k, b) \/ Replay(r, k, b) \/ Conflict(r, k, b)
                 \/ InProgress(r, k, b)
    <2>1. PICK r \in Requests, k \in Keys, b \in Bodies :
            Reserve(r, k, b) \/ Replay(r, k, b) \/ Conflict(r, k, b)
              \/ InProgress(r, k, b)
      BY <1>1
    <2>2. Pruned \in [Keys -> Row] /\ Reserved(b) \in Row
      BY PrunedType DEF Reserved, Row, KeyTypeOK
    <2>3. Pruned[k].answer \in Requests \cup {Null}
      BY <2>2 DEF Row
    <2>4. row' \in [Keys -> Row]
      BY <2>1, <2>2 DEF Reserve, Replay, Conflict, InProgress
    <2>5. req' \in [Requests -> Request]
      <3>1. \A a \in Requests \cup {Null},
               st \in {"running", "replayed", "conflict", "in_progress"} :
                 Arrived(r, st, k, b, a) \in [Requests -> Request]
        BY ArrivedType
      <3> QED BY <2>1, <2>3, <3>1 DEF Reserve, Replay, Conflict, InProgress
    <2> QED
      BY <2>1, <2>4, <2>5 DEF KeyTypeOK, Reserve, Replay, Conflict, InProgress
  <1>2. CASE \E r \in Requests : Complete(r) \/ Fail(r) \/ WriteFails(r)
    <2>1. PICK r \in Requests : Complete(r) \/ Fail(r) \/ WriteFails(r)
      BY <1>2
    <2>2. \A k \in Keys : Completed(k, r) \in Row /\ Rearmed(k) \in Row
      BY DEF Completed, Rearmed, Row, KeyTypeOK
    <2>3. \A k \in Keys \cup {Null} : /\ MarkCompleted(k, r) \in [Keys -> Row]
                                     /\ RearmLease(k) \in [Keys -> Row]
      <3>1. TAKE k \in Keys \cup {Null}
      <3>2. CASE k \in Keys
        BY <2>2, <3>2 DEF MarkCompleted, RearmLease, KeyTypeOK
      <3>3. CASE k \notin Keys
        \* An update outside the table's keys leaves it as it is.
        <4>1. \A v : [row EXCEPT ![k] = v] = row
          BY <3>3, Zenon DEF KeyTypeOK
        <4> QED BY <4>1, Zenon DEF MarkCompleted, RearmLease, KeyTypeOK
      <3> QED BY <3>2, <3>3
    <2>4. req[r].key \in Keys \cup {Null}
      BY DEF KeyTypeOK, Request
    <2>5. req' \in [Requests -> Request]
      BY <2>1, EndedType DEF Complete, Fail, WriteFails
    <2> QED
      BY <2>1, <2>3, <2>4, <2>5 DEF KeyTypeOK, Complete, Fail, WriteFails
  <1>3. CASE ProcessDies
    <2>1. \A r \in Requests : Ended(r, "lost")[r] \in Request
      BY EndedType
    <2> QED
      BY <1>3, <2>1 DEF ProcessDies, KeyTypeOK
  <1>4. CASE Tick
    BY <1>4 DEF Tick, KeyTypeOK
  <1>5. CASE UNCHANGED idemVars
    BY <1>5 DEF idemVars, KeyTypeOK
  <1> QED BY <1>1, <1>2, <1>3, <1>4, <1>5 DEF KeyNext

\* Type correctness of the key table and of the requests, for all lease and
\* retention times and actions of any length.
THEOREM IdempotencyTypes == KeySpec => []KeyTypeOK
  <1>1. KeyInit => KeyTypeOK
    BY InitKeyInv DEF KeyInv
  <1> QED BY <1>1, KeyTypesKept, PTL DEF KeySpec

\* execute_idempotent never has two actions of one key in flight, unless an
\* action of that key has outlived RESERVATION_LEASE_SECONDS.
THEOREM ActionsExclusive == KeySpec => []OneRunPerKey
  <1>1. KeyInv => OneRunPerKey
    BY DEF KeyInv
  <1> QED BY <1>1, InitKeyInv, NextKeyInv, PTL DEF KeySpec

\* A replayed answer was stored by an action of the same key, and for the same
\* request hash unless an action of the key has outlived its lease.
THEOREM ReplaysExact == KeySpec => []ReplayIsOwnAnswer
  <1>1. KeyInv => ReplayIsOwnAnswer
    BY DEF KeyInv
  <1> QED BY <1>1, InitKeyInv, NextKeyInv, PTL DEF KeySpec

\* A stored 2xx answer keeps its key from running again until
\* COMPLETED_RETENTION_SECONDS have passed, with the same exception.
THEOREM StoredAnswersHold == KeySpec => []NoRerunWhileRetained
  <1>1. KeyInv => NoRerunWhileRetained
    BY DEF KeyInv
  <1> QED BY <1>1, InitKeyInv, NextKeyInv, PTL DEF KeySpec

\* execute_idempotent runs an action neither beside nor after another one of its
\* key whose answer is retained, until an action of that key outlives its lease;
\* actions run for any time and may do so.
THEOREM RunsExactlyOnce == KeySpec => []ExactlyOnce
  <1>1. OneRunPerKey /\ NoRerunWhileRetained => ExactlyOnce
    BY DEF ExactlyOnce
  <1> QED BY <1>1, ActionsExclusive, StoredAnswersHold, PTL

=============================================================================
