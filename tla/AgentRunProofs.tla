--------------------------- MODULE AgentRunProofs ---------------------------
(***************************************************************************)
(* Proofs about AgentRun, for any number of calls, runs, coroutines and    *)
(* crashes: type correctness, exclusive execution of calls, at most one    *)
(* effect per call, effects only under a spent approval, no call started   *)
(* after a cancel, and nothing left behind by startup and shutdown.        *)
(*                                                                         *)
(* The inductive invariant adds to these: nobody is at work while startup  *)
(* or shutdown rewrites the rows (Dormant); the event loop gives one       *)
(* coroutine at a time the middle of a code section (OneSection); a        *)
(* coroutine that holds a call is the only one and the row says so         *)
(* (Holding, OneHolder); a call that may still be started has had no       *)
(* effect (Fresh).  LeftInv, on top of it, follows the commits that a      *)
(* section owes, the spending of approvals and the calls without an        *)
(* executor through startup, shutdown and crashes.                         *)
(*                                                                         *)
(* The second part is about Transcript, for any number of messages,        *)
(* rounds, reports, resumes, crashes, tools and token sizes: nothing that  *)
(* happened is hidden from the model, and tool uses keep their results.    *)
(* Its invariant (TranscriptInv) says in addition that a log that is being sent is *)
(* whole and that one that is being answered is whole but for its last     *)
(* message (Whole, AskedLast), what a request and a compaction in flight   *)
(* were built from (Requested, AskedWell, Covering), that every trouble is *)
(* in the tail or in the memory as long as the log can be sent at all      *)
(* (TroubleKept), and how the breaker and the histories hang together      *)
(* (Breaking, Reacting).                                                   *)
(***************************************************************************)
EXTENDS AgentRun, Transcript, FiniteSetTheorems, SequenceTheorems, NaturalsInduction,
        WellFoundedInduction, TLAPS

LoopPcs == LoopAwaits \cup DecisionAwaits \cup Mid \cup {"off"}
Coroutines == [pc: LoopPcs, run: Runs \cup {None}, call: Calls \cup {None},
               appr: Calls \cup {None}]

\* A coroutine at one of these has a call; at one of Deciding, an approval.
Holds    == Executes \cup {"planned"}
Deciding == DecisionAwaits \cup (Mid \ {"planned"})
Asleep   == {"down", "settling", "sweeping"}

Dormant == proc \in Asleep => AllOff

Holding ==
  \A t \in Tasks :
    /\ task[t].pc \in Holds => task[t].call \in Calls
    /\ task[t].pc \in Executes => call[task[t].call] = "running"
    /\ task[t].pc = "planned" => call[task[t].call] = "planned"

OneHolder ==
  \A t, u \in Tasks :
    task[t].pc \in Holds /\ task[u].pc \in Holds /\ task[t].call = task[u].call
    => t = u

Named == \A t \in Tasks : task[t].pc \in Deciding => task[t].appr \in Calls

OneSection ==
  \A t, u \in Tasks : task[t].pc \in Mid /\ task[u].pc \in Mid => t = u

\* Nothing comes between PlanCall and StartCall.
PlannedWhileRunning ==
  \A t \in Tasks : task[t].pc = "planned" => inv = "running" /\ owed = NothingOwed

Fresh ==
  /\ \A c \in Calls : call[c] \in {"absent", "planned", "waiting"} => effects[c] = 0
  /\ \A t \in Tasks : task[t].pc \in {"tool", "requested", "executing", "consumed"}
                        => effects[task[t].call] = 0

Granted ==
  \A t \in Tasks :
    /\ task[t].pc \in {"consumed", "applied"} => appr[task[t].call] = "consumed"
    /\ task[t].pc = "done" => task[t].call \notin NeedsApproval

Tasking == Dormant /\ Named /\ OneSection /\ PlannedWhileRunning
Working == Holding /\ OneHolder /\ Fresh /\ Granted
             /\ AtMostOneEffect /\ EffectNeedsGrant

IInv == TypeOK /\ Tasking /\ Working

-----------------------------------------------------------------------------
(* What a step does to the coroutines. *)

\* Coroutine t has the event loop: no other one is in the middle of a section.
Alone(t) == \A u \in Tasks : u # t => task[u].pc \notin Mid

LEMMA QuietAlone ==
  ASSUME NEW t \in Tasks, Quiet
  PROVE  Alone(t) /\ owed = NothingOwed /\ task[t].pc \notin Mid
  BY DEF Quiet, Alone

LEMMA SectionAlone ==
  ASSUME IInv, NEW t \in Tasks, task[t].pc \in Mid
  PROVE  Alone(t)
  BY DEF IInv, Tasking, OneSection, Alone

\* Only coroutine t moves, to a place x where it does not start a call.
LEMMA MoveTasking ==
  ASSUME IInv, NEW t \in Tasks, Alone(t), NEW x \in Coroutines,
         task' = [task EXCEPT ![t] = x], proc' = proc,
         proc \notin Asleep \/ task[t].pc # "off",
         x.pc # "planned", x.pc \in Deciding => x.appr \in Calls
  PROVE  Tasking'
<1>1. \A u \in Tasks : task'[u] = IF u = t THEN x ELSE task[u]
  BY DEF IInv, TypeOK
<1>2. proc \notin Asleep
  BY DEF IInv, Tasking, Dormant, AllOff, NoTask
<1>3. Dormant'
  BY <1>2 DEF Dormant
<1>4. Named'
  BY <1>1 DEF IInv, Tasking, Named
<1>5. OneSection'
  BY <1>1 DEF Alone, OneSection
<1>6. PlannedWhileRunning'
  BY <1>1 DEF Alone, PlannedWhileRunning, Mid
<1> QED BY <1>3, <1>4, <1>5, <1>6 DEF Tasking

\* The coroutine leaves what it did; no call changes.
LEMMA MoveWorking ==
  ASSUME IInv, NEW t \in Tasks, NEW x \in Coroutines,
         task' = [task EXCEPT ![t] = x], x.pc \notin Holds,
         call' = call, appr' = appr, effects' = effects
  PROVE  Working'
<1>1. \A u \in Tasks : task'[u] = IF u = t THEN x ELSE task[u]
  BY DEF IInv, TypeOK
<1>2. Holding' /\ OneHolder'
  BY <1>1 DEF IInv, Working, Holding, OneHolder, Holds
<1>3. Fresh' /\ Granted'
  BY <1>1 DEF IInv, Working, Fresh, Granted, Holds, Executes
<1> QED BY <1>2, <1>3 DEF IInv, Working, AtMostOneEffect, EffectNeedsGrant

\* A call ends, or goes to wait for its approval.  Either nobody holds it (it is
\* waiting), or t does and lets it go.
LEMMA EndWorking ==
  ASSUME IInv, NEW t \in Tasks, NEW x \in Coroutines,
         task' = [task EXCEPT ![t] = x], x.pc \notin Holds,
         NEW c \in Calls, NEW o \in CallTerminal \cup {"waiting"},
         call' = [call EXCEPT ![c] = o], appr' = appr, effects' = effects,
         call[c] = "waiting" \/ (task[t].pc \in Executes /\ task[t].call = c),
         o = "waiting" => effects[c] = 0
  PROVE  Working'
<1>1. \A u \in Tasks : task'[u] = IF u = t THEN x ELSE task[u]
  BY DEF IInv, TypeOK
<1>2. \A d \in Calls : call'[d] = IF d = c THEN o ELSE call[d]
  BY DEF IInv, TypeOK
<1>3. \A u \in Tasks : u # t /\ task[u].pc \in Holds => task[u].call # c
  BY DEF IInv, Working, Holding, OneHolder, Holds
<1>4. Holding' /\ OneHolder'
  BY <1>1, <1>2, <1>3 DEF IInv, Working, Holding, OneHolder, Holds
<1>5. Fresh' /\ Granted'
  BY <1>1, <1>2 DEF IInv, Working, Fresh, Granted, Holds, Executes, CallTerminal
<1> QED BY <1>4, <1>5 DEF IInv, Working, AtMostOneEffect, EffectNeedsGrant

-----------------------------------------------------------------------------
(* Types. *)

LEMMA OwesType ==
  ASSUME NEW r \in Runs \cup {None}, NEW rs \in RunStatus \cup {"none"},
         NEW i \in RunStatus \cup {"none"}
  PROVE  Owes(r, rs, i) \in [who: Runs \cup {None}, run: RunStatus \cup {"none"},
                             inv: RunStatus \cup {"none"}]
  BY DEF Owes

LEMMA LiveRunType == LiveRun \in Runs \cup {None}
  BY DEF LiveRun, Live

LEMMA CoroutineType ==
  ASSUME NEW place \in LoopPcs, NEW r \in Runs \cup {None},
         NEW c \in Calls \cup {None}, NEW a \in Calls \cup {None}
  PROVE  Coroutine(place, r, c, a) \in Coroutines
  BY DEF Coroutine, Coroutines

LEMMA NoTaskType == NoTask \in Coroutines
  BY DEF NoTask, Coroutines, LoopPcs

\* At(t, place) and Leaving(t, how) move coroutine t and no other.
LEMMA AtMoves ==
  ASSUME TypeOK, NEW t \in Tasks, NEW place \in LoopPcs
  PROVE  \E x \in Coroutines :
           /\ At(t, place) = [task EXCEPT ![t] = x]
           /\ x.pc = place /\ x.run = task[t].run /\ x.call = task[t].call
           /\ x.appr = task[t].appr
<1> DEFINE x == [task[t] EXCEPT !.pc = place]
<1>1. task[t] \in Coroutines
  BY DEF TypeOK, Coroutines, LoopPcs
<1>2. /\ x \in Coroutines
      /\ x.pc = place /\ x.run = task[t].run /\ x.call = task[t].call
      /\ x.appr = task[t].appr
  BY <1>1 DEF Coroutines
<1>3. At(t, place) = [task EXCEPT ![t] = x]
  BY DEF At
<1> QED BY <1>2, <1>3

LEMMA LeavingMoves ==
  ASSUME TypeOK, NEW t \in Tasks, NEW how \in {"returned", "raised"}
  PROVE  \E x \in Coroutines :
           /\ Leaving(t, how) = [task EXCEPT ![t] = x]
           /\ x.pc \in {"off", "returned", "raised"}
           /\ x.pc # "off" => x.appr \in Calls
<1> DEFINE x == IF task[t].appr = None THEN NoTask
                ELSE Coroutine(how, None, None, task[t].appr)
<1>1. task[t] \in Coroutines
  BY DEF TypeOK, Coroutines, LoopPcs
<1>2. /\ x \in Coroutines /\ x.pc \in {"off", "returned", "raised"}
      /\ x.pc # "off" => x.appr \in Calls
  BY <1>1 DEF Coroutines, Coroutine, NoTask, LoopPcs, Mid
<1>3. Leaving(t, how) = [task EXCEPT ![t] = x]
  BY DEF Leaving
<1> QED BY <1>2, <1>3

Owed == [who: Runs \cup {None}, run: RunStatus \cup {"none"},
         inv: RunStatus \cup {"none"}]

\* StopWith ends the loop of t.
LEMMA StopWithLeaves ==
  ASSUME TypeOK, NEW t \in Tasks, NEW s \in RunStatus, StopWith(t, s)
  PROVE  /\ owed' \in Owed
         /\ \E how \in {"returned", "raised"} : task' = Leaving(t, how)
<1>1. task[t].run \in Runs \cup {None}
  BY DEF TypeOK
<1>2. owed' \in Owed
  BY <1>1, OwesType DEF StopWith, RunThenInv, Owed
<1> QED BY <1>2 DEF StopWith

-----------------------------------------------------------------------------
(* Steps that move one coroutine and start or end no call. *)

\* The rows other than calls and approvals keep their types.
RowTypes ==
  /\ inv \in RunStatus \cup {"absent"} /\ run \in [Runs -> RunStatus \cup {"absent"}]
  /\ owed \in Owed
  /\ down \in [Calls -> {"pending", "processing", "processed", "failed",
                         "not_applicable"}]
  /\ killed \subseteq Calls

LEMMA Move ==
  ASSUME IInv, NEW t \in Tasks, Alone(t), NEW x \in Coroutines,
         task' = [task EXCEPT ![t] = x], proc' = proc,
         proc \notin Asleep \/ task[t].pc # "off",
         x.pc \notin Holds, x.pc \in Deciding => x.appr \in Calls,
         UNCHANGED <<callVars, appr, lapsed, crashes, effects>>, RowTypes'
  PROVE  IInv'
<1>1. Tasking'
  BY MoveTasking DEF Holds
<1>2. Working'
  BY MoveWorking DEF callVars
<1>3. TypeOK'
  BY DEF IInv, TypeOK, RowTypes, Owed, callVars, Coroutines, LoopPcs
<1> QED BY <1>1, <1>2, <1>3 DEF IInv

\* The loop or the decision of t ends.
LEMMA Leave ==
  ASSUME IInv, NEW t \in Tasks, Alone(t), NEW how \in {"returned", "raised"},
         task' = Leaving(t, how), proc' = proc, task[t].pc # "off",
         UNCHANGED <<callVars, appr, lapsed, crashes, effects>>, RowTypes'
  PROVE  IInv'
<1>1. PICK x \in Coroutines :
           /\ Leaving(t, how) = [task EXCEPT ![t] = x]
           /\ x.pc \in {"off", "returned", "raised"}
           /\ x.pc # "off" => x.appr \in Calls
  BY LeavingMoves DEF IInv
<1>2. x.pc \notin Holds /\ (x.pc \in Deciding => x.appr \in Calls)
  BY <1>1 DEF Holds, Executes, Deciding, DecisionAwaits, Mid
<1> QED BY <1>1, <1>2, Move

\* Coroutine t goes on to place with the same call and approval.
LEMMA GoOn ==
  ASSUME IInv, NEW t \in Tasks, Alone(t), NEW place \in LoopPcs,
         task' = At(t, place), proc' = proc, task[t].pc # "off",
         place \notin Holds, place \in Deciding => task[t].appr \in Calls,
         UNCHANGED <<callVars, appr, lapsed, crashes, effects>>, RowTypes'
  PROVE  IInv'
<1>1. PICK x \in Coroutines :
           /\ At(t, place) = [task EXCEPT ![t] = x]
           /\ x.pc = place /\ x.run = task[t].run /\ x.call = task[t].call
           /\ x.appr = task[t].appr
  BY AtMoves DEF IInv
<1> QED BY <1>1, Move

\* No coroutine moves, and nothing is planned where the investigation does.
LEMMA Stay ==
  ASSUME IInv, task' = task, proc' = proc \/ proc' \notin Asleep \/ AllOff,
         (\A u \in Tasks : task[u].pc # "planned") \/ UNCHANGED <<inv, owed>>,
         UNCHANGED <<callVars, appr, effects>>, RowTypes',
         proc' \in {"down", "reconciling", "settling", "up", "stopping", "sweeping"},
         lapsed' \subseteq Calls, crashes' \in Nat
  PROVE  IInv'
<1>1. Dormant'
  BY DEF IInv, Tasking, Dormant, AllOff
<1>2. Named' /\ OneSection' /\ PlannedWhileRunning'
  BY DEF IInv, Tasking, Named, OneSection, PlannedWhileRunning
<1>3. Working'
  BY DEF callVars, IInv, Working, Holding, OneHolder, Fresh, Granted, AtMostOneEffect,
         EffectNeedsGrant
<1>4. TypeOK'
  BY DEF IInv, TypeOK, RowTypes, Owed, callVars
<1> QED BY <1>1, <1>2, <1>3, <1>4 DEF IInv, Tasking

LEMMA Unmoved == IInv => RowTypes
  BY DEF IInv, TypeOK, RowTypes, Owed

\* The steps of the loop at a round boundary.
LEMMA BoundaryIInv ==
  ASSUME IInv, NEW t \in Tasks, AtBoundary(t),
         \/ LeaveTerminal(t) \/ SyncRun(t) \/ FinaliseCancel(t) \/ LeaveWaiting(t)
         \/ Unpause(t) \/ FirstStep(t) \/ CallProvider(t)
         \/ \E s \in Paused : PauseRound(t, s)
  PROVE  IInv'
<1> USE Unmoved
<1>1. /\ Alone(t) /\ owed = NothingOwed /\ task[t].pc # "off"
      /\ \A u \in Tasks : task[u].pc # "planned"
  BY QuietAlone DEF AtBoundary, Quiet, Mid
<1>2. task[t].run \in Runs \cup {None} /\ TypeOK
  BY DEF IInv, TypeOK
<1>3. CASE LeaveTerminal(t)
  <2>1. owed' \in Owed
    BY <1>3, OwesType DEF LeaveTerminal, Owed, RunStatus, RunTerminal
  <2>2. RowTypes'
    BY <1>3, <2>1 DEF LeaveTerminal, RowTypes, apprVars, histVars
  <2> QED BY <1>1, <1>3, <2>2, Leave DEF LeaveTerminal, apprVars, histVars
<1>4. CASE SyncRun(t)
  <2>1. owed' \in Owed
    BY <1>2, <1>4, OwesType, Unmoved DEF SyncRun, Owed, RunStatus, RowTypes
  <2>2. RowTypes'
    BY <1>4, <2>1 DEF SyncRun, RowTypes, apprVars, histVars
  <2>3. task' = Leaving(t, "returned") \/ task' = Leaving(t, "raised")
    BY <1>4 DEF SyncRun
  <2> QED BY <1>1, <1>4, <2>2, <2>3, Leave DEF SyncRun, apprVars, histVars
<1>5. CASE FinaliseCancel(t)
  <2>1. owed' \in Owed
    BY <1>2, <1>5, OwesType DEF FinaliseCancel, Owed, RunStatus, RunTerminal
  <2>2. RowTypes'
    BY <1>5, <2>1 DEF FinaliseCancel, RowTypes, apprVars, histVars
  <2> QED BY <1>1, <1>5, <2>2, Leave DEF FinaliseCancel, apprVars, histVars
<1>6. CASE LeaveWaiting(t)
  <2>1. RowTypes'
    BY <1>6 DEF LeaveWaiting, RowTypes, apprVars, histVars
  <2> QED BY <1>1, <1>6, <2>1, Leave DEF LeaveWaiting, apprVars, histVars
<1>7. CASE Unpause(t)
  <2>1. owed' \in Owed
    BY <1>2, <1>7, OwesType DEF Unpause, RunThenInv, Owed, RunStatus
  <2>2. RowTypes'
    BY <1>7, <2>1 DEF Unpause, RowTypes, apprVars, histVars
  <2>3. CASE task' = task
    BY <1>1, <1>2, <1>7, <2>2, <2>3, Stay DEF Unpause, TypeOK, apprVars, histVars
  <2>4. CASE task' = Leaving(t, "raised")
    BY <1>1, <1>7, <2>2, <2>4, Leave DEF Unpause, apprVars, histVars
  <2> QED BY <1>7, <2>3, <2>4 DEF Unpause
<1>8. CASE FirstStep(t)
  <2>1. owed' \in Owed
    BY <1>2, <1>8, OwesType DEF FirstStep, Owed, RunStatus
  <2>2. RowTypes'
    BY <1>8, <2>1 DEF FirstStep, RowTypes, apprVars, histVars
  <2> QED BY <1>1, <1>2, <1>8, <2>2, Stay DEF FirstStep, TypeOK, apprVars, histVars
<1>9. CASE CallProvider(t)
  <2>1. RowTypes'
    BY <1>9 DEF CallProvider, RowTypes, apprVars, histVars
  <2>2. /\ "provider" \in LoopPcs /\ "provider" \notin Holds
        /\ "provider" \notin Deciding
    BY DEF LoopPcs, LoopAwaits, Holds, Executes, Deciding, DecisionAwaits, Mid
  <2> QED BY <1>1, <1>9, <2>1, <2>2, GoOn DEF CallProvider, apprVars, histVars
<1>10. ASSUME NEW s \in Paused, PauseRound(t, s) PROVE IInv'
  <2>1. s \in RunStatus /\ StopWith(t, s)
    BY <1>10 DEF PauseRound, RunStatus
  <2>2. owed' \in Owed /\ \E how \in {"returned", "raised"} : task' = Leaving(t, how)
    BY <1>2, <2>1, StopWithLeaves
  <2>3. RowTypes'
    BY <1>10, <2>2 DEF PauseRound, RowTypes, apprVars, histVars
  <2> QED BY <1>1, <1>10, <2>2, <2>3, Leave DEF PauseRound, apprVars, histVars
<1> QED BY <1>3, <1>4, <1>5, <1>6, <1>7, <1>8, <1>9, <1>10

\* The provider's answers that start no call.
LEMMA AnswerIInv ==
  ASSUME IInv, NEW t \in Tasks, Answered(t),
         \/ ProviderFails(t) \/ StaleAnswer(t) \/ NextRound(t) \/ ProviderCancels(t)
         \/ \E s \in Paused \cup {"waiting", "completed", "failed"} : ProviderStops(t, s)
  PROVE  IInv'
<1> USE Unmoved
<1>1. Alone(t) /\ owed = NothingOwed /\ task[t].pc # "off"
  BY QuietAlone DEF Answered
<1>2. task[t].run \in Runs \cup {None} /\ TypeOK
  BY DEF IInv, TypeOK
<1>3. ASSUME NEW s \in RunStatus, ProviderFails(t) \/ ProviderStops(t, s),
             StopWith(t, s)
      PROVE  IInv'
  <2>1. owed' \in Owed /\ \E how \in {"returned", "raised"} : task' = Leaving(t, how)
    BY <1>2, <1>3, StopWithLeaves
  <2>2. RowTypes'
    BY <1>3, <2>1 DEF ProviderFails, ProviderStops, RowTypes, apprVars, histVars
  <2> QED BY <1>1, <1>3, <2>1, <2>2, Leave DEF ProviderFails, ProviderStops, apprVars,
             histVars
<1>4. CASE ProviderFails(t)
  BY <1>3, <1>4 DEF ProviderFails, RunStatus, RunTerminal
<1>5. ASSUME NEW s \in Paused \cup {"waiting", "completed", "failed"}, ProviderStops(t, s)
      PROVE  IInv'
  BY <1>3, <1>5 DEF ProviderStops, RunStatus, RunTerminal
<1>6. CASE StaleAnswer(t)
  <2>1. RowTypes'
    BY <1>6 DEF StaleAnswer, RowTypes, apprVars, histVars
  <2> QED BY <1>1, <1>6, <2>1, Leave DEF StaleAnswer, apprVars, histVars
<1>7. CASE NextRound(t)
  <2>1. RowTypes'
    BY <1>7 DEF NextRound, RowTypes, apprVars, histVars
  <2>2. /\ "boundary" \in LoopPcs /\ "boundary" \notin Holds
        /\ "boundary" \notin Deciding
    BY DEF LoopPcs, LoopAwaits, Holds, Executes, Deciding, DecisionAwaits, Mid
  <2> QED BY <1>1, <1>7, <2>1, <2>2, GoOn DEF NextRound, apprVars, histVars
<1>8. CASE ProviderCancels(t)
  <2>1. owed' \in Owed
    BY <1>2, <1>8, OwesType DEF ProviderCancels, Owed, RunStatus, RunTerminal
  <2>2. RowTypes'
    BY <1>8, <2>1 DEF ProviderCancels, RowTypes, apprVars, histVars
  <2>3. \E how \in {"returned", "raised"} : task' = Leaving(t, how)
    BY <1>8 DEF ProviderCancels
  <2> QED BY <1>1, <1>8, <2>2, <2>3, Leave DEF ProviderCancels, apprVars, histVars
<1> QED BY <1>4, <1>5, <1>6, <1>7, <1>8

\* Requests that create a coroutine, and startup's reconciliation.
LEMMA ArriveIInv ==
  ASSUME IInv, NEW t \in Tasks,
         \/ \E r \in Runs : Start(t, r) \/ ResumeRun(t, r)
         \/ \E c \in Calls : RetryDecision(t, c) \/ Reconcile(t, c)
  PROVE  IInv'
<1> USE Unmoved
<1>1. /\ "boundary" \in LoopPcs \ (Holds \cup Deciding)
      /\ "handling" \in LoopPcs \ Holds
  BY DEF LoopPcs, LoopAwaits, Holds, Executes, Deciding, DecisionAwaits, Mid
<1>2. \A r \in Runs : LET x == Coroutine("boundary", r, None, None) IN
        x \in Coroutines /\ x.pc = "boundary"
  BY <1>1, CoroutineType DEF Coroutine
<1>3. \A c \in Calls : LET x == Coroutine("handling", None, None, c) IN
        x \in Coroutines /\ x.pc = "handling" /\ x.appr = c
  BY <1>1, CoroutineType DEF Coroutine
<1>4. ASSUME NEW r \in Runs, Start(t, r) PROVE IInv'
  <2>1. owed' \in Owed
    BY <1>4, OwesType DEF Start, Owed, RunStatus
  <2>2. RowTypes'
    BY <1>4, <2>1 DEF Start, RowTypes, RunStatus, apprVars, histVars
  <2>3. Alone(t) /\ proc \notin Asleep
    BY <1>4, QuietAlone DEF Start, Asleep
  <2> QED BY <1>1, <1>2, <1>4, <2>2, <2>3, Move DEF Start, apprVars, histVars
<1>5. ASSUME NEW r \in Runs, ResumeRun(t, r) PROVE IInv'
  <2>1. RowTypes'
    BY <1>5 DEF ResumeRun, RowTypes, apprVars, histVars
  <2>2. Alone(t) /\ proc \notin Asleep
    BY <1>5, QuietAlone DEF ResumeRun, Asleep
  <2> QED BY <1>1, <1>2, <1>5, <2>1, <2>2, Move DEF ResumeRun, apprVars, histVars
<1>6. ASSUME NEW c \in Calls, RetryDecision(t, c) PROVE IInv'
  <2>1. RowTypes'
    BY <1>6 DEF RetryDecision, RowTypes, apprVars, histVars
  <2>2. Alone(t) /\ proc \notin Asleep
    BY <1>6, QuietAlone DEF RetryDecision, Asleep
  <2> QED BY ZenonT(40), <1>1, <1>3, <1>6, <2>1, <2>2, Move DEF RetryDecision, apprVars, histVars
<1>7. ASSUME NEW c \in Calls, Reconcile(t, c) PROVE IInv'
  <2>1. RowTypes'
    BY <1>7 DEF Reconcile, RowTypes, apprVars, histVars
  <2>2. Alone(t) /\ proc \notin Asleep
    BY <1>7, QuietAlone DEF Reconcile, Asleep
  <2>3. /\ task' = [task EXCEPT ![t] = Coroutine("handling", None, None, c)]
        /\ proc' = proc /\ UNCHANGED <<callVars, appr, lapsed, crashes, effects>>
    BY <1>7 DEF Reconcile, histVars
  <2> QED BY <1>1, <1>3, <2>1, <2>2, <2>3, Move
<1> QED BY <1>4, <1>5, <1>6, <1>7

\* A decision changes a pending approval, never a spent one.
LEMMA DecideIInv ==
  ASSUME IInv, NEW t \in Tasks, NEW c \in Calls, NEW d \in {"approved", "rejected"},
         Decide(t, c, d)
  PROVE  IInv'
<1> DEFINE x == Coroutine("decided", None, None, c)
<1>1. /\ x \in Coroutines /\ x.pc = "decided" /\ x.appr = c
      /\ x.pc \notin Holds /\ x.pc # "planned"
  BY CoroutineType DEF Coroutine, LoopPcs, DecisionAwaits, Holds, Executes
<1> HIDE DEF x
<1>2. task' = [task EXCEPT ![t] = x] /\ Alone(t) /\ proc \notin Asleep
  BY QuietAlone DEF Decide, x, Asleep
<1>3. Tasking'
  BY <1>1, <1>2, MoveTasking DEF Decide
<1>4. \A u \in Tasks : task'[u] = IF u = t THEN x ELSE task[u]
  BY <1>2 DEF IInv, TypeOK
<1>5. \A e \in Calls : appr'[e] = IF e = c THEN d ELSE appr[e]
  BY DEF IInv, TypeOK, Decide
<1>6. call' = call /\ effects' = effects /\ appr[c] = "pending"
  BY DEF Decide, callVars, histVars
<1>7. Holding' /\ OneHolder' /\ Fresh'
  BY <1>1, <1>4, <1>6 DEF IInv, Working, Holding, OneHolder, Fresh, Holds, Executes
<1>8. Granted'
  BY <1>1, <1>4, <1>5, <1>6 DEF IInv, Working, Granted, Holding, Holds, Executes
<1>9. AtMostOneEffect' /\ EffectNeedsGrant'
  BY <1>5, <1>6, AgentRunCalls DEF IInv, Working, AtMostOneEffect, EffectNeedsGrant
<1>10. TypeOK'
  BY <1>1, <1>2 DEF IInv, TypeOK, Decide, callVars, histVars, Coroutines, LoopPcs
<1> QED BY <1>3, <1>7, <1>8, <1>9, <1>10 DEF IInv, Working

\* The steps of a decision that touch no call.
LEMMA DecisionMovesIInv ==
  ASSUME IInv, NEW t \in Tasks,
         \/ MarkProcessing(t) \/ HandleUnmatched(t) \/ ResumeAfterDecision(t)
         \/ MarkDownstream(t)
  PROVE  IInv'
<1> USE Unmoved
<1>1. /\ {"handling", "unmatched", "returned"} \subseteq LoopPcs \ Holds
      /\ "boundary" \in LoopPcs \ (Holds \cup Deciding)
      /\ {"decided", "handling", "resuming"} \subseteq Deciding
      /\ {"handling", "resuming", "returned", "raised", "unmatched"} \subseteq Mid
  BY DEF LoopPcs, LoopAwaits, Holds, Executes, Deciding, DecisionAwaits, Mid
<1>2. task[t].pc \in Deciding => task[t].appr \in Calls
  BY DEF IInv, Tasking, Named
<1>3. task[t].run \in Runs \cup {None} /\ TypeOK
  BY DEF IInv, TypeOK
<1>4. CASE MarkProcessing(t)
  <2>1. RowTypes'
    BY <1>4 DEF MarkProcessing, RowTypes, apprVars, histVars
  <2>2. Alone(t) /\ task[t].pc = "decided"
    BY <1>4, QuietAlone DEF MarkProcessing
  <2> QED BY <1>1, <1>2, <1>4, <2>1, <2>2, GoOn DEF MarkProcessing, apprVars, histVars
<1>5. CASE HandleUnmatched(t)
  <2>1. RowTypes'
    BY <1>5 DEF HandleUnmatched, RowTypes, apprVars, histVars
  <2>2. Alone(t) /\ task[t].pc = "handling"
    BY <1>1, <1>5, SectionAlone DEF HandleUnmatched, Handling
  <2> QED BY <1>1, <1>2, <1>5, <2>1, <2>2, GoOn DEF HandleUnmatched, apprVars, histVars
<1>6. CASE ResumeAfterDecision(t)
  <2>1. owed' \in Owed
    BY <1>3, <1>6, OwesType DEF ResumeAfterDecision, NothingOwed, Owed, RunStatus
  <2>2. RowTypes'
    BY <1>6, <2>1 DEF ResumeAfterDecision, RowTypes, apprVars, histVars
  <2>3. Alone(t) /\ task[t].pc = "resuming"
    BY <1>1, <1>6, SectionAlone DEF ResumeAfterDecision
  <2>4. task' = At(t, "boundary") \/ task' = At(t, "returned")
    BY <1>6 DEF ResumeAfterDecision
  <2> QED BY <1>1, <1>2, <1>6, <2>2, <2>3, <2>4, GoOn DEF ResumeAfterDecision, apprVars,
             histVars
<1>7. CASE MarkDownstream(t)
  <2>1. RowTypes'
    BY <1>7 DEF MarkDownstream, RowTypes, apprVars, histVars
  <2>2. Alone(t) /\ task[t].pc # "off"
    BY <1>1, <1>7, SectionAlone DEF MarkDownstream
  <2>3. NoTask \in Coroutines /\ NoTask.pc = "off" /\ "off" \notin Holds \cup Deciding
    BY NoTaskType DEF NoTask, Holds, Executes, Deciding, DecisionAwaits, Mid
  <2> QED BY <1>7, <2>1, <2>2, <2>3, Move DEF MarkDownstream, apprVars, histVars
<1> QED BY <1>4, <1>5, <1>6, <1>7

-----------------------------------------------------------------------------
(* Steps that end a call, or send it to wait. *)

LEMMA End ==
  ASSUME IInv, NEW t \in Tasks, Alone(t), NEW x \in Coroutines,
         task' = [task EXCEPT ![t] = x], proc' = proc, task[t].pc # "off",
         x.pc \notin Holds, x.pc \in Deciding => x.appr \in Calls,
         NEW c \in Calls, NEW o \in CallTerminal \cup {"waiting"},
         call' = [call EXCEPT ![c] = o],
         call[c] = "waiting" \/ (task[t].pc \in Executes /\ task[t].call = c),
         o = "waiting" => effects[c] = 0,
         bound' \subseteq Calls, UNCHANGED <<owner, appr, lapsed, crashes, effects>>,
         RowTypes'
  PROVE  IInv'
<1>1. Tasking'
  BY MoveTasking DEF Holds
<1>2. Working'
  BY EndWorking
<1>3. TypeOK'
  BY DEF IInv, TypeOK, RowTypes, Owed, Coroutines, LoopPcs, CallStatus
<1> QED BY <1>1, <1>2, <1>3 DEF IInv

\* PauseRoundWith ends the loop of t.
LEMMA PauseLeaves ==
  ASSUME TypeOK, NEW t \in Tasks, NEW s \in RunStatus, PauseRoundWith(t, s)
  PROVE  /\ owed' \in Owed
         /\ \E x \in Coroutines :
              /\ task' = [task EXCEPT ![t] = x]
              /\ x.pc \notin Holds
              /\ x.pc \in Deciding => x.appr \in Calls
<1>1. owed' \in Owed /\ \E how \in {"returned", "raised"} : task' = Leaving(t, how)
  BY StopWithLeaves DEF PauseRoundWith, TypeOK, Owed
<1>2. \E x \in Coroutines : /\ task' = [task EXCEPT ![t] = x]
                            /\ x.pc \in {"off", "returned", "raised"}
                            /\ x.pc # "off" => x.appr \in Calls
  BY <1>1, LeavingMoves
<1> QED BY <1>1, <1>2 DEF Holds, Executes, Deciding, DecisionAwaits, Mid

\* The fold of an outcome into the run.
LEMMA FoldIInv ==
  ASSUME IInv, NEW t \in Tasks,
         \/ FoldWaiting(t)
         \/ \E o \in CallTerminal : Fold(t, o) \/ FoldOverBudget(t, o)
  PROVE  IInv'
<1> USE Unmoved
<1>1. /\ {"tool", "done", "requested"} \subseteq Executes
      /\ "boundary" \in LoopPcs \ (Holds \cup Deciding)
      /\ {"waiting", "paused", "paused_uncertain"} \subseteq RunStatus
      /\ "off" \notin Executes
  BY DEF LoopPcs, LoopAwaits, Holds, Executes, Deciding, DecisionAwaits, Mid, RunStatus,
         Paused
<1>2. TypeOK /\ (task[t].pc \in Executes => task[t].call \in Calls)
  BY DEF IInv, Working, Holding, Holds
<1>3. CASE FoldWaiting(t)
  <2>1. Alone(t) /\ task[t].pc = "requested"
    BY <1>3, QuietAlone DEF FoldWaiting
  <2>2. effects[task[t].call] = 0
    BY <2>1 DEF IInv, Working, Fresh
  <2>3. PICK x \in Coroutines : /\ task' = [task EXCEPT ![t] = x] /\ owed' \in Owed
                                /\ x.pc \notin Holds
                                /\ x.pc \in Deciding => x.appr \in Calls
    BY <1>1, <1>2, <1>3, PauseLeaves DEF FoldWaiting
  <2>4. RowTypes' /\ bound' \subseteq Calls
    BY <1>1, <1>2, <1>3, <2>1, <2>3 DEF FoldWaiting, RowTypes, TypeOK, apprVars, histVars
  <2> QED BY <1>1, <1>2, <1>3, <2>1, <2>2, <2>3, <2>4, End DEF FoldWaiting, apprVars,
             histVars
<1>4. ASSUME NEW o \in CallTerminal, Fold(t, o) \/ FoldOverBudget(t, o) PROVE IInv'
  <2>1. Alone(t) /\ task[t].pc \in Executes
    BY <1>1, <1>4, QuietAlone DEF Fold, FoldOverBudget
  <2>2. \E x \in Coroutines : /\ task' = [task EXCEPT ![t] = x] /\ owed' \in Owed
                              /\ x.pc \notin Holds
                              /\ x.pc \in Deciding => x.appr \in Calls
    <3>1. CASE \E s \in {"paused", "paused_uncertain"} : PauseRoundWith(t, s)
      BY <1>1, <1>2, <3>1, PauseLeaves
    <3>2. CASE Fold(t, o) /\ o # "uncertain"
      <4> DEFINE x == Coroutine("boundary", task[t].run, None, task[t].appr)
      <4>1. x \in Coroutines /\ x.pc = "boundary"
        BY <1>1, <1>2, CoroutineType DEF TypeOK, Coroutine
      <4>2. task' = [task EXCEPT ![t] = x] /\ owed' = owed
        BY <3>2 DEF Fold
      <4> QED BY <1>1, <4>1, <4>2, Unmoved DEF RowTypes
    <3> QED BY <1>4, <3>1, <3>2 DEF Fold, FoldOverBudget
  <2>3. PICK x \in Coroutines : /\ task' = [task EXCEPT ![t] = x] /\ owed' \in Owed
                                /\ x.pc \notin Holds
                                /\ x.pc \in Deciding => x.appr \in Calls
    BY <2>2
  <2>4. /\ call' = [call EXCEPT ![task[t].call] = o] /\ proc' = proc
        /\ UNCHANGED <<inv, run, owner, bound, appr, lapsed, down, crashes, effects, killed>>
    BY <1>4 DEF Fold, FoldOverBudget, apprVars, histVars
  <2>5. RowTypes' /\ bound' \subseteq Calls
    BY <1>2, <2>3, <2>4 DEF RowTypes, TypeOK
  <2>6. o # "waiting"
    BY DEF CallTerminal
  <2> QED BY <1>1, <1>2, <2>1, <2>3, <2>4, <2>5, <2>6, End
<1> QED BY <1>3, <1>4

\* The decision steps that end a call.
LEMMA DecisionEndsIInv ==
  ASSUME IInv, NEW t \in Tasks,
         \/ HandleRejected(t) \/ HandleCancelled(t) \/ ConsumeRefused(t)
         \/ \E o \in CallTerminal : Land(t, o)
  PROVE  IInv'
<1> USE Unmoved
<1>1. /\ {"executing", "consumed", "applied"} \subseteq Executes \cap Deciding
      /\ "handling" \in Deciding \cap Mid
      /\ {"resuming", "returned"} \subseteq LoopPcs \ Holds
      /\ "off" \notin Executes \cup Deciding
      /\ {"failed", "cancelled"} \subseteq CallTerminal /\ "waiting" \notin CallTerminal
  BY DEF LoopPcs, LoopAwaits, Holds, Executes, Deciding, DecisionAwaits, Mid, CallTerminal
<1>2. /\ TypeOK
      /\ task[t].pc \in Executes => task[t].call \in Calls
      /\ task[t].pc \in Deciding => task[t].appr \in Calls
      /\ task[t].run \in Runs \cup {None}
  BY DEF IInv, Working, Tasking, Holding, Holds, Named, TypeOK
<1>3. CASE HandleRejected(t)
  <2> DEFINE c == task[t].appr
             x == Coroutine("resuming", owner[c], None, c)
  <2>1. Alone(t) /\ task[t].pc = "handling" /\ c \in Calls /\ call[c] = "waiting"
    BY <1>1, <1>2, <1>3, SectionAlone DEF HandleRejected, Handling, Matched
  <2>2. x \in Coroutines /\ x.pc = "resuming" /\ x.appr = c
    BY <1>1, <1>2, <2>1, CoroutineType DEF TypeOK, Coroutine
  <2>3. /\ task' = [task EXCEPT ![t] = x] /\ call' = [call EXCEPT ![c] = "cancelled"]
        /\ proc' = proc
        /\ UNCHANGED <<inv, run, owed, owner, bound, appr, lapsed, down, crashes, effects,
                       killed>>
    BY <1>3 DEF HandleRejected, apprVars, histVars
  <2>4. RowTypes' /\ bound' \subseteq Calls
    BY <1>2, <2>3 DEF RowTypes, TypeOK
  <2> HIDE DEF c, x
  <2> QED BY <1>1, <2>1, <2>2, <2>3, <2>4, End
<1>4. CASE HandleCancelled(t)
  <2> DEFINE c == task[t].appr
  <2>1. Alone(t) /\ task[t].pc = "handling" /\ c \in Calls /\ call[c] = "waiting"
    BY <1>1, <1>2, <1>4, SectionAlone DEF HandleCancelled, Handling, Matched
  <2>2. PICK x \in Coroutines : /\ At(t, "returned") = [task EXCEPT ![t] = x]
                                /\ x.pc = "returned" /\ x.appr = c
    BY <1>1, <1>2, AtMoves
  <2>3. /\ task' = [task EXCEPT ![t] = x] /\ call' = [call EXCEPT ![c] = "cancelled"]
        /\ proc' = proc
        /\ UNCHANGED <<inv, run, owed, owner, bound, appr, lapsed, down, crashes, effects,
                       killed>>
    BY <1>4, <2>2 DEF HandleCancelled, apprVars, histVars
  <2>4. RowTypes' /\ bound' \subseteq Calls
    BY <1>2, <2>3 DEF RowTypes, TypeOK
  <2> HIDE DEF c
  <2> QED BY <1>1, <2>1, <2>2, <2>3, <2>4, End
<1>5. CASE ConsumeRefused(t)
  <2> DEFINE x == Coroutine("resuming", task[t].run, None, task[t].appr)
  <2>1. Alone(t) /\ task[t].pc = "executing"
    BY <1>5, QuietAlone DEF ConsumeRefused
  <2>2. x \in Coroutines /\ x.pc = "resuming" /\ x.appr = task[t].appr
    BY <1>1, <1>2, <2>1, CoroutineType DEF Coroutine
  <2>3. /\ task' = [task EXCEPT ![t] = x] /\ call' = [call EXCEPT ![task[t].call] = "failed"]
        /\ proc' = proc
        /\ UNCHANGED <<inv, run, owed, owner, bound, appr, lapsed, down, crashes, effects,
                       killed>>
    BY <1>5 DEF ConsumeRefused, apprVars, histVars
  <2>4. RowTypes' /\ bound' \subseteq Calls
    BY <1>2, <2>3 DEF RowTypes, TypeOK
  <2>5. /\ task[t].pc \in Executes /\ task[t].pc # "off" /\ task[t].call \in Calls
        /\ x.pc \notin Holds /\ (x.pc \in Deciding => x.appr \in Calls)
        /\ "failed" \in CallTerminal /\ "failed" # "waiting"
    BY <1>1, <1>2, <2>1, <2>2
  <2> HIDE DEF x
  <2> QED BY <2>1, <2>2, <2>3, <2>4, <2>5, End
<1>6. ASSUME NEW o \in CallTerminal, Land(t, o) PROVE IInv'
  <2> DEFINE x == Coroutine(IF o = "uncertain" THEN "returned" ELSE "resuming",
                            task[t].run, None, task[t].appr)
  <2>1. Alone(t) /\ task[t].pc \in {"executing", "consumed", "applied"}
    BY <1>6, QuietAlone DEF Land
  <2>2. x \in Coroutines /\ x.pc \in {"resuming", "returned"} /\ x.appr = task[t].appr
    BY <1>1, <1>2, <2>1, CoroutineType DEF Coroutine
  <2>3. /\ task' = [task EXCEPT ![t] = x] /\ call' = [call EXCEPT ![task[t].call] = o]
        /\ proc' = proc
        /\ UNCHANGED <<inv, run, owner, bound, appr, lapsed, down, crashes, effects, killed>>
    BY <1>6 DEF Land, apprVars, histVars
  <2>4. owed' \in Owed
    BY <1>2, <1>6, OwesType DEF Land, NothingOwed, Owed, RunStatus, Paused
  <2>5. RowTypes' /\ bound' \subseteq Calls
    BY <1>2, <2>3, <2>4 DEF RowTypes, TypeOK
  <2> HIDE DEF x
  <2> QED BY <1>1, <1>2, <2>1, <2>2, <2>3, <2>5, End
<1> QED BY <1>3, <1>4, <1>5, <1>6

-----------------------------------------------------------------------------
(* Steps that start a call, ask for it, or let it have its effect. *)

LEMMA PlanCallIInv ==
  ASSUME IInv, NEW t \in Tasks, NEW c \in Calls, PlanCall(t, c)
  PROVE  IInv'
<1> DEFINE x == Coroutine("planned", task[t].run, c, task[t].appr)
<1>1. /\ Alone(t) /\ owed = NothingOwed /\ inv = "running" /\ call[c] = "absent"
      /\ task[t].pc = "provider"
  BY QuietAlone DEF PlanCall, Answered
<1>2. task[t] \in Coroutines
  BY DEF IInv, TypeOK, Coroutines, LoopPcs
<1>3. x \in Coroutines /\ x.pc = "planned" /\ x.call = c
  BY <1>2, CoroutineType DEF Coroutines, Coroutine, LoopPcs, Mid
<1>4. /\ task' = [task EXCEPT ![t] = x] /\ call' = [call EXCEPT ![c] = "planned"]
      /\ owner' = [owner EXCEPT ![c] = task[t].run]
      /\ UNCHANGED <<inv, run, owed, bound, appr, lapsed, down, proc, crashes, effects, killed>>
  BY DEF PlanCall, apprVars, histVars
<1> HIDE DEF x
<1>5. \A u \in Tasks : task'[u] = IF u = t THEN x ELSE task[u]
  BY <1>4 DEF IInv, TypeOK
<1>6. \A d \in Calls : call'[d] = IF d = c THEN "planned" ELSE call[d]
  BY <1>4 DEF IInv, TypeOK
<1>7. \A u \in Tasks : task[u].pc \in Holds => task[u].call # c
  BY <1>1 DEF IInv, Working, Holding, Holds
<1>8. Dormant'
  BY <1>1, <1>4 DEF IInv, Tasking, Dormant, AllOff, NoTask
<1>9. Named' /\ OneSection' /\ PlannedWhileRunning'
  BY <1>1, <1>3, <1>4, <1>5 DEF IInv, Tasking, Named, OneSection, PlannedWhileRunning,
     Alone, Deciding, DecisionAwaits
<1>10. Holding' /\ OneHolder'
  BY <1>3, <1>5, <1>6, <1>7 DEF IInv, Working, Holding, OneHolder, Holds, Executes
<1>11. Fresh' /\ Granted'
  BY <1>1, <1>3, <1>4, <1>5, <1>6 DEF IInv, Working, Fresh, Granted
<1>12. AtMostOneEffect' /\ EffectNeedsGrant'
  BY <1>4 DEF IInv, Working, AtMostOneEffect, EffectNeedsGrant
<1>13. TypeOK'
  BY <1>2, <1>3, <1>4 DEF IInv, TypeOK, Coroutines, LoopPcs, CallStatus
<1> QED BY <1>8, <1>9, <1>10, <1>11, <1>12, <1>13 DEF IInv, Tasking, Working

LEMMA StartCallIInv ==
  ASSUME IInv, NEW t \in Tasks, StartCall(t)
  PROVE  IInv'
<1> DEFINE c == task[t].call
<1>1. task[t].pc = "planned" /\ c \in Calls /\ call[c] = "planned" /\ effects[c] = 0
  BY DEF StartCall, IInv, Working, Holding, Holds, Fresh
<1>2. Alone(t)
  BY <1>1, SectionAlone DEF Mid
<1>3. PICK x \in Coroutines : /\ At(t, "tool") = [task EXCEPT ![t] = x]
                              /\ x.pc = "tool" /\ x.call = c
  BY AtMoves DEF IInv, LoopPcs, LoopAwaits
<1>4. /\ task' = [task EXCEPT ![t] = x] /\ call' = [call EXCEPT ![c] = "running"]
      /\ UNCHANGED <<inv, run, owed, owner, bound, appr, lapsed, down, proc, crashes,
                     effects, killed>>
  BY <1>3 DEF StartCall, apprVars, histVars
<1>5. Tasking'
  BY <1>1, <1>2, <1>3, <1>4, MoveTasking DEF Deciding, DecisionAwaits, Mid
<1>6. \A u \in Tasks : task'[u] = IF u = t THEN x ELSE task[u]
  BY <1>4 DEF IInv, TypeOK
<1>7. \A d \in Calls : call'[d] = IF d = c THEN "running" ELSE call[d]
  BY <1>4 DEF IInv, TypeOK
<1>8. \A u \in Tasks : u # t /\ task[u].pc \in Holds => task[u].call # c
  BY <1>1 DEF IInv, Working, OneHolder, Holds
<1>9. Holding' /\ OneHolder'
  BY <1>1, <1>3, <1>6, <1>7, <1>8 DEF IInv, Working, Holding, OneHolder, Holds, Executes
<1>10. Fresh' /\ Granted'
  BY <1>1, <1>3, <1>4, <1>6, <1>7 DEF IInv, Working, Fresh, Granted
<1>11. AtMostOneEffect' /\ EffectNeedsGrant'
  BY <1>4 DEF IInv, Working, AtMostOneEffect, EffectNeedsGrant
<1>12. TypeOK'
  BY <1>1, <1>3, <1>4 DEF IInv, TypeOK, Coroutines, LoopPcs, CallStatus
<1> QED BY <1>5, <1>9, <1>10, <1>11, <1>12 DEF IInv, Working

LEMMA HandleApprovedIInv ==
  ASSUME IInv, NEW t \in Tasks, HandleApproved(t)
  PROVE  IInv'
<1> DEFINE c == task[t].appr
           x == Coroutine("executing", owner[c], c, c)
<1>1. task[t].pc = "handling" /\ c \in Calls /\ call[c] = "waiting" /\ effects[c] = 0
  BY DEF HandleApproved, Handling, Matched, IInv, Tasking, Working, Named, Deciding, Mid,
         Fresh
<1>2. Alone(t)
  BY <1>1, SectionAlone DEF Mid
<1>3. x \in Coroutines /\ x.pc = "executing" /\ x.call = c /\ x.appr = c
  BY <1>1, CoroutineType DEF IInv, TypeOK, Coroutine, LoopPcs, DecisionAwaits
<1>4. /\ task' = [task EXCEPT ![t] = x] /\ call' = [call EXCEPT ![c] = "running"]
      /\ UNCHANGED <<inv, run, owed, owner, bound, appr, lapsed, down, proc, crashes,
                     effects, killed>>
  BY DEF HandleApproved, apprVars, histVars
<1> HIDE DEF x
<1>5. Tasking'
  BY <1>1, <1>2, <1>3, <1>4, MoveTasking
<1>6. \A u \in Tasks : task'[u] = IF u = t THEN x ELSE task[u]
  BY <1>4 DEF IInv, TypeOK
<1>7. \A d \in Calls : call'[d] = IF d = c THEN "running" ELSE call[d]
  BY <1>4 DEF IInv, TypeOK
<1>8. \A u \in Tasks : task[u].pc \in Holds => task[u].call # c
  BY <1>1 DEF IInv, Working, Holding, Holds
<1>9. Holding' /\ OneHolder'
  BY <1>1, <1>3, <1>6, <1>7, <1>8 DEF IInv, Working, Holding, OneHolder, Holds, Executes
<1>10. Fresh' /\ Granted'
  BY <1>1, <1>3, <1>4, <1>6, <1>7 DEF IInv, Working, Fresh, Granted
<1>11. AtMostOneEffect' /\ EffectNeedsGrant'
  BY <1>4 DEF IInv, Working, AtMostOneEffect, EffectNeedsGrant
<1>12. TypeOK'
  BY <1>1, <1>3, <1>4 DEF IInv, TypeOK, Coroutines, LoopPcs, CallStatus
<1> QED BY <1>5, <1>9, <1>10, <1>11, <1>12 DEF IInv, Working

\* The steps in the middle of an execution: the call stays with t.
LEMMA ExecuteIInv ==
  ASSUME IInv, NEW t \in Tasks,
         RequestApproval(t) \/ RunTool(t) \/ Consume(t) \/ RunApprovedTool(t)
  PROVE  IInv'
<1> DEFINE c == task[t].call
<1>1. Alone(t) /\ task[t].pc \in {"tool", "executing", "consumed"}
  BY QuietAlone DEF RequestApproval, RunTool, Consume, RunApprovedTool
<1>2. c \in Calls /\ call[c] = "running" /\ effects[c] = 0 /\ effects[c] \in Nat
  BY <1>1 DEF IInv, TypeOK, Working, Holding, Holds, Executes, Fresh
<1>3. PICK place \in {"requested", "done", "consumed", "applied"} :
        /\ task' = At(t, place)
        /\ \/ place = "requested" /\ RequestApproval(t)
           \/ place = "done" /\ RunTool(t)
           \/ place = "consumed" /\ Consume(t)
           \/ place = "applied" /\ RunApprovedTool(t)
  BY DEF RequestApproval, RunTool, Consume, RunApprovedTool
<1>4. PICK x \in Coroutines : /\ At(t, place) = [task EXCEPT ![t] = x]
                              /\ x.pc = place /\ x.call = c /\ x.appr = task[t].appr
  BY AtMoves DEF IInv, LoopPcs, LoopAwaits, DecisionAwaits
<1>5. /\ UNCHANGED <<inv, run, owed, owner, call, bound, lapsed, down, proc, crashes, killed>>
      /\ appr' = IF place \in {"done", "applied"} THEN appr
                 ELSE [appr EXCEPT ![c] = IF place = "requested" THEN "pending" ELSE "consumed"]
      /\ effects' = IF place \in {"done", "applied"} THEN [effects EXCEPT ![c] = @ + 1]
                    ELSE effects
      /\ place = "done" => c \notin NeedsApproval
      /\ place = "applied" => task[t].pc = "consumed"
      /\ place = "consumed" => task[t].pc = "executing"
  BY <1>3 DEF RequestApproval, RunTool, Consume, RunApprovedTool, apprVars, histVars, callVars
<1>6. place \in Deciding => x.appr \in Calls
  BY <1>4, <1>5 DEF IInv, Tasking, Named, Deciding, DecisionAwaits, Mid
<1>7. Tasking'
  BY <1>1, <1>3, <1>4, <1>5, <1>6, MoveTasking
<1>8. \A u \in Tasks : task'[u] = IF u = t THEN x ELSE task[u]
  BY <1>3, <1>4 DEF IInv, TypeOK
<1>9. \A u \in Tasks : u # t /\ task[u].pc \in Holds => task[u].call # c
  BY <1>1 DEF IInv, Working, OneHolder, Holds, Executes
<1>10. Holding' /\ OneHolder'
  BY <1>2, <1>4, <1>5, <1>8, <1>9 DEF IInv, Working, Holding, OneHolder, Holds, Executes
<1>11. /\ \A d \in Calls : d # c => effects'[d] = effects[d] /\ appr'[d] = appr[d]
       /\ effects'[c] = IF place \in {"done", "applied"} THEN 1 ELSE 0
       /\ appr'[c] = CASE place = "requested" -> "pending"
                       [] place = "consumed" -> "consumed"
                       [] OTHER -> appr[c]
  BY <1>2, <1>5 DEF IInv, TypeOK
<1>12. Fresh'
  BY <1>2, <1>4, <1>5, <1>8, <1>9, <1>11 DEF IInv, Working, Fresh, Holding, Holds, Executes
<1>13. Granted'
  BY <1>1, <1>2, <1>4, <1>5, <1>8, <1>9, <1>11
     DEF IInv, Working, Granted, Holding, Holds, Executes
<1>14. AtMostOneEffect'
  BY <1>11 DEF IInv, Working, AtMostOneEffect
<1>15. EffectNeedsGrant'
  <2>1. place = "applied" => appr[c] = "consumed"
    BY <1>5 DEF IInv, Working, Granted
  <2> QED BY <1>3, <1>5, <1>11, <2>1, AgentRunCalls DEF IInv, Working, EffectNeedsGrant
<1>16. TypeOK'
  BY <1>2, <1>3, <1>4, <1>5 DEF IInv, TypeOK, Coroutines, LoopPcs
<1> QED BY <1>7, <1>10, <1>12, <1>13, <1>14, <1>15, <1>16 DEF IInv, Working

-----------------------------------------------------------------------------
(* Commits, requests without a coroutine, startup and shutdown. *)

LEMMA CommitIInv ==
  ASSUME IInv, Section
  PROVE  IInv'
<1>1. owed \in Owed /\ owed # NothingOwed
  BY DEF Section, CommitRun, CommitInv, NothingOwed, IInv, TypeOK, Owed
<1>2. \A u \in Tasks : task[u].pc # "planned"
  BY <1>1 DEF IInv, Tasking, PlannedWhileRunning
<1>3. RowTypes'
  BY <1>1, Unmoved DEF Section, CommitRun, CommitInv, NothingOwed, RowTypes, Owed, apprVars,
     histVars
<1>4. UNCHANGED <<task, proc, callVars, appr, lapsed, crashes, effects>>
  BY DEF Section, CommitRun, CommitInv, apprVars, histVars
<1> QED BY <1>2, <1>3, <1>4, Stay DEF IInv, TypeOK

LEMMA QuietPlansNothing ==
  ASSUME Quiet PROVE \A u \in Tasks : task[u].pc # "planned"
  BY DEF Quiet, Mid

LEMMA CancelTypes ==
  ASSUME IInv, CancelInvestigation
  PROVE  inv' \in RunStatus \cup {"absent"} /\ owed' \in Owed
<1>1. ParkForCancel \in RunStatus \cup {"none"}
  BY DEF ParkForCancel, RunStatus, RunTerminal
<1>2. owed' \in Owed
  BY <1>1, LiveRunType, OwesType DEF CancelInvestigation, Owed
<1> QED BY <1>2 DEF CancelInvestigation, RunStatus, RunTerminal

LEMMA RequestIInv ==
  ASSUME IInv, Create \/ Cancel \/ \E c \in Calls : Lapse(c)
  PROVE  IInv'
<1> USE Unmoved DEF apprVars, histVars
<1>1. lapsed' \subseteq Calls /\ crashes' \in Nat /\ proc' = proc
  BY DEF IInv, TypeOK, Create, Cancel, Lapse
<1>2. UNCHANGED <<task, callVars, appr, effects>>
  BY DEF Create, Cancel, Lapse
<1>3. \/ \A u \in Tasks : task[u].pc # "planned"
      \/ UNCHANGED <<inv, owed>>
  BY QuietPlansNothing DEF Create, Cancel, Lapse
<1>4. RowTypes'
  <2>1. CASE Create
    BY <2>1 DEF Create, RowTypes, RunStatus
  <2>2. CASE Cancel
    BY <2>2, CancelTypes DEF Cancel, RowTypes
  <2>3. CASE \E c \in Calls : Lapse(c)
    BY <2>3 DEF Lapse, RowTypes
  <2> QED BY <2>1, <2>2, <2>3
<1> QED BY <1>1, <1>2, <1>3, <1>4, Stay DEF IInv, TypeOK

\* Startup and shutdown rewrite calls only while nobody is at work, and only to
\* statuses from which a call does not start again.
LEMMA Rewrite ==
  ASSUME IInv, AllOff, task' = task,
         call' \in [Calls -> CallStatus],
         \A c \in Calls : call'[c] = call[c] \/ call'[c] \in CallTerminal,
         UNCHANGED <<owner, bound, appr, lapsed, crashes, effects>>, RowTypes',
         proc' \in {"down", "reconciling", "settling", "up", "stopping", "sweeping"}
  PROVE  IInv'
<1>1. \A t \in Tasks : task[t] = NoTask /\ task[t].pc = "off"
  BY DEF AllOff, NoTask
<1>2. "off" \notin Holds \cup Deciding \cup Mid
  BY DEF Holds, Executes, Deciding, DecisionAwaits, Mid
<1>3. Tasking'
  BY <1>1, <1>2 DEF Tasking, Dormant, AllOff, Named, OneSection, PlannedWhileRunning
<1>4. Holding' /\ OneHolder' /\ Granted'
  BY <1>1, <1>2 DEF Holding, OneHolder, Granted, Holds
<1>5. Fresh'
  BY <1>1 DEF IInv, Working, Fresh, CallTerminal
<1>6. AtMostOneEffect' /\ EffectNeedsGrant'
  BY DEF IInv, Working, AtMostOneEffect, EffectNeedsGrant
<1>7. TypeOK'
  BY DEF IInv, TypeOK, RowTypes, Owed
<1> QED BY <1>3, <1>4, <1>5, <1>6, <1>7 DEF IInv, Working

\* What the sweep and the classification do to a call.
LEMMA SweptCalls ==
  ASSUME TypeOK, NEW r
  PROVE  /\ Swept(r) \in [Calls -> CallStatus]
         /\ \A c \in Calls : Swept(r)[c] = call[c] \/ Swept(r)[c] \in CallTerminal
  BY DEF Swept, Repaired, TypeOK, CallStatus, CallTerminal

LEMMA ClassifiedCalls ==
  ASSUME TypeOK, NEW r
  PROVE  /\ Classified(r) \in [Calls -> CallStatus]
         /\ \A c \in Calls : Classified(r)[c] = call[c] \/ Classified(r)[c] \in CallTerminal
  BY DEF Classified, Repaired, TypeOK, CallStatus, CallTerminal

LEMMA ParkType == ParkUncertain \in Owed
  BY LiveRunType, OwesType DEF ParkUncertain, Owed, RunStatus, Paused

LEMMA StartupIInv ==
  ASSUME IInv, Boot \/ Classify \/ \E badTail \in BOOLEAN : SettleApprovals(badTail)
  PROVE  IInv'
<1> USE Unmoved DEF apprVars, histVars
<1>1. TypeOK /\ NothingOwed \in Owed
  BY DEF IInv, NothingOwed, Owed
<1>2. CASE Boot
  <2>1. AllOff
    BY <1>2 DEF Boot, IInv, Tasking, Dormant, Asleep
  <2>2. owed' \in Owed
    BY <1>2, LiveRunType, OwesType DEF Boot, Owed, RunStatus, RunTerminal
  <2>3. call' = call \/ call' = Swept(LiveRun)
    BY <1>2 DEF Boot
  <2>4. /\ call' \in [Calls -> CallStatus]
        /\ \A c \in Calls : call'[c] = call[c] \/ call'[c] \in CallTerminal
    BY <1>1, <2>3, SweptCalls DEF TypeOK
  <2>5. RowTypes'
    BY <1>2, <2>2 DEF Boot, RowTypes
  <2> QED BY <1>2, <2>1, <2>4, <2>5, Rewrite DEF Boot
<1>3. CASE Classify
  <2>1. owed' \in Owed
    BY <1>1, <1>3, ParkType DEF Classify
  <2>2. call' = call \/ call' = Classified(LiveRun)
    BY <1>3 DEF Classify
  <2>3. /\ call' \in [Calls -> CallStatus]
        /\ \A c \in Calls : call'[c] = call[c] \/ call'[c] \in CallTerminal
    BY <1>1, <2>2, ClassifiedCalls DEF TypeOK
  <2>4. RowTypes'
    BY <1>3, <2>1 DEF Classify, RowTypes
  <2> QED BY <1>3, <2>3, <2>4, Rewrite DEF Classify
<1>4. ASSUME NEW badTail \in BOOLEAN, SettleApprovals(badTail) PROVE IInv'
  <2>1. owed' \in Owed
    BY <1>1, <1>4, ParkType DEF SettleApprovals
  <2>2. RowTypes'
    BY <1>4, <2>1 DEF SettleApprovals, RowTypes
  <2>3. proc' = "up" /\ UNCHANGED <<task, callVars, appr, effects, lapsed, crashes>>
    BY <1>4 DEF SettleApprovals
  <2>4. \A u \in Tasks : task[u].pc # "planned"
    BY <1>4, QuietPlansNothing DEF SettleApprovals
  <2> QED BY <1>1, <2>2, <2>3, <2>4, Stay DEF Asleep, TypeOK
<1> QED BY <1>2, <1>3, <1>4

LEMMA ShutdownIInv ==
  ASSUME IInv,
         \/ BeginStop \/ CancelAll \/ SweepShutdown \/ Exit
         \/ \E t \in Tasks : KillTask(t)
  PROVE  IInv'
<1> USE Unmoved DEF apprVars, histVars
<1>1. TypeOK
  BY DEF IInv
<1>2. CASE BeginStop
  <2>1. RowTypes'
    BY <1>2 DEF BeginStop, RowTypes
  <2>2. \A u \in Tasks : task[u].pc # "planned"
    BY <1>2, QuietPlansNothing DEF BeginStop
  <2> QED BY <1>1, <1>2, <2>1, <2>2, Stay DEF BeginStop, Asleep, TypeOK
<1>3. CASE CancelAll
  <2>1. RowTypes'
    BY <1>3, CancelTypes DEF CancelAll, RowTypes
  <2>2. \A u \in Tasks : task[u].pc # "planned"
    BY <1>3, QuietPlansNothing DEF CancelAll
  <2>3. AllOff /\ proc' = "sweeping" /\ UNCHANGED <<task, callVars, appr, effects, lapsed, crashes>>
    BY <1>3 DEF CancelAll
  <2> QED BY <1>1, <2>1, <2>2, <2>3, Stay DEF TypeOK
<1>4. CASE SweepShutdown
  <2>1. AllOff
    BY <1>4 DEF SweepShutdown, IInv, Tasking, Dormant, Asleep
  <2>2. owed' \in Owed
    BY <1>4, LiveRunType, OwesType DEF SweepShutdown, Owed, RunStatus, RunTerminal
  <2>3. call' = call \/ call' = Swept(LiveRun)
    BY <1>4 DEF SweepShutdown
  <2>4. /\ call' \in [Calls -> CallStatus]
        /\ \A c \in Calls : call'[c] = call[c] \/ call'[c] \in CallTerminal
    BY <1>1, <2>3, SweptCalls DEF TypeOK
  <2>5. RowTypes'
    BY <1>4, <2>2 DEF SweepShutdown, RowTypes
  <2> QED BY <1>4, <2>1, <2>4, <2>5, Rewrite DEF SweepShutdown
<1>5. CASE Exit
  <2>1. AllOff /\ proc' = "down" /\ UNCHANGED <<task, callVars, appr, effects, lapsed, crashes, inv, owed>>
    BY <1>5 DEF Exit, IInv, Tasking, Dormant, Asleep
  <2>2. RowTypes'
    BY <1>5 DEF Exit, RowTypes
  <2> QED BY <1>1, <2>1, <2>2, Stay DEF TypeOK
<1>6. ASSUME NEW t \in Tasks, KillTask(t) PROVE IInv'
  <2>1. Alone(t) /\ task[t].pc # "off"
    BY <1>6, QuietAlone DEF KillTask, LoopAwaits
  <2>2. NoTask \in Coroutines /\ NoTask.pc = "off" /\ "off" \notin Holds \cup Deciding
    BY NoTaskType DEF NoTask, Holds, Executes, Deciding, DecisionAwaits, Mid
  <2>3. killed' \subseteq Calls
    BY <1>1, <1>6 DEF KillTask, IInv, Working, Holding, Holds, TypeOK
  <2>4. RowTypes'
    BY <1>6, <2>3 DEF KillTask, RowTypes
  <2>5. /\ task' = [task EXCEPT ![t] = NoTask] /\ proc' = proc
        /\ UNCHANGED <<callVars, appr, lapsed, crashes, effects>>
    BY <1>6 DEF KillTask
  <2> QED BY <2>1, <2>2, <2>4, <2>5, Move
<1> QED BY <1>2, <1>3, <1>4, <1>5, <1>6

LEMMA CrashIInv ==
  ASSUME IInv, Crash
  PROVE  IInv'
<1> USE DEF apprVars, histVars, callVars
<1>1. \A t \in Tasks : task'[t] = NoTask /\ task'[t].pc = "off"
  BY DEF Crash, NoTask
<1>2. "off" \notin Holds \cup Deciding \cup Mid
  BY DEF Holds, Executes, Deciding, DecisionAwaits, Mid
<1>3. Tasking'
  BY <1>1, <1>2 DEF Tasking, Dormant, AllOff, Named, OneSection, PlannedWhileRunning
<1>4. Holding' /\ OneHolder' /\ Granted'
  BY <1>1, <1>2 DEF Holding, OneHolder, Granted, Holds
<1>5. Fresh'
  BY <1>1 DEF Crash, IInv, Working, Fresh
<1>6. AtMostOneEffect' /\ EffectNeedsGrant'
  BY DEF Crash, IInv, Working, AtMostOneEffect, EffectNeedsGrant
<1>7. killed' \subseteq Calls
  BY DEF Crash, IInv, TypeOK, Working, Holding, Holds
<1>8. task' \in [Tasks -> Coroutines]
  BY NoTaskType DEF Crash
<1>9. TypeOK'
  BY <1>7, <1>8 DEF Crash, IInv, TypeOK, NothingOwed, Coroutines, LoopPcs
<1> QED BY <1>3, <1>4, <1>5, <1>6, <1>9 DEF IInv, Working

-----------------------------------------------------------------------------
(* The invariant and what follows from it. *)

LEMMA InitIInv == Init => IInv
<1> SUFFICES ASSUME Init PROVE IInv
  OBVIOUS
<1>1. \A t \in Tasks : task[t] = NoTask /\ task[t].pc = "off"
  BY DEF Init, NoTask
<1>2. "off" \notin Holds \cup Deciding \cup Mid
  BY DEF Holds, Executes, Deciding, DecisionAwaits, Mid
<1>3. Tasking
  BY <1>1, <1>2 DEF Tasking, Dormant, AllOff, Named, OneSection, PlannedWhileRunning
<1>4. Holding /\ OneHolder /\ Granted
  BY <1>1, <1>2 DEF Holding, OneHolder, Granted, Holds
<1>5. Fresh /\ AtMostOneEffect /\ EffectNeedsGrant
  BY <1>1, AgentRunCalls DEF Init, Fresh, AtMostOneEffect, EffectNeedsGrant
<1>6. task \in [Tasks -> Coroutines]
  BY NoTaskType DEF Init
<1>7. TypeOK
  BY <1>6 DEF Init, TypeOK, NothingOwed, Coroutines, LoopPcs, CallStatus
<1> QED BY <1>3, <1>4, <1>5, <1>7 DEF IInv, Working

LEMMA NextIInv == IInv /\ [Next]_vars => IInv'
<1> SUFFICES ASSUME IInv, [Next]_vars PROVE IInv'
  OBVIOUS
<1>1. CASE Section
  BY <1>1, CommitIInv
<1>2. CASE Operator
  BY <1>2, RequestIInv, ArriveIInv, DecideIInv DEF Operator
<1>3. ASSUME NEW t \in Tasks, Loop(t) PROVE IInv'
  <2>1. CASE \/ LeaveTerminal(t) \/ SyncRun(t) \/ FinaliseCancel(t) \/ LeaveWaiting(t)
             \/ Unpause(t) \/ FirstStep(t) \/ CallProvider(t)
             \/ \E s \in Paused : PauseRound(t, s)
    <3>1. AtBoundary(t)
      BY <2>1 DEF LeaveTerminal, SyncRun, FinaliseCancel, LeaveWaiting, Unpause, FirstStep,
         CallProvider, PauseRound
    <3> QED BY <2>1, <3>1, BoundaryIInv
  <2>2. CASE \/ ProviderFails(t) \/ StaleAnswer(t) \/ NextRound(t) \/ ProviderCancels(t)
             \/ \E s \in Paused \cup {"waiting", "completed", "failed"} :
                   ProviderStops(t, s)
    <3>1. Answered(t)
      BY <2>2 DEF ProviderFails, StaleAnswer, NextRound, ProviderCancels, ProviderStops
    <3> QED BY <2>2, <3>1, AnswerIInv
  <2>3. CASE \E c \in Calls : PlanCall(t, c)
    BY <2>3, PlanCallIInv
  <2>4. CASE StartCall(t)
    BY <2>4, StartCallIInv
  <2>5. CASE RequestApproval(t) \/ RunTool(t)
    BY <2>5, ExecuteIInv
  <2>6. CASE FoldWaiting(t) \/ \E o \in CallTerminal : Fold(t, o) \/ FoldOverBudget(t, o)
    BY <2>6, FoldIInv
  <2> QED BY <1>3, <2>1, <2>2, <2>3, <2>4, <2>5, <2>6 DEF Loop
<1>4. ASSUME NEW t \in Tasks, Decision(t) PROVE IInv'
  BY <1>4, DecisionMovesIInv, DecisionEndsIInv, HandleApprovedIInv, ExecuteIInv DEF Decision
<1>5. CASE Process
  BY <1>5, CrashIInv, StartupIInv, ShutdownIInv, ArriveIInv DEF Process
<1>6. CASE UNCHANGED vars
  <2>1. RowTypes'
    BY <1>6, Unmoved DEF vars, RowTypes, apprVars, histVars
  <2>2. UNCHANGED <<task, proc, callVars, appr, lapsed, crashes, effects, inv, owed>>
    BY <1>6 DEF vars, apprVars, histVars
  <2> QED BY <2>1, <2>2, Stay DEF IInv, TypeOK
<1> QED BY <1>1, <1>2, <1>3, <1>4, <1>5, <1>6 DEF Next

LEMMA IInvHolds == Spec => []IInv
  BY InitIInv, NextIInv, PTL DEF Spec

\* Type correctness of rows, coroutines and history.
THEOREM AgentRunTypes == Spec => []TypeOK
<1>1. IInv => TypeOK
  BY DEF IInv
<1> QED BY <1>1, IInvHolds, PTL

\* Whatever number of loops and decisions are live, at most one coroutine
\* executes a call, and the outcome it will record is a legal move of the row.
THEOREM CallsExecuteAlone == Spec => []ExclusiveExecution
<1>1. IInv => ExclusiveExecution
  BY DEF IInv, Working, Holding, OneHolder, ExclusiveExecution, Executing, Holds
<1> QED BY <1>1, IInvHolds, PTL

\* No call reaches the host twice, through any number of crashes, restarts,
\* repeated decisions and loops.
THEOREM CallsNeverReplayed == Spec => []AtMostOneEffect
<1>1. IInv => AtMostOneEffect
  BY DEF IInv, Working
<1> QED BY <1>1, IInvHolds, PTL

\* A call is executed by one coroutine at a time and takes effect once.
THEOREM CallsExecuteOnce == Spec => []ExecutesOnce
<1>1. ExclusiveExecution /\ AtMostOneEffect => ExecutesOnce
  BY DEF ExecutesOnce
<1> QED BY <1>1, CallsExecuteAlone, CallsNeverReplayed, PTL

\* A call that policy routes through an approval has its effect only under that
\* approval, granted and spent.
THEOREM EffectsAreGranted == Spec => []EffectNeedsGrant
<1>1. IInv => EffectNeedsGrant
  BY DEF IInv, Working
<1> QED BY <1>1, IInvHolds, PTL

\* A call starts in two places only: behind a plan made while the investigation
\* was RUNNING, and by a decision that has just looked for a cancel.
LEMMA StartsUncancelled ==
  ASSUME IInv, [Next]_vars, NEW c \in Calls,
         inv \in {"cancel_requested", "cancelled"}, call[c] # "running"
  PROVE  call'[c] # "running"
<1> USE DEF callVars
<1>1. CASE call' = call
  BY <1>1
<1>2. ASSUME NEW d \in Calls, NEW o \in CallStatus \ {"running"},
             call' = [call EXCEPT ![d] = o]
      PROVE  call'[c] # "running"
  BY <1>2 DEF IInv, TypeOK
<1>3. ASSUME call' \in [Calls -> CallStatus],
             \A d \in Calls : call'[d] = call[d] \/ call'[d] \in CallTerminal
      PROVE  call'[c] # "running"
  BY <1>3 DEF CallTerminal
<1>4. /\ {"planned", "waiting", "cancelled", "failed"} \subseteq CallStatus \ {"running"}
      /\ CallTerminal \subseteq CallStatus \ {"running"}
  BY DEF CallStatus, CallTerminal
<1>5. \A t \in Tasks : /\ task[t].pc \in Executes => task[t].call \in Calls
                       /\ task[t].pc = "handling" => task[t].appr \in Calls
                       /\ task[t].pc # "planned"
  BY DEF IInv, Working, Tasking, Holding, Holds, Named, Deciding, Mid, PlannedWhileRunning
<1>6. CASE Section \/ Operator \/ UNCHANGED vars
  BY <1>1, <1>6 DEF Section, CommitRun, CommitInv, Operator, Create, Cancel, Start, ResumeRun,
     Decide, RetryDecision, Lapse, vars
<1>7. ASSUME NEW t \in Tasks, Loop(t) PROVE call'[c] # "running"
  <2>1. CASE \/ LeaveTerminal(t) \/ SyncRun(t) \/ FinaliseCancel(t) \/ LeaveWaiting(t)
             \/ Unpause(t) \/ FirstStep(t) \/ CallProvider(t)
             \/ \E s \in Paused : PauseRound(t, s)
    BY <1>1, <2>1 DEF LeaveTerminal, SyncRun, FinaliseCancel, LeaveWaiting, Unpause,
       FirstStep, CallProvider, PauseRound
  <2>2. CASE \/ ProviderFails(t) \/ StaleAnswer(t) \/ NextRound(t) \/ ProviderCancels(t)
             \/ \E s \in Paused \cup {"waiting", "completed", "failed"} :
                   ProviderStops(t, s)
    BY <1>1, <2>2 DEF ProviderFails, StaleAnswer, NextRound, ProviderCancels, ProviderStops
  <2>3. CASE \E d \in Calls : PlanCall(t, d)
    BY <1>2, <1>4, <2>3 DEF PlanCall
  <2>4. CASE StartCall(t)
    BY <1>5, <2>4 DEF StartCall
  <2>5. CASE RequestApproval(t) \/ RunTool(t)
    BY <1>1, <2>5 DEF RequestApproval, RunTool
  <2>6. CASE FoldWaiting(t)
    BY <1>2, <1>4, <1>5, <2>6 DEF FoldWaiting, Executes
  <2>7. ASSUME NEW o \in CallTerminal, Fold(t, o) \/ FoldOverBudget(t, o)
        PROVE  call'[c] # "running"
    <3>1. task[t].call \in Calls /\ call' = [call EXCEPT ![task[t].call] = o]
      BY <1>5, <2>7 DEF Fold, FoldOverBudget, Executes
    <3> QED BY <1>2, <1>4, <3>1
  <2> QED BY <1>7, <2>1, <2>2, <2>3, <2>4, <2>5, <2>6, <2>7 DEF Loop
<1>8. ASSUME NEW t \in Tasks, Decision(t) PROVE call'[c] # "running"
  <2>1. CASE \/ MarkProcessing(t) \/ HandleUnmatched(t) \/ ResumeAfterDecision(t)
             \/ MarkDownstream(t) \/ Consume(t) \/ RunApprovedTool(t)
    BY <1>1, <2>1 DEF MarkProcessing, HandleUnmatched, ResumeAfterDecision, MarkDownstream,
       Consume, RunApprovedTool
  <2>2. CASE HandleRejected(t) \/ HandleCancelled(t)
    <3>1. task[t].appr \in Calls /\ call' = [call EXCEPT ![task[t].appr] = "cancelled"]
      BY <1>5, <2>2 DEF HandleRejected, HandleCancelled, Handling
    <3> QED BY <1>2, <1>4, <3>1
  <2>3. CASE HandleApproved(t)
    BY <2>3 DEF HandleApproved, RunCancelPending, RunTerminal
  <2>4. CASE ConsumeRefused(t)
    <3>1. task[t].call \in Calls /\ call' = [call EXCEPT ![task[t].call] = "failed"]
      BY <1>5, <2>4 DEF ConsumeRefused, Executes
    <3> QED BY <1>2, <1>4, <3>1
  <2>5. ASSUME NEW o \in CallTerminal, Land(t, o) PROVE call'[c] # "running"
    <3>1. task[t].call \in Calls /\ call' = [call EXCEPT ![task[t].call] = o]
      BY <1>5, <2>5 DEF Land, Executes
    <3> QED BY <1>2, <1>4, <3>1
  <2> QED BY <1>8, <2>1, <2>2, <2>3, <2>4, <2>5 DEF Decision
<1>9. CASE Process
  <2>1. CASE Boot \/ SweepShutdown
    <3>1. call' = call \/ call' = Swept(LiveRun)
      BY <2>1 DEF Boot, SweepShutdown
    <3> QED BY <1>1, <1>3, <3>1, SweptCalls DEF IInv
  <2>2. CASE Classify
    <3>1. call' = call \/ call' = Classified(LiveRun)
      BY <2>2 DEF Classify
    <3> QED BY <1>1, <1>3, <3>1, ClassifiedCalls DEF IInv
  <2>3. CASE Crash \/ BeginStop \/ CancelAll \/ Exit
    BY <1>1, <2>3 DEF Crash, BeginStop, CancelAll, Exit
  <2>4. ASSUME NEW t \in Tasks, KillTask(t) \/ \E d \in Calls : Reconcile(t, d)
        PROVE  call'[c] # "running"
    BY <1>1, <2>4 DEF KillTask, Reconcile
  <2>5. ASSUME NEW badTail \in BOOLEAN, SettleApprovals(badTail)
        PROVE  call'[c] # "running"
    BY <1>1, <2>5 DEF SettleApprovals
  <2> QED BY <1>9, <2>1, <2>2, <2>3, <2>4, <2>5 DEF Process
<1> QED BY <1>6, <1>7, <1>8, <1>9 DEF Next

\* Once a cancel of the investigation is recorded, no call starts: not in any
\* loop and not by any approval.
THEOREM CancelWins == Spec => CancelStartsNothing
<1>1. IInv /\ [Next]_vars =>
        [\A c \in Calls : inv \in {"cancel_requested", "cancelled"} /\ call[c] # "running"
                          => call'[c] # "running"]_vars
  BY StartsUncancelled
<1> QED BY <1>1, IInvHolds, PTL DEF Spec, CancelStartsNothing


-----------------------------------------------------------------------------
(* Nothing left behind: the rows of the runs and of the investigation.      *)

\* One run at a time has not ended.
OneLive == \A r, s \in Live : r = s

\* The commits that a section owes: its run moves on, and ends if it is parked,
\* or is the one that start makes; an investigation that has ended is owed nothing.
OwedKnown ==
  /\ owed.run # "none" =>
       \/ owed.who \in Live /\ (run[owed.who] = "cancel_requested" => owed.run \in {"cancelled", "failed"})
       \/ owed.who \in Runs /\ run[owed.who] = "absent" /\ owed.run = "created" /\ owed.inv = "none"
          /\ Live = {} /\ inv = "running"
  /\ owed.inv \notin {"created", "cancel_requested"}
  /\ Gone(inv) => owed.inv = "none"

\* The owed commit takes run r to one of S.
OwedTo(r, S) == owed.who = r /\ owed.run \in S

\* Before the first start there is no run.
StartsFirst ==
  inv \in {"absent", "created"} =>
    /\ \A r \in Runs : run[r] = "absent"
    /\ owed.run = "none" /\ owed.inv = "none"

\* A cancel that is recorded on the investigation parks its run, but for a crash
\* between the two commits.
CancelParks ==
  proc # "down" /\ inv = "cancel_requested" =>
    \A r \in Live : run[r] = "cancel_requested" \/ OwedTo(r, {"cancel_requested", "cancelled"})

\* The end of the investigation is committed after that of its run.
EndIsOwedLast ==
  owed.inv \in RunTerminal =>
    \A r \in Live : run[r] = "cancel_requested" \/ OwedTo(r, RunTerminal)

\* An investigation that was not started is not left to the sweep.
SweepsStarted == proc = "sweeping" => inv # "created"

Rows == OneLive /\ OwedKnown /\ StartsFirst /\ CancelParks /\ EndIsOwedLast /\ EndsAfterItsRuns

\* A loop or a decision that executes or resumes has its run, and a call its owner.
HasRun == LoopAwaits \cup {"planned", "resuming", "executing", "consumed", "applied"}
Placed == \A t \in Tasks : task[t].pc \in HasRun => task[t].run \in Runs
Owned == \A c \in Calls : call[c] # "absent" => owner[c] \in Runs /\ run[owner[c]] # "absent"

\* An approval is spent for a call that waited for it; its decision is at work on it.
SpentFor ==
  /\ \A c \in Calls : appr[c] = "consumed" =>
       c \in bound /\ call[c] \in {"running", "succeeded", "failed", "uncertain"}
  /\ \A t \in Tasks :
       /\ task[t].pc \in {"tool", "requested", "done"} => appr[task[t].call] # "consumed"
       /\ task[t].pc \in {"executing", "consumed", "applied"} =>
            task[t].call = task[t].appr /\ task[t].call \in bound

Ghost(c) == call[c] = "running" /\ Executing(c) = {}

\* Startup leaves no call RUNNING that nobody executes, where it looks.
NoGhosts ==
  proc \in {"settling", "up"} => \A c \in Calls : Ghost(c) => Gone(inv) \/ owner[c] \notin Live

\* An interrupted dangerous call is RUNNING until it is found.
KilledKnown == \A c \in killed \cap Dangerous : call[c] = "uncertain" \/ Ghost(c)

Settled == Placed /\ Owned /\ SpentFor /\ SpentIsSettled /\ NoGhosts /\ KilledKnown

LeftInv == Rows /\ SweepsStarted /\ Settled

LEMMA MoveFacts ==
  /\ \A s \in RunStatus \cup {"absent"} : Gone(s) => Moves[s] = {}
  /\ Moves["cancel_requested"] = {"cancelled", "failed"}
  /\ \A s \in RunStatus \cup {"absent"} : "created" \notin Moves[s] /\ Moves[s] \subseteq RunStatus
  /\ \A s \in RunStatus \cup {"absent"} : "cancel_requested" \in Moves[s] => s \in Paused \cup {"waiting", "running"}
<1>1. ASSUME NEW s \in RunStatus \cup {"absent"}
      PROVE  /\ Gone(s) => Moves[s] = {}
             /\ "created" \notin Moves[s] /\ Moves[s] \subseteq RunStatus
             /\ "cancel_requested" \in Moves[s] => s \in Paused \cup {"waiting", "running"}
  BY DEF Moves, RunStatus, RunTerminal, Paused, Gone
<1>2. Moves["cancel_requested"] = {"cancelled", "failed"}
  BY DEF Moves, RunStatus, RunTerminal, Paused
<1> QED BY <1>1, <1>2

LEMMA LiveRunIs ==
  ASSUME OneLive
  PROVE  /\ LiveRun = None => Live = {}
         /\ LiveRun # None => LiveRun \in Live /\ \A r \in Live : r = LiveRun
<1>1. Live \subseteq Runs /\ None \notin Runs
  BY AgentRunCalls DEF Live
<1>2. CASE Live = {}
  BY <1>2 DEF LiveRun
<1>3. CASE Live # {}
  <2>1. LiveRun \in Live
    BY <1>3 DEF LiveRun
  <2> QED BY <1>1, <2>1 DEF OneLive
<1> QED BY <1>2, <1>3

\* The rows stay, and so does the process, or it goes down.
LEMMA SameRows ==
  ASSUME Rows, UNCHANGED <<inv, run, owed>>, proc' = "down" \/ proc # "down"
  PROVE  Rows'
<1>1. Live' = Live
  BY DEF Live
<1>2. OneLive' /\ OwedKnown' /\ StartsFirst' /\ EndIsOwedLast' /\ EndsAfterItsRuns'
  BY <1>1 DEF Rows, OneLive, OwedKnown, StartsFirst, EndIsOwedLast, EndsAfterItsRuns, OwedTo
<1>3. CancelParks'
  BY <1>1 DEF Rows, CancelParks, OwedTo
<1> QED BY <1>2, <1>3 DEF Rows

\* A section comes to owe its commits.
LEMMA OweRows ==
  ASSUME Rows, UNCHANGED <<inv, run>>, owed = NothingOwed, proc # "down",
         NEW r, NEW rs, NEW i, owed' = Owes(r, rs, i),
         rs # "none" => r \in Live /\ (run[r] = "cancel_requested" => rs \in {"cancelled", "failed"}),
         i # "none" => ~Gone(inv) /\ inv # "created" /\ i \notin {"created", "cancel_requested"},
         i \in RunTerminal => \A q \in Live : run[q] = "cancel_requested" \/ (q = r /\ rs \in RunTerminal)
  PROVE  Rows'
<1>1. Live' = Live
  BY DEF Live
<1>2. owed'.run = rs /\ owed'.inv = i /\ (rs # "none" => owed'.who = r)
  BY DEF Owes
<1>3. owed.run = "none" /\ owed.inv = "none"
  BY DEF NothingOwed
<1>4. "none" \notin RunTerminal
  BY DEF RunTerminal
<1>5. OneLive' /\ EndsAfterItsRuns'
  BY <1>1 DEF Rows, OneLive, EndsAfterItsRuns
<1>6. OwedKnown'
  BY <1>1, <1>2 DEF OwedKnown
<1>7. StartsFirst'
  <2>1. inv \in {"absent", "created"} => Live = {}
    BY DEF Rows, StartsFirst, Live, Gone
  <2>2. inv \in {"absent", "created"} => rs = "none" /\ i = "none"
    BY <2>1 DEF Gone
  <2> QED BY <1>2, <2>2 DEF Rows, StartsFirst
<1>8. CancelParks'
  BY <1>1, <1>3 DEF Rows, CancelParks, OwedTo
<1>9. EndIsOwedLast'
  BY <1>1, <1>2, <1>4 DEF EndIsOwedLast, OwedTo
<1> QED BY <1>5, <1>6, <1>7, <1>8, <1>9 DEF Rows

\* Before the end of its run is committed, a run is the one that has not ended.
LEMMA AtWork ==
  ASSUME IInv, Rows, NEW r \in Runs, ~Gone(run[r])
  PROVE  r \in Live /\ inv \notin {"absent", "created"} /\ \A q \in Live : q = r
<1>1. r \in Live
  BY DEF Live
<1>2. inv \notin {"absent", "created"}
  BY DEF Rows, StartsFirst, Gone
<1> QED BY <1>1, <1>2 DEF Rows, OneLive

LEMMA StopRows ==
  ASSUME IInv, Rows, UNCHANGED <<inv, run>>, owed = NothingOwed, proc # "down",
         NEW t \in Tasks, task[t].run \in Runs,
         NEW s \in RunStatus, s # "cancel_requested", RunThenInv(t, s, s)
  PROVE  Rows'
<1>1. PICK r \in Runs : r = task[t].run
  OBVIOUS
<1>2. inv \in RunStatus \cup {"absent"} /\ run[r] \in RunStatus \cup {"absent"}
  BY DEF IInv, TypeOK
<1>3. PICK rs : rs = IF s \in Moves[run[r]] THEN s ELSE "none"
  OBVIOUS
<1>4. PICK i : i = IF Legal(t, s, s) THEN s ELSE "none"
  OBVIOUS
<1>5. owed' = Owes(r, rs, i)
  BY <1>1, <1>3, <1>4 DEF RunThenInv, RunOf
<1>6. i # "none" => i = s /\ rs = s /\ s \in Moves[inv]
  BY <1>1, <1>3, <1>4 DEF Legal, RunOf
<1>7. rs # "none" => rs = s /\ s \in Moves[run[r]] /\ ~Gone(run[r])
  BY <1>2, <1>3, MoveFacts
<1>8. rs # "none" => /\ r \in Live /\ inv # "created" /\ \A q \in Live : q = r
                     /\ run[r] = "cancel_requested" => rs \in {"cancelled", "failed"}
  BY <1>7, AtWork, MoveFacts
<1>9. s # "created" \/ (rs = "none" /\ i = "none")
  BY <1>2, <1>6, <1>7, MoveFacts
<1>10. s # "none" /\ (i # "none" => ~Gone(inv))
  BY <1>2, <1>6, MoveFacts DEF RunStatus, RunTerminal, Paused
<1>11. i # "none" => ~Gone(inv) /\ inv # "created" /\ i \notin {"created", "cancel_requested"}
  BY <1>6, <1>8, <1>9, <1>10
<1>12. i \in RunTerminal => \A q \in Live : run[q] = "cancel_requested" \/ (q = r /\ rs \in RunTerminal)
  BY <1>6, <1>8, <1>10 DEF RunTerminal
<1> QED BY <1>5, <1>8, <1>11, <1>12, OweRows

\* The steps of a loop: what they owe.
LEMMA LoopRows ==
  ASSUME IInv, Rows, Placed, NEW t \in Tasks, Loop(t)
  PROVE  Rows'
<1>1. /\ UNCHANGED <<inv, run, proc>>
  BY DEF Loop, LeaveTerminal, SyncRun, FinaliseCancel, LeaveWaiting, Unpause, FirstStep, CallProvider,
         PauseRound, ProviderFails, StaleAnswer, NextRound, ProviderCancels, ProviderStops, PlanCall,
         StartCall, RequestApproval, RunTool, FoldWaiting, Fold, FoldOverBudget
<1>2. owed = NothingOwed /\ task[t].pc \in LoopAwaits \cup {"planned"}
  BY DEF Loop, LeaveTerminal, SyncRun, FinaliseCancel, LeaveWaiting, Unpause, FirstStep, CallProvider,
         PauseRound, ProviderFails, StaleAnswer, NextRound, ProviderCancels, ProviderStops, PlanCall,
         StartCall, RequestApproval, RunTool, FoldWaiting, Fold, FoldOverBudget, AtBoundary, Answered,
         Quiet, LoopAwaits
<1>3. PICK r \in Runs : r = task[t].run
  BY <1>2 DEF Placed, HasRun
<1>4. proc # "down"
  BY <1>2 DEF IInv, Tasking, Dormant, Asleep, AllOff, NoTask, LoopAwaits
<1>5. inv \in RunStatus \cup {"absent"} /\ run[r] \in RunStatus \cup {"absent"} /\ RunOf(t) = run[r]
  BY <1>3 DEF IInv, TypeOK, RunOf
<1>6. CASE owed' = owed
  BY <1>1, <1>4, <1>6, SameRows
<1>7. ASSUME NEW s \in RunStatus, s # "cancel_requested", RunThenInv(t, s, s)
      PROVE  Rows'
  BY <1>1, <1>2, <1>3, <1>4, <1>7, StopRows
<1>8. CASE LeaveTerminal(t)
  <2>1. PICK i : /\ owed' = Owes(None, "none", i)
                 /\ i = IF run[r] = "cancelled" /\ inv = "cancel_requested" THEN "cancelled" ELSE "none"
    BY <1>5, <1>8 DEF LeaveTerminal
  <2>2. inv = "cancel_requested" => \A q \in Live : run[q] = "cancel_requested"
    BY <1>2, <1>4 DEF Rows, CancelParks, OwedTo, NothingOwed
  <2>3. "none" \notin RunTerminal
    BY DEF RunTerminal
  <2>4. i # "none" => ~Gone(inv) /\ inv # "created" /\ i \notin {"created", "cancel_requested"}
    BY <2>1 DEF Gone, RunTerminal
  <2>5. i \in RunTerminal => \A q \in Live : run[q] = "cancel_requested"
    BY <2>1, <2>2, <2>3
  <2> QED BY <1>1, <1>2, <1>4, <2>1, <2>4, <2>5, OweRows
<1>9. CASE SyncRun(t)
  <2>1. CASE owed' = Owes(r, inv, "none") /\ inv \in Moves[run[r]] \cup {"cancelled"} /\ inv \in RunTerminal
    <3>1. r \in Live
      BY <1>5, <1>9, AtWork DEF SyncRun
    <3>2. run[r] = "cancel_requested"
      BY <2>1, <3>1 DEF Rows, EndsAfterItsRuns, Gone
    <3>3. inv \in {"cancelled", "failed"}
      BY <2>1, <3>2, MoveFacts
    <3>4. "none" \notin RunTerminal
      BY DEF RunTerminal
    <3> QED BY <1>1, <1>2, <1>4, <2>1, <3>1, <3>3, <3>4, OweRows
  <2>2. \/ /\ owed' = Owes(r, inv, "none")
           /\ inv \in Moves[run[r]] \cup {"cancelled"} /\ inv \in RunTerminal
        \/ owed' = owed
    BY <1>3, <1>5, <1>9 DEF SyncRun
  <2> QED BY <1>6, <2>1, <2>2
<1>10. CASE FinaliseCancel(t)
  <2>1. PICK i : /\ owed' = Owes(r, "cancelled", i)
                 /\ i = IF inv = "cancel_requested" THEN "cancelled" ELSE "none"
    BY <1>3, <1>10 DEF FinaliseCancel
  <2>2. run[r] = "cancel_requested"
    BY <1>5, <1>10 DEF FinaliseCancel
  <2>3. r \in Live /\ \A q \in Live : q = r
    BY <2>2, AtWork DEF Gone, RunTerminal
  <2>4. "none" \notin RunTerminal
    BY DEF RunTerminal
  <2>5. i # "none" => ~Gone(inv) /\ inv # "created" /\ i \notin {"created", "cancel_requested"}
    BY <2>1 DEF Gone, RunTerminal
  <2>6. i \in RunTerminal => \A q \in Live : run[q] = "cancel_requested" \/ (q = r /\ "cancelled" \in RunTerminal)
    BY <2>2, <2>3
  <2> QED BY <1>1, <1>2, <1>4, <2>1, <2>3, <2>5, <2>6, OweRows
<1>11. CASE Unpause(t)
  <2>1. RunThenInv(t, "running", "running")
    BY <1>11 DEF Unpause
  <2> QED BY <1>7, <2>1 DEF RunStatus
<1>12. CASE FirstStep(t)
  <2>1. owed' = Owes(r, "running", "none") /\ run[r] = "created"
    BY <1>3, <1>5, <1>12 DEF FirstStep
  <2>2. r \in Live
    BY <2>1, AtWork DEF Gone, RunTerminal
  <2>3. "none" \notin RunTerminal
    BY DEF RunTerminal
  <2> QED BY <1>1, <1>2, <1>4, <2>1, <2>2, <2>3, OweRows
<1>13. ASSUME NEW s \in Paused \cup {"waiting", "completed", "failed"}, StopWith(t, s)
       PROVE  Rows'
  <2>1. s \in RunStatus /\ s # "cancel_requested" /\ RunThenInv(t, s, s)
    BY <1>13 DEF StopWith, RunStatus, RunTerminal, Paused
  <2> QED BY <1>7, <2>1
<1>14. CASE ProviderCancels(t)
  <2>1. PICK i : /\ owed' = Owes(r, "cancelled", i)
                 /\ i = IF "cancel_requested" \in Moves[inv] THEN "cancelled" ELSE "none"
    BY <1>3, <1>14 DEF ProviderCancels
  <2>2. run[r] = "running"
    BY <1>5, <1>14 DEF ProviderCancels
  <2>3. r \in Live /\ inv # "created" /\ \A q \in Live : q = r
    BY <2>2, AtWork DEF Gone, RunTerminal
  <2>4. i # "none" => ~Gone(inv) /\ i \notin {"created", "cancel_requested"}
    BY <1>5, <2>1, MoveFacts
  <2>5. "cancelled" \in RunTerminal /\ "cancelled" # "none"
    BY DEF RunTerminal
  <2> QED BY <1>1, <1>2, <1>4, <2>1, <2>2, <2>3, <2>4, <2>5, OweRows
<1>15. ASSUME NEW s \in Paused \cup {"waiting"}, PauseRoundWith(t, s)
       PROVE  Rows'
  BY <1>6, <1>13, <1>15 DEF PauseRoundWith
<1>16. ASSUME NEW s \in Paused, PauseRound(t, s) PROVE Rows'
  BY <1>13, <1>16 DEF PauseRound
<1>17. CASE ProviderFails(t)
  BY <1>13, <1>17 DEF ProviderFails
<1>18. ASSUME NEW s \in Paused \cup {"waiting", "completed", "failed"}, ProviderStops(t, s) PROVE Rows'
  BY <1>13, <1>18 DEF ProviderStops
<1>19. ASSUME FoldWaiting(t) \/ \E o \in CallTerminal : Fold(t, o) \/ FoldOverBudget(t, o) PROVE Rows'
  BY <1>6, <1>15, <1>19 DEF FoldWaiting, Fold, FoldOverBudget, Paused
<1>20. CASE LeaveWaiting(t) \/ CallProvider(t) \/ StaleAnswer(t) \/ NextRound(t)
            \/ (\E c \in Calls : PlanCall(t, c)) \/ StartCall(t) \/ RequestApproval(t) \/ RunTool(t)
  BY <1>6, <1>20 DEF LeaveWaiting, CallProvider, StaleAnswer, NextRound, PlanCall, StartCall,
         RequestApproval, RunTool
<1> QED BY <1>8, <1>9, <1>10, <1>11, <1>12, <1>14, <1>16, <1>17, <1>18, <1>19, <1>20 DEF Loop

\* The steps of a decision: what they owe.
LEMMA DecisionRows ==
  ASSUME IInv, Rows, Placed, NEW t \in Tasks, Decision(t)
  PROVE  Rows'
<1>1. /\ UNCHANGED <<inv, run, proc>> /\ owed = NothingOwed
      /\ task[t].pc \in DecisionAwaits \cup {"handling", "resuming", "returned", "raised", "unmatched"}
  BY DEF Decision, MarkProcessing, HandleUnmatched, HandleRejected, HandleCancelled, HandleApproved, Consume,
         ConsumeRefused, RunApprovedTool, Land, ResumeAfterDecision, MarkDownstream, Handling, Quiet,
         DecisionAwaits
<1>2. proc # "down"
  BY <1>1 DEF IInv, Tasking, Dormant, Asleep, AllOff, NoTask, DecisionAwaits
<1>3. CASE owed' = owed
  BY <1>1, <1>2, <1>3, SameRows
<1>4. ASSUME NEW o \in CallTerminal, Land(t, o) PROVE Rows'
  <2>1. PICK r \in Runs : r = task[t].run
    BY <1>4 DEF Land, Placed, HasRun
  <2>2. PICK rs, i : /\ rs = IF run[r] \in {"waiting", "running"} THEN "paused_uncertain" ELSE "none"
                     /\ i = IF inv \in {"waiting", "running"} THEN "paused_uncertain" ELSE "none"
    OBVIOUS
  <2>3. owed' = NothingOwed \/ owed' = Owes(r, rs, i)
    BY <1>4, <2>1, <2>2 DEF Land, RunOf
  <2>4. rs # "none" => r \in Live /\ run[r] # "cancel_requested"
    BY <2>2, AtWork DEF Gone, RunTerminal
  <2>5. i # "none" => ~Gone(inv) /\ inv # "created" /\ i \notin {"created", "cancel_requested"}
    BY <2>2 DEF Gone, RunTerminal
  <2>6. i \notin RunTerminal
    BY <2>2 DEF RunTerminal
  <2> QED BY <1>1, <1>2, <1>3, <2>3, <2>4, <2>5, <2>6, OweRows
<1>5. CASE ResumeAfterDecision(t)
  <2>1. PICK r \in Runs : r = task[t].run
    BY <1>5 DEF ResumeAfterDecision, Placed, HasRun
  <2>2. PICK i : i = IF inv = "waiting" THEN "running" ELSE "none"
    OBVIOUS
  <2>3. owed' = NothingOwed \/ (owed' = Owes(r, "running", i) /\ run[r] = "waiting")
    BY <1>5, <2>1, <2>2 DEF ResumeAfterDecision, RunOf
  <2>4. run[r] = "waiting" => r \in Live /\ run[r] # "cancel_requested"
    BY AtWork DEF Gone, RunTerminal
  <2>5. i # "none" => ~Gone(inv) /\ inv # "created" /\ i \notin {"created", "cancel_requested"}
    BY <2>2 DEF Gone, RunTerminal
  <2>6. i \notin RunTerminal
    BY <2>2 DEF RunTerminal
  <2> QED BY <1>1, <1>2, <1>3, <2>3, <2>4, <2>5, <2>6, OweRows
<1>6. CASE MarkProcessing(t) \/ HandleUnmatched(t) \/ HandleRejected(t) \/ HandleCancelled(t) \/ HandleApproved(t)
           \/ Consume(t) \/ ConsumeRefused(t) \/ RunApprovedTool(t) \/ MarkDownstream(t)
  BY <1>3, <1>6 DEF MarkProcessing, HandleUnmatched, HandleRejected, HandleCancelled, HandleApproved, Consume,
         ConsumeRefused, RunApprovedTool, MarkDownstream
<1> QED BY <1>4, <1>5, <1>6 DEF Decision

\* The commits of a section, in their order.
LEMMA CommitRows ==
  ASSUME IInv, Rows, Section
  PROVE  Rows'
<1>1. TypeOK
  BY DEF IInv
<1>2. "none" \notin RunTerminal /\ "cancel_requested" \notin RunTerminal
  BY DEF RunTerminal
<1>3. CASE CommitRun
  <2>1. PICK w, s, i : w = owed.who /\ s = owed.run /\ i = owed.inv
    OBVIOUS
  <2>2. /\ s # "none" /\ run' = [run EXCEPT ![w] = s]
        /\ owed'.run = "none" /\ owed'.inv = i /\ owed'.who = None
        /\ UNCHANGED <<inv, proc>>
    BY <1>3, <2>1 DEF CommitRun
  <2>3. s \in RunStatus
    BY <1>1, <2>1, <2>2 DEF TypeOK
  <2>4. inv \notin {"absent", "created"}
    BY <2>1, <2>2 DEF Rows, StartsFirst
  <2>5. i \notin {"created", "cancel_requested"} /\ (Gone(inv) => i = "none")
    BY <2>1 DEF Rows, OwedKnown
  <2>6. CASE w \in Live /\ (run[w] = "cancel_requested" => s \in {"cancelled", "failed"})
    <3>1. w \in Runs /\ \A r \in Live : r = w
      BY <2>6 DEF Rows, OneLive, Live
    <3>2. \A r \in Runs : run'[r] = IF r = w THEN s ELSE run[r]
      BY <1>1, <2>2 DEF TypeOK
    <3>3. \A r \in Live' : r = w /\ ~Gone(s) /\ run'[r] = s
      BY <2>6, <3>1, <3>2 DEF Live
    <3>4. OneLive' /\ OwedKnown' /\ StartsFirst'
      BY <2>2, <2>4, <2>5, <3>3 DEF OneLive, OwedKnown, StartsFirst
    <3>5. run[w] = "cancel_requested" => Gone(s)
      BY <2>6 DEF Gone, RunTerminal
    <3>6. CancelParks'
      <4>1. ASSUME proc # "down", inv = "cancel_requested", NEW r \in Live'
            PROVE  run'[r] = "cancel_requested"
        <5>1. r = w /\ run'[r] = s /\ ~Gone(s)
          BY <3>3, <4>1
        <5>2. run[w] # "cancel_requested"
          BY <3>5, <5>1
        <5>3. s \in {"cancel_requested", "cancelled"}
          BY <2>1, <2>6, <4>1, <5>2 DEF Rows, CancelParks, OwedTo
        <5> QED BY <5>1, <5>3 DEF Gone, RunTerminal
      <4> QED BY <2>2, <4>1 DEF CancelParks
    <3>7. EndIsOwedLast'
      <4>1. ASSUME i \in RunTerminal, NEW r \in Live'
            PROVE  FALSE
        <5>1. r = w /\ run'[r] = s /\ ~Gone(s)
          BY <3>3, <4>1
        <5>2. run[w] # "cancel_requested"
          BY <3>5, <5>1
        <5>3. s \in RunTerminal
          BY <2>1, <2>6, <4>1, <5>2 DEF Rows, EndIsOwedLast, OwedTo
        <5> QED BY <5>1, <5>3 DEF Gone
      <4> QED BY <2>2, <4>1 DEF EndIsOwedLast
    <3>8. EndsAfterItsRuns'
      <4>1. ASSUME Gone(inv), NEW r \in Live' PROVE FALSE
        <5>1. r = w /\ ~Gone(s)
          BY <3>3, <4>1
        <5>2. run[w] = "cancel_requested"
          BY <2>6, <4>1 DEF Rows, EndsAfterItsRuns
        <5> QED BY <3>5, <5>1, <5>2
      <4> QED BY <2>2, <4>1 DEF EndsAfterItsRuns
    <3> QED BY <3>4, <3>6, <3>7, <3>8 DEF Rows
  <2>7. CASE w \in Runs /\ s = "created" /\ i = "none" /\ Live = {} /\ inv = "running"
    <3>1. \A r \in Runs : run'[r] = IF r = w THEN s ELSE run[r]
      BY <1>1, <2>2 DEF TypeOK
    <3>2. \A r \in Live' : r = w
      BY <2>7, <3>1 DEF Live
    <3>3. OneLive' /\ OwedKnown' /\ StartsFirst' /\ CancelParks' /\ EndIsOwedLast'
      BY <1>2, <2>2, <2>5, <2>7, <3>2 DEF OneLive, OwedKnown, StartsFirst, CancelParks, EndIsOwedLast
    <3>4. EndsAfterItsRuns'
      BY <2>2, <2>7 DEF EndsAfterItsRuns, Gone, RunTerminal
    <3> QED BY <3>3, <3>4 DEF Rows
  <2> QED BY <2>1, <2>2, <2>6, <2>7 DEF Rows, OwedKnown
<1>4. CASE CommitInv
  <2>1. PICK i : i = owed.inv
    OBVIOUS
  <2>2. /\ owed.run = "none" /\ i # "none" /\ inv' = i
        /\ owed' = NothingOwed /\ UNCHANGED <<run, proc>>
    BY <1>4, <2>1 DEF CommitInv
  <2>3. i \in RunStatus /\ i \notin {"absent", "created", "cancel_requested"}
    BY <1>1, <2>1, <2>2 DEF TypeOK, Rows, OwedKnown, RunStatus, RunTerminal, Paused
  <2>4. Live' = Live
    BY <2>2 DEF Live
  <2>5. OneLive' /\ OwedKnown' /\ StartsFirst' /\ CancelParks' /\ EndIsOwedLast'
    BY <1>2, <2>2, <2>3, <2>4 DEF Rows, OneLive, OwedKnown, StartsFirst, CancelParks, EndIsOwedLast, NothingOwed
  <2>6. EndsAfterItsRuns'
    <3>1. Gone(i) => i \in RunTerminal
      BY <2>3 DEF Gone
    <3> QED BY <1>2, <2>1, <2>2, <2>4, <3>1 DEF Rows, EndIsOwedLast, OwedTo, EndsAfterItsRuns
  <2> QED BY <2>5, <2>6 DEF Rows
<1> QED BY <1>3, <1>4 DEF Section

\* The operator's cancel: the run is parked after the investigation.
LEMMA CancelRows ==
  ASSUME IInv, Rows, owed = NothingOwed, ~Gone(inv), CancelInvestigation, run' = run
  PROVE  Rows'
<1>1. Live' = Live
  BY DEF Live
<1>2. OneLive
  BY DEF Rows
<1>3. PICK l, s : l = LiveRun /\ s = ParkForCancel
  OBVIOUS
<1>4. /\ owed'.run = s /\ owed'.inv = "none" /\ (s # "none" => owed'.who = l)
      /\ inv' = IF inv = "created" THEN "cancelled" ELSE "cancel_requested"
  BY <1>3 DEF CancelInvestigation, Owes
<1>5. /\ l = None => Live = {}
      /\ l # None => l \in Live /\ \A r \in Live : r = l
  BY <1>2, <1>3, LiveRunIs
<1>6. s = IF l = None \/ run[l] = "cancel_requested" THEN "none"
          ELSE IF run[l] = "created" THEN "cancelled" ELSE "cancel_requested"
  BY <1>3 DEF ParkForCancel
<1>7. inv = "created" => Live = {}
  BY DEF Rows, StartsFirst, Live, Gone
<1>8. OneLive' /\ StartsFirst' /\ EndIsOwedLast'
  BY <1>1, <1>2, <1>4 DEF OneLive, StartsFirst, EndIsOwedLast, RunTerminal
<1>9. OwedKnown'
  BY <1>1, <1>4, <1>5, <1>6 DEF OwedKnown
<1>10. CancelParks'
  BY <1>1, <1>4, <1>5, <1>6 DEF CancelParks, OwedTo
<1>11. EndsAfterItsRuns'
  BY <1>1, <1>4, <1>7 DEF EndsAfterItsRuns, Gone, RunTerminal
<1> QED BY <1>8, <1>9, <1>10, <1>11 DEF Rows

\* The requests of the operator.
LEMMA OperatorRows ==
  ASSUME IInv, Rows, Operator
  PROVE  Rows'
<1>1. CASE UNCHANGED <<inv, run, owed, proc>>
  BY <1>1, SameRows
<1>2. CASE Create
  <2>1. /\ inv = "absent" /\ inv' = "created" /\ owed = NothingOwed
        /\ UNCHANGED <<run, owed, proc>>
    BY <1>2 DEF Create, Quiet
  <2>2. \A r \in Runs : run[r] = "absent"
    BY <2>1 DEF Rows, StartsFirst
  <2>3. Live' = {} /\ owed'.run = "none" /\ owed'.inv = "none"
    BY <2>1, <2>2 DEF Live, Gone, NothingOwed
  <2> QED BY <2>1, <2>2, <2>3 DEF Rows, OneLive, OwedKnown, StartsFirst, CancelParks, EndIsOwedLast,
             EndsAfterItsRuns
<1>3. CASE Cancel
  <2>1. owed = NothingOwed /\ ~Gone(inv) /\ CancelInvestigation /\ run' = run
    BY <1>3 DEF Cancel, Quiet
  <2> QED BY <2>1, CancelRows
<1>4. ASSUME NEW t \in Tasks, NEW r \in Runs, Start(t, r) PROVE Rows'
  <2>1. /\ inv' = "running" /\ run' = run
        /\ owed' = Owes(r, IF Live = {} THEN "created" ELSE "none", "none")
        /\ Live = {} => run[r] = "absent"
    BY <1>4 DEF Start
  <2>2. Live' = Live
    BY <2>1 DEF Live
  <2>3. OneLive' /\ StartsFirst' /\ CancelParks' /\ EndsAfterItsRuns'
    BY <2>1, <2>2 DEF Rows, OneLive, StartsFirst, CancelParks, EndsAfterItsRuns, Gone, RunTerminal
  <2>4. /\ owed'.inv = "none"
        /\ owed'.run # "none" => owed'.run = "created" /\ Live = {} /\ owed'.who = r
    BY <2>1 DEF Owes
  <2>5. OwedKnown' /\ EndIsOwedLast'
    BY <2>1, <2>2, <2>4 DEF OwedKnown, EndIsOwedLast, RunTerminal
  <2> QED BY <2>3, <2>5 DEF Rows
<1>5. ASSUME \/ \E t \in Tasks, r \in Runs : ResumeRun(t, r)
             \/ \E t \in Tasks, c \in Calls : (\E d \in {"approved", "rejected"} : Decide(t, c, d)) \/ RetryDecision(t, c)
             \/ \E c \in Calls : Lapse(c)
      PROVE  Rows'
  BY <1>1, <1>5 DEF ResumeRun, Decide, RetryDecision, Lapse
<1> QED BY <1>2, <1>3, <1>4, <1>5 DEF Operator

\* Startup, shutdown and the death of the process.
LEMMA ProcessRows ==
  ASSUME IInv, Rows, SweepsStarted, Process
  PROVE  Rows'
<1>1. OneLive
  BY DEF Rows
<1>2. PICK l : l = LiveRun
  OBVIOUS
<1>3. /\ l = None => Live = {}
      /\ l # None => l \in Live /\ \A r \in Live : r = l
  BY <1>1, <1>2, LiveRunIs
<1>4. "none" \notin RunTerminal /\ "cancelled" \in RunTerminal /\ "paused_uncertain" \notin RunTerminal
  BY DEF RunTerminal
<1>5. CASE Crash
  <2>1. owed'.run = "none" /\ owed'.inv = "none" /\ proc' = "down" /\ UNCHANGED <<inv, run>>
    BY <1>5 DEF Crash, NothingOwed
  <2>2. Live' = Live
    BY <2>1 DEF Live
  <2> QED BY <1>4, <2>1, <2>2 DEF Rows, OneLive, OwedKnown, StartsFirst, CancelParks, EndIsOwedLast,
             EndsAfterItsRuns
<1>6. CASE Boot
  <2>1. PICK s, i : /\ s = IF ~Gone(inv) /\ l # None /\ "cancel_requested" \in {inv, run[l]}
                           THEN "cancelled" ELSE "none"
                    /\ i = IF inv = "cancel_requested" THEN "cancelled" ELSE "none"
    OBVIOUS
  <2>2. owed' = Owes(l, s, i) /\ UNCHANGED <<inv, run>>
    BY <1>2, <1>6, <2>1 DEF Boot
  <2>3. owed'.run = s /\ owed'.inv = i /\ (s # "none" => owed'.who = l)
    BY <2>2 DEF Owes
  <2>4. Live' = Live
    BY <2>2 DEF Live
  <2>5. OneLive' /\ EndsAfterItsRuns'
    BY <2>2, <2>4 DEF Rows, OneLive, EndsAfterItsRuns
  <2>6. OwedKnown'
    BY <1>3, <2>1, <2>2, <2>3, <2>4 DEF OwedKnown, Gone, RunTerminal
  <2>7. StartsFirst'
    <3>1. inv \in {"absent", "created"} => Live = {}
      BY DEF Rows, StartsFirst, Live, Gone
    <3> QED BY <1>3, <2>1, <2>2, <2>3, <3>1 DEF Rows, StartsFirst
  <2>8. CancelParks' /\ EndIsOwedLast'
    <3>1. inv = "cancel_requested" => \A r \in Live : r = l /\ s = "cancelled"
      BY <1>3, <2>1 DEF Gone, RunTerminal
    <3> QED BY <1>4, <2>1, <2>2, <2>3, <2>4, <3>1 DEF CancelParks, EndIsOwedLast, OwedTo
  <2> QED BY <2>5, <2>6, <2>7, <2>8 DEF Rows
<1>7. ASSUME owed = NothingOwed, proc # "down", UNCHANGED <<inv, run>>, owed' = ParkUncertain,
             l # None, run[l] = "running"
      PROVE  Rows'
  <2>1. PICK i : i = IF inv = "running" THEN "paused_uncertain" ELSE "none"
    OBVIOUS
  <2>2. owed' = Owes(l, "paused_uncertain", i)
    BY <1>2, <1>7, <2>1 DEF ParkUncertain
  <2>3. i # "none" => ~Gone(inv) /\ inv # "created" /\ i \notin {"created", "cancel_requested"}
    BY <2>1 DEF Gone, RunTerminal
  <2>4. i \notin RunTerminal
    BY <1>4, <2>1
  <2> QED BY <1>3, <1>7, <2>2, <2>3, <2>4, OweRows
<1>8. CASE Classify \/ \E badTail \in BOOLEAN : SettleApprovals(badTail)
  <2>1. /\ owed = NothingOwed /\ proc # "down" /\ UNCHANGED <<inv, run>>
        /\ owed' = NothingOwed \/ (owed' = ParkUncertain /\ l # None /\ run[l] = "running")
    BY <1>2, <1>8 DEF Classify, SettleApprovals, Quiet
  <2> QED BY <1>7, <2>1, SameRows
<1>9. CASE CancelAll
  <2>1. CASE Gone(inv)
    BY <1>9, <2>1, SameRows DEF CancelAll
  <2>2. CASE ~Gone(inv)
    <3>1. owed = NothingOwed /\ CancelInvestigation /\ run' = run
      BY <1>9, <2>2 DEF CancelAll, Quiet
    <3> QED BY <2>2, <3>1, CancelRows
  <2> QED BY <2>1, <2>2
<1>10. CASE SweepShutdown
  <2>1. PICK s : s = IF l = None THEN "none" ELSE "cancelled"
    OBVIOUS
  <2>2. /\ owed = NothingOwed /\ proc # "down" /\ UNCHANGED <<inv, run>> /\ ~Gone(inv) /\ inv # "created"
        /\ owed' = Owes(l, s, "cancelled")
    BY <1>2, <1>10, <2>1 DEF SweepShutdown, Quiet, SweepsStarted
  <2>3. s # "none" => l \in Live /\ (run[l] = "cancel_requested" => s \in {"cancelled", "failed"})
    BY <1>3, <2>1
  <2>4. \A q \in Live : run[q] = "cancel_requested" \/ (q = l /\ s \in RunTerminal)
    BY <1>3, <1>4, <2>1
  <2> QED BY <2>2, <2>3, <2>4, OweRows
<1>11. CASE BeginStop \/ Exit
  BY <1>11, SameRows DEF BeginStop, Exit
<1>12. ASSUME NEW t \in Tasks, KillTask(t) \/ \E c \in Calls : Reconcile(t, c) PROVE Rows'
  BY <1>12, SameRows DEF KillTask, Reconcile
<1> QED BY <1>5, <1>6, <1>8, <1>9, <1>10, <1>11, <1>12 DEF Process

LEMMA NextRows ==
  ASSUME IInv, Rows, SweepsStarted, Placed, [Next]_vars
  PROVE  Rows' /\ SweepsStarted'
<1>1. Rows'
  <2>1. CASE UNCHANGED vars
    BY <2>1, SameRows DEF vars
  <2> QED BY <2>1, CommitRows, OperatorRows, LoopRows, DecisionRows, ProcessRows DEF Next
<1>2. CASE UNCHANGED <<inv, proc>>
  BY <1>1, <1>2 DEF SweepsStarted
<1>3. CASE Section
  BY <1>1, <1>3 DEF Section, CommitRun, CommitInv, SweepsStarted, Rows, OwedKnown
<1>4. CASE Operator
  BY <1>1, <1>4 DEF Operator, Create, Cancel, Start, ResumeRun, Decide, RetryDecision, Lapse, SweepsStarted,
     CancelInvestigation
<1>5. ASSUME NEW t \in Tasks, Loop(t) \/ Decision(t) PROVE UNCHANGED <<inv, proc>>
  <2>1. CASE Loop(t)
    BY <2>1 DEF Loop, LeaveTerminal, SyncRun, FinaliseCancel, LeaveWaiting, Unpause, FirstStep, CallProvider,
       PauseRound, ProviderFails, StaleAnswer, NextRound, ProviderCancels, ProviderStops, PlanCall,
       StartCall, RequestApproval, RunTool, FoldWaiting, Fold, FoldOverBudget
  <2>2. CASE Decision(t)
    BY <2>2 DEF Decision, MarkProcessing, HandleUnmatched, HandleRejected, HandleCancelled, HandleApproved,
       Consume, ConsumeRefused, RunApprovedTool, Land, ResumeAfterDecision, MarkDownstream
  <2> QED BY <1>5, <2>1, <2>2
<1>6. CASE Process
  <2>1. CASE CancelAll
    BY <1>1, <2>1 DEF CancelAll, CancelInvestigation, SweepsStarted, Gone, RunTerminal
  <2>2. CASE proc' # "sweeping"
    BY <1>1, <2>2 DEF SweepsStarted
  <2>3. CASE ~CancelAll
    <3>1. UNCHANGED <<inv, proc>> \/ proc' # "sweeping"
      BY <1>6, <2>3 DEF Process, Crash, Boot, Classify, BeginStop, SweepShutdown, Exit, Reconcile,
         SettleApprovals, KillTask
    <3> QED BY <1>2, <2>2, <3>1
  <2> QED BY <2>1, <2>3
<1> QED BY <1>1, <1>2, <1>3, <1>4, <1>5, <1>6 DEF Next, vars

-----------------------------------------------------------------------------
(* Nothing left behind: the calls, their approvals and the coroutines.      *)

\* An investigation that has ended does not come back, nor does a run.
OverStays(c) ==
  Gone(inv) \/ owner[c] \notin Live => (Gone(inv) \/ owner[c] \notin Live)'

LEMMA KilledStays ==
  ASSUME Settled, killed' = killed,
         \A c \in Calls : call[c] = "uncertain" => call'[c] = "uncertain",
         \A c \in Calls : Ghost(c) => Ghost(c)' \/ (c \in Dangerous => call'[c] = "uncertain")
  PROVE  KilledKnown'
  BY AgentRunCalls DEF Settled, KilledKnown

LEMMA GhostsStay ==
  ASSUME Settled, proc' = proc,
         \A c \in Calls : Ghost(c)' => Ghost(c) /\ OverStays(c)
  PROVE  NoGhosts'
  BY DEF Settled, NoGhosts, OverStays

\* The rows of the runs or the phase of the process change, and no more.
LEMMA RowsSettled ==
  ASSUME Settled, UNCHANGED <<task, callVars, appr, down, killed>>,
         proc' \in {"settling", "up"} => proc' = proc,
         \A c \in Calls : call[c] # "absent" => OverStays(c) /\ run'[owner[c]] # "absent"
  PROVE  Settled'
<1> USE DEF callVars
<1>1. Placed' /\ Owned' /\ SpentFor' /\ SpentIsSettled'
  BY DEF Settled, Placed, Owned, SpentFor, SpentIsSettled
<1>2. \A c : Ghost(c)' <=> Ghost(c)
  BY DEF Ghost, Executing
<1>3. KilledKnown'
  BY <1>2, KilledStays
<1>4. \A c \in Calls : Ghost(c) => OverStays(c)
  BY DEF Ghost
<1>5. NoGhosts'
  BY <1>2, <1>4 DEF Settled, NoGhosts, OverStays
<1> QED BY <1>1, <1>3, <1>5 DEF Settled

\* A coroutine moves and no call changes; an approval may be spent by the one that
\* executes its call, and come to be processed by the one that handles it.
LEMMA MoveSettled ==
  ASSUME IInv, Settled, NEW t \in Tasks, NEW x \in Coroutines,
         task' = [task EXCEPT ![t] = x],
         UNCHANGED <<callVars, killed, run, proc>>, Gone(inv) => Gone(inv'),
         x.pc \in HasRun => x.run \in Runs,
         x.pc \in Executes <=> task[t].pc \in Executes,
         x.pc \in Executes => x.call = task[t].call,
         x.pc \in {"tool", "requested", "done"} => task[t].pc \in {"tool", "requested", "done"},
         x.pc \in {"executing", "consumed", "applied"} =>
           task[t].pc \in {"executing", "consumed", "applied"} /\ x.appr = task[t].appr,
         \A c \in Calls : appr'[c] = "consumed" =>
           appr[c] = "consumed" \/ (task[t].pc = "executing" /\ task[t].call = c),
         \A c \in Calls : down'[c] = "processing" /\ x.appr # c =>
           down[c] = "processing" /\ task[t].appr # c
  PROVE  Settled'
<1> USE DEF callVars
<1>1. \A u \in Tasks : task'[u] = IF u = t THEN x ELSE task[u]
  BY DEF IInv, TypeOK
<1>2. Placed' /\ Owned'
  BY <1>1 DEF Settled, Placed, Owned
<1>3. \A u \in Tasks : task[u].pc \in Executes => task[u].call \in Calls /\ call[task[u].call] = "running"
  BY DEF IInv, Working, Holding, Holds
<1>4. "executing" \in Executes /\ {"tool", "requested", "done"} \subseteq Executes
      /\ {"executing", "consumed", "applied"} \subseteq Executes
      /\ "executing" \notin {"tool", "requested", "done"}
  BY DEF Executes
<1>5. SpentFor'
  <2>1. ASSUME NEW c \in Calls, appr'[c] = "consumed"
        PROVE  c \in bound /\ call[c] \in {"running", "succeeded", "failed", "uncertain"}
    <3>1. CASE appr[c] = "consumed"
      BY <3>1 DEF Settled, SpentFor
    <3>2. CASE task[t].pc = "executing" /\ task[t].call = c
      BY <1>3, <1>4, <3>2 DEF Settled, SpentFor
    <3> QED BY <2>1, <3>1, <3>2
  <2>2. ASSUME NEW u \in Tasks, task'[u].pc \in {"tool", "requested", "done"}
        PROVE  appr'[task'[u].call] # "consumed"
    <3>1. task[u].pc \in {"tool", "requested", "done"} /\ task'[u].call = task[u].call
      BY <1>1, <1>4, <2>2
    <3>2. task[u].call \in Calls /\ appr[task[u].call] # "consumed"
      BY <1>3, <1>4, <3>1 DEF Settled, SpentFor
    <3>3. ~(task[t].pc = "executing" /\ task[t].call = task[u].call)
      BY <1>4, <3>1 DEF IInv, Working, OneHolder, Holds
    <3> QED BY <3>1, <3>2, <3>3
  <2>3. ASSUME NEW u \in Tasks, task'[u].pc \in {"executing", "consumed", "applied"}
        PROVE  task'[u].call = task'[u].appr /\ task'[u].call \in bound
    BY <1>1, <1>4, <2>3 DEF Settled, SpentFor
  <2> QED BY <2>1, <2>2, <2>3 DEF SpentFor
<1>6. SpentIsSettled'
  <2>1. ASSUME proc = "up", NEW c \in Calls, appr'[c] = "consumed", call[c] # "running",
               down'[c] = "processing"
        PROVE  \E u \in Tasks : task'[u].appr = c
    <3>1. CASE x.appr = c
      BY <1>1, <3>1
    <3>2. CASE x.appr # c
      <4>1. down[c] = "processing" /\ task[t].appr # c
        BY <2>1, <3>2
      <4>2. appr[c] = "consumed"
        BY <1>3, <1>4, <2>1
      <4>3. PICK u \in Tasks : task[u].appr = c
        BY <2>1, <4>1, <4>2 DEF Settled, SpentIsSettled
      <4> QED BY <1>1, <4>1, <4>3
    <3> QED BY <3>1, <3>2
  <2> QED BY <2>1 DEF SpentIsSettled
<1>7. \A c : Ghost(c)' <=> Ghost(c)
  BY <1>1 DEF Ghost, Executing
<1>8. KilledKnown'
  BY <1>7, KilledStays
<1>9. \A c \in Calls : OverStays(c)
  BY DEF OverStays, Live
<1>10. NoGhosts'
  BY <1>7, <1>9, GhostsStay
<1> QED BY <1>2, <1>5, <1>6, <1>8, <1>10 DEF Settled

\* A coroutine that executes nothing moves, and no approval does.
LEMMA IdleSettled ==
  ASSUME IInv, Settled, NEW t \in Tasks, NEW x \in Coroutines,
         task' = [task EXCEPT ![t] = x], task[t].pc \notin Executes, x.pc \notin Executes,
         UNCHANGED <<callVars, appr, down, killed, run, proc>>, Gone(inv) => Gone(inv'),
         x.pc \in HasRun => x.run \in Runs,
         task[t].appr # None => x.appr = task[t].appr
  PROVE  Settled'
<1>1. /\ x.pc \notin {"tool", "requested", "done"} /\ x.pc \notin {"executing", "consumed", "applied"}
  BY DEF Executes
<1>2. \A c \in Calls : down'[c] = "processing" /\ x.appr # c => down[c] = "processing" /\ task[t].appr # c
  BY AgentRunCalls
<1>3. \A c \in Calls : appr'[c] = "consumed" => appr[c] = "consumed"
  OBVIOUS
<1> QED BY <1>1, <1>2, <1>3, MoveSettled

\* Leaving(t, how) keeps the approval whose decision t goes on with.
LEMMA LeavingKeeps ==
  ASSUME TypeOK, NEW t \in Tasks, NEW how \in {"returned", "raised"}
  PROVE  \E x \in Coroutines :
           /\ Leaving(t, how) = [task EXCEPT ![t] = x]
           /\ x.pc \in {"off", "returned", "raised"}
           /\ task[t].appr # None => x.appr = task[t].appr
<1> DEFINE x == IF task[t].appr = None THEN NoTask
                ELSE Coroutine(how, None, None, task[t].appr)
<1>1. task[t] \in Coroutines
  BY DEF TypeOK, Coroutines, LoopPcs
<1>2. /\ x \in Coroutines /\ x.pc \in {"off", "returned", "raised"}
      /\ task[t].appr # None => x.appr = task[t].appr
  BY <1>1 DEF Coroutines, Coroutine, NoTask, LoopPcs, Mid
<1>3. Leaving(t, how) = [task EXCEPT ![t] = x]
  BY DEF Leaving
<1> QED BY <1>2, <1>3

LEMMA LeaveSettled ==
  ASSUME IInv, Settled, NEW t \in Tasks, task[t].pc \notin Executes,
         NEW how \in {"returned", "raised"}, task' = Leaving(t, how),
         UNCHANGED <<callVars, appr, down, killed, run, proc, inv>>
  PROVE  Settled'
<1>1. PICK x \in Coroutines :
           /\ Leaving(t, how) = [task EXCEPT ![t] = x]
           /\ x.pc \in {"off", "returned", "raised"}
           /\ task[t].appr # None => x.appr = task[t].appr
  BY LeavingKeeps DEF IInv
<1>2. x.pc \notin Executes /\ x.pc \notin HasRun
  BY <1>1 DEF Executes, HasRun, LoopAwaits
<1> QED BY <1>1, <1>2, IdleSettled

LEMMA AtSettled ==
  ASSUME IInv, Settled, NEW t \in Tasks, task[t].pc \notin Executes,
         NEW place \in LoopPcs \ Executes, place \in HasRun => task[t].pc \in HasRun, task' = At(t, place),
         UNCHANGED <<callVars, appr, down, killed, run, proc, inv>>
  PROVE  Settled'
<1>1. PICK x \in Coroutines :
           /\ At(t, place) = [task EXCEPT ![t] = x]
           /\ x.pc = place /\ x.run = task[t].run /\ x.call = task[t].call
           /\ x.appr = task[t].appr
  BY AtMoves DEF IInv
<1>2. x.pc \in HasRun => x.run \in Runs
  BY <1>1 DEF Settled, Placed
<1> QED BY <1>1, <1>2, IdleSettled

LEMMA StayWhole ==
  ASSUME Settled, UNCHANGED <<task, callVars, appr, down, killed, run, proc, inv>>
  PROVE  Settled'
<1>1. \A c \in Calls : OverStays(c)
  BY DEF OverStays, Live, callVars
<1>2. \A c \in Calls : call[c] # "absent" => run'[owner[c]] # "absent"
  BY DEF Settled, Owned
<1> QED BY <1>1, <1>2, RowsSettled

\* A call ends or goes to wait: the one that t executes, or one that waited and is
\* cancelled.
LEMMA EndSettled ==
  ASSUME IInv, Settled, NEW t \in Tasks, NEW x \in Coroutines,
         task' = [task EXCEPT ![t] = x], x.pc \notin Executes,
         x.pc \in HasRun => x.run \in Runs,
         task[t].appr # None => x.appr = task[t].appr,
         NEW c \in Calls, NEW o \in CallTerminal \cup {"waiting"}, call' = [call EXCEPT ![c] = o],
         bound \subseteq bound', UNCHANGED <<owner, appr, down, killed, run, proc, inv>>,
         \/ call[c] = "waiting" /\ task[t].pc \notin Executes /\ o = "cancelled"
         \/ task[t].pc \in Executes /\ task[t].call = c /\ o # "cancelled"
              /\ (o = "waiting" => task[t].pc = "requested")
  PROVE  Settled'
<1>1. \A u \in Tasks : task'[u] = IF u = t THEN x ELSE task[u]
  BY DEF IInv, TypeOK
<1>2. \A d \in Calls : call'[d] = IF d = c THEN o ELSE call[d]
  BY DEF IInv, TypeOK
<1>3. "absent" \notin CallTerminal /\ "running" \notin CallTerminal
      /\ \A q \in CallTerminal : q # "cancelled" => q \in {"running", "succeeded", "failed", "uncertain"}
      /\ {"tool", "requested", "done"} \subseteq Executes
      /\ {"executing", "consumed", "applied"} \subseteq Executes
      /\ \A p \in Executes : p \in {"tool", "requested", "done"} \/ p \in {"executing", "consumed", "applied"}
  BY DEF CallTerminal, Executes
<1>4. Placed' /\ Owned'
  <2>1. call[c] # "absent"
    BY DEF IInv, Working, Holding, Holds
  <2> QED BY <1>1, <1>2, <2>1 DEF Settled, Placed, Owned
<1>5. appr[c] = "consumed" => /\ task[t].pc \in {"executing", "consumed", "applied"} /\ task[t].appr = c
                              /\ o \notin {"cancelled", "waiting"}
  BY <1>3 DEF Settled, SpentFor
<1>6. SpentFor'
  <2>1. \A d \in Calls : appr[d] = "consumed" =>
          d \in bound' /\ call'[d] \in {"running", "succeeded", "failed", "uncertain"}
    BY <1>2, <1>3, <1>5 DEF Settled, SpentFor
  <2>2. ASSUME NEW u \in Tasks, task'[u].pc \in Executes
        PROVE  u # t /\ task'[u] = task[u]
    BY <1>1, <2>2
  <2>3. ASSUME NEW u \in Tasks, task'[u].pc \in {"tool", "requested", "done"}
        PROVE  appr[task'[u].call] # "consumed"
    <3>1. task'[u].pc \in Executes
      BY <2>3 DEF Executes
    <3>2. task'[u] = task[u]
      BY <2>2, <3>1
    <3>3. task[u].pc \in {"tool", "requested", "done"}
      BY <2>3, <3>2
    <3> QED BY <3>2, <3>3 DEF Settled, SpentFor
  <2>4. ASSUME NEW u \in Tasks, task'[u].pc \in {"executing", "consumed", "applied"}
        PROVE  task'[u].call = task'[u].appr /\ task'[u].call \in bound'
    <3>1. task'[u].pc \in Executes
      BY <2>4 DEF Executes
    <3>2. task'[u] = task[u]
      BY <2>2, <3>1
    <3>3. task[u].pc \in {"executing", "consumed", "applied"}
      BY <2>4, <3>2
    <3>4. task[u].call = task[u].appr /\ task[u].call \in bound
      BY <3>3 DEF Settled, SpentFor
    <3> QED BY <3>2, <3>4
  <2>5. appr' = appr
    OBVIOUS
  <2> QED BY <2>1, <2>3, <2>4, <2>5 DEF SpentFor
<1>7. SpentIsSettled'
  <2>1. ASSUME proc = "up", NEW d \in Calls, appr[d] = "consumed", call'[d] # "running",
               down[d] = "processing"
        PROVE  \E u \in Tasks : task'[u].appr = d
    <3>1. CASE d = c
      BY <1>1, <1>5, <2>1, <3>1, AgentRunCalls
    <3>2. CASE d # c
      <4>1. PICK u \in Tasks : task[u].appr = d
        BY <1>2, <2>1, <3>2 DEF Settled, SpentIsSettled
      <4> QED BY <1>1, <4>1, AgentRunCalls
    <3> QED BY <3>1, <3>2
  <2> QED BY <2>1 DEF SpentIsSettled
<1>8. \A d \in Calls : d # c => (Ghost(d)' <=> Ghost(d))
  BY <1>1, <1>2 DEF Ghost, Executing
<1>9. ~Ghost(c) /\ call[c] # "uncertain"
  BY DEF Ghost, Executing, IInv, Working, Holding, Holds
<1>10. ~Ghost(c)'
  BY <1>2, <1>3 DEF Ghost
<1>11. KilledKnown'
  BY <1>2, <1>8, <1>9, KilledStays
<1>12. \A d \in Calls : OverStays(d)
  BY DEF OverStays, Live
<1>13. NoGhosts'
  BY <1>8, <1>10, <1>12, GhostsStay
<1> QED BY <1>4, <1>6, <1>7, <1>11, <1>13 DEF Settled

\* The steps of a loop between its calls.
LEMMA RoundSettled ==
  ASSUME IInv, Settled, NEW t \in Tasks,
         \/ LeaveTerminal(t) \/ SyncRun(t) \/ FinaliseCancel(t) \/ LeaveWaiting(t) \/ Unpause(t)
         \/ FirstStep(t) \/ CallProvider(t)
         \/ \E s \in Paused : PauseRound(t, s)
         \/ ProviderFails(t) \/ StaleAnswer(t) \/ NextRound(t) \/ ProviderCancels(t)
         \/ \E s \in Paused \cup {"waiting", "completed", "failed"} : ProviderStops(t, s)
  PROVE  Settled'
<1>1. UNCHANGED <<callVars, appr, down, killed, run, proc, inv>>
  BY DEF LeaveTerminal, SyncRun, FinaliseCancel, LeaveWaiting, Unpause, FirstStep, CallProvider, PauseRound,
     ProviderFails, StaleAnswer, NextRound, ProviderCancels, ProviderStops, apprVars, histVars
<1>2. task[t].pc \in {"boundary", "provider"}
  BY DEF LeaveTerminal, SyncRun, FinaliseCancel, LeaveWaiting, Unpause, FirstStep, CallProvider, PauseRound,
     ProviderFails, StaleAnswer, NextRound, ProviderCancels, ProviderStops, AtBoundary, Answered
<1>3. /\ task[t].pc \notin Executes /\ task[t].pc \in HasRun
      /\ {"boundary", "provider"} \subseteq LoopPcs \ Executes
  BY <1>2 DEF Executes, HasRun, LoopAwaits, LoopPcs
<1>4. \/ task' = task
      \/ \E how \in {"returned", "raised"} : task' = Leaving(t, how)
      \/ \E place \in {"boundary", "provider"} : task' = At(t, place)
  BY DEF LeaveTerminal, SyncRun, FinaliseCancel, LeaveWaiting, Unpause, FirstStep, CallProvider, PauseRound,
     ProviderFails, StaleAnswer, NextRound, ProviderCancels, ProviderStops, StopWith
<1>5. CASE task' = task
  BY <1>1, <1>5, StayWhole
<1>6. CASE \E how \in {"returned", "raised"} : task' = Leaving(t, how)
  BY <1>1, <1>3, <1>6, LeaveSettled
<1>7. CASE \E place \in {"boundary", "provider"} : task' = At(t, place)
  BY <1>1, <1>3, <1>7, AtSettled
<1> QED BY <1>4, <1>5, <1>6, <1>7

\* The steps in the middle of an execution.
LEMMA ExecuteSettled ==
  ASSUME IInv, Settled, NEW t \in Tasks,
         RequestApproval(t) \/ RunTool(t) \/ Consume(t) \/ RunApprovedTool(t)
  PROVE  Settled'
<1>1. PICK place \in {"requested", "done", "consumed", "applied"} :
        /\ task' = At(t, place)
        /\ place \in {"requested", "done"} => task[t].pc = "tool"
        /\ place = "consumed" => task[t].pc = "executing"
        /\ place = "applied" => task[t].pc = "consumed"
        /\ \/ appr' = appr
           \/ place = "requested" /\ appr' = [appr EXCEPT ![task[t].call] = "pending"]
           \/ place = "consumed" /\ appr' = [appr EXCEPT ![task[t].call] = "consumed"]
  BY DEF RequestApproval, RunTool, Consume, RunApprovedTool, apprVars
<1>2. UNCHANGED <<callVars, killed, run, proc, inv, down>>
  BY DEF RequestApproval, RunTool, Consume, RunApprovedTool, apprVars, histVars
<1>3. PICK x \in Coroutines : /\ At(t, place) = [task EXCEPT ![t] = x]
                              /\ x.pc = place /\ x.run = task[t].run /\ x.call = task[t].call
                              /\ x.appr = task[t].appr
  BY AtMoves DEF IInv, LoopPcs, LoopAwaits, DecisionAwaits
<1>4. x.pc \in Executes /\ task[t].pc \in Executes \cap HasRun
  BY <1>1, <1>3 DEF Executes, HasRun, LoopAwaits
<1>5. x.run \in Runs
  BY <1>3, <1>4 DEF Settled, Placed
<1>6. \A c \in Calls : appr'[c] = "consumed" =>
        appr[c] = "consumed" \/ (task[t].pc = "executing" /\ task[t].call = c)
  BY <1>1 DEF IInv, TypeOK
<1>7. /\ x.pc \in {"tool", "requested", "done"} => task[t].pc \in {"tool", "requested", "done"}
      /\ x.pc \in {"executing", "consumed", "applied"} => task[t].pc \in {"executing", "consumed", "applied"}
  BY <1>1, <1>3
<1>8. \A c \in Calls : down'[c] = "processing" /\ x.appr # c => down[c] = "processing" /\ task[t].appr # c
  BY <1>2, <1>3
<1> QED BY <1>1, <1>2, <1>3, <1>4, <1>5, <1>6, <1>7, <1>8, MoveSettled

\* A call is planned by the loop of its run.
LEMMA PlanSettled ==
  ASSUME IInv, Settled, NEW t \in Tasks, NEW c \in Calls, PlanCall(t, c)
  PROVE  Settled'
<1> DEFINE x == Coroutine("planned", task[t].run, c, task[t].appr)
<1>1. call[c] = "absent" /\ task[t].pc = "provider" /\ run[task[t].run] = "running"
  BY DEF PlanCall, Answered, RunOf
<1>2. task[t].run \in Runs
  BY <1>1 DEF Settled, Placed, HasRun, LoopAwaits
<1>3. /\ task' = [task EXCEPT ![t] = x] /\ call' = [call EXCEPT ![c] = "planned"]
      /\ owner' = [owner EXCEPT ![c] = task[t].run]
      /\ UNCHANGED <<inv, run, bound, appr, down, proc, killed>>
  BY DEF PlanCall, apprVars, histVars
<1>4. x.pc = "planned" /\ x.run = task[t].run /\ x.appr = task[t].appr
  BY DEF Coroutine
<1> HIDE DEF x
<1>5. \A u \in Tasks : task'[u] = IF u = t THEN x ELSE task[u]
  BY <1>3 DEF IInv, TypeOK
<1>6. \A d \in Calls : /\ call'[d] = IF d = c THEN "planned" ELSE call[d]
                       /\ owner'[d] = IF d = c THEN task[t].run ELSE owner[d]
  BY <1>3 DEF IInv, TypeOK
<1>7. "planned" \notin Executes /\ "provider" \notin Executes
      /\ {"tool", "requested", "done"} \subseteq Executes
      /\ {"executing", "consumed", "applied"} \subseteq Executes
  BY DEF Executes
<1>8. Placed' /\ Owned'
  BY <1>1, <1>2, <1>3, <1>4, <1>5, <1>6 DEF Settled, Placed, Owned
<1>9. appr[c] # "consumed"
  BY <1>1 DEF Settled, SpentFor
<1>10. SpentFor'
  <2>1. \A d \in Calls : appr'[d] = "consumed" =>
          d \in bound' /\ call'[d] \in {"running", "succeeded", "failed", "uncertain"}
    BY <1>3, <1>6, <1>9 DEF Settled, SpentFor
  <2>2. \A u \in Tasks :
          /\ task'[u].pc \in {"tool", "requested", "done"} => appr[task'[u].call] # "consumed"
          /\ task'[u].pc \in {"executing", "consumed", "applied"} =>
               task'[u].call = task'[u].appr /\ task'[u].call \in bound
    BY <1>4, <1>5 DEF Settled, SpentFor
  <2> QED BY <1>3, <2>1, <2>2 DEF SpentFor
<1>11. SpentIsSettled'
  BY <1>3, <1>4, <1>5, <1>6, <1>9 DEF Settled, SpentIsSettled
<1>12. \A d \in Calls : d # c => (Ghost(d)' <=> Ghost(d))
  BY <1>1, <1>4, <1>5, <1>6, <1>7 DEF Ghost, Executing
<1>13. ~Ghost(c) /\ ~Ghost(c)'
  BY <1>1, <1>6 DEF Ghost
<1>14. KilledKnown'
  BY <1>1, <1>3, <1>6, <1>12, <1>13, KilledStays
<1>15. \A d \in Calls : d # c => OverStays(d)
  BY <1>3, <1>6 DEF OverStays, Live
<1>16. NoGhosts'
  BY <1>3, <1>12, <1>13, <1>15, GhostsStay
<1> QED BY <1>8, <1>10, <1>11, <1>14, <1>16 DEF Settled

\* A call starts: the one that the loop of t has planned, or one whose approval the
\* decision of t found granted.
LEMMA BeginSettled ==
  ASSUME IInv, Settled, NEW t \in Tasks, NEW x \in Coroutines,
         task' = [task EXCEPT ![t] = x], task[t].pc \notin Executes,
         x.run \in Runs, x.appr = task[t].appr,
         NEW c \in Calls, x.call = c, call[c] \in {"planned", "waiting"},
         x.pc = "tool" \/ (x.pc = "executing" /\ x.appr = c /\ c \in bound),
         call' = [call EXCEPT ![c] = "running"],
         UNCHANGED <<owner, bound, appr, down, killed, run, proc, inv>>
  PROVE  Settled'
<1>1. \A u \in Tasks : task'[u] = IF u = t THEN x ELSE task[u]
  BY DEF IInv, TypeOK
<1>2. \A d \in Calls : call'[d] = IF d = c THEN "running" ELSE call[d]
  BY DEF IInv, TypeOK
<1>3. x.pc \in Executes
  BY DEF Executes
<1>4. Placed' /\ Owned'
  BY <1>1, <1>2 DEF Settled, Placed, Owned
<1>5. appr[c] # "consumed"
  BY DEF Settled, SpentFor
<1>6. SpentFor'
  <2>1. \A d \in Calls : appr'[d] = "consumed" =>
          d \in bound' /\ call'[d] \in {"running", "succeeded", "failed", "uncertain"}
    BY <1>2, <1>5 DEF Settled, SpentFor
  <2>2. ASSUME NEW u \in Tasks
        PROVE  /\ task'[u].pc \in {"tool", "requested", "done"} => appr[task'[u].call] # "consumed"
               /\ task'[u].pc \in {"executing", "consumed", "applied"} =>
                    task'[u].call = task'[u].appr /\ task'[u].call \in bound
    <3>1. CASE u = t
      BY <1>1, <1>5, <3>1
    <3>2. CASE u # t
      BY <1>1, <3>2 DEF Settled, SpentFor
    <3> QED BY <3>1, <3>2
  <2> QED BY <2>1, <2>2 DEF SpentFor
<1>7. SpentIsSettled'
  BY <1>1, <1>2 DEF Settled, SpentIsSettled
<1>8. \A d \in Calls : d # c => (Ghost(d)' <=> Ghost(d))
  BY <1>1, <1>2, <1>3 DEF Ghost, Executing
<1>9. ~Ghost(c) /\ call[c] # "uncertain"
  BY DEF Ghost
<1>10. ~Ghost(c)'
  BY <1>1, <1>3 DEF Ghost, Executing
<1>11. KilledKnown'
  BY <1>2, <1>8, <1>9, KilledStays
<1>12. \A d \in Calls : OverStays(d)
  BY DEF OverStays, Live
<1>13. NoGhosts'
  BY <1>8, <1>10, <1>12, GhostsStay
<1> QED BY <1>4, <1>6, <1>7, <1>11, <1>13 DEF Settled

\* What a loop does with the outcome of its call.
LEMMA FoldSettled ==
  ASSUME IInv, Settled, NEW t \in Tasks,
         FoldWaiting(t) \/ \E o \in CallTerminal : Fold(t, o) \/ FoldOverBudget(t, o)
  PROVE  Settled'
<1>1. task[t].pc \in {"tool", "requested", "done"}
  BY DEF FoldWaiting, Fold, FoldOverBudget
<1>2. task[t].pc \in Executes \cap HasRun /\ "boundary" \in LoopPcs \ Executes
  BY <1>1 DEF Executes, HasRun, LoopAwaits, LoopPcs
<1>3. PICK c \in Calls : c = task[t].call
  BY <1>2 DEF IInv, Working, Holding, Holds
<1>4. /\ UNCHANGED <<owner, appr, down, killed, run, proc, inv>>
      /\ \E o \in CallTerminal \cup {"waiting"} :
           /\ call' = [call EXCEPT ![c] = o]
           /\ o # "cancelled" /\ (o = "waiting" => task[t].pc = "requested")
      /\ bound \subseteq bound'
  BY <1>3 DEF FoldWaiting, Fold, FoldOverBudget, Outcomes, CallTerminal, apprVars, histVars
<1>5. PICK o \in CallTerminal \cup {"waiting"} :
           /\ call' = [call EXCEPT ![c] = o]
           /\ o # "cancelled" /\ (o = "waiting" => task[t].pc = "requested")
  BY <1>4
<1>6. \E x \in Coroutines : /\ task' = [task EXCEPT ![t] = x] /\ x.pc \notin Executes
                            /\ x.pc \in HasRun => x.run \in Runs
                            /\ task[t].appr # None => x.appr = task[t].appr
  <2>1. CASE \E how \in {"returned", "raised"} : task' = Leaving(t, how)
    <3>1. PICK x \in Coroutines :
               /\ task' = [task EXCEPT ![t] = x]
               /\ x.pc \in {"off", "returned", "raised"}
               /\ task[t].appr # None => x.appr = task[t].appr
      BY <2>1, LeavingKeeps DEF IInv
    <3> QED BY <3>1 DEF Executes, HasRun, LoopAwaits
  <2>2. CASE \E q \in CallTerminal : Fold(t, q) /\ q # "uncertain"
    <3> DEFINE x == Coroutine("boundary", task[t].run, None, task[t].appr)
    <3>1. task[t].run \in Runs /\ task[t].appr \in Calls \cup {None}
      BY <1>2 DEF Settled, Placed, IInv, TypeOK
    <3>2. x \in Coroutines /\ x.pc = "boundary" /\ x.run \in Runs /\ x.appr = task[t].appr
      BY <1>2, <3>1, CoroutineType DEF Coroutine
    <3>3. task' = [task EXCEPT ![t] = x]
      BY <2>2 DEF Fold
    <3> QED BY <1>2, <3>2, <3>3
  <2>3. \/ \E how \in {"returned", "raised"} : task' = Leaving(t, how)
        \/ \E q \in CallTerminal : Fold(t, q) /\ q # "uncertain"
    BY DEF FoldWaiting, Fold, FoldOverBudget, PauseRoundWith, StopWith
  <2> QED BY <2>1, <2>2, <2>3
<1> QED BY <1>2, <1>3, <1>4, <1>5, <1>6, EndSettled

LEMMA StartSettled ==
  ASSUME IInv, Settled, NEW t \in Tasks, StartCall(t)
  PROVE  Settled'
<1>1. /\ task[t].pc = "planned" /\ task[t].call \in Calls /\ call[task[t].call] = "planned"
      /\ task[t].run \in Runs
  BY DEF StartCall, IInv, Working, Holding, Holds, Settled, Placed, HasRun
<1>2. PICK c \in Calls : c = task[t].call
  BY <1>1
<1>3. PICK x \in Coroutines : /\ At(t, "tool") = [task EXCEPT ![t] = x]
                              /\ x.pc = "tool" /\ x.run = task[t].run /\ x.call = task[t].call
                              /\ x.appr = task[t].appr
  BY AtMoves DEF IInv, LoopPcs, LoopAwaits
<1>4. /\ task' = [task EXCEPT ![t] = x] /\ call' = [call EXCEPT ![c] = "running"]
      /\ UNCHANGED <<inv, run, owner, bound, appr, down, proc, killed>>
  BY <1>2, <1>3 DEF StartCall, apprVars, histVars
<1>5. task[t].pc \notin Executes
  BY <1>1 DEF Executes
<1> QED BY <1>1, <1>2, <1>3, <1>4, <1>5, BeginSettled

LEMMA LoopSettled ==
  ASSUME IInv, Settled, NEW t \in Tasks, Loop(t)
  PROVE  Settled'
  BY RoundSettled, ExecuteSettled, PlanSettled, FoldSettled, StartSettled DEF Loop

LEMMA DecisionSettled ==
  ASSUME IInv, Settled, NEW t \in Tasks, Decision(t)
  PROVE  Settled'
<1>1. /\ {"handling", "resuming", "returned", "unmatched", "boundary"} \subseteq LoopPcs \ Executes
      /\ {"decided", "raised", "off"} \cap Executes = {}
      /\ {"handling", "returned", "unmatched", "off"} \cap HasRun = {}
      /\ {"tool", "requested", "done"} \subseteq Executes
      /\ {"executing", "consumed", "applied"} \subseteq Executes \cap HasRun
      /\ "resuming" \in HasRun
  BY DEF LoopPcs, LoopAwaits, Executes, DecisionAwaits, Mid, HasRun
<1>2. /\ TypeOK
      /\ task[t].pc \in Executes => task[t].call \in Calls
      /\ task[t].pc \in {"decided", "handling", "returned", "raised", "unmatched"} => task[t].appr \in Calls
      /\ task[t].run \in Runs \cup {None} /\ task[t].appr \in Calls \cup {None}
  BY DEF IInv, Working, Tasking, Holding, Holds, Named, TypeOK, Deciding, DecisionAwaits, Mid
<1>3. PICK a : a = task[t].appr
  OBVIOUS
<1>4. CASE MarkProcessing(t)
  <2>1. /\ task[t].pc = "decided" /\ task' = At(t, "handling") /\ down' = [down EXCEPT ![a] = "processing"]
        /\ UNCHANGED <<callVars, appr, killed, run, proc, inv>>
    BY <1>3, <1>4 DEF MarkProcessing, histVars
  <2>2. PICK x \in Coroutines : /\ At(t, "handling") = [task EXCEPT ![t] = x]
                                /\ x.pc = "handling" /\ x.appr = a
    BY <1>1, <1>2, <1>3, AtMoves
  <2>3. \A c \in Calls : down'[c] = "processing" /\ x.appr # c => down[c] = "processing" /\ task[t].appr # c
    BY <1>2, <1>3, <2>1, <2>2 DEF TypeOK
  <2>4. /\ x.pc \notin HasRun /\ x.pc \notin Executes /\ task[t].pc \notin Executes
        /\ x.pc \notin {"tool", "requested", "done"} /\ x.pc \notin {"executing", "consumed", "applied"}
    BY <1>1, <2>1, <2>2
  <2>5. \A c \in Calls : appr'[c] = "consumed" => appr[c] = "consumed"
    BY <2>1
  <2> QED BY <2>1, <2>2, <2>3, <2>4, <2>5, MoveSettled
<1>5. CASE HandleUnmatched(t)
  <2>1. /\ task[t].pc = "handling" /\ task' = At(t, "unmatched")
        /\ UNCHANGED <<callVars, appr, down, killed, run, proc, inv>>
    BY <1>5 DEF HandleUnmatched, Handling, apprVars, histVars
  <2> QED BY <1>1, <2>1, AtSettled
<1>6. CASE HandleRejected(t)
  <2> DEFINE x == Coroutine("resuming", owner[a], None, a)
  <2>1. task[t].pc = "handling" /\ a \in Calls /\ call[a] = "waiting"
    BY <1>2, <1>3, <1>6 DEF HandleRejected, Handling, Matched
  <2>2. owner[a] \in Runs
    BY <2>1 DEF Settled, Owned
  <2>3. x \in Coroutines /\ x.pc = "resuming" /\ x.run \in Runs /\ x.appr = task[t].appr
    BY <1>1, <1>3, <2>1, <2>2, CoroutineType DEF Coroutine
  <2>4. /\ task' = [task EXCEPT ![t] = x] /\ call' = [call EXCEPT ![a] = "cancelled"]
        /\ UNCHANGED <<owner, bound, appr, down, killed, run, proc, inv>>
    BY <1>3, <1>6 DEF HandleRejected, apprVars, histVars
  <2>5. task[t].pc \notin Executes /\ x.pc \notin Executes /\ "cancelled" \in CallTerminal
    BY <1>1, <2>1, <2>3 DEF CallTerminal
  <2> HIDE DEF x
  <2> QED BY <2>1, <2>3, <2>4, <2>5, EndSettled
<1>7. CASE HandleCancelled(t)
  <2>1. task[t].pc = "handling" /\ a \in Calls /\ call[a] = "waiting"
    BY <1>2, <1>3, <1>7 DEF HandleCancelled, Handling, Matched
  <2>2. PICK x \in Coroutines : /\ At(t, "returned") = [task EXCEPT ![t] = x]
                                /\ x.pc = "returned" /\ x.appr = task[t].appr
    BY <1>1, <1>2, AtMoves
  <2>3. /\ task' = [task EXCEPT ![t] = x] /\ call' = [call EXCEPT ![a] = "cancelled"]
        /\ UNCHANGED <<owner, bound, appr, down, killed, run, proc, inv>>
    BY <1>3, <1>7, <2>2 DEF HandleCancelled, apprVars, histVars
  <2>4. /\ task[t].pc \notin Executes /\ x.pc \notin Executes /\ x.pc \notin HasRun
        /\ "cancelled" \in CallTerminal
    BY <1>1, <2>1, <2>2 DEF CallTerminal
  <2> QED BY <2>1, <2>2, <2>3, <2>4, EndSettled
<1>8. CASE HandleApproved(t)
  <2> DEFINE x == Coroutine("executing", owner[a], a, a)
  <2>1. task[t].pc = "handling" /\ a \in Calls /\ call[a] = "waiting" /\ a \in bound
    BY <1>2, <1>3, <1>8 DEF HandleApproved, Handling, Matched
  <2>2. owner[a] \in Runs
    BY <2>1 DEF Settled, Owned
  <2>3. x \in Coroutines /\ x.pc = "executing" /\ x.run \in Runs /\ x.appr = a /\ x.call = a
    BY <2>1, <2>2, CoroutineType DEF Coroutine, LoopPcs, DecisionAwaits
  <2>4. /\ task' = [task EXCEPT ![t] = x] /\ call' = [call EXCEPT ![a] = "running"]
        /\ UNCHANGED <<owner, bound, appr, down, killed, run, proc, inv>>
    BY <1>3, <1>8 DEF HandleApproved, apprVars, histVars
  <2>5. task[t].pc \notin Executes
    BY <1>1, <2>1
  <2> HIDE DEF x
  <2> QED BY <1>3, <2>1, <2>3, <2>4, <2>5, BeginSettled
<1>9. ASSUME NEW o \in CallTerminal, Land(t, o) \/ (ConsumeRefused(t) /\ o = "failed") PROVE Settled'
  <2>1. task[t].pc \in Executes \cap HasRun
    BY <1>1, <1>9 DEF Land, ConsumeRefused
  <2>2. PICK c \in Calls : c = task[t].call
    BY <1>2, <2>1
  <2>3. task[t].run \in Runs
    BY <2>1 DEF Settled, Placed
  <2>13. PICK place \in {"resuming", "returned"} :
           task' = [task EXCEPT ![t] = Coroutine(place, task[t].run, None, task[t].appr)]
    BY <1>9 DEF Land, ConsumeRefused
  <2>4. PICK x : /\ x = Coroutine(place, task[t].run, None, task[t].appr)
                 /\ task' = [task EXCEPT ![t] = x]
    BY <2>13
  <2>5. x \in Coroutines /\ x.pc = place /\ x.run \in Runs /\ x.appr = task[t].appr
    BY <1>1, <1>2, <2>3, <2>4, CoroutineType DEF Coroutine
  <2>6. /\ call' = [call EXCEPT ![c] = o] /\ o # "cancelled" /\ o # "waiting"
        /\ UNCHANGED <<owner, bound, appr, down, killed, run, proc, inv>>
    BY <1>9, <2>2 DEF Land, ConsumeRefused, Outcomes, CallTerminal, apprVars, histVars
  <2>7. x.pc \notin Executes
    BY <1>1, <2>4, <2>5
  <2> QED BY <2>1, <2>2, <2>4, <2>5, <2>6, <2>7, EndSettled
<1>10. CASE ConsumeRefused(t)
  BY <1>9, <1>10 DEF CallTerminal
<1>11. CASE ResumeAfterDecision(t)
  <2>1. PICK place \in {"boundary", "returned"} :
           /\ task[t].pc = "resuming" /\ task' = At(t, place)
           /\ UNCHANGED <<callVars, appr, down, killed, run, proc, inv>>
    BY <1>11 DEF ResumeAfterDecision, apprVars, histVars
  <2> QED BY <1>1, <2>1, AtSettled
<1>12. CASE MarkDownstream(t)
  <2>1. /\ task[t].pc \in {"returned", "raised", "unmatched"}
        /\ task' = [task EXCEPT ![t] = NoTask]
        /\ UNCHANGED <<callVars, appr, killed, run, proc, inv>>
        /\ \E d \in {"processed", "failed", "not_applicable"} : down' = [down EXCEPT ![a] = d]
    BY <1>3, <1>12 DEF MarkDownstream, histVars
  <2>2. NoTask \in Coroutines /\ NoTask.pc = "off" /\ NoTask.appr = None
    BY NoTaskType DEF NoTask
  <2>3. \A c \in Calls : down'[c] = "processing" /\ NoTask.appr # c => down[c] = "processing" /\ task[t].appr # c
    BY <1>2, <1>3, <2>1 DEF TypeOK
  <2>4. /\ NoTask.pc \notin HasRun /\ NoTask.pc \notin Executes /\ task[t].pc \notin Executes
        /\ NoTask.pc \notin {"tool", "requested", "done"} /\ NoTask.pc \notin {"executing", "consumed", "applied"}
    BY <1>1, <2>1, <2>2
  <2>5. \A c \in Calls : appr'[c] = "consumed" => appr[c] = "consumed"
    BY <2>1
  <2> QED BY <2>1, <2>2, <2>3, <2>4, <2>5, MoveSettled
<1>13. CASE Consume(t) \/ RunApprovedTool(t)
  BY <1>13, ExecuteSettled
<1> QED BY <1>4, <1>5, <1>6, <1>7, <1>8, <1>9, <1>10, <1>11, <1>12, <1>13 DEF Decision

\* A request or startup lets a coroutine begin.
LEMMA ArriveSettled ==
  ASSUME IInv, Settled, NEW t \in Tasks,
         \/ \E r \in Runs : Start(t, r) \/ ResumeRun(t, r)
         \/ \E c \in Calls : RetryDecision(t, c) \/ Reconcile(t, c)
         \/ \E c \in Calls, d \in {"approved", "rejected"} : Decide(t, c, d)
  PROVE  Settled'
<1>1. task[t] = NoTask
  BY DEF Start, ResumeRun, RetryDecision, Reconcile, Decide, AllOff
<1>2. task[t].pc = "off" /\ task[t].appr = None
  BY <1>1 DEF NoTask
<1>3. /\ {"off", "boundary", "handling", "decided"} \cap Executes = {}
      /\ {"boundary", "handling", "decided"} \subseteq LoopPcs
      /\ {"handling", "decided"} \cap HasRun = {}
      /\ {"tool", "requested", "done"} \subseteq Executes
      /\ {"executing", "consumed", "applied"} \subseteq Executes
  BY DEF Executes, LoopPcs, LoopAwaits, DecisionAwaits, Mid, HasRun
<1>4. ASSUME NEW r \in Runs, Start(t, r) \/ ResumeRun(t, r) PROVE Settled'
  <2>1. PICK x : x = Coroutine("boundary", r, None, None)
    OBVIOUS
  <2>2. x \in Coroutines /\ x.pc = "boundary" /\ x.run = r
    BY <1>3, <2>1, CoroutineType DEF Coroutine
  <2>3. /\ task' = [task EXCEPT ![t] = x]
        /\ UNCHANGED <<callVars, appr, down, killed, run, proc>>
    BY <1>4, <2>1 DEF Start, ResumeRun, apprVars, histVars
  <2>4. Gone(inv) => Gone(inv')
    <3>1. inv \in RunStatus \cup {"absent"}
      BY DEF IInv, TypeOK
    <3>2. Gone(inv) => inv # "running" /\ "running" \notin Moves[inv]
      BY <3>1, MoveFacts DEF Gone, RunTerminal
    <3> QED BY <1>4, <3>2 DEF Start, ResumeRun
  <2> QED BY <1>2, <1>3, <2>2, <2>3, <2>4, IdleSettled
<1>5. ASSUME NEW c \in Calls, NEW place \in {"handling", "decided"},
             task' = [task EXCEPT ![t] = Coroutine(place, None, None, c)],
             UNCHANGED <<callVars, killed, run, proc, inv>>,
             down' = down \/ down' = [down EXCEPT ![c] = "processing"],
             \A e \in Calls : appr'[e] = "consumed" => appr[e] = "consumed"
      PROVE  Settled'
  <2>1. PICK x : x = Coroutine(place, None, None, c)
    OBVIOUS
  <2>2. x \in Coroutines /\ x.pc = place /\ x.appr = c /\ task' = [task EXCEPT ![t] = x]
    BY <1>3, <1>5, <2>1, CoroutineType DEF Coroutine
  <2>3. \A e \in Calls : down'[e] = "processing" /\ x.appr # e => down[e] = "processing" /\ task[t].appr # e
    BY <1>2, <1>5, <2>2, AgentRunCalls DEF IInv, TypeOK
  <2>4. /\ x.pc \notin HasRun /\ x.pc \notin Executes /\ task[t].pc \notin Executes
        /\ x.pc \notin {"tool", "requested", "done"} /\ x.pc \notin {"executing", "consumed", "applied"}
    BY <1>2, <1>3, <2>2
  <2> QED BY ZenonT(40), <1>5, <2>2, <2>3, <2>4, MoveSettled
<1>6. ASSUME NEW c \in Calls, RetryDecision(t, c) \/ Reconcile(t, c) PROVE Settled'
  BY <1>5, <1>6 DEF RetryDecision, Reconcile, histVars
<1>7. ASSUME NEW c \in Calls, NEW d \in {"approved", "rejected"}, Decide(t, c, d) PROVE Settled'
  <2>1. \A e \in Calls : appr'[e] = "consumed" => appr[e] = "consumed"
    BY <1>7 DEF Decide, IInv, TypeOK
  <2> QED BY <1>5, <1>7, <2>1 DEF Decide, histVars
<1> QED BY <1>4, <1>6, <1>7

\* The rows of runs and investigation, the clock and the phase of the process.
LEMMA CommitSettled ==
  ASSUME IInv, Rows, Settled, Section
  PROVE  Settled'
<1>1. UNCHANGED <<task, callVars, appr, down, killed, proc>>
  BY DEF Section, CommitRun, CommitInv, apprVars, histVars
<1>2. \A c \in Calls : call[c] # "absent" => owner[c] \in Runs /\ run[owner[c]] # "absent"
  BY DEF Settled, Owned
<1>3. UNCHANGED owner /\ "absent" \notin RunStatus \cup {"none"}
  BY <1>1 DEF callVars, RunStatus, RunTerminal, Paused
<1>4. CASE CommitRun
  <2>1. PICK w, s : w = owed.who /\ s = owed.run
    OBVIOUS
  <2>2. run' = [run EXCEPT ![w] = s] /\ s # "none" /\ inv' = inv
    BY <1>4, <2>1 DEF CommitRun
  <2>3. s \in RunStatus /\ s # "absent"
    BY <1>3, <2>1, <2>2 DEF IInv, TypeOK
  <2>4. w \in Live \/ run[w] = "absent"
    BY <2>1, <2>2 DEF Rows, OwedKnown
  <2>5. \A r \in Runs : run'[r] = IF r = w THEN s ELSE run[r]
    BY <2>2 DEF IInv, TypeOK
  <2>6. ASSUME NEW c \in Calls, call[c] # "absent"
        PROVE  OverStays(c) /\ run'[owner[c]] # "absent"
    <3>1. run'[owner[c]] # "absent"
      BY <1>2, <2>3, <2>5, <2>6
    <3>2. owner[c] \notin Live => owner[c] # w
      BY <1>2, <2>4, <2>6
    <3>3. owner[c] \notin Live => owner[c] \notin Live'
      BY <1>2, <2>5, <2>6, <3>2 DEF Live
    <3> QED BY <1>3, <2>2, <3>1, <3>3 DEF OverStays
  <2> QED BY <1>1, <2>6, RowsSettled
<1>5. CASE CommitInv
  <2>1. ~Gone(inv) /\ run' = run
    BY <1>5 DEF CommitInv, Rows, OwedKnown
  <2>2. \A c \in Calls : OverStays(c)
    BY <1>3, <2>1 DEF OverStays, Live
  <2> QED BY <1>1, <1>2, <2>1, <2>2, RowsSettled
<1> QED BY <1>4, <1>5 DEF Section

LEMMA RequestSettled ==
  ASSUME IInv, Rows, Settled,
         \/ Create \/ Cancel \/ CancelAll \/ BeginStop \/ Exit
         \/ \E c \in Calls : Lapse(c)
  PROVE  Settled'
<1>1. /\ UNCHANGED <<task, callVars, appr, down, killed, run>>
      /\ proc' \in {"settling", "up"} => proc' = proc
  BY DEF Create, Cancel, CancelAll, BeginStop, Exit, Lapse, apprVars, histVars
<1>2. \A c \in Calls : call[c] # "absent" => owner[c] \in Runs /\ run'[owner[c]] # "absent"
  BY <1>1 DEF Settled, Owned
<1>3. \A c \in Calls : call[c] # "absent" => inv # "absent"
  BY <1>1, <1>2 DEF Rows, StartsFirst
<1>4. inv' = inv \/ ~Gone(inv) \/ inv = "absent"
  BY DEF Create, Cancel, CancelAll, BeginStop, Exit, Lapse
<1>5. \A c \in Calls : call[c] # "absent" => OverStays(c)
  BY <1>1, <1>3, <1>4 DEF OverStays, Live, callVars
<1> QED BY <1>1, <1>2, <1>5, RowsSettled

\* Startup and shutdown rewrite the calls of the run that has not ended.
LEMMA RewriteSettled ==
  ASSUME IInv, Rows, Settled, UNCHANGED <<task, owner, bound, appr, down, inv, run, killed>>,
         NEW S \in SUBSET Calls,
         \A c \in Calls : call'[c] = IF c \notin S THEN call[c]
                                     ELSE IF call[c] = "running" THEN Repaired(c)
                                     ELSE IF call[c] \in {"waiting", "planned"} THEN call'[c]
                                     ELSE call[c],
         \A c \in S : call[c] \in {"waiting", "planned"} => call'[c] # "absent" /\ call'[c] # "running",
         \/ proc' \notin {"settling", "up"}
         \/ proc' = "settling" /\ \A c \in Calls \ S : Gone(inv) \/ owner[c] \notin Live
  PROVE  Settled'
<1>1. \A c : Repaired(c) \in {"failed", "uncertain"} /\ (c \in Dangerous => Repaired(c) = "uncertain")
  BY DEF Repaired
<1>2. Placed'
  BY DEF Settled, Placed
<1>3. Owned'
  BY <1>1 DEF Settled, Owned
<1>4. SpentFor'
  BY <1>1 DEF Settled, SpentFor
<1>5. SpentIsSettled'
  BY DEF SpentIsSettled
<1>6. \A c \in Calls : Ghost(c)' => Ghost(c) /\ c \notin S
  BY <1>1 DEF Ghost, Executing
<1>7. \A c \in Calls : Ghost(c) => Ghost(c)' \/ (c \in Dangerous => call'[c] = "uncertain")
  BY <1>1 DEF Ghost, Executing
<1>8. KilledKnown'
  BY <1>7, KilledStays
<1>9. NoGhosts'
  BY <1>6 DEF NoGhosts, Live
<1> QED BY <1>2, <1>3, <1>4, <1>5, <1>8, <1>9 DEF Settled

LEMMA StartupSettled ==
  ASSUME IInv, Rows, Settled, Boot \/ Classify \/ SweepShutdown
  PROVE  Settled'
<1>1. UNCHANGED <<task, owner, bound, appr, down, inv, run, killed>>
  BY DEF Boot, Classify, SweepShutdown, apprVars, histVars
<1>2. PICK l : l = LiveRun
  OBVIOUS
<1>3. /\ l = None => Live = {}
      /\ l # None => l \in Live /\ \A r \in Live : r = l
  BY <1>2, LiveRunIs DEF Rows
<1>4. ASSUME call' = call,
             \/ proc' \notin {"settling", "up"}
             \/ proc' = "settling" /\ (Gone(inv) \/ Live = {})
      PROVE  Settled'
  <2>1. {} \in SUBSET Calls
    OBVIOUS
  <2>2. \A c \in Calls : Gone(inv) \/ owner[c] \notin Live \/ proc' # "settling"
    BY <1>4
  <2> QED BY <1>1, <1>4, <2>1, <2>2, RewriteSettled
<1>5. PICK S : S = {c \in Calls : owner[c] = l}
  OBVIOUS
<1>6. ASSUME call' = Swept(l), proc' \notin {"settling", "up"}
      PROVE  Settled'
  <2>1. \A c \in Calls : call'[c] = IF c \notin S THEN call[c]
                                     ELSE IF call[c] = "running" THEN Repaired(c)
                                     ELSE IF call[c] \in {"waiting", "planned"} THEN call'[c]
                                     ELSE call[c]
    BY <1>5, <1>6 DEF Swept
  <2>2. \A c \in S : call[c] \in {"waiting", "planned"} => call'[c] # "absent" /\ call'[c] # "running"
    BY <1>5, <1>6 DEF Swept
  <2> QED BY <1>1, <1>5, <1>6, <2>1, <2>2, RewriteSettled
<1>7. ASSUME call' = Classified(l), proc' = "settling", l # None
      PROVE  Settled'
  <2>1. \A c \in Calls : call'[c] = IF c \notin S THEN call[c]
                                     ELSE IF call[c] = "running" THEN Repaired(c)
                                     ELSE IF call[c] \in {"waiting", "planned"} THEN call'[c]
                                     ELSE call[c]
    BY <1>5, <1>7 DEF Classified
  <2>2. \A c \in S : call[c] \in {"waiting", "planned"} => call'[c] # "absent" /\ call'[c] # "running"
    BY <1>5, <1>7 DEF Classified
  <2>3. \A c \in Calls \ S : Gone(inv) \/ owner[c] \notin Live
    BY <1>3, <1>5, <1>7
  <2> QED BY <1>1, <1>5, <1>7, <2>1, <2>2, <2>3, RewriteSettled
<1>8. CASE Boot
  <2>1. (call' = Swept(l) \/ call' = call) /\ proc' \notin {"settling", "up"}
    BY <1>2, <1>8 DEF Boot
  <2>2. CASE call' = call
    BY <1>4, <2>1, <2>2
  <2>3. CASE call' = Swept(l)
    BY <1>6, <2>1, <2>3
  <2> QED BY <2>1, <2>2, <2>3
<1>9. CASE SweepShutdown
  <2>1. (call' = Swept(l) \/ call' = call) /\ proc' \notin {"settling", "up"}
    BY <1>2, <1>9 DEF SweepShutdown
  <2>2. CASE call' = call
    BY <1>4, <2>1, <2>2
  <2>3. CASE call' = Swept(l)
    BY <1>6, <2>1, <2>3
  <2> QED BY <2>1, <2>2, <2>3
<1>10. CASE Classify
  <2>1. IF ~Gone(inv) /\ l # None THEN call' = Classified(l) ELSE call' = call
    BY <1>2, <1>10 DEF Classify
  <2> QED BY <1>3, <1>4, <1>7, <1>10, <2>1 DEF Classify
<1> QED BY <1>8, <1>9, <1>10

\* The end of startup settles every spent approval whose call has ended.
LEMMA ApprovalsSettled ==
  ASSUME IInv, Settled, NEW badTail \in BOOLEAN, SettleApprovals(badTail)
  PROVE  Settled'
<1>1. /\ proc = "settling" /\ proc' = "up" /\ UNCHANGED <<task, call, owner, bound, appr, inv, run, killed>>
      /\ down' = [c \in Calls |-> IF ~Unsettled(c) THEN down[c]
                                  ELSE IF call[c] = "succeeded" THEN "processed" ELSE "failed"]
  BY DEF SettleApprovals, callVars, histVars
<1>2. Placed' /\ Owned' /\ SpentFor'
  BY <1>1 DEF Settled, Placed, Owned, SpentFor
<1>3. SpentIsSettled'
  <2>1. ASSUME NEW c \in Calls, appr[c] = "consumed", call[c] # "running", down'[c] = "processing"
        PROVE  FALSE
    <3>1. c \in bound /\ call[c] \in CallTerminal \ {"cancelled"}
      BY <2>1 DEF Settled, SpentFor, CallTerminal
    <3>2. ~Unsettled(c) /\ down[c] = "processing"
      BY <1>1, <2>1
    <3> QED BY <2>1, <3>1, <3>2 DEF Unsettled
  <2> QED BY <1>1, <2>1 DEF SpentIsSettled
<1>4. \A c : Ghost(c)' <=> Ghost(c)
  BY <1>1 DEF Ghost, Executing
<1>5. KilledKnown'
  BY <1>1, <1>4, KilledStays
<1>6. NoGhosts'
  BY <1>1, <1>4 DEF Settled, NoGhosts, Live
<1> QED BY <1>2, <1>3, <1>5, <1>6 DEF Settled

\* A coroutine is killed with what it executes: by the shutdown, or all of them by
\* a crash.
LEMMA DeathSettled ==
  ASSUME IInv, Settled, Crash \/ \E t \in Tasks : KillTask(t)
  PROVE  Settled'
<1>1. /\ UNCHANGED <<call, owner, bound, appr, down, inv, run>> /\ proc' \notin {"settling", "up"}
  BY DEF Crash, KillTask, callVars, apprVars
<1>2. PICK D \in SUBSET Tasks :
        /\ \A u \in Tasks : task'[u] = IF u \in D THEN NoTask ELSE task[u]
        /\ \A c \in killed' : c \in killed \/ \E u \in D : task[u].pc \in Executes /\ task[u].call = c
  <2>1. CASE Crash
    BY <2>1 DEF Crash
  <2>2. ASSUME NEW t \in Tasks, KillTask(t)
        PROVE  \E D \in SUBSET Tasks :
                 /\ \A u \in Tasks : task'[u] = IF u \in D THEN NoTask ELSE task[u]
                 /\ \A c \in killed' : c \in killed \/ \E u \in D : task[u].pc \in Executes /\ task[u].call = c
    <3>1. \A u \in Tasks : task'[u] = IF u \in {t} THEN NoTask ELSE task[u]
      BY <2>2 DEF KillTask, IInv, TypeOK
    <3>2. killed' = killed \cup (IF task[t].pc \in Executes THEN {task[t].call} ELSE {})
      BY <2>2 DEF KillTask
    <3>3. \A c \in killed' : c \in killed \/ (task[t].pc \in Executes /\ task[t].call = c)
      BY <3>2
    <3>4. \A c \in killed' : c \in killed \/ \E u \in {t} : task[u].pc \in Executes /\ task[u].call = c
      BY <3>3
    <3> WITNESS {t} \in SUBSET Tasks
    <3> QED BY <3>1, <3>4
  <2> QED BY <2>1, <2>2
<1>3. NoTask.pc = "off" /\ "off" \notin Executes \cup HasRun
      /\ "off" \notin {"tool", "requested", "done"} /\ "off" \notin {"executing", "consumed", "applied"}
  BY DEF NoTask, Executes, HasRun, LoopAwaits
<1>4. Placed' /\ Owned'
  BY <1>1, <1>2, <1>3 DEF Settled, Placed, Owned
<1>5. SpentFor'
  BY <1>1, <1>2, <1>3 DEF Settled, SpentFor
<1>6. SpentIsSettled' /\ NoGhosts'
  BY <1>1 DEF SpentIsSettled, NoGhosts
<1>7. \A c \in Calls : Ghost(c) => Ghost(c)'
  BY <1>1, <1>2, <1>3 DEF Ghost, Executing
<1>8. KilledKnown'
  <2>1. ASSUME NEW c \in Dangerous, c \in killed'
        PROVE  call'[c] = "uncertain" \/ Ghost(c)'
    <3>1. c \in Calls
      BY AgentRunCalls
    <3>2. CASE c \in killed
      BY <1>1, <1>7, <3>1, <3>2 DEF Settled, KilledKnown
    <3>3. ASSUME NEW u \in D, task[u].pc \in Executes, task[u].call = c
          PROVE  Ghost(c)'
      <4>1. call[c] = "running"
        BY <3>3 DEF IInv, Working, Holding
      <4>2. \A v \in Tasks : task[v].pc \in Executes /\ task[v].call = c => v = u
        BY <3>3 DEF IInv, Working, OneHolder, Holds
      <4> QED BY <1>1, <1>2, <1>3, <3>3, <4>1, <4>2 DEF Ghost, Executing
    <3> QED BY <1>2, <2>1, <3>2, <3>3
  <2> QED BY <2>1 DEF KilledKnown
<1> QED BY <1>4, <1>5, <1>6, <1>8 DEF Settled

LEMMA NextSettled ==
  ASSUME IInv, Rows, Settled, [Next]_vars
  PROVE  Settled'
<1>1. CASE Operator
  BY <1>1, RequestSettled, ArriveSettled DEF Operator
<1>2. CASE Process
  BY <1>2, DeathSettled, StartupSettled, RequestSettled, ArriveSettled, ApprovalsSettled DEF Process
<1>3. CASE UNCHANGED vars
  BY <1>3, StayWhole DEF vars, apprVars, histVars
<1> QED BY <1>1, <1>2, <1>3, CommitSettled, LoopSettled, DecisionSettled DEF Next

LEMMA InitLeft == Init => LeftInv
<1> SUFFICES ASSUME Init PROVE LeftInv
  OBVIOUS
<1>1. Live = {} /\ owed.run = "none" /\ owed.inv = "none" /\ "none" \notin RunTerminal
  BY DEF Init, Live, Gone, NothingOwed, RunTerminal
<1>2. Rows /\ SweepsStarted
  BY <1>1 DEF Init, Rows, OneLive, OwedKnown, StartsFirst, CancelParks, EndIsOwedLast, EndsAfterItsRuns,
     SweepsStarted
<1>3. \A t \in Tasks : task[t].pc = "off"
  BY DEF Init, NoTask
<1>4. "off" \notin HasRun /\ "off" \notin {"tool", "requested", "done"}
      /\ "off" \notin {"executing", "consumed", "applied"}
  BY DEF HasRun, LoopAwaits
<1>5. Settled
  BY <1>3, <1>4, AgentRunCalls DEF Init, Settled, Placed, Owned, SpentFor, SpentIsSettled, NoGhosts, KilledKnown
<1> QED BY <1>2, <1>5 DEF LeftInv

LEMMA NextLeft == IInv /\ LeftInv /\ [Next]_vars => LeftInv'
  BY NextRows, NextSettled DEF LeftInv, Settled

\* What startup and shutdown promise (recovery.py): once the API is served, no
\* RUNNING call of a live run is executed by nobody, a spent approval has its
\* outcome or a coroutine that is about to record it, a dangerous call that was
\* interrupted is UNCERTAIN and never taken for done; and an investigation ends
\* after its runs.  For every number of calls, runs, coroutines and crashes.
THEOREM NothingIsLeft == Spec => []NothingLeftBehind
<1>1. LeftInv => NothingLeftBehind
  <2> SUFFICES ASSUME LeftInv PROVE NothingLeftBehind
    OBVIOUS
  <2>1. NoGhostCalls
    BY DEF LeftInv, Settled, NoGhosts, NoGhostCalls, Ghost
  <2>2. InterruptedIsUncertain
    BY AgentRunCalls DEF LeftInv, Settled, KilledKnown, NoGhosts, InterruptedIsUncertain, Ghost
  <2> QED BY <2>1, <2>2 DEF LeftInv, Settled, Rows, NothingLeftBehind
<1>2. Spec => []LeftInv
  BY InitLeft, NextLeft, IInvHolds, PTL DEF Spec
<1> QED BY <1>1, <1>2, PTL

-----------------------------------------------------------------------------
(* Transcript: where the loop is. *)

\* The last message asks for tools, and nothing has answered yet.
Asking == pc \in {"act", "compacted"} \/ (pc = "ask" /\ job.mode = "manual")

\* A request is on its way to the provider.
Sending ==
  \/ pc \in {"build", "cover", "call", "prepared", "retry"}
  \/ pc = "ask" /\ job.mode \in {"auto", "reactive"}

IsUse(l, i) == l[i].uses # {}
Troubled(l, i) == l[i].bad # {} \/ l[i].child

\* Only answers carry results, and only they and reports are protected.
Bare(m) == m.uses # {} => m.res = {} /\ m.bad = {} /\ ~m.child

UsesAreBare == \A i \in 1..Len(log) : Bare(log[i])

Whole == Sending => ~Torn(log)

AskedLast ==
  Asking => /\ log # <<>> /\ IsUse(log, Len(log))
            /\ \A i \in 1..(Len(log) - 1) : ~Unpaired(log, i)

Intact == Through({"cut", "unsaved", "siblings"}) \/ Asking \/ ~Torn(log)

\* compact_context without siblings is the only tool of its turn.
CompactAlone ==
  (Asking /\ pc # "act" /\ ~Through({"siblings"})) =>
    \A c \in log[Len(log)].uses : c[2] = 0

HasRoom ==
  /\ Len(log) <= MaxLog /\ rounds <= MaxRounds
  /\ Sending \/ pc = "prepare" => Len(log) + 2 <= MaxLog /\ rounds < MaxRounds
  /\ Asking => Len(log) + 1 <= MaxLog

Requested ==
  IF pc = "call"
  THEN req.len = Len(log) /\ req.seqs = After(log, boundary) /\ req.mem = mem
  ELSE req = NoRequest

Modes == {"none", "auto", "manual", "reactive", "cover", "done", "failed"}
Jobs == [mode: Modes, seqs: SUBSET Seqs, through: 0..(MaxLog + Overclaim)]

\* What a compactor is asked to summarise starts at the boundary and has no gap.
AskedWell ==
  pc = "ask" =>
    /\ job.mode \in {"auto", "manual", "reactive"}
    /\ job.seqs \subseteq 1..Len(log)
    /\ job.through = Last(job.seqs \cup {boundary})
    /\ job.seqs # {} => boundary <= Len(log)
    /\ job.seqs = {} => boundary = 0 \/ NothingNew
    /\ \A i \in 1..Len(log) : boundary < i /\ i <= job.through => i \in job.seqs

Covering ==
  pc = "cover" =>
    /\ job.through = mem.through /\ boundary < job.through /\ job.through <= Len(log)
    /\ \A i \in 1..Len(log) : boundary < i /\ i <= job.through => ~Troubled(log, i)

Crashed == left.crashes < MaxProcessCrashes

Backed ==
  /\ mem.through > 0 => mem.rev > 0
  /\ boundary <= mem.through
  /\ mem.through > boundary => pc = "cover" \/ Crashed
  /\ ~Through({"overclaim"}) => mem.shown = mem.through /\ mem.through <= Len(log)

\* A tool use without an answer that no loop will answer any more: every later
\* build parks the run.
Spoiled == Torn(log) /\ ~Asking

TroubleKept ==
  \/ Through({"overclaim", "forgotten"}) \/ Spoiled
  \/ \A c \in trouble : c \in mem.safe
        \/ \E i \in 1..Len(log) : i > boundary /\ c \in log[i].bad

Survives ==
  Through({"overclaim"})
  \/ \A i \in 1..Len(log) : i <= boundary /\ Troubled(log, i) => i <= seen

Breaking ==
  /\ failRow = brk.fails
  /\ pc = "ask" /\ job.mode # "manual" => brk.fails < MaxFailures

Reacting ==
  /\ reacted \in [0..MaxRounds -> 0..1]
  /\ \A r \in 0..MaxRounds : r > rounds => reacted[r] = 0
  /\ reacted[rounds] = 1 => brk.round = rounds
  /\ pc = "ask" /\ job.mode = "reactive" => brk.round # rounds

Stopping ==
  /\ pc = "down" => Crashed
  /\ pc = "idle" /\ status = "running" => Through({"escaped"}) \/ Crashed
  /\ status = "waiting" => log # <<>>

Histories ==
  /\ job \in Jobs /\ seen \in Seqs \cup {0} /\ failRow \in Nat
  /\ left \in [reports: 0..MaxReports, resumes: 0..MaxResumes, crashes: 0..MaxProcessCrashes]

TranscriptInv ==
  /\ TranscriptTypeOK /\ Histories /\ UsesAreBare /\ Whole /\ AskedLast /\ Intact /\ CompactAlone /\ HasRoom
  /\ Requested /\ AskedWell /\ Covering /\ Backed /\ TroubleKept /\ Survives
  /\ Breaking /\ Reacting /\ Stopping

-----------------------------------------------------------------------------
(* Groups, tails and appended messages. *)

\* A set of numbers up to n that is not empty has a largest one: Last.
LEMMA LastIsHighest ==
  ASSUME NEW n \in Nat, NEW S \in SUBSET (0..n), S # {}
  PROVE  Last(S) \in S /\ Last(S) \in 0..n /\ \A y \in S : y <= Last(S)
<1>1. PICK R : R = {ss \in Nat \X Nat : ss[1] < ss[2]}
  OBVIOUS
<1>2. IsWellFoundedOn(R, Nat)
  BY <1>1, NatLessThanWellFounded DEF OpToRel
<1> DEFINE D == {m \in Nat : \E y \in S : m = n - y}
<1>3. D # {} /\ D \subseteq Nat
  <2>1. PICK y \in S : TRUE
    OBVIOUS
  <2>2. n - y \in D
    BY <2>1
  <2> QED BY <2>2
<1>4. PICK m \in D : \A d \in D : ~(<<d, m>> \in R)
  BY <1>2, <1>3, WFMin
<1>5. PICK x \in S : m = n - x
  BY <1>4
<1>6. ASSUME NEW y \in S PROVE y <= x
  <2>1. n - y \in D
    OBVIOUS
  <2>2. ~(<<n - y, m>> \in R)
    BY <1>4, <2>1
  <2>3. ~(n - y < m)
    BY <1>1, <1>4, <2>1, <2>2
  <2> QED BY <1>5, <2>3
<1>7. \E z \in S : \A y \in S : y <= z
  BY <1>6
<1> QED BY <1>7 DEF Last

\* The end of a group: the result of a tool use, or the message itself.
LEMMA EndOfGroup ==
  ASSUME NEW l, NEW i \in Nat \ {0}
  PROVE  /\ Last(GroupOf(l, i)) = IF IsUse(l, i) THEN i + 1 ELSE i
         /\ i \in GroupOf(l, i)
<1>1. CASE IsUse(l, i)
  <2>1. GroupOf(l, i) = {i, i + 1}
    BY <1>1 DEF GroupOf, IsUse
  <2>2. Last(GroupOf(l, i)) \in {i, i + 1} /\ i + 1 <= Last(GroupOf(l, i))
    BY <2>1, LastIsHighest, i + 1 \in Nat
  <2> QED BY <1>1, <2>1, <2>2
<1>2. CASE ~IsUse(l, i) /\ i > 1 /\ IsUse(l, i - 1)
  <2>1. GroupOf(l, i) = {i - 1, i}
    BY <1>2 DEF GroupOf, IsUse
  <2>2. Last(GroupOf(l, i)) \in {i - 1, i} /\ i <= Last(GroupOf(l, i))
    BY <2>1, LastIsHighest
  <2> QED BY <1>2, <2>1, <2>2
<1>3. CASE ~IsUse(l, i) /\ ~(i > 1 /\ IsUse(l, i - 1))
  <2>1. GroupOf(l, i) = {i}
    BY <1>3 DEF GroupOf, IsUse
  <2>2. Last(GroupOf(l, i)) \in {i}
    BY <2>1, LastIsHighest
  <2> QED BY <1>3, <2>1, <2>2
<1> QED BY <1>1, <1>2, <1>3

\* The tail behind a boundary: what is past it, and a tool use that it cuts
\* from its results.
LEMMA TailBehind ==
  ASSUME NEW l \in Seq(Message), NEW b \in Nat
  PROVE  After(l, b) = {i \in 1..Len(l) : i > b \/ (i = b /\ IsUse(l, i))}
<1>1. Len(l) \in Nat
  BY LenProperties
<1>2. ASSUME NEW i \in 1..Len(l)
      PROVE  Last(GroupOf(l, i)) > b <=> i > b \/ (i = b /\ IsUse(l, i))
  <2>1. i \in Nat \ {0}
    BY <1>1
  <2>2. Last(GroupOf(l, i)) = IF IsUse(l, i) THEN i + 1 ELSE i
    BY <2>1, EndOfGroup
  <2>3. CASE IsUse(l, i)
    BY <2>1, <2>2, <2>3
  <2>4. CASE ~IsUse(l, i)
    BY <2>1, <2>2, <2>4
  <2> QED BY <2>3, <2>4
<1> QED BY <1>2 DEF After

\* A message is added.
Added(l, m) ==
  /\ Append(l, m) \in Seq(Message)
  /\ Len(Append(l, m)) = Len(l) + 1
  /\ \A i \in 1..Len(l) : Append(l, m)[i] = l[i]
  /\ Append(l, m)[Len(l) + 1] = m

LEMMA AppendAdds ==
  ASSUME NEW l \in Seq(Message), NEW m \in Message
  PROVE  Added(l, m) /\ Len(l) \in Nat
  BY AppendProperties, LenProperties DEF Added

\* Whether a tool use inside the transcript is answered does not change.
LEMMA PairsStay ==
  ASSUME NEW l \in Seq(Message), NEW m \in Message,
         NEW i \in 1..Len(l), i # Len(l)
  PROVE  Unpaired(Append(l, m), i) <=> Unpaired(l, i)
<1>1. Added(l, m) /\ Len(l) \in Nat
  BY AppendAdds
<1>2. i \in 1..Len(l) /\ i + 1 \in 1..Len(l) /\ i # Len(l) + 1
  BY <1>1
<1>3. Append(l, m)[i] = l[i] /\ Append(l, m)[i + 1] = l[i + 1]
  BY <1>1, <1>2 DEF Added
<1> QED BY <1>1, <1>2, <1>3 DEF Unpaired, Added

LEMMA LastPair ==
  ASSUME NEW l \in Seq(Message), NEW m \in Message, l # <<>>
  PROVE  /\ Unpaired(Append(l, m), Len(l)) <=> IsUse(l, Len(l)) /\ m.res # l[Len(l)].uses
         /\ Unpaired(l, Len(l)) <=> IsUse(l, Len(l))
<1>1. Added(l, m) /\ Len(l) \in Nat
  BY AppendAdds
<1>2. Len(l) \in 1..Len(l) /\ Len(l) # Len(l) + 1
  BY <1>1, EmptySeq
<1>3. Append(l, m)[Len(l)] = l[Len(l)] /\ Append(l, m)[Len(l) + 1] = m
  BY <1>1, <1>2 DEF Added
<1> QED BY <1>1, <1>2, <1>3 DEF Unpaired, Added, IsUse

LEMMA NewestUnpaired ==
  ASSUME NEW l \in Seq(Message), NEW m \in Message
  PROVE  Unpaired(Append(l, m), Len(l) + 1) <=> m.uses # {}
  BY AppendAdds DEF Unpaired, Added

\* An answer, a report or a text does not tear what is whole; a tool use leaves
\* everything before it answered.
LEMMA StaysWhole ==
  ASSUME NEW l \in Seq(Message), NEW m \in Message, ~Torn(l)
  PROVE  /\ \A i \in 1..Len(l) : ~Unpaired(Append(l, m), i)
         /\ m.uses = {} => ~Torn(Append(l, m))
<1>1. Added(l, m) /\ Len(l) \in Nat
  BY AppendAdds
<1>2. ASSUME NEW i \in 1..Len(l) PROVE ~Unpaired(Append(l, m), i)
  <2>1. ~Unpaired(l, i)
    BY DEF Torn
  <2>2. CASE i = Len(l)
    <3>1. l # <<>>
      BY <1>1, <2>2, EmptySeq
    <3> QED BY <2>1, <2>2, <3>1, LastPair
  <2>3. CASE i # Len(l)
    BY <2>1, <2>3, PairsStay
  <2> QED BY <2>2, <2>3
<1>3. ASSUME m.uses = {} PROVE ~Torn(Append(l, m))
  <2>1. ASSUME NEW i \in 1..Len(Append(l, m)) PROVE ~Unpaired(Append(l, m), i)
    <3>1. i \in 1..Len(l) \/ i = Len(l) + 1
      BY <1>1 DEF Added
    <3> QED BY <1>2, <1>3, <3>1, NewestUnpaired
  <2> QED BY <2>1 DEF Torn
<1> QED BY <1>2, <1>3

\* What is torn stays torn, unless its last tool use is answered.
LEMMA StaysTorn ==
  ASSUME NEW l \in Seq(Message), NEW m \in Message, Torn(l),
         m.res = {} \/ ~IsUse(l, Len(l))
  PROVE  Torn(Append(l, m))
<1>1. Added(l, m) /\ Len(l) \in Nat
  BY AppendAdds
<1>2. PICK i \in 1..Len(l) : Unpaired(l, i)
  BY DEF Torn
<1>3. Unpaired(Append(l, m), i)
  <2>1. CASE i = Len(l)
    <3>1. l # <<>>
      BY <1>1, <2>1, EmptySeq
    <3> QED BY <1>2, <2>1, <3>1, LastPair DEF IsUse
  <2>2. CASE i # Len(l)
    BY <1>2, <2>2, PairsStay
  <2> QED BY <2>1, <2>2
<1>4. i \in 1..Len(Append(l, m))
  BY <1>1 DEF Added
<1> QED BY <1>3, <1>4 DEF Torn

\* The answer to the one open tool use makes the transcript whole.
LEMMA AnswerMends ==
  ASSUME NEW l \in Seq(Message), NEW m \in Message, l # <<>>, IsUse(l, Len(l)),
         \A i \in 1..(Len(l) - 1) : ~Unpaired(l, i),
         m.uses = {}, m.res = l[Len(l)].uses
  PROVE  ~Torn(Append(l, m))
<1>1. Added(l, m) /\ Len(l) \in Nat
  BY AppendAdds
<1>2. ASSUME NEW i \in 1..Len(Append(l, m)) PROVE ~Unpaired(Append(l, m), i)
  <2>1. CASE i = Len(l) + 1
    BY <2>1, NewestUnpaired
  <2>2. CASE i = Len(l)
    BY <2>2, LastPair
  <2>3. CASE i # Len(l) /\ i # Len(l) + 1
    <3>1. i \in 1..Len(l) /\ i \in 1..(Len(l) - 1)
      BY <1>1, <2>3 DEF Added
    <3> QED BY <2>3, <3>1, PairsStay
  <2> QED BY <2>1, <2>2, <2>3
<1> QED BY <1>2 DEF Torn

\* A transcript that ends with a tool use is torn.
LEMMA OpenIsTorn ==
  ASSUME NEW l \in Seq(Message), l # <<>>, IsUse(l, Len(l))
  PROVE  Torn(l)
<1>1. Len(l) \in 1..Len(l)
  BY EmptySeq
<1> QED BY <1>1 DEF Torn, Unpaired, IsUse

LEMMA WholeIsTolerated ==
  ASSUME NEW l \in Seq(Message), ~Torn(l)
  PROVE  Tolerated(l) = l
  BY OpenIsTorn DEF Tolerated, IsUse

\* A tool use that was just appended is forgotten.
LEMMA UseIsForgotten ==
  ASSUME NEW l \in Seq(Message), NEW m \in Message, m.uses # {}
  PROVE  Tolerated(Append(l, m)) = l
<1> DEFINE a == Append(l, m)
<1>1. Added(l, m) /\ Len(l) \in Nat
  BY AppendAdds
<1>2. a # <<>> /\ a[Len(a)].uses # {} /\ a \in Seq(Message) /\ Len(a) - 1 = Len(l)
  BY <1>1, AppendProperties DEF Added
<1>3. Tolerated(a) = SubSeq(a, 1, Len(l))
  BY <1>2 DEF Tolerated
<1>4. \A i \in 1..Len(l) : a[i] \in Message /\ a[i] = l[i]
  BY <1>1, ElementOfSeq DEF Added
<1>5. /\ SubSeq(a, 1, Len(l)) \in Seq(Message) /\ Len(SubSeq(a, 1, Len(l))) = Len(l)
      /\ \A i \in 1..Len(l) : SubSeq(a, 1, Len(l))[i] = l[i]
  BY <1>1, <1>4, SubSeqProperties
<1> QED BY <1>3, <1>5, SeqEqual

\* A set of numbers that is not empty has a smallest one.
LEMMA SmallestOf ==
  ASSUME NEW S \in SUBSET Nat, S # {}
  PROVE  \E x \in S : \A y \in S : x <= y
<1>1. PICK R : R = {ss \in Nat \X Nat : ss[1] < ss[2]}
  OBVIOUS
<1>2. IsWellFoundedOn(R, Nat)
  BY <1>1, NatLessThanWellFounded DEF OpToRel
<1>3. PICK x \in S : \A y \in S : ~(<<y, x>> \in R)
  BY <1>2, WFMin
<1>4. ASSUME NEW y \in S PROVE x <= y
  <2>1. ~(<<y, x>> \in R) /\ x \in Nat /\ y \in Nat
    BY <1>3
  <2>2. ~(y < x)
    BY <1>1, <2>1
  <2> QED BY <2>1, <2>2
<1> QED BY <1>4

\* The end of a group of a whole transcript is in the transcript.
LEMMA EndsInside ==
  ASSUME NEW l \in Seq(Message), ~Torn(l), NEW i \in 1..Len(l)
  PROVE  Last(GroupOf(l, i)) \in 1..Len(l)
<1>1. Len(l) \in Nat /\ i \in Nat \ {0}
  BY LenProperties
<1>2. IsUse(l, i) => i # Len(l)
  BY DEF Torn, Unpaired, IsUse
<1> QED BY <1>1, <1>2, EndOfGroup

\* The deterministic compaction ends below every protected group of the tail.
LEMMA CoversNoTrouble ==
  ASSUME NEW l \in Seq(Message), ~Torn(l), NEW seqs \in SUBSET (1..Len(l))
  PROVE  /\ Coverage(l, seqs) \in 0..Len(l)
         /\ \A i \in seqs : Troubled(l, i) => Coverage(l, seqs) < i
<1> DEFINE ends == {Last(GroupOf(l, i)) : i \in seqs}
           caps == {i \in seqs : Protected(l, i)}
           fits == {c \in ends : /\ \A i \in caps : c < i
                                 /\ HeaderTokens + MemoryTokens
                                      + Tokens({i \in seqs : i > c}, {}) <= MaxInput}
<1>1. Coverage(l, seqs) = IF fits = {} THEN 0 ELSE CHOOSE c \in fits : \A d \in fits : c <= d
  BY DEF Coverage
<1>2. Len(l) \in Nat
  BY LenProperties
<1>3. ends \subseteq 1..Len(l)
  BY EndsInside
<1>4. ASSUME NEW i \in seqs, Troubled(l, i) PROVE i \in caps
  <2>1. i \in GroupOf(l, i)
    BY <1>2, EndOfGroup
  <2> QED BY <1>4, <2>1 DEF Protected, Troubled
<1>5. fits \in SUBSET Nat /\ \A c \in fits : c \in 1..Len(l) /\ \A i \in caps : c < i
  BY <1>2, <1>3
<1> HIDE DEF fits, caps
<1>6. CASE fits = {}
  BY <1>1, <1>2, <1>6
<1>7. CASE fits # {}
  <2>1. \E c \in fits : \A d \in fits : c <= d
    BY <1>5, <1>7, SmallestOf
  <2>2. Coverage(l, seqs) \in fits
    BY <1>1, <1>7, <2>1
  <2>3. Coverage(l, seqs) \in 1..Len(l) /\ \A i \in caps : Coverage(l, seqs) < i
    BY <1>5, <2>2
  <2> QED BY <1>2, <1>4, <2>3
<1> QED BY <1>6, <1>7

\* What a reactive compaction summarises is the tail up to some message.
LEMMA HeadHasNoGap ==
  ASSUME NEW l \in Seq(Message), boundary \in Nat
  PROVE  /\ ReactiveHead(l) \subseteq After(l, boundary)
         /\ \A i \in After(l, boundary), j \in ReactiveHead(l) :
               i <= j => i \in ReactiveHead(l)
<1> DEFINE seqs == After(l, boundary)
           ends == {Last(GroupOf(l, i)) : i \in seqs}
           from(i) == {e \in ends : e >= i}
<1>1. ReactiveHead(l) = {i \in seqs : Cardinality(from(i)) > KeepRecent}
  BY DEF ReactiveHead
<1>2. Len(l) \in Nat /\ seqs \subseteq 1..Len(l)
  BY LenProperties DEF After
<1>3. ends \subseteq 1..(Len(l) + 1)
  <2>1. ASSUME NEW i \in seqs PROVE Last(GroupOf(l, i)) \in 1..(Len(l) + 1)
    BY <1>2, EndOfGroup
  <2> QED BY <2>1
<1>4. ASSUME NEW i \in Nat PROVE IsFiniteSet(from(i))
  <2>1. from(i) \in SUBSET (1..(Len(l) + 1))
    BY <1>3
  <2> HIDE DEF from
  <2>2. IsFiniteSet(1..(Len(l) + 1))
    BY <1>2, FS_Interval
  <2> QED BY <2>1, <2>2, FS_Subset
<1>5. ASSUME NEW i \in seqs, NEW j \in ReactiveHead(l), i <= j
      PROVE  i \in ReactiveHead(l)
  <2>1. i \in Nat /\ j \in Nat /\ j \in seqs /\ Cardinality(from(j)) > KeepRecent
    BY <1>1, <1>2
  <2>2. from(j) \in SUBSET from(i)
    <3>1. ASSUME NEW e \in ends, e >= j PROVE e >= i
      <4>1. e \in Int /\ i <= j
        BY <1>2, <1>3, <1>5
      <4> QED BY <2>1, <3>1, <4>1
    <3> HIDE DEF ends
    <3> QED BY <3>1
  <2>3. IsFiniteSet(from(i)) /\ IsFiniteSet(from(j))
    BY <1>4, <2>1
  <2>4. Cardinality(from(i)) \in Nat /\ Cardinality(from(j)) \in Nat
        /\ Cardinality(from(j)) <= Cardinality(from(i))
    <3> HIDE DEF from
    <3> QED BY <2>2, <2>3, FS_Subset, FS_CardinalityType
  <2>5. KeepRecent \in Nat
    BY TranscriptAssumption
  <2>6. Cardinality(from(i)) > KeepRecent
    <3> HIDE DEF from
    <3> QED BY <2>1, <2>4, <2>5
  <2> QED BY <1>1, <2>6
<1> QED BY <1>1, <1>5

-----------------------------------------------------------------------------
(* What a step appends. *)

\* One message is appended and the coverage stays.
Grows(m) ==
  /\ m \in Message /\ Bare(m)
  /\ log' = Append(log, m)
  /\ UNCHANGED <<boundary, mem, seen>>

LEMMA TranscriptConstants ==
  /\ MaxLog \in Nat \ {0} /\ MaxRounds \in Nat \ {0} /\ MaxFailures \in Nat \ {0}
  /\ KeepRecent \in Nat /\ Overclaim \in Nat /\ MaxRetries \in Nat
  /\ MaxProcessCrashes \in Nat /\ MaxReports \in Nat /\ MaxResumes \in Nat
  BY TranscriptAssumption

\* The numbers of the state.
LEMMA TranscriptNumbers ==
  ASSUME TranscriptTypeOK
  PROVE  /\ log \in Seq(Message) /\ Len(log) \in Nat /\ Len(log) <= MaxLog
         /\ boundary \in 0..(MaxLog + Overclaim)
         /\ mem.rev \in Nat /\ mem.through \in 0..(MaxLog + Overclaim) /\ mem.shown \in 0..MaxLog
         /\ mem.safe \in SUBSET CallIds
         /\ brk.fails \in Nat /\ brk.round \in 0..MaxRounds \cup {NoRound}
         /\ rounds \in 0..MaxRounds
  BY LenProperties DEF TranscriptTypeOK

LEMMA TextIsMessage ==
  ASSUME NEW r \in {"user", "assistant"}, NEW c \in BOOLEAN
  PROVE  /\ Text(r, c) \in Message
         /\ Text(r, c).uses = {} /\ Text(r, c).res = {} /\ Text(r, c).bad = {}
  BY TranscriptAssumption DEF Text, Message

LEMMA UseIsMessage ==
  ASSUME NEW ids \in SUBSET CallIds
  PROVE  Use(ids) \in Message /\ Use(ids).uses = ids /\ Bare(Use(ids)) /\ Use(ids).res = {}
  BY TranscriptAssumption DEF Use, Text, Message, Bare

LEMMA ResultsAreMessage ==
  ASSUME NEW ids \in SUBSET CallIds, NEW bad \in SUBSET CallIds, NEW size \in {1, Large}
  PROVE  /\ Results(ids, bad, size) \in Message
         /\ Results(ids, bad, size).uses = {} /\ Results(ids, bad, size).res = ids
         /\ Results(ids, bad, size).bad = bad
  BY TranscriptAssumption DEF Results, Text, Message, Bare

\* The calls of one answer.
LEMMA CallsAreIds ==
  ASSUME NEW ks \in SUBSET (Tools \cup {0}), Len(log) + 1 \in Seqs
  PROVE  {<<Len(log) + 1, k>> : k \in ks} \in SUBSET CallIds
  BY DEF CallIds

LEMMA OpenUseIsIds ==
  ASSUME TranscriptTypeOK, log # <<>>
  PROVE  OpenUse \in SUBSET CallIds /\ log[Len(log)] \in Message
<1>1. log \in Seq(Message)
  BY DEF TranscriptTypeOK
<1>2. Len(log) \in 1..Len(log)
  BY <1>1, EmptySeq
<1>3. log[Len(log)] \in Message
  BY <1>1, <1>2, ElementOfSeq
<1> QED BY <1>3 DEF OpenUse, Message

LEMMA TextGrows ==
  ASSUME NEW c \in BOOLEAN, log' = Append(log, Text("user", c)),
         UNCHANGED <<boundary, mem, seen>>
  PROVE  Grows(Text("user", c))
  BY TextIsMessage DEF Grows, Bare

\* A continuation, a report or the first message: a text, or nothing.
LEMMA TextAppended ==
  ASSUME LoopStarts \/ DeliverReport \/ BeginRound
  PROVE  log' = log \/ \E c \in BOOLEAN : log' = Append(log, Text("user", c))
<1>1. \A t : log = <<>> => <<t>> = Append(log, t)
  OBVIOUS
<1>2. BeginRound => log' = log \/ log' = Append(log, Text("user", FALSE))
  <2>1. BeginRound => log' = log \/ log' = InitialMessage
    BY DEF BeginRound
  <2> QED BY <1>1, <2>1 DEF InitialMessage
<1>3. LoopStarts => log' = log \/ log' = Append(log, Text("user", FALSE))
  BY DEF LoopStarts, Continuation
<1>4. DeliverReport => log' = Append(log, Text("user", TRUE))
  BY DEF DeliverReport
<1> QED BY <1>2, <1>3, <1>4

LEMMA ToolsEndAppends ==
  ASSUME TranscriptTypeOK, AskedLast, ToolsEnd
  PROVE  \/ log' = log /\ windows' = windows \cup {"unsaved"} /\ pc = "act"
         \/ \E m \in Message :
              /\ Grows(m) /\ m.uses = {} /\ m.res = OpenUse /\ windows' = windows
              /\ \A c \in trouble' : c \in trouble \/ c \in m.bad
<1>1. pc = "act" /\ log # <<>>
  BY DEF ToolsEnd, AskedLast, Asking
<1>2. PICK ran \in SUBSET OpenUse, bad \in SUBSET OpenUse, size \in {1, Large},
           saved \in BOOLEAN :
         /\ trouble' = trouble \cup bad
         /\ log' = IF saved
                   THEN Append(log, Results(Blocks(OpenUse, ran),
                                            bad \cup (OpenUse \ ran), size))
                   ELSE log
         /\ windows' = IF saved THEN windows ELSE windows \cup {"unsaved"}
  BY ZenonT(40) DEF ToolsEnd
<1>3. UNCHANGED <<boundary, mem, seen>>
  BY DEF ToolsEnd, histories
<1>4. OpenUse \in SUBSET CallIds
  BY <1>1, OpenUseIsIds
<1> DEFINE all == bad \cup (OpenUse \ ran)
           m == Results(OpenUse, all, size)
<1>5. m \in Message /\ m.uses = {} /\ m.res = OpenUse /\ m.bad = all
  <2>1. all \in SUBSET CallIds
    BY <1>4
  <2> HIDE DEF all
  <2>2. size = 1 \/ size = Large
    OBVIOUS
  <2>3. CASE size = 1
    BY <1>4, <2>1, <2>3, ResultsAreMessage
  <2>4. CASE size = Large
    BY <1>4, <2>1, <2>4, ResultsAreMessage
  <2> QED BY <2>2, <2>3, <2>4
<1> HIDE DEF m
<1>6. CASE saved
  <2>1. log' = Append(log, m) /\ windows' = windows
    BY <1>2, <1>6 DEF m, Blocks
  <2>2. Grows(m)
    BY <1>3, <1>5, <2>1 DEF Grows, Bare
  <2> QED BY <1>2, <1>5, <2>1, <2>2
<1>7. CASE ~saved
  BY <1>1, <1>2, <1>7
<1> QED BY <1>6, <1>7

LEMMA CompactEndAppends ==
  ASSUME TranscriptTypeOK, AskedLast, ManualCompactEnds
  PROVE  /\ pc = "compacted" /\ log # <<>>
         /\ \E m \in Message :
              Grows(m) /\ m.uses = {} /\ m.res = {c \in OpenUse : c[2] = 0}
<1>1. pc = "compacted" /\ log # <<>>
  BY DEF ManualCompactEnds, AskedLast, Asking
<1> DEFINE id == {c \in OpenUse : c[2] = 0}
           bad == IF job.mode = "done" THEN {} ELSE id
<1>2. log' = Append(log, Results(id, bad, 1)) /\ UNCHANGED <<boundary, mem, seen>>
  BY DEF ManualCompactEnds, CompactResult, histories
<1>3. id \in SUBSET CallIds /\ bad \in SUBSET CallIds
  BY <1>1, OpenUseIsIds
<1>4. /\ Results(id, bad, 1) \in Message /\ Results(id, bad, 1).uses = {}
      /\ Results(id, bad, 1).res = id
  <2> HIDE DEF id, bad
  <2> QED BY <1>3, ResultsAreMessage
<1>5. Grows(Results(id, bad, 1))
  BY <1>2, <1>4 DEF Grows, Bare
<1> QED BY <1>1, <1>4, <1>5

LEMMA ApprovalAppends ==
  ASSUME TranscriptTypeOK, UsesAreBare, Stopping, ApprovalDecided
  PROVE  /\ pc = "idle" /\ trouble' \subseteq trouble
         /\ \/ log' = log /\ UNCHANGED <<boundary, mem, seen>>
            \/ /\ ~IsUse(log, Len(log)) /\ log # <<>>
               /\ \E m \in Message : Grows(m) /\ m.uses = {}
<1>1. PICK c \in trouble, bad \in BOOLEAN, ran \in BOOLEAN :
         /\ c \in log[Len(log)].bad
         /\ trouble' = IF bad /\ ran THEN trouble ELSE trouble \ {c}
         /\ log' = IF ran THEN Append(log, Results({c}, IF bad THEN {c} ELSE {}, 1))
                   ELSE log
  BY DEF ApprovalDecided
<1>2. pc = "idle" /\ UNCHANGED <<boundary, mem, seen>> /\ trouble' \subseteq trouble
  BY <1>1 DEF ApprovalDecided, histories
<1> DEFINE b == IF bad THEN {c} ELSE {}
<1>3. {c} \in SUBSET CallIds /\ b \in SUBSET CallIds
  BY DEF TranscriptTypeOK
<1>4. Results({c}, b, 1) \in Message /\ Results({c}, b, 1).uses = {}
  <2> HIDE DEF b
  <2> QED BY <1>3, ResultsAreMessage
<1>5. CASE ran
  <2>1. log' = Append(log, Results({c}, b, 1))
    BY <1>1, <1>5
  <2>2. Grows(Results({c}, b, 1))
    BY <1>2, <1>4, <2>1 DEF Grows, Bare
  <2>3. log \in Seq(Message)
    BY DEF TranscriptTypeOK
  <2>4. log # <<>>
    BY DEF ApprovalDecided, Stopping
  <2>5. Len(log) \in 1..Len(log)
    BY <2>3, <2>4, EmptySeq
  <2>6. ~IsUse(log, Len(log))
    BY <1>1, <2>5 DEF UsesAreBare, Bare, IsUse
  <2> QED BY <1>2, <1>4, <2>2, <2>4, <2>6
<1>6. CASE ~ran
  BY <1>1, <1>2, <1>6
<1> QED BY <1>5, <1>6

\* The answer of the agent: a tool use, or a message that asks for nothing.
LEMMA AnswerAppends ==
  ASSUME TranscriptTypeOK, HasRoom, AgentAnswers
  PROVE  /\ pc = "call" /\ UNCHANGED <<boundary, mem, seen>>
         /\ \E asked \in SUBSET Tools, compact \in BOOLEAN :
              \E ids \in SUBSET CallIds :
                /\ ids = {<<Len(log) + 1, k>> : k \in asked \cup (IF compact THEN {0} ELSE {})}
                /\ Grows(Use(ids))
                /\ IF compact
                   THEN /\ pc' = "ask" /\ status' = status
                        /\ job' = Ask("manual", After(Tolerated(log'), boundary))
                   ELSE IF ids # {} THEN pc' = "act" /\ UNCHANGED <<status, job>>
                   ELSE \/ Park("done")
                        \/ Park("paused")
                        \/ pc' = "top" /\ UNCHANGED <<status, job>>
                /\ windows' = IF compact /\ asked # {} THEN windows \cup {"siblings"}
                              ELSE windows
<1>1. pc = "call" /\ UNCHANGED <<boundary, mem, seen>>
  BY DEF AgentAnswers, histories
<1>2. PICK asked \in SUBSET Tools, compact \in BOOLEAN :
        LET ids == {<<Len(log) + 1, k>> : k \in asked \cup (IF compact THEN {0} ELSE {})}
        IN /\ log' = Append(log, Use(ids))
           /\ IF compact
              THEN /\ pc' = "ask" /\ status' = status
                   /\ job' = Ask("manual", After(Tolerated(log'), boundary))
              ELSE IF ids # {} THEN pc' = "act" /\ UNCHANGED <<status, job>>
              ELSE \/ Park("done")
                   \/ Park("paused")
                   \/ pc' = "top" /\ UNCHANGED <<status, job>>
           /\ windows' = IF compact /\ asked # {} THEN windows \cup {"siblings"}
                         ELSE windows
  BY DEF AgentAnswers
<1> DEFINE ids == {<<Len(log) + 1, k>> : k \in asked \cup (IF compact THEN {0} ELSE {})}
<1>3. Len(log) + 1 \in Seqs
  <2>1. Len(log) \in Nat /\ MaxLog \in Nat /\ Len(log) + 2 <= MaxLog
    BY <1>1, TranscriptConstants, TranscriptNumbers DEF HasRoom, Sending
  <2> QED BY <2>1 DEF Seqs
<1>4. (asked \cup (IF compact THEN {0} ELSE {})) \in SUBSET (Tools \cup {0})
  OBVIOUS
<1>5. ids \in SUBSET CallIds
  BY <1>3, <1>4, CallsAreIds
<1>6. Grows(Use(ids))
  <2>1. log' = Append(log, Use(ids))
    BY <1>2
  <2> HIDE DEF ids
  <2> QED BY <1>1, <1>5, <2>1, UseIsMessage DEF Grows
<1> QED BY <1>1, <1>2, <1>5, <1>6

\* A step leaves the transcript alone or appends one message.
LEMMA TranscriptGrows ==
  ASSUME TranscriptInv, TranscriptNext
  PROVE  log' = log \/ \E m \in Message : Grows(m)
<1>1. TranscriptTypeOK /\ UsesAreBare /\ AskedLast /\ HasRoom /\ Stopping
  BY DEF TranscriptInv
<1>2. CASE LoopStarts \/ DeliverReport \/ BeginRound
  <2>1. log' = log \/ \E c \in BOOLEAN : log' = Append(log, Text("user", c))
    BY <1>2, TextAppended
  <2>2. UNCHANGED <<boundary, mem, seen>>
    BY <1>2 DEF LoopStarts, DeliverReport, BeginRound, histories
  <2> QED BY <2>1, <2>2, TextGrows DEF Grows
<1>5. CASE AgentAnswers
  <2>1. \E ids \in SUBSET CallIds : Grows(Use(ids))
    BY <1>1, <1>5, AnswerAppends
  <2> QED BY <2>1 DEF Grows
<1>6. CASE ToolsEnd
  BY <1>1, <1>6, ToolsEndAppends
<1>7. CASE ManualCompactEnds
  BY <1>1, <1>7, CompactEndAppends
<1>8. CASE ApprovalDecided
  BY <1>1, <1>8, ApprovalAppends
<1>9. CASE Prepare \/ Build \/ Cover \/ CompactorAnswers \/ CompactorIdle \/ CompactorFails
           \/ Prepared \/ PromptTooLong \/ Retry \/ Corrected \/ ProcessDies \/ Restart
  BY <1>9 DEF Prepare, Build, Cover, CompactorAnswers, CompactorIdle, CompactorFails, Prepared,
              PromptTooLong, Retry, Corrected, ProcessDies, Restart, durable
<1> QED BY <1>2, <1>5, <1>6, <1>7, <1>8, <1>9 DEF TranscriptNext, LoopStep

LEMMA UsesStayBare ==
  ASSUME TranscriptInv, TranscriptNext
  PROVE  UsesAreBare' /\ log' \in Seq(Message)
<1>1. TranscriptTypeOK /\ UsesAreBare /\ log \in Seq(Message)
  BY DEF TranscriptInv, TranscriptTypeOK
<1>2. CASE log' = log
  BY <1>1, <1>2 DEF UsesAreBare
<1>3. CASE \E m \in Message : Grows(m)
  <2>1. PICK m \in Message : Grows(m)
    BY <1>3
  <2>2. Added(log, m) /\ Len(log) \in Nat /\ log' = Append(log, m)
    BY <1>1, <2>1, AppendAdds DEF Grows
  <2>3. ASSUME NEW i \in 1..Len(log') PROVE Bare(log'[i])
    <3>1. i \in 1..Len(log) \/ i = Len(log) + 1
      BY <2>2 DEF Added
    <3>2. i \in 1..Len(log) => log'[i] = log[i]
      BY <2>2 DEF Added
    <3>3. i = Len(log) + 1 => log'[i] = m
      BY <2>2 DEF Added
    <3> QED BY <1>1, <2>1, <3>1, <3>2, <3>3 DEF UsesAreBare, Grows
  <2> QED BY <2>2, <2>3 DEF UsesAreBare, Added
<1> QED BY <1>2, <1>3, TranscriptGrows

-----------------------------------------------------------------------------
(* Where the loop goes. *)

LEMMA LengthGrows ==
  ASSUME TranscriptInv, TranscriptNext
  PROVE  /\ Len(log) \in Nat /\ Len(log') \in Nat
         /\ Len(log') = Len(log) \/ Len(log') = Len(log) + 1
         /\ \A i \in 1..Len(log) : i \in 1..Len(log') /\ log'[i] = log[i]
<1>1. log \in Seq(Message)
  BY DEF TranscriptInv, TranscriptTypeOK
<1>2. CASE log' = log
  BY <1>1, <1>2, LenProperties
<1>3. CASE \E m \in Message : Grows(m)
  <2>1. PICK m \in Message : Grows(m)
    BY <1>3
  <2>2. Added(log, m) /\ Len(log) \in Nat /\ log' = Append(log, m)
    BY <1>1, <2>1, AppendAdds DEF Grows
  <2> QED BY <2>2 DEF Added
<1> QED BY <1>2, <1>3, TranscriptGrows

\* After a compaction: what each mode goes on with.
LEMMA WhereCompactionGoes ==
  ASSUME NEW ok \in BOOLEAN, job.mode \in {"auto", "manual", "reactive"},
         AfterCompaction(ok)
  PROVE  /\ job.mode = "auto" => pc' \in {"prepared", "build"} /\ job' = NoJob /\ status' = status
         /\ job.mode = "reactive" => /\ \/ pc' = "retry" /\ status' = status
                                        \/ pc' = "idle" /\ status' = "paused"
                                     /\ job' = NoJob
         /\ job.mode = "manual" => /\ pc' = "compacted" /\ status' = status
                                   /\ job' = [NoJob EXCEPT !.mode = IF ok THEN "done" ELSE "failed"]
<1>1. CASE job.mode = "auto"
  BY <1>1 DEF AfterCompaction, Park
<1>2. CASE job.mode = "reactive"
  BY <1>2 DEF AfterCompaction, Park
<1>3. CASE job.mode = "manual"
  BY <1>3 DEF AfterCompaction, Park
<1> QED BY <1>1, <1>2, <1>3

\* The steps outside a round, and those that end one.
Outside == LoopStarts \/ DeliverReport \/ BeginRound \/ ToolsEnd \/ ManualCompactEnds
             \/ ApprovalDecided \/ ProcessDies \/ Restart

LEMMA OutsideGoes ==
  ASSUME Outside
  PROVE  pc' \in {"top", "prepare", "idle", "down"}
<1>1. CASE LoopStarts \/ DeliverReport \/ ManualCompactEnds \/ ProcessDies \/ Restart
  BY <1>1 DEF LoopStarts, DeliverReport, ManualCompactEnds, ProcessDies, Restart
<1>2. CASE BeginRound
  BY <1>2 DEF BeginRound, Park
<1>3. CASE ToolsEnd
  BY <1>3 DEF ToolsEnd, Park
<1>4. CASE ApprovalDecided
  BY <1>4 DEF ApprovalDecided
<1> QED BY <1>1, <1>2, <1>3, <1>4 DEF Outside

\* What a compaction does to the loop.
Compacting == CompactorAnswers \/ CompactorIdle \/ CompactorFails

LEMMA CompactingGoes ==
  ASSUME AskedWell, Compacting
  PROVE  /\ pc = "ask" /\ job.mode \in {"auto", "manual", "reactive"}
         /\ \E ok \in BOOLEAN : AfterCompaction(ok)
         /\ UNCHANGED <<log, rounds, req, trouble, retries, left>>
<1>1. CASE CompactorAnswers
  BY <1>1 DEF CompactorAnswers, AskedWell
<1>2. CASE CompactorIdle
  BY <1>2 DEF CompactorIdle, AskedWell, durable
<1>3. CASE CompactorFails
  BY <1>3 DEF CompactorFails, AskedWell
<1> QED BY <1>1, <1>2, <1>3 DEF Compacting

\* The windows are never closed.
LEMMA WindowsGrow ==
  ASSUME TranscriptNext
  PROVE  windows \subseteq windows'
<1>1. CASE LoopStarts \/ DeliverReport \/ BeginRound \/ Prepare \/ Build \/ Cover
           \/ CompactorIdle \/ CompactorFails \/ Prepared \/ PromptTooLong \/ Retry
           \/ ManualCompactEnds \/ Restart \/ ApprovalDecided
  <2>1. windows' = windows
    BY <1>1 DEF LoopStarts, DeliverReport, BeginRound, Prepare, Build, Cover, CompactorIdle,
                CompactorFails, Prepared, PromptTooLong, Retry, ManualCompactEnds, Restart,
                ApprovalDecided
  <2> QED BY <2>1
<1>2. CASE CompactorAnswers
  BY <1>2 DEF CompactorAnswers
<1>3. CASE Corrected
  BY <1>3 DEF Corrected
<1>4. CASE AgentAnswers
  BY <1>4 DEF AgentAnswers
<1>5. CASE ToolsEnd
  BY <1>5 DEF ToolsEnd
<1>6. CASE ProcessDies
  BY <1>6 DEF ProcessDies
<1> QED BY <1>1, <1>2, <1>3, <1>4, <1>5, <1>6 DEF TranscriptNext, LoopStep

\* A request is on its way only behind the check of prepare, and the log does
\* not change before the answer.
LEMMA SendingComesFrom ==
  ASSUME TranscriptInv, TranscriptNext, Sending'
  PROVE  /\ log' = log /\ rounds' = rounds
         /\ Sending \/ (pc = "prepare" /\ ~Torn(log))
<1>1. AskedWell
  BY DEF TranscriptInv
<1>2. CASE Prepare
  BY <1>2 DEF Prepare, Park, durable, Sending
<1>3. CASE Build \/ Cover \/ Prepared \/ Retry \/ Corrected
  BY <1>3 DEF Build, Cover, Prepared, Retry, Corrected, Sending, durable
<1>4. CASE PromptTooLong
  BY <1>4 DEF PromptTooLong, Sending, Park, Ask
<1>5. ASSUME Compacting
      PROVE  log' = log /\ rounds' = rounds /\ Sending
  <2>1. /\ pc = "ask" /\ job.mode \in {"auto", "manual", "reactive"}
        /\ \E ok \in BOOLEAN : AfterCompaction(ok)
        /\ log' = log /\ rounds' = rounds
    BY <1>1, <1>5, CompactingGoes
  <2>3. job.mode # "manual"
    BY <2>1, WhereCompactionGoes DEF Sending
  <2> QED BY <2>1, <2>3 DEF Sending
<1>6. CASE AgentAnswers
  <2>1. pc' \in {"ask", "act", "idle", "top"} /\ (pc' = "ask" => job'.mode = "manual")
    <3>1. TranscriptTypeOK /\ HasRoom
      BY DEF TranscriptInv
    <3> QED BY <1>6, <3>1, AnswerAppends DEF Ask, Park
  <2> QED BY <2>1 DEF Sending
<1>7. CASE Outside
  BY <1>7, OutsideGoes DEF Sending
<1> QED BY <1>2, <1>3, <1>4, <1>5, <1>6, <1>7 DEF TranscriptNext, LoopStep, Compacting, Outside

\* Tools were just asked for, or the loop still waits for their end.
LEMMA AskingComesFrom ==
  ASSUME TranscriptInv, TranscriptNext, Asking'
  PROVE  \/ AgentAnswers
         \/ /\ Asking /\ log' = log /\ (pc' # "act" => pc # "act")
<1>1. AskedWell
  BY DEF TranscriptInv
<1>2. CASE Prepare \/ Build \/ Cover \/ Prepared \/ Retry \/ Corrected \/ PromptTooLong
  BY <1>2 DEF Prepare, Build, Cover, Prepared, Retry, Corrected, PromptTooLong, Asking, Send,
              Resend, Park, Ask, Materialize
<1>3. ASSUME Compacting
      PROVE  log' = log /\ Asking /\ pc # "act"
  <2>1. /\ pc = "ask" /\ job.mode \in {"auto", "manual", "reactive"}
        /\ (\E ok \in BOOLEAN : AfterCompaction(ok)) /\ log' = log
    BY <1>1, <1>3, CompactingGoes
  <2>3. job.mode = "manual"
    BY <2>1, WhereCompactionGoes DEF Asking
  <2> QED BY <2>1, <2>3 DEF Asking
<1>4. CASE Outside
  BY <1>4, OutsideGoes DEF Asking
<1> QED BY <1>2, <1>3, <1>4 DEF TranscriptNext, LoopStep, Compacting, Outside

LEMMA WholeStays ==
  ASSUME TranscriptInv, TranscriptNext
  PROVE  Whole'
  BY SendingComesFrom DEF TranscriptInv, Whole

\* The open tool use of an answer, and what it leaves behind.
LEMMA AskedLastStays ==
  ASSUME TranscriptInv, TranscriptNext
  PROVE  AskedLast' /\ CompactAlone'
<1>1. TranscriptTypeOK /\ HasRoom /\ AskedLast /\ Whole /\ CompactAlone
  BY DEF TranscriptInv
<1>2. SUFFICES ASSUME Asking' PROVE AskedLast' /\ CompactAlone'
  BY DEF AskedLast, CompactAlone
<1>3. CASE Asking /\ log' = log /\ (pc' # "act" => pc # "act")
  <2>1. "siblings" \in windows => "siblings" \in windows'
    BY WindowsGrow
  <2> QED BY <1>1, <1>3, <2>1 DEF AskedLast, CompactAlone, Through
<1>4. CASE AgentAnswers
  <2>1. PICK asked \in SUBSET Tools, compact \in BOOLEAN, ids \in SUBSET CallIds :
          /\ ids = {<<Len(log) + 1, k>> : k \in asked \cup (IF compact THEN {0} ELSE {})}
          /\ Grows(Use(ids))
          /\ IF compact THEN pc' = "ask"
             ELSE ids = {} => pc' \in {"idle", "top"}
          /\ pc' # "act" /\ ids # {} => compact
          /\ windows' = IF compact /\ asked # {} THEN windows \cup {"siblings"}
                        ELSE windows
    BY <1>1, <1>4, AnswerAppends DEF Park
  <2>2. ids # {}
    BY <1>2, <2>1 DEF Asking
  <2>3. log \in Seq(Message) /\ ~Torn(log) /\ log' = Append(log, Use(ids))
    BY <1>1, <1>4, <2>1 DEF AgentAnswers, Whole, Sending, TranscriptTypeOK, Grows
  <2>4. Use(ids) \in Message /\ Use(ids).uses = ids
    BY UseIsMessage
  <2>5. Added(log, Use(ids)) /\ Len(log) \in Nat
    BY <2>3, <2>4, AppendAdds
  <2>6. /\ Len(log') = Len(log) + 1 /\ log'[Len(log')].uses = ids /\ log' # <<>>
    BY <2>3, <2>4, <2>5, AppendProperties DEF Added
  <2>7. \A i \in 1..Len(log) : ~Unpaired(log', i)
    BY <2>3, <2>4, StaysWhole
  <2>8. AskedLast'
    BY <2>2, <2>5, <2>6, <2>7 DEF AskedLast, IsUse
  <2>9. CompactAlone'
    <3>1. SUFFICES ASSUME pc' # "act", ~("siblings" \in windows'), NEW c \in ids
                   PROVE  c[2] = 0
      BY <2>6 DEF CompactAlone, Through
    <3>2. ids = {<<Len(log) + 1, k>> : k \in {0}}
      BY <2>1, <2>2, <3>1
    <3> QED BY <3>2
  <2> QED BY <2>8, <2>9
<1> QED BY <1>2, <1>3, <1>4, AskingComesFrom

LEMMA RoomStays ==
  ASSUME TranscriptInv, TranscriptNext
  PROVE  HasRoom'
<1> USE TranscriptConstants
<1>1. HasRoom /\ AskedLast /\ TranscriptTypeOK
  BY DEF TranscriptInv
<1>2. /\ Len(log) \in Nat /\ Len(log) <= MaxLog /\ rounds \in 0..MaxRounds
      /\ Len(log') \in Nat /\ (Len(log') = Len(log) \/ Len(log') = Len(log) + 1)
  BY <1>1, TranscriptNumbers, LengthGrows
<1>3. Len(log') <= MaxLog /\ rounds' <= MaxRounds
  <2>1. CASE Outside
    <3>1. rounds' = rounds
      BY <2>1 DEF Outside, LoopStarts, DeliverReport, BeginRound, ToolsEnd, ManualCompactEnds,
                  ApprovalDecided, ProcessDies, Restart
    <3>2. CASE LoopStarts \/ DeliverReport \/ ApprovalDecided
      <4>1. Room(1)
        BY <3>2 DEF LoopStarts, DeliverReport, ApprovalDecided
      <4> QED BY <1>2, <3>1, <4>1 DEF Room
    <3>3. CASE BeginRound
      <4>1. log' = log \/ Room(IF log = <<>> THEN 3 ELSE 2)
        BY <3>3 DEF BeginRound
      <4> QED BY <1>2, <3>1, <4>1 DEF Room
    <3>4. CASE ToolsEnd \/ ManualCompactEnds
      <4>1. Asking
        BY <3>4 DEF ToolsEnd, ManualCompactEnds, Asking
      <4> QED BY <1>1, <1>2, <3>1, <4>1 DEF HasRoom
    <3>5. CASE ProcessDies \/ Restart
      BY <1>2, <3>1, <3>5 DEF ProcessDies, Restart, durable
    <3> QED BY <2>1, <3>2, <3>3, <3>4, <3>5 DEF Outside
  <2>2. CASE Compacting
    BY <1>2, <2>2, CompactingGoes DEF TranscriptInv
  <2>3. CASE Prepare \/ Build \/ Cover \/ Prepared \/ PromptTooLong \/ Retry \/ Corrected
    BY <1>2, <2>3 DEF Prepare, Build, Cover, Prepared, PromptTooLong, Retry, Corrected, durable
  <2>4. CASE AgentAnswers
    <3>1. Sending /\ rounds' = rounds + 1
      BY <2>4 DEF AgentAnswers, Sending
    <3> QED BY <1>1, <1>2, <3>1 DEF HasRoom
  <2> QED BY <2>1, <2>2, <2>3, <2>4 DEF TranscriptNext, LoopStep, Outside, Compacting
<1>4. ASSUME Sending' PROVE Len(log') + 2 <= MaxLog /\ rounds' < MaxRounds
  BY <1>1, <1>4, SendingComesFrom DEF HasRoom
<1>5. ASSUME pc' = "prepare" PROVE Len(log') + 2 <= MaxLog /\ rounds' < MaxRounds
  <2>1. BeginRound
    <3>1. ~Compacting
      BY <1>5, CompactingGoes, WhereCompactionGoes DEF TranscriptInv
    <3>2. ~(Prepare \/ Build \/ Cover \/ Prepared \/ PromptTooLong \/ Retry \/ Corrected)
      BY <1>5 DEF Prepare, Build, Cover, Prepared, PromptTooLong, Retry, Corrected, Send, Resend,
                  Materialize, Park
    <3>3. ~AgentAnswers
      BY <1>1, <1>5, AnswerAppends DEF Park
    <3>4. ~(LoopStarts \/ DeliverReport \/ ManualCompactEnds \/ ProcessDies \/ Restart)
      BY <1>5 DEF LoopStarts, DeliverReport, ManualCompactEnds, ProcessDies, Restart
    <3>5. ~(ApprovalDecided \/ ToolsEnd)
      <4>1. ApprovalDecided => pc' \in {"top", "idle"}
        BY DEF ApprovalDecided
      <4>2. ToolsEnd => pc' \in {"top", "idle"}
        BY DEF ToolsEnd, Park
      <4> QED BY <1>5, <4>1, <4>2
    <3> QED BY <3>1, <3>2, <3>3, <3>4, <3>5 DEF TranscriptNext, LoopStep, Compacting
  <2>2. /\ rounds' = rounds /\ ~(rounds >= MaxRounds) /\ log' = InitialMessage
        /\ Room(IF log = <<>> THEN 3 ELSE 2)
    BY <1>5, <2>1 DEF BeginRound, Park
  <2>3. log # <<>> => log' = log
    BY <2>2 DEF InitialMessage
  <2> QED BY <1>2, <2>2, <2>3 DEF Room
<1>6. ASSUME Asking' PROVE Len(log') + 1 <= MaxLog
  <2>1. CASE AgentAnswers
    <3>1. Sending
      BY <2>1 DEF AgentAnswers, Sending
    <3> QED BY <1>1, <1>2, <3>1 DEF HasRoom
  <2>2. CASE Asking /\ log' = log
    BY <1>1, <2>2 DEF HasRoom
  <2> QED BY <1>6, <2>1, <2>2, AskingComesFrom
<1> QED BY <1>3, <1>4, <1>5, <1>6 DEF HasRoom

\* Answers mend, and only the named windows leave a tear.
LEMMA IntactStays ==
  ASSUME TranscriptInv, TranscriptNext
  PROVE  Intact'
<1>1. /\ TranscriptTypeOK /\ HasRoom /\ AskedLast /\ CompactAlone /\ Whole /\ Intact
      /\ UsesAreBare /\ Stopping /\ AskedWell /\ log \in Seq(Message)
  BY DEF TranscriptInv, TranscriptTypeOK
<1> DEFINE W == {"cut", "unsaved", "siblings"}
<1>2. SUFFICES ASSUME windows' \cap W = {} PROVE Asking' \/ ~Torn(log')
  BY DEF Intact, Through
<1>3. windows \cap W = {}
  BY <1>2, WindowsGrow
<1>4. Asking \/ ~Torn(log)
  BY <1>1, <1>3 DEF Intact, Through
<1>5. ASSUME log' = log, ~Asking PROVE ~Torn(log')
  BY <1>4, <1>5
<1>6. ASSUME NEW m \in Message, Grows(m), m.uses = {}, ~Asking PROVE ~Torn(log')
  BY <1>1, <1>4, <1>6, StaysWhole DEF Grows
<1>7. CASE LoopStarts \/ DeliverReport \/ BeginRound
  <2>1. ~Asking /\ UNCHANGED <<boundary, mem, seen>>
    BY <1>7 DEF LoopStarts, DeliverReport, BeginRound, Asking, histories
  <2>2. log' = log \/ \E c \in BOOLEAN : log' = Append(log, Text("user", c))
    BY <1>7, TextAppended
  <2> QED BY <1>5, <1>6, <2>1, <2>2, TextGrows, TextIsMessage
<1>8. CASE ApprovalDecided
  BY <1>1, <1>5, <1>6, <1>8, ApprovalAppends DEF Asking
<1>9. CASE ToolsEnd
  <2>1. PICK m \in Message : Grows(m) /\ m.uses = {} /\ m.res = OpenUse
    BY <1>1, <1>2, <1>9, ToolsEndAppends
  <2>2. Asking
    BY <1>9 DEF ToolsEnd, Asking
  <2> QED BY <1>1, <2>1, <2>2, AnswerMends DEF AskedLast, Grows, OpenUse
<1>10. CASE ManualCompactEnds
  <2>1. PICK m \in Message : Grows(m) /\ m.uses = {} /\ m.res = {c \in OpenUse : c[2] = 0}
    BY <1>1, <1>10, CompactEndAppends
  <2>2. Asking /\ pc # "act"
    BY <1>10 DEF ManualCompactEnds, Asking
  <2>3. \A c \in OpenUse : c[2] = 0
    BY <1>1, <1>3, <2>2 DEF CompactAlone, Through, OpenUse
  <2>4. m.res = OpenUse
    BY <2>1, <2>3
  <2> QED BY <1>1, <2>1, <2>2, <2>4, AnswerMends DEF AskedLast, Grows, OpenUse
<1>11. CASE ProcessDies
  BY <1>2, <1>11 DEF ProcessDies, durable
<1>12. CASE Restart
  <2>1. ~Asking /\ log' = log
    BY <1>12 DEF Restart, durable, Asking
  <2> QED BY <1>5, <2>1
<1>13. CASE Prepare \/ Build \/ Cover \/ Prepared \/ PromptTooLong \/ Retry \/ Corrected
  <2>1. ~Asking /\ log' = log
    BY <1>13 DEF Prepare, Build, Cover, Prepared, PromptTooLong, Retry, Corrected, durable, Asking
  <2> QED BY <1>5, <2>1
<1>14. CASE Compacting
  <2>1. /\ pc = "ask" /\ job.mode \in {"auto", "manual", "reactive"}
        /\ (\E ok \in BOOLEAN : AfterCompaction(ok)) /\ log' = log
    BY <1>1, <1>14, CompactingGoes
  <2>2. job.mode = "manual" => pc' = "compacted"
    BY <2>1, WhereCompactionGoes
  <2> QED BY <1>5, <2>1, <2>2 DEF Asking
<1>15. CASE AgentAnswers
  <2>1. PICK compact \in BOOLEAN, ids \in SUBSET CallIds :
          /\ Grows(Use(ids))
          /\ IF compact THEN pc' = "ask" /\ job' = Ask("manual", After(Tolerated(log'), boundary))
             ELSE ids # {} => pc' = "act"
          /\ compact => ids # {}
    BY <1>1, <1>15, AnswerAppends DEF Park
  <2>2. Use(ids) \in Message /\ Use(ids).uses = ids
    BY UseIsMessage
  <2>3. ~Asking
    BY <1>15 DEF AgentAnswers, Asking
  <2>4. CASE ids = {}
    BY <1>6, <2>1, <2>2, <2>3, <2>4
  <2>5. CASE ids # {}
    BY <2>1, <2>5 DEF Asking, Ask
  <2> QED BY <2>4, <2>5
<1> QED BY <1>7, <1>8, <1>9, <1>10, <1>11, <1>12, <1>13, <1>14, <1>15
        DEF TranscriptNext, LoopStep, Compacting

-----------------------------------------------------------------------------
(* The request and the compaction in flight. *)

LEMMA RequestStays ==
  ASSUME TranscriptInv, TranscriptNext
  PROVE  Requested'
<1>1. Requested /\ Whole /\ AskedWell /\ log \in Seq(Message)
  BY DEF TranscriptInv, TranscriptTypeOK
<1>2. ASSUME pc # "call", UNCHANGED req, pc' # "call" PROVE Requested'
  BY <1>1, <1>2 DEF Requested
<1>3. ASSUME req' = NoRequest, pc' # "call" PROVE Requested'
  BY <1>3 DEF Requested
<1>4. ASSUME NEW stubs, Send(mem', After(log, boundary'), stubs), log' = log PROVE Requested'
  BY <1>4 DEF Requested, Send
<1>5. ASSUME UNCHANGED <<log, boundary, mem>>, NEW stubs, Send(mem, After(log, boundary), stubs)
      PROVE  Requested'
  BY <1>4, <1>5
<1>6. CASE Outside
  <2>1. pc' # "call"
    BY <1>6, OutsideGoes
  <2>2. CASE ProcessDies
    BY <1>3, <2>1, <2>2 DEF ProcessDies, Received
  <2>3. CASE ~ProcessDies
    <3>1. pc # "call" /\ UNCHANGED req
      BY <1>6, <2>3 DEF Outside, LoopStarts, DeliverReport, BeginRound, ToolsEnd,
                        ManualCompactEnds, ApprovalDecided, Restart
    <3> QED BY <1>2, <2>1, <3>1
  <2> QED BY <2>2, <2>3
<1>7. CASE Compacting
  <2>1. /\ pc = "ask" /\ job.mode \in {"auto", "manual", "reactive"} /\ UNCHANGED req
        /\ (\E ok \in BOOLEAN : AfterCompaction(ok))
    BY <1>1, <1>7, CompactingGoes
  <2>2. pc' # "call"
    BY <2>1, WhereCompactionGoes
  <2> QED BY <1>2, <2>1, <2>2
<1>8. CASE Prepare
  <2>1. UNCHANGED <<log, boundary, mem>> /\ pc # "call"
    BY <1>8 DEF Prepare, durable
  <2>2. \/ UNCHANGED req /\ pc' # "call"
        \/ Send(mem, After(log, boundary), {})
    BY <1>8 DEF Prepare, Park
  <2> QED BY <1>2, <1>5, <2>1, <2>2
<1>9. CASE Build
  <2>1. log' = log /\ boundary' = boundary /\ pc # "call"
    BY <1>9 DEF Build
  <2> DEFINE tail == After(log, boundary)
             cover == Coverage(log, tail)
  <2>2. \/ \E stubs : Send(mem, tail, stubs) /\ UNCHANGED mem
        \/ UNCHANGED req /\ pc' = "cover"
    <3>1. CASE Estimate(mem, tail, {}) <= MaxInput
      BY <1>9, <3>1 DEF Build
    <3>2. CASE ~(Estimate(mem, tail, {}) <= MaxInput) /\ cover <= boundary
      <4>1. /\ \E aged \in 0..Len(log) :
                 Send(mem, tail, IF mem.rev > 0 THEN Stubbed(log, tail, aged) ELSE {})
            /\ UNCHANGED mem
        BY <1>9, <3>2 DEF Build
      <4> QED BY <4>1
    <3>3. CASE ~(Estimate(mem, tail, {}) <= MaxInput) /\ ~(cover <= boundary)
      BY <1>9, <3>3 DEF Build
    <3> QED BY <3>1, <3>2, <3>3
  <2> QED BY <1>2, <1>5, <2>1, <2>2
<1>10. CASE Cover
  <2>1. /\ log' = log /\ mem' = mem /\ boundary' = job.through
        /\ \E stubs : Send(mem, After(log, job.through), stubs)
    BY <1>10 DEF Cover, Materialize
  <2> QED BY <1>4, <2>1
<1>11. CASE Prepared
  BY <1>5, <1>11 DEF Prepared, durable
<1>12. CASE PromptTooLong
  BY <1>3, <1>12 DEF PromptTooLong, Received, Park
<1>13. CASE Retry
  <2>1. ~Torn(log)
    BY <1>1, <1>13 DEF Retry, Whole, Sending
  <2>2. Tolerated(log) = log
    BY <1>1, <2>1, WholeIsTolerated
  <2> QED BY <1>13, <2>2 DEF Retry, Resend, Requested, durable
<1>14. CASE Corrected
  <2>1. pc = "call" /\ UNCHANGED <<log, boundary, mem>>
    BY <1>14 DEF Corrected, durable
  <2>2. \/ UNCHANGED <<pc, req>>
        \/ req' = NoRequest /\ pc' = "idle"
    BY <1>14 DEF Corrected, Park, Received
  <2> QED BY <1>1, <1>3, <2>1, <2>2 DEF Requested
<1>15. CASE AgentAnswers
  <2>1. pc' # "call" /\ req' = NoRequest
    BY <1>15 DEF AgentAnswers, Received, Park
  <2> QED BY <1>3, <2>1
<1> QED BY <1>6, <1>7, <1>8, <1>9, <1>10, <1>11, <1>12, <1>13, <1>14, <1>15
        DEF TranscriptNext, LoopStep, Outside, Compacting

\* What is asked of a compactor: a part of the tail without a gap.
AskedTo(l, mode, seqs) ==
  /\ mode \in {"auto", "manual", "reactive"}
  /\ seqs \subseteq After(l, boundary)
  /\ \A i \in After(l, boundary), j \in seqs : i <= j => i \in seqs

LEMMA AskIsWell ==
  ASSUME TranscriptTypeOK, Backed, NEW l \in Seq(Message), Len(l) <= Len(log'), log' \in Seq(Message),
         NEW mode, NEW seqs, AskedTo(l, mode, seqs),
         UNCHANGED <<boundary, mem>>, job' = Ask(mode, seqs), Len(log') <= MaxLog
  PROVE  AskedWell' /\ job' \in Jobs
<1>1. /\ Len(l) \in Nat /\ Len(log') \in Nat /\ boundary \in Nat
      /\ boundary \in 0..(MaxLog + Overclaim)
  BY LenProperties, TranscriptNumbers
<1>2. After(l, boundary) = {i \in 1..Len(l) : i > boundary \/ (i = boundary /\ IsUse(l, i))}
  BY <1>1, TailBehind
<1>3. /\ job'.mode = mode /\ job'.seqs = seqs /\ job'.through = Last(seqs \cup {boundary})
      /\ job' = [mode |-> mode, seqs |-> seqs, through |-> Last(seqs \cup {boundary})]
  BY DEF Ask
<1>4. seqs \subseteq 1..Len(l) /\ seqs \subseteq 1..Len(log') /\ seqs \subseteq 1..MaxLog
      /\ \A i \in seqs : i >= boundary
  BY <1>1, <1>2, TranscriptConstants DEF AskedTo
<1>5. /\ Last(seqs \cup {boundary}) \in seqs \cup {boundary}
      /\ Last(seqs \cup {boundary}) \in 0..(MaxLog + Overclaim)
      /\ \A y \in seqs \cup {boundary} : y <= Last(seqs \cup {boundary})
  <2>1. seqs \cup {boundary} \in SUBSET (0..(MaxLog + Overclaim)) /\ seqs \cup {boundary} # {}
    BY <1>1, <1>4, TranscriptConstants
  <2>2. MaxLog + Overclaim \in Nat
    BY TranscriptConstants
  <2> QED BY <2>1, <2>2, LastIsHighest
<1>6. ASSUME seqs # {} PROVE boundary <= Len(log')
  <2>1. PICK i \in seqs : i >= boundary /\ i \in 1..Len(log')
    BY <1>4, <1>6
  <2> QED BY <1>1, <2>1
<1>7. ASSUME seqs = {} PROVE boundary = 0 \/ NothingNew'
  BY <1>1, <1>3, <1>7, TranscriptNumbers DEF Backed, NothingNew
<1>8. ASSUME NEW i \in 1..Len(log'), boundary < i, i <= Last(seqs \cup {boundary})
      PROVE  i \in seqs
  <2>1. i \in Nat /\ Last(seqs \cup {boundary}) # boundary
    BY <1>1, <1>8
  <2>2. PICK j \in seqs : j = Last(seqs \cup {boundary})
    BY <1>5, <2>1
  <2>3. i \in After(l, boundary)
    BY <1>1, <1>2, <1>4, <1>8, <2>1, <2>2
  <2> QED BY <1>8, <2>2, <2>3 DEF AskedTo
<1>9. AskedWell'
  BY <1>1, <1>3, <1>4, <1>6, <1>7, <1>8 DEF AskedWell, AskedTo
<1>10. job' \in Jobs
  BY <1>3, <1>4, <1>5 DEF Jobs, Modes, AskedTo, Seqs
<1> QED BY <1>9, <1>10

LEMMA TailAsked ==
  ASSUME NEW l \in Seq(Message), NEW mode \in {"auto", "manual"}
  PROVE  AskedTo(l, mode, After(l, boundary))
  BY DEF AskedTo

LEMMA NoJobIsJob ==
  /\ NoJob \in Jobs
  /\ \A m \in Modes : [NoJob EXCEPT !.mode = m] \in Jobs
  BY TranscriptConstants DEF NoJob, Jobs, Modes

LEMMA JobStays ==
  ASSUME TranscriptInv, TranscriptNext
  PROVE  AskedWell' /\ Covering' /\ job' \in Jobs
<1>1. /\ TranscriptTypeOK /\ HasRoom /\ Whole /\ AskedWell /\ Covering /\ Backed
      /\ log \in Seq(Message) /\ job \in Jobs /\ Len(log) <= MaxLog /\ Len(log) \in Nat
  BY TranscriptNumbers DEF TranscriptInv, Histories
<1>2. ASSUME pc' # "ask", pc' # "cover", job' \in Jobs PROVE AskedWell' /\ Covering' /\ job' \in Jobs
  BY <1>2 DEF AskedWell, Covering
<1>3. CASE Outside
  <2>1. pc' \notin {"ask", "cover"}
    BY <1>3, OutsideGoes
  <2>2. job' = job \/ job' = NoJob
    <3>1. LoopStarts \/ DeliverReport \/ ApprovalDecided \/ Restart => job' = job
      BY DEF LoopStarts, DeliverReport, ApprovalDecided, Restart
    <3>2. ManualCompactEnds \/ ProcessDies => job' = NoJob
      BY DEF ManualCompactEnds, ProcessDies
    <3>3. BeginRound => job' = job \/ job' = NoJob
      BY DEF BeginRound, Park
    <3>4. ToolsEnd => job' = job \/ job' = NoJob
      BY DEF ToolsEnd, Park
    <3> QED BY <1>3, <3>1, <3>2, <3>3, <3>4 DEF Outside
  <2> QED BY <1>1, <1>2, <2>1, <2>2, NoJobIsJob
<1>4. CASE Compacting
  <2>1. PICK ok \in BOOLEAN : /\ pc = "ask" /\ job.mode \in {"auto", "manual", "reactive"}
                              /\ AfterCompaction(ok)
    BY <1>1, <1>4, CompactingGoes
  <2>2. pc' \notin {"ask", "cover"}
    BY <2>1, WhereCompactionGoes
  <2>3. job' = NoJob \/ \E m \in Modes : job' = [NoJob EXCEPT !.mode = m]
    <3>1. "done" \in Modes /\ "failed" \in Modes
      BY DEF Modes
    <3>2. CASE job.mode = "manual"
      <4>1. job' = [NoJob EXCEPT !.mode = "done"] \/ job' = [NoJob EXCEPT !.mode = "failed"]
        BY <2>1, <3>2, WhereCompactionGoes
      <4> QED BY <3>1, <4>1
    <3>3. CASE job.mode # "manual"
      BY <2>1, <3>3, WhereCompactionGoes
    <3> QED BY <3>2, <3>3
  <2> QED BY <1>2, <2>2, <2>3, NoJobIsJob
<1>5. CASE Cover \/ Prepared \/ Retry \/ Corrected
  <2>1. pc' \notin {"ask", "cover"}
    BY <1>5 DEF Cover, Prepared, Retry, Corrected, Materialize, Send, Resend, Park
  <2>2. job' = job \/ job' = NoJob
    BY <1>5 DEF Cover, Prepared, Retry, Corrected, Park
  <2> QED BY <1>1, <1>2, <2>1, <2>2, NoJobIsJob
<1>6. CASE Prepare
  <2>1. UNCHANGED <<log, boundary, mem>>
    BY <1>6 DEF Prepare, durable
  <2>2. \/ pc' \notin {"ask", "cover"} /\ (job' = job \/ job' = NoJob)
        \/ pc' = "ask" /\ job' = Ask("auto", After(log, boundary))
    BY <1>6 DEF Prepare, Park, Send
  <2>3. CASE pc' = "ask" /\ job' = Ask("auto", After(log, boundary))
    <3>1. AskedTo(log, "auto", After(log, boundary))
      BY <1>1, TailAsked
    <3>2. AskedWell' /\ job' \in Jobs
      BY <1>1, <2>1, <2>3, <3>1, AskIsWell
    <3> QED BY <2>3, <3>2 DEF Covering
  <2> QED BY <1>1, <1>2, <2>2, <2>3, NoJobIsJob
<1>7. CASE PromptTooLong
  <2>1. UNCHANGED <<log, boundary, mem>> /\ pc = "call"
    BY <1>7 DEF PromptTooLong
  <2>2. Tolerated(log) = log
    BY <1>1, <2>1, WholeIsTolerated DEF Whole, Sending
  <2>3. \/ pc' \notin {"ask", "cover"} /\ (job' = job \/ job' = NoJob)
        \/ pc' = "ask" /\ job' = Ask("reactive", ReactiveHead(log))
    BY <1>7, <2>2 DEF PromptTooLong, Park
  <2>4. CASE pc' = "ask" /\ job' = Ask("reactive", ReactiveHead(log))
    <3>1. AskedTo(log, "reactive", ReactiveHead(log))
      BY <1>1, TranscriptNumbers, HeadHasNoGap DEF AskedTo
    <3>2. AskedWell' /\ job' \in Jobs
      BY <1>1, <2>1, <2>4, <3>1, AskIsWell
    <3> QED BY <2>4, <3>2 DEF Covering
  <2> QED BY <1>1, <1>2, <2>3, <2>4, NoJobIsJob
<1>8. CASE AgentAnswers
  <2>1. PICK compact \in BOOLEAN, ids \in SUBSET CallIds :
          /\ Grows(Use(ids))
          /\ compact => ids # {}
          /\ \/ compact /\ pc' = "ask" /\ job' = Ask("manual", After(Tolerated(log'), boundary))
             \/ pc' \notin {"ask", "cover"} /\ (job' = job \/ job' = NoJob)
    BY <1>1, <1>8, AnswerAppends DEF Park
  <2>2. CASE compact /\ pc' = "ask" /\ job' = Ask("manual", After(Tolerated(log'), boundary))
    <3>1. /\ Use(ids) \in Message /\ Use(ids).uses # {} /\ log' = Append(log, Use(ids))
          /\ UNCHANGED <<boundary, mem>>
      BY <2>1, <2>2, UseIsMessage DEF Grows
    <3>2. Tolerated(log') = log
      BY <1>1, <3>1, UseIsForgotten
    <3>3. Len(log') = Len(log) + 1 /\ log' \in Seq(Message)
      BY <1>1, <3>1, AppendAdds DEF Added
    <3>4. Len(log') <= MaxLog
      BY RoomStays DEF HasRoom
    <3>5. AskedTo(log, "manual", After(log, boundary))
      BY <1>1, TailAsked
    <3>6. AskedWell' /\ job' \in Jobs
      BY <1>1, <2>2, <3>1, <3>2, <3>3, <3>4, <3>5, AskIsWell
    <3> QED BY <2>2, <3>6 DEF Covering
  <2> QED BY <1>1, <1>2, <2>1, <2>2, NoJobIsJob
<1>9. CASE Build
  <2> DEFINE tail == After(log, boundary)
             cover == Coverage(log, tail)
  <2>1. \/ pc' \notin {"ask", "cover"} /\ job' = job
        \/ /\ pc' = "cover" /\ ~(cover <= boundary) /\ mem' = Memory(cover)
           /\ job' = [NoJob EXCEPT !.mode = "cover", !.through = cover]
    <3>1. CASE Estimate(mem, tail, {}) <= MaxInput
      BY <1>9, <3>1 DEF Build, Send
    <3>2. CASE ~(Estimate(mem, tail, {}) <= MaxInput) /\ cover <= boundary
      BY <1>9, <3>2 DEF Build, Send
    <3>3. CASE ~(Estimate(mem, tail, {}) <= MaxInput) /\ ~(cover <= boundary)
      BY <1>9, <3>3 DEF Build
    <3> QED BY <3>1, <3>2, <3>3
  <2>2. CASE /\ pc' = "cover" /\ ~(cover <= boundary) /\ mem' = Memory(cover)
             /\ job' = [NoJob EXCEPT !.mode = "cover", !.through = cover]
    <3>1. log' = log /\ boundary' = boundary /\ ~Torn(log)
      BY <1>1, <1>9 DEF Build, Whole, Sending
    <3>2. boundary \in Nat /\ tail = {i \in 1..Len(log) : i > boundary \/ (i = boundary /\ IsUse(log, i))}
      BY <1>1, TranscriptNumbers, TranscriptConstants, TailBehind
    <3>3. /\ cover \in 0..Len(log)
          /\ \A i \in tail : Troubled(log, i) => cover < i
      <4>1. tail \in SUBSET (1..Len(log))
        BY <3>2
      <4> HIDE DEF tail
      <4> QED BY <1>1, <3>1, <4>1, CoversNoTrouble
    <3> HIDE DEF tail, cover
    <3>4. mem'.through = cover /\ job'.through = cover
      BY <2>2 DEF Memory, NoJob
    <3>5. cover \in 0..(MaxLog + Overclaim)
      BY <1>1, <3>3, TranscriptConstants
    <3>6. job' \in Jobs
      BY <2>2, <3>5 DEF NoJob, Jobs, Modes
    <3>7. ASSUME NEW i \in 1..Len(log), boundary < i, i <= cover PROVE ~Troubled(log, i)
      <4>1. i \in tail
        BY <3>2, <3>7
      <4> QED BY <1>1, <3>3, <3>7, <4>1
    <3>8. Covering'
      BY <1>1, <2>2, <3>1, <3>2, <3>3, <3>4, <3>7 DEF Covering, Troubled
    <3> QED BY <2>2, <3>6, <3>8 DEF AskedWell
  <2> QED BY <1>1, <1>2, <2>1, <2>2
<1> QED BY <1>3, <1>4, <1>5, <1>6, <1>7, <1>8, <1>9
        DEF TranscriptNext, LoopStep, Outside, Compacting

-----------------------------------------------------------------------------
(* Memory, boundary and what they hide. *)

Leftovers == [reports: 0..MaxReports, resumes: 0..MaxResumes, crashes: 0..MaxProcessCrashes]

LEMMA LeftStays ==
  ASSUME TranscriptInv, TranscriptNext
  PROVE  /\ left \in Leftovers /\ left' \in Leftovers
         /\ left'.crashes <= left.crashes
         /\ ProcessDies => left'.crashes < left.crashes
         /\ Crashed => Crashed'
<1> USE TranscriptConstants
<1>1. left \in Leftovers /\ AskedWell
  BY DEF TranscriptInv, Histories, Leftovers
<1>2. CASE ProcessDies
  <2>1. left.crashes > 0 /\ left' = [left EXCEPT !.crashes = @ - 1]
    BY <1>2 DEF ProcessDies
  <2> QED BY <1>1, <2>1 DEF Leftovers, Crashed
<1>3. CASE LoopStarts
  <2>1. left' = left \/ (left.resumes > 0 /\ left' = [left EXCEPT !.resumes = @ - 1])
    BY <1>3 DEF LoopStarts
  <2>2. ~ProcessDies
    BY <1>3 DEF LoopStarts, ProcessDies
  <2> QED BY <1>1, <2>1, <2>2 DEF Leftovers, Crashed
<1>4. CASE DeliverReport
  <2>1. left.reports > 0 /\ left' = [left EXCEPT !.reports = @ - 1]
    BY <1>4 DEF DeliverReport
  <2>2. ~ProcessDies
    BY <1>4 DEF DeliverReport, ProcessDies
  <2> QED BY <1>1, <2>1, <2>2 DEF Leftovers, Crashed
<1>5. ASSUME left' = left, ~ProcessDies
      PROVE  /\ left' \in Leftovers /\ left'.crashes <= left.crashes /\ (Crashed => Crashed')
             /\ ProcessDies => left'.crashes < left.crashes
  BY <1>1, <1>5 DEF Leftovers, Crashed
<1>6. CASE Compacting
  BY <1>1, <1>5, <1>6, CompactingGoes, WhereCompactionGoes DEF ProcessDies
<1>7. CASE BeginRound \/ ToolsEnd \/ ManualCompactEnds \/ ApprovalDecided \/ Restart
  <2>1. left' = left /\ pc' # "down"
    BY <1>7, ZenonT(40) DEF BeginRound, ToolsEnd, ManualCompactEnds, ApprovalDecided, Restart, Park
  <2> QED BY <1>5, <2>1 DEF ProcessDies
<1>8. CASE Prepare \/ Build \/ Cover \/ Prepared \/ PromptTooLong \/ Retry \/ Corrected \/ AgentAnswers
  <2>1. left' = left
    BY <1>8 DEF Prepare, Build, Cover, Prepared, PromptTooLong, Retry, Corrected, AgentAnswers
  <2>2. pc' # "down"
    BY <1>8 DEF Prepare, Build, Cover, Prepared, PromptTooLong, Retry, Corrected, AgentAnswers,
                Send, Resend, Materialize, Park
  <2> QED BY <1>5, <2>1, <2>2 DEF ProcessDies
<1> QED BY <1>1, <1>2, <1>3, <1>4, <1>6, <1>7, <1>8
        DEF TranscriptNext, LoopStep, Compacting

\* The steps that leave memory and boundary alone.
LEMMA CoverageKept ==
  ASSUME TranscriptNext, ~Build, ~Cover, ~CompactorAnswers
  PROVE  UNCHANGED <<boundary, mem, seen>>
<1>1. CASE LoopStarts \/ DeliverReport \/ BeginRound \/ ToolsEnd \/ ManualCompactEnds
           \/ ApprovalDecided \/ ProcessDies \/ Restart
  BY <1>1 DEF LoopStarts, DeliverReport, BeginRound, ToolsEnd, ManualCompactEnds,
              ApprovalDecided, ProcessDies, Restart, durable, histories
<1>2. CASE CompactorIdle \/ CompactorFails
  BY <1>2 DEF CompactorIdle, CompactorFails, durable, histories
<1>3. CASE Prepare \/ Prepared \/ PromptTooLong \/ Retry \/ Corrected \/ AgentAnswers
  BY <1>3 DEF Prepare, Prepared, PromptTooLong, Retry, Corrected, AgentAnswers, durable, histories
<1> QED BY <1>1, <1>2, <1>3 DEF TranscriptNext, LoopStep

\* The first commit of the deterministic compaction.
LEMMA BuildWrites ==
  ASSUME TranscriptInv, Build
  PROVE  /\ log' = log /\ UNCHANGED <<boundary, seen, trouble, windows>> /\ Len(log) \in Nat
         /\ \/ mem' = mem
            \/ \E c \in 1..Len(log) :
                 /\ mem' = Memory(c) /\ c > boundary /\ pc' = "cover"
<1>1. /\ TranscriptTypeOK /\ Whole /\ log \in Seq(Message) /\ Len(log) \in Nat /\ boundary \in Nat
  BY TranscriptConstants, TranscriptNumbers DEF TranscriptInv
<1> DEFINE tail == After(log, boundary)
           cover == Coverage(log, tail)
<1>2. log' = log /\ UNCHANGED <<boundary, seen, trouble, windows>> /\ ~Torn(log)
  BY <1>1 DEF Build, Whole, Sending, histories
<1>3. \/ mem' = mem
      \/ mem' = Memory(cover) /\ ~(cover <= boundary) /\ pc' = "cover"
  <2>1. CASE Estimate(mem, tail, {}) <= MaxInput
    BY <2>1 DEF Build
  <2>2. CASE ~(Estimate(mem, tail, {}) <= MaxInput) /\ cover <= boundary
    BY <2>2 DEF Build
  <2>3. CASE ~(Estimate(mem, tail, {}) <= MaxInput) /\ ~(cover <= boundary)
    BY <2>3 DEF Build
  <2> QED BY <2>1, <2>2, <2>3
<1>4. cover \in 0..Len(log)
  <2>1. tail \in SUBSET (1..Len(log))
    BY DEF After
  <2> HIDE DEF tail
  <2> QED BY <1>1, <1>2, <2>1, CoversNoTrouble
<1> HIDE DEF tail, cover
<1>5. ~(cover <= boundary) => cover \in 1..Len(log) /\ cover > boundary
  BY <1>1, <1>4
<1> QED BY <1>1, <1>2, <1>3, <1>5

\* A compactor's memory and boundary, in one commit.
LEMMA CompactorWrites ==
  ASSUME TranscriptInv, CompactorAnswers
  PROVE  /\ pc = "ask" /\ log' = log /\ UNCHANGED <<trouble, left, rounds>>
         /\ job.through \in 0..Len(log)
         /\ job.through \in Nat /\ boundary <= job.through /\ \A y \in job.seqs : y <= job.through
         /\ seen' = Last(job.seqs \cup {seen})
         /\ \E through \in 1..(job.through + Overclaim),
               safe \in SUBSET (mem.safe \cup MustPreserve(job.seqs)) :
              /\ through >= job.through /\ MustPreserve(job.seqs) \subseteq safe
              /\ mem' = [rev |-> mem.rev + 1, through |-> through, shown |-> job.through,
                         safe |-> safe]
              /\ boundary' = through
              /\ through > job.through => "overclaim" \in windows'
              /\ ~(mem.safe \subseteq safe) => "forgotten" \in windows'
              /\ job.seqs = {} => "overclaim" \in windows'
              /\ windows' \subseteq windows \cup {"overclaim", "forgotten"}
<1>1. /\ TranscriptTypeOK /\ AskedWell /\ boundary \in Nat /\ Len(log) \in Nat
  BY TranscriptConstants, TranscriptNumbers DEF TranscriptInv
<1>2. /\ pc = "ask" /\ log' = log /\ UNCHANGED <<trouble, left, rounds>> /\ ~NothingNew
      /\ seen' = Last(job.seqs \cup {seen})
  BY DEF CompactorAnswers
<1>3. /\ job.seqs \subseteq 1..Len(log) /\ job.through = Last(job.seqs \cup {boundary})
      /\ (job.seqs # {} => boundary <= Len(log)) /\ (job.seqs = {} => boundary = 0)
  BY <1>1, <1>2 DEF AskedWell
<1>4. job.seqs \cup {boundary} \in SUBSET (0..Len(log)) /\ job.seqs \cup {boundary} # {}
  BY <1>1, <1>3
<1>5. /\ job.through \in job.seqs \cup {boundary} /\ job.through \in 0..Len(log)
      /\ \A y \in job.seqs \cup {boundary} : y <= job.through
  BY <1>1, <1>3, <1>4, LastIsHighest
<1>6. job.seqs = {} => job.through = 0
  BY <1>3, <1>5
<1>7. PICK through \in 1..(job.through + Overclaim),
           safe \in SUBSET (mem.safe \cup MustPreserve(job.seqs)) :
         /\ Valid(through) /\ Preserved(safe)
         /\ Commit([rev |-> mem.rev + 1, through |-> through, shown |-> job.through,
                    safe |-> safe])
         /\ windows' = windows
              \cup (IF through > job.through THEN {"overclaim"} ELSE {})
              \cup (IF ~(mem.safe \subseteq safe) THEN {"forgotten"} ELSE {})
  BY DEF CompactorAnswers
<1>8. through \in Nat /\ through >= 1
  BY <1>1, <1>5, <1>7, TranscriptConstants
<1>9. /\ through >= job.through /\ MustPreserve(job.seqs) \subseteq safe
      /\ mem' = [rev |-> mem.rev + 1, through |-> through, shown |-> job.through, safe |-> safe]
      /\ boundary' = through
  BY <1>7 DEF Commit, Valid, Preserved
<1>10. job.seqs = {} => through > job.through
  BY <1>6, <1>8
<1>11. /\ through > job.through => "overclaim" \in windows'
       /\ ~(mem.safe \subseteq safe) => "forgotten" \in windows'
       /\ windows' \subseteq windows \cup {"overclaim", "forgotten"}
  BY <1>7
<1>12. job.seqs = {} => "overclaim" \in windows'
  BY <1>10, <1>11
<1>13. job.through \in Nat /\ boundary <= job.through /\ \A y \in job.seqs : y <= job.through
  BY <1>1, <1>5
<1> QED BY <1>2, <1>5, <1>7, <1>9, <1>11, <1>12, <1>13

LEMMA BackedStays ==
  ASSUME TranscriptInv, TranscriptNext
  PROVE  Backed'
<1>1. /\ TranscriptTypeOK /\ Backed /\ Covering /\ Len(log) \in Nat /\ Len(log') \in Nat
      /\ Len(log) <= Len(log') /\ boundary \in Nat /\ mem.through \in Nat /\ mem.rev \in Nat
  BY LengthGrows, TranscriptConstants, TranscriptNumbers DEF TranscriptInv
<1>2. ~Through({"overclaim"})' => ~Through({"overclaim"})
  BY WindowsGrow DEF Through
<1>3. CASE ~Build /\ ~Cover /\ ~CompactorAnswers
  <2>1. UNCHANGED <<boundary, mem>>
    BY <1>3, CoverageKept
  <2>2. ASSUME mem.through > boundary PROVE Crashed'
    <3>1. CASE pc = "cover"
      <4>1. ProcessDies
        <5>1. ~Compacting
          BY <3>1, CompactingGoes DEF TranscriptInv
        <5> QED BY <1>3, <3>1, <5>1
                DEF TranscriptNext, LoopStep, Compacting, LoopStarts, DeliverReport, BeginRound,
                    Prepare, Prepared, PromptTooLong, Retry, Corrected, AgentAnswers, ToolsEnd,
                    ManualCompactEnds, ApprovalDecided, Restart
      <4>2. /\ left'.crashes < left.crashes /\ left.crashes \in 0..MaxProcessCrashes
            /\ left'.crashes \in 0..MaxProcessCrashes
        BY <4>1, LeftStays DEF Leftovers
      <4> QED BY <4>2, TranscriptConstants DEF Crashed
    <3>2. CASE Crashed
      BY <3>2, LeftStays
    <3> QED BY <1>1, <2>2, <3>1, <3>2 DEF Backed
  <2> QED BY <1>1, <1>2, <2>1, <2>2 DEF Backed
<1>4. CASE Build
  <2>1. /\ log' = log /\ boundary' = boundary
        /\ \/ mem' = mem
           \/ \E c \in 1..Len(log) : mem' = Memory(c) /\ c > boundary /\ pc' = "cover"
    BY <1>4, BuildWrites
  <2>2. CASE mem' = mem
    <3>1. mem.through > boundary => Crashed'
      BY <1>1, <1>4, LeftStays DEF Build, Backed
    <3> QED BY <1>1, <1>2, <2>1, <2>2, <3>1 DEF Backed
  <2>3. CASE \E c \in 1..Len(log) : mem' = Memory(c) /\ c > boundary /\ pc' = "cover"
    <3>1. PICK c \in 1..Len(log) : mem' = Memory(c) /\ c > boundary /\ pc' = "cover"
      BY <2>3
    <3>2. mem'.through = c /\ mem'.shown = c /\ mem'.rev = mem.rev + 1
      BY <3>1 DEF Memory
    <3> QED BY <1>1, <2>1, <3>1, <3>2 DEF Backed
  <2> QED BY <2>1, <2>2, <2>3
<1>5. CASE Cover
  <2>1. pc = "cover" /\ log' = log /\ mem' = mem /\ boundary' = job.through
    BY <1>5 DEF Cover
  <2>2. boundary' = mem.through
    BY <1>1, <2>1 DEF Covering
  <2> QED BY <1>1, <1>2, <2>1, <2>2 DEF Backed
<1>6. CASE CompactorAnswers
  <2>1. PICK through \in 1..(job.through + Overclaim),
             safe \in SUBSET (mem.safe \cup MustPreserve(job.seqs)) :
          /\ mem' = [rev |-> mem.rev + 1, through |-> through, shown |-> job.through,
                     safe |-> safe]
          /\ boundary' = through /\ through >= job.through
          /\ through > job.through => "overclaim" \in windows'
          /\ job.seqs = {} => "overclaim" \in windows'
    BY <1>6, CompactorWrites
  <2>2. job.through \in Nat /\ log' = log /\ job.through \in 0..Len(log)
    BY <1>6, CompactorWrites
  <2>3. through \in Nat
    BY <2>1, <2>2, TranscriptConstants
  <2>4. /\ mem'.rev = mem.rev + 1 /\ mem'.through = through /\ mem'.shown = job.through
    BY <2>1
  <2> QED BY <1>1, <2>1, <2>2, <2>3, <2>4 DEF Backed, Through
<1> QED BY <1>3, <1>4, <1>5, <1>6

\* The boundary only grows, and so does the memory until a crash has come
\* between its two commits.
LEMMA BoundaryGrows ==
  ASSUME TranscriptInv, TranscriptNext
  PROVE  /\ boundary' >= boundary
         /\ left.crashes = MaxProcessCrashes => mem'.through >= mem.through
<1>1. /\ TranscriptTypeOK /\ Backed /\ Covering /\ Len(log) \in Nat /\ boundary \in Nat
      /\ mem.through \in Nat /\ left \in Leftovers
  BY TranscriptConstants, TranscriptNumbers, LeftStays DEF TranscriptInv
<1>2. CASE ~Build /\ ~Cover /\ ~CompactorAnswers
  BY <1>1, <1>2, CoverageKept
<1>3. ASSUME left.crashes = MaxProcessCrashes, pc # "cover" PROVE mem.through = boundary
  BY <1>1, <1>3, TranscriptConstants DEF Backed, Crashed, Leftovers
<1>4. CASE Build
  <2>1. /\ boundary' = boundary /\ pc # "cover"
        /\ mem' = mem \/ \E c \in 1..Len(log) : mem' = Memory(c) /\ c > boundary
    BY <1>4, BuildWrites DEF Build
  <2> QED BY <1>1, <1>3, <2>1 DEF Memory
<1>5. CASE Cover
  BY <1>1, <1>5 DEF Cover, Covering
<1>6. CASE CompactorAnswers
  <2>1. PICK through \in 1..(job.through + Overclaim) :
          mem'.through = through /\ boundary' = through /\ through >= job.through
    BY <1>6, CompactorWrites
  <2>2. job.through \in Nat /\ boundary <= job.through /\ pc # "cover"
    BY <1>6, CompactorWrites
  <2>3. through \in Nat /\ through >= boundary
    BY <1>1, <2>1, <2>2, TranscriptConstants
  <2> QED BY <1>1, <1>3, <2>1, <2>2, <2>3
<1> QED BY <1>2, <1>4, <1>5, <1>6

LEMMA SurvivesStays ==
  ASSUME TranscriptInv, TranscriptNext
  PROVE  Survives' /\ seen' \in Seqs \cup {0}
<1> USE TranscriptConstants
<1>1. /\ TranscriptTypeOK /\ Backed /\ Covering /\ Survives /\ AskedWell /\ seen \in Seqs \cup {0}
      /\ Len(log) \in Nat /\ Len(log) <= MaxLog /\ boundary \in Nat /\ mem.through \in Nat
      /\ log \in Seq(Message)
  BY TranscriptNumbers DEF TranscriptInv, Histories
<1>2. ~Through({"overclaim"})' => ~Through({"overclaim"})
  BY WindowsGrow DEF Through
<1>3. CASE ~Build /\ ~Cover /\ ~CompactorAnswers
  <2>1. boundary' = boundary /\ seen' = seen
    BY <1>3, CoverageKept
  <2>2. ASSUME ~Through({"overclaim"})', NEW i \in 1..Len(log'), i <= boundary,
               Troubled(log', i)
        PROVE  i <= seen
    <3>1. boundary <= Len(log)
      BY <1>1, <1>2, <2>2 DEF Backed
    <3>2. i \in 1..Len(log)
      BY <1>1, <2>2, <3>1, LengthGrows
    <3>3. log'[i] = log[i]
      BY <3>2, LengthGrows
    <3> QED BY <1>1, <1>2, <2>2, <3>2, <3>3 DEF Survives, Troubled
  <2> QED BY <1>1, <2>1, <2>2 DEF Survives
<1>4. CASE Build
  BY <1>1, <1>2, <1>4, BuildWrites DEF Survives, Troubled
<1>5. CASE Cover
  <2>1. /\ pc = "cover" /\ log' = log /\ boundary' = job.through /\ seen' = seen
    BY <1>5 DEF Cover, histories
  <2>2. ASSUME ~Through({"overclaim"}), NEW i \in 1..Len(log), i <= job.through, Troubled(log, i)
        PROVE  i <= seen
    <3>1. i <= boundary
      BY <1>1, <2>1, <2>2 DEF Covering
    <3> QED BY <1>1, <2>2, <3>1 DEF Survives
  <2> QED BY <1>1, <1>2, <2>1, <2>2 DEF Survives, Troubled
<1>6. CASE CompactorAnswers
  <2>1. PICK through \in 1..(job.through + Overclaim) :
          /\ boundary' = through /\ through >= job.through
          /\ through > job.through => "overclaim" \in windows'
          /\ job.seqs = {} => "overclaim" \in windows'
    BY <1>6, CompactorWrites
  <2>2. /\ job.through \in Nat /\ log' = log /\ job.through \in 0..Len(log)
        /\ seen' = Last(job.seqs \cup {seen}) /\ pc = "ask"
    BY <1>6, CompactorWrites
  <2>3. job.seqs \subseteq 1..Len(log) /\ job.through = Last(job.seqs \cup {boundary})
    BY <1>1, <2>2 DEF AskedWell
  <2>4. job.seqs \cup {seen} \in SUBSET (0..MaxLog) /\ job.seqs \cup {seen} # {}
    BY <1>1, <2>3 DEF Seqs
  <2>5. seen' \in job.seqs \cup {seen} /\ \A y \in job.seqs \cup {seen} : y <= seen'
    BY <2>2, <2>4, LastIsHighest
  <2>6. seen' \in Seqs \cup {0}
    BY <1>1, <2>3, <2>5 DEF Seqs
  <2>7. ASSUME ~Through({"overclaim"})', NEW i \in 1..Len(log), i <= boundary', Troubled(log, i)
        PROVE  i <= seen'
    <3>1. job.seqs # {} /\ i <= job.through
      BY <2>1, <2>2, <2>7 DEF Through
    <3>2. CASE boundary < i
      <4>1. i \in job.seqs
        BY <1>1, <2>2, <3>1, <3>2 DEF AskedWell
      <4> QED BY <2>5, <4>1
    <3>3. CASE ~(boundary < i)
      <4>1. i <= seen
        BY <1>1, <1>2, <2>7, <3>3 DEF Survives
      <4>2. seen <= seen'
        BY <2>5
      <4>3. seen \in Nat /\ seen' \in Nat
        BY <1>1, <2>6 DEF Seqs
      <4>4. i \in Nat
        BY <1>1
      <4> QED BY <4>1, <4>2, <4>3, <4>4
    <3> QED BY <3>2, <3>3
  <2> QED BY <2>2, <2>6, <2>7 DEF Survives, Troubled
<1> QED BY <1>3, <1>4, <1>5, <1>6

\* Every call in trouble can be seen: in the memory, or behind the boundary.
LEMMA TroubleStays ==
  ASSUME TranscriptInv, TranscriptNext
  PROVE  TroubleKept'
<1>1. /\ TranscriptTypeOK /\ Backed /\ TroubleKept /\ AskedWell /\ AskedLast /\ HasRoom /\ Whole
      /\ UsesAreBare /\ Stopping
      /\ Len(log) \in Nat /\ boundary \in Nat /\ log \in Seq(Message)
  BY TranscriptConstants, TranscriptNumbers DEF TranscriptInv
<1> DEFINE W == {"overclaim", "forgotten"}
           Visible(c) == c \in mem.safe \/ \E i \in 1..Len(log) : i > boundary /\ c \in log[i].bad
<1>2. SUFFICES ASSUME windows' \cap W = {}, ~Spoiled'
               PROVE  \A c \in trouble' : Visible(c)'
  BY DEF TroubleKept, Through
<1>3. windows \cap W = {} /\ ~Through({"overclaim"})
  BY <1>2, WindowsGrow DEF Through
<1>4. Spoiled \/ \A c \in trouble : Visible(c)
  BY <1>1, <1>3 DEF TroubleKept, Through
<1>5. boundary <= Len(log)
  BY <1>1, <1>3, TranscriptNumbers DEF Backed
\* A call that could be seen still can, when messages are only appended.
<1>6. ASSUME NEW c, Visible(c), UNCHANGED <<boundary, mem>> PROVE Visible(c)'
  <2>1. CASE c \in mem.safe
    BY <1>6, <2>1
  <2>2. CASE c \notin mem.safe
    <3>1. PICK i \in 1..Len(log) : i > boundary /\ c \in log[i].bad
      BY <1>6, <2>2
    <3>2. i \in 1..Len(log') /\ log'[i] = log[i]
      BY LengthGrows
    <3> QED BY <1>6, <3>1, <3>2
  <2> QED BY <2>1, <2>2
<1>7. ASSUME trouble' \subseteq trouble, ~Spoiled, UNCHANGED <<boundary, mem>>
      PROVE  \A c \in trouble' : Visible(c)'
  BY <1>4, <1>6, <1>7
<1>8. CASE ToolsEnd
  <2>1. /\ UNCHANGED <<boundary, mem>> /\ Asking /\ pc' \in {"top", "idle"} /\ log # <<>>
        /\ IsUse(log, Len(log))
    BY <1>1, <1>8 DEF ToolsEnd, Asking, Park, AskedLast
  <2>2. ~Asking' /\ ~Torn(log')
    BY <1>2, <2>1 DEF Asking, Spoiled
  <2>3. ~(log' = log)
    BY <1>1, <2>1, <2>2, OpenIsTorn
  <2>4. PICK m \in Message : /\ Grows(m)
                             /\ \A c \in trouble' : c \in trouble \/ c \in m.bad
    BY <1>1, <1>8, <2>3, ToolsEndAppends
  <2>5. /\ Len(log') = Len(log) + 1 /\ log'[Len(log) + 1] = m
    BY <1>1, <2>4, AppendAdds DEF Grows, Added
  <2>6. ASSUME NEW c \in m.bad PROVE Visible(c)'
    <3>1. Len(log) + 1 \in 1..Len(log') /\ Len(log) + 1 > boundary' /\ c \in log'[Len(log) + 1].bad
      BY <1>1, <1>5, <2>1, <2>5
    <3> QED BY <3>1
  <2>7. ASSUME NEW c \in trouble PROVE Visible(c)'
    <3>1. Visible(c)
      BY <1>4, <2>1 DEF Spoiled
    <3> QED BY <1>6, <2>1, <3>1
  <2> QED BY <2>4, <2>6, <2>7
<1>9. CASE LoopStarts \/ DeliverReport \/ BeginRound
  <2>1. ~Asking /\ UNCHANGED <<boundary, mem, seen, trouble>> /\ pc' \in {"top", "prepare", "idle"}
    BY <1>9 DEF LoopStarts, DeliverReport, BeginRound, Asking, histories, Park
  <2>2. log' = log \/ \E c \in BOOLEAN : log' = Append(log, Text("user", c))
    BY <1>9, TextAppended
  <2>3. Torn(log) => Torn(log')
    BY <1>1, <2>2, TextIsMessage, StaysTorn
  <2>4. ~Spoiled
    BY <1>2, <2>1, <2>3 DEF Spoiled, Asking
  <2> QED BY <1>7, <2>1, <2>4
<1>10. CASE ApprovalDecided
  <2>1. /\ pc = "idle" /\ trouble' \subseteq trouble
        /\ \/ log' = log /\ UNCHANGED <<boundary, mem, seen>>
           \/ /\ ~IsUse(log, Len(log)) /\ log # <<>>
              /\ \E m \in Message : Grows(m) /\ m.uses = {}
    BY <1>1, <1>10, ApprovalAppends
  <2>2. UNCHANGED <<boundary, mem>> /\ pc' \in {"top", "idle"}
    BY <1>10 DEF ApprovalDecided
  <2>3. Torn(log) => Torn(log')
    BY <1>1, <2>1, StaysTorn DEF Grows
  <2>4. ~Spoiled
    BY <1>2, <2>1, <2>2, <2>3 DEF Spoiled, Asking
  <2> QED BY <1>7, <2>1, <2>2, <2>4
<1>11. CASE ManualCompactEnds
  <2>1. ~Spoiled /\ UNCHANGED <<boundary, mem, trouble>>
    BY <1>11 DEF ManualCompactEnds, Spoiled, Asking
  <2> QED BY <1>7, <2>1
<1>12. CASE AgentAnswers \/ Prepared \/ Retry
  <2>1. Sending /\ UNCHANGED <<boundary, mem, trouble>>
    BY <1>12 DEF AgentAnswers, Prepared, Retry, Sending, durable
  <2> QED BY <1>1, <1>7, <2>1 DEF Spoiled, Whole
<1>13. CASE ProcessDies \/ Restart \/ Prepare \/ PromptTooLong \/ Corrected
  <2>1. UNCHANGED <<log, boundary, mem, trouble>>
    BY <1>13 DEF ProcessDies, Restart, Prepare, PromptTooLong, Corrected, durable
  <2>2. ~Asking'
    BY <1>13 DEF ProcessDies, Restart, Prepare, PromptTooLong, Corrected, Asking, Send, Park, Ask
  <2> QED BY <1>2, <1>7, <2>1, <2>2 DEF Spoiled
<1>14. CASE CompactorIdle \/ CompactorFails
  <2>1. UNCHANGED <<log, boundary, mem, trouble>>
    BY <1>14 DEF CompactorIdle, CompactorFails, durable
  <2>2. Asking => ~Spoiled
    BY DEF Spoiled
  <2>3. ~Asking => Sending
    BY <1>1, <1>14, CompactingGoes DEF Compacting, Asking, Sending
  <2> QED BY <1>1, <1>7, <2>1, <2>2, <2>3 DEF Spoiled, Whole
<1>15. CASE Build
  <2>1. /\ log' = log /\ boundary' = boundary /\ trouble' = trouble
        /\ mem' = mem \/ \E c \in 1..Len(log) : mem' = Memory(c)
    BY <1>15, BuildWrites
  <2>2. CASE mem' = mem
    BY <1>1, <1>7, <1>15, <2>1, <2>2 DEF Build, Spoiled, Whole, Sending
  <2>3. CASE \E c \in 1..Len(log) : mem' = Memory(c)
    BY <2>1, <2>3 DEF Memory, Fields
  <2> QED BY <2>1, <2>2, <2>3
<1>16. CASE Cover
  <2>1. /\ pc = "cover" /\ log' = log /\ boundary' = job.through /\ mem' = mem /\ trouble' = trouble
    BY <1>16 DEF Cover
  <2>2. ~Spoiled /\ Covering
    BY <1>1, <2>1 DEF Spoiled, Whole, Sending, TranscriptInv
  <2>3. ASSUME NEW c \in trouble, c \notin mem.safe PROVE Visible(c)'
    <3>1. PICK i \in 1..Len(log) : i > boundary /\ c \in log[i].bad
      BY <1>4, <2>2, <2>3
    <3>2. ~(i <= job.through)
      BY <2>1, <2>2, <3>1 DEF Covering, Troubled
    <3>3. i > job.through
      BY <1>1, <2>1, <2>2, <3>2, TranscriptNumbers DEF Covering
    <3> QED BY <2>1, <3>1, <3>3
  <2> QED BY <2>1, <2>3
<1>17. CASE CompactorAnswers
  <2>1. PICK through \in 1..(job.through + Overclaim),
             safe \in SUBSET (mem.safe \cup MustPreserve(job.seqs)) :
          /\ through >= job.through /\ MustPreserve(job.seqs) \subseteq safe
          /\ mem' = [rev |-> mem.rev + 1, through |-> through, shown |-> job.through,
                     safe |-> safe]
          /\ boundary' = through
          /\ through > job.through => "overclaim" \in windows'
          /\ ~(mem.safe \subseteq safe) => "forgotten" \in windows'
    BY <1>17, CompactorWrites
  <2>2. job.through \in Nat /\ log' = log /\ trouble' = trouble /\ pc = "ask"
    BY <1>17, CompactorWrites
  <2>3. boundary' = job.through /\ mem.safe \subseteq safe /\ mem'.safe = safe
    BY <1>2, <2>1, <2>2, TranscriptConstants
  <2>4. ~Spoiled
    <3>1. Asking \/ Sending
      BY <1>1, <2>2 DEF Asking, Sending, AskedWell
    <3> QED BY <1>1, <3>1 DEF Spoiled, Whole
  <2>5. ASSUME NEW c \in trouble, c \notin safe PROVE Visible(c)'
    <3>1. c \notin mem.safe
      BY <2>3, <2>5
    <3>2. PICK i \in 1..Len(log) : i > boundary /\ c \in log[i].bad
      BY <1>4, <2>4, <3>1
    <3>3. i \notin job.seqs
      BY <2>1, <2>5, <3>2 DEF MustPreserve
    <3>4. ~(i <= job.through)
      BY <1>1, <2>2, <3>2, <3>3 DEF AskedWell
    <3>5. i > job.through
      BY <1>1, <2>2, <3>4
    <3> QED BY <2>2, <2>3, <3>2, <3>5
  <2> QED BY <2>2, <2>3, <2>5
<1> QED BY <1>8, <1>9, <1>10, <1>11, <1>12, <1>13, <1>14, <1>15, <1>16, <1>17
        DEF TranscriptNext, LoopStep

-----------------------------------------------------------------------------
(* Types, the breaker and the ends of a loop. *)

LEMMA CoverageTyped ==
  ASSUME TranscriptInv, TranscriptNext
  PROVE  /\ boundary' \in 0..(MaxLog + Overclaim)
         /\ mem' \in [rev: Nat, through: 0..(MaxLog + Overclaim), shown: 0..MaxLog,
                      safe: SUBSET CallIds]
<1> USE TranscriptConstants
<1> DEFINE Memories == [rev: Nat, through: 0..(MaxLog + Overclaim), shown: 0..MaxLog,
                        safe: SUBSET CallIds]
<1>1. /\ TranscriptTypeOK /\ Covering /\ AskedWell /\ boundary \in 0..(MaxLog + Overclaim)
      /\ mem \in Memories /\ mem.rev \in Nat /\ mem.safe \in SUBSET CallIds
      /\ trouble \in SUBSET CallIds
      /\ mem.through \in 0..(MaxLog + Overclaim) /\ Len(log) \in Nat /\ Len(log) <= MaxLog
      /\ log \in Seq(Message)
  BY TranscriptNumbers DEF TranscriptInv, TranscriptTypeOK
<1>2. CASE ~Build /\ ~Cover /\ ~CompactorAnswers
  BY <1>1, <1>2, CoverageKept
<1>3. CASE Build
  <2>1. boundary' = boundary /\ (mem' = mem \/ \E c \in 1..Len(log) : mem' = Memory(c))
    BY <1>3, BuildWrites
  <2>2. ASSUME NEW c \in 1..Len(log), mem' = Memory(c) PROVE mem' \in Memories
    <3>1. c \in 0..MaxLog /\ c \in 0..(MaxLog + Overclaim) /\ mem.rev + 1 \in Nat
      BY <1>1
    <3> QED BY <1>1, <2>2, <3>1 DEF Memory, Fields
  <2> QED BY <1>1, <2>1, <2>2
<1>4. CASE Cover
  BY <1>1, <1>4 DEF Cover, Covering
<1>5. CASE CompactorAnswers
  <2>1. PICK through \in 1..(job.through + Overclaim),
             safe \in SUBSET (mem.safe \cup MustPreserve(job.seqs)) :
          /\ mem' = [rev |-> mem.rev + 1, through |-> through, shown |-> job.through,
                     safe |-> safe]
          /\ boundary' = through
    BY <1>5, CompactorWrites
  <2>2. job.through \in 0..Len(log) /\ pc = "ask"
    BY <1>5, CompactorWrites
  <2>3. through \in 0..(MaxLog + Overclaim) /\ job.through \in 0..MaxLog /\ mem.rev + 1 \in Nat
    BY <1>1, <2>1, <2>2
  <2>4. MustPreserve(job.seqs) \subseteq CallIds
    <3>1. ASSUME NEW i \in job.seqs PROVE log[i].bad \subseteq CallIds
      <4>1. i \in 1..Len(log)
        BY <1>1, <2>2 DEF AskedWell
      <4>2. log[i] \in Message
        BY <1>1, <4>1, ElementOfSeq
      <4> QED BY <4>2 DEF Message
    <3> QED BY <3>1 DEF MustPreserve
  <2>5. safe \in SUBSET CallIds
    BY <1>1, <2>1, <2>4
  <2> QED BY <2>1, <2>3, <2>5
<1> QED BY <1>2, <1>3, <1>4, <1>5

\* The steps that leave the breaker alone.
LEMMA BreakerKept ==
  ASSUME TranscriptNext, ~CompactorAnswers, ~CompactorFails, ~PromptTooLong
  PROVE  UNCHANGED <<brk, failRow, reacted>>
<1>1. CASE LoopStarts \/ DeliverReport \/ BeginRound \/ ToolsEnd \/ ManualCompactEnds
           \/ ApprovalDecided \/ ProcessDies \/ Restart \/ CompactorIdle
  BY <1>1 DEF LoopStarts, DeliverReport, BeginRound, ToolsEnd, ManualCompactEnds,
              ApprovalDecided, ProcessDies, Restart, CompactorIdle, durable, histories
<1>2. CASE Prepare \/ Build \/ Cover \/ Prepared \/ Retry \/ Corrected \/ AgentAnswers
  BY <1>2 DEF Prepare, Build, Cover, Prepared, Retry, Corrected, AgentAnswers, durable, histories
<1> QED BY <1>1, <1>2 DEF TranscriptNext, LoopStep

\* Who comes to ask a compactor for anything but a manual request.
LEMMA AsksUnbidden ==
  ASSUME TranscriptInv, TranscriptNext, pc' = "ask", job'.mode # "manual"
  PROVE  /\ Prepare \/ PromptTooLong
         /\ UNCHANGED <<brk, rounds>> /\ ~BreakerOpen
         /\ job'.mode = "reactive" => ~ReactiveAttempted
<1>1. ~Outside
  BY OutsideGoes
<1>2. ~Compacting
  BY CompactingGoes, WhereCompactionGoes DEF TranscriptInv
<1>3. ~AgentAnswers
  <2>1. TranscriptTypeOK /\ HasRoom
    BY DEF TranscriptInv
  <2> QED BY <2>1, AnswerAppends DEF Ask, Park
<1>4. ~(Build \/ Cover \/ Prepared \/ Retry \/ Corrected)
  BY DEF Build, Cover, Prepared, Retry, Corrected, Materialize, Send, Resend, Park
<1>5. CASE Prepare
  BY <1>5 DEF Prepare, Park, Send, Ask, durable
<1>6. CASE PromptTooLong
  <2>1. UNCHANGED rounds
    BY <1>6 DEF PromptTooLong
  <2> DEFINE head == ReactiveHead(Tolerated(log))
  <2>2. UNCHANGED brk /\ ~ReactiveAttempted /\ ~(BreakerOpen /\ head # {}) /\ head # {}
    BY <1>6 DEF PromptTooLong, Park
  <2> QED BY <1>6, <2>1, <2>2
<1> QED BY <1>1, <1>2, <1>3, <1>4, <1>5, <1>6
        DEF TranscriptNext, LoopStep, Outside, Compacting

LEMMA RoundsStay ==
  ASSUME TranscriptInv, TranscriptNext
  PROVE  /\ rounds' \in 0..MaxRounds
         /\ rounds' = rounds \/ (AgentAnswers /\ rounds' = rounds + 1)
<1>1. rounds \in 0..MaxRounds /\ TranscriptTypeOK
  BY TranscriptNumbers DEF TranscriptInv
<1>2. rounds' = rounds \/ (AgentAnswers /\ rounds' = rounds + 1)
  <2>1. Outside => rounds' = rounds
    BY DEF Outside, LoopStarts, DeliverReport, BeginRound, ToolsEnd, ManualCompactEnds,
           ApprovalDecided, ProcessDies, Restart
  <2>2. Compacting => rounds' = rounds
    BY CompactingGoes DEF TranscriptInv
  <2>3. Prepare \/ Build \/ Cover \/ Prepared \/ PromptTooLong \/ Retry \/ Corrected
        => rounds' = rounds
    BY DEF Prepare, Build, Cover, Prepared, PromptTooLong, Retry, Corrected
  <2>4. AgentAnswers => rounds' = rounds + 1
    BY DEF AgentAnswers
  <2> QED BY <2>1, <2>2, <2>3, <2>4 DEF TranscriptNext, LoopStep, Outside, Compacting
<1>3. HasRoom'
  BY RoomStays
<1> QED BY <1>1, <1>2, <1>3, TranscriptConstants DEF HasRoom

\* Failures are counted in the row, and reactive compactions by their round.
LEMMA BreakerStays ==
  ASSUME TranscriptInv, TranscriptNext
  PROVE  /\ Breaking' /\ Reacting'
         /\ brk' \in [fails: Nat, round: 0..MaxRounds \cup {NoRound}] /\ failRow' \in Nat
<1> USE TranscriptConstants
<1> DEFINE Record == [fails: Nat, round: 0..MaxRounds \cup {NoRound}]
<1>1. /\ Breaking /\ Reacting /\ AskedWell /\ brk \in Record /\ failRow \in Nat
      /\ rounds \in 0..MaxRounds /\ brk.fails \in Nat /\ brk.round \in 0..MaxRounds \cup {NoRound}
      /\ reacted \in [0..MaxRounds -> 0..1] /\ TranscriptTypeOK
  BY TranscriptNumbers DEF TranscriptInv, TranscriptTypeOK, Histories, Reacting
<1>2. rounds' \in 0..MaxRounds /\ (rounds' = rounds \/ (AgentAnswers /\ rounds' = rounds + 1))
  BY RoundsStay
\* What a new question to a compactor needs.
<1>3. ASSUME failRow' = brk'.fails PROVE Breaking'
  <2>1. ASSUME pc' = "ask", job'.mode # "manual" PROVE brk'.fails < MaxFailures
    BY <1>1, <2>1, AsksUnbidden DEF BreakerOpen
  <2> QED BY <1>3, <2>1 DEF Breaking
<1>4. ASSUME /\ reacted' \in [0..MaxRounds -> 0..1]
             /\ \A r \in 0..MaxRounds : r > rounds' => reacted'[r] = 0
             /\ reacted'[rounds'] = 1 => brk'.round = rounds'
      PROVE  Reacting'
  <2>1. ASSUME pc' = "ask", job'.mode = "reactive" PROVE brk'.round # rounds'
    BY <2>1, AsksUnbidden DEF ReactiveAttempted
  <2> QED BY <1>4, <2>1 DEF Reacting
<1>5. CASE ~CompactorAnswers /\ ~CompactorFails /\ ~PromptTooLong
  <2>1. UNCHANGED <<brk, failRow, reacted>>
    BY <1>5, BreakerKept
  <2>2. \A r \in 0..MaxRounds : r > rounds' => reacted[r] = 0
    BY <1>1, <1>2 DEF Reacting
  <2>3. reacted[rounds'] = 1 => brk.round = rounds'
    <3>1. CASE rounds' = rounds
      BY <1>1, <3>1 DEF Reacting
    <3>2. CASE rounds' = rounds + 1
      <4>1. reacted[rounds'] = 0
        BY <1>1, <1>2, <3>2 DEF Reacting
      <4> QED BY <4>1
    <3> QED BY <1>2, <3>1, <3>2
  <2>4. failRow' = brk'.fails
    BY <1>1, <2>1 DEF Breaking
  <2> QED BY <1>1, <1>3, <1>4, <2>1, <2>2, <2>3, <2>4
<1>6. CASE CompactorFails
  <2>1. /\ brk' = [brk EXCEPT !.fails = @ + 1] /\ failRow' = failRow + 1
        /\ reacted' = reacted /\ rounds' = rounds
    BY <1>6 DEF CompactorFails, RecordFailure
  <2> DEFINE Stamps == 0..MaxRounds \cup {NoRound}
  <2>2. brk' \in Record /\ brk'.fails = brk.fails + 1 /\ brk'.round = brk.round
    <3>1. brk \in [fails: Nat, round: Stamps] /\ brk.fails + 1 \in Nat
      BY <1>1
    <3> HIDE DEF Stamps
    <3>2. /\ brk' \in [fails: Nat, round: Stamps] /\ brk'.fails = brk.fails + 1
          /\ brk'.round = brk.round
      BY <2>1, <3>1
    <3> QED BY <3>2 DEF Stamps
  <2> QED BY <1>1, <1>3, <1>4, <2>1, <2>2 DEF Breaking, Reacting
<1>7. CASE PromptTooLong
  <2>1. /\ brk' = brk \/ brk' = [brk EXCEPT !.round = rounds]
        /\ failRow' = failRow /\ reacted' = reacted /\ rounds' = rounds
    BY <1>7 DEF PromptTooLong, RecordAttempt, histories
  <2>2. brk' \in Record /\ brk'.fails = brk.fails /\ (brk'.round = brk.round \/ brk'.round = rounds)
    BY <1>1, <2>1
  <2> QED BY <1>1, <1>3, <1>4, <2>1, <2>2 DEF Breaking, Reacting
<1>8. CASE CompactorAnswers
  <2>1. /\ brk' = [fails |-> 0, round |-> IF job.mode = "reactive" THEN rounds ELSE brk.round]
        /\ failRow' = 0 /\ rounds' = rounds /\ pc = "ask"
        /\ reacted' = IF job.mode = "reactive" THEN [reacted EXCEPT ![rounds] = @ + 1] ELSE reacted
    BY <1>8 DEF CompactorAnswers, Commit
  <2>2. /\ brk' \in Record /\ brk'.fails = 0
        /\ brk'.round = IF job.mode = "reactive" THEN rounds ELSE brk.round
    BY <1>1, <2>1
  <2>3. CASE job.mode = "reactive"
    <3>1. reacted[rounds] = 0
      BY <1>1, <2>1, <2>3 DEF Reacting
    <3>2. reacted' = [reacted EXCEPT ![rounds] = 1]
      BY <2>1, <2>3, <3>1
    <3>3. /\ reacted' \in [0..MaxRounds -> 0..1]
          /\ \A r \in 0..MaxRounds : r > rounds => reacted'[r] = 0
      BY <1>1, <3>2 DEF Reacting
    <3> QED BY <1>3, <1>4, <2>1, <2>2, <2>3, <3>3
  <2>4. CASE job.mode # "reactive"
    BY <1>1, <1>3, <1>4, <2>1, <2>2, <2>4 DEF Reacting
  <2> QED BY <2>3, <2>4
<1> QED BY <1>5, <1>6, <1>7, <1>8

Places == {"down", "idle", "top", "prepare", "build", "cover", "ask", "prepared", "call", "retry",
           "act", "compacted"}
Statuses == {"created", "running", "waiting", "paused", "uncertain", "failed", "done"}

\* What a step does to the run: the status, the place, the retries.
LEMMA RunTyped ==
  ASSUME TranscriptInv, TranscriptNext
  PROVE  status' \in Statuses /\ pc' \in Places /\ retries' \in 0..MaxRetries
<1> USE TranscriptConstants
<1>1. /\ status \in Statuses /\ pc \in Places /\ retries \in 0..MaxRetries /\ AskedWell
      /\ TranscriptTypeOK /\ HasRoom
  BY DEF TranscriptInv, TranscriptTypeOK, Statuses, Places
<1>2. CASE LoopStarts \/ DeliverReport \/ ManualCompactEnds \/ ProcessDies \/ Restart
  <2>1. status' \in {status, "running", "uncertain"} /\ pc' \in {"top", "down", "idle"}
    BY <1>2 DEF LoopStarts, DeliverReport, ManualCompactEnds, ProcessDies, Restart, ValidatedStatus
  <2>2. retries' \in {0, retries}
    BY <1>2 DEF LoopStarts, DeliverReport, ManualCompactEnds, ProcessDies, Restart, Received
  <2> QED BY <1>1, <2>1, <2>2 DEF Statuses, Places
<1>3. CASE BeginRound \/ Prepare \/ PromptTooLong
  <2>1. /\ status' \in {status, "paused", "uncertain"}
        /\ pc' \in {"idle", "prepare", "call", "build", "ask", "retry"}
    BY <1>3 DEF BeginRound, Prepare, PromptTooLong, Park, Send
  <2>2. retries' \in {0, retries}
    BY <1>3 DEF BeginRound, Prepare, PromptTooLong, Received, Send
  <2> QED BY <1>1, <2>1, <2>2 DEF Statuses, Places
<1>4. CASE Build \/ Cover \/ Prepared \/ Retry
  <2>1. status' = status /\ pc' \in {"call", "cover"} /\ retries' \in {0, retries}
    BY <1>4 DEF Build, Cover, Prepared, Retry, Materialize, Send, Resend
  <2> QED BY <1>1, <2>1 DEF Places
<1>5. CASE Compacting
  <2>1. PICK ok \in BOOLEAN : /\ job.mode \in {"auto", "manual", "reactive"}
                              /\ AfterCompaction(ok) /\ retries' = retries
    BY <1>1, <1>5, CompactingGoes
  <2>2. status' \in {status, "paused"} /\ pc' \in {"prepared", "build", "retry", "idle", "compacted"}
    BY <2>1, WhereCompactionGoes
  <2> QED BY <1>1, <2>1, <2>2 DEF Statuses, Places
<1>6. CASE Corrected
  <2>1. /\ status' \in {status, "failed"} /\ pc' \in {pc, "idle"}
        /\ retries' = 0 \/ (retries < MaxRetries /\ retries' = retries + 1)
    BY <1>6 DEF Corrected, Park, Received
  <2> QED BY <1>1, <2>1 DEF Statuses, Places
<1>7. CASE AgentAnswers
  <2>1. status' \in {status, "done", "paused"} /\ pc' \in {"ask", "act", "idle", "top"}
    BY <1>1, <1>7, AnswerAppends DEF Park
  <2>2. retries' = 0
    BY <1>7 DEF AgentAnswers, Received
  <2> QED BY <1>1, <2>1, <2>2 DEF Statuses, Places
<1>8. CASE ToolsEnd
  <2>1. status' \in {status, "waiting", "paused", "uncertain"} /\ pc' \in {"idle", "top"}
    BY <1>8 DEF ToolsEnd, Park
  <2>2. retries' = retries
    BY <1>8 DEF ToolsEnd
  <2> QED BY <1>1, <2>1, <2>2 DEF Statuses, Places
<1>9. CASE ApprovalDecided
  BY <1>1, <1>9 DEF ApprovalDecided, Statuses, Places
<1> QED BY <1>2, <1>3, <1>4, <1>5, <1>6, <1>7, <1>8, <1>9
        DEF TranscriptNext, LoopStep, Compacting

LEMMA TroubleTyped ==
  ASSUME TranscriptInv, TranscriptNext
  PROVE  trouble' \subseteq CallIds /\ windows' \subseteq Windows
<1>1. /\ TranscriptTypeOK /\ UsesAreBare /\ AskedLast /\ Stopping /\ AskedWell /\ HasRoom
      /\ trouble \subseteq CallIds /\ windows \subseteq Windows
  BY DEF TranscriptInv, TranscriptTypeOK
<1>2. CASE ToolsEnd
  <2>1. log # <<>>
    BY <1>1, <1>2 DEF ToolsEnd, AskedLast, Asking
  <2>2. trouble' \subseteq trouble \cup OpenUse /\ windows' \subseteq windows \cup {"unsaved"}
    BY <1>2 DEF ToolsEnd
  <2> QED BY <1>1, <2>1, <2>2, OpenUseIsIds DEF Windows
<1>3. CASE ApprovalDecided
  <2>1. windows' = windows /\ trouble' \subseteq trouble
    BY <1>3 DEF ApprovalDecided
  <2> QED BY <1>1, <2>1
<1>4. CASE Compacting
  <2>1. windows' \subseteq windows \cup {"overclaim", "forgotten"}
    <3>1. CompactorIdle \/ CompactorFails => windows' = windows
      BY DEF CompactorIdle, CompactorFails
    <3>2. CompactorAnswers => windows' \subseteq windows \cup {"overclaim", "forgotten"}
      BY CompactorWrites
    <3> QED BY <1>4, <3>1, <3>2 DEF Compacting
  <2> QED BY <1>1, <1>4, <2>1, CompactingGoes DEF Windows
<1>5. CASE AgentAnswers
  <2>1. windows' \subseteq windows \cup {"siblings"}
    BY <1>1, <1>5, AnswerAppends
  <2> QED BY <1>1, <1>5, <2>1 DEF AgentAnswers, Windows
<1>6. CASE Corrected \/ ProcessDies
  BY <1>1, <1>6 DEF Corrected, ProcessDies, durable, Windows
<1>7. CASE LoopStarts \/ DeliverReport \/ BeginRound \/ ManualCompactEnds \/ Restart \/ Prepare
           \/ Build \/ Cover \/ Prepared \/ PromptTooLong \/ Retry
  <2>1. trouble' = trouble /\ windows' = windows
    BY <1>7 DEF LoopStarts, DeliverReport, BeginRound, ManualCompactEnds, Restart, Prepare, Build,
                Cover, Prepared, PromptTooLong, Retry, durable
  <2> QED BY <1>1, <2>1
<1> QED BY <1>2, <1>3, <1>4, <1>5, <1>6, <1>7 DEF TranscriptNext, LoopStep, Compacting

\* A loop that ends parks its run.
LEMMA StoppingStays ==
  ASSUME TranscriptInv, TranscriptNext
  PROVE  Stopping'
<1>1. /\ TranscriptTypeOK /\ HasRoom /\ AskedWell /\ Stopping /\ UsesAreBare /\ AskedLast
      /\ log \in Seq(Message)
  BY DEF TranscriptInv, TranscriptTypeOK
<1>2. "escaped" \in windows => "escaped" \in windows'
  BY WindowsGrow
<1>3. log # <<>> => log' # <<>>
  <2>1. CASE log' = log
    BY <2>1
  <2>2. CASE \E m \in Message : Grows(m)
    BY <1>1, <2>2, AppendProperties DEF Grows
  <2> QED BY <2>1, <2>2, TranscriptGrows
<1>4. pc' = "down" => Crashed'
  <2>1. pc' = "down" => ProcessDies
    <3>1. ~(Prepare \/ Build \/ Cover \/ Prepared \/ PromptTooLong \/ Retry \/ Corrected) \/ pc' # "down"
      BY DEF Prepare, Build, Cover, Prepared, PromptTooLong, Retry, Corrected, Materialize, Send,
             Resend, Park
    <3>2. ~Compacting \/ pc' # "down"
      BY <1>1, CompactingGoes, WhereCompactionGoes
    <3>3. ~AgentAnswers \/ pc' # "down"
      BY <1>1, AnswerAppends DEF Park
    <3>4. ~(LoopStarts \/ DeliverReport \/ BeginRound \/ ManualCompactEnds \/ Restart) \/ pc' # "down"
      BY DEF LoopStarts, DeliverReport, BeginRound, ManualCompactEnds, Restart, Park
    <3>5. ~(ToolsEnd \/ ApprovalDecided) \/ pc' # "down"
      BY ZenonT(40) DEF ToolsEnd, ApprovalDecided, Park
    <3> QED BY <3>1, <3>2, <3>3, <3>4, <3>5 DEF TranscriptNext, LoopStep, Compacting
  <2>2. ProcessDies => Crashed'
    <3>1. ASSUME ProcessDies PROVE Crashed'
      <4>1. /\ left'.crashes < left.crashes /\ left.crashes \in 0..MaxProcessCrashes
            /\ left'.crashes \in 0..MaxProcessCrashes
        BY <3>1, LeftStays DEF Leftovers
      <4> QED BY <4>1, TranscriptConstants DEF Crashed
    <3> QED BY <3>1
  <2> QED BY <2>1, <2>2
\* The two other parts, action by action.
<1> DEFINE Parked == pc' = "idle" /\ status' = "running" => Through({"escaped"})' \/ Crashed'
           Awaits == status' = "waiting" => log' # <<>>
<1>5. Parked /\ Awaits
  <2>1. CASE LoopStarts \/ DeliverReport \/ ManualCompactEnds \/ ProcessDies
    <3>1. pc' # "idle" /\ (status' = status \/ status' = "running")
      BY <2>1 DEF LoopStarts, DeliverReport, ManualCompactEnds, ProcessDies
    <3> QED BY <1>1, <1>3, <3>1 DEF Stopping
  <2>2. CASE BeginRound \/ Prepare \/ PromptTooLong
    <3>1. \/ pc' # "idle" /\ status' = status
          \/ status' \in {"paused", "uncertain"}
      BY <2>2 DEF BeginRound, Prepare, PromptTooLong, Park, Send
    <3> QED BY <1>1, <1>3, <3>1 DEF Stopping
  <2>3. CASE Build \/ Cover \/ Prepared \/ Retry
    <3>1. pc' # "idle" /\ status' = status
      BY <2>3 DEF Build, Cover, Prepared, Retry, Materialize, Send, Resend
    <3> QED BY <1>1, <1>3, <3>1 DEF Stopping
  <2>4. CASE Compacting
    <3>1. PICK ok \in BOOLEAN : job.mode \in {"auto", "manual", "reactive"} /\ AfterCompaction(ok)
      BY <1>1, <2>4, CompactingGoes
    <3>2. (pc' # "idle" /\ status' = status) \/ status' = "paused"
      BY <3>1, WhereCompactionGoes
    <3> QED BY <1>1, <1>3, <3>2 DEF Stopping
  <2>5. CASE Corrected
    <3>1. \/ pc' = "call" /\ status' = status
          \/ status' = "failed"
          \/ status' = status /\ "escaped" \in windows'
      BY <2>5 DEF Corrected, Park
    <3> QED BY <1>1, <1>3, <3>1 DEF Stopping, Through
  <2>6. CASE AgentAnswers
    <3>1. (pc' # "idle" /\ status' = status) \/ status' \in {"done", "paused"}
      BY <1>1, <2>6, AnswerAppends DEF Park
    <3> QED BY <1>1, <1>3, <3>1 DEF Stopping
  <2>7. CASE ToolsEnd
    <3>1. log # <<>>
      BY <1>1, <2>7 DEF ToolsEnd, AskedLast, Asking
    <3>2. pc' = "top" \/ status' \in {"waiting", "paused", "uncertain"}
      BY <2>7 DEF ToolsEnd, Park
    <3> QED BY <1>3, <3>1, <3>2
  <2>8. CASE ApprovalDecided
    <3>1. (status' = "running" /\ pc' = "top") \/ status' = "uncertain"
      BY <2>8 DEF ApprovalDecided
    <3> QED BY <3>1
  <2>9. CASE Restart
    <3>1. pc = "down" /\ left' = left /\ status' \in {status, "uncertain"}
      BY <2>9 DEF Restart, ValidatedStatus
    <3>2. Crashed'
      BY <1>1, <3>1 DEF Stopping, Crashed
    <3> QED BY <1>1, <1>3, <3>1, <3>2 DEF Stopping
  <2> QED BY <2>1, <2>2, <2>3, <2>4, <2>5, <2>6, <2>7, <2>8, <2>9
          DEF TranscriptNext, LoopStep, Compacting
<1> QED BY <1>4, <1>5 DEF Stopping

\* In the initial state there is nothing to keep.
LEMMA TranscriptStarts ==
  ASSUME TranscriptInit
  PROVE  TranscriptInv
<1> USE TranscriptConstants
<1>1. /\ log = <<>> /\ Len(log) = 0 /\ boundary = 0 /\ mem = NoMemory
      /\ brk = [fails |-> 0, round |-> NoRound]
      /\ rounds = 0 /\ status = "created" /\ pc = "idle" /\ job = NoJob /\ req = NoRequest
      /\ trouble = {} /\ retries = 0 /\ seen = 0 /\ failRow = 0 /\ windows = {}
      /\ left = [reports |-> MaxReports, resumes |-> MaxResumes, crashes |-> MaxProcessCrashes]
      /\ reacted = [r \in 0..MaxRounds |-> 0]
  BY EmptySeq DEF TranscriptInit
<1>2. \A i : i \notin 1..Len(log)
  BY <1>1
<1>3. ~Torn(log) /\ ~Asking /\ ~Sending
  BY <1>1, <1>2 DEF Torn, Asking, Sending
<1>4. log \in Seq(Message)
  BY <1>1, EmptySeq
<1>5. mem \in [rev: Nat, through: 0..(MaxLog + Overclaim), shown: 0..MaxLog, safe: SUBSET CallIds]
  BY <1>1 DEF NoMemory
<1>6. job \in Jobs /\ job.mode = "none"
  BY <1>1, NoJobIsJob DEF NoJob
<1>7. brk \in [fails: Nat, round: 0..MaxRounds \cup {NoRound}]
  BY <1>1
<1>8. TranscriptTypeOK
  BY <1>1, <1>4, <1>5, <1>6, <1>7 DEF TranscriptTypeOK
<1>9. Histories
  BY <1>1, <1>6 DEF Histories
<1>10. UsesAreBare /\ Whole /\ AskedLast /\ Intact /\ CompactAlone
  BY <1>2, <1>3 DEF UsesAreBare, Whole, AskedLast, Intact, CompactAlone
<1>11. HasRoom /\ Requested /\ AskedWell /\ Covering
  BY <1>1, <1>3 DEF HasRoom, Requested, AskedWell, Covering
<1>12. Backed /\ TroubleKept /\ Survives
  BY <1>1, <1>2 DEF Backed, TroubleKept, Survives, NoMemory
<1>13. Breaking /\ Reacting /\ Stopping
  BY <1>1 DEF Breaking, Reacting, Stopping
<1> QED BY <1>8, <1>9, <1>10, <1>11, <1>12, <1>13 DEF TranscriptInv

\* Every step keeps the invariant.
LEMMA TranscriptSteps ==
  ASSUME TranscriptInv, [TranscriptNext]_transcriptVars
  PROVE  TranscriptInv'
<1>1. CASE TranscriptNext
  <2>1. log' \in Seq(Message) /\ UsesAreBare'
    BY <1>1, UsesStayBare
  <2>2. HasRoom'
    BY <1>1, RoomStays
  <2>3. boundary' \in 0..(MaxLog + Overclaim)
        /\ mem' \in [rev: Nat, through: 0..(MaxLog + Overclaim), shown: 0..MaxLog,
                     safe: SUBSET CallIds]
    BY <1>1, CoverageTyped
  <2>4. /\ Breaking' /\ Reacting'
        /\ brk' \in [fails: Nat, round: 0..MaxRounds \cup {NoRound}] /\ failRow' \in Nat
    BY <1>1, BreakerStays
  <2>5. status' \in Statuses /\ pc' \in Places /\ retries' \in 0..MaxRetries
    BY <1>1, RunTyped
  <2>6. trouble' \subseteq CallIds /\ windows' \subseteq Windows
    BY <1>1, TroubleTyped
  <2>7. AskedWell' /\ Covering' /\ job' \in Jobs
    BY <1>1, JobStays
  <2>8. rounds' \in 0..MaxRounds
    BY <1>1, RoundsStay
  <2>9. left' \in Leftovers
    BY <1>1, LeftStays
  <2>10. Survives' /\ seen' \in Seqs \cup {0}
    BY <1>1, SurvivesStays
  <2>11. Len(log') <= MaxLog
    BY <2>2 DEF HasRoom
  <2>12. job'.mode \in Modes
    BY <2>7 DEF Jobs
  <2>13. TranscriptTypeOK'
    BY <2>1, <2>3, <2>4, <2>5, <2>6, <2>8, <2>11, <2>12
       DEF TranscriptTypeOK, Modes, Statuses, Places
  <2>14. Histories'
    BY <2>4, <2>7, <2>9, <2>10 DEF Histories, Leftovers
  <2>15. Whole' /\ AskedLast' /\ CompactAlone' /\ Intact' /\ Requested'
    BY <1>1, WholeStays, AskedLastStays, IntactStays, RequestStays
  <2>16. Backed' /\ TroubleKept' /\ Stopping'
    BY <1>1, BackedStays, TroubleStays, StoppingStays
  <2> QED BY <2>1, <2>2, <2>4, <2>7, <2>10, <2>13, <2>14, <2>15, <2>16 DEF TranscriptInv
<1>2. CASE UNCHANGED transcriptVars
  <2>1. /\ UNCHANGED <<log, boundary, mem, brk, rounds, status>>
        /\ UNCHANGED <<pc, job, req, trouble, retries, left, seen, failRow, reacted, windows>>
    BY <1>2 DEF transcriptVars
  <2>2. TranscriptTypeOK' /\ Histories'
    BY <2>1 DEF TranscriptInv, TranscriptTypeOK, Histories
  <2>3. /\ Sending' = Sending /\ Asking' = Asking
        /\ \A W : Through(W)' = Through(W)
    BY <2>1 DEF Sending, Asking, Through
  <2>4. UsesAreBare' /\ Whole' /\ AskedLast' /\ Intact' /\ CompactAlone' /\ HasRoom'
    BY <2>1, <2>3 DEF TranscriptInv, UsesAreBare, Whole, AskedLast, Intact, CompactAlone, HasRoom
  <2>5. Requested' /\ AskedWell' /\ Covering'
    BY <2>1 DEF TranscriptInv, Requested, AskedWell, Covering, NothingNew
  <2>6. Backed' /\ TroubleKept' /\ Survives'
    BY <2>1, <2>3 DEF TranscriptInv, Backed, TroubleKept, Survives, Spoiled, Crashed
  <2>7. Breaking' /\ Reacting' /\ Stopping'
    BY <2>1, <2>3 DEF TranscriptInv, Breaking, Reacting, Stopping, Crashed
  <2> QED BY <2>2, <2>4, <2>5, <2>6, <2>7 DEF TranscriptInv
<1> QED BY <1>1, <1>2

LEMMA TranscriptInvariant == TranscriptSpec => []TranscriptInv
<1>1. TranscriptInit => TranscriptInv
  BY TranscriptStarts
<1>2. TranscriptInv /\ [TranscriptNext]_transcriptVars => TranscriptInv'
  BY TranscriptSteps
<1> QED BY <1>1, <1>2, PTL DEF TranscriptSpec

\* The parts of NothingHidden and of Paired.
LEMMA TranscriptShown ==
  ASSUME TranscriptInv
  PROVE  NothingLost /\ ProtectedSurvives /\ TroubleVisible /\ BoundaryBacked
<1> USE TranscriptConstants
<1>1. /\ TranscriptTypeOK /\ Requested /\ Backed /\ Whole /\ TroubleKept /\ Survives
      /\ log \in Seq(Message) /\ Len(log) \in Nat /\ boundary \in Nat /\ mem.through \in Nat
  BY TranscriptNumbers DEF TranscriptInv
<1>2. After(log, boundary) = {i \in 1..Len(log) : i > boundary \/ (i = boundary /\ IsUse(log, i))}
  BY <1>1, TailBehind
<1>3. NothingLost
  <2>1. CASE pc = "call"
    <3>1. req.len = Len(log) /\ req.seqs = After(log, boundary) /\ req.mem = mem
      BY <1>1, <2>1 DEF Requested
    <3>2. ASSUME ~Through({"overclaim"}), NEW s \in 1..req.len
          PROVE  s \in req.seqs \/ s <= req.mem.shown
      <4>1. mem.shown = mem.through /\ boundary <= mem.through
        BY <1>1, <3>2 DEF Backed
      <4>2. s \in Nat /\ s \in 1..Len(log)
        BY <1>1, <3>1
      <4>3. CASE s > boundary
        BY <1>2, <3>1, <4>2, <4>3
      <4>4. CASE s <= boundary
        BY <1>1, <3>1, <4>1, <4>2, <4>4
      <4> QED BY <1>1, <4>2, <4>3, <4>4
    <3> QED BY <3>2 DEF NothingLost
  <2>2. CASE pc # "call"
    <3>1. req.len = 0
      BY <1>1, <2>2 DEF Requested, NoRequest
    <3> QED BY <3>1 DEF NothingLost
  <2> QED BY <2>1, <2>2
<1>4. ProtectedSurvives
  BY <1>1 DEF Survives, ProtectedSurvives, Troubled
<1>5. TroubleVisible
  <2>1. ASSUME pc = "call", ~Through({"overclaim", "forgotten"}), NEW c \in trouble
        PROVE  c \in req.mem.safe \/ \E i \in req.seqs : c \in log[i].bad
    <3>1. req.seqs = After(log, boundary) /\ req.mem = mem
      BY <1>1, <2>1 DEF Requested
    <3>2. ~Spoiled
      BY <1>1, <2>1 DEF Whole, Sending, Spoiled
    <3>3. c \in mem.safe \/ \E i \in 1..Len(log) : i > boundary /\ c \in log[i].bad
      BY <1>1, <2>1, <3>2 DEF TroubleKept
    <3> QED BY <1>2, <3>1, <3>3
  <2> QED BY <2>1 DEF TroubleVisible
<1>6. BoundaryBacked
  BY <1>1 DEF Backed, BoundaryBacked, Crashed
<1> QED BY <1>3, <1>4, <1>5, <1>6

LEMMA TranscriptPairs ==
  ASSUME TranscriptInv
  PROVE  Paired
<1>1. /\ TranscriptTypeOK /\ Requested /\ UsesAreBare /\ Whole /\ AskedLast /\ Intact
      /\ log \in Seq(Message) /\ Len(log) \in Nat /\ boundary \in Nat
  BY TranscriptNumbers, TranscriptConstants DEF TranscriptInv
<1>2. After(log, boundary) = {i \in 1..Len(log) : i > boundary \/ (i = boundary /\ IsUse(log, i))}
  BY <1>1, TailBehind
<1>3. ASSUME NEW i \in 1..req.len, log[i].uses # {}
      PROVE  /\ i \in req.seqs <=> i + 1 \in req.seqs
             /\ log[i + 1].res = log[i].uses
  <2>1. pc = "call"
    <3>1. pc # "call" => req.len = 0
      BY <1>1 DEF Requested, NoRequest
    <3> QED BY <1>3, <3>1
  <2>2. req.len = Len(log) /\ req.seqs = After(log, boundary)
    BY <1>1, <2>1 DEF Requested
  <2>3. ~Torn(log)
    BY <1>1, <2>1 DEF Whole, Sending
  <2>4. i \in 1..Len(log) /\ ~Unpaired(log, i)
    BY <1>3, <2>2, <2>3 DEF Torn
  <2>5. i # Len(log) /\ log[i + 1].res = log[i].uses
    BY <1>3, <2>4 DEF Unpaired
  <2>6. i \in Nat /\ i + 1 \in 1..Len(log) /\ i + 1 \in Nat
    BY <1>1, <2>4, <2>5
  <2>7. ~IsUse(log, i + 1) /\ IsUse(log, i)
    BY <1>1, <1>3, <2>5, <2>6 DEF UsesAreBare, Bare, IsUse
  <2>8. i \in req.seqs <=> i > boundary \/ i = boundary
    BY <1>2, <2>2, <2>4, <2>7
  <2>9. i + 1 \in req.seqs <=> i + 1 > boundary
    BY <1>2, <2>2, <2>6, <2>7
  <2>10. (i > boundary \/ i = boundary) <=> i + 1 > boundary
    BY <1>1, <2>6
  <2> QED BY <2>5, <2>8, <2>9, <2>10
<1>4. RequestPaired
  BY <1>3 DEF RequestPaired
<1>5. PairedInside
  <2>1. CASE Asking
    BY <1>1, <2>1 DEF AskedLast, PairedInside
  <2>2. CASE ~Torn(log)
    <3>1. \A i \in 1..(Len(log) - 1) : i \in 1..Len(log)
      BY <1>1
    <3> QED BY <2>2, <3>1 DEF Torn, PairedInside
  <2> QED BY <1>1, <2>1, <2>2 DEF Intact, PairedInside
<1> QED BY <1>4, <1>5 DEF Paired

\* The model is shown, or was given in summary, all that happened: whatever is
\* appended, compacted, lost in a crash or resumed, every message that was in the
\* log when a request went out (Send, Resend) is in the request or was summarised by
\* the memory in its header; failed, uncertain and waiting results and the reports
\* of children leave the replayed tail only when a compactor saw them; and the
\* boundary never passes the memory that stands for what it hides.
THEOREM NothingIsHidden == TranscriptSpec => []NothingHidden
<1>1. TranscriptInv => NothingHidden
  BY TranscriptShown DEF NothingHidden, TranscriptInv
<1> QED BY <1>1, TranscriptInvariant, PTL

\* A request to the provider (group_messages, _materialize_after) holds a tool use
\* and its results together or not at all, and inside the stored transcript every
\* tool use is answered by the next message, unless the process died, an append was
\* lost or compact_context came with siblings.
THEOREM UsesKeepTheirResults == TranscriptSpec => []Paired
<1>1. TranscriptInv => Paired
  BY TranscriptPairs
<1> QED BY <1>1, TranscriptInvariant, PTL

\* Compaction is cut off: the breaker counts failures in a row over rounds, modes,
\* pauses and crashes and lets only a manual request past its limit, a reactive
\* compaction commits at most once between two completed rounds, and a loop that
\* ends leaves its run parked.
THEOREM CompactionIsCutOff ==
  TranscriptSpec => [](BreakerHolds /\ OneReactivePerRound /\ StoppedIsParked)
<1>1. TranscriptInv => BreakerHolds /\ OneReactivePerRound /\ StoppedIsParked
  <2>1. TranscriptInv => BreakerHolds
    BY DEF TranscriptInv, Breaking, BreakerHolds
  <2>2. TranscriptInv => OneReactivePerRound
    BY DEF TranscriptInv, Reacting, OneReactivePerRound
  <2>3. TranscriptInv => StoppedIsParked
    BY DEF TranscriptInv, Stopping, StoppedIsParked, Crashed
  <2> QED BY <2>1, <2>2, <2>3
<1> QED BY <1>1, TranscriptInvariant, PTL

\* No commit takes coverage back: the boundary never moves down, and until a crash
\* has separated them neither does the memory that stands for what it hides.
THEOREM CoverageOnlyGrows == TranscriptSpec => CoverageGrows
<1>1. ASSUME TranscriptInv, [TranscriptNext]_transcriptVars
      PROVE  [/\ boundary' >= boundary
              /\ left.crashes = MaxProcessCrashes => mem'.through >= mem.through]_transcriptVars
  <2>1. CASE TranscriptNext
    BY <1>1, <2>1, BoundaryGrows
  <2>2. CASE UNCHANGED transcriptVars
    BY <2>2
  <2> QED BY <1>1, <2>1, <2>2
<1> QED BY <1>1, TranscriptInvariant, PTL DEF TranscriptSpec, CoverageGrows
=============================================================================
