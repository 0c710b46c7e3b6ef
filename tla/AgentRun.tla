------------------------------ MODULE AgentRun ------------------------------
(***************************************************************************)
(* One investigation and its parent agent runs: the bounded loop of        *)
(* investigation/orchestrator.py, the start, cancel and approval paths of  *)
(* investigation/service.py, the approval records of approvals/store.py,   *)
(* and the startup and shutdown of investigation/recovery.py.              *)
(*                                                                         *)
(* The event loop is single threaded, so code between two awaits runs      *)
(* without interleaving.  Its SQLite commits are still separate: those to  *)
(* the run and then to the investigation that the action leaves to be made *)
(* are "owed", and only the death of the process can come before them.     *)
(*                                                                         *)
(* PAUSED_BUDGET and PAUSED_MISSING_EVIDENCE are one status here: the code *)
(* differs in the usage counters it resets.  Budgets are not counted; a    *)
(* budget check may fail whenever it is made.  A round executes at most    *)
(* one tool call.  Child runs are left out.                                *)
(***************************************************************************)
EXTENDS Naturals, FiniteSets

CONSTANTS
  Calls,         \* tool call ids; every proposal of the model gets a new one
  Dangerous,     \* calls of the tools in _DANGEROUS_TOOLS
  NeedsApproval, \* calls the gateway routes through an approval
  Runs,          \* parent runs; start creates one when the others have ended
  Tasks,         \* coroutines that can be live at once: loops and decisions
  None,          \* no call, no run
  MaxCrashes     \* bound on crashes

ASSUME AgentRunCalls ==
  /\ NeedsApproval \subseteq Dangerous /\ Dangerous \subseteq Calls
  /\ None \notin Calls \cup Runs
ASSUME AgentRunBounds == MaxCrashes \in Nat

VARIABLES
  inv, run,   \* status of the investigation and of its parent runs
  owed,       \* the commits the running code section has still to make
  call,       \* tool_calls.status
  owner,      \* tool_calls.agent_run_id
  bound,      \* calls whose row carries an approval_id
  appr,       \* approvals.status of the approval a call asked for
  lapsed,     \* calls whose approval is past expires_at
  down,       \* approvals.downstream_status
  task,       \* the coroutines: what they await, for which call and approval
  proc,       \* life cycle of the process
  crashes,    \* used against MaxCrashes
  effects,    \* history: remote effects of each call
  killed      \* history: calls that were being executed when a task was killed

callVars == <<call, owner, bound>>
apprVars == <<appr, lapsed, down>>
histVars == <<effects, killed>>
vars     == <<inv, run, owed, callVars, apprVars, task, proc, crashes, histVars>>

RunTerminal  == {"cancelled", "failed", "completed"}
Paused       == {"paused", "paused_uncertain"}
RunStatus    == RunTerminal \cup Paused
                  \cup {"created", "running", "waiting", "cancel_requested"}
CallTerminal == {"succeeded", "failed", "uncertain", "cancelled"}
CallStatus   == CallTerminal \cup {"absent", "planned", "running", "waiting"}

\* INVESTIGATION_TRANSITIONS and AGENT_RUN_TRANSITIONS agree on the statuses
\* kept here.  No status is its own successor.
Moves ==
  [s \in RunStatus \cup {"absent"} |->
     CASE s = "created" -> {"running", "failed", "cancelled"}
       [] s = "running" -> {"waiting", "paused", "paused_uncertain",
                            "cancel_requested", "failed", "completed"}
       [] s \in Paused \cup {"waiting"} -> {"running", "cancel_requested", "failed"}
       [] s = "cancel_requested" -> {"cancelled", "failed"}
       [] OTHER -> {}]

\* owed.who is the run that the commit of owed.run is made to.
NothingOwed == [who |-> None, run |-> "none", inv |-> "none"]
NoTask      == [pc |-> "off", run |-> None, call |-> None, appr |-> None]

Gone(s) == s \in RunTerminal \cup {"absent"}

\* The run that has not ended: start makes a new one only when there is none.
Live    == {r \in Runs : ~Gone(run[r])}
LiveRun == IF Live = {} THEN None ELSE CHOOSE r \in Live : TRUE

RunOf(t) == run[task[t].run]

\* Where a coroutine can be.  LoopAwaits and DecisionAwaits are its awaits; at
\* the places of Mid it has the event loop and goes on before anything else.
LoopAwaits     == {"boundary", "provider", "tool", "requested", "done"}
DecisionAwaits == {"decided", "executing", "consumed", "applied"}
Mid            == {"planned", "handling", "resuming", "returned", "raised",
                   "unmatched"}
Executes       == {"tool", "requested", "done", "executing", "consumed",
                   "applied"}

TypeOK ==
  /\ inv \in RunStatus \cup {"absent"} /\ run \in [Runs -> RunStatus \cup {"absent"}]
  /\ owed \in [who: Runs \cup {None}, run: RunStatus \cup {"none"},
                inv: RunStatus \cup {"none"}]
  /\ call \in [Calls -> CallStatus] /\ owner \in [Calls -> Runs \cup {None}]
  /\ bound \subseteq Calls /\ lapsed \subseteq Calls /\ killed \subseteq Calls
  /\ appr \in [Calls -> {"none", "pending", "approved", "rejected", "consumed"}]
  /\ down \in [Calls -> {"pending", "processing", "processed", "failed",
                         "not_applicable"}]
  /\ task \in [Tasks -> [pc: LoopAwaits \cup DecisionAwaits \cup Mid \cup {"off"},
                         run: Runs \cup {None}, call: Calls \cup {None},
                         appr: Calls \cup {None}]]
  /\ proc \in {"down", "reconciling", "settling", "up", "stopping", "sweeping"}
  /\ crashes \in Nat
  /\ effects \in [Calls -> Nat]

Init ==
  /\ inv = "absent" /\ run = [r \in Runs |-> "absent"] /\ owed = NothingOwed
  /\ call = [c \in Calls |-> "absent"] /\ bound = {}
  /\ owner = [c \in Calls |-> None]
  /\ appr = [c \in Calls |-> "none"] /\ lapsed = {}
  /\ down = [c \in Calls |-> "pending"]
  /\ task = [t \in Tasks |-> NoTask]
  /\ proc = "down" /\ crashes = 0
  /\ effects = [c \in Calls |-> 0] /\ killed = {}

-----------------------------------------------------------------------------
(* Code sections and their commits. *)

\* No code section is under way.
Quiet == owed = NothingOwed /\ \A t \in Tasks : task[t].pc \notin Mid

CommitRun ==
  /\ owed.run # "none"
  /\ run' = [run EXCEPT ![owed.who] = owed.run]
  /\ owed' = [who |-> None, run |-> "none", inv |-> owed.inv]
  /\ UNCHANGED <<inv, callVars, apprVars, task, proc, crashes, histVars>>

CommitInv ==
  /\ owed.run = "none" /\ owed.inv # "none"
  /\ inv' = owed.inv
  /\ owed' = NothingOwed
  /\ UNCHANGED <<run, callVars, apprVars, task, proc, crashes, histVars>>

\* A section that moves run r to rs, then the investigation to i ("none": it
\* does not).
Owes(r, rs, i) == [who |-> IF rs = "none" THEN None ELSE r, run |-> rs, inv |-> i]

Coroutine(pc, r, c, a) == [pc |-> pc, run |-> r, call |-> c, appr |-> a]

At(t, pc) == [task EXCEPT ![t] = [@ EXCEPT !.pc = pc]]

\* The coroutine leaves the loop, normally or by an exception.  A loop that a
\* decision resumed returns into _run_downstream; any other one is gone.
Leaving(t, how) ==
  [task EXCEPT ![t] = IF task[t].appr = None THEN NoTask
                      ELSE Coroutine(how, None, None, task[t].appr)]

\* _transition_run followed by _transition_investigation.  An illegal move of
\* the run raises before anything is written, one of the investigation after
\* the run was committed.
Legal(t, rs, i) == rs \in Moves[RunOf(t)] /\ i \in Moves[inv]
RunThenInv(t, rs, i) ==
  owed' = Owes(task[t].run, IF rs \in Moves[RunOf(t)] THEN rs ELSE "none",
               IF Legal(t, rs, i) THEN i ELSE "none")

\* _pause, _fail and the completed stop: both rows move, then the loop returns.
StopWith(t, s) ==
  /\ RunThenInv(t, s, s)
  /\ task' = Leaving(t, IF Legal(t, s, s) THEN "returned" ELSE "raised")

-----------------------------------------------------------------------------
(* Requests of the operator and of the operation dispatcher. *)

Create ==
  /\ proc = "up" /\ Quiet /\ inv = "absent"
  /\ inv' = "created"
  /\ UNCHANGED <<run, owed, callVars, apprVars, task, proc, crashes, histVars>>

\* InvestigationService.start, called by the agent message handler and by the
\* legacy start route.  It resumes the parent run that has not ended, or creates
\* one.  It does not look for a loop that is already live.
Start(t, r) ==
  /\ proc = "up" /\ task[t] = NoTask /\ Quiet
  /\ inv = "running" \/ "running" \in Moves[inv]
  /\ IF Live = {} THEN run[r] = "absent" ELSE r \in Live
  /\ inv' = "running"
  /\ owed' = Owes(r, IF Live = {} THEN "created" ELSE "none", "none")
  /\ task' = [task EXCEPT ![t] = Coroutine("boundary", r, None, None)]
  /\ UNCHANGED <<run, callVars, apprVars, proc, crashes, histVars>>

\* InvestigationService.resume_run, the legacy resume route.
ResumeRun(t, r) ==
  /\ proc = "up" /\ task[t] = NoTask /\ Quiet /\ run[r] # "absent"
  /\ task' = [task EXCEPT ![t] = Coroutine("boundary", r, None, None)]
  /\ UNCHANGED <<inv, run, owed, callVars, apprVars, proc, crashes, histVars>>

\* _park_run_for_cancel, for the run that has not ended.
ParkForCancel ==
  IF LiveRun = None \/ run[LiveRun] = "cancel_requested" THEN "none"
  ELSE IF run[LiveRun] = "created" THEN "cancelled" ELSE "cancel_requested"

\* InvestigationService.cancel: the investigation first, then the runs.
CancelInvestigation ==
  /\ inv' = IF inv = "created" THEN "cancelled" ELSE "cancel_requested"
  /\ owed' = Owes(LiveRun, ParkForCancel, "none")

Cancel ==
  /\ proc = "up" /\ Quiet /\ ~Gone(inv)
  /\ CancelInvestigation
  /\ UNCHANGED <<run, callVars, apprVars, task, proc, crashes, histVars>>

\* ApprovalStore._decide; the event is published before the decision is acted on.
Decide(t, c, d) ==
  /\ proc = "up" /\ task[t] = NoTask /\ Quiet
  /\ appr[c] = "pending" /\ c \notin lapsed
  /\ appr' = [appr EXCEPT ![c] = d]
  /\ task' = [task EXCEPT ![t] = Coroutine("decided", None, None, c)]
  /\ UNCHANGED <<inv, run, owed, callVars, lapsed, down, proc, crashes, histVars>>

\* The client repeats a decision whose downstream is unfinished.
RetryDecision(t, c) ==
  /\ proc = "up" /\ task[t] = NoTask /\ Quiet
  /\ appr[c] \in {"approved", "rejected", "consumed"}
  /\ down[c] \in {"pending", "processing"}
  /\ down' = [down EXCEPT ![c] = "processing"]
  /\ task' = [task EXCEPT ![t] = Coroutine("handling", None, None, c)]
  /\ UNCHANGED <<inv, run, owed, callVars, appr, lapsed, proc, crashes, histVars>>

\* Wall-clock time passes expires_at.
Lapse(c) ==
  /\ appr[c] \in {"pending", "approved"} /\ c \notin lapsed
  /\ lapsed' = lapsed \cup {c}
  /\ UNCHANGED <<inv, run, owed, callVars, appr, down, task, proc, crashes,
                 histVars>>

-----------------------------------------------------------------------------
(* The bounded loop: the cases of _loop_step at a round boundary. *)

AtBoundary(t) == task[t].pc = "boundary" /\ Quiet

\* A run that has ended: a cancelled one still owns the investigation's last
\* status.
LeaveTerminal(t) ==
  /\ AtBoundary(t) /\ RunOf(t) \in RunTerminal
  /\ owed' = Owes(None, "none", IF RunOf(t) = "cancelled" /\ inv = "cancel_requested"
                                   THEN "cancelled" ELSE "none")
  /\ task' = Leaving(t, "returned")
  /\ UNCHANGED <<inv, run, callVars, apprVars, proc, crashes, histVars>>

\* _sync_run_to_investigation: the investigation has ended before the run.
SyncRun(t) ==
  /\ AtBoundary(t) /\ ~Gone(RunOf(t)) /\ inv \in RunTerminal
  /\ IF \/ inv \in Moves[RunOf(t)]
        \/ inv = "cancelled" /\ "cancel_requested" \in Moves[RunOf(t)]
       THEN owed' = Owes(task[t].run, inv, "none") /\ task' = Leaving(t, "returned")
       ELSE task' = Leaving(t, "raised") /\ UNCHANGED owed
  /\ UNCHANGED <<inv, run, callVars, apprVars, proc, crashes, histVars>>

FinaliseCancel(t) ==
  /\ AtBoundary(t) /\ RunOf(t) = "cancel_requested" /\ ~Gone(inv)
  /\ owed' = Owes(task[t].run, "cancelled",
                  IF inv = "cancel_requested" THEN "cancelled" ELSE "none")
  /\ task' = Leaving(t, "returned")
  /\ UNCHANGED <<inv, run, callVars, apprVars, proc, crashes, histVars>>

LeaveWaiting(t) ==
  /\ AtBoundary(t) /\ RunOf(t) = "waiting" /\ ~Gone(inv)
  /\ task' = Leaving(t, "returned")
  /\ UNCHANGED <<inv, run, owed, callVars, apprVars, proc, crashes, histVars>>

\* A paused run moves back to RUNNING, and so must the investigation; when that
\* is RUNNING already, the second move raises.
Unpause(t) ==
  /\ AtBoundary(t) /\ RunOf(t) \in Paused /\ ~Gone(inv)
  /\ RunThenInv(t, "running", "running")
  /\ task' = IF Legal(t, "running", "running") THEN task ELSE Leaving(t, "raised")
  /\ UNCHANGED <<inv, run, callVars, apprVars, proc, crashes, histVars>>

FirstStep(t) ==
  /\ AtBoundary(t) /\ RunOf(t) = "created" /\ ~Gone(inv)
  /\ owed' = Owes(task[t].run, "running", "none")
  /\ UNCHANGED <<inv, run, callVars, apprVars, task, proc, crashes, histVars>>

\* A budget check fails, or the investigation is not executable, or the
\* transcript cannot be written or read.
PauseRound(t, s) ==
  /\ AtBoundary(t) /\ RunOf(t) = "running" /\ ~Gone(inv)
  /\ inv = "running" \/ s = "paused"
  /\ StopWith(t, s)
  /\ UNCHANGED <<inv, run, callVars, apprVars, proc, crashes, histVars>>

CallProvider(t) ==
  /\ AtBoundary(t) /\ RunOf(t) = "running" /\ inv = "running"
  /\ task' = At(t, "provider")
  /\ UNCHANGED <<inv, run, owed, callVars, apprVars, proc, crashes, histVars>>

-----------------------------------------------------------------------------
(* The provider answers. *)

Answered(t) == task[t].pc = "provider" /\ Quiet

\* Any provider error that is not retried.
ProviderFails(t) ==
  /\ Answered(t)
  /\ StopWith(t, "failed")
  /\ UNCHANGED <<inv, run, callVars, apprVars, proc, crashes, histVars>>

\* update_agent_run replaces the row only if its status is the one read before
\* the provider call; ConcurrentModification is not caught in the loop.
StaleAnswer(t) ==
  /\ Answered(t) /\ RunOf(t) # "running"
  /\ task' = Leaving(t, "raised")
  /\ UNCHANGED <<inv, run, owed, callVars, apprVars, proc, crashes, histVars>>

\* A turn without tool use or stop signal.
NextRound(t) ==
  /\ Answered(t) /\ RunOf(t) = "running"
  /\ task' = At(t, "boundary")
  /\ UNCHANGED <<inv, run, owed, callVars, apprVars, proc, crashes, histVars>>

\* _handle_stop, the prompt-too-long pause and the pauses that end a round.
ProviderStops(t, s) ==
  /\ Answered(t) /\ RunOf(t) = "running"
  /\ StopWith(t, s)
  /\ UNCHANGED <<inv, run, callVars, apprVars, proc, crashes, histVars>>

\* The CANCELLED stop goes through CANCEL_REQUESTED on both rows; the rows in
\* between are the ones recovery finalises in the same way.
ProviderCancels(t) ==
  /\ Answered(t) /\ RunOf(t) = "running"
  /\ owed' = Owes(task[t].run, "cancelled",
                  IF "cancel_requested" \in Moves[inv] THEN "cancelled" ELSE "none")
  /\ task' = Leaving(t, IF "cancel_requested" \in Moves[inv] THEN "returned"
                        ELSE "raised")
  /\ UNCHANGED <<inv, run, callVars, apprVars, proc, crashes, histVars>>

\* _execute_batch: the call is persisted PLANNED, then RUNNING, then executed.
PlanCall(t, c) ==
  /\ Answered(t) /\ RunOf(t) = "running" /\ inv = "running"
  /\ call[c] = "absent"
  /\ call' = [call EXCEPT ![c] = "planned"]
  /\ owner' = [owner EXCEPT ![c] = task[t].run]
  /\ task' = [task EXCEPT ![t] = Coroutine("planned", @.run, c, @.appr)]
  /\ UNCHANGED <<inv, run, owed, bound, apprVars, proc, crashes, histVars>>

StartCall(t) ==
  /\ task[t].pc = "planned" /\ owed = NothingOwed
  /\ call' = [call EXCEPT ![task[t].call] = "running"]
  /\ task' = At(t, "tool")
  /\ UNCHANGED <<inv, run, owed, owner, bound, apprVars, proc, crashes, histVars>>

-----------------------------------------------------------------------------
(* The tool executor, called by the loop without an approval. *)

\* Gateway.shell, Gateway.docker_action and _approval_for_changeset.
RequestApproval(t) ==
  /\ task[t].pc = "tool" /\ Quiet /\ task[t].call \in NeedsApproval
  /\ appr' = [appr EXCEPT ![task[t].call] = "pending"]
  /\ task' = At(t, "requested")
  /\ UNCHANGED <<inv, run, owed, callVars, lapsed, down, proc, crashes, histVars>>

\* Mutant: the gateway does not look at the risk of the request.
RunToolAlways(t) ==
  /\ task[t].pc = "tool" /\ Quiet
  /\ effects' = [effects EXCEPT ![task[t].call] = @ + 1]
  /\ task' = At(t, "done")
  /\ UNCHANGED <<inv, run, owed, callVars, apprVars, proc, crashes, killed>>

RunTool(t) ==
  /\ task[t].pc = "tool" /\ Quiet /\ task[t].call \notin NeedsApproval
  /\ effects' = [effects EXCEPT ![task[t].call] = @ + 1]
  /\ task' = At(t, "done")
  /\ UNCHANGED <<inv, run, owed, callVars, apprVars, proc, crashes, killed>>

\* _pause_round: a round that is no longer running is not paused again.
PauseRoundWith(t, s) ==
  IF RunOf(t) = "running" THEN StopWith(t, s)
  ELSE task' = Leaving(t, "returned") /\ UNCHANGED owed

\* _fold_tool_outcome of a call that waits for approval.
FoldWaiting(t) ==
  /\ task[t].pc = "requested" /\ Quiet
  /\ call' = [call EXCEPT ![task[t].call] = "waiting"]
  /\ bound' = bound \cup {task[t].call}
  /\ PauseRoundWith(t, "waiting")
  /\ UNCHANGED <<inv, run, owner, apprVars, proc, crashes, histVars>>

\* The outcomes a tool may report; only one that had its effect succeeds.
Outcomes(pc) == {"failed", "uncertain"}
                  \cup (IF pc \in {"done", "applied"} THEN {"succeeded"} ELSE {})

Fold(t, o) ==
  /\ task[t].pc \in {"tool", "done"} /\ Quiet /\ o \in Outcomes(task[t].pc)
  /\ call' = [call EXCEPT ![task[t].call] = o]
  /\ IF o = "uncertain"
       THEN PauseRoundWith(t, "paused_uncertain")
       ELSE task' = [task EXCEPT ![t] = Coroutine("boundary", @.run, None, @.appr)]
            /\ UNCHANGED owed
  /\ UNCHANGED <<inv, run, owner, bound, apprVars, proc, crashes, histVars>>

\* The output or evidence budget is exceeded by this outcome.
FoldOverBudget(t, o) ==
  /\ task[t].pc \in {"tool", "done"} /\ Quiet /\ o \in Outcomes(task[t].pc)
  /\ call' = [call EXCEPT ![task[t].call] = o]
  /\ PauseRoundWith(t, "paused")
  /\ UNCHANGED <<inv, run, owner, bound, apprVars, proc, crashes, histVars>>

-----------------------------------------------------------------------------
(* The decision path: _run_downstream and handle_approval_decision. *)

MarkProcessing(t) ==
  /\ task[t].pc = "decided" /\ Quiet
  /\ down' = [down EXCEPT ![task[t].appr] = "processing"]
  /\ task' = At(t, "handling")
  /\ UNCHANGED <<inv, run, owed, callVars, appr, lapsed, proc, crashes, histVars>>

Handling(t) == task[t].pc = "handling" /\ owed = NothingOwed

\* Mutant: the calls are selected by approval id, whatever their status.
MatchedById(c) == c \in bound

\* list_waiting_approval_tool_calls holds a call with this approval id.
Matched(c) == call[c] = "waiting" /\ c \in bound

HandleUnmatched(t) ==
  /\ Handling(t) /\ ~Matched(task[t].appr)
  /\ task' = At(t, "unmatched")
  /\ UNCHANGED <<inv, run, owed, callVars, apprVars, proc, crashes, histVars>>

HandleRejected(t) ==
  /\ Handling(t) /\ Matched(task[t].appr) /\ appr[task[t].appr] = "rejected"
  /\ call' = [call EXCEPT ![task[t].appr] = "cancelled"]
  /\ task' = [task EXCEPT ![t] = Coroutine("resuming", owner[@.appr], None, @.appr)]
  /\ UNCHANGED <<inv, run, owed, owner, bound, apprVars, proc, crashes, histVars>>

\* Mutant: the investigation and the run are not looked at again.
NeverCancelPending(c) == FALSE

\* _run_cancel_pending.
RunCancelPending(c) ==
  \/ run[owner[c]] \in RunTerminal \cup {"cancel_requested"}
  \/ inv \in RunTerminal \cup {"cancel_requested"}

HandleCancelled(t) ==
  /\ Handling(t) /\ Matched(task[t].appr) /\ appr[task[t].appr] = "approved"
  /\ RunCancelPending(task[t].appr)
  /\ call' = [call EXCEPT ![task[t].appr] = "cancelled"]
  /\ task' = At(t, "returned")
  /\ UNCHANGED <<inv, run, owed, owner, bound, apprVars, proc, crashes, histVars>>

HandleApproved(t) ==
  /\ Handling(t) /\ Matched(task[t].appr) /\ appr[task[t].appr] = "approved"
  /\ ~RunCancelPending(task[t].appr)
  /\ call' = [call EXCEPT ![task[t].appr] = "running"]
  /\ task' = [task EXCEPT ![t] = Coroutine("executing", owner[@.appr], @.appr,
                                             @.appr)]
  /\ UNCHANGED <<inv, run, owed, owner, bound, apprVars, proc, crashes, histVars>>

\* The WHERE clause of ApprovalStore.consume.
Consumable(c) == appr[c] = "approved" /\ c \notin lapsed

Consume(t) ==
  /\ task[t].pc = "executing" /\ Quiet /\ Consumable(task[t].call)
  /\ appr' = [appr EXCEPT ![task[t].call] = "consumed"]
  /\ task' = At(t, "consumed")
  /\ UNCHANGED <<inv, run, owed, callVars, lapsed, down, proc, crashes, histVars>>

\* ApprovalUnavailable: the executor reports WAITING_APPROVAL and the call fails.
ConsumeRefused(t) ==
  /\ task[t].pc = "executing" /\ Quiet /\ ~Consumable(task[t].call)
  /\ call' = [call EXCEPT ![task[t].call] = "failed"]
  /\ task' = [task EXCEPT ![t] = Coroutine("resuming", @.run, None, @.appr)]
  /\ UNCHANGED <<inv, run, owed, owner, bound, apprVars, proc, crashes, histVars>>

RunApprovedTool(t) ==
  /\ task[t].pc = "consumed" /\ Quiet
  /\ effects' = [effects EXCEPT ![task[t].call] = @ + 1]
  /\ task' = At(t, "applied")
  /\ UNCHANGED <<inv, run, owed, callVars, apprVars, proc, crashes, killed>>

\* The outcome is persisted.  An uncertain one parks run and investigation
\* (_park_uncertain_after_tool, by way of RUNNING), any other one resumes.
Land(t, o) ==
  /\ task[t].pc \in {"executing", "consumed", "applied"} /\ Quiet
  /\ o \in Outcomes(task[t].pc)
  /\ call' = [call EXCEPT ![task[t].call] = o]
  /\ owed' = IF o # "uncertain" THEN NothingOwed
             ELSE Owes(task[t].run,
                       IF RunOf(t) \in {"waiting", "running"}
                         THEN "paused_uncertain" ELSE "none",
                       IF inv \in {"waiting", "running"}
                         THEN "paused_uncertain" ELSE "none")
  /\ task' = [task EXCEPT ![t] =
                Coroutine(IF o = "uncertain" THEN "returned" ELSE "resuming",
                          @.run, None, @.appr)]
  /\ UNCHANGED <<inv, run, owner, bound, apprVars, proc, crashes, histVars>>

\* _resume_after_decision: a WAITING run and its WAITING investigation move to
\* RUNNING, a paused run goes to the loop as it is, any other run is left.
ResumeAfterDecision(t) ==
  /\ task[t].pc = "resuming" /\ owed = NothingOwed
  /\ owed' = IF RunOf(t) # "waiting" THEN NothingOwed
             ELSE Owes(task[t].run, "running",
                       IF inv = "waiting" THEN "running" ELSE "none")
  /\ task' = At(t, IF RunOf(t) \in Paused \cup {"waiting"} THEN "boundary" ELSE "returned")
  /\ UNCHANGED <<inv, run, callVars, apprVars, proc, crashes, histVars>>

\* mark_downstream with the result of the handler.
MarkDownstream(t) ==
  /\ owed = NothingOwed /\ task[t].pc \in {"returned", "raised", "unmatched"}
  /\ down' = [down EXCEPT ![task[t].appr] =
                CASE task[t].pc = "returned" -> "processed"
                  [] task[t].pc = "raised"   -> "failed"
                  [] OTHER -> "not_applicable"]
  /\ task' = [task EXCEPT ![t] = NoTask]
  /\ UNCHANGED <<inv, run, owed, callVars, appr, lapsed, proc, crashes, histVars>>

-----------------------------------------------------------------------------
(* Crash, startup recovery, orderly shutdown. *)

AllOff == \A t \in Tasks : task[t] = NoTask

Crash ==
  /\ proc # "down" /\ crashes < MaxCrashes
  /\ crashes' = crashes + 1
  /\ proc' = "down"
  /\ owed' = NothingOwed
  /\ task' = [t \in Tasks |-> NoTask]
  /\ killed' = killed \cup {task[t].call : t \in {u \in Tasks : task[u].pc \in Executes}}
  /\ UNCHANGED <<inv, run, callVars, apprVars, effects>>

\* _classify_in_flight and the first part of _sweep_run_tool_calls.
Repaired(c) == IF c \in Dangerous THEN "uncertain" ELSE "failed"

\* Mutant: waiting calls get the status that waiting runs get.
SweptAsRuns(r) ==
  [c \in Calls |-> IF owner[c] # r THEN call[c]
                   ELSE CASE call[c] = "running" -> Repaired(c)
                          [] call[c] \in {"waiting", "planned"} -> "cancel_requested"
                          [] OTHER -> call[c]]

\* _sweep_run_tool_calls.
Swept(r) ==
  [c \in Calls |-> IF owner[c] # r THEN call[c]
                   ELSE CASE call[c] = "running" -> Repaired(c)
                          [] call[c] \in {"waiting", "planned"} -> "cancelled"
                          [] OTHER -> call[c]]

\* startup: _finalise_cancel_requested comes first.
Boot ==
  LET swept == /\ ~Gone(inv) /\ LiveRun # None
               /\ "cancel_requested" \in {inv, run[LiveRun]}
  IN /\ proc = "down"
     /\ proc' = "reconciling"
     /\ call' = IF swept THEN Swept(LiveRun) ELSE call
     /\ owed' = Owes(LiveRun, IF swept THEN "cancelled" ELSE "none",
                     IF inv = "cancel_requested" THEN "cancelled" ELSE "none")
     /\ UNCHANGED <<inv, run, owner, bound, apprVars, task, crashes, histVars>>

\* _reconcile_decided_approvals: one approval after the other, each awaited to
\* the end of the loop it may resume.
Reconcilable(c) ==
  /\ appr[c] \in {"approved", "rejected"}
  /\ ~(c \in bound /\ call[c] \in CallTerminal)
  /\ down[c] \in {"pending", "processing"} \/ Matched(c)

Reconcile(t, c) ==
  /\ proc = "reconciling" /\ Quiet /\ AllOff /\ Reconcilable(c)
  /\ down' = [down EXCEPT ![c] = "processing"]
  /\ task' = [task EXCEPT ![t] = Coroutine("handling", None, None, c)]
  /\ UNCHANGED <<inv, run, owed, callVars, appr, lapsed, proc, crashes, histVars>>

\* _classify_in_flight: the calls of the run that were left RUNNING.
Classified(r) ==
  [c \in Calls |-> IF owner[c] = r /\ call[c] = "running" THEN Repaired(c)
                   ELSE call[c]]

\* _park_uncertain.
ParkUncertain ==
  Owes(LiveRun, "paused_uncertain",
       IF inv = "running" THEN "paused_uncertain" ELSE "none")

\* _classify_in_flight_runs: runs that have ended, and investigations that have,
\* are passed over.
Classify ==
  LET live == ~Gone(inv) /\ LiveRun # None
      hurt == live /\ \E c \in Dangerous : owner[c] = LiveRun /\ call[c] = "running"
  IN /\ proc = "reconciling" /\ Quiet /\ AllOff
     /\ \A c \in Calls : ~Reconcilable(c)
     /\ call' = IF live THEN Classified(LiveRun) ELSE call
     /\ owed' = IF hurt /\ run[LiveRun] = "running" THEN ParkUncertain
                ELSE NothingOwed
     /\ proc' = "settling"
     /\ UNCHANGED <<inv, run, owner, bound, apprVars, task, crashes, histVars>>

\* Mutant: only the decided approvals are settled, not the consumed ones.
UnsettledDecided(c) ==
  /\ c \in bound /\ call[c] \in CallTerminal \ {"cancelled"}
  /\ appr[c] \in {"approved", "rejected"}
  /\ down[c] \in {"pending", "processing", "not_applicable"}

\* The two passes that settle approvals from the rows alone.
Unsettled(c) ==
  /\ c \in bound /\ call[c] \in CallTerminal \ {"cancelled"}
  /\ \/ /\ appr[c] \in {"approved", "rejected"}
        /\ down[c] \in {"pending", "processing", "not_applicable"}
     \/ appr[c] = "consumed" /\ down[c] = "processing"

\* The end of startup; badTail says that _validate_transcript_tails finds an
\* unpaired result and parks a RUNNING run.
SettleApprovals(badTail) ==
  /\ proc = "settling" /\ Quiet
  /\ down' = [c \in Calls |->
                IF ~Unsettled(c) THEN down[c]
                ELSE IF call[c] = "succeeded" THEN "processed" ELSE "failed"]
  /\ badTail => LiveRun # None /\ run[LiveRun] = "running"
  /\ owed' = IF badTail THEN ParkUncertain ELSE NothingOwed
  /\ proc' = "up"
  /\ UNCHANGED <<inv, run, callVars, appr, lapsed, task, crashes, histVars>>

\* Shutdown: HTTP requests are drained, the dispatcher lets its handlers finish
\* or cancels them.
BeginStop ==
  /\ proc = "up" /\ Quiet
  /\ proc' = "stopping"
  /\ UNCHANGED <<inv, run, owed, callVars, apprVars, task, crashes, histVars>>

KillTask(t) ==
  /\ proc = "stopping" /\ Quiet
  /\ task[t].pc \in LoopAwaits /\ task[t].appr = None
  /\ task' = [task EXCEPT ![t] = NoTask]
  /\ killed' = killed \cup (IF task[t].pc \in Executes THEN {task[t].call} ELSE {})
  /\ UNCHANGED <<inv, run, owed, callVars, apprVars, proc, crashes, effects>>

\* cancel_all_active.
CancelAll ==
  /\ proc = "stopping" /\ Quiet /\ AllOff
  /\ IF Gone(inv) THEN UNCHANGED <<inv, owed>> ELSE CancelInvestigation
  /\ proc' = "sweeping"
  /\ UNCHANGED <<run, callVars, apprVars, task, crashes, histVars>>

\* _sweep_shutdown.
SweepShutdown ==
  /\ proc = "sweeping" /\ Quiet /\ ~Gone(inv)
  /\ call' = IF LiveRun = None THEN call ELSE Swept(LiveRun)
  /\ owed' = Owes(LiveRun, IF LiveRun = None THEN "none" ELSE "cancelled",
                  "cancelled")
  /\ UNCHANGED <<inv, run, owner, bound, apprVars, task, proc, crashes, histVars>>

Exit ==
  /\ proc = "sweeping" /\ Quiet /\ Gone(inv)
  /\ proc' = "down"
  /\ UNCHANGED <<inv, run, owed, callVars, apprVars, task, crashes, histVars>>

-----------------------------------------------------------------------------

Section == CommitRun \/ CommitInv

Operator ==
  \/ Create \/ Cancel
  \/ \E t \in Tasks, r \in Runs : Start(t, r) \/ ResumeRun(t, r)
  \/ \E t \in Tasks, c \in Calls :
        \/ \E d \in {"approved", "rejected"} : Decide(t, c, d)
        \/ RetryDecision(t, c)
  \/ \E c \in Calls : Lapse(c)

Loop(t) ==
  \/ LeaveTerminal(t) \/ SyncRun(t) \/ FinaliseCancel(t) \/ LeaveWaiting(t) \/ Unpause(t)
  \/ FirstStep(t) \/ CallProvider(t)
  \/ \E s \in Paused : PauseRound(t, s)
  \/ ProviderFails(t) \/ StaleAnswer(t) \/ NextRound(t) \/ ProviderCancels(t)
  \/ \E s \in Paused \cup {"waiting", "completed", "failed"} : ProviderStops(t, s)
  \/ \E c \in Calls : PlanCall(t, c)
  \/ StartCall(t) \/ RequestApproval(t) \/ RunTool(t) \/ FoldWaiting(t)
  \/ \E o \in CallTerminal : Fold(t, o) \/ FoldOverBudget(t, o)

Decision(t) ==
  \/ MarkProcessing(t) \/ HandleUnmatched(t) \/ HandleRejected(t)
  \/ HandleCancelled(t) \/ HandleApproved(t)
  \/ Consume(t) \/ ConsumeRefused(t) \/ RunApprovedTool(t)
  \/ \E o \in CallTerminal : Land(t, o)
  \/ ResumeAfterDecision(t) \/ MarkDownstream(t)

Process ==
  \/ Crash \/ Boot \/ Classify \/ BeginStop \/ CancelAll \/ SweepShutdown \/ Exit
  \/ \E t \in Tasks, c \in Calls : Reconcile(t, c)
  \/ \E badTail \in BOOLEAN : SettleApprovals(badTail)
  \/ \E t \in Tasks : KillTask(t)

Next == Section \/ Operator \/ (\E t \in Tasks : Loop(t) \/ Decision(t)) \/ Process

Spec == Init /\ [][Next]_vars

-----------------------------------------------------------------------------
(***************************************************************************)
(* Properties.                                                             *)
(***************************************************************************)

Executing(c) == {t \in Tasks : task[t].pc \in Executes /\ task[t].call = c}

\* Two coroutines never execute one call, and a call that is being executed
\* is RUNNING: the outcome of _execute_batch and of _handle_tool_approval can
\* always be persisted (RUNNING -> outcome is legal), whatever recovery, a
\* second decision, a cancel or another loop on the same run did meanwhile.
ExclusiveExecution ==
  /\ \A t \in Tasks : task[t].pc \in Executes => call[task[t].call] = "running"
  /\ \A c \in Calls : \A t, u \in Executing(c) : t = u

\* No call reaches the remote side twice: not after a crash in the middle of
\* it, not through a repeated decision, not through startup reconciliation
\* ("Such a call is never replayed", recovery.py).
AtMostOneEffect == \A c \in Calls : effects[c] <= 1

\* A call is executed by one coroutine and takes effect once, over all loops,
\* decisions and restarts.
ExecutesOnce == ExclusiveExecution /\ AtMostOneEffect

\* A call that policy routes through an approval has its effect only after that
\* approval was granted in time and spent (the gateway consumes it just before).
EffectNeedsGrant ==
  \A c \in NeedsApproval : effects[c] > 0 => appr[c] = "consumed"

\* An investigation ends after its runs: below one that has ended there is no
\* run that could go on working, at most one that is parked for cancellation
\* (the loop of an older, cancelled run may finalise the investigation first).
EndsAfterItsRuns == Gone(inv) => \A r \in Live : run[r] = "cancel_requested"

\* Once the API is served, every RUNNING call of a run and an investigation that
\* have not ended is really being executed: recovery left none behind.
NoGhostCalls ==
  proc = "up" /\ ~Gone(inv) =>
    \A c \in Calls : call[c] = "running" /\ owner[c] \in Live => Executing(c) # {}

\* Once the API is served, a spent approval whose call has ended is settled, or
\* a coroutine is about to settle it.
SpentIsSettled ==
  proc = "up" =>
    \A c \in Calls :
      (appr[c] = "consumed" /\ call[c] # "running" /\ down[c] = "processing")
      => \E t \in Tasks : task[t].appr = c

\* The operator's cancel wins: from the moment it is recorded, no call starts,
\* neither in a loop nor by an approval that arrives late (_run_cancel_pending).
CancelStartsNothing ==
  [][\A c \in Calls :
       inv \in {"cancel_requested", "cancelled"} /\ call[c] # "running"
       => call'[c] # "running"]_vars

\* A dangerous call that was under way when its coroutine was killed, by a crash
\* or by the shutdown, is UNCERTAIN once the API is served again (recovery.py: "it
\* is parked UNCERTAIN").  A call whose run had already been ended by another
\* loop is passed over: it stays RUNNING.
InterruptedIsUncertain ==
  proc = "up" =>
    \A c \in killed \cap Dangerous :
      call[c] = "uncertain" \/ (call[c] = "running" /\ (Gone(inv) \/ owner[c] \notin Live))

\* Startup and shutdown leave nothing half done: no call that nobody executes,
\* no spent approval without its outcome, no interrupted call taken for done, and
\* no run at work below an investigation that has ended.
NothingLeftBehind ==
  /\ NoGhostCalls
  /\ SpentIsSettled
  /\ InterruptedIsUncertain
  /\ EndsAfterItsRuns

=============================================================================
