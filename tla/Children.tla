------------------------------ MODULE Children ------------------------------
(***************************************************************************)
(* A parent run and the child runs it delegates: the part of               *)
(* investigation/orchestrator.py that spawns, drains and reports children, *)
(* the delegated tasks and report receipts of investigation/store.py, the  *)
(* budget of investigation/delegation.py, and what recovery.py does with   *)
(* them after a crash.                                                     *)
(*                                                                         *)
(* The event loop is single threaded: between two awaits nobody else runs, *)
(* so a step of the loop at "top", "drained" or "reconcile", and a child   *)
(* whose report is owed, go on before anything else.  Only a crash comes   *)
(* between their commits.  The investigation follows its parent run        *)
(* (AgentRun has the pair); PAUSED_* is one status.  Durable operations    *)
(* let one loop of the parent run at a time.                               *)
(***************************************************************************)
EXTENDS Integers, Sequences, FiniteSets

CONSTANTS
  Child,        \* child run ids the model may choose
  MaxChildren,  \* investigation.budget.max_children
  ChildLimit,   \* global_child_limit
  MaxEvidence,  \* parent.budget.max_evidence
  NoTask,       \* no report is owed
  MaxRounds, MaxResumes, MaxCrashes   \* bounds on the behaviours explored

ASSUME ChildrenBounds ==
  /\ {MaxChildren, MaxEvidence, MaxRounds, MaxResumes, MaxCrashes} \subseteq Nat
  /\ ChildLimit \in Nat \ {0}
  /\ NoTask \notin Child \X {1, 2}

VARIABLES
  parent,     \* status of the parent run
  run,        \* status of each child run
  pkg,        \* delegated_tasks: children with a package
  usage,      \* investigation.usage.children
  loop, then, \* where the parent's loop is, and what follows its gather
  pend,       \* pending_children of that loop
  task,       \* the child tasks: two of one child can be alive
  owed,       \* the task that has ended and has its report to write
  filed,      \* child_report_receipts in the order they were put
  rep,        \* status of the report in the receipt
  seen,       \* receipts with delivered_at
  notes,      \* history: notifications in the parent's transcript
  own,        \* evidence of the parent that is not from children
  rounds, resumes, crashes,
  windows     \* history: the unprotected windows this behaviour went through

store   == <<parent, run, pkg, usage, filed, rep, seen, notes, own>>
local   == <<loop, then, pend, task, owed>>
counts  == <<rounds, resumes, crashes>>
vars    == <<store, local, counts, windows>>

Terminal == {"cancelled", "failed", "completed"}
Status   == Terminal \cup {"created", "running", "waiting_children",
                           "waiting_approval", "paused", "cancel_requested"}
Tasks    == Child \X {1, 2}

\* AGENT_RUN_TRANSITIONS.  No status is its own successor.
Moves ==
  [s \in Status |->
     CASE s = "created" -> {"running", "failed", "cancelled"}
       [] s = "running" -> Status \ {"created", "running", "cancelled"}
       [] s = "cancel_requested" -> {"cancelled", "failed"}
       [] s \in Terminal -> {}
       [] OTHER -> {"running", "cancel_requested", "failed"}]

TypeOK ==
  /\ parent \in Status /\ run \in [Child -> Status \cup {"absent"}]
  /\ pkg \subseteq Child /\ usage \in Nat
  /\ loop \in {"off", "yield", "top", "turn", "tools", "gather", "drained", "await",
               "finish", "reconcile", "down"}
  /\ then \in {"none", "pause", "fail", "complete", "cancel"}
  /\ pend \subseteq Tasks
  /\ task \in [Tasks -> {"none", "queued", "running", "direct", "done"}]
  /\ owed \in Tasks \cup {NoTask}
  /\ filed \in Seq(Child) /\ rep \in [Child -> {"none", "complete", "partial"}]
  /\ seen \subseteq Child /\ notes \in [Child -> Nat] /\ own \in Nat
  /\ {rounds, resumes, crashes} \subseteq Nat

Init ==
  /\ parent = "created" /\ run = [c \in Child |-> "absent"]
  /\ pkg = {} /\ usage = 0
  /\ loop = "yield" /\ then = "none" /\ pend = {}
  /\ task = [t \in Tasks |-> "none"] /\ owed = NoTask
  /\ filed = <<>> /\ rep = [c \in Child |-> "none"]
  /\ seen = {} /\ notes = [c \in Child |-> 0] /\ own = 0
  /\ rounds = 0 /\ resumes = 0 /\ crashes = 0 /\ windows = {}

-----------------------------------------------------------------------------
(* Tasks. *)

Live(t) == task[t] \in {"queued", "running", "direct"}

\* Nobody is in the middle of a section without awaits.
Free == owed = NoTask /\ loop \notin {"top", "drained", "finish", "reconcile", "down"}

PendingChild(c) == \E t \in pend : t[1] = c

\* The task that a new loop of c would be: the second one only while another
\* is alive.
Slot(c) == IF Live(<<c, 1>>) THEN <<c, 2>> ELSE <<c, 1>>

\* _build_child_run: the status of the row; it runs nothing yet.
NewRun == "created"

\* create_agent_run: AlreadyExists leaves a run that exists as it is.
Created(C) == [c \in Child |-> IF c \in C /\ run[c] = "absent" THEN NewRun ELSE run[c]]

\* _spawn_child_from_package for each package of C.
Spawn(C) ==
  LET new == {c \in C : ~PendingChild(c)}
  IN /\ run' = Created(C)
     /\ pend' = pend \cup {Slot(c) : c \in new}
     /\ task' = [t \in Tasks |-> IF t[1] \in new /\ t = Slot(t[1]) THEN "queued"
                                 ELSE task[t]]
     /\ windows' = windows
          \cup (IF \E c \in new : Live(<<c, 1>>) THEN {"two_loops"} ELSE {})
          \cup (IF \E c \in new : rep[c] # "none" THEN {"again"} ELSE {})
          \cup (IF new # {} /\ parent = "cancel_requested" THEN {"late_spawn"} ELSE {})

\* The semaphore, and the start of the child's loop: a CREATED or paused run
\* moves to RUNNING, any other is left to the loop's next step.
ChildStarts(t) ==
  /\ Free /\ task[t] = "queued"
  /\ Cardinality({u \in Tasks : task[u] = "running"}) < ChildLimit
  /\ task' = [task EXCEPT ![t] = "running"]
  /\ run' = [run EXCEPT ![t[1]] = IF @ \in {"created", "paused"} THEN "running" ELSE @]
  /\ UNCHANGED <<parent, pkg, usage, filed, rep, seen, notes, own, loop, then, pend,
                 owed, counts, windows>>

\* Mutant: the child's loop does not look for a cancellation.
EndsDeaf(s) ==
  IF s = "running" THEN {"completed", "failed", "paused", "waiting_approval"}
  ELSE IF s = "cancel_requested" THEN {} ELSE {s}

\* How the child's loop can end.  A loop that was in a turn when its run was
\* cancelled raises, and _finalize_child_terminal leaves CANCEL_REQUESTED alone.
Ends(s) ==
  IF s = "running" THEN {"completed", "failed", "paused", "waiting_approval"}
  ELSE IF s = "cancel_requested" THEN {"cancelled", "cancel_requested"} ELSE {s}

\* The end of _run_loop inside _run_child, or of the loop that an approval
\* decision resumed; only the first has a report to write.
ChildEnds(t) ==
  /\ Free /\ task[t] \in {"running", "direct"}
  /\ \E s \in Ends(run[t[1]]) : run' = [run EXCEPT ![t[1]] = s]
  /\ task' = [task EXCEPT ![t] = "done"]
  /\ owed' = IF task[t] = "running" THEN t ELSE NoTask
  /\ UNCHANGED <<parent, pkg, usage, filed, rep, seen, notes, own, loop, then, pend,
                 counts, windows>>

\* _build_child_report: COMPLETE only for a COMPLETED run.
ReportStatus(c) == IF run[c] = "completed" THEN "complete" ELSE "partial"

\* _ensure_child_report_receipt and put_child_report_receipt: append once.
PutReceipt(c) ==
  /\ filed' = IF rep[c] = "none" THEN Append(filed, c) ELSE filed
  /\ rep' = [rep EXCEPT ![c] = IF @ = "none" THEN ReportStatus(c) ELSE @]

WriteReport ==
  /\ owed # NoTask /\ loop # "down"
  /\ PutReceipt(owed[1])
  /\ owed' = NoTask
  /\ UNCHANGED <<parent, run, pkg, usage, seen, notes, own, loop, then, pend, task,
                 counts, windows>>

\* handle_decision on the child's own call: the run goes on outside _run_child.
DecideChild(c) ==
  /\ Free /\ run[c] = "waiting_approval" /\ resumes < MaxResumes
  /\ resumes' = resumes + 1
  /\ run' = [run EXCEPT ![c] = "running"]
  /\ task' = [task EXCEPT ![Slot(c)] = "direct"]
  /\ windows' = windows \cup {"direct"}
  /\ UNCHANGED <<parent, pkg, usage, filed, rep, seen, notes, own, loop, then, pend,
                 owed, rounds, crashes>>

-----------------------------------------------------------------------------
(* Delivery of receipts. *)

\* list_undelivered_child_report_receipts: places in the order of filing.
Undelivered == {i \in DOMAIN filed : filed[i] \notin seen}

\* _append_evidence: the guard of the run's evidence budget.
Room == own + Cardinality(seen) < MaxEvidence

Delivering == loop \in {"top", "drained", "reconcile"} /\ owed = NoTask

\* Mutant: delivered_at is left to a later commit.
Unmarked(c) == notes' = [notes EXCEPT ![c] = @ + 1] /\ seen' = seen

\* deliver_child_report_receipt: notification, evidence, usage and delivered_at
\* in one transaction.
Attach(c) == notes' = [notes EXCEPT ![c] = @ + 1] /\ seen' = seen \cup {c}

\* _deliver_pending_child_reports: one receipt.
Deliver ==
  /\ Delivering /\ Room
  /\ \E i \in Undelivered :
       (\A j \in Undelivered : i <= j) /\ Attach(filed[i])
  /\ UNCHANGED <<parent, run, pkg, usage, filed, rep, own, local, counts, windows>>

\* The loop is left.  Its pending tasks go on without anybody to wait for them.
Leave ==
  /\ loop' = "off" /\ then' = "none" /\ pend' = {}

Orphans == IF \E t \in pend : Live(t) THEN {"orphaned"} ELSE {}

\* _run_loop_inner on _EvidenceBudgetExceeded: WAITING_CHILDREN goes through
\* RUNNING; for a run that is not running the pause is illegal and the loop ends
\* with that error.  Startup keeps the receipt for later.
CannotAttach ==
  /\ Delivering /\ Undelivered # {} /\ ~Room
  /\ parent' = IF loop # "reconcile" /\ parent \in {"running", "waiting_children"}
               THEN "paused" ELSE parent
  /\ windows' = windows \cup {"full"} \cup Orphans
  /\ Leave
  /\ UNCHANGED <<run, pkg, usage, filed, rep, seen, notes, own, task, owed, counts>>

-----------------------------------------------------------------------------
(* The parent's loop. *)

Unfinished == {t \in pend : task[t] # "done"}

\* _drain_completed_children.
DrainCompleted ==
  /\ loop = "top" /\ owed = NoTask /\ Undelivered = {} /\ Unfinished # pend
  /\ pend' = Unfinished
  /\ UNCHANGED <<store, loop, then, task, owed, counts, windows>>

AtTop == loop = "top" /\ owed = NoTask /\ Undelivered = {} /\ Unfinished = pend

\* Mutant: the loop stops without a look at its children.
StopNow(s, what) ==
  /\ loop' = "finish" /\ pend' = {} /\ then' = what /\ UNCHANGED <<parent, windows>>

\* _drain_all_children up to its gather, for a run the caller read in status s.
\* Without pending children nothing is delivered.  The transition of a run that
\* was cancelled since is illegal, and the loop ends with that error.
DrainAll(s, what) ==
  IF pend = {} THEN /\ loop' = "finish" /\ then' = what
                    /\ UNCHANGED <<pend, parent, windows>>
  ELSE IF s = "running" /\ parent # "running"
  THEN Leave /\ UNCHANGED parent /\ windows' = windows \cup {"stranded"} \cup Orphans
  ELSE /\ loop' = "gather" /\ then' = what
       /\ parent' = IF s = "running" THEN "waiting_children" ELSE parent
       /\ UNCHANGED <<pend, windows>>

\* The sleep(0) that begins every step: others run, a cancellation among them.
Wake ==
  /\ loop = "yield" /\ owed = NoTask
  /\ loop' = "top"
  /\ UNCHANGED <<store, then, pend, task, owed, counts, windows>>

\* The part of _loop_step before the budget checks.
TopEnded ==
  /\ AtTop /\ parent \in Terminal \cup {"waiting_approval"}
  /\ windows' = windows \cup Orphans
  /\ Leave
  /\ UNCHANGED <<store, task, owed, counts>>

TopCancelled ==
  /\ AtTop /\ parent = "cancel_requested"
  /\ DrainAll("cancel_requested", "cancel")
  /\ UNCHANGED <<run, pkg, usage, filed, rep, seen, notes, own, task, owed, counts>>

TopStarts ==
  /\ AtTop /\ parent \in {"created", "paused"}
  /\ parent' = "running"
  /\ loop' = "yield"
  /\ UNCHANGED <<run, pkg, usage, filed, rep, seen, notes, own, then, pend, task, owed,
                 counts, windows>>

\* _resume_waiting_children.
TopWaiting ==
  /\ AtTop /\ parent = "waiting_children"
  /\ IF pend # {} THEN loop' = "await" /\ UNCHANGED <<parent, run, pend, task, windows>>
     ELSE LET back == {c \in pkg : run[c] \notin Terminal \cup {"absent"}}
          IN IF back = {}
             THEN /\ parent' = "running" /\ loop' = "yield"
                  /\ UNCHANGED <<run, pend, task, windows>>
             ELSE Spawn(back) /\ loop' = "yield" /\ UNCHANGED parent
  /\ UNCHANGED <<pkg, usage, filed, rep, seen, notes, own, then, owed, counts>>

\* asyncio.wait(..., FIRST_COMPLETED).
OneFinished ==
  /\ loop = "await" /\ owed = NoTask /\ Unfinished # pend
  /\ loop' = "yield"
  /\ UNCHANGED <<store, then, pend, task, owed, counts, windows>>

\* check_before_model_turn refuses, or the turn goes to the provider.
BudgetStop ==
  /\ AtTop /\ parent = "running"
  /\ DrainAll("running", "pause")
  /\ UNCHANGED <<run, pkg, usage, filed, rep, seen, notes, own, task, owed, counts>>

Turn ==
  /\ AtTop /\ parent = "running" /\ rounds < MaxRounds
  /\ rounds' = rounds + 1
  /\ loop' = "turn"
  /\ UNCHANGED <<store, then, pend, task, owed, resumes, crashes, windows>>

\* update_agent_run after the turn, on a run that was cancelled meanwhile, is a
\* ConcurrentModification: the loop ends, the run stays CANCEL_REQUESTED.
TurnStale ==
  /\ loop = "turn" /\ owed = NoTask /\ parent # "running"
  /\ windows' = windows \cup {"stranded"} \cup Orphans
  /\ Leave
  /\ UNCHANGED <<store, task, owed, counts>>

Answered == loop = "turn" /\ owed = NoTask /\ parent = "running"

\* A stop signal with a grounded conclusion, or without one.
TurnStops ==
  /\ Answered
  /\ \E what \in {"complete", "pause"} : DrainAll("running", what)
  /\ UNCHANGED <<run, pkg, usage, filed, rep, seen, notes, own, task, owed, counts>>

\* ProviderCrash, ProviderError: the run is not read again before the drain.
TurnFails ==
  /\ loop = "turn" /\ owed = NoTask
  /\ DrainAll("running", "fail")
  /\ UNCHANGED <<run, pkg, usage, filed, rep, seen, notes, own, task, owed, counts>>

\* compact_context, a prompt that stays too long, a delegation beyond the budget:
\* the run pauses and the loop returns with its children under way.  Any other
\* rejected delegation fails the run.
TurnPauses ==
  /\ Answered
  /\ parent' \in {"paused", "failed"}
  /\ windows' = windows \cup Orphans
  /\ Leave
  /\ UNCHANGED <<run, pkg, usage, filed, rep, seen, notes, own, task, owed, counts>>

\* Hypotheses only.
TurnThinks ==
  /\ Answered
  /\ loop' = "yield"
  /\ UNCHANGED <<store, then, pend, task, owed, counts, windows>>

\* _bounded_budget: a parent with no room for evidence has none to give to a
\* child.  (The other axes of the budget are not counted here.)
Envelope == Room

\* DelegationValidator.prepare, can_spawn_child.
MaySpawn == usage < MaxChildren /\ Envelope

\* create_delegated_task: the id of the child is the key of the table.
NewPackage(c) == c \notin pkg

\* _delegate_child: a package that exists is taken for this one, and the usage
\* grows again.
Delegate(c) ==
  /\ Answered /\ MaySpawn
  /\ ~(Live(<<c, 1>>) /\ Live(<<c, 2>>))
  /\ pkg' = pkg \cup {c} /\ usage' = usage + 1
  /\ Spawn({c})
  /\ loop' = "yield"
  /\ UNCHANGED <<parent, filed, rep, seen, notes, own, then, owed, counts>>

CallTools ==
  /\ Answered
  /\ loop' = "tools"
  /\ UNCHANGED <<store, then, pend, task, owed, counts, windows>>

\* _handle_delegate_child: a package that exists fails the call.
DelegateTool(c) ==
  /\ loop = "tools" /\ owed = NoTask /\ MaySpawn /\ NewPackage(c)
  /\ pkg' = pkg \cup {c} /\ usage' = usage + 1
  /\ UNCHANGED <<parent, run, filed, rep, seen, notes, own, local, counts, windows>>

\* _spawn_delegated_packages.
Unspawned == {c \in pkg : run[c] = "absent"}

\* The calls have ended: with new evidence or not, and then the round stops the
\* run (approval, uncertain outcome, evidence budget) or the loop goes on.
ToolsEnd ==
  /\ loop = "tools" /\ owed = NoTask /\ parent = "running"
  /\ own' \in IF Room THEN {own, own + 1} ELSE {own}
  /\ \/ /\ parent' \in {"waiting_approval", "paused"}
        /\ windows' = windows \cup Orphans
             \cup (IF Unspawned # {} THEN {"unspawned"} ELSE {})
        /\ Leave /\ UNCHANGED <<run, task>>
     \/ Spawn(Unspawned) /\ loop' = "yield" /\ UNCHANGED <<parent, then>>
  /\ UNCHANGED <<pkg, usage, filed, rep, seen, notes, owed, counts>>

\* The results of a run cancelled meanwhile are folded.  A call that asks for an
\* approval stops the loop without a pause; otherwise packages are spawned and
\* the next step sees the request.
ToolsStale ==
  /\ loop = "tools" /\ owed = NoTask /\ parent # "running"
  /\ \/ /\ Leave /\ windows' = windows \cup {"stranded"} \cup Orphans
        /\ UNCHANGED <<run, task>>
     \/ Spawn(Unspawned) /\ loop' = "yield" /\ UNCHANGED then
  /\ UNCHANGED <<parent, pkg, usage, filed, rep, seen, notes, own, owed, counts>>

\* The end of the gather.  WAITING_CHILDREN -> RUNNING is illegal for a run
\* cancelled during it: the loop ends and the run stays CANCEL_REQUESTED.
GatherEnds ==
  /\ loop = "gather" /\ owed = NoTask /\ \A t \in pend : task[t] = "done"
  /\ IF then # "cancel" /\ parent # "waiting_children"
     THEN Leave /\ parent' = parent /\ windows' = windows \cup {"stranded"}
     ELSE /\ loop' = "drained" /\ pend' = {}
          /\ parent' = IF then = "cancel" THEN parent ELSE "running"
          /\ UNCHANGED <<then, windows>>
  /\ UNCHANGED <<run, pkg, usage, filed, rep, seen, notes, own, task, owed, counts>>

\* The status that ends the step: _handle_stop, _fail, _pause, the cancel.
Target == [pause |-> "paused", fail |-> "failed", complete |-> "completed",
           cancel |-> "cancelled"]

\* CANCEL_REQUESTED -> FAILED is legal: a failed turn without children ends so.
FinishLoop ==
  /\ owed = NoTask
  /\ loop = "finish" \/ (loop = "drained" /\ Undelivered = {})
  /\ parent' = IF Target[then] \in Moves[parent] THEN Target[then] ELSE parent
  /\ Leave
  /\ UNCHANGED <<run, pkg, usage, filed, rep, seen, notes, own, task, owed, counts, windows>>

-----------------------------------------------------------------------------
(* Operators, crash and restart. *)

\* service.start and resume_run; an approval decision moves a WAITING_APPROVAL
\* run to RUNNING first, without one the loop finds it as it was.
Resume ==
  /\ loop = "off" /\ owed = NoTask /\ parent \notin Terminal /\ resumes < MaxResumes
  /\ resumes' = resumes + 1
  /\ parent' \in {parent} \cup (IF parent = "waiting_approval" THEN {"running"} ELSE {})
  /\ loop' = "yield"
  /\ UNCHANGED <<run, pkg, usage, filed, rep, seen, notes, own, then, pend, task, owed,
                 rounds, crashes, windows>>

\* _park_run_for_cancel.
Parked(s) ==
  IF s = "created" THEN "cancelled"
  ELSE IF "cancel_requested" \in Moves[s] THEN "cancel_requested" ELSE s

Cancel ==
  /\ Free /\ parent \notin Terminal \cup {"cancel_requested"}
  /\ parent' = Parked(parent)
  /\ run' = [c \in Child |-> IF run[c] = "absent" THEN "absent" ELSE Parked(run[c])]
  /\ UNCHANGED <<pkg, usage, filed, rep, seen, notes, own, local, counts, windows>>

\* A package that was made by a tool and not spawned waits for the next round of
\* tools; a child under way is only found again by a WAITING_CHILDREN parent; a
\* report that was owed is never written.
Crash ==
  /\ loop # "down" /\ crashes < MaxCrashes
  /\ crashes' = crashes + 1
  /\ loop' = "down" /\ then' = "none" /\ pend' = {} /\ owed' = NoTask
  /\ task' = [t \in Tasks |-> "none"]
  /\ windows' = windows \cup {"crash"}
  /\ UNCHANGED <<store, rounds, resumes>>

\* startup: _finalise_cancel_requested, then the receipts of every parent,
\* ended ones too.
Restart ==
  /\ loop = "down"
  /\ loop' = "reconcile"
  /\ parent' = IF parent = "cancel_requested" THEN "cancelled" ELSE parent
  /\ run' = [c \in Child |->
               IF run[c] \notin Terminal \cup {"absent"} /\ parent \notin Terminal
                    /\ "cancel_requested" \in {parent, run[c]}
               THEN "cancelled" ELSE run[c]]
  /\ UNCHANGED <<pkg, usage, filed, rep, seen, notes, own, then, pend, task, owed, counts,
                 windows>>

Reconciled ==
  /\ loop = "reconcile" /\ Undelivered = {}
  /\ loop' = "off"
  /\ UNCHANGED <<store, then, pend, task, owed, counts, windows>>

-----------------------------------------------------------------------------
LoopStep ==
  \/ Deliver \/ CannotAttach \/ DrainCompleted \/ Wake \/ TopEnded \/ TopCancelled \/ TopStarts
  \/ TopWaiting \/ OneFinished \/ BudgetStop \/ Turn \/ TurnStale \/ TurnStops
  \/ TurnFails \/ TurnPauses \/ TurnThinks \/ CallTools \/ ToolsEnd \/ ToolsStale
  \/ GatherEnds \/ FinishLoop \/ Restart \/ Reconciled
  \/ \E c \in Child : Delegate(c) \/ DelegateTool(c)

ChildStep == \E t \in Tasks : ChildStarts(t) \/ ChildEnds(t)

Next ==
  \/ LoopStep \/ WriteReport \/ Resume \/ Cancel \/ Crash
  \/ ChildStep
  \/ \E c \in Child : DecideChild(c)

\* The event loop runs what can go on, between two awaits of the parent too;
\* provider turns, tools and the wall clock budget of a child run end.
Fairness ==
  WF_vars(LoopStep) /\ WF_vars(WriteReport) /\ SF_vars(ChildStep)

Spec == Init /\ [][Next]_vars /\ Fairness

-----------------------------------------------------------------------------
(* Properties. *)

Through(W) == windows \cap W # {}

\* Every report reaches the parent's transcript and evidence once, over loops,
\* crashes and the reconciliation of startup: a receipt is marked delivered with
\* the notification it is for, and no receipt is put twice.
DeliveredOnce ==
  /\ \A c \in Child : notes[c] = IF c \in seen THEN 1 ELSE 0
  /\ \A i, j \in DOMAIN filed : filed[i] = filed[j] => i = j
  /\ \A c \in seen : rep[c] # "none"

\* A parent completes with the reports of all its children in hand.  Not so when
\* a loop was left with children under way ("orphaned") or with a package not
\* yet spawned ("unspawned"): the next loop knows nothing of them and completes
\* alone.  Nor after a crash: a RUNNING parent does not look for its children.
CompletesWithReports ==
  parent = "completed" =>
    pkg \subseteq seen \/ Through({"orphaned", "unspawned", "crash"})

\* A child that has ended has its report: whatever way its loop ended.  Not after
\* a crash, which can come between the two, or whose recovery cancels a child.
EveryEndReported ==
  \A c \in Child :
    /\ run[c] \in Terminal
    /\ ~\E t \in Tasks : t[1] = c /\ (Live(t) \/ owed = t)
    => rep[c] # "none" \/ Through({"crash"})

\* COMPLETE is said of completed children only, and a completed child was not
\* reported PARTIAL, unless it had been reported while it was parked and went on
\* afterwards: the first receipt stays.
HonestReport ==
  \A c \in Child :
    /\ rep[c] = "complete" => run[c] = "completed"
    /\ rep[c] = "partial" /\ run[c] = "completed"
         => Through({"direct", "again", "two_loops"})

\* The children of an investigation stay within its budget, by either way of
\* delegation, over respawns and crashes, and none runs without a package.
BoundedFamily ==
  /\ Cardinality(pkg) <= usage /\ usage <= MaxChildren
  /\ {c \in Child : run[c] # "absent"} \subseteq pkg

\* Two loops never drive one child run, unless a child of a loop that was left
\* is delegated again, or an approval of it is decided.
OneLoopPerRun ==
  \A c \in Child :
    Live(<<c, 1>>) /\ Live(<<c, 2>>) => Through({"two_loops", "direct"})

\* A cancelled run never goes back to work, whatever it was waiting for.
CancelSticks ==
  [][parent = "cancel_requested" => parent' \in {"cancel_requested", "cancelled", "failed"}]_vars

\* No child begins to work for a parent that has ended, unless it was left
\* behind by a loop that did not wait; and none for a parent that is being
\* cancelled, unless its package was spawned after the request.
NoLateStart ==
  [][\A c \in Child : run[c] = "created" /\ run'[c] = "running" =>
       /\ parent \in Terminal => Through({"orphaned"})
       /\ parent = "cancel_requested" => Through({"late_spawn"})]_vars

\* A cancellation seen by a live loop ends the run, unless the loop dies of it:
\* a request that comes during a turn, a tool that waits for approval or the
\* gather of the children makes the next commit illegal ("stranded").
CancelSettles ==
  parent = "cancel_requested" /\ loop # "off"
    ~> parent \in Terminal \/ Through({"stranded", "full"})

\* The family of a parent run: within its budget, one loop for each child, one
\* report for each child that ended, truthful and delivered once, and a parent
\* that completes has them all.
FamilyHolds ==
  /\ TypeOK
  /\ BoundedFamily
  /\ OneLoopPerRun
  /\ EveryEndReported
  /\ HonestReport
  /\ DeliveredOnce
  /\ CompletesWithReports

\* A cancelled parent stays cancelled, and no child begins behind it.
CancelHolds == CancelSticks /\ NoLateStart

=============================================================================
