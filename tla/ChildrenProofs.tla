--------------------------- MODULE ChildrenProofs ---------------------------
(***************************************************************************)
(* Proofs about Children, for any set of children and any bounds: the      *)
(* family of a parent run stays within its budget and is reported, every   *)
(* report is delivered once, a parent completes with all its reports, and  *)
(* a cancelled parent stays cancelled with no child starting behind it.    *)
(*                                                                         *)
(* The inductive invariant has three parts.  Kept says what the stored     *)
(* receipts and packages say of each other.  Driven follows one child: its *)
(* tasks, its run and its receipt, over loops that end, approvals and      *)
(* crashes.  Followed relates the parent's loop to the children it has to  *)
(* wait for, until an unprotected window loses one of them.                *)
(***************************************************************************)
EXTENDS Children, FiniteSetTheorems, TLAPS

Doomed == {"cancel_requested", "cancelled", "failed"}

\* The windows after which a loop may not know of a child, and a parent that
\* will not complete any more.
Lost == parent \in Doomed \/ Through({"orphaned", "unspawned", "crash"})

-----------------------------------------------------------------------------
(* Kept: what is stored. *)

Filing ==
  /\ \A c \in Child : rep[c] # "none" <=> \E i \in DOMAIN filed : filed[i] = c
  /\ DeliveredOnce

Kept == TypeOK /\ IsFiniteSet(pkg) /\ BoundedFamily /\ Filing

-----------------------------------------------------------------------------
(* Driven: a child, its tasks and its receipt. *)

\* A task has a run, and one that left the semaphore has started it.
TasksKnown ==
  \A t \in Tasks :
    /\ task[t] # "none" => run[t[1]] # "absent"
    /\ task[t] \in {"running", "direct", "done"} => run[t[1]] # "created"

OwedIsDone == owed # NoTask => task[owed] = "done"

Second == \A c \in Child : task[<<c, 2>>] # "none" => Through({"two_loops", "direct"})

\* The end of a task and the wait for an approval both come with a receipt.
EndsFiled ==
  \A t \in Tasks : task[t] \in {"done", "direct"} =>
    rep[t[1]] # "none" \/ owed = t \/ Through({"crash"})
WaitFiled ==
  \A c \in Child : run[c] = "waiting_approval" =>
    rep[c] # "none" \/ (owed # NoTask /\ owed[1] = c) \/ Through({"crash"})

CreatedIsQueued ==
  \A c \in Child : run[c] = "created" =>
    (\E t \in Tasks : t[1] = c /\ task[t] = "queued") \/ Through({"crash"})

\* A child that goes on behind its receipt went through a window.
GoesOnKnown ==
  \A t \in Tasks : rep[t[1]] # "none" /\ (Live(t) \/ owed = t) =>
    Through({"direct", "again", "two_loops"})

DownIsCrash == loop = "down" => Through({"crash"})

Driven ==
  /\ TasksKnown /\ OwedIsDone /\ Second /\ EndsFiled /\ WaitFiled /\ CreatedIsQueued
  /\ GoesOnKnown /\ DownIsCrash /\ EveryEndReported /\ HonestReport

-----------------------------------------------------------------------------
(* Followed: the loop and the children it waits for. *)

LoopPlaces ==
  /\ loop \in {"finish", "drained"} => pend = {}
  /\ loop \in {"gather", "finish", "drained"} => then # "none"
  /\ loop \in {"turn", "tools"} => parent \in {"running", "cancel_requested"}
  /\ loop = "down" => \A t \in Tasks : task[t] = "none"

PendKnown == \A t \in pend : task[t] # "none"

\* A package is about to be spawned, waited for or reported.
Awaited ==
  Lost \/ \A c \in pkg : \/ run[c] = "absent" /\ loop = "tools"
                         \/ PendingChild(c)
                         \/ rep[c] # "none"

\* During a turn every report is delivered or still to come from a child that
\* is waited for; where the loop completes, all of them are delivered.
InTurn ==
  loop = "turn" => Lost \/ \A c \in pkg : c \in seen \/ PendingChild(c)
Finishing ==
  loop = "finish" /\ then = "complete" => Lost \/ pkg \subseteq seen

\* A child that may still start is waited for, or left behind by a loop.
StartsKnown ==
  \A t \in Tasks : task[t] = "queued" /\ run[t[1]] = "created" =>
    /\ t \in pend \/ Through({"orphaned"})
    /\ parent \in Terminal => Through({"orphaned"})
    /\ parent = "cancel_requested" => Through({"late_spawn"})

Followed ==
  /\ LoopPlaces /\ PendKnown /\ Awaited /\ InTurn /\ Finishing /\ StartsKnown
  /\ CompletesWithReports

IInv == Kept /\ Driven /\ Followed

-----------------------------------------------------------------------------
(* What the steps do to the children. *)

\* Windows are only ever recorded.
LEMMA WindowsGrow ==
  ASSUME NEW W, Through(W), windows \subseteq windows'
  PROVE  Through(W)'
  BY DEF Through

\* The seven things that can happen to children, their tasks and their receipts.
Resting   == UNCHANGED <<run, task, owed, rep, filed>>
Spawning  == owed = NoTask /\ owed' = owed /\ UNCHANGED <<rep, filed>>
               /\ \E C \in SUBSET pkg' : Spawn(C)
Cancelled == /\ UNCHANGED <<task, owed, rep, filed, windows>> /\ owed = NoTask
             /\ run' = [c \in Child |-> IF run[c] = "absent" THEN "absent"
                                        ELSE Parked(run[c])]
Starting  == \E t \in Tasks : ChildStarts(t)
Ending    == \E t \in Tasks : ChildEnds(t)
Deciding  == \E c \in Child : DecideChild(c)

ChildMove ==
  \/ Resting \/ Spawning \/ Cancelled \/ Starting \/ Ending \/ Deciding
  \/ WriteReport \/ Crash \/ Restart

LEMMA NextMoves ==
  ASSUME TypeOK, [Next]_vars
  PROVE  windows \subseteq windows' /\ ChildMove
<1> USE DEF store, local, counts, Resting, ChildMove
<1>1. CASE \/ Deliver \/ CannotAttach \/ DrainCompleted \/ Wake \/ TopEnded \/ TopCancelled
           \/ TopStarts \/ OneFinished \/ BudgetStop
  BY <1>1 DEF Deliver, CannotAttach, DrainCompleted, Wake, TopEnded, TopCancelled, TopStarts,
     OneFinished, BudgetStop, DrainAll
<1>2. CASE \/ Turn \/ TurnStale \/ TurnStops \/ TurnFails \/ TurnPauses \/ TurnThinks
           \/ CallTools \/ GatherEnds \/ FinishLoop \/ Reconciled \/ Resume
  BY <1>2 DEF Turn, TurnStale, TurnStops, TurnFails, TurnPauses, TurnThinks, CallTools,
     GatherEnds, FinishLoop, Reconciled, Resume, DrainAll
<1>3. CASE TopWaiting
  <2>1. CASE Resting /\ windows' = windows
    BY <2>1
  <2>2. CASE ~(Resting /\ windows' = windows)
    <3> DEFINE back == {c \in pkg : run[c] \notin Terminal \cup {"absent"}}
    <3>1. Spawn(back) /\ pkg' = pkg /\ owed = NoTask /\ UNCHANGED <<owed, rep, filed>>
      BY <1>3, <2>2 DEF TopWaiting, AtTop
    <3>2. back \in SUBSET pkg'
      BY <3>1
    <3>3. Spawning
      BY <3>1, <3>2 DEF Spawning
    <3>4. windows \subseteq windows'
      BY <3>1 DEF Spawn
    <3> QED BY <3>3, <3>4
  <2> QED BY <2>1, <2>2
<1>4. ASSUME NEW c \in Child, Delegate(c) PROVE windows \subseteq windows' /\ ChildMove
  <2>1. Spawn({c}) /\ pkg' = pkg \cup {c} /\ owed = NoTask /\ UNCHANGED <<owed, rep, filed>>
    BY <1>4 DEF Delegate, Answered
  <2>2. Spawning
    BY <2>1 DEF Spawning
  <2> QED BY <2>1, <2>2 DEF Spawn
<1>5. ASSUME NEW c \in Child, DelegateTool(c) PROVE windows \subseteq windows' /\ ChildMove
  BY <1>5 DEF DelegateTool
<1>6. CASE ToolsEnd \/ ToolsStale
  <2>1. owed = NoTask /\ UNCHANGED <<pkg, owed, rep, filed>>
    BY <1>6 DEF ToolsEnd, ToolsStale
  <2>2. CASE UNCHANGED <<run, task>> /\ windows \subseteq windows'
    BY <2>1, <2>2
  <2>3. CASE Spawn(Unspawned)
    <3>1. Unspawned \in SUBSET pkg'
      BY <2>1 DEF Unspawned
    <3>2. Spawning
      BY <2>1, <2>3, <3>1 DEF Spawning
    <3> QED BY <2>3, <3>2 DEF Spawn
  <2> QED BY <1>6, <2>2, <2>3 DEF ToolsEnd, ToolsStale
<1>7. CASE Cancel
  BY <1>7 DEF Cancel, Cancelled, Free
<1>8. CASE WriteReport \/ Crash \/ Restart
  BY <1>8 DEF WriteReport, Crash, Restart
<1>9. CASE ChildStep
  BY <1>9 DEF ChildStep, Starting, Ending, ChildStarts, ChildEnds
<1>10. ASSUME NEW c \in Child, DecideChild(c) PROVE windows \subseteq windows' /\ ChildMove
  BY <1>10 DEF DecideChild, Deciding
<1>11. CASE UNCHANGED vars
  BY <1>11 DEF vars
<1> QED BY <1>1, <1>2, <1>3, <1>4, <1>5, <1>6, <1>7, <1>8, <1>9, <1>10, <1>11
        DEF Next, LoopStep

-----------------------------------------------------------------------------
(* Types. *)

LEMMA SlotType == \A c \in Child : Slot(c) \in Tasks /\ Slot(c)[1] = c
  BY DEF Slot, Tasks

LEMMA ParkedType ==
  \A s \in Status : /\ Parked(s) \in Status
                    /\ Parked(s) # s => Parked(s) \in {"cancelled", "cancel_requested"}
                    /\ Parked(s) = "cancelled" => s \in {"created", "cancelled"}
                    /\ Parked(s) # "created" /\ Parked(s) # "waiting_approval"
                    /\ s \in Terminal => Parked(s) = s
  BY DEF Parked, Status, Terminal, Moves

\* A spawn creates runs for its packages and queues a task for those that the
\* loop does not wait for yet; everything else stays.
LEMMA SpawnFacts ==
  ASSUME TypeOK, NEW C \in SUBSET Child, Spawn(C)
  PROVE  /\ run' \in [Child -> Status \cup {"absent"}]
         /\ task' \in [Tasks -> {"none", "queued", "running", "direct", "done"}]
         /\ pend \subseteq pend' /\ pend' \subseteq Tasks
         /\ \A t \in pend' \ pend : t[1] \in C /\ task'[t] = "queued"
         /\ \A c \in C : \E t \in pend' : t[1] = c
         /\ \A c \in C : run'[c] = IF run[c] = "absent" THEN "created" ELSE run[c]
         /\ \A c \in Child \ C : run'[c] = run[c]
         /\ \A t \in Tasks : \/ task'[t] = task[t]
                             \/ /\ task'[t] = "queued" /\ t[1] \in C /\ t \in pend'
                                /\ ~PendingChild(t[1]) /\ t = Slot(t[1])
<1> DEFINE new == {c \in C : ~PendingChild(c)}
<1>1. /\ run' = Created(C)
      /\ pend' = pend \cup {Slot(c) : c \in new}
      /\ task' = [t \in Tasks |-> IF t[1] \in new /\ t = Slot(t[1]) THEN "queued"
                                  ELSE task[t]]
  BY DEF Spawn
<1>2. /\ run' \in [Child -> Status \cup {"absent"}]
      /\ \A c \in C : run'[c] = IF run[c] = "absent" THEN "created" ELSE run[c]
      /\ \A c \in Child \ C : run'[c] = run[c]
  BY <1>1 DEF TypeOK, Created, NewRun, Status
<1>3. pend \subseteq pend' /\ pend' \subseteq Tasks
  BY <1>1, SlotType DEF TypeOK
<1>4. \A t \in Tasks : \/ task'[t] = task[t]
                       \/ /\ task'[t] = "queued" /\ t[1] \in C /\ t \in pend'
                          /\ ~PendingChild(t[1]) /\ t = Slot(t[1])
  BY <1>1
<1>5. task' \in [Tasks -> {"none", "queued", "running", "direct", "done"}]
  BY <1>1 DEF TypeOK
<1>6. \A t \in pend' \ pend : t[1] \in C /\ task'[t] = "queued"
  BY <1>1, <1>3, SlotType
<1>7. \A c \in C : \E t \in pend' : t[1] = c
  <2>1. ASSUME NEW c \in C PROVE \E t \in pend' : t[1] = c
    <3>1. CASE PendingChild(c)
      BY <1>3, <3>1 DEF PendingChild
    <3>2. CASE ~PendingChild(c)
      BY <1>1, <3>2, SlotType
    <3> QED BY <3>1, <3>2
  <2> QED BY <2>1
<1> QED BY <1>2, <1>3, <1>4, <1>5, <1>6, <1>7

ChildTypes ==
  /\ run \in [Child -> Status \cup {"absent"}]
  /\ task \in [Tasks -> {"none", "queued", "running", "direct", "done"}]
  /\ owed \in Tasks \cup {NoTask}
  /\ filed \in Seq(Child) /\ rep \in [Child -> {"none", "complete", "partial"}]
LoopTypes ==
  /\ parent \in Status
  /\ pkg \subseteq Child /\ usage \in Nat
  /\ loop \in {"off", "yield", "top", "turn", "tools", "gather", "drained", "await",
               "finish", "reconcile", "down"}
  /\ then \in {"none", "pause", "fail", "complete", "cancel"}
  /\ pend \subseteq Tasks
  /\ seen \subseteq Child /\ notes \in [Child -> Nat] /\ own \in Nat
  /\ {rounds, resumes, crashes} \subseteq Nat

LEMMA TypeParts == TypeOK <=> ChildTypes /\ LoopTypes
  BY DEF TypeOK, ChildTypes, LoopTypes

LEMMA TasksPair == \A t \in Tasks : t[1] \in Child
  BY DEF Tasks

LEMMA ChildTypesStep ==
  ASSUME TypeOK, ChildMove, pkg' \subseteq Child
  PROVE  ChildTypes'
<1> USE ChildrenBounds DEF TypeOK, ChildTypes, store, local, counts
<1>1. CASE Resting
  BY <1>1 DEF Resting
<1>2. CASE Spawning
  <2>1. PICK C \in SUBSET pkg' : Spawn(C)
    BY <1>2 DEF Spawning
  <2>2. C \in SUBSET Child
    BY <2>1
  <2> QED BY <1>2, <2>1, <2>2, SpawnFacts DEF Spawning
<1>3. CASE Cancelled
  BY <1>3, ParkedType DEF Cancelled
<1>4. CASE Starting
  BY <1>4, TasksPair DEF Starting, ChildStarts, Status
<1>5. ASSUME NEW t \in Tasks, ChildEnds(t) PROVE ChildTypes'
  <2>1. \E s \in Status \cup {"absent"} : run' = [run EXCEPT ![t[1]] = s]
    BY <1>5, TasksPair DEF ChildEnds, Ends, Status, Terminal
  <2> QED BY <1>5, <2>1, TasksPair DEF ChildEnds
<1>6. ASSUME NEW c \in Child, DecideChild(c) PROVE ChildTypes'
  BY <1>6, SlotType DEF DecideChild, Status
<1>7. CASE WriteReport
  BY <1>7, TasksPair DEF WriteReport, PutReceipt, ReportStatus
<1>8. CASE Crash
  BY <1>8 DEF Crash
<1>9. CASE Restart
  BY <1>9 DEF Restart, Status, Terminal
<1> QED BY <1>1, <1>2, <1>3, <1>4, <1>5, <1>6, <1>7, <1>8, <1>9
        DEF ChildMove, Ending, Deciding

\* What a drain of the children may do to the loop and the parent.
LEMMA DrainTypes ==
  ASSUME TypeOK, NEW s, NEW what \in {"pause", "fail", "complete", "cancel"},
         DrainAll(s, what)
  PROVE  /\ loop' \in {"finish", "gather", "off"} /\ then' \in {what, "none"}
         /\ pend' \in {pend, {}} /\ parent' \in {parent, "waiting_children"}
  BY DEF DrainAll, Leave

LEMMA SpawnPend ==
  ASSUME TypeOK, NEW C \in SUBSET Child, Spawn(C)
  PROVE  pend' \subseteq Tasks
  BY SpawnFacts

LEMMA MovesType == \A s \in Status : Moves[s] \subseteq Status
  BY DEF Moves, Status, Terminal

LEMMA LoopTypesStep ==
  ASSUME TypeOK, [Next]_vars
  PROVE  LoopTypes'
<1> USE ChildrenBounds DEF TypeOK, LoopTypes, store, local, counts
<1>1. CASE \/ DrainCompleted \/ Wake \/ TopEnded \/ TopStarts \/ OneFinished \/ Turn
           \/ TurnStale \/ TurnPauses \/ TurnThinks \/ CallTools \/ Reconciled
  <2>1. CASE DrainCompleted \/ TopEnded \/ TurnStale \/ TurnPauses
    BY SMTT(40), <2>1 DEF DrainCompleted, TopEnded, TurnStale, TurnPauses, Leave, Status, Terminal, Unfinished
  <2>2. CASE Wake \/ TopStarts \/ OneFinished \/ TurnThinks \/ CallTools \/ Reconciled
    BY ZenonT(40), <2>2 DEF Wake, TopStarts, OneFinished, TurnThinks, CallTools, Reconciled, Status
  <2>3. CASE Turn
    BY <2>3 DEF Turn
  <2> QED BY <1>1, <2>1, <2>2, <2>3
<1>2. CASE Deliver \/ CannotAttach
  <2>1. CASE CannotAttach
    BY <2>1 DEF CannotAttach, Leave, Status
  <2>2. CASE Deliver
    <3>1. PICK i \in Undelivered : Attach(filed[i])
      BY <2>2 DEF Deliver
    <3>2. filed[i] \in Child
      BY DEF Undelivered
    <3>3. seen' \subseteq Child /\ notes' \in [Child -> Nat]
      BY SMTT(40), <3>1, <3>2 DEF Attach
    <3>4. UNCHANGED <<parent, pkg, usage, own, local, counts>>
      BY <2>2 DEF Deliver
    <3> QED BY <3>3, <3>4
  <2> QED BY <1>2, <2>1, <2>2
<1>3. CASE TopCancelled \/ BudgetStop \/ TurnStops \/ TurnFails
  <2>1. \E s \in {"cancel_requested", "running"},
           what \in {"pause", "fail", "complete", "cancel"} : DrainAll(s, what)
    BY <1>3 DEF TopCancelled, BudgetStop, TurnStops, TurnFails
  <2>2. /\ loop' \in {"finish", "gather", "off"} /\ pend' \in {pend, {}}
        /\ then' \in {"none", "pause", "fail", "complete", "cancel"}
        /\ parent' \in {parent, "waiting_children"}
    BY <2>1, DrainTypes
  <2> QED BY SMTT(40), <1>3, <2>2 DEF TopCancelled, BudgetStop, TurnStops, TurnFails, Status
<1>4. CASE TopWaiting
  <2>1. CASE pend' = pend
    BY <1>4, <2>1 DEF TopWaiting, Status
  <2>2. CASE pend' # pend
    <3> DEFINE back == {c \in pkg : run[c] \notin Terminal \cup {"absent"}}
    <3>1. Spawn(back) /\ back \in SUBSET Child
      BY <1>4, <2>2 DEF TopWaiting
    <3> QED BY <1>4, <2>2, <3>1, SpawnPend DEF TopWaiting
  <2> QED BY <2>1, <2>2
<1>5. ASSUME NEW c \in Child, Delegate(c) \/ DelegateTool(c) PROVE LoopTypes'
  <2>1. CASE Delegate(c)
    <3>1. Spawn({c}) /\ {c} \in SUBSET Child
      BY <2>1 DEF Delegate
    <3> QED BY SMTT(40), <2>1, <3>1, SpawnPend DEF Delegate
  <2>2. CASE DelegateTool(c)
    BY <2>2 DEF DelegateTool
  <2> QED BY <1>5, <2>1, <2>2
<1>6. CASE ToolsEnd \/ ToolsStale
  <2>1. pend' = {} \/ Spawn(Unspawned)
    BY <1>6 DEF ToolsEnd, ToolsStale, Leave
  <2>2. pend' \subseteq Tasks
    BY <2>1, SpawnPend DEF Unspawned
  <2> QED BY SMTT(40), <1>6, <2>2 DEF ToolsEnd, ToolsStale, Leave, Status
<1>7. CASE GatherEnds \/ FinishLoop \/ Resume \/ Crash \/ Restart
  <2>1. CASE FinishLoop
    <3>1. parent' \in Status
      BY <2>1, MovesType DEF FinishLoop
    <3> QED BY <2>1, <3>1 DEF FinishLoop, Leave
  <2>2. CASE GatherEnds
    BY <2>2 DEF GatherEnds, Leave, Status
  <2>3. CASE Resume
    BY <2>3 DEF Resume, Status
  <2>4. CASE Crash
    BY <2>4 DEF Crash
  <2>5. CASE Restart
    BY <2>5 DEF Restart, Status, Terminal
  <2> QED BY <1>7, <2>1, <2>2, <2>3, <2>4, <2>5
<1>8. CASE Cancel
  BY <1>8, ParkedType DEF Cancel
<1>9. CASE WriteReport \/ ChildStep \/ \E c \in Child : DecideChild(c)
  <2>1. UNCHANGED <<parent, pkg, usage, loop, then, pend, seen, notes, own, rounds, crashes>>
        /\ (resumes' = resumes \/ resumes' = resumes + 1)
    BY <1>9 DEF WriteReport, ChildStep, ChildStarts, ChildEnds, DecideChild
  <2> QED BY <2>1
<1>10. CASE UNCHANGED vars
  BY <1>10 DEF vars
<1> QED BY <1>1, <1>2, <1>3, <1>4, <1>5, <1>6, <1>7, <1>8, <1>9, <1>10 DEF Next, LoopStep

LEMMA TypeStep ==
  ASSUME TypeOK, [Next]_vars
  PROVE  TypeOK'
<1>1. LoopTypes'
  BY LoopTypesStep
<1>2. ChildTypes'
  BY <1>1, NextMoves, ChildTypesStep DEF LoopTypes
<1> QED BY <1>1, <1>2 DEF TypeOK, ChildTypes, LoopTypes

-----------------------------------------------------------------------------
(* The budget of the family and the receipts. *)

LEMMA PackageMoves ==
  ASSUME [Next]_vars
  PROVE  \/ UNCHANGED <<pkg, usage>>
         \/ /\ usage < MaxChildren /\ usage' = usage + 1 /\ loop \in {"turn", "tools"}
            /\ \E c \in Child : pkg' = pkg \cup {c}
  BY DEF Next, Answered, vars, store, LoopStep, Deliver, CannotAttach, DrainCompleted, Wake, TopEnded,
     TopCancelled, TopStarts, TopWaiting, OneFinished, BudgetStop, Turn, TurnStale, TurnStops,
     TurnFails, TurnPauses, TurnThinks, CallTools, ToolsEnd, ToolsStale, GatherEnds,
     FinishLoop, Restart, Reconciled, Delegate, DelegateTool, MaySpawn, WriteReport, Resume,
     Cancel, Crash, ChildStep, ChildStarts, ChildEnds, DecideChild

LEMMA NoteMoves ==
  ASSUME [Next]_vars
  PROVE  \/ UNCHANGED <<notes, seen>>
         \/ UNCHANGED <<rep, filed>> /\ \E i \in Undelivered : Attach(filed[i])
  BY DEF Next, vars, store, LoopStep, Deliver, CannotAttach, DrainCompleted, Wake, TopEnded,
     TopCancelled, TopStarts, TopWaiting, OneFinished, BudgetStop, Turn, TurnStale, TurnStops,
     TurnFails, TurnPauses, TurnThinks, CallTools, ToolsEnd, ToolsStale, GatherEnds,
     FinishLoop, Restart, Reconciled, Delegate, DelegateTool, WriteReport, Resume,
     Cancel, Crash, ChildStep, ChildStarts, ChildEnds, DecideChild

\* A run that exists has existed before, or has just been spawned from a package.
LEMMA RunsComeFromPackages ==
  ASSUME TypeOK, ChildMove, pkg' \subseteq Child,
         NEW c \in Child, run'[c] # "absent"
  PROVE  run[c] # "absent" \/ c \in pkg'
<1>1. CASE Spawning
  <2>1. PICK C \in SUBSET pkg' : Spawn(C)
    BY <1>1 DEF Spawning
  <2> QED BY <2>1, SpawnFacts
<1>2. CASE Ending
  <2>1. PICK t \in Tasks : ChildEnds(t)
    BY <1>2 DEF Ending
  <2>2. \E s \in Ends(run[t[1]]) : run' = [run EXCEPT ![t[1]] = s]
    BY <2>1 DEF ChildEnds
  <2> QED BY <2>2 DEF TypeOK, Ends
<1>3. CASE Starting \/ Deciding
  BY ZenonT(40), <1>3 DEF Starting, Deciding, ChildStarts, DecideChild, TypeOK
<1> QED BY <1>1, <1>2, <1>3
        DEF ChildMove, Resting, Cancelled, WriteReport, Crash, Restart, store, TypeOK

LEMMA BudgetStep ==
  ASSUME Kept, TypeOK', [Next]_vars
  PROVE  IsFiniteSet(pkg)' /\ BoundedFamily'
<1>1. IsFiniteSet(pkg') /\ Cardinality(pkg') <= usage' /\ usage' <= MaxChildren
  <2>1. CASE UNCHANGED <<pkg, usage>>
    BY <2>1 DEF Kept, BoundedFamily
  <2>2. CASE usage < MaxChildren /\ usage' = usage + 1 /\ \E c \in Child : pkg' = pkg \cup {c}
    <3>1. PICK c \in Child : pkg' = pkg \cup {c}
      BY <2>2
    <3>2. /\ IsFiniteSet(pkg') /\ Cardinality(pkg) \in Nat
          /\ Cardinality(pkg') \in {Cardinality(pkg), Cardinality(pkg) + 1}
      BY <3>1, FS_AddElement, FS_CardinalityType DEF Kept
    <3>3. Cardinality(pkg) <= usage /\ usage \in Nat /\ MaxChildren \in Nat
      BY ChildrenBounds DEF Kept, BoundedFamily, TypeOK
    <3> QED BY <2>2, <3>2, <3>3
  <2> QED BY <2>1, <2>2, PackageMoves
<1>2. pkg \subseteq pkg' /\ pkg' \subseteq Child
  BY PackageMoves DEF TypeOK
<1>3. \A c \in Child : run'[c] # "absent" => c \in pkg'
  BY <1>2, NextMoves, RunsComeFromPackages DEF Kept, BoundedFamily
<1> QED BY <1>1, <1>3 DEF BoundedFamily

\* Receipts are put once and delivered with their notification.
LEMMA FilingStep ==
  ASSUME Kept, TypeOK', [Next]_vars
  PROVE  Filing'
<1>1. /\ TypeOK /\ DeliveredOnce /\ windows \subseteq windows' /\ ChildMove
      /\ \A c \in Child : rep[c] # "none" <=> \E i \in DOMAIN filed : filed[i] = c
  BY NextMoves DEF Kept, Filing
<1>2. CASE UNCHANGED <<rep, filed>>
  <2>1. \A c \in Child : rep'[c] # "none" <=> \E i \in DOMAIN filed' : filed'[i] = c
    BY <1>1, <1>2
  <2>2. CASE UNCHANGED <<notes, seen>>
    BY <1>1, <1>2, <2>1, <2>2 DEF Filing, DeliveredOnce
  <2>3. ASSUME NEW i \in Undelivered, Attach(filed[i]) PROVE Filing'
    <3>1. filed[i] \in Child /\ filed[i] \notin seen /\ rep[filed[i]] # "none"
      BY <1>1 DEF Undelivered, TypeOK
    <3>2. \A c \in Child : notes'[c] = IF c \in seen' THEN 1 ELSE 0
      BY SMTT(40), <1>1, <2>3, <3>1 DEF Attach, DeliveredOnce, TypeOK
    <3>3. \A c \in seen' : rep'[c] # "none"
      BY <1>1, <1>2, <2>3, <3>1 DEF Attach, DeliveredOnce
    <3> QED BY <1>1, <1>2, <2>1, <3>2, <3>3 DEF Filing, DeliveredOnce
  <2> QED BY <2>2, <2>3, NoteMoves
<1>3. CASE ~UNCHANGED <<rep, filed>>
  <2>1. WriteReport /\ UNCHANGED <<notes, seen>>
    BY <1>1, <1>3, NoteMoves DEF ChildMove, Resting, Spawning, Cancelled, Starting, Ending,
       Deciding, ChildStarts, ChildEnds, DecideChild, Crash, Restart, store
  <2> DEFINE c == owed[1]
  <2>2. c \in Child /\ PutReceipt(c)
    BY <1>1, <2>1, TasksPair DEF WriteReport, TypeOK
  <2>3. CASE rep[c] # "none"
    <3>1. filed' = filed /\ rep' = rep
      BY <1>1, <2>2, <2>3 DEF PutReceipt, TypeOK
    <3> QED BY <1>3, <3>1
  <2>4. CASE rep[c] = "none"
    <3>1. /\ filed' = Append(filed, c)
          /\ \A d \in Child : rep'[d] = IF d = c THEN ReportStatus(c) ELSE rep[d]
      BY <1>1, <2>2, <2>4 DEF PutReceipt, TypeOK
    <3>2. /\ DOMAIN filed' = DOMAIN filed \cup {Len(filed) + 1}
          /\ Len(filed) + 1 \notin DOMAIN filed /\ filed'[Len(filed) + 1] = c
          /\ \A i \in DOMAIN filed : filed'[i] = filed[i]
      <4>1. filed \in Seq(Child) /\ DOMAIN filed = 1..Len(filed) /\ Len(filed) \in Nat
        BY <1>1 DEF TypeOK
      <4>2. /\ DOMAIN filed' = 1..(Len(filed) + 1) /\ filed'[Len(filed) + 1] = c
            /\ \A i \in 1..Len(filed) : filed'[i] = filed[i]
        BY <2>2, <3>1, <4>1
      <4> QED BY <4>1, <4>2
    <3>3. \A i \in DOMAIN filed : filed[i] # c
      BY <1>1, <2>2, <2>4
    <3>4. \A d \in Child : rep'[d] # "none" <=> \E i \in DOMAIN filed' : filed'[i] = d
      BY <1>1, <3>1, <3>2 DEF ReportStatus
    <3>5. \A i, j \in DOMAIN filed' : filed'[i] = filed'[j] => i = j
      BY <1>1, <3>2, <3>3 DEF DeliveredOnce
    <3>6. \A d \in seen' : rep'[d] # "none"
      BY <1>1, <2>1, <3>1 DEF DeliveredOnce, ReportStatus, TypeOK
    <3> QED BY <1>1, <2>1, <3>4, <3>5, <3>6 DEF Filing, DeliveredOnce
  <2> QED BY <2>3, <2>4
<1> QED BY <1>2, <1>3

LEMMA KeptStep ==
  ASSUME Kept, [Next]_vars
  PROVE  Kept'
  BY TypeStep, BudgetStep, FilingStep DEF Kept

-----------------------------------------------------------------------------
(* A child, its tasks and its receipt. *)

LEMMA StartFacts ==
  ASSUME TypeOK, NEW t \in Tasks, ChildStarts(t)
  PROVE  /\ UNCHANGED <<owed, rep, filed, windows>> /\ owed = NoTask
         /\ task[t] = "queued"
         /\ \A u \in Tasks : task'[u] = IF u = t THEN "running" ELSE task[u]
         /\ \A c \in Child : run'[c] = IF c = t[1] /\ run[c] \in {"created", "paused"}
                                       THEN "running" ELSE run[c]
  BY TasksPair DEF ChildStarts, TypeOK, Free

LEMMA EndFacts ==
  ASSUME TypeOK, NEW t \in Tasks, ChildEnds(t)
  PROVE  /\ UNCHANGED <<rep, filed, windows>> /\ owed = NoTask
         /\ task[t] \in {"running", "direct"}
         /\ owed' = IF task[t] = "running" THEN t ELSE NoTask
         /\ \A u \in Tasks : task'[u] = IF u = t THEN "done" ELSE task[u]
         /\ \A c \in Child \ {t[1]} : run'[c] = run[c]
         /\ run'[t[1]] \in Ends(run[t[1]])
  BY TasksPair DEF ChildEnds, TypeOK, Free

LEMMA DecideFacts ==
  ASSUME TypeOK, NEW d \in Child, DecideChild(d)
  PROVE  /\ UNCHANGED <<owed, rep, filed>> /\ owed = NoTask
         /\ windows' = windows \cup {"direct"}
         /\ run[d] = "waiting_approval"
         /\ \A u \in Tasks : task'[u] = IF u = Slot(d) THEN "direct" ELSE task[u]
         /\ \A c \in Child : run'[c] = IF c = d THEN "running" ELSE run[c]
  BY SlotType DEF DecideChild, TypeOK, Free

LEMMA ReportFacts ==
  ASSUME TypeOK, WriteReport
  PROVE  /\ UNCHANGED <<run, task, windows>> /\ owed \in Tasks /\ owed' = NoTask
         /\ \A c \in Child : rep'[c] = IF c = owed[1] /\ rep[c] = "none"
                                       THEN ReportStatus(c) ELSE rep[c]
         /\ \A c \in Child : rep[c] # "none" => rep'[c] # "none"
         /\ rep'[owed[1]] # "none"
  BY TasksPair DEF WriteReport, PutReceipt, ReportStatus, TypeOK

LEMMA CancelFacts ==
  ASSUME TypeOK, Cancelled
  PROVE  /\ UNCHANGED <<task, owed, rep, filed, windows>> /\ owed = NoTask
         /\ \A c \in Child : run'[c] = IF run[c] = "absent" THEN "absent" ELSE Parked(run[c])
  BY DEF Cancelled

LEMMA CrashFacts ==
  ASSUME TypeOK, Crash
  PROVE  /\ UNCHANGED <<run, rep, filed>> /\ owed' = NoTask /\ "crash" \in windows'
         /\ \A u \in Tasks : task'[u] = "none"
  BY DEF Crash, store

LEMMA RestartFacts ==
  ASSUME TypeOK, Restart
  PROVE  /\ UNCHANGED <<task, owed, rep, filed, windows>> /\ loop = "down"
         /\ \A c \in Child : \/ run'[c] = run[c]
                             \/ run'[c] = "cancelled" /\ run[c] \notin Terminal \cup {"absent"}
  BY DEF Restart

LEMMA SpawningFacts ==
  ASSUME TypeOK, TypeOK', Spawning
  PROVE  \E C \in SUBSET Child :
         /\ UNCHANGED <<owed, rep, filed>> /\ owed = NoTask
         /\ C \subseteq pkg'
         /\ \A c \in C : run'[c] = IF run[c] = "absent" THEN "created" ELSE run[c]
         /\ \A c \in Child \ C : run'[c] = run[c]
         /\ \A c \in C : \E t \in pend' : t[1] = c
         /\ pend \subseteq pend' /\ pend' \subseteq Tasks
         /\ \A t \in pend' \ pend : task'[t] = "queued"
         /\ \A t \in Tasks : \/ task'[t] = task[t]
                             \/ /\ task'[t] = "queued" /\ t[1] \in C /\ t \in pend'
                                /\ ~PendingChild(t[1]) /\ t = Slot(t[1])
                                /\ Live(<<t[1], 1>>) => "two_loops" \in windows'
                                /\ rep[t[1]] # "none" => "again" \in windows'
                                /\ parent = "cancel_requested" => "late_spawn" \in windows'
<1>1. PICK C \in SUBSET pkg' : Spawn(C)
  BY DEF Spawning
<1>2. C \in SUBSET Child
  BY DEF TypeOK
<1>3. \A c \in C : ~PendingChild(c) =>
        /\ Live(<<c, 1>>) => "two_loops" \in windows'
        /\ rep[c] # "none" => "again" \in windows'
        /\ parent = "cancel_requested" => "late_spawn" \in windows'
  BY <1>1 DEF Spawn
<1>4. UNCHANGED <<owed, rep, filed>> /\ owed = NoTask
  BY DEF Spawning
<1>5. /\ \A c \in C : run'[c] = IF run[c] = "absent" THEN "created" ELSE run[c]
      /\ \A c \in Child \ C : run'[c] = run[c]
      /\ \A c \in C : \E t \in pend' : t[1] = c
      /\ pend \subseteq pend' /\ pend' \subseteq Tasks
      /\ \A t \in pend' \ pend : task'[t] = "queued"
  BY <1>1, <1>2, SpawnFacts
<1>6. \A t \in Tasks : \/ task'[t] = task[t]
                       \/ /\ task'[t] = "queued" /\ t[1] \in C /\ t \in pend'
                          /\ ~PendingChild(t[1]) /\ t = Slot(t[1])
  BY <1>1, <1>2, SpawnFacts
<1>7. ASSUME NEW t \in Tasks, task'[t] /= task[t]
      PROVE  /\ task'[t] = "queued" /\ t[1] \in C /\ t \in pend'
             /\ ~PendingChild(t[1]) /\ t = Slot(t[1])
             /\ Live(<<t[1], 1>>) => "two_loops" \in windows'
             /\ rep[t[1]] # "none" => "again" \in windows'
             /\ parent = "cancel_requested" => "late_spawn" \in windows'
  <2>1. /\ task'[t] = "queued" /\ t[1] \in C /\ t \in pend'
        /\ ~PendingChild(t[1]) /\ t = Slot(t[1])
    BY <1>6, <1>7
  <2> QED BY <1>3, <2>1
<1>8. C \subseteq pkg'
  OBVIOUS
<1> QED BY <1>2, <1>4, <1>5, <1>7, <1>8

LEMMA EndsFacts ==
  ASSUME NEW s, NEW e \in Ends(s)
  PROVE  /\ s \notin {"absent", "created"} => e \notin {"absent", "created"}
         /\ e = "created" => s = "created"
         /\ s \in Terminal => e = s
         /\ e = "waiting_approval" => s \in {"running", "waiting_approval"}
  BY DEF Ends, Terminal

LEMMA TasksKnownStep ==
  ASSUME TypeOK, TypeOK', TasksKnown, ChildMove
  PROVE  TasksKnown'
<1> USE TasksPair DEF TasksKnown
<1>1. CASE Resting
  BY <1>1 DEF Resting
<1>2. CASE Spawning
  BY <1>2, SpawningFacts
<1>3. CASE Cancelled
  <2>1. "absent" \notin Status
    BY DEF Status, Terminal
  <2>2. \A c \in Child : run[c] # "absent" => run'[c] \notin {"absent", "created"}
    BY <1>3, <2>1, CancelFacts, ParkedType DEF TypeOK
  <2> QED BY <1>3, <2>2, CancelFacts
<1>4. ASSUME NEW t \in Tasks, ChildStarts(t) PROVE TasksKnown'
  BY <1>4, StartFacts
<1>5. ASSUME NEW t \in Tasks, ChildEnds(t) PROVE TasksKnown'
  <2>1. run'[t[1]] \notin {"absent", "created"}
    BY <1>5, EndFacts, EndsFacts
  <2> QED BY <1>5, <2>1, EndFacts
<1>6. ASSUME NEW c \in Child, DecideChild(c) PROVE TasksKnown'
  BY <1>6, DecideFacts, SlotType
<1>7. CASE WriteReport
  BY <1>7, ReportFacts
<1>8. CASE Crash
  BY <1>8, CrashFacts
<1>9. CASE Restart
  BY <1>9, RestartFacts
<1> QED BY <1>1, <1>2, <1>3, <1>4, <1>5, <1>6, <1>7, <1>8, <1>9
        DEF ChildMove, Starting, Ending, Deciding

LEMMA OwedIsDoneStep ==
  ASSUME TypeOK, TypeOK', OwedIsDone, ChildMove, windows \subseteq windows'
  PROVE  OwedIsDone'
<1> USE ChildrenBounds DEF OwedIsDone, Tasks
<1>1. CASE Resting
  BY <1>1 DEF Resting
<1>2. CASE Spawning
  BY <1>2, SpawningFacts
<1>3. CASE Cancelled
  BY <1>3, CancelFacts
<1>4. ASSUME NEW t \in Tasks, ChildStarts(t) PROVE OwedIsDone'
  BY <1>4, StartFacts
<1>5. ASSUME NEW t \in Tasks, ChildEnds(t) PROVE OwedIsDone'
  BY <1>5, EndFacts
<1>6. ASSUME NEW d \in Child, DecideChild(d) PROVE OwedIsDone'
  BY <1>6, DecideFacts
<1>7. CASE WriteReport
  BY <1>7, ReportFacts
<1>8. CASE Crash
  BY <1>8, CrashFacts
<1>9. CASE Restart
  BY <1>9, RestartFacts
<1> QED BY <1>1, <1>2, <1>3, <1>4, <1>5, <1>6, <1>7, <1>8, <1>9
        DEF ChildMove, Starting, Ending, Deciding

LEMMA SecondStep ==
  ASSUME TypeOK, TypeOK', Second, ChildMove, windows \subseteq windows'
  PROVE  Second'
<1>1. CASE Resting
  <2>1. \A c \in Child : <<c, 2>> \in Tasks /\ (task'[<<c, 2>>] # "none" => task[<<c, 2>>] # "none")
    BY <1>1, Zenon DEF Resting, Tasks
  <2> QED BY <2>1, WindowsGrow DEF Second
<1>2. CASE Spawning
  <2>1. ASSUME NEW c \in Child, task'[<<c, 2>>] # "none"
        PROVE  Through({"two_loops", "direct"})'
    <3>1. <<c, 2>> \in Tasks /\ <<c, 2>>[1] = c
      BY DEF Tasks
    <3>2. CASE task[<<c, 2>>] # "none"
      BY <3>2, WindowsGrow DEF Second
    <3>3. CASE task[<<c, 2>>] = "none"
      <4>1. Slot(c) = <<c, 2>> /\ (Live(<<c, 1>>) => "two_loops" \in windows')
        BY <1>2, <2>1, <3>1, <3>3, SpawningFacts
      <4>2. Live(<<c, 1>>)
        BY <4>1 DEF Slot
      <4> QED BY <4>1, <4>2 DEF Through
    <3> QED BY <3>2, <3>3
  <2> QED BY <2>1 DEF Second
<1>3. CASE Cancelled
  <2>1. \A c \in Child : <<c, 2>> \in Tasks /\ (task'[<<c, 2>>] # "none" => task[<<c, 2>>] # "none")
    BY <1>3, CancelFacts DEF Tasks
  <2> QED BY <2>1, WindowsGrow DEF Second
<1>4. ASSUME NEW t \in Tasks, ChildStarts(t) PROVE Second'
  <2>1. \A c \in Child : <<c, 2>> \in Tasks /\ (task'[<<c, 2>>] # "none" => task[<<c, 2>>] # "none")
    BY <1>4, StartFacts DEF Tasks
  <2> QED BY <2>1, WindowsGrow DEF Second
<1>5. ASSUME NEW t \in Tasks, ChildEnds(t) PROVE Second'
  <2>1. \A c \in Child : <<c, 2>> \in Tasks /\ (task'[<<c, 2>>] # "none" => task[<<c, 2>>] # "none")
    BY <1>5, EndFacts DEF Tasks
  <2> QED BY <2>1, WindowsGrow DEF Second
<1>6. ASSUME NEW d \in Child, DecideChild(d) PROVE Second'
  <2>1. "direct" \in windows'
    BY <1>6, DecideFacts
  <2> QED BY <2>1 DEF Second, Through
<1>7. CASE WriteReport
  <2>1. \A c \in Child : <<c, 2>> \in Tasks /\ (task'[<<c, 2>>] # "none" => task[<<c, 2>>] # "none")
    BY <1>7, ReportFacts DEF Tasks
  <2> QED BY <2>1, WindowsGrow DEF Second
<1>8. CASE Crash
  <2>1. \A c \in Child : <<c, 2>> \in Tasks /\ (task'[<<c, 2>>] # "none" => task[<<c, 2>>] # "none")
    BY <1>8, CrashFacts DEF Tasks
  <2> QED BY <2>1, WindowsGrow DEF Second
<1>9. CASE Restart
  <2>1. \A c \in Child : <<c, 2>> \in Tasks /\ (task'[<<c, 2>>] # "none" => task[<<c, 2>>] # "none")
    BY <1>9, RestartFacts DEF Tasks
  <2> QED BY <2>1, WindowsGrow DEF Second
<1> QED BY <1>1, <1>2, <1>3, <1>4, <1>5, <1>6, <1>7, <1>8, <1>9
        DEF ChildMove, Starting, Ending, Deciding

LEMMA EndsFiledStep ==
  ASSUME TypeOK, TypeOK', TasksKnown, WaitFiled, EndsFiled, ChildMove, windows \subseteq windows'
  PROVE  EndsFiled'
<1> USE ChildrenBounds, TasksPair DEF EndsFiled, Through
<1>1. CASE Resting
  BY <1>1 DEF Resting, Through
<1>2. CASE Spawning
  BY <1>2, SpawningFacts
<1>3. CASE Cancelled
  BY <1>3, CancelFacts
<1>4. ASSUME NEW t \in Tasks, ChildStarts(t) PROVE EndsFiled'
  BY <1>4, StartFacts
<1>5. ASSUME NEW t \in Tasks, ChildEnds(t) PROVE EndsFiled'
  <2>1. /\ owed = NoTask /\ t # NoTask /\ UNCHANGED <<rep, windows>>
        /\ task[t] = "running" => owed' = t
        /\ task[t] \in {"running", "direct"}
    BY <1>5, EndFacts DEF Tasks
  <2>2. rep'[t[1]] # "none" \/ owed' = t \/ Through({"crash"})'
    BY <2>1
  <2>3. \A u \in Tasks \ {t} : u # owed /\ task'[u] = task[u]
    BY <2>1, <1>5, EndFacts DEF Tasks
  <2> QED BY <2>1, <2>2, <2>3
<1>6. ASSUME NEW d \in Child, DecideChild(d) PROVE EndsFiled'
  <2>1. rep[d] # "none" \/ Through({"crash"})
    BY <1>6, DecideFacts DEF WaitFiled
  <2>2. Slot(d)[1] = d
    BY SlotType
  <2> QED BY <1>6, <2>1, <2>2, DecideFacts DEF Through
<1>7. CASE WriteReport
  <2>1. \A t \in Tasks : owed = t => rep'[t[1]] # "none"
    BY <1>7, ReportFacts
  <2> QED BY <1>7, <2>1, ReportFacts
<1>8. CASE Crash
  <2> QED BY <1>8, CrashFacts DEF Through
<1>9. CASE Restart
  BY <1>9, RestartFacts
<1> QED BY <1>1, <1>2, <1>3, <1>4, <1>5, <1>6, <1>7, <1>8, <1>9
        DEF ChildMove, Starting, Ending, Deciding

LEMMA WaitFiledStep ==
  ASSUME TypeOK, TypeOK', EndsFiled, WaitFiled, ChildMove, windows \subseteq windows'
  PROVE  WaitFiled'
<1> USE DEF WaitFiled, Through
<1>1. CASE Resting
  BY <1>1 DEF Resting, Through
<1>2. CASE Spawning
  <2>1. \A c \in Child : run'[c] = "waiting_approval" => run[c] = "waiting_approval"
    BY <1>2, SpawningFacts
  <2> QED BY <1>2, <2>1, SpawningFacts
<1>3. CASE Cancelled
  <2>1. ASSUME NEW c \in Child PROVE run'[c] # "waiting_approval"
    <3>1. run'[c] = IF run[c] = "absent" THEN "absent" ELSE Parked(run[c])
      BY <1>3, CancelFacts
    <3>2. run[c] # "absent" => Parked(run[c]) # "waiting_approval"
      BY ParkedType DEF TypeOK
    <3> QED BY <3>1, <3>2
  <2> QED BY <2>1
<1>4. ASSUME NEW t \in Tasks, ChildStarts(t) PROVE WaitFiled'
  BY <1>4, StartFacts
<1>5. ASSUME NEW t \in Tasks, ChildEnds(t) PROVE WaitFiled'
  <2>1. ASSUME run'[t[1]] = "waiting_approval"
        PROVE  \/ rep'[t[1]] # "none" \/ Through({"crash"})'
               \/ owed' # NoTask /\ owed'[1] = t[1]
    <3>1. CASE task[t] = "running"
      <4>1. owed' = t /\ t # NoTask
        BY <1>5, <3>1, EndFacts, ChildrenBounds DEF Tasks
      <4> QED BY <4>1
    <3>2. CASE task[t] = "direct"
      BY <1>5, <3>2, EndFacts, ChildrenBounds DEF EndsFiled, Tasks, Through
    <3> QED BY <1>5, <3>1, <3>2, EndFacts
  <2> QED BY <1>5, <2>1, EndFacts DEF Through
<1>6. ASSUME NEW d \in Child, DecideChild(d) PROVE WaitFiled'
  BY <1>6, DecideFacts DEF Through
<1>7. CASE WriteReport
  BY <1>7, ReportFacts
<1>8. CASE Crash
  BY <1>8, CrashFacts
<1>9. CASE Restart
  BY <1>9, RestartFacts DEF Through
<1> QED BY <1>1, <1>2, <1>3, <1>4, <1>5, <1>6, <1>7, <1>8, <1>9
        DEF ChildMove, Starting, Ending, Deciding

LEMMA CreatedIsQueuedStep ==
  ASSUME TypeOK, TypeOK', TasksKnown, PendKnown, CreatedIsQueued, ChildMove, windows \subseteq windows'
  PROVE  CreatedIsQueued'
<1> USE TasksPair DEF CreatedIsQueued, Through
<1>1. CASE Resting
  BY <1>1 DEF Resting
<1>2. CASE Spawning
  <2>1. ASSUME NEW c \in Child, run'[c] = "created"
        PROVE  \/ \E t \in Tasks : t[1] = c /\ task'[t] = "queued"
               \/ Through({"crash"})'
    <3>1. CASE run[c] = "created"
      <4>1. \A t \in Tasks : task[t] = "queued" => task'[t] = "queued"
        BY <1>2, SpawningFacts
      <4> QED BY <2>1, <3>1, <4>1
    <3>2. CASE run[c] # "created"
      <4>1. run[c] = "absent" /\ \E t \in pend' : t[1] = c
        BY <1>2, <2>1, <3>2, SpawningFacts
      <4>2. PICK t \in Tasks : t \in pend' /\ t[1] = c
        BY <4>1 DEF TypeOK
      <4>3. task[t] = "none"
        BY <4>1, <4>2 DEF TasksKnown
      <4>4. t \notin pend
        BY <4>3 DEF PendKnown
      <4>5. task'[t] = "queued"
        BY <1>2, <4>2, <4>4, SpawningFacts
      <4> QED BY <4>2, <4>5
    <3> QED BY <3>1, <3>2
  <2> QED BY <2>1
<1>3. CASE Cancelled
  <2>1. ASSUME NEW c \in Child PROVE run'[c] # "created"
    <3>1. run'[c] = IF run[c] = "absent" THEN "absent" ELSE Parked(run[c])
      BY <1>3, CancelFacts
    <3>2. run[c] # "absent" => Parked(run[c]) # "created"
      BY ParkedType DEF TypeOK
    <3> QED BY <3>1, <3>2
  <2> QED BY <2>1
<1>4. ASSUME NEW t \in Tasks, ChildStarts(t) PROVE CreatedIsQueued'
  <2>1. \A c \in Child : run'[c] = "created" => run[c] = "created" /\ c # t[1]
    BY <1>4, StartFacts
  <2>2. \A u \in Tasks : u[1] # t[1] => task'[u] = task[u]
    BY <1>4, StartFacts
  <2> QED BY <2>1, <2>2, <1>4, StartFacts
<1>5. ASSUME NEW t \in Tasks, ChildEnds(t) PROVE CreatedIsQueued'
  <2>1. run'[t[1]] # "created"
    BY <1>5, EndFacts, EndsFacts DEF TasksKnown
  <2>2. \A u \in Tasks : u[1] # t[1] => task'[u] = task[u]
    BY <1>5, EndFacts
  <2> QED BY <2>1, <2>2, <1>5, EndFacts
<1>6. ASSUME NEW d \in Child, DecideChild(d) PROVE CreatedIsQueued'
  <2>1. \A u \in Tasks : u[1] # d => task'[u] = task[u]
    BY <1>6, DecideFacts, SlotType
  <2> QED BY <2>1, <1>6, DecideFacts
<1>7. CASE WriteReport
  BY <1>7, ReportFacts
<1>8. CASE Crash
  BY <1>8, CrashFacts
<1>9. CASE Restart
  BY <1>9, RestartFacts
<1> QED BY <1>1, <1>2, <1>3, <1>4, <1>5, <1>6, <1>7, <1>8, <1>9
        DEF ChildMove, Starting, Ending, Deciding

LEMMA GoesOnKnownStep ==
  ASSUME TypeOK, TypeOK', OwedIsDone, Second, GoesOnKnown, ChildMove, windows \subseteq windows'
  PROVE  GoesOnKnown'
<1> USE ChildrenBounds, TasksPair DEF GoesOnKnown, Through
<1>1. CASE Resting
  BY <1>1 DEF Resting, Live
<1>2. CASE Spawning
  <2>1. ASSUME NEW t \in Tasks, rep'[t[1]] # "none", Live(t)' \/ owed' = t
        PROVE  Through({"direct", "again", "two_loops"})'
    <3>1. rep[t[1]] # "none" /\ owed # t
      BY <1>2, <2>1, SpawningFacts DEF Tasks
    <3>2. CASE task'[t] = task[t]
      <4>1. Live(t)
        BY <1>2, <2>1, <3>1, <3>2, SpawningFacts DEF Live
      <4> QED BY <3>1, <4>1
    <3>3. CASE task'[t] # task[t]
      BY <1>2, <3>1, <3>3, SpawningFacts
    <3> QED BY <3>2, <3>3
  <2> QED BY <2>1
<1>3. CASE Cancelled
  BY <1>3, CancelFacts DEF Live
<1>4. ASSUME NEW t \in Tasks, ChildStarts(t) PROVE GoesOnKnown'
  BY <1>4, StartFacts DEF Live
<1>5. ASSUME NEW t \in Tasks, ChildEnds(t) PROVE GoesOnKnown'
  <2>1. \A u \in Tasks : Live(u)' \/ owed' = u => Live(u)
    BY <1>5, EndFacts DEF Live, Tasks
  <2> QED BY <1>5, <2>1, EndFacts
<1>6. ASSUME NEW d \in Child, DecideChild(d) PROVE GoesOnKnown'
  <2>1. "direct" \in windows'
    BY <1>6, DecideFacts
  <2> QED BY <2>1
<1>7. CASE WriteReport
  <2>1. ASSUME NEW u \in Tasks, u[1] = owed[1], Live(u)
        PROVE  Through({"two_loops", "direct"})
    <3>1. owed \in Tasks /\ task[owed] = "done"
      BY <1>7, ReportFacts DEF OwedIsDone, Tasks
    <3>2. PICK c \in Child : u = <<c, 2>> \/ owed = <<c, 2>>
      BY <2>1, <3>1 DEF Live, Tasks
    <3>3. task[<<c, 2>>] # "none"
      BY <2>1, <3>1, <3>2 DEF Live
    <3> QED BY <3>3 DEF Second
  <2>2. \A u \in Tasks : u[1] # owed[1] => rep'[u[1]] = rep[u[1]]
    BY <1>7, ReportFacts
  <2>3. owed' = NoTask /\ \A u \in Tasks : u # owed'
    BY <1>7, ReportFacts DEF Tasks
  <2> QED BY <1>7, <2>1, <2>2, <2>3, ReportFacts DEF Live, Through
<1>8. CASE Crash
  BY <1>8, CrashFacts DEF Live, Tasks
<1>9. CASE Restart
  BY <1>9, RestartFacts DEF Live
<1> QED BY <1>1, <1>2, <1>3, <1>4, <1>5, <1>6, <1>7, <1>8, <1>9
        DEF ChildMove, Starting, Ending, Deciding

LEMMA EveryEndReportedStep ==
  ASSUME TypeOK, TypeOK', TasksKnown, EndsFiled, CreatedIsQueued, DownIsCrash, EveryEndReported, ChildMove, windows \subseteq windows'
  PROVE  EveryEndReported'
<1> USE ChildrenBounds, TasksPair DEF EveryEndReported, Through
<1>1. CASE Resting
  BY <1>1 DEF Resting, Live
<1>2. CASE Spawning
  <2>1. \A c \in Child : run'[c] \in Terminal => run[c] \in Terminal
    BY <1>2, SpawningFacts DEF Terminal
  <2>2. \A t \in Tasks : Live(t) \/ owed = t => Live(t)' \/ owed' = t
    BY <1>2, SpawningFacts DEF Live
  <2> QED BY <1>2, <2>1, <2>2, SpawningFacts
<1>3. CASE Cancelled
  <2>1. \A t \in Tasks : Live(t)' <=> Live(t)
    BY <1>3, CancelFacts DEF Live
  <2>2. ASSUME NEW c \in Child, run'[c] \in Terminal PROVE run[c] \in Terminal \cup {"created"}
    <3>1. run'[c] = IF run[c] = "absent" THEN "absent" ELSE Parked(run[c])
      BY <1>3, CancelFacts
    <3>2. run[c] \in Status
      BY <2>2, <3>1 DEF TypeOK, Terminal
    <3> QED BY <2>2, <3>1, <3>2, ParkedType DEF Terminal
  <2>3. \A c \in Child : run[c] = "created" =>
          (\E t \in Tasks : t[1] = c /\ Live(t)) \/ Through({"crash"})
    BY DEF CreatedIsQueued, Live
  <2> QED BY <1>3, <2>1, <2>2, <2>3, CancelFacts
<1>4. ASSUME NEW t \in Tasks, ChildStarts(t) PROVE EveryEndReported'
  <2>1. \A u \in Tasks : Live(u)' <=> Live(u)
    BY <1>4, StartFacts DEF Live
  <2>2. \A c \in Child : run'[c] \in Terminal => run[c] \in Terminal
    BY <1>4, StartFacts DEF Terminal
  <2> QED BY <1>4, <2>1, <2>2, StartFacts
<1>5. ASSUME NEW t \in Tasks, ChildEnds(t) PROVE EveryEndReported'
  <2>1. owed = NoTask /\ t # NoTask /\ UNCHANGED <<rep, windows>>
    BY <1>5, EndFacts DEF Tasks
  <2>2. rep[t[1]] # "none" \/ owed' = t \/ Through({"crash"})
    BY <1>5, <2>1, EndFacts DEF EndsFiled
  <2>3. \A u \in Tasks : u[1] # t[1] => (Live(u)' <=> Live(u)) /\ u # owed /\ u # owed'
    BY <1>5, <2>1, EndFacts DEF Live, Tasks
  <2> QED BY <1>5, <2>1, <2>2, <2>3, EndFacts
<1>6. ASSUME NEW d \in Child, DecideChild(d) PROVE EveryEndReported'
  <2>1. \A u \in Tasks : u[1] # d => (Live(u)' <=> Live(u))
    BY <1>6, DecideFacts, SlotType DEF Live
  <2>2. run'[d] \notin Terminal /\ \A c \in Child \ {d} : run'[c] = run[c]
    BY <1>6, DecideFacts DEF Terminal
  <2> QED BY <1>6, <2>1, <2>2, DecideFacts
<1>7. CASE WriteReport
  <2>1. \A u \in Tasks : Live(u)' <=> Live(u)
    BY <1>7, ReportFacts DEF Live
  <2> QED BY <1>7, <2>1, ReportFacts
<1>8. CASE Crash
  BY <1>8, CrashFacts
<1>9. CASE Restart
  <2> QED BY <1>9, RestartFacts DEF DownIsCrash
<1> QED BY <1>1, <1>2, <1>3, <1>4, <1>5, <1>6, <1>7, <1>8, <1>9
        DEF ChildMove, Starting, Ending, Deciding

LEMMA HonestReportStep ==
  ASSUME TypeOK, TypeOK', GoesOnKnown, HonestReport, ChildMove, windows \subseteq windows'
  PROVE  HonestReport'
<1> USE TasksPair DEF HonestReport, Through
<1>1. CASE Resting
  BY <1>1 DEF Resting
<1>2. CASE Spawning
  BY <1>2, SpawningFacts
<1>3. CASE Cancelled
  <2>1. ASSUME NEW c \in Child PROVE run'[c] = "completed" <=> run[c] = "completed"
    <3>1. run'[c] = IF run[c] = "absent" THEN "absent" ELSE Parked(run[c])
      BY <1>3, CancelFacts
    <3> QED BY <3>1, ParkedType DEF TypeOK, Terminal
  <2> QED BY <1>3, <2>1, CancelFacts
<1>4. ASSUME NEW t \in Tasks, ChildStarts(t) PROVE HonestReport'
  BY <1>4, StartFacts
<1>5. ASSUME NEW t \in Tasks, ChildEnds(t) PROVE HonestReport'
  <2>1. run[t[1]] = "completed" => run'[t[1]] = "completed"
    BY <1>5, EndFacts, EndsFacts DEF Terminal
  <2>2. Live(t)
    BY <1>5, EndFacts DEF Live
  <2>3. rep[t[1]] = "partial" => Through({"direct", "again", "two_loops"})
    BY <2>2 DEF GoesOnKnown
  <2> QED BY <1>5, <2>1, <2>3, EndFacts
<1>6. ASSUME NEW d \in Child, DecideChild(d) PROVE HonestReport'
  BY <1>6, DecideFacts
<1>7. CASE WriteReport
  BY <1>7, ReportFacts DEF ReportStatus
<1>8. CASE Crash
  BY <1>8, CrashFacts
<1>9. CASE Restart
  BY <1>9, RestartFacts DEF Terminal
<1> QED BY <1>1, <1>2, <1>3, <1>4, <1>5, <1>6, <1>7, <1>8, <1>9
        DEF ChildMove, Starting, Ending, Deciding

LEMMA DownIsCrashStep ==
  ASSUME DownIsCrash, [Next]_vars, windows \subseteq windows'
  PROVE  DownIsCrash'
<1>1. CASE Crash
  BY <1>1 DEF Crash, DownIsCrash, Through
<1>2. CASE ~Crash
  <2>1. loop' = "down" => loop = "down"
    BY <1>2 DEF Next, vars, local, LoopStep, Deliver, CannotAttach, DrainCompleted, Wake,
       TopEnded, TopCancelled, TopStarts, TopWaiting, OneFinished, BudgetStop, Turn,
       TurnStale, TurnStops, TurnFails, TurnPauses, TurnThinks, CallTools, ToolsEnd,
       ToolsStale, GatherEnds, FinishLoop, Restart, Reconciled, Delegate, DelegateTool,
       WriteReport, Resume, Cancel, ChildStep, ChildStarts, ChildEnds, DecideChild,
       DrainAll, Leave
  <2> QED BY <2>1, WindowsGrow DEF DownIsCrash
<1> QED BY <1>1, <1>2

LEMMA DrivenStep ==
  ASSUME Kept, Kept', Driven, PendKnown, [Next]_vars
  PROVE  Driven'
<1>1. TypeOK /\ TypeOK' /\ ChildMove /\ windows \subseteq windows'
  BY NextMoves DEF Kept
<1> QED BY <1>1, TasksKnownStep, OwedIsDoneStep, SecondStep, EndsFiledStep, WaitFiledStep,
           CreatedIsQueuedStep, GoesOnKnownStep, DownIsCrashStep, EveryEndReportedStep,
           HonestReportStep DEF Driven

-----------------------------------------------------------------------------
(* The loop and the children it waits for. *)

\* A parent that is being cancelled, was cancelled or failed stays so.
LEMMA DoomStays ==
  ASSUME TypeOK, parent \in Doomed, [Next]_vars
  PROVE  /\ parent' \in Doomed
         /\ parent # "cancel_requested" => parent' = parent
<1> USE DEF Doomed, store, Terminal
<1>1. CASE FinishLoop
  BY <1>1 DEF FinishLoop, Moves, Status
<1>2. CASE Cancel \/ Restart \/ Resume
  BY <1>2 DEF Cancel, Restart, Resume
<1>3. CASE GatherEnds
  BY <1>3 DEF GatherEnds
<1>4. CASE TopCancelled \/ BudgetStop \/ TurnStops \/ TurnFails
  BY <1>4 DEF TopCancelled, BudgetStop, TurnStops, TurnFails, DrainAll
<1>5. CASE ~(FinishLoop \/ Cancel \/ Restart \/ Resume \/ GatherEnds \/ TopCancelled
              \/ BudgetStop \/ TurnStops \/ TurnFails)
  BY <1>5 DEF Next, vars, LoopStep, Deliver, CannotAttach, DrainCompleted, Wake,
     TopEnded, TopStarts, TopWaiting, OneFinished, Turn, TurnStale, TurnPauses, TurnThinks,
     CallTools, ToolsEnd, ToolsStale, Reconciled, Delegate, DelegateTool, Answered,
     WriteReport, Crash, ChildStep, ChildStarts, ChildEnds, DecideChild
<1> QED BY <1>1, <1>2, <1>3, <1>4, <1>5

LEMMA LostStays ==
  ASSUME TypeOK, [Next]_vars, Lost
  PROVE  Lost'
<1>1. windows \subseteq windows'
  BY NextMoves
<1> QED BY <1>1, DoomStays DEF Lost, Through

LEMMA LoopPlacesStep ==
  ASSUME TypeOK, LoopPlaces, [Next]_vars
  PROVE  LoopPlaces'
<1> USE DEF LoopPlaces, store, local
<1>1. CASE TopCancelled \/ BudgetStop \/ TurnStops \/ TurnFails
  BY <1>1 DEF TopCancelled, BudgetStop, TurnStops, TurnFails, DrainAll, Leave
<1>2. CASE ToolsEnd \/ ToolsStale \/ TopWaiting
  BY <1>2 DEF ToolsEnd, ToolsStale, TopWaiting, AtTop, Leave
<1>3. CASE GatherEnds \/ FinishLoop
  BY <1>3 DEF GatherEnds, FinishLoop, Leave
<1>4. CASE Crash
  BY <1>4, CrashFacts DEF Crash
<1>5. CASE Cancel
  BY <1>5 DEF Cancel, Parked, Moves, Status, Terminal, Free
<1>6. CASE ChildStep \/ WriteReport \/ \E c \in Child : DecideChild(c)
  BY <1>6 DEF WriteReport, ChildStep, ChildStarts, ChildEnds, DecideChild, Free
<1>7. CASE \/ Deliver \/ CannotAttach \/ DrainCompleted \/ Wake \/ TopEnded \/ TopStarts
           \/ OneFinished \/ Turn \/ TurnStale \/ TurnPauses \/ TurnThinks \/ CallTools
           \/ Restart \/ Reconciled \/ Resume \/ UNCHANGED vars
           \/ \E c \in Child : Delegate(c) \/ DelegateTool(c)
  BY <1>7 DEF Deliver, Delivering, CannotAttach, DrainCompleted, Wake, TopEnded, TopStarts, AtTop,
     OneFinished, Turn, TurnStale, TurnPauses, TurnThinks, CallTools, Answered, Restart,
     Reconciled, Resume, Delegate, DelegateTool, Leave, vars
<1> QED BY <1>1, <1>2, <1>3, <1>4, <1>5, <1>6, <1>7 DEF Next, LoopStep

\* Only a spawn adds to the tasks that a loop waits for, and only a parent at
\* work, waiting or being cancelled spawns.
LEMMA PendMoves ==
  ASSUME [Next]_vars
  PROVE  \/ pend' \subseteq pend
         \/ Spawning /\ parent' = parent /\ (LoopPlaces => parent \notin Terminal)
<1> USE DEF store, local
<1>1. CASE TopWaiting
  <2>1. CASE pend' = pend
    BY <2>1
  <2>2. CASE pend' # pend
    <3> DEFINE back == {c \in pkg : run[c] \notin Terminal \cup {"absent"}}
    <3>1. /\ Spawn(back) /\ pkg' = pkg /\ owed = NoTask /\ UNCHANGED <<owed, rep, filed>>
          /\ parent = "waiting_children" /\ parent' = parent
      BY <1>1, <2>2 DEF TopWaiting, AtTop
    <3> QED BY <3>1 DEF Spawning, Terminal
  <2> QED BY <2>1, <2>2
<1>2. ASSUME NEW c \in Child, Delegate(c) PROVE Spawning /\ parent' = parent /\ parent = "running"
  BY <1>2 DEF Delegate, Answered, Spawning
<1>3. CASE ToolsEnd \/ ToolsStale
  <2>1. owed = NoTask /\ UNCHANGED <<pkg, owed, rep, filed>> /\ loop = "tools"
    BY <1>3 DEF ToolsEnd, ToolsStale
  <2>2. pend' = {} \/ (Spawn(Unspawned) /\ parent' = parent)
    BY <1>3 DEF ToolsEnd, ToolsStale, Leave
  <2>3. Unspawned \in SUBSET pkg'
    BY <2>1 DEF Unspawned
  <2>4. LoopPlaces => parent \notin Terminal
    BY <2>1 DEF LoopPlaces, Terminal
  <2> QED BY <2>1, <2>2, <2>3, <2>4 DEF Spawning
<1>4. CASE ~(TopWaiting \/ ToolsEnd \/ ToolsStale \/ \E c \in Child : Delegate(c))
  BY <1>4 DEF Next, vars, LoopStep, Deliver, CannotAttach, DrainCompleted, Wake, TopEnded,
     TopCancelled, TopStarts, OneFinished, BudgetStop, Turn, TurnStale, TurnStops,
     TurnFails, TurnPauses, TurnThinks, CallTools, GatherEnds, FinishLoop, Restart,
     Reconciled, DelegateTool, WriteReport, Resume, Cancel, Crash, ChildStep, ChildStarts,
     ChildEnds, DecideChild, DrainAll, Leave, Unfinished
<1> QED BY <1>1, <1>2, <1>3, <1>4 DEF Terminal

\* A task that was made is only lost by a crash.
LEMMA TasksStay ==
  ASSUME TypeOK, TypeOK', ChildMove, ~Crash, NEW t \in Tasks, task[t] # "none"
  PROVE  task'[t] # "none"
<1>1. CASE Spawning
  BY <1>1, SpawningFacts
<1>2. CASE Starting \/ Ending \/ Deciding
  BY <1>2, StartFacts, EndFacts, DecideFacts DEF Starting, Ending, Deciding
<1> QED BY <1>1, <1>2, CancelFacts, ReportFacts, RestartFacts DEF ChildMove, Resting

LEMMA PendKnownStep ==
  ASSUME TypeOK, TypeOK', PendKnown, [Next]_vars
  PROVE  PendKnown'
<1>1. CASE Crash
  BY <1>1 DEF Crash, PendKnown
<1>2. CASE ~Crash
  <2>1. \A t \in pend : task'[t] # "none"
    BY <1>2, NextMoves, TasksStay DEF PendKnown, TypeOK
  <2>2. \A t \in pend' \ pend : task'[t] # "none"
    BY PendMoves, SpawningFacts
  <2> QED BY <2>1, <2>2 DEF PendKnown
<1> QED BY <1>1, <1>2

\* A loop that waits for a task that is over has its receipt, once the report
\* that is owed is written.
LEMMA OverIsFiled ==
  ASSUME Kept, Driven, PendKnown, ~Lost, owed = NoTask, NEW t \in pend, ~Live(t)
  PROVE  rep[t[1]] # "none"
<1>1. t \in Tasks /\ t # owed /\ task[t] = "done"
  BY ChildrenBounds DEF Kept, TypeOK, PendKnown, Live, Tasks
<1> QED BY <1>1 DEF Driven, EndsFiled, Lost, Through

\* Nothing is put back: packages stay, receipts stay, runs stay.
LEMMA NothingForgotten ==
  ASSUME TypeOK, TypeOK', [Next]_vars
  PROVE  /\ pkg \subseteq pkg' /\ seen \subseteq seen'
         /\ \A c \in Child : rep[c] # "none" => rep'[c] # "none"
<1>1. pkg \subseteq pkg' /\ seen \subseteq seen'
  BY PackageMoves, NoteMoves DEF Attach
<1>2. \A c \in Child : rep[c] # "none" => rep'[c] # "none"
  BY NextMoves, SpawningFacts, CancelFacts, StartFacts, EndFacts, DecideFacts, ReportFacts,
     CrashFacts, RestartFacts DEF ChildMove, Resting, Starting, Ending, Deciding
<1> QED BY <1>1, <1>2

\* The loop is left: what it waited for is over, or the window is recorded.
LEMMA AwaitedLeft ==
  ASSUME Kept, Driven, LoopPlaces, PendKnown, Awaited, Lost => Lost',
         owed = NoTask, pend' \subseteq pend, UNCHANGED <<pkg, rep>>,
         \A t \in pend \ pend' : Live(t) => Lost',
         loop = "tools" /\ Unspawned # {} => Lost'
  PROVE  Awaited'
<1> SUFFICES ASSUME ~Lost', NEW c \in pkg PROVE PendingChild(c)' \/ rep'[c] # "none"
  BY DEF Awaited
<1>1. ~Lost /\ c \in Child
  BY DEF Kept, TypeOK
<1>2. run[c] = "absent" => loop # "tools"
  BY DEF Unspawned
<1>3. CASE PendingChild(c)
  <2>1. PICK t \in pend : t[1] = c
    BY <1>3 DEF PendingChild
  <2>2. t \in pend' \/ rep[c] # "none"
    BY <1>1, <2>1, OverIsFiled
  <2> QED BY <2>1, <2>2 DEF PendingChild
<1> QED BY <1>1, <1>2, <1>3 DEF Awaited

\* The loop goes on with the same children to wait for.
LEMMA AwaitedStays ==
  ASSUME Kept, Awaited, Lost => Lost', pend' = pend, pkg' = pkg,
         \A c \in Child : rep[c] # "none" => rep'[c] # "none",
         \A c \in Child : run[c] = "absent" => run'[c] = "absent",
         loop = "tools" => loop' = "tools"
  PROVE  Awaited'
<1> SUFFICES ASSUME ~Lost', NEW c \in pkg
             PROVE  \/ run'[c] = "absent" /\ loop' = "tools"
                    \/ PendingChild(c)' \/ rep'[c] # "none"
  BY DEF Awaited
<1> QED BY DEF Awaited, PendingChild, Kept, TypeOK

\* Packages are spawned: those not spawned yet are among them.
LEMMA AwaitedSpawn ==
  ASSUME Kept, Kept', Awaited, Lost => Lost', NEW C \in SUBSET Child, Spawn(C), rep' = rep,
         pkg' \ pkg \subseteq C, loop = "tools" => Unspawned \subseteq C
  PROVE  Awaited'
<1>1. pend \subseteq pend' /\ \A c \in C : \E t \in pend' : t[1] = c
  BY SpawnFacts DEF Kept
<1> SUFFICES ASSUME ~Lost', NEW c \in pkg' PROVE PendingChild(c)' \/ rep'[c] # "none"
  BY DEF Awaited
<1>2. CASE c \in C
  BY <1>1, <1>2 DEF PendingChild
<1>3. CASE c \notin C
  BY <1>1, <1>3 DEF Awaited, Unspawned, PendingChild
<1> QED BY <1>2, <1>3

LEMMA AwaitedStep ==
  ASSUME Kept, Kept', Driven, LoopPlaces, PendKnown, Awaited, [Next]_vars
  PROVE  Awaited'
<1>0. /\ Lost => Lost' /\ windows \subseteq windows'
      /\ \A c \in Child : rep[c] # "none" => rep'[c] # "none"
  BY LostStays, NextMoves, NothingForgotten DEF Kept
<1> USE DEF store, local
<1>1. CASE \/ CannotAttach \/ TopEnded \/ TurnStale \/ TurnPauses
  <2>1. /\ owed = NoTask /\ loop # "tools" /\ pend' \subseteq pend /\ UNCHANGED <<pkg, rep>>
        /\ Orphans \subseteq windows'
    BY <1>1 DEF CannotAttach, Delivering, TopEnded, AtTop, TurnStale, TurnPauses, Answered, Leave
  <2>2. \A t \in pend \ pend' : Live(t) => Lost'
    BY <2>1 DEF Orphans, Lost, Through
  <2> QED BY <1>0, <2>1, <2>2, AwaitedLeft
<1>2. CASE \/ TopCancelled \/ BudgetStop \/ TurnStops \/ TurnFails
  <2>1. owed = NoTask /\ loop # "tools" /\ UNCHANGED <<pkg, rep, run>>
    BY <1>2 DEF TopCancelled, BudgetStop, AtTop, TurnStops, TurnFails, Answered
  <2>2. pend' = pend \/ (pend' = {} /\ Orphans \subseteq windows')
    BY <1>2 DEF TopCancelled, BudgetStop, TurnStops, TurnFails, DrainAll, Leave
  <2>3. CASE pend' = pend
    BY <1>0, <2>1, <2>3, AwaitedStays
  <2>4. CASE pend' = {} /\ Orphans \subseteq windows'
    <3>1. \A t \in pend \ pend' : Live(t) => Lost'
      BY <2>4 DEF Orphans, Lost, Through
    <3> QED BY <1>0, <2>1, <2>4, <3>1, AwaitedLeft
  <2> QED BY <2>2, <2>3, <2>4
<1>3. CASE DrainCompleted \/ GatherEnds \/ FinishLoop
  <2>1. owed = NoTask /\ loop # "tools" /\ UNCHANGED <<pkg, rep>> /\ pend' \subseteq pend
    BY <1>3 DEF DrainCompleted, GatherEnds, FinishLoop, Leave, Unfinished
  <2>2. \A t \in pend \ pend' : ~Live(t)
    BY <1>3 DEF DrainCompleted, GatherEnds, FinishLoop, Leave, Unfinished, Live, LoopPlaces
  <2> QED BY <1>0, <2>1, <2>2, AwaitedLeft
<1>4. CASE ToolsEnd \/ ToolsStale
  <2>1. /\ owed = NoTask /\ loop = "tools" /\ UNCHANGED <<pkg, rep>>
        /\ \/ Spawn(Unspawned)
           \/ /\ pend' = {} /\ Orphans \subseteq windows'
              /\ parent = "running" /\ Unspawned # {} => "unspawned" \in windows'
              /\ parent # "running" => parent' = parent
    BY <1>4 DEF ToolsEnd, ToolsStale, Leave
  <2>2. CASE Spawn(Unspawned)
    <3>1. Unspawned \in SUBSET Child
      BY DEF Unspawned, Kept, TypeOK
    <3> QED BY <1>0, <2>1, <2>2, <3>1, AwaitedSpawn
  <2>3. CASE ~Spawn(Unspawned)
    <3>1. \A t \in pend \ pend' : Live(t) => Lost'
      BY <2>1, <2>3 DEF Orphans, Lost, Through
    <3>2. parent # "running" => parent' \in Doomed
      BY <2>1, <2>3 DEF LoopPlaces, Doomed
    <3>3. Unspawned # {} => Lost'
      BY <2>1, <2>3, <3>2 DEF Lost, Through
    <3> QED BY <1>0, <2>1, <2>3, <3>1, <3>3, AwaitedLeft
  <2> QED BY <2>2, <2>3
<1>5. CASE TopWaiting
  <2>1. loop # "tools" /\ UNCHANGED <<pkg, rep>>
    BY <1>5 DEF TopWaiting, AtTop
  <2>2. CASE UNCHANGED <<run, pend>>
    BY <1>0, <2>1, <2>2, AwaitedStays
  <2>3. CASE ~UNCHANGED <<run, pend>>
    <3> DEFINE back == {c \in pkg : run[c] \notin Terminal \cup {"absent"}}
    <3>1. Spawn(back) /\ back \in SUBSET Child
      BY <1>5, <2>3 DEF TopWaiting, Kept, TypeOK
    <3> QED BY <1>0, <2>1, <3>1, AwaitedSpawn
  <2> QED BY <2>2, <2>3
<1>6. ASSUME NEW c \in Child, Delegate(c) PROVE Awaited'
  <2>1. Spawn({c}) /\ pkg' = pkg \cup {c} /\ rep' = rep /\ loop # "tools" /\ {c} \in SUBSET Child
    BY <1>6 DEF Delegate, Answered
  <2> QED BY <1>0, <2>1, AwaitedSpawn
<1>7. ASSUME NEW c \in Child, DelegateTool(c) PROVE Awaited'
  <2>1. /\ pkg' = pkg \cup {c} /\ loop = "tools" /\ loop' = "tools" /\ c \notin pkg
        /\ UNCHANGED <<run, rep, pend>>
    BY <1>7 DEF DelegateTool, NewPackage
  <2>2. run[c] = "absent"
    BY <2>1 DEF Kept, BoundedFamily
  <2> QED BY <1>0, <2>1, <2>2 DEF Awaited, PendingChild
<1>8. CASE Crash
  BY <1>8 DEF Crash, Awaited, Lost, Through
<1>9. CASE \/ Deliver \/ Wake \/ TopStarts \/ OneFinished \/ Turn \/ TurnThinks \/ CallTools
           \/ Restart \/ Reconciled \/ Resume \/ Cancel \/ WriteReport \/ UNCHANGED vars
  <2>1. UNCHANGED <<pkg, pend>> /\ (loop = "tools" => loop' = "tools")
    BY <1>9 DEF Deliver, Wake, TopStarts, AtTop, OneFinished, Turn, TurnThinks, CallTools,
       Answered, Restart, Reconciled, Resume, Cancel, WriteReport, vars
  <2>2. \A c \in Child : run[c] = "absent" => run'[c] = "absent"
    BY <1>9 DEF Deliver, Wake, TopStarts, OneFinished, Turn, TurnThinks, CallTools,
       Restart, Reconciled, Resume, Cancel, WriteReport, vars
  <2> QED BY <1>0, <2>1, <2>2, AwaitedStays
<1>10. CASE ChildStep \/ \E c \in Child : DecideChild(c)
  <2>1. UNCHANGED <<pkg, pend, loop>>
    BY <1>10 DEF ChildStep, ChildStarts, ChildEnds, DecideChild
  <2>2. \A c \in Child : run[c] = "absent" => run'[c] = "absent"
    <3>1. ASSUME NEW t \in Tasks, ChildStarts(t) PROVE \A c \in Child : run[c] = "absent" => run'[c] = "absent"
      BY <3>1 DEF ChildStarts, Kept, TypeOK
    <3>2. ASSUME NEW t \in Tasks, ChildEnds(t) PROVE \A c \in Child : run[c] = "absent" => run'[c] = "absent"
      <4>1. run[t[1]] # "absent"
        BY <3>2 DEF ChildEnds, Driven, TasksKnown
      <4> QED BY <3>2, <4>1 DEF ChildEnds, Kept, TypeOK
    <3>3. ASSUME NEW d \in Child, DecideChild(d) PROVE \A c \in Child : run[c] = "absent" => run'[c] = "absent"
      BY <3>3 DEF DecideChild, Kept, TypeOK
    <3> QED BY <1>10, <3>1, <3>2, <3>3 DEF ChildStep
  <2> QED BY <1>0, <2>1, <2>2, AwaitedStays
<1> QED BY <1>1, <1>2, <1>3, <1>4, <1>5, <1>6, <1>7, <1>8, <1>9, <1>10 DEF Next, LoopStep

-----------------------------------------------------------------------------
(* From the wait to the end of the parent. *)

LEMMA NothingUndelivered ==
  ASSUME Kept, Undelivered = {}, NEW c \in Child, rep[c] # "none"
  PROVE  c \in seen
  BY DEF Kept, Filing, Undelivered

LEMMA InTurnStep ==
  ASSUME Kept, Awaited, InTurn, [Next]_vars
  PROVE  InTurn'
<1>0. Lost => Lost'
  BY LostStays DEF Kept
<1> USE DEF store, local
<1>1. CASE Turn
  <2>1. /\ loop = "top" /\ Undelivered = {} /\ UNCHANGED <<pkg, seen, pend>>
    BY <1>1 DEF Turn, AtTop
  <2>2. ASSUME ~Lost, NEW c \in pkg PROVE c \in seen \/ PendingChild(c)
    BY <2>1, <2>2, NothingUndelivered DEF Awaited, Kept, TypeOK
  <2> QED BY <1>0, <2>1, <2>2 DEF InTurn, PendingChild
<1>2. CASE loop = "turn" /\ UNCHANGED <<pkg, seen, pend>>
  BY <1>0, <1>2 DEF InTurn, PendingChild
<1>3. CASE \/ ChildStep \/ WriteReport \/ Cancel \/ UNCHANGED vars
           \/ \E c \in Child : DecideChild(c)
  <2>1. UNCHANGED <<loop, pkg, seen, pend>>
    BY <1>3 DEF ChildStep, ChildStarts, ChildEnds, WriteReport, Cancel, DecideChild, vars
  <2> QED BY <1>2, <2>1 DEF InTurn
<1>4. CASE (LoopStep /\ ~Turn) \/ Resume \/ Crash
  <2>1. loop' # "turn"
    BY <1>4 DEF LoopStep, Deliver, Delivering, CannotAttach, DrainCompleted, Wake, TopEnded,
       TopCancelled, TopStarts, TopWaiting, OneFinished, BudgetStop, TurnStale, TurnStops,
       TurnFails, TurnPauses, TurnThinks, CallTools, ToolsEnd, ToolsStale, GatherEnds,
       FinishLoop, Restart, Reconciled, Delegate, DelegateTool, AtTop, DrainAll, Leave,
       Resume, Crash
  <2> QED BY <2>1 DEF InTurn
<1> QED BY <1>1, <1>3, <1>4 DEF Next

LEMMA FinishingStep ==
  ASSUME Kept, InTurn, Finishing, [Next]_vars
  PROVE  Finishing'
<1>0. Lost => Lost'
  BY LostStays DEF Kept
<1> USE DEF store, local
<1>1. CASE TurnStops
  <2>1. UNCHANGED <<pkg, seen>> /\ loop = "turn" /\ (loop' = "finish" => pend = {})
    BY <1>1 DEF TurnStops, Answered, DrainAll, Leave
  <2> QED BY <1>0, <2>1 DEF InTurn, Finishing, PendingChild
<1>2. CASE \/ ChildStep \/ WriteReport \/ Cancel \/ UNCHANGED vars
           \/ \E c \in Child : DecideChild(c)
  <2>1. UNCHANGED <<loop, then, pkg, seen>>
    BY <1>2 DEF ChildStep, ChildStarts, ChildEnds, WriteReport, Cancel, DecideChild, vars
  <2> QED BY <1>0, <2>1 DEF Finishing
<1>3. CASE (LoopStep /\ ~TurnStops) \/ Resume \/ Crash
  <2>1. loop' = "finish" => then' # "complete"
    BY <1>3 DEF LoopStep, Deliver, Delivering, CannotAttach, DrainCompleted, Wake, TopEnded,
       TopCancelled, TopStarts, TopWaiting, OneFinished, BudgetStop, Turn, TurnStale,
       TurnFails, TurnPauses, TurnThinks, CallTools, ToolsEnd, ToolsStale, GatherEnds,
       FinishLoop, Restart, Reconciled, Delegate, DelegateTool, AtTop, DrainAll, Leave,
       Resume, Crash
  <2> QED BY <2>1 DEF Finishing
<1> QED BY <1>1, <1>2, <1>3 DEF Next

\* Only the end of a loop completes a parent.
LEMMA OnlyFinishCompletes ==
  ASSUME [Next]_vars, parent' = "completed", parent # "completed"
  PROVE  FinishLoop
  BY DEF Next, vars, store, local, LoopStep, Deliver, CannotAttach, DrainCompleted, Wake,
     TopEnded, TopCancelled, TopStarts, TopWaiting, OneFinished, BudgetStop, Turn, TurnStale,
     TurnStops, TurnFails, TurnPauses, TurnThinks, CallTools, ToolsEnd, ToolsStale,
     GatherEnds, Restart, Reconciled, Delegate, DelegateTool, WriteReport, Resume, Cancel,
     Parked, Crash, ChildStep, ChildStarts, ChildEnds, DecideChild, DrainAll, Leave

LEMMA CompletesWithReportsStep ==
  ASSUME Kept, Kept', LoopPlaces, Awaited, Finishing, CompletesWithReports, [Next]_vars
  PROVE  CompletesWithReports'
<1> SUFFICES ASSUME parent' = "completed", ~Through({"orphaned", "unspawned", "crash"})'
             PROVE  pkg' \subseteq seen'
  BY DEF CompletesWithReports
<1>1. seen \subseteq seen' /\ ~Through({"orphaned", "unspawned", "crash"})
  BY NextMoves, NothingForgotten DEF Kept, Through
<1>2. CASE parent = "completed"
  <2>1. loop \notin {"turn", "tools"}
    BY <1>2 DEF LoopPlaces
  <2>2. pkg' = pkg
    BY <2>1, PackageMoves
  <2> QED BY <1>1, <1>2, <2>2 DEF CompletesWithReports
<1>3. CASE parent # "completed"
  <2>1. FinishLoop
    BY <1>3, OnlyFinishCompletes
  <2>2. /\ "completed" \in Moves[parent] /\ UNCHANGED <<pkg, seen>>
        /\ Target[then] = "completed"
        /\ loop = "finish" \/ (loop = "drained" /\ Undelivered = {})
    BY <1>3, <2>1 DEF FinishLoop
  <2>3. ~Lost /\ then = "complete"
    BY <1>1, <2>2 DEF Lost, Doomed, Moves, Terminal, Target, Kept, TypeOK, Status, LoopPlaces
  <2>4. CASE loop = "finish"
    BY <2>2, <2>3, <2>4 DEF Finishing
  <2>5. CASE loop = "drained" /\ Undelivered = {}
    BY <2>2, <2>3, <2>5, NothingUndelivered DEF Awaited, LoopPlaces, PendingChild, Kept, TypeOK
  <2> QED BY <2>2, <2>4, <2>5
<1> QED BY <1>2, <1>3

\* A loop that stops waiting for a task that can go on leaves an orphan.
LEMMA LeftBehind ==
  ASSUME LoopPlaces, [Next]_vars, ~Crash, NEW t \in pend, t \notin pend', Live(t)
  PROVE  "orphaned" \in windows'
<1> USE DEF store, local
<1>1. CASE \/ CannotAttach \/ TopEnded \/ TurnStale \/ TurnPauses
           \/ TopCancelled \/ BudgetStop \/ TurnStops \/ TurnFails
  BY <1>1 DEF CannotAttach, TopEnded, TurnStale, TurnPauses, TopCancelled, BudgetStop, TurnStops,
     TurnFails, DrainAll, Leave, Orphans
<1>2. CASE \/ DrainCompleted \/ GatherEnds \/ FinishLoop
  BY <1>2 DEF DrainCompleted, GatherEnds, FinishLoop, Leave, Unfinished, Live, LoopPlaces
<1>3. CASE \/ ToolsEnd \/ ToolsStale
  BY <1>3 DEF ToolsEnd, ToolsStale, Spawn, Leave, Orphans
<1>4. CASE TopWaiting \/ \E c \in Child : Delegate(c)
  BY <1>4 DEF TopWaiting, Delegate, Spawn
<1>5. CASE \/ Deliver \/ Wake \/ TopStarts \/ OneFinished \/ Turn \/ TurnThinks \/ CallTools
           \/ Restart \/ Reconciled \/ Resume \/ Cancel \/ WriteReport \/ UNCHANGED vars
           \/ ChildStep \/ \E c \in Child : DecideChild(c) \/ DelegateTool(c)
  BY <1>5 DEF Deliver, Wake, TopStarts, OneFinished, Turn, TurnThinks, CallTools, Restart,
     Reconciled, Resume, Cancel, WriteReport, vars, ChildStep, ChildStarts, ChildEnds,
     DecideChild, DelegateTool
<1> QED BY <1>1, <1>2, <1>3, <1>4, <1>5 DEF Next, LoopStep

\* Who ends a parent: its loop, which then waits for nobody, or a cancellation.
LEMMA ParentEnds ==
  ASSUME [Next]_vars, parent \notin Terminal, parent' \in Terminal
  PROVE  pend' = {} \/ Cancel \/ Restart
  BY DEF Next, vars, store, local, Terminal, LoopStep, Deliver, CannotAttach, DrainCompleted,
     Wake, TopEnded, TopCancelled, TopStarts, TopWaiting, OneFinished, BudgetStop, Turn,
     TurnStale, TurnStops, TurnFails, TurnPauses, TurnThinks, CallTools, ToolsEnd, ToolsStale,
     GatherEnds, FinishLoop, Reconciled, Delegate, DelegateTool, WriteReport, Resume, Crash,
     ChildStep, ChildStarts, ChildEnds, DecideChild, DrainAll, Leave

LEMMA OnlyCancelRequests ==
  ASSUME TypeOK, LoopPlaces, [Next]_vars, parent # "cancel_requested", parent' = "cancel_requested"
  PROVE  Cancel
<1> USE DEF store, local
<1>1. CASE FinishLoop
  <2>1. Target[then] # "cancel_requested"
    BY <1>1 DEF FinishLoop, Target, TypeOK, LoopPlaces
  <2> QED BY <1>1, <2>1 DEF FinishLoop
<1> QED BY <1>1 DEF Next, vars, LoopStep, Deliver, CannotAttach, DrainCompleted,
     Wake, TopEnded, TopCancelled, TopStarts, TopWaiting, OneFinished, BudgetStop, Turn,
     TurnStale, TurnStops, TurnFails, TurnPauses, TurnThinks, CallTools, ToolsEnd, ToolsStale,
     GatherEnds, Restart, Reconciled, Delegate, DelegateTool, WriteReport, Resume, Crash,
     ChildStep, ChildStarts, ChildEnds, DecideChild, DrainAll, Leave

LEMMA CancelIsCancelled == Cancel => Cancelled
  BY DEF Cancel, Cancelled, Free, local

\* Only a spawn makes a created run; a cancellation leaves none.
LEMMA StillCreated ==
  ASSUME TypeOK, TypeOK', TasksKnown, ChildMove, ~Crash, NEW t \in Tasks, task[t] = "queued",
         run'[t[1]] = "created"
  PROVE  run[t[1]] = "created" /\ ~Cancelled
<1>0. t[1] \in Child /\ run[t[1]] # "absent"
  BY TasksPair DEF TasksKnown
<1>1. CASE Spawning
  <2>1. run[t[1]] = "created"
    BY <1>0, <1>1, SpawningFacts
  <2>2. Cancelled => run'[t[1]] # "created"
    BY <1>0, <2>1, CancelFacts DEF Parked
  <2> QED BY <2>1, <2>2
<1>2. CASE Cancelled
  BY <1>0, <1>2, CancelFacts DEF Parked
<1>3. CASE Ending /\ ~Cancelled
  <2>1. PICK u \in Tasks : ChildEnds(u)
    BY <1>3 DEF Ending
  <2> QED BY <1>0, <1>3, <2>1, EndFacts, EndsFacts
<1>4. CASE (Starting \/ Deciding) /\ ~Cancelled
  BY <1>0, <1>4, StartFacts, DecideFacts DEF Starting, Deciding
<1> QED BY <1>0, <1>1, <1>2, <1>3, <1>4, ReportFacts, RestartFacts DEF ChildMove, Resting

LEMMA StartsKnownStep ==
  ASSUME TypeOK, TypeOK', TasksKnown, LoopPlaces, PendKnown, StartsKnown, [Next]_vars
  PROVE  StartsKnown'
<1> SUFFICES ASSUME NEW t \in Tasks, task'[t] = "queued", run'[t[1]] = "created"
             PROVE  /\ t \in pend' \/ Through({"orphaned"})'
                    /\ parent' \in Terminal => Through({"orphaned"})'
                    /\ parent' = "cancel_requested" => Through({"late_spawn"})'
  BY DEF StartsKnown
<1>0. ChildMove /\ windows \subseteq windows' /\ ~Crash
  BY NextMoves, CrashFacts
<1>1. CASE task[t] # "queued"
  <2>1. Spawning
    BY <1>0, <1>1, CancelFacts, StartFacts, EndFacts, DecideFacts, ReportFacts, RestartFacts
    DEF ChildMove, Resting, Starting, Ending, Deciding
  <2>2. /\ t \in pend' /\ ~PendingChild(t[1])
        /\ parent = "cancel_requested" => "late_spawn" \in windows'
    BY <1>1, <2>1, SpawningFacts
  <2>3. t \notin pend
    BY <2>2 DEF PendingChild
  <2>4. parent' = parent /\ parent \notin Terminal
    BY <2>2, <2>3, PendMoves
  <2> QED BY <2>2, <2>4 DEF Through
<1>2. CASE task[t] = "queued"
  <2>1. run[t[1]] = "created" /\ ~Cancelled
    BY <1>0, <1>2, StillCreated
  <2>2. t \in pend' \/ Through({"orphaned"})'
    <3>1. CASE t \in pend
      BY <1>0, <1>2, <3>1, LeftBehind DEF Live, Through
    <3>2. CASE t \notin pend
      BY <1>0, <1>2, <2>1, <3>2 DEF StartsKnown, Through
    <3> QED BY <3>1, <3>2
  <2>3. ~Cancel /\ ~Restart
    BY <1>2, <2>1, CancelIsCancelled, RestartFacts DEF LoopPlaces
  <2>4. parent' \in Terminal => Through({"orphaned"})'
    BY <1>0, <1>2, <2>1, <2>2, <2>3, ParentEnds DEF StartsKnown, Through
  <2>5. parent' = "cancel_requested" => Through({"late_spawn"})'
    BY <1>0, <1>2, <2>1, <2>3, OnlyCancelRequests DEF StartsKnown, Through
  <2> QED BY <2>2, <2>4, <2>5
<1> QED BY <1>1, <1>2

LEMMA FollowedStep ==
  ASSUME Kept, Kept', Driven, Followed, [Next]_vars
  PROVE  Followed'
<1>1. TypeOK /\ TypeOK' /\ TasksKnown
  BY DEF Kept, Driven
<1> QED BY <1>1, LoopPlacesStep, PendKnownStep, AwaitedStep, InTurnStep, FinishingStep,
           StartsKnownStep, CompletesWithReportsStep DEF Followed

-----------------------------------------------------------------------------
(* The invariant and the theorems. *)

LEMMA InitIInv == Init => IInv
<1> SUFFICES ASSUME Init PROVE IInv
  OBVIOUS
<1>1. TypeOK
  BY ChildrenBounds DEF Init, TypeOK, Status, Terminal
<1>2. IsFiniteSet(pkg) /\ Cardinality(pkg) = 0
  BY FS_EmptySet DEF Init
<1>3. Kept
  BY <1>1, <1>2, ChildrenBounds DEF Init, Kept, BoundedFamily, Filing, DeliveredOnce
<1>4. Driven
  BY DEF Init, Driven, TasksKnown, OwedIsDone, Second, EndsFiled, WaitFiled, CreatedIsQueued,
     GoesOnKnown, DownIsCrash, EveryEndReported, HonestReport, Live, Terminal, Tasks
<1>5. Followed
  BY DEF Init, Followed, LoopPlaces, PendKnown, Awaited, InTurn, Finishing, StartsKnown,
     CompletesWithReports
<1> QED BY <1>3, <1>4, <1>5 DEF IInv

LEMMA IInvStep == IInv /\ [Next]_vars => IInv'
<1> SUFFICES ASSUME IInv, [Next]_vars PROVE IInv'
  OBVIOUS
<1>1. Kept'
  BY KeptStep DEF IInv
<1>2. Driven'
  BY <1>1, DrivenStep DEF IInv, Followed
<1>3. Followed'
  BY <1>1, FollowedStep DEF IInv
<1> QED BY <1>1, <1>2, <1>3 DEF IInv

LEMMA IInvHolds == Spec => []IInv
<1> QED BY InitIInv, IInvStep, PTL DEF Spec

\* The family of a parent run, for any number of children and any budget: no
\* more children than investigation.budget.max_children by delegation through a
\* turn or through the tool, over respawns and crashes; two loops never drive one
\* run outside the recorded windows; whatever way a child's loop ends, its report
\* is filed, says COMPLETE of completed children only and is delivered exactly
\* once; and a parent completes with all reports of its children delivered,
\* unless a loop was left with children under way, with packages not spawned, or
\* by a crash.
THEOREM FamilyIsKept == Spec => []FamilyHolds
<1>1. IInv => FamilyHolds
  BY DEF IInv, Kept, Filing, Driven, Followed, FamilyHolds, Second, OneLoopPerRun, Live, Tasks
<1> QED BY <1>1, IInvHolds, PTL

\* A cancelled parent stays cancelled whatever its loop, its children or an
\* operator does next, and the semaphore starts no new child behind a parent that
\* ended, or is being cancelled, outside the recorded windows.
THEOREM CancelIsFinal == Spec => CancelHolds
<1> DEFINE Sticks == parent = "cancel_requested" =>
                       parent' \in {"cancel_requested", "cancelled", "failed"}
           NoStart == \A c \in Child : run[c] = "created" /\ run'[c] = "running" =>
                        /\ parent \in Terminal => Through({"orphaned"})
                        /\ parent = "cancel_requested" => Through({"late_spawn"})
<1>1. ASSUME IInv, [Next]_vars PROVE Sticks
  BY <1>1, DoomStays DEF IInv, Kept, Doomed
<1>2. ASSUME IInv, [Next]_vars PROVE NoStart
  <2>0. TypeOK /\ TypeOK' /\ ChildMove /\ StartsKnown
    BY <1>2, NextMoves, KeptStep DEF IInv, Kept, Followed
  <2> SUFFICES ASSUME NEW c \in Child, run[c] = "created", run'[c] = "running"
               PROVE  \E t \in Tasks : t[1] = c /\ task[t] = "queued"
    BY <2>0 DEF StartsKnown
  <2>1. CASE Starting
    BY <2>0, <2>1, StartFacts DEF Starting
  <2>2. CASE Ending
    <3>1. PICK u \in Tasks : ChildEnds(u)
      BY <2>2 DEF Ending
    <3> QED BY <2>0, <3>1, EndFacts DEF Ends
  <2>3. CASE Deciding \/ Cancelled \/ Spawning
    BY <2>0, <2>3, DecideFacts, CancelFacts, SpawningFacts DEF Deciding, Parked
  <2> QED BY <2>0, <2>1, <2>2, <2>3, ReportFacts, CrashFacts, RestartFacts DEF ChildMove, Resting
<1>3. IInv /\ [Next]_vars => [Sticks]_vars /\ [NoStart]_vars
  BY <1>1, <1>2
<1> QED BY <1>3, IInvHolds, PTL DEF Spec, CancelHolds, CancelSticks, NoLateStart

=============================================================================
