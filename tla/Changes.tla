------------------------------- MODULE Changes -------------------------------
(***************************************************************************)
(* The change manager: apply (preflight, two backups, temporary files,     *)
(* rename), verify and rollback of file change sets on a remote host, with *)
(* the journal rows, the path locks, the approvals it spends, failing      *)
(* transport calls, a dying process and people who edit the same files.    *)
(* Paths are numbers in the order sorted() gives them.                     *)
(***************************************************************************)
EXTENDS Integers, Sequences

CONSTANTS
  Changesets,        \* change sets; also the content a change set writes
  Request,           \* change set -> its paths, in the order of the request
  NPaths,            \* the paths are 1..NPaths
  New,               \* paths that do not exist at first
  Protected,         \* paths that need an exact approval
  Absent, Original, Edited, None,
  MaxFaults,         \* bound: failing calls and deaths of the process
  MaxEdits,          \* bound: edits by somebody else
  MaxApprovals       \* bound: rollback approvals granted for a change set

Paths == 1..NPaths
Content == Changesets \cup {Absent, Original, Edited}

ASSUME ChangeConstants ==
  /\ {NPaths, MaxFaults, MaxEdits, MaxApprovals} \subseteq Nat
  /\ New \subseteq Paths /\ Protected \subseteq Paths
  /\ Request \in [Changesets -> Seq(Paths)]
  /\ {None, Absent, Original, Edited} \cap Changesets = {} /\ Absent \notin {Original, Edited}
  /\ \A c \in Changesets, i, j \in Paths :
       {i, j} \subseteq DOMAIN Request[c] /\ i /= j => Request[c][i] /= Request[c][j]

VARIABLES
  disk,      \* path -> content
  backup,    \* change set -> path -> content of its remote backup
  temp,      \* change set -> paths with a temporary file
  row,       \* change set -> its journal rows
  locks,     \* path -> the apply that holds its lock
  ap,        \* change set -> its apply
  rb,        \* change set -> its rollback
  vf,        \* change set -> its verify
  granted,   \* unused approvals: <<change set, kind>> -> how many
  grants, faults, edits,
  windows    \* history: the unprotected windows that were hit

vars == <<disk, backup, temp, row, locks, ap, rb, vf, granted, grants, faults, edits, windows>>
remote == <<disk, backup, temp>>
bounds == <<grants, faults, edits>>

-----------------------------------------------------------------------------
(* Journal.                                                                *)

Active == {"draft", "preflighted", "locally_backed_up", "remotely_backed_up", "applied", "validated"}
Terminal == {"verified", "failed", "rolled_back"}
Status == Active \cup Terminal \cup {"none"}

\* _VALID_PREDECESSORS.
Predecessors(to) ==
  CASE to = "preflighted" -> {"draft"}
    [] to = "locally_backed_up" -> {"preflighted"}
    [] to = "remotely_backed_up" -> {"locally_backed_up"}
    [] to = "applied" -> {"remotely_backed_up"}
    [] to = "validated" -> {"applied"}
    [] to = "verified" -> {"validated"}
    [] to = "failed" -> Active
    [] to = "rolled_back" -> {"applied", "validated"}

\* A change set with its file rows, as far as somebody decides on it.
ChangeSet == [status : Status, applied : SUBSET Paths]

\* transition: refused from a terminal status and off the graph.
MayMove(c, to) == row[c].status \notin Terminal /\ row[c].status \in Predecessors(to)

\* create_changeset: the row and its file rows, as a draft.
CreateChangeset(c) == row' = [row EXCEPT ![c].status = "draft"]

\* update_file_change(applied = ...), and the status in the same step.
UpdateFileChange(c, p, applied, status) ==
  row' = [row EXCEPT ![c] = [status |-> status,
            applied |-> IF applied THEN row[c].applied \cup {p} ELSE row[c].applied \ {p}]]

-----------------------------------------------------------------------------
(* Shared helpers.                                                         *)

PathsOf(c) == {Request[c][i] : i \in DOMAIN Request[c]}

\* p comes before q in the request.
Position(c, p) == CHOOSE i \in DOMAIN Request[c] : Request[c][i] = p
RequestOrder(c, p, q) == Position(c, p) < Position(c, q)

\* is_protected_path over the files: an exact approval is required.
InterruptsService(c) == PathsOf(c) \cap Protected /= {}

NoApply == [pc |-> "new", todo |-> {}, expect |-> [p \in Paths |-> Absent],
            read |-> [p \in Paths |-> Absent], written |-> {}, applied |-> {}, undone |-> TRUE,
            uncertain |-> FALSE, result |-> "none"]
NoRollback == [pc |-> "idle", todo |-> {}]

InFlight(c) == ap[c].pc \notin {"new", "end"}

\* Another actor changes or settles the change set while one is at work.
Race(c) == IF InFlight(c) \/ rb[c].pc \notin {"idle", "queued"} THEN {"race"} ELSE {}

\* Move apply c on.
Goto(c, pc) == [ap[c] EXCEPT !.pc = pc]
Loop(c, pc, todo) == [ap[c] EXCEPT !.pc = pc, !.todo = todo]
End(c, result) == [ap[c] EXCEPT !.pc = "end", !.result = result]

\* An exception of apply: the undo pass goes over the renamed files.
Raise(c, uncertain) ==
  [ap[c] EXCEPT !.pc = "undo", !.todo = ap[c].applied, !.uncertain = uncertain]

\* Behind file p: the next file of the loop, or the next phase and its files.
Following(c, p, next, first) ==
  IF ap[c].todo = {p} THEN Loop(c, next, first) ELSE Loop(c, ap[c].pc, ap[c].todo \ {p})

-----------------------------------------------------------------------------
(* apply.                                                                  *)

\* Mutant: only the first file of the request is locked.
FirstOnly(c) == {Request[c][1]}

\* lock_keys: the paths that are locked, and the order in which that is done.
\* Mutant of LockOrder: RequestOrder.
LockKeys(c) == PathsOf(c)
LockOrder(c, p, q) == p < q

\* It is file p's turn: locks are taken, and files renamed, in sorted order, files
\* are prepared in the order of the request and restored newest first.
Turn(c, p) ==
  /\ p \in ap[c].todo
  /\ \A q \in ap[c].todo \ {p} :
       CASE ap[c].pc = "lock" -> LockOrder(c, p, q)
         [] ap[c].pc \in {"read", "remote", "temp"} -> RequestOrder(c, p, q)
         [] ap[c].pc \in {"rename", "mark"} -> p < q
         [] ap[c].pc = "undo" -> q < p

\* A caller that has read the files asks for a change of what it read.
Apply(c) ==
  /\ ap[c].pc = "new"
  /\ ap' = [ap EXCEPT ![c] = [NoApply EXCEPT !.pc = "lock", !.todo = LockKeys(c), !.expect = disk]]
  /\ UNCHANGED <<remote, row, locks, rb, vf, granted, bounds, windows>>

\* _resolve_transport_for, _resolve_policy: the project, the target or the
\* service is not registered, or the host does not answer.
Unresolved(c) ==
  /\ ap[c].pc = "new"
  /\ ap' = [ap EXCEPT ![c] = End(c, "raised")]
  /\ UNCHANGED <<remote, row, locks, rb, vf, granted, bounds, windows>>

\* _lock_for, acquire: one path lock after the other.
Acquire(c, p) ==
  /\ ap[c].pc = "lock" /\ Turn(c, p)
  /\ locks[p] = None
  /\ locks' = [locks EXCEPT ![p] = c]
  /\ ap' = [ap EXCEPT ![c] = Following(c, p, "read", PathsOf(c))]
  /\ UNCHANGED <<remote, row, rb, vf, granted, bounds, windows>>

\* _check_sha and the existence checks: the file is what the caller read.
Unchanged(c, p) == disk[p] = ap[c].expect[p]

\* Steps 1-2: lstat, authorize, canonicalize, read and compare one file.
Read(c, p) ==
  /\ ap[c].pc = "read" /\ Turn(c, p)
  /\ ap' = [ap EXCEPT ![c] = IF Unchanged(c, p)
                            THEN [Following(c, p, "journal", {}) EXCEPT !.read[p] = disk[p]]
                            ELSE Raise(c, FALSE)]
  /\ UNCHANGED <<remote, row, locks, rb, vf, granted, bounds, windows>>

\* _apply_edits, _validate_content: a replacement is not found, not found as often
\* as expected or overlaps another, or the new content does not parse.
Refused(c) == ap' = [ap EXCEPT ![c] = Raise(c, FALSE)]

\* Steps 3-4: replacements and validation, then the draft row.  Content that
\* does not validate is refused before there is a row.
Journal(c) ==
  /\ ap[c].pc = "journal"
  /\ \/ Refused(c) /\ UNCHANGED row
     \/ CreateChangeset(c) /\ ap' = [ap EXCEPT ![c] = Goto(c, "local")]
  /\ UNCHANGED <<remote, locks, rb, vf, granted, bounds, windows>>

\* Preflighted; step 5: the encrypted local backups are stored, loaded and
\* compared.
BackUpLocally(c) ==
  /\ ap[c].pc = "local"
  /\ row' = [row EXCEPT ![c].status = "locally_backed_up"]
  /\ ap' = [ap EXCEPT ![c] = Loop(c, "remote", PathsOf(c))]
  /\ UNCHANGED <<remote, locks, rb, vf, granted, bounds, windows>>

\* Step 6: copy one file beside itself, read the copy back and compare it
\* with what was read; a new file has no backup.
BackUpRemotely(c, p) ==
  /\ ap[c].pc = "remote" /\ Turn(c, p)
  /\ LET new == ap[c].read[p] = Absent
         last == ap[c].todo = {p}
         same == disk[p] = ap[c].read[p]
     IN /\ backup' = IF new \/ disk[p] = Absent THEN backup ELSE [backup EXCEPT ![c][p] = disk[p]]
        /\ ap' = [ap EXCEPT ![c] =
             IF new \/ same THEN Following(c, p, "temp", PathsOf(c)) ELSE Raise(c, FALSE)]
        /\ row' = IF last /\ (new \/ same)
                  THEN [row EXCEPT ![c].status = "remotely_backed_up"] ELSE row
  /\ UNCHANGED <<disk, temp, locks, rb, vf, granted, bounds, windows>>

\* Step 7: one temporary file beside the target, created exclusively.
WriteTemp(c, p) ==
  /\ ap[c].pc = "temp" /\ Turn(c, p)
  /\ temp' = [temp EXCEPT ![c] = @ \cup {p}]
  /\ ap' = [ap EXCEPT ![c] = [Following(c, p, "check", {}) EXCEPT !.written = @ \cup {p}]]
  /\ UNCHANGED <<disk, backup, row, locks, rb, vf, granted, bounds, windows>>

\* Step 8, the approval, step 9: docker compose config on the temporary
\* file; one exact approval for all protected paths is spent; the recheck
\* compares what was read in steps 1-2, not the file.
CheckAndConsume(c) ==
  /\ ap[c].pc = "check"
  /\ \/ /\ InterruptsService(c)
        /\ IF granted[<<c, "change">>] = 0
           THEN ap' = [ap EXCEPT ![c] = Raise(c, FALSE)] /\ UNCHANGED granted
           ELSE /\ granted' = [granted EXCEPT ![<<c, "change">>] = @ - 1]
                /\ ap' = [ap EXCEPT ![c] = Loop(c, "rename", PathsOf(c))]
     \/ /\ ~InterruptsService(c)
        /\ ap' = [ap EXCEPT ![c] = Loop(c, "rename", PathsOf(c))]
        /\ UNCHANGED granted
  /\ UNCHANGED <<remote, row, locks, rb, vf, bounds, windows>>

\* Step 10: the temporary file replaces one target.
Rename(c, p) ==
  /\ ap[c].pc = "rename" /\ Turn(c, p)
  /\ disk' = [disk EXCEPT ![p] = c]
  /\ temp' = [temp EXCEPT ![c] = @ \ {p}]
  /\ ap' = [ap EXCEPT ![c] = Goto(c, "mark")]
  /\ UNCHANGED <<backup, row, locks, rb, vf, granted, bounds, windows>>

\* Step 10, after the answer: the file row; the first file also moves the
\* change set to applied.
Mark(c, p) ==
  /\ ap[c].pc = "mark" /\ Turn(c, p)
  /\ ap' = [ap EXCEPT ![c] = [Following(c, p, "return", {}) EXCEPT
               !.applied = @ \cup {p}, !.pc = IF @ = "mark" THEN "rename" ELSE @]]
  /\ UpdateFileChange(c, p, TRUE, IF ap[c].applied = {} THEN "applied" ELSE row[c].status)
  /\ UNCHANGED <<remote, locks, rb, vf, granted, bounds, windows>>

\* finally: the locks are released, in reverse order, in one step.
Release(c) == locks' = [p \in Paths |-> IF locks[p] = c THEN None ELSE locks[p]]

\* apply returns what it applied.
Return(c) ==
  /\ ap[c].pc = "return"
  /\ ap' = [ap EXCEPT ![c] = End(c, "applied")]
  /\ Release(c)
  /\ UNCHANGED <<remote, row, rb, vf, granted, bounds, windows>>

\* Mutant: a lost answer is an ordinary failure.
NeverUncertain(timeout) == FALSE

\* _is_uncertain_failure: a timeout or a lost connection.
IsUncertainFailure(timeout) == timeout

\* A transport call of apply raises.  The call had no effect, or its effect
\* stands and only the answer is lost: a timeout or a dead connection.
CallFails(c, p, effect, timeout) ==
  /\ \/ ap[c].pc = "check"
     \/ ap[c].pc \in {"read", "remote", "temp", "rename"} /\ Turn(c, p)
  /\ effect => timeout /\ ap[c].pc \in {"temp", "rename"}
  /\ faults < MaxFaults
  /\ faults' = faults + 1
  /\ temp' = IF ~effect THEN temp
             ELSE [temp EXCEPT ![c] = IF ap[c].pc = "temp" THEN @ \cup {p} ELSE @ \ {p}]
  /\ disk' = IF effect /\ ap[c].pc = "rename" THEN [disk EXCEPT ![p] = c] ELSE disk
  /\ ap' = [ap EXCEPT ![c] = Raise(c, IsUncertainFailure(timeout))]
  /\ windows' = windows \cup (IF effect THEN {"lost"} ELSE {})
  /\ UNCHANGED <<backup, row, locks, rb, vf, granted, grants, edits>>

-----------------------------------------------------------------------------
(* _handle_failure.                                                        *)

\* Can the file be put back?  A backup can be renamed once.
Restorable(c, p) ==
  IF ap[c].read[p] = Absent THEN disk[p] /= Absent ELSE backup[c][p] /= Absent

\* remove_file of a new file, or rename of the backup over the target.
PutBack(c, p) ==
  /\ disk' = [disk EXCEPT ![p] = IF ap[c].read[p] = Absent THEN Absent ELSE backup[c][p]]
  /\ backup' = [backup EXCEPT ![c][p] = Absent]
  /\ windows' = windows \cup (IF disk[p] = c THEN {} ELSE {"stacked"})
                       \cup (IF locks[p] \in {None, c} THEN {} ELSE {"unlocked"})

\* The undo pass is behind file p.
Behind(c, p, restored) ==
  [ap[c] EXCEPT !.todo = @ \ {p}, !.undone = IF restored THEN @ ELSE FALSE]

\* Mutant: the files are left as they are.
UndoNothing(c, p) ==
  /\ ap[c].pc = "undo" /\ Turn(c, p)
  /\ ap' = [ap EXCEPT ![c] = Behind(c, p, TRUE)]
  /\ row' = [row EXCEPT ![c].applied = @ \ {p}]
  /\ UNCHANGED <<remote, locks, rb, vf, granted, bounds, windows>>

\* Step 11: one applied file is restored and its row cleared; a failure is
\* collected and the loop goes on.
Undo(c, p) ==
  /\ ap[c].pc = "undo" /\ Turn(c, p)
  /\ \/ /\ Restorable(c, p)
        /\ PutBack(c, p)
        /\ UpdateFileChange(c, p, FALSE, row[c].status)
        /\ ap' = [ap EXCEPT ![c] = Behind(c, p, TRUE)]
        /\ UNCHANGED faults
     \/ /\ ~Restorable(c, p) \/ faults < MaxFaults
        /\ faults' = IF Restorable(c, p) THEN faults + 1 ELSE faults
        /\ ap' = [ap EXCEPT ![c] = Behind(c, p, FALSE)]
        /\ UNCHANGED <<disk, backup, row, windows>>
  /\ UNCHANGED <<temp, locks, rb, vf, granted, grants, edits>>

\* The status of a failed apply, if there is a row: rolled back when files
\* had been replaced and all are back.
FailedStatus(c) == IF ap[c].applied /= {} /\ ap[c].undone THEN "rolled_back" ELSE "failed"

\* The temporary files known to be written are removed, as far as that
\* succeeds.
CleanUp(c) ==
  \/ /\ temp' = [temp EXCEPT ![c] = @ \ ap[c].written]
     /\ UNCHANGED <<faults, windows>>
  \/ /\ temp[c] \cap ap[c].written /= {} /\ faults < MaxFaults
     /\ faults' = faults + 1
     /\ windows' = windows \cup {"untidy"}
     /\ UNCHANGED temp

\* The status is settled (a refused transition is raised to the caller) and
\* the locks are released.
Settle(c) ==
  /\ ap[c].pc = "undo" /\ ap[c].todo = {}
  /\ CleanUp(c)
  /\ IF row[c].status = "none" \/ MayMove(c, FailedStatus(c))
     THEN /\ row' = IF row[c].status = "none" THEN row ELSE [row EXCEPT ![c].status = FailedStatus(c)]
          /\ ap' = [ap EXCEPT ![c] = End(c, FailedStatus(c))]
     ELSE ap' = [ap EXCEPT ![c] = End(c, "raised")] /\ UNCHANGED row
  /\ Release(c)
  /\ UNCHANGED <<disk, backup, rb, vf, granted, grants, edits>>

-----------------------------------------------------------------------------
(* verify and rollback.                                                    *)

\* The status lets a rollback or a verification begin.
Standing(c) == row[c].status \in {"applied", "validated"}

\* verify with a bad result.  A failed change set keeps its files.
VerifyFails(c) ==
  /\ Standing(c)
  /\ row' = [row EXCEPT ![c].status = "failed"]
  /\ windows' = windows \cup Race(c)
  /\ UNCHANGED <<remote, locks, ap, rb, vf, granted, bounds>>

\* verify with a good result: validated, and in a later step verified.
Verify(c) ==
  /\ vf[c] = "idle"
  /\ Standing(c)
  /\ row' = [row EXCEPT ![c].status = "validated"]
  /\ vf' = [vf EXCEPT ![c] = "validated"]
  /\ windows' = windows \cup Race(c)
  /\ UNCHANGED <<remote, locks, ap, rb, granted, bounds>>

VerifyEnds(c) ==
  /\ vf[c] = "validated"
  /\ row' = IF MayMove(c, "verified") THEN [row EXCEPT ![c].status = "verified"] ELSE row
  /\ vf' = [vf EXCEPT ![c] = "idle"]
  /\ windows' = windows \cup Race(c)
  /\ UNCHANGED <<remote, locks, ap, rb, granted, bounds>>

\* An operator grants a rollback approval.
Grant(c) ==
  /\ InterruptsService(c) /\ Standing(c)
  /\ grants[c] < MaxApprovals
  /\ grants' = [grants EXCEPT ![c] = @ + 1]
  /\ granted' = [granted EXCEPT ![<<c, "rollback">>] = @ + 1]
  /\ UNCHANGED <<remote, row, locks, ap, rb, vf, faults, edits, windows>>

\* An approval is at hand if a protected path is concerned.
MayRollBack(c) == Standing(c) /\ (InterruptsService(c) => granted[<<c, "rollback">>] > 0)

\* POST rollback: the status and the approval are checked, then a durable
\* operation is enqueued.
RequestRollback(c) ==
  /\ rb[c].pc = "idle"
  /\ MayRollBack(c)
  /\ rb' = [rb EXCEPT ![c] = [pc |-> "queued", todo |-> {}]]
  /\ UNCHANGED <<remote, row, locks, ap, vf, granted, bounds, windows>>

\* The handler: status and approval checked again, transport resolved (it
\* may fail and burns nothing), approval spent, file rows read.
StartRollback(c) ==
  /\ rb[c].pc = "queued"
  /\ \/ /\ MayRollBack(c)
        /\ granted' = IF InterruptsService(c) THEN [granted EXCEPT ![<<c, "rollback">>] = @ - 1] ELSE granted
        /\ rb' = [rb EXCEPT ![c] = [pc |-> "restore", todo |-> row[c].applied]]
        /\ windows' = windows \cup Race(c) \cup (IF vf[c] = "idle" THEN {} ELSE {"race"})
     \/ /\ rb' = [rb EXCEPT ![c] = NoRollback]
        /\ UNCHANGED <<granted, windows>>
  /\ UNCHANGED <<remote, row, locks, ap, vf, bounds>>

\* It is file p's turn: the last one in the request first.
RestoreTurn(c, p) == p \in rb[c].todo /\ \A q \in rb[c].todo \ {p} : RequestOrder(c, q, p)

\* One file is put back; the row follows when the answer is there.
RestoreFile(c, p) ==
  /\ rb[c].pc = "restore" /\ RestoreTurn(c, p)
  /\ Restorable(c, p)
  /\ PutBack(c, p)
  /\ rb' = [rb EXCEPT ![c] = [pc |-> "mark", todo |-> @.todo]]
  /\ UNCHANGED <<temp, row, locks, ap, vf, granted, bounds>>

MarkRestored(c, p) ==
  /\ rb[c].pc = "mark" /\ RestoreTurn(c, p)
  /\ UpdateFileChange(c, p, FALSE, row[c].status)
  /\ rb' = [rb EXCEPT ![c] = [pc |-> "restore", todo |-> @.todo \ {p}]]
  /\ UNCHANGED <<remote, locks, ap, vf, granted, bounds, windows>>

\* A file cannot be put back: the rollback ends there, the status stays, the
\* approval is spent and the files restored so far stay restored.
RestoreFails(c, p) ==
  /\ rb[c].pc = "restore" /\ RestoreTurn(c, p)
  /\ ~Restorable(c, p) \/ faults < MaxFaults
  /\ faults' = IF Restorable(c, p) THEN faults + 1 ELSE faults
  /\ rb' = [rb EXCEPT ![c] = NoRollback]
  /\ windows' = windows \cup {"partial"}
  /\ UNCHANGED <<remote, row, locks, ap, vf, granted, grants, edits>>

\* All files are back.  A change set settled meanwhile keeps its status.
EndRollback(c) ==
  /\ rb[c].pc = "restore" /\ rb[c].todo = {}
  /\ row' = IF MayMove(c, "rolled_back") THEN [row EXCEPT ![c].status = "rolled_back"] ELSE row
  /\ rb' = [rb EXCEPT ![c] = NoRollback]
  /\ UNCHANGED <<remote, locks, ap, vf, granted, bounds, windows>>

-----------------------------------------------------------------------------
(* The rest of the world.                                                  *)

\* Somebody edits or creates a file on the host.
Edit(p) ==
  /\ edits < MaxEdits
  /\ edits' = edits + 1
  /\ disk' = [disk EXCEPT ![p] = Edited]
  /\ UNCHANGED <<backup, temp, row, locks, ap, rb, vf, granted, grants, faults, windows>>

\* The process dies.  Nothing on disk takes an apply or a rollback up again;
\* a rollback operation that was only queued is claimed later.
Crash ==
  /\ faults < MaxFaults
  /\ \E c \in Changesets : InFlight(c) \/ rb[c].pc \in {"restore", "mark"} \/ vf[c] /= "idle"
  /\ faults' = faults + 1
  /\ locks' = [p \in Paths |-> None]
  /\ ap' = [c \in Changesets |-> IF InFlight(c) THEN End(c, "died") ELSE ap[c]]
  /\ rb' = [c \in Changesets |-> IF rb[c].pc = "queued" THEN rb[c] ELSE NoRollback]
  /\ vf' = [c \in Changesets |-> "idle"]
  /\ windows' = windows \cup {"died"}
  /\ UNCHANGED <<remote, row, granted, grants, edits>>

Init ==
  /\ disk = [p \in Paths |-> IF p \in New THEN Absent ELSE Original]
  /\ backup = [c \in Changesets |-> [p \in Paths |-> Absent]]
  /\ temp = [c \in Changesets |-> {}]
  /\ row = [c \in Changesets |-> [status |-> "none", applied |-> {}]]
  /\ locks = [p \in Paths |-> None]
  /\ ap = [c \in Changesets |-> NoApply]
  /\ rb = [c \in Changesets |-> NoRollback]
  /\ vf = [c \in Changesets |-> "idle"]
  /\ granted \in [Changesets \X {"change", "rollback"} -> {0, 1}]
  /\ \A c \in Changesets : granted[<<c, "rollback">>] = 0
  /\ grants = [c \in Changesets |-> 0]
  /\ faults = 0 /\ edits = 0 /\ windows = {}

\* The steps apply, rollback and verify take by themselves.
ApplyStep(c) ==
  \/ Journal(c) \/ BackUpLocally(c) \/ CheckAndConsume(c) \/ Return(c) \/ Settle(c)
  \/ \E p \in Paths : \/ Acquire(c, p) \/ Read(c, p) \/ BackUpRemotely(c, p) \/ WriteTemp(c, p)
                       \/ Rename(c, p) \/ Mark(c, p) \/ Undo(c, p)

RollbackStep(c) ==
  \/ StartRollback(c) \/ EndRollback(c)
  \/ \E p \in Paths : RestoreFile(c, p) \/ MarkRestored(c, p) \/ RestoreFails(c, p)

Next ==
  \/ \E c \in Changesets :
       \/ Apply(c) \/ Unresolved(c) \/ ApplyStep(c)
       \/ \E p \in Paths, effect, timeout \in BOOLEAN : CallFails(c, p, effect, timeout)
       \/ VerifyFails(c) \/ Verify(c) \/ VerifyEnds(c)
       \/ Grant(c) \/ RequestRollback(c) \/ RollbackStep(c)
  \/ \E p \in Paths : Edit(p)
  \/ Crash

Spec == Init /\ [][Next]_vars

\* The event loop runs what is ready: an apply that can take a step does.
FairSpec == Spec /\ \A c \in Changesets : WF_vars(ApplyStep(c)) /\ WF_vars(RollbackStep(c))

-----------------------------------------------------------------------------
(* Properties.                                                             *)

ApplyState ==
  [pc : {"new", "lock", "read", "journal", "local", "remote", "temp", "check", "rename", "mark",
         "return", "undo", "end"},
   todo : SUBSET Paths, expect : [Paths -> Content], read : [Paths -> Content],
   written : SUBSET Paths, applied : SUBSET Paths, undone : BOOLEAN, uncertain : BOOLEAN,
   result : {"none", "applied", "rolled_back", "failed", "raised", "died"}]

TypeOK ==
  /\ disk \in [Paths -> Content]
  /\ backup \in [Changesets -> [Paths -> Content]]
  /\ temp \in [Changesets -> SUBSET Paths]
  /\ row \in [Changesets -> ChangeSet]
  /\ locks \in [Paths -> Changesets \cup {None}]
  /\ ap \in [Changesets -> ApplyState]
  /\ rb \in [Changesets -> [pc : {"idle", "queued", "restore", "mark"}, todo : SUBSET Paths]]
  /\ vf \in [Changesets -> {"idle", "validated"}]
  /\ granted \in [Changesets \X {"change", "rollback"} -> Nat]
  /\ grants \in [Changesets -> 0..MaxApprovals]
  /\ faults \in 0..MaxFaults /\ edits \in 0..MaxEdits
  /\ windows \subseteq {"race", "lost", "stacked", "unlocked", "partial", "untidy", "died"}

AtRest(c) == ap[c].pc = "end" /\ rb[c].pc \in {"idle", "queued"} /\ vf[c] = "idle"

\* "Restore every applied file ... from its verified backup": a file row that
\* says applied has a backup that is exactly what apply read and replaced.
\* Known exceptions: an answer was lost, the process died, or two actors
\* worked on the change set at once.
AppliedCanBeRestored ==
  windows \subseteq {"partial", "stacked", "unlocked"} =>
    \A c \in Changesets : \A p \in row[c].applied :
      \/ rb[c].pc = "mark" /\ RestoreTurn(c, p)
      \/ ap[c].read[p] = Absent
      \/ backup[c][p] = ap[c].read[p]

\* All or nothing: when nobody works on it, a change set that was rolled back
\* or whose apply failed has left nothing of its own in a file that its rows
\* do not name as applied, and one that stands has written all its files.
SettledMeansWhole ==
  windows \subseteq {"partial"} =>
    \A c \in Changesets : AtRest(c) =>
      /\ row[c].status = "rolled_back" => row[c].applied = {}
      /\ row[c].status \in {"applied", "validated", "verified"} =>
           row[c].applied = PathsOf(c) \/ "partial" \in windows
      /\ \A p \in PathsOf(c) \ row[c].applied : disk[p] /= c

\* No apply writes over another one's work: while a path is locked from the
\* read to the rename, only a rollback (which takes no lock) or somebody on
\* the host can change it in between.
NoLostUpdate ==
  [][\A c \in Changesets, p \in Paths : Rename(c, p) =>
       disk[p] = ap[c].read[p] \/ edits > 0 \/ "unlocked" \in windows]_vars

\* A protected file is replaced only after its change set has spent an
\* approval granted for exactly that, and one approval pays for one apply.
ProtectedNeedsApproval ==
  \A c \in Changesets :
    (\E p \in Protected : disk[p] = c) => granted[<<c, "change">>] = 0 /\ InterruptsService(c)

\* What the caller is told: an apply that failed, was undone and is not
\* reported uncertain has left nothing on the host.  A lost answer is the case
\* in which something may be there, and is always reported uncertain.
CertainFailureIsClean ==
  windows \subseteq {"lost", "partial"} =>
    \A c \in Changesets :
      ap[c].result \in {"failed", "rolled_back"} /\ ap[c].undone /\ ~ap[c].uncertain =>
        temp[c] = {} /\ \A p \in Paths : disk[p] /= c

\* Overlapping change sets never wait for each other's locks for ever: every
\* apply comes to an end.
ApplyEnds == \A c \in Changesets : ap[c].pc = "lock" ~> ap[c].pc = "end"

\* A change set is applied as a whole or not at all, can be put back as long as
\* its rows say it is there, and touches a protected file only with the approval
\* it has spent.
AllOrNothing ==
  /\ TypeOK
  /\ AppliedCanBeRestored
  /\ SettledMeansWhole
  /\ ProtectedNeedsApproval

=============================================================================
