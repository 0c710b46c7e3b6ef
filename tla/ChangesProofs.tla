---------------------------- MODULE ChangesProofs ----------------------------
(***************************************************************************)
(* Proofs about Changes, for any change sets, paths, faults and edits: a   *)
(* change set is applied as a whole or not at all and can be put back, no  *)
(* apply writes over another one's work, a protected file is replaced only *)
(* under its spent approval, and a certain failure leaves nothing.         *)
(*                                                                         *)
(* The invariant has three layers.  Advancing is true in every behaviour:  *)
(* which files an apply has locked, read and renamed.  Alone relates the   *)
(* journal to the apply and the rollback while one actor works on a change *)
(* set.  Stacked is about the change sets above each other on one file:    *)
(* whose content is on disk, whose is in whose backup.                     *)
(***************************************************************************)
EXTENDS Changes, TLAPS

Early     == {"new", "lock", "read", "journal", "local"}
Preparing == Early \cup {"remote", "temp", "check"}
Renaming  == {"rename", "mark"}

-----------------------------------------------------------------------------
(* Advancing: the apply and what it holds. *)

\* The paths that c has locked, the files it has read and not renamed, and those
\* that it has backed up and not recorded as applied.
Held(c) ==
  {p \in PathsOf(c) : InFlight(c) /\ (ap[c].pc = "lock" => p \notin ap[c].todo)}
Seen(c) ==
  {p \in PathsOf(c) :
     \/ ap[c].pc = "read" /\ p \notin ap[c].todo
     \/ ap[c].pc \in {"journal", "local", "remote", "temp", "check"}
     \/ ap[c].pc = "rename" /\ p \in ap[c].todo
     \/ ap[c].pc = "mark" /\ p \in ap[c].todo /\ ~Turn(c, p)}
Saved(c) ==
  {p \in PathsOf(c) :
     \/ ap[c].pc = "remote" /\ p \notin ap[c].todo
     \/ ap[c].pc \in {"temp", "check"}
     \/ ap[c].pc \in Renaming /\ p \in ap[c].todo}

\* An apply is in flight with the files of its request; those it has renamed are
\* the ones it has not still to rename.
FilesOf(c) ==
  /\ ap[c].todo \subseteq PathsOf(c) /\ ap[c].applied \subseteq PathsOf(c)
  /\ ap[c].pc \in Preparing => ap[c].applied = {}
  /\ ap[c].pc = "new" => ap[c].written = {}
  /\ ap[c].pc \in Renaming => ap[c].applied = PathsOf(c) \ ap[c].todo
  /\ ap[c].pc = "return" => ap[c].applied = PathsOf(c)
  /\ ap[c].pc = "undo" => ap[c].todo \subseteq ap[c].applied
  /\ ap[c].pc \notin {"undo", "end"} => ~ap[c].uncertain /\ ap[c].undone
  /\ ap[c].pc /= "end" => ap[c].result = "none"
FilesKnown == \A c \in Changesets : FilesOf(c)

\* Rows and rollbacks name renamed files only.
RowsKnown ==
  \A c \in Changesets : row[c].applied \subseteq ap[c].applied /\ rb[c].todo \subseteq ap[c].applied

LocksKnown == \A p \in Paths, c \in Changesets : locks[p] = c <=> p \in Held(c)

\* A backup is made by the apply.
NoBackupYet ==
  \A c \in Changesets, p \in Paths :
    ap[c].pc \in Early \/ (ap[c].pc = "remote" /\ p \in ap[c].todo) => backup[c][p] = Absent

\* The content of a change set is only where it has paid for.
Granted(c) == InterruptsService(c) => granted[<<c, "change">>] = 0
Paid ==
  /\ \A c \in Changesets : granted[<<c, "change">>] \in {0, 1}
  /\ \A c \in Changesets : ap[c].pc \in Renaming \cup {"return"} => Granted(c)
  /\ \A c \in Changesets, p \in Paths :
       disk[p] = c \/ (\E d \in Changesets : backup[d][p] = c) => p \in PathsOf(c) /\ Granted(c)

\* What an apply has read under its locks stays there.
Undisturbed ==
  edits = 0 /\ "unlocked" \notin windows =>
    \A c \in Changesets : \A p \in Seen(c) : disk[p] = ap[c].read[p]

Advancing ==
  TypeOK /\ FilesKnown /\ RowsKnown /\ LocksKnown /\ NoBackupYet /\ Paid /\ Undisturbed

-----------------------------------------------------------------------------
(* Alone: the journal. *)

Solo == windows \cap {"race", "died"} = {}

\* The status follows the apply.
StatusKnown(c) ==
  /\ ap[c].pc \in {"new", "lock", "read", "journal"} => row[c].status = "none"
  /\ ap[c].pc = "local" => row[c].status = "draft"
  /\ ap[c].pc = "remote" => row[c].status = "locally_backed_up"
  /\ ap[c].pc \in {"temp", "check"} => row[c].status = "remotely_backed_up"
  /\ ap[c].pc \in Renaming /\ ap[c].applied = {} => row[c].status = "remotely_backed_up"
  /\ ap[c].pc \in Renaming /\ ap[c].applied /= {} => row[c].status = "applied"
  /\ ap[c].pc = "return" => row[c].status = "applied"
  /\ ap[c].pc = "undo" /\ ap[c].applied = {} =>
       row[c].status \in {"none", "draft", "locally_backed_up", "remotely_backed_up"}
  /\ ap[c].pc = "undo" /\ ap[c].applied /= {} => row[c].status = "applied"
  /\ ap[c].pc = "end" =>
       CASE ap[c].result = "applied" ->
              row[c].status \in {"applied", "validated", "verified", "failed", "rolled_back"}
         [] ap[c].result = "rolled_back" -> row[c].status = "rolled_back"
         [] ap[c].result = "failed" -> row[c].status \in {"none", "failed"}
         [] ap[c].result = "raised" -> row[c].status = "none"
         [] OTHER -> FALSE

\* Nobody but the apply works on the change set until it has ended; then one
\* rollback or one verification.
OneActor(c) ==
  /\ ap[c].pc /= "end" => rb[c].pc \in {"idle", "queued"} /\ vf[c] = "idle"
  /\ rb[c].pc \in {"restore", "mark"} =>
       Standing(c) /\ vf[c] = "idle" /\ row[c].applied = rb[c].todo

\* The file rows follow apply, undo and rollback.
AppliedKnown(c) ==
  /\ ap[c].pc \notin {"undo", "end"} => row[c].applied = ap[c].applied
  /\ ap[c].pc = "undo" => ap[c].todo \subseteq row[c].applied
                          /\ (ap[c].undone => row[c].applied = ap[c].todo)
  /\ ap[c].pc = "end" /\ ap[c].result \in {"failed", "rolled_back"} /\ ap[c].undone =>
       row[c].applied = {}
  /\ row[c].status = "rolled_back" => row[c].applied = {}
  /\ ap[c].pc = "end" /\ rb[c].pc \in {"idle", "queued"}
     /\ row[c].status \in {"applied", "validated", "verified"} =>
       row[c].applied = PathsOf(c) \/ "partial" \in windows

Alone == Solo => \A c \in Changesets : StatusKnown(c) /\ OneActor(c) /\ AppliedKnown(c)

\* The temporary files of an apply are those it knows of.
TempKnown ==
  windows \cap {"untidy", "died"} = {} =>
    \A c \in Changesets : ~ap[c].uncertain =>
      /\ temp[c] \subseteq ap[c].written
      /\ ap[c].pc = "end" /\ ap[c].result \in {"failed", "rolled_back"} => temp[c] = {}

-----------------------------------------------------------------------------
(* Stacked: the change sets on one file. *)

\* The file is backed up for c: it stands, or is about to be replaced.
Over(c, p) == p \in row[c].applied \cup Saved(c)
Restored(c, p) == rb[c].pc = "mark" /\ RestoreTurn(c, p)
LostBy(c) == "lost" \in windows /\ ap[c].uncertain

BackupsKept ==
  windows \subseteq {"partial", "stacked", "unlocked"} =>
    \A c \in Changesets, p \in Paths :
      Over(c, p) => Restored(c, p) \/ ap[c].read[p] = Absent \/ backup[c][p] = ap[c].read[p]

Quiet == windows \subseteq {"partial", "lost"}

OnDisk ==
  \A p \in Paths, c \in Changesets : disk[p] = c =>
    p \in row[c].applied \/ (ap[c].pc = "mark" /\ Turn(c, p)) \/ LostBy(c)
BaseStands ==
  \A p \in Paths, c, d \in Changesets : Over(d, p) /\ backup[d][p] = c =>
    p \in row[c].applied \/ LostBy(c)
\* What lies under a change set is not on disk, unless it has still to be replaced.
BaseCovered ==
  \A p \in Paths, c, d \in Changesets :
    Over(d, p) /\ backup[d][p] = c /\ disk[p] = c => p \in Seen(d)
OneOver ==
  \A p \in Paths, c, d, e \in Changesets :
    Over(d, p) /\ Over(e, p) /\ backup[d][p] = c /\ backup[e][p] = c => d = e
RestoredGone ==
  \A p \in Paths, c \in Changesets : Restored(c, p) =>
    disk[p] /= c /\ \A d \in Changesets : Over(d, p) => backup[d][p] /= c

Stacking == Quiet => OnDisk /\ BaseStands /\ BaseCovered /\ OneOver /\ RestoredGone

IInv == Advancing /\ Alone /\ TempKnown /\ BackupsKept /\ Stacking

-----------------------------------------------------------------------------
(* What the steps of an apply do to it. *)

\* What is assumed of the constants, about contents and paths.
LEMMA ContentFacts ==
  /\ Changesets \subseteq Content /\ {Absent, Original, Edited} \subseteq Content
  /\ Paths \subseteq Int /\ None \notin Changesets /\ Absent \notin Changesets
  /\ Original \notin Changesets /\ Edited \notin Changesets
  BY ChangeConstants DEF Content, Paths

\* A request names paths only.
LEMMA PathsKnown ==
  ASSUME NEW c \in Changesets
  PROVE  PathsOf(c) \in SUBSET Paths
<1>1. Request[c] \in Seq(Paths)
  BY ChangeConstants
<1>2. \A i \in DOMAIN Request[c] : Request[c][i] \in Paths
  BY <1>1
<1> QED BY <1>2 DEF PathsOf

\* Two states of an apply that differ in its counter and its loop only.
Alike(x, y) ==
  /\ x.expect = y.expect /\ x.read = y.read /\ x.written = y.written /\ x.applied = y.applied
  /\ x.undone = y.undone /\ x.uncertain = y.uncertain /\ x.result = y.result

\* A step to the next point of apply leaves what it has gathered.
LEMMA GotoFacts ==
  ASSUME TypeOK, NEW c \in Changesets, NEW pc \in {"local", "mark"}
  PROVE  /\ Goto(c, pc) \in ApplyState /\ Alike(Goto(c, pc), ap[c])
         /\ Goto(c, pc).pc = pc /\ Goto(c, pc).todo = ap[c].todo
<1>1. ap[c] \in ApplyState
  BY DEF TypeOK
<1> QED BY <1>1 DEF Goto, ApplyState, Alike

\* The start of a loop over files, likewise.
LEMMA LoopFacts ==
  ASSUME TypeOK, NEW c \in Changesets, NEW pc \in {"lock", "remote", "rename"},
         NEW todo \in SUBSET Paths
  PROVE  /\ Loop(c, pc, todo) \in ApplyState /\ Alike(Loop(c, pc, todo), ap[c])
         /\ Loop(c, pc, todo).pc = pc /\ Loop(c, pc, todo).todo = todo
<1>1. ap[c] \in ApplyState
  BY DEF TypeOK
<1> QED BY <1>1 DEF Loop, ApplyState, Alike

\* A loop goes on, to its next file or to its next phase.
LEMMA FollowingFacts ==
  ASSUME TypeOK, NEW c \in Changesets, NEW p \in ap[c].todo,
         NEW next \in {"read", "journal", "temp", "check", "return"}, NEW first \in SUBSET Paths
  PROVE  LET x == Following(c, p, next, first)
         IN /\ x \in ApplyState /\ Alike(x, ap[c])
            /\ \/ ap[c].todo = {p} /\ x.pc = next /\ x.todo = first
               \/ ap[c].todo /= {p} /\ x.pc = ap[c].pc /\ x.todo = ap[c].todo \ {p}
<1>1. ap[c] \in ApplyState
  BY DEF TypeOK
<1> QED BY <1>1 DEF Following, Loop, ApplyState, Alike

\* An exception: the undo pass over the renamed files is what remains.
LEMMA RaiseFacts ==
  ASSUME TypeOK, NEW c \in Changesets, NEW u \in BOOLEAN
  PROVE  LET x == Raise(c, u)
         IN /\ x \in ApplyState
            /\ x.pc = "undo" /\ x.todo = ap[c].applied /\ x.uncertain = u
            /\ x.read = ap[c].read /\ x.written = ap[c].written /\ x.applied = ap[c].applied
            /\ x.undone = ap[c].undone /\ x.result = ap[c].result
<1>1. ap[c] \in ApplyState
  BY DEF TypeOK
<1> QED BY <1>1 DEF Raise, ApplyState

\* The undo pass behind one file.
LEMMA BehindFacts ==
  ASSUME TypeOK, NEW c \in Changesets, NEW p \in Paths, NEW ok \in BOOLEAN
  PROVE  LET x == Behind(c, p, ok)
         IN /\ x \in ApplyState
            /\ x.pc = ap[c].pc /\ x.todo = ap[c].todo \ {p} /\ x.uncertain = ap[c].uncertain
            /\ x.read = ap[c].read /\ x.written = ap[c].written /\ x.applied = ap[c].applied
            /\ x.undone = (ap[c].undone /\ ok) /\ x.result = ap[c].result
<1>1. ap[c] \in ApplyState
  BY DEF TypeOK
<1> QED BY <1>1 DEF Behind, ApplyState

\* The end of apply keeps what the caller is told about it.
LEMMA EndFacts ==
  ASSUME TypeOK, NEW c \in Changesets,
         NEW result \in {"applied", "rolled_back", "failed", "raised", "died"}
  PROVE  LET x == End(c, result)
         IN /\ x \in ApplyState
            /\ x.pc = "end" /\ x.todo = ap[c].todo /\ x.uncertain = ap[c].uncertain
            /\ x.read = ap[c].read /\ x.written = ap[c].written /\ x.applied = ap[c].applied
            /\ x.undone = ap[c].undone /\ x.result = result
<1>1. ap[c] \in ApplyState
  BY DEF TypeOK
<1> QED BY <1>1 DEF End, ApplyState

\* The apply c becomes x, the others stay.
Becomes(c, x) ==
  /\ ap'[c] = x /\ x \in ApplyState
  /\ \A d \in Changesets \ {c} : ap'[d] = ap[d]

\* An assignment to one apply concerns no other.
LEMMA Becoming ==
  ASSUME TypeOK, NEW c \in Changesets, NEW x \in ApplyState, ap' = [ap EXCEPT ![c] = x]
  PROVE  Becomes(c, x) /\ ap' \in [Changesets -> ApplyState]
  BY DEF TypeOK, Becomes

\* A file whose turn it is, is one of the loop's.
LEMMA TurnFacts ==
  ASSUME NEW c \in Changesets, NEW p \in Paths, Turn(c, p)
  PROVE  p \in ap[c].todo
  BY DEF Turn

\* update_file_change writes one file row and the status of one change set.
LEMMA RowFacts ==
  ASSUME TypeOK, NEW c \in Changesets, NEW p \in Paths, NEW a \in BOOLEAN, NEW s \in Status,
         UpdateFileChange(c, p, a, s)
  PROVE  /\ row' \in [Changesets -> ChangeSet]
         /\ row'[c].status = s
         /\ row'[c].applied = IF a THEN row[c].applied \cup {p} ELSE row[c].applied \ {p}
         /\ \A d \in Changesets \ {c} : row'[d] = row[d]
<1> DEFINE r == [status |-> s, applied |-> IF a THEN row[c].applied \cup {p} ELSE row[c].applied \ {p}]
<1>1. row \in [Changesets -> ChangeSet] /\ row[c].applied \in SUBSET Paths
  BY DEF TypeOK, ChangeSet
<1>2. r \in ChangeSet
  BY <1>1 DEF ChangeSet
<1>3. row' = [row EXCEPT ![c] = r]
  BY DEF UpdateFileChange
<1> QED BY <1>1, <1>2, <1>3

\* A transition of the journal keeps the file rows.
LEMMA StatusFacts ==
  ASSUME TypeOK, NEW c \in Changesets, NEW s \in Status,
         row' = [row EXCEPT ![c].status = s]
  PROVE  /\ row' \in [Changesets -> ChangeSet]
         /\ row'[c].status = s /\ row'[c].applied = row[c].applied
         /\ \A d \in Changesets \ {c} : row'[d] = row[d]
<1>1. row \in [Changesets -> ChangeSet] /\ row[c] \in ChangeSet
  BY DEF TypeOK
<1>2. [row[c] EXCEPT !.status = s] \in ChangeSet
  BY <1>1 DEF ChangeSet
<1>3. row' = [row EXCEPT ![c] = [row[c] EXCEPT !.status = s]]
  OBVIOUS
<1>4. row'[c] = [row[c] EXCEPT !.status = s]
  BY <1>1, <1>3
<1>5. row'[c].status = s /\ row'[c].applied = row[c].applied
  BY <1>1, <1>4 DEF ChangeSet
<1> QED BY <1>1, <1>2, <1>3, <1>5

\* remove_file or the rename of the backup: one file, one backup, and the window that was hit.
LEMMA PutBackFacts ==
  ASSUME TypeOK, NEW c \in Changesets, NEW p \in Paths, PutBack(c, p)
  PROVE  /\ disk' \in [Paths -> Content] /\ backup' \in [Changesets -> [Paths -> Content]]
         /\ disk'[p] = IF ap[c].read[p] = Absent THEN Absent ELSE backup[c][p]
         /\ backup'[c][p] = Absent
         /\ \A q \in Paths \ {p} : disk'[q] = disk[q] /\ backup'[c][q] = backup[c][q]
         /\ \A d \in Changesets \ {c} : backup'[d] = backup[d]
         /\ windows \subseteq windows' /\ windows' \subseteq windows \cup {"stacked", "unlocked"}
         /\ "stacked" \notin windows' => disk[p] = c
         /\ "unlocked" \notin windows' => locks[p] \in {None, c}
<1>1. ap[c].read \in [Paths -> Content] /\ Absent \in Content
  BY ContentFacts DEF TypeOK, ApplyState
<1> QED BY <1>1 DEF TypeOK, PutBack

-----------------------------------------------------------------------------
(* What each step of an apply does to it. *)

Others(c) == \A d \in Changesets \ {c} : ap'[d] = ap[d]

\* The apply c moves on to pc and todo, and nothing else changes in it.
Moves(c, pc, todo) ==
  Others(c) /\ Alike(ap'[c], ap[c]) /\ ap'[c].pc = pc /\ ap'[c].todo = todo

\* It raises: the undo pass is ahead.
Raises(c, uncertain) ==
  /\ Others(c) /\ ap'[c].pc = "undo" /\ ap'[c].todo = ap[c].applied
  /\ ap'[c].uncertain = uncertain /\ ap'[c].read = ap[c].read /\ ap'[c].written = ap[c].written
  /\ ap'[c].applied = ap[c].applied /\ ap'[c].undone = ap[c].undone /\ ap'[c].result = ap[c].result

\* It ends.
Ends(c, result) ==
  /\ Others(c) /\ ap'[c].pc = "end" /\ ap'[c].todo = ap[c].todo
  /\ ap'[c].uncertain = ap[c].uncertain /\ ap'[c].read = ap[c].read
  /\ ap'[c].written = ap[c].written /\ ap'[c].applied = ap[c].applied
  /\ ap'[c].undone = ap[c].undone /\ ap'[c].result = result

\* apply begins with the locks to take.
LEMMA ApplyMoves ==
  ASSUME TypeOK, NEW c \in Changesets, Apply(c)
  PROVE  /\ TypeOK' /\ Others(c)
         /\ ap[c].pc = "new" /\ ap'[c].pc = "lock" /\ ap'[c].todo = PathsOf(c)
         /\ ap'[c].applied = {} /\ ap'[c].written = {} /\ ap'[c].undone /\ ~ap'[c].uncertain
         /\ ap'[c].result = "none"
<1> DEFINE x == [NoApply EXCEPT !.pc = "lock", !.todo = LockKeys(c), !.expect = disk]
<1>1. /\ x \in ApplyState /\ x.pc = "lock" /\ x.todo = PathsOf(c) /\ x.applied = {} /\ x.written = {}
      /\ x.undone /\ ~x.uncertain /\ x.result = "none"
  <2>1. disk \in [Paths -> Content] /\ LockKeys(c) \in SUBSET Paths /\ LockKeys(c) = PathsOf(c)
    BY PathsKnown DEF TypeOK, LockKeys
  <2>2. [p \in Paths |-> Absent] \in [Paths -> Content]
    BY ContentFacts
  <2> QED BY <2>1, <2>2 DEF ApplyState, NoApply
<1>2. Becomes(c, x) /\ ap' \in [Changesets -> ApplyState]
  BY <1>1, Becoming DEF Apply
<1>3. TypeOK'
  BY <1>2 DEF TypeOK, Apply, remote, bounds
<1> QED BY <1>1, <1>2, <1>3 DEF Becomes, Others, Apply

\* An apply without transport or policy ends at once.
LEMMA UnresolvedMoves ==
  ASSUME TypeOK, NEW c \in Changesets, Unresolved(c)
  PROVE  TypeOK' /\ ap[c].pc = "new" /\ Ends(c, "raised")
<1>1. Becomes(c, End(c, "raised")) /\ ap' \in [Changesets -> ApplyState]
  BY EndFacts, Becoming DEF Unresolved
<1>2. TypeOK'
  BY <1>1 DEF TypeOK, Unresolved, remote, bounds
<1> QED BY <1>1, <1>2, EndFacts DEF Becomes, Ends, Others, Unresolved

\* One free path lock is taken, then the next or the reading.
LEMMA AcquireMoves ==
  ASSUME TypeOK, NEW c \in Changesets, NEW p \in Paths, Acquire(c, p)
  PROVE  /\ TypeOK' /\ ap[c].pc = "lock" /\ p \in ap[c].todo
         /\ locks[p] = None /\ locks' = [locks EXCEPT ![p] = c]
         /\ \/ ap[c].todo = {p} /\ Moves(c, "read", PathsOf(c))
            \/ ap[c].todo /= {p} /\ Moves(c, "lock", ap[c].todo \ {p})
<1> DEFINE x == Following(c, p, "read", PathsOf(c))
<1>1. p \in ap[c].todo /\ PathsOf(c) \in SUBSET Paths
  BY TurnFacts, PathsKnown DEF Acquire
<1>2. /\ x \in ApplyState /\ Alike(x, ap[c])
      /\ \/ ap[c].todo = {p} /\ x.pc = "read" /\ x.todo = PathsOf(c)
         \/ ap[c].todo /= {p} /\ x.pc = ap[c].pc /\ x.todo = ap[c].todo \ {p}
  BY <1>1, FollowingFacts
<1>3. Becomes(c, x) /\ ap' \in [Changesets -> ApplyState]
  BY <1>2, Becoming DEF Acquire
<1>4. TypeOK'
  BY <1>3 DEF TypeOK, Acquire, remote, bounds
<1> QED BY <1>1, <1>2, <1>3, <1>4 DEF Becomes, Moves, Others, Acquire

\* A file is recorded as read only if it is what the caller has read.
LEMMA ReadMoves ==
  ASSUME TypeOK, NEW c \in Changesets, NEW p \in Paths, Read(c, p)
  PROVE  /\ TypeOK' /\ ap[c].pc = "read" /\ p \in ap[c].todo
         /\ \/ Raises(c, FALSE)
            \/ /\ Others(c)
               /\ ap'[c].applied = ap[c].applied /\ ap'[c].written = ap[c].written
               /\ ap'[c].undone = ap[c].undone /\ ap'[c].uncertain = ap[c].uncertain
               /\ ap'[c].result = ap[c].result
               /\ ap'[c].read[p] = disk[p]
               /\ \A q \in Paths \ {p} : ap'[c].read[q] = ap[c].read[q]
               /\ \/ ap[c].todo = {p} /\ ap'[c].pc = "journal" /\ ap'[c].todo = {}
                  \/ ap[c].todo /= {p} /\ ap'[c].pc = "read" /\ ap'[c].todo = ap[c].todo \ {p}
<1> DEFINE y == Following(c, p, "journal", {})
           x == [y EXCEPT !.read[p] = disk[p]]
<1>1. p \in ap[c].todo /\ disk[p] \in Content /\ {} \in SUBSET Paths
  BY TurnFacts DEF Read, TypeOK
<1>2. /\ y \in ApplyState /\ Alike(y, ap[c])
      /\ \/ ap[c].todo = {p} /\ y.pc = "journal" /\ y.todo = {}
         \/ ap[c].todo /= {p} /\ y.pc = ap[c].pc /\ y.todo = ap[c].todo \ {p}
  BY <1>1, FollowingFacts
<1>3. /\ x \in ApplyState /\ x.pc = y.pc /\ x.todo = y.todo
      /\ x.applied = y.applied /\ x.written = y.written /\ x.undone = y.undone
      /\ x.uncertain = y.uncertain /\ x.result = y.result
      /\ x.read[p] = disk[p] /\ \A q \in Paths \ {p} : x.read[q] = y.read[q]
  <2> HIDE DEF y
  <2> QED BY <1>1, <1>2 DEF ApplyState
<1>4. Raise(c, FALSE) \in ApplyState
  BY RaiseFacts
<1> HIDE DEF x, y
<1>5. \/ ap' = [ap EXCEPT ![c] = x]
      \/ ap' = [ap EXCEPT ![c] = Raise(c, FALSE)]
  BY DEF Read, x, y
<1>6. ap' \in [Changesets -> ApplyState] /\ (Becomes(c, x) \/ Becomes(c, Raise(c, FALSE)))
  BY <1>3, <1>4, <1>5, Becoming
<1>7. TypeOK'
  BY <1>6 DEF TypeOK, Read, remote, bounds
<1>8. ap[c].pc = "read"
  BY DEF Read
<1>9. CASE Becomes(c, x)
  BY <1>1, <1>2, <1>3, <1>7, <1>8, <1>9 DEF Becomes, Others, Alike
<1>10. CASE Becomes(c, Raise(c, FALSE))
  BY ZenonT(40), <1>1, <1>7, <1>8, <1>10, RaiseFacts DEF Becomes, Others, Raises
<1> QED BY <1>6, <1>9, <1>10

\* Either the draft row is there and the backups begin, or nothing was written.
LEMMA JournalMoves ==
  ASSUME TypeOK, NEW c \in Changesets, Journal(c)
  PROVE  /\ TypeOK' /\ ap[c].pc = "journal"
         /\ \/ Raises(c, FALSE) /\ row' = row
            \/ /\ Moves(c, "local", ap[c].todo)
               /\ row'[c].status = "draft" /\ row'[c].applied = row[c].applied
               /\ \A d \in Changesets \ {c} : row'[d] = row[d]
<1>1. Raise(c, FALSE) \in ApplyState /\ Goto(c, "local") \in ApplyState /\ "draft" \in Status
  BY RaiseFacts, GotoFacts DEF Status, Active
<1>2. CASE Refused(c) /\ UNCHANGED row
  <2>1. Becomes(c, Raise(c, FALSE)) /\ ap' \in [Changesets -> ApplyState]
    BY <1>1, <1>2, Becoming DEF Refused
  <2>2. TypeOK'
    BY <1>2, <2>1 DEF TypeOK, Journal, remote, bounds
  <2> QED BY ZenonT(40), <1>2, <2>1, <2>2, RaiseFacts DEF Becomes, Raises, Others, Journal
<1>3. CASE CreateChangeset(c) /\ ap' = [ap EXCEPT ![c] = Goto(c, "local")]
  <2>1. Becomes(c, Goto(c, "local")) /\ ap' \in [Changesets -> ApplyState]
    BY <1>1, <1>3, Becoming
  <2>2. /\ row' \in [Changesets -> ChangeSet]
        /\ row'[c].status = "draft" /\ row'[c].applied = row[c].applied
        /\ \A d \in Changesets \ {c} : row'[d] = row[d]
    BY <1>1, <1>3, StatusFacts DEF CreateChangeset
  <2>3. TypeOK'
    BY <2>1, <2>2 DEF TypeOK, Journal, remote, bounds
  <2> QED BY <2>1, <2>2, <2>3, GotoFacts DEF Becomes, Moves, Others, Journal
<1> QED BY <1>2, <1>3 DEF Journal

\* The local backups move the row and start the remote ones.
LEMMA BackUpLocallyMoves ==
  ASSUME TypeOK, NEW c \in Changesets, BackUpLocally(c)
  PROVE  /\ TypeOK' /\ ap[c].pc = "local" /\ Moves(c, "remote", PathsOf(c))
         /\ row'[c].status = "locally_backed_up" /\ row'[c].applied = row[c].applied
         /\ \A d \in Changesets \ {c} : row'[d] = row[d]
<1>1. PathsOf(c) \in SUBSET Paths /\ "locally_backed_up" \in Status
  BY PathsKnown DEF Status, Active
<1>2. Loop(c, "remote", PathsOf(c)) \in ApplyState
  BY <1>1, LoopFacts
<1>3. Becomes(c, Loop(c, "remote", PathsOf(c))) /\ ap' \in [Changesets -> ApplyState]
  BY <1>2, Becoming DEF BackUpLocally
<1>4. /\ row' \in [Changesets -> ChangeSet]
      /\ row'[c].status = "locally_backed_up" /\ row'[c].applied = row[c].applied
      /\ \A d \in Changesets \ {c} : row'[d] = row[d]
  BY <1>1, StatusFacts DEF BackUpLocally
<1>5. TypeOK'
  BY <1>3, <1>4 DEF TypeOK, BackUpLocally, remote, bounds
<1> QED BY <1>1, <1>3, <1>4, <1>5, LoopFacts DEF Becomes, Moves, Others, BackUpLocally

\* A backup holds the file that was read, or apply raises.
LEMMA BackUpRemotelyMoves ==
  ASSUME TypeOK, NEW c \in Changesets, NEW p \in Paths, BackUpRemotely(c, p)
  PROVE  /\ TypeOK' /\ ap[c].pc = "remote" /\ p \in ap[c].todo
         /\ \A d \in Changesets, q \in Paths : d /= c \/ q /= p => backup'[d][q] = backup[d][q]
         /\ \A d \in Changesets \ {c} : row'[d] = row[d]
         /\ row'[c].applied = row[c].applied
         /\ \/ Raises(c, FALSE) /\ row' = row
               /\ backup'[c][p] = IF disk[p] = Absent THEN backup[c][p] ELSE disk[p]
            \/ /\ ap[c].read[p] = Absent \/ disk[p] = ap[c].read[p]
               /\ backup'[c][p] = IF ap[c].read[p] = Absent THEN backup[c][p] ELSE disk[p]
               /\ \/ /\ ap[c].todo = {p} /\ Moves(c, "temp", PathsOf(c))
                     /\ row'[c].status = "remotely_backed_up"
                  \/ ap[c].todo /= {p} /\ Moves(c, "remote", ap[c].todo \ {p}) /\ row' = row
<1> DEFINE x == Following(c, p, "temp", PathsOf(c))
           b == [backup EXCEPT ![c][p] = disk[p]]
           new == ap[c].read[p] = Absent
           same == disk[p] = ap[c].read[p]
<1>1. p \in ap[c].todo /\ PathsOf(c) \in SUBSET Paths
  BY TurnFacts, PathsKnown DEF BackUpRemotely
<1>2. /\ x \in ApplyState /\ Alike(x, ap[c])
      /\ \/ ap[c].todo = {p} /\ x.pc = "temp" /\ x.todo = PathsOf(c)
         \/ ap[c].todo /= {p} /\ x.pc = ap[c].pc /\ x.todo = ap[c].todo \ {p}
  BY <1>1, FollowingFacts
<1>3. Raise(c, FALSE) \in ApplyState
  BY RaiseFacts
<1>4. /\ backup' = IF new \/ disk[p] = Absent THEN backup ELSE b
      /\ ap' = [ap EXCEPT ![c] = IF new \/ same THEN x ELSE Raise(c, FALSE)]
      /\ row' = IF ap[c].todo = {p} /\ (new \/ same)
                THEN [row EXCEPT ![c].status = "remotely_backed_up"] ELSE row
      /\ ap[c].pc = "remote"
  BY DEF BackUpRemotely
<1>5. /\ b \in [Changesets -> [Paths -> Content]] /\ b[c][p] = disk[p]
      /\ \A d \in Changesets, q \in Paths : d /= c \/ q /= p => b[d][q] = backup[d][q]
  BY DEF TypeOK
<1>6. /\ backup' \in [Changesets -> [Paths -> Content]]
      /\ \A d \in Changesets, q \in Paths : d /= c \/ q /= p => backup'[d][q] = backup[d][q]
      /\ backup'[c][p] = IF new \/ disk[p] = Absent THEN backup[c][p] ELSE disk[p]
  <2> HIDE DEF b, new
  <2> QED BY <1>4, <1>5 DEF TypeOK
<1>7. /\ row' \in [Changesets -> ChangeSet]
      /\ row'[c].applied = row[c].applied
      /\ \A d \in Changesets \ {c} : row'[d] = row[d]
      /\ ap[c].todo = {p} /\ (new \/ same) => row'[c].status = "remotely_backed_up"
  <2>1. CASE ap[c].todo = {p} /\ (new \/ same)
    <3>1. row' = [row EXCEPT ![c].status = "remotely_backed_up"] /\ "remotely_backed_up" \in Status
      BY <1>4, <2>1 DEF Status, Active
    <3> QED BY <3>1, StatusFacts
  <2>2. CASE ~(ap[c].todo = {p} /\ (new \/ same))
    BY <1>4, <2>2 DEF TypeOK
  <2> QED BY <2>1, <2>2
<1> HIDE DEF x, b
<1>8. CASE new \/ same
  <2>1. Becomes(c, x) /\ ap' \in [Changesets -> ApplyState]
    BY <1>2, <1>4, <1>8, Becoming
  <2>2. TypeOK'
    BY <1>6, <1>7, <2>1 DEF TypeOK, BackUpRemotely, bounds
  <2>3. \/ ap[c].todo = {p} /\ Moves(c, "temp", PathsOf(c))
        \/ ap[c].todo /= {p} /\ Moves(c, "remote", ap[c].todo \ {p})
    BY <1>2, <1>4, <2>1 DEF Becomes, Moves, Others
  <2>4. ap[c].todo /= {p} => row' = row
    BY <1>4
  <2>5. backup'[c][p] = IF ap[c].read[p] = Absent THEN backup[c][p] ELSE disk[p]
    BY <1>6, <1>8
  <2> QED BY <1>1, <1>4, <1>6, <1>7, <1>8, <2>2, <2>3, <2>4, <2>5
<1>9. CASE ~(new \/ same)
  <2>1. Becomes(c, Raise(c, FALSE)) /\ ap' \in [Changesets -> ApplyState] /\ row' = row
    BY <1>3, <1>4, <1>9, Becoming
  <2>2. TypeOK'
    BY <1>6, <1>7, <2>1 DEF TypeOK, BackUpRemotely, bounds
  <2>3. Raises(c, FALSE)
    BY ZenonT(40), <2>1, RaiseFacts DEF Becomes, Raises, Others
  <2> QED BY <1>1, <1>4, <1>6, <1>7, <1>9, <2>1, <2>2, <2>3
<1> QED BY <1>8, <1>9

\* A temporary file is written and known.
LEMMA WriteTempMoves ==
  ASSUME TypeOK, NEW c \in Changesets, NEW p \in Paths, WriteTemp(c, p)
  PROVE  /\ TypeOK' /\ ap[c].pc = "temp" /\ p \in ap[c].todo
         /\ temp'[c] = temp[c] \cup {p} /\ \A d \in Changesets \ {c} : temp'[d] = temp[d]
         /\ Others(c)
         /\ ap'[c].applied = ap[c].applied /\ ap'[c].written = ap[c].written \cup {p}
         /\ ap'[c].undone = ap[c].undone /\ ap'[c].uncertain = ap[c].uncertain
         /\ ap'[c].result = ap[c].result /\ ap'[c].read = ap[c].read
         /\ \/ ap[c].todo = {p} /\ ap'[c].pc = "check" /\ ap'[c].todo = {}
            \/ ap[c].todo /= {p} /\ ap'[c].pc = "temp" /\ ap'[c].todo = ap[c].todo \ {p}
<1> DEFINE y == Following(c, p, "check", {})
           x == [y EXCEPT !.written = @ \cup {p}]
<1>1. p \in ap[c].todo /\ {} \in SUBSET Paths
  BY TurnFacts DEF WriteTemp
<1>2. /\ y \in ApplyState /\ Alike(y, ap[c])
      /\ \/ ap[c].todo = {p} /\ y.pc = "check" /\ y.todo = {}
         \/ ap[c].todo /= {p} /\ y.pc = ap[c].pc /\ y.todo = ap[c].todo \ {p}
  BY <1>1, FollowingFacts
<1>3. /\ x \in ApplyState /\ x.pc = y.pc /\ x.todo = y.todo /\ x.written = y.written \cup {p}
      /\ x.applied = y.applied /\ x.undone = y.undone
      /\ x.uncertain = y.uncertain /\ x.result = y.result /\ x.read = y.read
  <2> HIDE DEF y
  <2> QED BY <1>2 DEF ApplyState
<1>4. ap' = [ap EXCEPT ![c] = x] /\ ap[c].pc = "temp"
  BY DEF WriteTemp
<1> HIDE DEF x, y
<1>5. Becomes(c, x) /\ ap' \in [Changesets -> ApplyState]
  BY <1>3, <1>4, Becoming
<1>6. /\ temp' \in [Changesets -> SUBSET Paths] /\ temp'[c] = temp[c] \cup {p}
      /\ \A d \in Changesets \ {c} : temp'[d] = temp[d]
  BY DEF WriteTemp, TypeOK
<1>7. TypeOK'
  BY <1>5, <1>6 DEF TypeOK, WriteTemp, bounds
<1> QED BY <1>1, <1>2, <1>3, <1>4, <1>5, <1>6, <1>7 DEF Becomes, Others, Alike

\* Nothing is renamed before a needed approval is spent.
LEMMA CheckAndConsumeMoves ==
  ASSUME TypeOK, NEW c \in Changesets, CheckAndConsume(c)
  PROVE  /\ TypeOK' /\ ap[c].pc = "check"
         /\ \A k \in Changesets \X {"change", "rollback"} : k /= <<c, "change">> => granted'[k] = granted[k]
         /\ \/ Raises(c, FALSE) /\ granted' = granted
            \/ /\ Moves(c, "rename", PathsOf(c))
               /\ \/ ~InterruptsService(c) /\ granted' = granted
                  \/ /\ granted[<<c, "change">>] /= 0
                     /\ granted'[<<c, "change">>] = granted[<<c, "change">>] - 1
<1> DEFINE x == Loop(c, "rename", PathsOf(c))
           g == [granted EXCEPT ![<<c, "change">>] = granted[<<c, "change">>] - 1]
<1>1. PathsOf(c) \in SUBSET Paths
  BY PathsKnown
<1>2. x \in ApplyState /\ Alike(x, ap[c]) /\ x.pc = "rename" /\ x.todo = PathsOf(c)
  BY <1>1, LoopFacts
<1>3. Raise(c, FALSE) \in ApplyState
  BY RaiseFacts
<1>4. \/ ap' = [ap EXCEPT ![c] = Raise(c, FALSE)] /\ granted' = granted
      \/ ap' = [ap EXCEPT ![c] = x] /\ ~InterruptsService(c) /\ granted' = granted
      \/ ap' = [ap EXCEPT ![c] = x] /\ granted[<<c, "change">>] /= 0 /\ granted' = g
  BY DEF CheckAndConsume
<1>5. granted[<<c, "change">>] /= 0 => granted[<<c, "change">>] - 1 \in Nat
  <2>1. granted[<<c, "change">>] \in Nat
    BY DEF TypeOK
  <2> QED BY <2>1
<1>6. ASSUME granted[<<c, "change">>] /= 0
      PROVE  /\ g \in [Changesets \X {"change", "rollback"} -> Nat]
             /\ g[<<c, "change">>] = granted[<<c, "change">>] - 1
             /\ \A k \in Changesets \X {"change", "rollback"} : k /= <<c, "change">> => g[k] = granted[k]
  BY <1>5, <1>6 DEF TypeOK
<1>7. ap[c].pc = "check"
  BY DEF CheckAndConsume
<1> HIDE DEF x, g
<1>8. /\ granted' \in [Changesets \X {"change", "rollback"} -> Nat]
      /\ \A k \in Changesets \X {"change", "rollback"} : k /= <<c, "change">> => granted'[k] = granted[k]
  BY <1>4, <1>6 DEF TypeOK
<1>9. ap' \in [Changesets -> ApplyState]
  BY <1>2, <1>3, <1>4, Becoming
<1>10. TypeOK'
  BY <1>8, <1>9 DEF TypeOK, CheckAndConsume, remote, bounds
<1>11. CASE ap' = [ap EXCEPT ![c] = Raise(c, FALSE)] /\ granted' = granted
  <2>1. Raises(c, FALSE)
    BY <1>3, <1>11, Becoming, RaiseFacts DEF Becomes, Raises, Others
  <2> QED BY <1>7, <1>8, <1>10, <1>11, <2>1
<1>12. ASSUME ap' = [ap EXCEPT ![c] = x] PROVE Moves(c, "rename", PathsOf(c))
  BY <1>2, <1>12, Becoming DEF Becomes, Moves, Others
<1> QED BY <1>4, <1>6, <1>7, <1>8, <1>10, <1>11, <1>12

\* One target is replaced; the row follows in the next step.
LEMMA RenameMoves ==
  ASSUME TypeOK, NEW c \in Changesets, NEW p \in Paths, Rename(c, p)
  PROVE  /\ TypeOK' /\ ap[c].pc = "rename" /\ p \in ap[c].todo
         /\ Moves(c, "mark", ap[c].todo)
         /\ disk'[p] = c /\ \A q \in Paths \ {p} : disk'[q] = disk[q]
         /\ temp'[c] = temp[c] \ {p} /\ \A d \in Changesets \ {c} : temp'[d] = temp[d]
<1>1. Becomes(c, Goto(c, "mark")) /\ ap' \in [Changesets -> ApplyState]
  BY GotoFacts, Becoming DEF Rename
<1>2. /\ disk' \in [Paths -> Content] /\ disk'[p] = c /\ \A q \in Paths \ {p} : disk'[q] = disk[q]
  BY ContentFacts DEF Rename, TypeOK
<1>3. /\ temp' \in [Changesets -> SUBSET Paths]
      /\ temp'[c] = temp[c] \ {p} /\ \A d \in Changesets \ {c} : temp'[d] = temp[d]
  BY DEF Rename, TypeOK
<1>4. TypeOK'
  BY <1>1, <1>2, <1>3 DEF TypeOK, Rename, bounds
<1>5. ap[c].pc = "rename" /\ p \in ap[c].todo
  BY TurnFacts DEF Rename
<1> QED BY <1>1, <1>2, <1>3, <1>4, <1>5, GotoFacts DEF Becomes, Moves, Others

\* The row of the file just renamed; the last one ends the loop.
LEMMA MarkMoves ==
  ASSUME TypeOK, NEW c \in Changesets, NEW p \in Paths, Mark(c, p)
  PROVE  /\ TypeOK' /\ ap[c].pc = "mark" /\ p \in ap[c].todo
         /\ Others(c)
         /\ ap'[c].applied = ap[c].applied \cup {p} /\ ap'[c].written = ap[c].written
         /\ ap'[c].undone = ap[c].undone /\ ap'[c].uncertain = ap[c].uncertain
         /\ ap'[c].result = ap[c].result /\ ap'[c].read = ap[c].read
         /\ \/ ap[c].todo = {p} /\ ap'[c].pc = "return" /\ ap'[c].todo = {}
            \/ ap[c].todo /= {p} /\ ap'[c].pc = "rename" /\ ap'[c].todo = ap[c].todo \ {p}
         /\ row'[c].status = IF ap[c].applied = {} THEN "applied" ELSE row[c].status
         /\ row'[c].applied = row[c].applied \cup {p}
         /\ \A d \in Changesets \ {c} : row'[d] = row[d]
<1> DEFINE y == Following(c, p, "return", {})
           x == [y EXCEPT !.applied = @ \cup {p}, !.pc = IF @ = "mark" THEN "rename" ELSE @]
           s == IF ap[c].applied = {} THEN "applied" ELSE row[c].status
<1>1. p \in ap[c].todo /\ {} \in SUBSET Paths /\ ap[c].pc = "mark"
  BY TurnFacts DEF Mark
<1>2. /\ y \in ApplyState /\ Alike(y, ap[c])
      /\ \/ ap[c].todo = {p} /\ y.pc = "return" /\ y.todo = {}
         \/ ap[c].todo /= {p} /\ y.pc = "mark" /\ y.todo = ap[c].todo \ {p}
  BY <1>1, FollowingFacts
<1>3. /\ x \in ApplyState /\ x.pc = (IF y.pc = "mark" THEN "rename" ELSE y.pc) /\ x.todo = y.todo
      /\ x.applied = y.applied \cup {p} /\ x.undone = y.undone /\ x.written = y.written
      /\ x.uncertain = y.uncertain /\ x.result = y.result /\ x.read = y.read
  <2> HIDE DEF y
  <2> QED BY <1>2 DEF ApplyState
<1>4. ap' = [ap EXCEPT ![c] = x] /\ UpdateFileChange(c, p, TRUE, s)
  BY DEF Mark
<1>5. s \in Status
  BY DEF TypeOK, ChangeSet, Status, Active
<1> HIDE DEF x, y, s
<1>6. Becomes(c, x) /\ ap' \in [Changesets -> ApplyState]
  BY <1>3, <1>4, Becoming
<1>7. /\ row' \in [Changesets -> ChangeSet]
      /\ row'[c].status = s /\ row'[c].applied = row[c].applied \cup {p}
      /\ \A d \in Changesets \ {c} : row'[d] = row[d]
  BY <1>4, <1>5, RowFacts
<1>8. TypeOK'
  BY <1>6, <1>7 DEF TypeOK, Mark, remote, bounds
<1> QED BY <1>1, <1>2, <1>3, <1>6, <1>7, <1>8 DEF Becomes, Others, Alike, s

\* apply ends and lets its locks go.
LEMMA ReturnMoves ==
  ASSUME TypeOK, NEW c \in Changesets, Return(c)
  PROVE  /\ TypeOK' /\ ap[c].pc = "return" /\ Ends(c, "applied")
         /\ \A p \in Paths : locks'[p] = IF locks[p] = c THEN None ELSE locks[p]
<1>1. Becomes(c, End(c, "applied")) /\ ap' \in [Changesets -> ApplyState]
  BY EndFacts, Becoming DEF Return
<1>2. /\ locks' \in [Paths -> Changesets \cup {None}]
      /\ \A p \in Paths : locks'[p] = IF locks[p] = c THEN None ELSE locks[p]
  BY DEF Return, Release, TypeOK
<1>3. TypeOK'
  BY <1>1, <1>2 DEF TypeOK, Return, remote, bounds
<1> QED BY <1>1, <1>2, <1>3, EndFacts DEF Becomes, Ends, Others, Return

\* A failing call raises; its effect stands only if it timed out, in a write or a rename.
LEMMA CallFailsMoves ==
  ASSUME TypeOK, NEW c \in Changesets, NEW p \in Paths, NEW effect \in BOOLEAN,
         NEW timeout \in BOOLEAN, CallFails(c, p, effect, timeout)
  PROVE  /\ TypeOK' /\ Raises(c, timeout)
         /\ ap[c].pc \in {"read", "remote", "temp", "check", "rename"}
         /\ effect => timeout /\ ap[c].pc \in {"temp", "rename"}
         /\ ap[c].pc \in {"temp", "rename"} => p \in ap[c].todo
         /\ windows \subseteq windows' /\ (effect => "lost" \in windows')
         /\ windows' \subseteq windows \cup {"lost"}
         /\ ~effect => temp' = temp
         /\ ~effect \/ ap[c].pc /= "rename" => disk' = disk
         /\ effect /\ ap[c].pc = "rename" =>
              disk'[p] = c /\ \A q \in Paths \ {p} : disk'[q] = disk[q]
         /\ \A d \in Changesets \ {c} : temp'[d] = temp[d]
<1>1. Becomes(c, Raise(c, timeout)) /\ ap' \in [Changesets -> ApplyState]
  BY RaiseFacts, Becoming DEF CallFails, IsUncertainFailure
<1>2. Raises(c, timeout)
  BY <1>1, RaiseFacts DEF Becomes, Raises, Others
<1>3. /\ ap[c].pc \in {"read", "remote", "temp", "check", "rename"}
      /\ effect => timeout /\ ap[c].pc \in {"temp", "rename"}
      /\ ap[c].pc \in {"temp", "rename"} => p \in ap[c].todo
  BY TurnFacts DEF CallFails
<1>4. /\ disk' \in [Paths -> Content]
      /\ ~effect \/ ap[c].pc /= "rename" => disk' = disk
      /\ effect /\ ap[c].pc = "rename" =>
           disk'[p] = c /\ \A q \in Paths \ {p} : disk'[q] = disk[q]
  <2>1. disk' = IF effect /\ ap[c].pc = "rename" THEN [disk EXCEPT ![p] = c] ELSE disk
    BY DEF CallFails
  <2> QED BY <2>1, ContentFacts DEF TypeOK
<1>5. /\ temp' \in [Changesets -> SUBSET Paths]
      /\ ~effect => temp' = temp
      /\ \A d \in Changesets \ {c} : temp'[d] = temp[d]
  <2>1. temp' = temp \/ \E t \in SUBSET Paths : temp' = [temp EXCEPT ![c] = t]
    <3>1. {temp[c] \cup {p}, temp[c] \ {p}} \subseteq SUBSET Paths
      BY DEF TypeOK
    <3>2. temp' = temp \/ temp' = [temp EXCEPT ![c] = temp[c] \cup {p}]
          \/ temp' = [temp EXCEPT ![c] = temp[c] \ {p}]
      BY DEF CallFails
    <3> QED BY <3>1, <3>2
  <2>2. ~effect => temp' = temp
    BY DEF CallFails
  <2> QED BY <2>1, <2>2 DEF TypeOK
<1>6. faults' \in 0..MaxFaults
  <2>1. faults < MaxFaults /\ faults' = faults + 1
    BY DEF CallFails
  <2> QED BY <2>1, ChangeConstants DEF TypeOK
<1>7. /\ windows \subseteq windows' /\ (effect => "lost" \in windows')
      /\ windows' \subseteq windows \cup {"lost"}
  BY DEF CallFails
<1>8. TypeOK'
  BY <1>1, <1>4, <1>5, <1>6, <1>7 DEF TypeOK, CallFails
<1> QED BY <1>2, <1>3, <1>4, <1>5, <1>7, <1>8

\* A file is put back and its row cleared, or the failure is noted.
LEMMA UndoMoves ==
  ASSUME TypeOK, NEW c \in Changesets, NEW p \in Paths, Undo(c, p)
  PROVE  /\ TypeOK' /\ ap[c].pc = "undo" /\ p \in ap[c].todo
         /\ Others(c) /\ ap'[c].pc = "undo" /\ ap'[c].todo = ap[c].todo \ {p}
         /\ ap'[c].uncertain = ap[c].uncertain
         /\ ap'[c].read = ap[c].read /\ ap'[c].written = ap[c].written
         /\ ap'[c].applied = ap[c].applied /\ ap'[c].result = ap[c].result
         /\ \/ /\ PutBack(c, p) /\ Restorable(c, p) /\ ap'[c].undone = ap[c].undone
               /\ row'[c].status = row[c].status /\ row'[c].applied = row[c].applied \ {p}
               /\ \A d \in Changesets \ {c} : row'[d] = row[d]
            \/ UNCHANGED <<disk, backup, row, windows>> /\ ~ap'[c].undone
<1>1. ap[c].pc = "undo" /\ p \in ap[c].todo
  BY TurnFacts DEF Undo
<1>2. ap[c] \in ApplyState /\ row[c].status \in Status
  BY DEF TypeOK, ChangeSet
<1>3. faults' \in 0..MaxFaults
  <2>1. faults' = faults \/ (faults < MaxFaults /\ faults' = faults + 1)
    BY DEF Undo
  <2> QED BY <2>1, ChangeConstants DEF TypeOK
<1>4. CASE /\ Restorable(c, p) /\ PutBack(c, p) /\ UpdateFileChange(c, p, FALSE, row[c].status)
           /\ ap' = [ap EXCEPT ![c] = Behind(c, p, TRUE)]
  <2>1. Becomes(c, Behind(c, p, TRUE)) /\ ap' \in [Changesets -> ApplyState]
    BY <1>4, BehindFacts, Becoming
  <2>2. /\ row' \in [Changesets -> ChangeSet]
        /\ row'[c].status = row[c].status /\ row'[c].applied = row[c].applied \ {p}
        /\ \A d \in Changesets \ {c} : row'[d] = row[d]
    BY <1>2, <1>4, RowFacts
  <2>3. /\ disk' \in [Paths -> Content] /\ backup' \in [Changesets -> [Paths -> Content]]
        /\ windows' \subseteq windows \cup {"stacked", "unlocked"}
    BY <1>4, PutBackFacts
  <2>4. TypeOK'
    BY <1>3, <2>1, <2>2, <2>3 DEF TypeOK, Undo
  <2>5. ap'[c].undone = ap[c].undone
    BY <1>2, <2>1, BehindFacts DEF Becomes, ApplyState
  <2> QED BY ZenonT(40), <1>1, <1>4, <2>1, <2>2, <2>4, <2>5, BehindFacts DEF Becomes, Others
<1>5. CASE ap' = [ap EXCEPT ![c] = Behind(c, p, FALSE)] /\ UNCHANGED <<disk, backup, row, windows>>
  <2>1. Becomes(c, Behind(c, p, FALSE)) /\ ap' \in [Changesets -> ApplyState]
    BY <1>5, BehindFacts, Becoming
  <2>2. TypeOK'
    BY <1>3, <1>5, <2>1 DEF TypeOK, Undo
  <2> QED BY <1>1, <1>5, <2>1, <2>2, BehindFacts DEF Becomes, Others
<1> QED BY <1>4, <1>5 DEF Undo

\* A failed apply ends, its temporary files gone unless that failed too.
LEMMA SettleMoves ==
  ASSUME TypeOK, NEW c \in Changesets, Settle(c)
  PROVE  /\ TypeOK' /\ ap[c].pc = "undo" /\ ap[c].todo = {}
         /\ \A p \in Paths : locks'[p] = IF locks[p] = c THEN None ELSE locks[p]
         /\ windows \subseteq windows' /\ windows' \subseteq windows \cup {"untidy"}
         /\ \A d \in Changesets \ {c} : temp'[d] = temp[d] /\ row'[d] = row[d]
         /\ temp'[c] = temp[c] \ ap[c].written \/ (temp' = temp /\ "untidy" \in windows')
         /\ row'[c].applied = row[c].applied
         /\ FailedStatus(c) \in {"rolled_back", "failed"}
         /\ \/ /\ row[c].status = "none" /\ row' = row /\ Ends(c, FailedStatus(c))
            \/ /\ row[c].status /= "none" /\ MayMove(c, FailedStatus(c))
               /\ row'[c].status = FailedStatus(c) /\ Ends(c, FailedStatus(c))
            \/ /\ row[c].status /= "none" /\ ~MayMove(c, FailedStatus(c))
               /\ row' = row /\ Ends(c, "raised")
<1>1. FailedStatus(c) \in {"rolled_back", "failed"} /\ FailedStatus(c) \in Status
      /\ ap[c].pc = "undo" /\ ap[c].todo = {}
  BY DEF FailedStatus, Settle, Status, Terminal
<1>2. /\ locks' \in [Paths -> Changesets \cup {None}]
      /\ \A p \in Paths : locks'[p] = IF locks[p] = c THEN None ELSE locks[p]
  BY DEF Settle, Release, TypeOK
<1>3. \/ temp' = [temp EXCEPT ![c] = temp[c] \ ap[c].written] /\ UNCHANGED <<faults, windows>>
      \/ /\ temp' = temp /\ faults < MaxFaults /\ faults' = faults + 1
         /\ windows' = windows \cup {"untidy"}
  BY DEF Settle, CleanUp
<1>4. faults' \in 0..MaxFaults
  BY <1>3, ChangeConstants DEF TypeOK
<1>5. /\ temp' \in [Changesets -> SUBSET Paths]
      /\ \A d \in Changesets \ {c} : temp'[d] = temp[d]
      /\ temp'[c] = temp[c] \ ap[c].written \/ (temp' = temp /\ "untidy" \in windows')
  <2> DEFINE t == temp[c] \ ap[c].written
  <2>1. t \in SUBSET Paths /\ temp \in [Changesets -> SUBSET Paths]
    BY DEF TypeOK
  <2>2. temp' = [temp EXCEPT ![c] = t] \/ (temp' = temp /\ "untidy" \in windows')
    BY <1>3
  <2> HIDE DEF t
  <2>3. /\ temp' \in [Changesets -> SUBSET Paths]
        /\ \A d \in Changesets \ {c} : temp'[d] = temp[d]
        /\ temp'[c] = t \/ (temp' = temp /\ "untidy" \in windows')
    BY <2>1, <2>2
  <2> QED BY <2>3 DEF t
<1>6. windows \subseteq windows' /\ windows' \subseteq windows \cup {"untidy"}
  BY <1>3
<1>7. ASSUME NEW r \in {"rolled_back", "failed", "raised"}, ap' = [ap EXCEPT ![c] = End(c, r)]
      PROVE  Ends(c, r) /\ ap' \in [Changesets -> ApplyState]
  <2>1. Becomes(c, End(c, r)) /\ ap' \in [Changesets -> ApplyState]
    BY <1>7, EndFacts, Becoming
  <2> QED BY <2>1, EndFacts DEF Becomes, Ends, Others
<1>8. /\ row' \in [Changesets -> ChangeSet] /\ ap' \in [Changesets -> ApplyState]
      /\ row'[c].applied = row[c].applied /\ \A d \in Changesets \ {c} : row'[d] = row[d]
      /\ \/ /\ row[c].status = "none" /\ row' = row /\ Ends(c, FailedStatus(c))
         \/ /\ row[c].status /= "none" /\ MayMove(c, FailedStatus(c))
            /\ row'[c].status = FailedStatus(c) /\ Ends(c, FailedStatus(c))
         \/ /\ row[c].status /= "none" /\ ~MayMove(c, FailedStatus(c))
            /\ row' = row /\ Ends(c, "raised")
  <2>1. row \in [Changesets -> ChangeSet]
    BY DEF TypeOK
  <2>2. CASE row[c].status = "none"
    <3>1. row' = row /\ ap' = [ap EXCEPT ![c] = End(c, FailedStatus(c))]
      BY <2>2 DEF Settle
    <3> QED BY <1>1, <1>7, <2>1, <2>2, <3>1
  <2>3. CASE row[c].status /= "none" /\ MayMove(c, FailedStatus(c))
    <3>1. row' = [row EXCEPT ![c].status = FailedStatus(c)]
          /\ ap' = [ap EXCEPT ![c] = End(c, FailedStatus(c))]
      BY <2>3 DEF Settle
    <3>2. /\ row' \in [Changesets -> ChangeSet] /\ row'[c].status = FailedStatus(c)
          /\ row'[c].applied = row[c].applied /\ \A d \in Changesets \ {c} : row'[d] = row[d]
      BY <1>1, <3>1, StatusFacts
    <3> QED BY <1>1, <1>7, <2>3, <3>1, <3>2
  <2>4. CASE row[c].status /= "none" /\ ~MayMove(c, FailedStatus(c))
    <3>1. row' = row /\ ap' = [ap EXCEPT ![c] = End(c, "raised")]
      BY <2>4 DEF Settle
    <3> QED BY <1>7, <2>1, <2>4, <3>1
  <2> QED BY <2>2, <2>3, <2>4
<1>9. windows' \subseteq {"race", "lost", "stacked", "unlocked", "partial", "untidy", "died"}
  BY <1>6 DEF TypeOK
<1>10. TypeOK'
  BY <1>2, <1>4, <1>5, <1>8, <1>9 DEF TypeOK, Settle
<1>11. \A d \in Changesets \ {c} : temp'[d] = temp[d] /\ row'[d] = row[d]
  BY <1>5, <1>8
<1> QED BY <1>1, <1>2, <1>5, <1>6, <1>8, <1>10, <1>11

-----------------------------------------------------------------------------
(* What the other steps do. *)

\* Where no race was recorded, neither the apply nor a rollback was under way.
LEMMA RaceFacts ==
  ASSUME NEW c \in Changesets
  PROVE  /\ Race(c) \subseteq {"race"}
         /\ Race(c) = {} => ~InFlight(c) /\ rb[c].pc \in {"idle", "queued"}
  BY DEF Race

\* verify moves the status and nothing on the host.
LEMMA VerifyMoves ==
  ASSUME TypeOK, NEW c \in Changesets, VerifyFails(c) \/ Verify(c) \/ VerifyEnds(c)
  PROVE  /\ TypeOK'
         /\ windows' = windows \cup Race(c) /\ windows \subseteq windows'
         /\ row'[c].applied = row[c].applied
         /\ \A d \in Changesets \ {c} : row'[d] = row[d] /\ vf'[d] = vf[d]
         /\ \/ VerifyFails(c) /\ Standing(c) /\ row'[c].status = "failed" /\ vf' = vf
            \/ Verify(c) /\ Standing(c) /\ row'[c].status = "validated"
            \/ /\ VerifyEnds(c) /\ vf[c] = "validated"
               /\ \/ row[c].status = "validated" /\ row'[c].status = "verified"
                  \/ row' = row
<1>1. {"failed", "validated", "verified"} \subseteq Status /\ Race(c) \subseteq {"race"}
  BY RaceFacts DEF Status, Active, Terminal
<1>2. windows' = windows \cup Race(c)
  BY DEF VerifyFails, Verify, VerifyEnds
<1>3. vf' \in [Changesets -> {"idle", "validated"}] /\ \A d \in Changesets \ {c} : vf'[d] = vf[d]
  BY DEF VerifyFails, Verify, VerifyEnds, TypeOK
<1>4. \/ row' = [row EXCEPT ![c].status = "failed"] /\ VerifyFails(c)
      \/ row' = [row EXCEPT ![c].status = "validated"] /\ Verify(c)
      \/ row' = [row EXCEPT ![c].status = "verified"] /\ VerifyEnds(c) /\ MayMove(c, "verified")
      \/ row' = row /\ VerifyEnds(c)
  BY DEF VerifyFails, Verify, VerifyEnds
<1>5. /\ row' \in [Changesets -> ChangeSet] /\ row'[c].applied = row[c].applied
      /\ \A d \in Changesets \ {c} : row'[d] = row[d]
      /\ \/ VerifyFails(c) /\ row'[c].status = "failed"
         \/ Verify(c) /\ row'[c].status = "validated"
         \/ VerifyEnds(c) /\ MayMove(c, "verified") /\ row'[c].status = "verified"
         \/ row' = row /\ VerifyEnds(c)
  <2>1. \A s \in {"failed", "validated", "verified"} : row' = [row EXCEPT ![c].status = s] =>
          /\ row' \in [Changesets -> ChangeSet] /\ row'[c].applied = row[c].applied
          /\ \A d \in Changesets \ {c} : row'[d] = row[d]
          /\ row'[c].status = s
    BY <1>1, StatusFacts
  <2>2. row \in [Changesets -> ChangeSet]
    BY DEF TypeOK
  <2> QED BY <1>4, <2>1, <2>2
<1>6. TypeOK'
  BY <1>1, <1>2, <1>3, <1>5 DEF TypeOK, VerifyFails, Verify, VerifyEnds, remote, bounds
<1>7. MayMove(c, "verified") => row[c].status = "validated"
  BY DEF MayMove, Predecessors
<1>8. /\ VerifyFails(c) \/ Verify(c) => Standing(c)
      /\ VerifyFails(c) => vf' = vf
      /\ VerifyEnds(c) => vf[c] = "validated"
  BY DEF VerifyFails, Verify, VerifyEnds
<1> QED BY <1>2, <1>3, <1>5, <1>6, <1>7, <1>8
\* A rollback approval leaves the approvals of changes alone.
LEMMA GrantMoves ==
  ASSUME TypeOK, NEW c \in Changesets, Grant(c)
  PROVE  TypeOK' /\ \A d \in Changesets : granted'[<<d, "change">>] = granted[<<d, "change">>]
<1>1. grants' = [grants EXCEPT ![c] = grants[c] + 1] /\ grants[c] < MaxApprovals
  BY DEF Grant
<1>2. grants[c] + 1 \in 0..MaxApprovals
  BY <1>1, ChangeConstants DEF TypeOK
<1>3. grants' \in [Changesets -> 0..MaxApprovals]
  BY <1>1, <1>2 DEF TypeOK
<1> DEFINE n == granted[<<c, "rollback">>] + 1
<1>4. granted' = [granted EXCEPT ![<<c, "rollback">>] = n] /\ n \in Nat
  <2>1. granted[<<c, "rollback">>] \in Nat
    BY DEF TypeOK
  <2> QED BY <2>1 DEF Grant
<1> HIDE DEF n
<1>5. /\ granted' \in [Changesets \X {"change", "rollback"} -> Nat]
      /\ \A d \in Changesets : granted'[<<d, "change">>] = granted[<<d, "change">>]
  BY <1>4 DEF TypeOK
<1> QED BY <1>3, <1>5 DEF TypeOK, Grant, remote

\* The rollback of c moves on to pc and todo.
RollsBack(c, pc, todo) ==
  /\ rb'[c].pc = pc /\ rb'[c].todo = todo
  /\ \A d \in Changesets \ {c} : rb'[d] = rb[d]

\* An assignment to one rollback concerns no other.
LEMMA Rolling ==
  ASSUME TypeOK, NEW c \in Changesets, NEW pc \in {"idle", "queued", "restore", "mark"},
         NEW todo \in SUBSET Paths, rb' = [rb EXCEPT ![c] = [pc |-> pc, todo |-> todo]]
  PROVE  /\ RollsBack(c, pc, todo)
         /\ rb' \in [Changesets -> [pc : {"idle", "queued", "restore", "mark"}, todo : SUBSET Paths]]
<1> DEFINE x == [pc |-> pc, todo |-> todo]
<1>1. x \in [pc : {"idle", "queued", "restore", "mark"}, todo : SUBSET Paths]
      /\ x.pc = pc /\ x.todo = todo
  OBVIOUS
<1> HIDE DEF x
<1> QED BY <1>1 DEF TypeOK, RollsBack, x

\* The route queues a rollback.
LEMMA RequestRollbackMoves ==
  ASSUME TypeOK, NEW c \in Changesets, RequestRollback(c)
  PROVE  TypeOK' /\ rb[c].pc = "idle" /\ RollsBack(c, "queued", {})
<1>1. rb' = [rb EXCEPT ![c] = [pc |-> "queued", todo |-> {}]] /\ {} \in SUBSET Paths
  BY DEF RequestRollback
<1>2. RollsBack(c, "queued", {})
      /\ rb' \in [Changesets -> [pc : {"idle", "queued", "restore", "mark"}, todo : SUBSET Paths]]
  BY <1>1, Rolling
<1> QED BY <1>2 DEF TypeOK, RequestRollback, remote, bounds

\* The handler starts from the file rows, or not at all.
LEMMA StartRollbackMoves ==
  ASSUME TypeOK, NEW c \in Changesets, StartRollback(c)
  PROVE  /\ TypeOK' /\ rb[c].pc = "queued"
         /\ windows \subseteq windows' /\ windows' \subseteq windows \cup {"race"}
         /\ \A d \in Changesets : granted'[<<d, "change">>] = granted[<<d, "change">>]
         /\ \/ RollsBack(c, "idle", {})
            \/ /\ Standing(c) /\ RollsBack(c, "restore", row[c].applied)
               /\ "race" \notin windows' => ~InFlight(c) /\ vf[c] = "idle"
<1>1. rb[c].pc = "queued"
  BY DEF StartRollback
<1>2. CASE rb' = [rb EXCEPT ![c] = NoRollback] /\ UNCHANGED <<granted, windows>>
  <2>1. rb' = [rb EXCEPT ![c] = [pc |-> "idle", todo |-> {}]] /\ {} \in SUBSET Paths
    BY <1>2 DEF NoRollback
  <2>2. RollsBack(c, "idle", {})
        /\ rb' \in [Changesets -> [pc : {"idle", "queued", "restore", "mark"}, todo : SUBSET Paths]]
    BY <2>1, Rolling
  <2>3. TypeOK'
    BY <1>2, <2>2 DEF TypeOK, StartRollback, remote, bounds
  <2> QED BY <1>1, <1>2, <2>2, <2>3
<1>3. CASE /\ MayRollBack(c)
           /\ granted' = IF InterruptsService(c)
                         THEN [granted EXCEPT ![<<c, "rollback">>] = @ - 1] ELSE granted
           /\ rb' = [rb EXCEPT ![c] = [pc |-> "restore", todo |-> row[c].applied]]
           /\ windows' = windows \cup Race(c) \cup (IF vf[c] = "idle" THEN {} ELSE {"race"})
  <2>1. row[c].applied \in SUBSET Paths
    BY DEF TypeOK, ChangeSet
  <2>2. RollsBack(c, "restore", row[c].applied)
        /\ rb' \in [Changesets -> [pc : {"idle", "queued", "restore", "mark"}, todo : SUBSET Paths]]
    BY <1>3, <2>1, Rolling
  <2>3. Standing(c) /\ (InterruptsService(c) => granted[<<c, "rollback">>] > 0)
    BY <1>3 DEF MayRollBack
  <2> DEFINE n == granted[<<c, "rollback">>] - 1
  <2>4. InterruptsService(c) => n \in Nat
    <3>1. granted[<<c, "rollback">>] \in Nat
      BY DEF TypeOK
    <3> QED BY <2>3, <3>1
  <2>5. granted' = IF InterruptsService(c) THEN [granted EXCEPT ![<<c, "rollback">>] = n] ELSE granted
    BY <1>3
  <2> HIDE DEF n
  <2>6. /\ granted' \in [Changesets \X {"change", "rollback"} -> Nat]
        /\ \A d \in Changesets : granted'[<<d, "change">>] = granted[<<d, "change">>]
    BY <2>4, <2>5 DEF TypeOK
  <2>7. /\ windows \subseteq windows' /\ windows' \subseteq windows \cup {"race"}
        /\ "race" \notin windows' => Race(c) = {} /\ vf[c] = "idle"
    BY <1>3, RaceFacts
  <2>8. TypeOK'
    BY <2>2, <2>6, <2>7 DEF TypeOK, StartRollback, remote, bounds
  <2> QED BY <1>1, <2>2, <2>3, <2>6, <2>7, <2>8, RaceFacts
<1> QED BY <1>2, <1>3 DEF StartRollback

\* One file is put back before its row is cleared.
LEMMA RestoreFileMoves ==
  ASSUME TypeOK, NEW c \in Changesets, NEW p \in Paths, RestoreFile(c, p)
  PROVE  /\ TypeOK' /\ rb[c].pc = "restore" /\ RestoreTurn(c, p) /\ p \in rb[c].todo
         /\ PutBack(c, p) /\ Restorable(c, p) /\ RollsBack(c, "mark", rb[c].todo)
<1>1. rb' = [rb EXCEPT ![c] = [pc |-> "mark", todo |-> rb[c].todo]] /\ rb[c].todo \in SUBSET Paths
  BY DEF RestoreFile, TypeOK
<1>2. RollsBack(c, "mark", rb[c].todo)
      /\ rb' \in [Changesets -> [pc : {"idle", "queued", "restore", "mark"}, todo : SUBSET Paths]]
  BY <1>1, Rolling
<1>3. /\ disk' \in [Paths -> Content] /\ backup' \in [Changesets -> [Paths -> Content]]
      /\ windows' \subseteq windows \cup {"stacked", "unlocked"}
  BY PutBackFacts DEF RestoreFile
<1>4. TypeOK'
  BY <1>2, <1>3 DEF TypeOK, RestoreFile, bounds
<1> QED BY <1>2, <1>4 DEF RestoreFile, RestoreTurn

\* The row of the file just put back.
LEMMA MarkRestoredMoves ==
  ASSUME TypeOK, NEW c \in Changesets, NEW p \in Paths, MarkRestored(c, p)
  PROVE  /\ TypeOK' /\ rb[c].pc = "mark" /\ RestoreTurn(c, p) /\ p \in rb[c].todo
         /\ RollsBack(c, "restore", rb[c].todo \ {p})
         /\ row'[c].status = row[c].status /\ row'[c].applied = row[c].applied \ {p}
         /\ \A d \in Changesets \ {c} : row'[d] = row[d]
<1>1. rb' = [rb EXCEPT ![c] = [pc |-> "restore", todo |-> rb[c].todo \ {p}]]
      /\ rb[c].todo \ {p} \in SUBSET Paths /\ row[c].status \in Status
  BY DEF MarkRestored, TypeOK, ChangeSet
<1>2. RollsBack(c, "restore", rb[c].todo \ {p})
      /\ rb' \in [Changesets -> [pc : {"idle", "queued", "restore", "mark"}, todo : SUBSET Paths]]
  BY <1>1, Rolling
<1>3. /\ row' \in [Changesets -> ChangeSet]
      /\ row'[c].status = row[c].status /\ row'[c].applied = row[c].applied \ {p}
      /\ \A d \in Changesets \ {c} : row'[d] = row[d]
  BY <1>1, RowFacts DEF MarkRestored
<1>4. TypeOK'
  BY <1>2, <1>3 DEF TypeOK, MarkRestored, remote, bounds
<1> QED BY <1>2, <1>3, <1>4 DEF MarkRestored, RestoreTurn

\* A failing restore ends the rollback.
LEMMA RestoreFailsMoves ==
  ASSUME TypeOK, NEW c \in Changesets, NEW p \in Paths, RestoreFails(c, p)
  PROVE  /\ TypeOK' /\ rb[c].pc = "restore" /\ RollsBack(c, "idle", {})
         /\ windows' = windows \cup {"partial"}
<1>1. rb' = [rb EXCEPT ![c] = [pc |-> "idle", todo |-> {}]] /\ {} \in SUBSET Paths
  BY DEF RestoreFails, NoRollback
<1>2. RollsBack(c, "idle", {})
      /\ rb' \in [Changesets -> [pc : {"idle", "queued", "restore", "mark"}, todo : SUBSET Paths]]
  BY <1>1, Rolling
<1>3. faults' \in 0..MaxFaults
  <2>1. faults' = faults \/ (faults < MaxFaults /\ faults' = faults + 1)
    BY DEF RestoreFails
  <2> QED BY <2>1, ChangeConstants DEF TypeOK
<1>4. TypeOK'
  BY <1>2, <1>3 DEF TypeOK, RestoreFails, remote
<1> QED BY <1>2, <1>4 DEF RestoreFails

\* The status follows when every file is back.
LEMMA EndRollbackMoves ==
  ASSUME TypeOK, NEW c \in Changesets, EndRollback(c)
  PROVE  /\ TypeOK' /\ rb[c].pc = "restore" /\ rb[c].todo = {} /\ RollsBack(c, "idle", {})
         /\ row'[c].applied = row[c].applied
         /\ \A d \in Changesets \ {c} : row'[d] = row[d]
         /\ \/ Standing(c) /\ row'[c].status = "rolled_back"
            \/ ~MayMove(c, "rolled_back") /\ row' = row
<1>1. rb' = [rb EXCEPT ![c] = [pc |-> "idle", todo |-> {}]] /\ {} \in SUBSET Paths
  BY DEF EndRollback, NoRollback
<1>2. RollsBack(c, "idle", {})
      /\ rb' \in [Changesets -> [pc : {"idle", "queued", "restore", "mark"}, todo : SUBSET Paths]]
  BY <1>1, Rolling
<1>3. /\ row' \in [Changesets -> ChangeSet] /\ row'[c].applied = row[c].applied
      /\ \A d \in Changesets \ {c} : row'[d] = row[d]
      /\ \/ Standing(c) /\ row'[c].status = "rolled_back"
         \/ ~MayMove(c, "rolled_back") /\ row' = row
  <2>1. CASE MayMove(c, "rolled_back")
    <3>1. row' = [row EXCEPT ![c].status = "rolled_back"] /\ "rolled_back" \in Status
      BY <2>1 DEF EndRollback, Status, Terminal
    <3>2. Standing(c)
      BY <2>1 DEF MayMove, Predecessors, Standing
    <3> QED BY <3>1, <3>2, StatusFacts
  <2>2. CASE ~MayMove(c, "rolled_back")
    BY <2>2 DEF EndRollback, TypeOK
  <2> QED BY <2>1, <2>2
<1>4. TypeOK'
  BY <1>2, <1>3 DEF TypeOK, EndRollback, remote, bounds
<1> QED BY <1>2, <1>3, <1>4 DEF EndRollback

\* An edit changes one file.
LEMMA EditMoves ==
  ASSUME TypeOK, NEW p \in Paths, Edit(p)
  PROVE  /\ TypeOK' /\ edits' /= 0 /\ disk'[p] = Edited
         /\ \A q \in Paths \ {p} : disk'[q] = disk[q]
<1>1. edits < MaxEdits /\ edits' = edits + 1 /\ edits \in Nat
  BY ChangeConstants DEF Edit, TypeOK
<1>2. edits' \in 0..MaxEdits /\ edits' /= 0
  BY <1>1, ChangeConstants
<1>3. disk' \in [Paths -> Content] /\ disk'[p] = Edited /\ \A q \in Paths \ {p} : disk'[q] = disk[q]
  BY ContentFacts DEF Edit, TypeOK
<1> QED BY <1>2, <1>3 DEF TypeOK, Edit

\* A death of the process ends what was under way and frees the locks.
LEMMA CrashMoves ==
  ASSUME TypeOK, Crash
  PROVE  /\ TypeOK' /\ windows' = windows \cup {"died"}
         /\ \A p \in Paths : locks'[p] = None
         /\ \A c \in Changesets :
              /\ ap'[c] = IF InFlight(c) THEN End(c, "died") ELSE ap[c]
              /\ rb'[c].todo = {} \/ rb'[c] = rb[c]
<1>1. \A c \in Changesets : End(c, "died") \in ApplyState
  BY EndFacts
<1>2. /\ ap' \in [Changesets -> ApplyState]
      /\ \A c \in Changesets : ap'[c] = IF InFlight(c) THEN End(c, "died") ELSE ap[c]
  BY <1>1 DEF Crash, TypeOK
<1>3. /\ rb' \in [Changesets -> [pc : {"idle", "queued", "restore", "mark"}, todo : SUBSET Paths]]
      /\ \A c \in Changesets : rb'[c].todo = {} \/ rb'[c] = rb[c]
  <2>1. NoRollback \in [pc : {"idle", "queued", "restore", "mark"}, todo : SUBSET Paths]
        /\ NoRollback.todo = {}
    BY DEF NoRollback
  <2>2. rb' = [c \in Changesets |-> IF rb[c].pc = "queued" THEN rb[c] ELSE NoRollback]
    BY DEF Crash
  <2> QED BY <2>1, <2>2 DEF TypeOK
<1>4. vf' \in [Changesets -> {"idle", "validated"}]
  BY DEF Crash
<1>5. faults' \in 0..MaxFaults
  <2>1. faults < MaxFaults /\ faults' = faults + 1
    BY DEF Crash
  <2> QED BY <2>1, ChangeConstants DEF TypeOK
<1>6. locks' \in [Paths -> Changesets \cup {None}] /\ \A p \in Paths : locks'[p] = None
  BY DEF Crash
<1>7. TypeOK'
  BY <1>2, <1>3, <1>4, <1>5, <1>6 DEF TypeOK, Crash, remote
<1> QED BY <1>2, <1>3, <1>6, <1>7 DEF Crash

-----------------------------------------------------------------------------
(* What a step leaves alone. *)

\* A step of c leaves what is known of the other applies.
LEMMA FilesStay ==
  ASSUME FilesKnown, NEW c \in Changesets, Others(c), FilesOf(c)'
  PROVE  FilesKnown'
<1>1. ASSUME NEW d \in Changesets \ {c} PROVE FilesOf(d)'
  <2>1. ap'[d] = ap[d] /\ FilesOf(d)
    BY DEF Others, FilesKnown
  <2> QED BY <2>1 DEF FilesOf
<1> QED BY <1>1 DEF FilesKnown

\* A step between the locking and the release changes no lock.
LEMMA LocksStay ==
  ASSUME LocksKnown, NEW c \in Changesets, UNCHANGED locks, Others(c),
         ap[c].pc \notin {"new", "lock", "end"}, ap'[c].pc \notin {"new", "lock", "end"}
  PROVE  LocksKnown'
<1>1. \A d \in Changesets : Held(d)' = Held(d)
  BY DEF Held, InFlight, Others
<1> QED BY <1>1 DEF LocksKnown

\* A step that touches neither files nor approvals keeps what was paid for.
LEMMA PaidStays ==
  ASSUME Paid, NEW c \in Changesets, UNCHANGED <<disk, backup, granted>>, Others(c),
         ap'[c].pc \in Renaming \cup {"return"} => Granted(c)
  PROVE  Paid'
  BY DEF Paid, Granted, Others

\* A step without a backup gives no early apply one.
LEMMA BackupsStay ==
  ASSUME NoBackupYet, NEW c \in Changesets, UNCHANGED backup, Others(c),
         \A p \in Paths : ap'[c].pc \in Early \/ (ap'[c].pc = "remote" /\ p \in ap'[c].todo) =>
           ap[c].pc \in Early \/ (ap[c].pc = "remote" /\ p \in ap[c].todo)
  PROVE  NoBackupYet'
  BY DEF NoBackupYet, Others

\* What the others have read and backed up stays.
LEMMA SeenStays ==
  ASSUME NEW c \in Changesets, Others(c)
  PROVE  \A d \in Changesets \ {c} : Seen(d)' = Seen(d) /\ Saved(d)' = Saved(d)
<1> SUFFICES ASSUME NEW d \in Changesets \ {c} PROVE Seen(d)' = Seen(d) /\ Saved(d)' = Saved(d)
  OBVIOUS
<1>1. ap'[d] = ap[d]
  BY DEF Others
<1>2. \A p : Turn(d, p)' = Turn(d, p)
  BY <1>1 DEF Turn
<1> QED BY <1>1, <1>2 DEF Seen, Saved

\* A step without a file write keeps what was read.
LEMMA ContentsStay ==
  ASSUME Undisturbed, NEW c \in Changesets, UNCHANGED <<disk, edits>>, windows \subseteq windows',
         Others(c), \A p \in Seen(c)' : p \in Seen(c) /\ ap'[c].read[p] = ap[c].read[p]
  PROVE  Undisturbed'
<1>1. \A d \in Changesets \ {c} : Seen(d)' = Seen(d) /\ ap'[d] = ap[d]
  BY SeenStays DEF Others
<1> QED BY <1>1 DEF Undisturbed

\* A step of c owes the journal's part of the invariant for c alone.
LEMMA AloneOthers ==
  ASSUME Alone, NEW c \in Changesets, windows \subseteq windows', Others(c),
         \A d \in Changesets \ {c} : row'[d] = row[d] /\ rb'[d] = rb[d] /\ vf'[d] = vf[d],
         Solo' /\ Solo /\ StatusKnown(c) /\ OneActor(c) /\ AppliedKnown(c) =>
           StatusKnown(c)' /\ OneActor(c)' /\ AppliedKnown(c)'
  PROVE  Alone'
<1> SUFFICES ASSUME Solo' PROVE \A d \in Changesets : StatusKnown(d)' /\ OneActor(d)' /\ AppliedKnown(d)'
  BY DEF Alone
<1>1. Solo
  BY DEF Solo
<1>2. ASSUME NEW d \in Changesets \ {c}
      PROVE  StatusKnown(d)' /\ OneActor(d)' /\ AppliedKnown(d)'
  <2>1. ap'[d] = ap[d] /\ row'[d] = row[d] /\ rb'[d] = rb[d] /\ vf'[d] = vf[d]
    BY DEF Others
  <2>2. StatusKnown(d) /\ OneActor(d) /\ AppliedKnown(d)
    BY <1>1 DEF Alone
  <2>3. StatusKnown(d)'
    BY <2>1, <2>2 DEF StatusKnown
  <2>4. OneActor(d)'
    BY <2>1, <2>2 DEF OneActor, Standing
  <2>5. AppliedKnown(d)'
    BY <2>1, <2>2 DEF AppliedKnown
  <2> QED BY <2>3, <2>4, <2>5
<1> QED BY <1>1, <1>2 DEF Alone

\* A step of c owes the temporary files of c alone.
LEMMA TempOthers ==
  ASSUME TempKnown, NEW c \in Changesets, windows \subseteq windows', Others(c),
         \A d \in Changesets \ {c} : temp'[d] = temp[d],
         windows' \cap {"untidy", "died"} = {} /\ ~ap'[c].uncertain
         /\ (~ap[c].uncertain =>
               /\ temp[c] \subseteq ap[c].written
               /\ ap[c].pc = "end" /\ ap[c].result \in {"failed", "rolled_back"} => temp[c] = {}) =>
           /\ temp'[c] \subseteq ap'[c].written
           /\ ap'[c].pc = "end" /\ ap'[c].result \in {"failed", "rolled_back"} => temp'[c] = {}
  PROVE  TempKnown'
<1> SUFFICES ASSUME windows' \cap {"untidy", "died"} = {}, NEW d \in Changesets, ~ap'[d].uncertain
             PROVE  /\ temp'[d] \subseteq ap'[d].written
                    /\ ap'[d].pc = "end" /\ ap'[d].result \in {"failed", "rolled_back"} => temp'[d] = {}
  BY DEF TempKnown
<1>1. windows \cap {"untidy", "died"} = {}
  OBVIOUS
<1>2. CASE d = c
  BY <1>1, <1>2 DEF TempKnown
<1>3. CASE d /= c
  BY <1>1, <1>3 DEF TempKnown, Others
<1> QED BY <1>2, <1>3

\* A step that neither replaces nor restores a file, nor makes a backup that stands.
LEMMA StackStays ==
  ASSUME BackupsKept, Stacking, UNCHANGED disk, windows \subseteq windows',
         \A d \in Changesets :
           /\ row[d].applied \subseteq row'[d].applied
           /\ ap[d].uncertain => ap'[d].uncertain
           /\ \A p \in Paths :
                /\ Over(d, p)' => /\ Over(d, p) /\ ap'[d].read[p] = ap[d].read[p]
                                   /\ backup'[d][p] = backup[d][p]
                /\ p \in Seen(d) /\ Over(d, p)' => p \in Seen(d)'
                /\ Restored(d, p)' <=> Restored(d, p)
                /\ ap[d].pc = "mark" /\ Turn(d, p) =>
                     (ap[d].pc = "mark" /\ Turn(d, p))' \/ p \in row'[d].applied
  PROVE  BackupsKept' /\ Stacking'
<1>1. \A d \in Changesets, p \in Paths : Over(d, p)' => Over(d, p)
  OBVIOUS
<1>2. \A d \in Changesets : LostBy(d) => LostBy(d)'
  BY DEF LostBy
<1>3. BackupsKept'
  BY <1>1 DEF BackupsKept
<1>4. Quiet' => Quiet
  BY DEF Quiet
<1>5. OnDisk => OnDisk'
  BY <1>2 DEF OnDisk
<1>6. BaseStands => BaseStands'
  BY <1>1, <1>2 DEF BaseStands
<1>7. BaseCovered => BaseCovered'
  BY <1>1 DEF BaseCovered
<1>8. OneOver => OneOver'
  BY <1>1 DEF OneOver
<1>9. RestoredGone => RestoredGone'
  BY <1>1 DEF RestoredGone
<1> QED BY <1>3, <1>4, <1>5, <1>6, <1>7, <1>8, <1>9 DEF Stacking

\* The others are as they were.
LEMMA OthersStand ==
  ASSUME NEW c \in Changesets, Others(c), NEW d \in Changesets \ {c}, row'[d] = row[d]
  PROVE  /\ ap'[d] = ap[d] /\ Saved(d)' = Saved(d) /\ Seen(d)' = Seen(d)
         /\ \A p : (Turn(d, p)' <=> Turn(d, p)) /\ (Over(d, p)' <=> Over(d, p))
<1>1. ap'[d] = ap[d]
  BY DEF Others
<1>2. Saved(d)' = Saved(d) /\ Seen(d)' = Seen(d)
  BY SeenStays
<1>3. \A p : Turn(d, p)' <=> Turn(d, p)
  BY <1>1 DEF Turn
<1> QED BY <1>1, <1>2, <1>3 DEF Over

\* Which file is being restored depends on the rollbacks only.
LEMMA RestoredStays ==
  ASSUME UNCHANGED rb
  PROVE  \A d \in Changesets, p \in Paths : Restored(d, p)' <=> Restored(d, p)
<1> SUFFICES ASSUME NEW d \in Changesets, NEW p \in Paths PROVE Restored(d, p)' <=> Restored(d, p)
  OBVIOUS
<1>1. rb'[d] = rb[d]
  OBVIOUS
<1> QED BY <1>1 DEF Restored, RestoreTurn, RequestOrder, Position

\* The same for a step of one apply.
LEMMA StackStaysFor ==
  ASSUME BackupsKept, Stacking, UNCHANGED <<disk, rb>>, windows \subseteq windows',
         NEW c \in Changesets, Others(c), \A d \in Changesets \ {c} : backup'[d] = backup[d],
         \A d \in Changesets \ {c} : row'[d] = row[d],
         row[c].applied \subseteq row'[c].applied,
         ap[c].uncertain => ap'[c].uncertain,
         \A p \in Paths :
           /\ Over(c, p)' => /\ Over(c, p) /\ ap'[c].read[p] = ap[c].read[p]
                              /\ backup'[c][p] = backup[c][p]
           /\ p \in Seen(c) /\ Over(c, p)' => p \in Seen(c)'
           /\ ap[c].pc = "mark" /\ Turn(c, p) =>
                (ap[c].pc = "mark" /\ Turn(c, p))' \/ p \in row'[c].applied
  PROVE  BackupsKept' /\ Stacking'
<1>1. \A d \in Changesets, p \in Paths : Restored(d, p)' <=> Restored(d, p)
  BY RestoredStays
<1>2. \A d \in Changesets \ {c} :
        /\ ap'[d] = ap[d] /\ Saved(d)' = Saved(d) /\ Seen(d)' = Seen(d)
        /\ \A p : (Turn(d, p)' <=> Turn(d, p)) /\ (Over(d, p)' <=> Over(d, p))
  BY OthersStand
<1> QED BY <1>1, <1>2, StackStays

-----------------------------------------------------------------------------
(* The invariant is kept: preparing. *)

\* The first step of apply.
LEMMA ApplyStarts ==
  ASSUME IInv, NEW c \in Changesets, Apply(c) \/ Unresolved(c)
  PROVE  IInv'
<1> USE DEF IInv, Advancing
<1>1. /\ ap[c].applied = {} /\ ap[c].todo \subseteq PathsOf(c) /\ ap[c].undone /\ ~ap[c].uncertain
      /\ ap[c].written = {} /\ ap[c].pc = "new"
  BY DEF FilesKnown, FilesOf, Preparing, Early, Apply, Unresolved
<1>2. /\ TypeOK' /\ Others(c)
      /\ ap'[c].applied = {} /\ ap'[c].undone /\ ~ap'[c].uncertain /\ ap'[c].written = {}
      /\ \/ ap'[c].pc = "lock" /\ ap'[c].todo = PathsOf(c) /\ ap'[c].result = "none"
         \/ ap'[c].pc = "end" /\ ap'[c].todo = ap[c].todo /\ ap'[c].result = "raised"
  BY <1>1, ApplyMoves, UnresolvedMoves DEF Ends
<1>3. UNCHANGED <<disk, backup, temp, row, locks, rb, vf, granted, grants, faults, edits, windows>>
  BY DEF Apply, Unresolved, remote, bounds
<1>4. row[c].applied = {} /\ rb[c].todo = {}
  BY <1>1 DEF RowsKnown
<1>5. FilesKnown'
  <2>1. FilesOf(c)'
    BY <1>1, <1>2 DEF FilesOf, Preparing, Early, Renaming
  <2> QED BY <2>1, <1>2, FilesStay
<1>6. RowsKnown'
  BY <1>1, <1>2, <1>3 DEF RowsKnown, Others
<1>7. LocksKnown'
  <2>1. \A d \in Changesets : Held(d)' = Held(d)
    BY <1>1, <1>2 DEF Held, InFlight, Others
  <2> QED BY <1>3, <2>1 DEF LocksKnown
<1>8. NoBackupYet'
  BY <1>1, <1>2, <1>3, BackupsStay DEF Early
<1>9. Paid'
  BY <1>2, <1>3, PaidStays DEF Renaming
<1>10. Seen(c)' = {} /\ Saved(c)' = {}
  BY <1>2 DEF Seen, Saved, Renaming
<1>11. Undisturbed'
  BY <1>2, <1>3, <1>10, ContentsStay
<1>12. Alone'
  <2>1. ASSUME StatusKnown(c) PROVE StatusKnown(c)'
    BY <1>1, <1>2, <1>3, <2>1 DEF StatusKnown, Renaming
  <2>2. ASSUME StatusKnown(c), OneActor(c) PROVE OneActor(c)'
    BY <1>1, <1>2, <1>3, <2>2 DEF OneActor
  <2>3. ASSUME StatusKnown(c), AppliedKnown(c) PROVE AppliedKnown(c)'
    BY <1>1, <1>2, <1>3, <1>4, <2>3 DEF AppliedKnown, StatusKnown
  <2> QED BY <1>2, <1>3, <2>1, <2>2, <2>3, AloneOthers
<1>13. TempKnown'
  BY <1>1, <1>2, <1>3, TempOthers
<1>14. BackupsKept' /\ Stacking'
  <2>1. \A p \in Paths : ~Over(c, p)'
    BY <1>3, <1>4, <1>10 DEF Over
  <2> QED BY <1>1, <1>2, <1>3, <1>4, <1>10, <2>1, StackStaysFor
<1> QED BY <1>2, <1>5, <1>6, <1>7, <1>8, <1>9, <1>11, <1>12, <1>13, <1>14

\* An exception before or between the renames: the journal and the locks are as
\* they were.
LEMMA RaiseKeeps ==
  ASSUME IInv, TypeOK', NEW c \in Changesets, NEW u \in BOOLEAN, Raises(c, u),
         ap[c].pc \in {"read", "journal", "remote", "temp", "check", "rename"},
         UNCHANGED <<row, locks, rb, vf>>, windows \subseteq windows'
  PROVE  /\ FilesKnown' /\ RowsKnown' /\ LocksKnown' /\ Alone'
         /\ Seen(c)' = {} /\ Saved(c)' = {}
         /\ Seen(c) \cap row[c].applied = {} /\ ~ap[c].uncertain
<1> USE DEF IInv, Advancing
<1>1. /\ ap[c].pc \in Preparing => ap[c].applied = {}
      /\ ap[c].pc = "rename" => ap[c].applied = PathsOf(c) \ ap[c].todo
      /\ ap[c].undone /\ ~ap[c].uncertain /\ ap[c].result = "none"
      /\ ap[c].todo \subseteq PathsOf(c) /\ ap[c].applied \subseteq PathsOf(c)
      /\ row[c].applied \subseteq ap[c].applied
  BY DEF FilesKnown, FilesOf, RowsKnown, Renaming
<1>2. /\ Others(c) /\ ap'[c].pc = "undo" /\ ap'[c].todo = ap[c].applied
      /\ ap'[c].uncertain = u /\ ap'[c].read = ap[c].read /\ ap'[c].written = ap[c].written
      /\ ap'[c].applied = ap[c].applied /\ ap'[c].undone /\ ap'[c].result = "none"
  BY <1>1 DEF Raises
<1>3. FilesKnown'
  <2>1. FilesOf(c)'
    BY <1>1, <1>2 DEF FilesOf, Preparing, Early, Renaming
  <2> QED BY <2>1, <1>2, FilesStay
<1>4. RowsKnown'
  BY <1>2 DEF RowsKnown, Others
<1>5. LocksKnown'
  BY <1>2, LocksStay
<1>6. Seen(c)' = {} /\ Saved(c)' = {}
  BY <1>2 DEF Seen, Saved, Renaming
<1>7. Seen(c) \cap row[c].applied = {}
  BY <1>1 DEF Seen, Preparing, Early
<1>8. Alone'
  <2>1. ASSUME StatusKnown(c) PROVE StatusKnown(c)'
    BY <1>1, <1>2, <2>1 DEF StatusKnown, Renaming, Preparing, Early
  <2>2. ASSUME OneActor(c) PROVE OneActor(c)'
    BY <1>2, <2>2 DEF OneActor, Standing
  <2>3. ASSUME AppliedKnown(c) PROVE AppliedKnown(c)'
    BY <1>1, <1>2, <2>3 DEF AppliedKnown
  <2> QED BY <1>2, <2>1, <2>2, <2>3, AloneOthers
<1> QED BY <1>1, <1>3, <1>4, <1>5, <1>6, <1>7, <1>8

\* An exception that changed nothing on the host.
LEMMA QuietRaise ==
  ASSUME IInv, TypeOK', NEW c \in Changesets, NEW u \in BOOLEAN, Raises(c, u),
         ap[c].pc \in {"read", "journal", "remote", "temp", "check", "rename"},
         UNCHANGED <<disk, backup, temp, row, locks, rb, vf, granted, edits, windows>>
  PROVE  IInv'
<1> USE DEF IInv, Advancing
<1>1. /\ FilesKnown' /\ RowsKnown' /\ LocksKnown' /\ Alone' /\ Seen(c)' = {} /\ Saved(c)' = {}
      /\ Seen(c) \cap row[c].applied = {} /\ ~ap[c].uncertain
  BY RaiseKeeps
<1>2. /\ Others(c) /\ ap'[c].pc = "undo" /\ ap'[c].read = ap[c].read /\ ap'[c].written = ap[c].written
  BY DEF Raises
<1>3. NoBackupYet' /\ Paid' /\ Undisturbed'
  BY <1>1, <1>2, BackupsStay, PaidStays, ContentsStay DEF Early, Renaming
<1>4. TempKnown'
  BY <1>1, <1>2, TempOthers
<1>5. BackupsKept' /\ Stacking'
  <2>1. \A p \in Paths : (p \in Seen(c) /\ Over(c, p)' => FALSE) /\ (Over(c, p)' => Over(c, p))
    BY <1>1 DEF Over
  <2>2. ap[c].pc /= "mark"
    OBVIOUS
  <2> QED BY <1>1, <1>2, <2>1, <2>2, StackStaysFor
<1> QED BY <1>1, <1>3, <1>4, <1>5

\* _lock_for, acquire.
LEMMA AcquireKeeps ==
  ASSUME IInv, NEW c \in Changesets, NEW p \in Paths, Acquire(c, p)
  PROVE  IInv'
<1> USE DEF IInv, Advancing
<1>1. /\ ap[c].applied = {} /\ ap[c].todo \subseteq PathsOf(c) /\ ap[c].undone /\ ~ap[c].uncertain
      /\ ap[c].result = "none" /\ ap[c].pc = "lock" /\ row[c].applied = {}
  BY DEF FilesKnown, FilesOf, RowsKnown, Preparing, Early, Acquire
<1>2. /\ TypeOK' /\ p \in ap[c].todo /\ locks[p] = None /\ locks' = [locks EXCEPT ![p] = c]
      /\ Others(c) /\ Alike(ap'[c], ap[c])
      /\ \/ ap[c].todo = {p} /\ ap'[c].pc = "read" /\ ap'[c].todo = PathsOf(c)
         \/ ap[c].todo /= {p} /\ ap'[c].pc = "lock" /\ ap'[c].todo = ap[c].todo \ {p}
  BY AcquireMoves DEF Moves
<1>3. UNCHANGED <<disk, backup, temp, row, rb, vf, granted, grants, faults, edits, windows>>
  BY DEF Acquire, remote, bounds
<1>4. FilesKnown'
  <2>1. FilesOf(c)'
    BY <1>1, <1>2 DEF FilesOf, Alike, Preparing, Early, Renaming
  <2> QED BY <2>1, <1>2, FilesStay
<1>5. RowsKnown'
  BY <1>2, <1>3 DEF RowsKnown, Others, Alike
<1>6. LocksKnown'
  <2>1. Held(c) = PathsOf(c) \ ap[c].todo /\ Held(c)' = (PathsOf(c) \ ap[c].todo) \cup {p}
    BY <1>1, <1>2 DEF Held, InFlight
  <2>2. \A d \in Changesets \ {c} : Held(d)' = Held(d)
    BY <1>2 DEF Held, InFlight, Others
  <2>3. \A d \in Changesets : p \notin Held(d)
    BY <1>2, ContentFacts DEF LocksKnown
  <2>4. locks'[p] = c /\ \A q \in Paths \ {p} : locks'[q] = locks[q]
    BY <1>2 DEF TypeOK
  <2> QED BY <2>1, <2>2, <2>3, <2>4 DEF LocksKnown
<1>7. NoBackupYet'
  BY <1>1, <1>2, <1>3, BackupsStay DEF Early
<1>8. Paid'
  BY <1>2, <1>3, PaidStays DEF Renaming
<1>9. Seen(c)' = {} /\ Saved(c)' = {}
  BY <1>1, <1>2 DEF Seen, Saved, Renaming
<1>10. Undisturbed'
  BY <1>2, <1>3, <1>9, ContentsStay
<1>11. Alone'
  <2>1. ASSUME StatusKnown(c) PROVE StatusKnown(c)'
    BY <1>1, <1>2, <1>3, <2>1 DEF StatusKnown, Renaming
  <2>2. ASSUME OneActor(c) PROVE OneActor(c)'
    BY <1>1, <1>2, <1>3, <2>2 DEF OneActor
  <2>3. ASSUME AppliedKnown(c) PROVE AppliedKnown(c)'
    BY <1>1, <1>2, <1>3, <2>3 DEF AppliedKnown, Alike
  <2> QED BY <1>2, <1>3, <2>1, <2>2, <2>3, AloneOthers
<1>12. TempKnown'
  BY <1>1, <1>2, <1>3, TempOthers DEF Alike
<1>13. BackupsKept' /\ Stacking'
  <2>1. \A q \in Paths : ~Over(c, q)'
    BY <1>1, <1>3, <1>9 DEF Over
  <2> QED BY <1>1, <1>2, <1>3, <1>9, <2>1, StackStaysFor
<1> QED BY <1>2, <1>4, <1>5, <1>6, <1>7, <1>8, <1>10, <1>11, <1>12, <1>13

\* Steps 1-2 of apply.
LEMMA ReadKeeps ==
  ASSUME IInv, NEW c \in Changesets, NEW p \in Paths, Read(c, p)
  PROVE  IInv'
<1> USE DEF IInv, Advancing
<1>1. /\ ap[c].applied = {} /\ ap[c].todo \subseteq PathsOf(c) /\ ap[c].undone /\ ~ap[c].uncertain
      /\ ap[c].result = "none" /\ ap[c].pc = "read" /\ row[c].applied = {}
  BY DEF FilesKnown, FilesOf, RowsKnown, Preparing, Early, Read
<1>2. UNCHANGED <<disk, backup, temp, row, locks, rb, vf, granted, grants, faults, edits, windows>>
  BY DEF Read, remote, bounds
<1>3. TypeOK' /\ p \in ap[c].todo
  BY ReadMoves
<1>4. CASE Raises(c, FALSE)
  BY <1>1, <1>2, <1>3, <1>4, QuietRaise
<1>5. CASE /\ Others(c)
           /\ ap'[c].applied = {} /\ ap'[c].written = ap[c].written
           /\ ap'[c].undone /\ ~ap'[c].uncertain /\ ap'[c].result = "none"
           /\ ap'[c].read[p] = disk[p]
           /\ \A q \in Paths \ {p} : ap'[c].read[q] = ap[c].read[q]
           /\ \/ ap[c].todo = {p} /\ ap'[c].pc = "journal" /\ ap'[c].todo = {}
              \/ ap[c].todo /= {p} /\ ap'[c].pc = "read" /\ ap'[c].todo = ap[c].todo \ {p}
  <2>1. FilesKnown'
    <3>1. FilesOf(c)'
      BY <1>1, <1>5 DEF FilesOf, Preparing, Early, Renaming
    <3> QED BY <3>1, <1>5, FilesStay
  <2>2. RowsKnown'
    BY <1>1, <1>2, <1>5 DEF RowsKnown, Others
  <2>3. LocksKnown'
    BY <1>1, <1>2, <1>5, LocksStay
  <2>4. NoBackupYet'
    BY <1>1, <1>2, <1>5, BackupsStay DEF Early
  <2>5. Paid'
    BY <1>2, <1>5, PaidStays DEF Renaming
  <2>6. Seen(c)' = Seen(c) \cup {p} /\ Saved(c)' = {}
    BY <1>1, <1>3, <1>5 DEF Seen, Saved, Renaming
  <2>7. Undisturbed'
    <3>1. \A d \in Changesets \ {c} : Seen(d)' = Seen(d) /\ ap'[d] = ap[d]
      BY <1>5, SeenStays DEF Others
    <3>2. Seen(c) \subseteq PathsOf(c) /\ PathsOf(c) \in SUBSET Paths
      BY PathsKnown DEF Seen
    <3> QED BY <1>2, <1>5, <2>6, <3>1, <3>2 DEF Undisturbed
  <2>8. Alone'
    <3>1. ASSUME StatusKnown(c) PROVE StatusKnown(c)'
      BY <1>1, <1>2, <1>5, <3>1 DEF StatusKnown, Renaming
    <3>2. ASSUME OneActor(c) PROVE OneActor(c)'
      BY <1>1, <1>2, <1>5, <3>2 DEF OneActor
    <3>3. ASSUME AppliedKnown(c) PROVE AppliedKnown(c)'
      BY <1>1, <1>2, <1>5, <3>3 DEF AppliedKnown
    <3> QED BY <1>2, <1>5, <3>1, <3>2, <3>3, AloneOthers
  <2>9. TempKnown'
    BY <1>1, <1>2, <1>5, TempOthers
  <2>10. BackupsKept' /\ Stacking'
    <3>1. \A q \in Paths : ~Over(c, q)'
      BY <1>1, <1>2, <2>6 DEF Over
    <3> QED BY <1>1, <1>2, <1>5, <2>6, <3>1, StackStaysFor
  <2> QED BY <1>3, <2>1, <2>2, <2>3, <2>4, <2>5, <2>7, <2>8, <2>9, <2>10
<1> QED BY <1>1, <1>4, <1>5, ReadMoves

\* An apply that has read its files and prepares them.
LEMMA Prepares ==
  ASSUME IInv, TypeOK', NEW c \in Changesets, Others(c),
         ap[c].pc \in {"journal", "local", "remote", "temp"},
         ap'[c].pc \in {"local", "remote", "temp", "check"},
         ap'[c].todo \subseteq PathsOf(c), ap'[c].applied = ap[c].applied,
         ap'[c].read = ap[c].read, ap'[c].undone = ap[c].undone,
         ap'[c].uncertain = ap[c].uncertain, ap'[c].result = ap[c].result,
         UNCHANGED <<disk, locks, rb, vf, edits, windows>>,
         row'[c].applied = row[c].applied, \A d \in Changesets \ {c} : row'[d] = row[d],
         Solo /\ StatusKnown(c) => StatusKnown(c)'
  PROVE  /\ FilesKnown' /\ RowsKnown' /\ LocksKnown' /\ Undisturbed' /\ Alone'
         /\ row[c].applied = {} /\ Seen(c)' = PathsOf(c) /\ Seen(c) = PathsOf(c)
         /\ ~ap[c].uncertain /\ ap[c].result = "none"
<1> USE DEF IInv, Advancing
<1>1. /\ ap[c].applied = {} /\ ap[c].undone /\ ~ap[c].uncertain
      /\ ap[c].result = "none" /\ row[c].applied = {}
  BY DEF FilesKnown, FilesOf, RowsKnown, Preparing, Early
<1>2. FilesKnown'
  <2>1. FilesOf(c)'
    BY <1>1 DEF FilesOf, Preparing, Early, Renaming
  <2> QED BY <2>1, FilesStay
<1>3. RowsKnown'
  BY DEF RowsKnown, Others
<1>4. LocksKnown'
  BY LocksStay
<1>5. Seen(c)' = PathsOf(c) /\ Seen(c) = PathsOf(c)
  BY DEF Seen
<1>6. Undisturbed'
  BY <1>5, ContentsStay
<1>7. Alone'
  <2>1. ASSUME OneActor(c) PROVE OneActor(c)'
    BY <2>1 DEF OneActor, Standing
  <2>2. ASSUME StatusKnown(c)', AppliedKnown(c) PROVE AppliedKnown(c)'
    BY <1>1, <2>2 DEF AppliedKnown, StatusKnown
  <2> QED BY <2>1, <2>2, AloneOthers
<1> QED BY <1>1, <1>2, <1>3, <1>4, <1>5, <1>6, <1>7

\* Steps 3-4 of apply.
LEMMA JournalKeeps ==
  ASSUME IInv, NEW c \in Changesets, Journal(c)
  PROVE  IInv'
<1> USE DEF IInv, Advancing
<1>1. UNCHANGED <<disk, backup, temp, locks, rb, vf, granted, grants, faults, edits, windows>>
  BY DEF Journal, remote, bounds
<1>2. TypeOK' /\ ap[c].pc = "journal"
  BY JournalMoves
<1>3. CASE Raises(c, FALSE) /\ row' = row
  BY <1>1, <1>2, <1>3, QuietRaise
<1>4. CASE /\ Others(c) /\ Alike(ap'[c], ap[c]) /\ ap'[c].pc = "local" /\ ap'[c].todo = ap[c].todo
           /\ row'[c].status = "draft" /\ row'[c].applied = row[c].applied
           /\ \A d \in Changesets \ {c} : row'[d] = row[d]
  <2>1. StatusKnown(c)'
    BY <1>4 DEF StatusKnown, Renaming
  <2>2. /\ FilesKnown' /\ RowsKnown' /\ LocksKnown' /\ Undisturbed' /\ Alone'
        /\ row[c].applied = {} /\ Seen(c)' = PathsOf(c) /\ ~ap[c].uncertain
    <3>1. ap[c].todo \subseteq PathsOf(c)
      BY DEF FilesKnown, FilesOf
    <3> QED BY <1>1, <1>2, <1>4, <2>1, <3>1, Prepares DEF Alike
  <2>3. NoBackupYet'
    BY <1>1, <1>2, <1>4, BackupsStay DEF Early
  <2>4. Paid'
    BY <1>1, <1>4, PaidStays DEF Renaming
  <2>5. TempKnown'
    BY <1>1, <1>2, <1>4, TempOthers DEF Alike
  <2>6. BackupsKept' /\ Stacking'
    <3>1. \A p \in Paths : ~Over(c, p)'
      BY <1>4, <2>2 DEF Over, Saved, Renaming
    <3>2. ap[c].pc /= "mark"
      BY <1>2
    <3> QED BY <1>1, <1>4, <2>2, <3>1, <3>2, StackStaysFor
  <2> QED BY <1>2, <2>2, <2>3, <2>4, <2>5, <2>6
<1> QED BY <1>3, <1>4, JournalMoves DEF Moves

\* Step 5 of apply.
LEMMA BackUpLocallyKeeps ==
  ASSUME IInv, NEW c \in Changesets, BackUpLocally(c)
  PROVE  IInv'
<1> USE DEF IInv, Advancing
<1>1. UNCHANGED <<disk, backup, temp, locks, rb, vf, granted, grants, faults, edits, windows>>
  BY DEF BackUpLocally, remote, bounds
<1>2. /\ TypeOK' /\ ap[c].pc = "local" /\ Others(c) /\ Alike(ap'[c], ap[c])
      /\ ap'[c].pc = "remote" /\ ap'[c].todo = PathsOf(c)
      /\ row'[c].status = "locally_backed_up" /\ row'[c].applied = row[c].applied
      /\ \A d \in Changesets \ {c} : row'[d] = row[d]
  BY BackUpLocallyMoves DEF Moves
<1>3. StatusKnown(c)'
  BY <1>2 DEF StatusKnown, Renaming
<1>4. /\ FilesKnown' /\ RowsKnown' /\ LocksKnown' /\ Undisturbed' /\ Alone'
      /\ row[c].applied = {} /\ Seen(c)' = PathsOf(c) /\ ~ap[c].uncertain
  BY <1>1, <1>2, <1>3, Prepares DEF Alike
<1>5. NoBackupYet'
  BY <1>1, <1>2, BackupsStay DEF Early
<1>6. Paid'
  BY <1>1, <1>2, PaidStays DEF Renaming
<1>7. TempKnown'
  BY <1>1, <1>2, TempOthers DEF Alike
<1>8. BackupsKept' /\ Stacking'
  <2>1. \A p \in Paths : ~Over(c, p)'
    BY <1>2, <1>4 DEF Over, Saved, Renaming
  <2>2. ap[c].pc /= "mark"
    BY <1>2
  <2> QED BY <1>1, <1>2, <1>4, <2>1, <2>2, StackStaysFor
<1> QED BY <1>2, <1>4, <1>5, <1>6, <1>7, <1>8

\* Step 7 of apply.
LEMMA WriteTempKeeps ==
  ASSUME IInv, NEW c \in Changesets, NEW p \in Paths, WriteTemp(c, p)
  PROVE  IInv'
<1> USE DEF IInv, Advancing
<1>1. UNCHANGED <<disk, backup, row, locks, rb, vf, granted, grants, faults, edits, windows>>
  BY DEF WriteTemp, bounds
<1>2. /\ TypeOK' /\ ap[c].pc = "temp" /\ p \in ap[c].todo
      /\ temp'[c] = temp[c] \cup {p} /\ \A d \in Changesets \ {c} : temp'[d] = temp[d]
  BY WriteTempMoves
<1>3. /\ Others(c)
      /\ ap'[c].applied = ap[c].applied /\ ap'[c].written = ap[c].written \cup {p}
      /\ ap'[c].undone = ap[c].undone /\ ap'[c].uncertain = ap[c].uncertain
      /\ ap'[c].result = ap[c].result /\ ap'[c].read = ap[c].read
      /\ ap'[c].pc \in {"temp", "check"} /\ ap'[c].todo \subseteq ap[c].todo
  BY WriteTempMoves
<1>4. ASSUME StatusKnown(c) PROVE StatusKnown(c)'
  BY <1>1, <1>2, <1>3, <1>4 DEF StatusKnown, Renaming
<1>5. /\ FilesKnown' /\ RowsKnown' /\ LocksKnown' /\ Undisturbed' /\ Alone'
      /\ row[c].applied = {} /\ Seen(c)' = PathsOf(c) /\ ~ap[c].uncertain /\ ap[c].result = "none"
  <2>1. ap'[c].todo \subseteq PathsOf(c)
    BY <1>3 DEF FilesKnown, FilesOf
  <2> QED BY <1>1, <1>2, <1>3, <1>4, <2>1, Prepares
<1>6. NoBackupYet'
  BY <1>1, <1>2, <1>3, BackupsStay DEF Early
<1>7. Paid'
  BY <1>1, <1>3, PaidStays DEF Renaming
<1>8. TempKnown'
  BY <1>1, <1>2, <1>3, <1>5, TempOthers
<1>9. BackupsKept' /\ Stacking'
  <2>1. \A q \in Paths : Over(c, q)' <=> Over(c, q)
    <3>1. Saved(c)' = PathsOf(c) /\ Saved(c) = PathsOf(c)
      BY <1>2, <1>3 DEF Saved, Renaming
    <3> QED BY <1>1, <3>1 DEF Over
  <2>2. ap[c].pc /= "mark" /\ Seen(c) \subseteq PathsOf(c)
    BY <1>2 DEF Seen
  <2> QED BY <1>1, <1>3, <1>5, <2>1, <2>2, StackStaysFor
<1> QED BY <1>2, <1>5, <1>6, <1>7, <1>8, <1>9

\* Steps 8-9 of apply, and the approval.
LEMMA CheckAndConsumeKeeps ==
  ASSUME IInv, NEW c \in Changesets, CheckAndConsume(c)
  PROVE  IInv'
<1> USE DEF IInv, Advancing
<1>1. UNCHANGED <<disk, backup, temp, row, locks, rb, vf, grants, faults, edits, windows>>
  BY DEF CheckAndConsume, remote, bounds
<1>2. TypeOK' /\ ap[c].pc = "check"
  BY CheckAndConsumeMoves
<1>3. CASE Raises(c, FALSE) /\ granted' = granted
  BY <1>1, <1>2, <1>3, QuietRaise
<1>4. CASE /\ Others(c) /\ Alike(ap'[c], ap[c])
           /\ ap'[c].pc = "rename" /\ ap'[c].todo = PathsOf(c)
           /\ \A d \in Changesets \ {c} : granted'[<<d, "change">>] = granted[<<d, "change">>]
           /\ \/ ~InterruptsService(c) /\ granted' = granted
              \/ /\ granted[<<c, "change">>] /= 0
                 /\ granted'[<<c, "change">>] = granted[<<c, "change">>] - 1
  <2>1. /\ ap[c].applied = {} /\ ap[c].undone /\ ~ap[c].uncertain
        /\ ap[c].result = "none" /\ row[c].applied = {}
    BY <1>2 DEF FilesKnown, FilesOf, RowsKnown, Preparing, Early
  <2>2. FilesKnown'
    <3>1. FilesOf(c)'
      BY <1>4, <2>1 DEF FilesOf, Alike, Preparing, Early, Renaming
    <3> QED BY <1>4, <3>1, FilesStay
  <2>3. RowsKnown'
    BY <1>1, <1>4 DEF RowsKnown, Others, Alike
  <2>4. LocksKnown'
    BY <1>1, <1>2, <1>4, LocksStay
  <2>5. NoBackupYet'
    BY <1>1, <1>2, <1>4, BackupsStay DEF Early
  <2>6. Paid'
    <3>1. granted[<<c, "change">>] \in {0, 1}
      BY DEF Paid
    <3>2. granted'[<<c, "change">>] \in {0, 1} /\ Granted(c)' /\ (Granted(c) => Granted(c)')
      BY <1>4, <3>1 DEF Granted
    <3>3. \A d \in Changesets \ {c} : Granted(d)' <=> Granted(d)
      BY <1>4 DEF Granted
    <3>4. \A d \in Changesets : granted'[<<d, "change">>] \in {0, 1}
      BY <1>4, <3>2 DEF Paid
    <3> HIDE DEF Granted
    <3> QED BY <1>1, <1>4, <3>2, <3>3, <3>4 DEF Paid, Others
  <2>7. Seen(c)' = PathsOf(c) /\ Seen(c) = PathsOf(c) /\ Saved(c)' = PathsOf(c) /\ Saved(c) = PathsOf(c)
    BY <1>2, <1>4 DEF Seen, Saved, Renaming
  <2>8. Undisturbed'
    BY <1>1, <1>4, <2>7, ContentsStay DEF Alike
  <2>9. Alone'
    <3>1. ASSUME StatusKnown(c) PROVE StatusKnown(c)'
      BY <1>1, <1>2, <1>4, <2>1, <3>1 DEF StatusKnown, Alike, Renaming
    <3>2. ASSUME OneActor(c) PROVE OneActor(c)'
      BY <1>1, <1>2, <1>4, <3>2 DEF OneActor
    <3>3. ASSUME AppliedKnown(c) PROVE AppliedKnown(c)'
      BY <1>1, <1>2, <1>4, <3>3 DEF AppliedKnown, Alike
    <3> QED BY <1>1, <1>4, <3>1, <3>2, <3>3, AloneOthers
  <2>10. TempKnown'
    BY <1>1, <1>2, <1>4, TempOthers DEF Alike
  <2>11. BackupsKept' /\ Stacking'
    <3>1. \A p \in Paths : Over(c, p)' <=> Over(c, p)
      BY <1>1, <2>7 DEF Over
    <3>2. ap[c].pc /= "mark"
      BY <1>2
    <3> QED BY <1>1, <1>4, <2>1, <2>7, <3>1, <3>2, StackStaysFor DEF Alike
  <2> QED BY <1>2, <2>2, <2>3, <2>4, <2>5, <2>6, <2>8, <2>9, <2>10, <2>11
<1>5. \A d \in Changesets \ {c} : granted'[<<d, "change">>] = granted[<<d, "change">>]
  BY CheckAndConsumeMoves
<1> QED BY <1>3, <1>4, <1>5, CheckAndConsumeMoves DEF Moves

\* Two applies never hold one path, and hold what they have read or backed up.
LEMMA Exclusive ==
  ASSUME Advancing, NEW c \in Changesets, NEW d \in Changesets, NEW p \in Paths,
         p \in Held(c), p \in Held(d)
  PROVE  c = d
  BY DEF Advancing, LocksKnown

\* What was read or backed up is locked.
LEMMA HeldFacts ==
  ASSUME Advancing, NEW c \in Changesets
  PROVE  /\ Seen(c) \subseteq Held(c) /\ Saved(c) \subseteq Held(c)
         /\ ap[c].pc \notin {"new", "lock", "end"} => Held(c) = PathsOf(c)
         /\ ap[c].pc \in {"undo", "return", "new", "end"} => Seen(c) = {} /\ Saved(c) = {}
         /\ \A p : ap[c].pc = "mark" /\ Turn(c, p) => p \in Held(c)
<1>1. ap[c].todo \subseteq PathsOf(c)
  BY DEF Advancing, FilesKnown, FilesOf
<1>2. \A p : Turn(c, p) => p \in ap[c].todo
  BY DEF Turn
<1> QED BY <1>1, <1>2 DEF Seen, Saved, Held, InFlight, Renaming

\* Step 6 of apply: the content under c is nobody else's base.
LEMMA BackUpRemotelyKeeps ==
  ASSUME IInv, NEW c \in Changesets, NEW p \in Paths, BackUpRemotely(c, p)
  PROVE  IInv'
<1> USE DEF IInv, Advancing
<1>1. UNCHANGED <<disk, temp, locks, rb, vf, granted, grants, faults, edits, windows>>
  BY DEF BackUpRemotely, bounds
<1>2. /\ TypeOK' /\ ap[c].pc = "remote" /\ p \in ap[c].todo /\ p \in PathsOf(c)
      /\ \A d \in Changesets, q \in Paths : d /= c \/ q /= p => backup'[d][q] = backup[d][q]
      /\ \A d \in Changesets \ {c} : row'[d] = row[d]
      /\ row'[c].applied = row[c].applied
  BY BackUpRemotelyMoves DEF FilesKnown, FilesOf
<1>3. backup[c][p] = Absent
  BY <1>2 DEF NoBackupYet
<1>4. backup'[c][p] \in {Absent, disk[p]}
  BY <1>3, BackUpRemotelyMoves
<1>5. /\ ap[c].applied = {} /\ ap[c].undone /\ ~ap[c].uncertain
      /\ ap[c].result = "none" /\ row[c].applied = {} /\ row'[c].applied = {}
  BY <1>2 DEF FilesKnown, FilesOf, RowsKnown, Preparing, Early
<1>6. /\ Others(c) /\ ap'[c].read = ap[c].read /\ ap'[c].pc \in {"undo", "remote", "temp"}
      /\ ap'[c].pc = "remote" => ap'[c].todo = ap[c].todo \ {p}
      /\ ap'[c].written = ap[c].written
  BY BackUpRemotelyMoves DEF Raises, Moves, Alike
<1>7. NoBackupYet'
  BY <1>2, <1>6 DEF NoBackupYet, Others, Early
<1>8. Paid'
  <2>1. \A d \in Changesets : Granted(d)' <=> Granted(d)
    BY <1>1 DEF Granted
  <2>2. \A q \in Paths, d \in Changesets :
          (\E e \in Changesets : backup'[e][q] = d) => disk[q] = d \/ \E e \in Changesets : backup[e][q] = d
    BY <1>2, <1>4, ContentFacts
  <2>3. \A d \in Changesets : ap'[d].pc \in Renaming \cup {"return"} => ap[d].pc \in Renaming \cup {"return"}
    BY <1>6 DEF Others, Renaming
  <2> HIDE DEF Granted
  <2> QED BY <1>1, <2>1, <2>2, <2>3 DEF Paid
<1>9. TempKnown'
  BY <1>1, <1>2, <1>5, <1>6, TempOthers
<1>10. \A d \in Changesets \ {c} : backup'[d] = backup[d]
  <2>1. backup \in [Changesets -> [Paths -> Content]] /\ backup' \in [Changesets -> [Paths -> Content]]
    BY <1>2 DEF TypeOK
  <2> QED BY <1>2, <2>1
<1>11. CASE Raises(c, FALSE) /\ row' = row
  <2>1. FilesKnown' /\ RowsKnown' /\ LocksKnown' /\ Alone' /\ Seen(c)' = {} /\ Saved(c)' = {}
    BY <1>1, <1>2, <1>11, RaiseKeeps
  <2>2. Undisturbed'
    BY <1>1, <1>6, <2>1, ContentsStay
  <2>3. \A q \in Paths : ~Over(c, q)'
    BY <1>5, <2>1 DEF Over
  <2>4. BackupsKept' /\ Stacking'
    BY <1>1, <1>2, <1>5, <1>6, <1>10, <2>3, StackStaysFor
  <2> QED BY <1>2, <1>7, <1>8, <1>9, <2>1, <2>2, <2>4
<1>12. CASE /\ Alike(ap'[c], ap[c])
            /\ ap[c].read[p] = Absent \/ disk[p] = ap[c].read[p]
            /\ backup'[c][p] = IF ap[c].read[p] = Absent THEN backup[c][p] ELSE disk[p]
            /\ \/ /\ ap[c].todo = {p} /\ ap'[c].pc = "temp" /\ ap'[c].todo = PathsOf(c)
                  /\ row'[c].status = "remotely_backed_up"
               \/ /\ ap[c].todo /= {p} /\ ap'[c].pc = "remote" /\ ap'[c].todo = ap[c].todo \ {p}
                  /\ row' = row
  <2>1. ASSUME StatusKnown(c) PROVE StatusKnown(c)'
    BY <1>2, <1>12, <2>1 DEF StatusKnown, Renaming
  <2>2. /\ FilesKnown' /\ RowsKnown' /\ LocksKnown' /\ Undisturbed' /\ Alone'
        /\ Seen(c)' = PathsOf(c) /\ Seen(c) = PathsOf(c)
    <3>1. ap[c].todo \subseteq PathsOf(c) /\ ap'[c].todo \subseteq PathsOf(c)
      BY <1>12 DEF FilesKnown, FilesOf
    <3> QED BY <1>1, <1>2, <1>6, <1>12, <2>1, <3>1, Prepares DEF Alike
  <2>3. Saved(c)' = Saved(c) \cup {p} /\ ~Over(c, p)
    BY <1>2, <1>5, <1>12 DEF Saved, Over, Renaming
  <2>4. \A q \in Paths : Over(c, q)' <=> Over(c, q) \/ q = p
    BY <1>5, <2>3 DEF Over
  <2>5. \A d \in Changesets \ {c} :
          /\ ap'[d] = ap[d] /\ Saved(d)' = Saved(d) /\ Seen(d)' = Seen(d)
          /\ \A q : (Turn(d, q)' <=> Turn(d, q)) /\ (Over(d, q)' <=> Over(d, q))
    BY <1>2, <1>6, OthersStand
  <2>6. \A d \in Changesets, q \in Paths : Restored(d, q)' <=> Restored(d, q)
    BY <1>1, RestoredStays
  <2>7. BackupsKept'
    BY <1>1, <1>2, <1>3, <1>6, <1>12, <2>4, <2>5, <2>6 DEF BackupsKept
  <2>8. ASSUME Quiet, NEW d \in Changesets, backup'[c][p] = d
        PROVE  disk[p] = d /\ (p \in row[d].applied \/ LostBy(d))
    <3>1. disk[p] = d
      BY <1>3, <1>12, <2>8, ContentFacts
    <3>2. ~(ap[d].pc = "mark" /\ Turn(d, p))
      BY <1>2, HeldFacts, Exclusive
    <3> QED BY <2>8, <3>1, <3>2 DEF Stacking, OnDisk
  <2>9. ASSUME Quiet, NEW d \in Changesets, backup'[c][p] = d, NEW e \in Changesets,
               Over(e, p), backup[e][p] = d
        PROVE  e = c
    <3>1. p \in Seen(e)
      BY <2>8, <2>9 DEF Stacking, BaseCovered
    <3> QED BY <1>2, <3>1, HeldFacts, Exclusive
  <2>10. Stacking'
    <3> SUFFICES ASSUME Quiet PROVE OnDisk' /\ BaseStands' /\ BaseCovered' /\ OneOver' /\ RestoredGone'
      BY <1>1 DEF Stacking, Quiet
    <3>1. \A d \in Changesets : /\ row'[d].applied = row[d].applied /\ (LostBy(d) <=> LostBy(d)')
                                /\ (ap[d].pc = "mark" <=> ap'[d].pc = "mark")
      BY <1>1, <1>2, <1>6, <1>12, <2>5 DEF LostBy, Alike
    <3>2. OnDisk'
      BY <1>1, <1>2, <2>5, <3>1 DEF Stacking, OnDisk
    <3>3. BaseStands'
      BY <1>2, <2>4, <2>5, <2>8, <3>1 DEF Stacking, BaseStands
    <3>4. BaseCovered'
      BY <1>1, <1>2, <2>2, <2>4, <2>5, <2>8 DEF Stacking, BaseCovered
    <3>5. OneOver'
      BY <1>2, <2>4, <2>5, <2>9 DEF Stacking, OneOver
    <3>6. RestoredGone'
      BY <1>1, <1>2, <2>4, <2>5, <2>6, <2>8 DEF Stacking, RestoredGone
    <3> QED BY <3>2, <3>3, <3>4, <3>5, <3>6
  <2> QED BY <1>2, <1>7, <1>8, <1>9, <2>2, <2>7, <2>10
<1> QED BY ZenonT(40), <1>11, <1>12, BackUpRemotelyMoves DEF Moves

-----------------------------------------------------------------------------
(* The invariant is kept: renaming. *)

\* File p is replaced by c, which holds it: nobody else has read it, nobody has
\* backed up the new content.
LEMMA Replacing ==
  ASSUME IInv, NEW c \in Changesets, NEW p \in Paths,
         ap[c].pc = "rename", p \in ap[c].todo
  PROVE  /\ \A d \in Changesets \ {c} : p \notin Seen(d) /\ ~(ap[d].pc = "mark" /\ Turn(d, p))
         /\ Quiet => \A d \in Changesets : Over(d, p) => backup[d][p] /= c
         /\ ~Restored(c, p) /\ p \in PathsOf(c) /\ Granted(c) /\ p \notin row[c].applied
<1> USE DEF IInv, Advancing
<1>1. ap[c].applied = PathsOf(c) \ ap[c].todo /\ ~ap[c].uncertain /\ p \in PathsOf(c)
  BY DEF FilesKnown, FilesOf, Renaming
<1>2. p \notin row[c].applied /\ p \notin rb[c].todo
  BY <1>1 DEF RowsKnown
<1>3. \A d \in Changesets \ {c} : p \notin Seen(d) /\ ~(ap[d].pc = "mark" /\ Turn(d, p))
  BY <1>1, HeldFacts, Exclusive
<1>4. Quiet => \A d \in Changesets : Over(d, p) => backup[d][p] /= c
  BY <1>1, <1>2 DEF Stacking, BaseStands, LostBy
<1>5. Granted(c)
  BY DEF Paid, Renaming
<1> QED BY <1>1, <1>2, <1>3, <1>4, <1>5 DEF Restored, RestoreTurn

\* Step 10 of apply: the content that was read is what c now covers.
LEMMA RenameKeeps ==
  ASSUME IInv, NEW c \in Changesets, NEW p \in Paths, Rename(c, p)
  PROVE  IInv'
<1> USE DEF IInv, Advancing
<1>1. UNCHANGED <<backup, row, locks, rb, vf, granted, grants, faults, edits, windows>>
  BY DEF Rename, bounds
<1>2. /\ TypeOK' /\ ap[c].pc = "rename" /\ p \in ap[c].todo
      /\ Others(c) /\ Alike(ap'[c], ap[c]) /\ ap'[c].pc = "mark" /\ ap'[c].todo = ap[c].todo
      /\ disk'[p] = c /\ \A q \in Paths \ {p} : disk'[q] = disk[q]
      /\ temp'[c] = temp[c] \ {p} /\ \A d \in Changesets \ {c} : temp'[d] = temp[d]
  BY RenameMoves DEF Moves
<1>3. /\ ap[c].todo \subseteq PathsOf(c) /\ ap[c].applied = PathsOf(c) \ ap[c].todo
      /\ ap[c].undone /\ ~ap[c].uncertain /\ ap[c].result = "none"
  BY <1>2 DEF FilesKnown, FilesOf, Renaming
<1>4. /\ \A d \in Changesets \ {c} : p \notin Seen(d) /\ ~(ap[d].pc = "mark" /\ Turn(d, p))
      /\ Quiet => \A d \in Changesets : Over(d, p) => backup[d][p] /= c
      /\ ~Restored(c, p) /\ p \in PathsOf(c) /\ Granted(c) /\ p \notin row[c].applied
  BY <1>2, Replacing
<1>5. FilesKnown'
  <2>1. FilesOf(c)'
    BY <1>2, <1>3 DEF FilesOf, Alike, Preparing, Early, Renaming
  <2> QED BY <1>2, <2>1, FilesStay
<1>6. RowsKnown'
  BY <1>1, <1>2 DEF RowsKnown, Others, Alike
<1>7. LocksKnown'
  BY <1>1, <1>2, LocksStay
<1>8. NoBackupYet'
  BY <1>1, <1>2, BackupsStay DEF Early
<1>9. Paid'
  <2>1. \A d \in Changesets : Granted(d)' <=> Granted(d)
    BY <1>1 DEF Granted
  <2>2. \A d \in Changesets : ap'[d].pc \in Renaming \cup {"return"} => ap[d].pc \in Renaming \cup {"return"}
    BY <1>2 DEF Others, Renaming
  <2> HIDE DEF Granted
  <2> QED BY <1>1, <1>2, <1>4, <2>1, <2>2 DEF Paid
<1>10. Turn(c, p)' /\ \A q \in ap[c].todo \ {p} : ~Turn(c, q)'
  <2>1. \A q \in ap[c].todo \ {p} : p < q
    BY <1>2 DEF Rename, Turn
  <2>2. \A q \in ap[c].todo \ {p} : ~(q < p)
    BY <2>1, ContentFacts DEF TypeOK, ApplyState
  <2>3. Turn(c, p)'
    BY <1>2, <2>1 DEF Turn
  <2>4. \A q \in ap[c].todo \ {p} : ~Turn(c, q)'
    BY <1>2, <2>2 DEF Turn
  <2> QED BY <2>3, <2>4
<1>11. Seen(c)' = Seen(c) \ {p} /\ Saved(c)' = Saved(c)
  <2>1. Seen(c)' = (PathsOf(c) \cap ap[c].todo) \ {p}
    BY <1>2, <1>10 DEF Seen
  <2>2. Seen(c) = PathsOf(c) \cap ap[c].todo
    BY <1>2 DEF Seen
  <2>3. Saved(c)' = Saved(c)
    BY <1>2 DEF Saved, Renaming
  <2> QED BY <2>1, <2>2, <2>3
<1>12. \A d \in Changesets \ {c} :
         /\ ap'[d] = ap[d] /\ Saved(d)' = Saved(d) /\ Seen(d)' = Seen(d)
         /\ \A q : (Turn(d, q)' <=> Turn(d, q)) /\ (Over(d, q)' <=> Over(d, q))
  BY <1>1, <1>2, OthersStand
<1>13. Undisturbed'
  <2>1. \A d \in Changesets : \A q \in Seen(d)' :
          q \in Paths /\ q /= p /\ q \in Seen(d) /\ ap'[d].read = ap[d].read
    <3>1. \A d \in Changesets : Seen(d) \subseteq Paths
      BY PathsKnown DEF Seen
    <3> QED BY <1>2, <1>4, <1>11, <1>12, <3>1 DEF Alike
  <2> QED BY <1>1, <1>2, <2>1 DEF Undisturbed
<1>14. Alone'
  <2>1. ASSUME StatusKnown(c) PROVE StatusKnown(c)'
    BY <1>1, <1>2, <2>1 DEF StatusKnown, Alike, Renaming
  <2>2. ASSUME OneActor(c) PROVE OneActor(c)'
    BY <1>1, <1>2, <2>2 DEF OneActor
  <2>3. ASSUME AppliedKnown(c) PROVE AppliedKnown(c)'
    BY <1>1, <1>2, <2>3 DEF AppliedKnown, Alike
  <2> QED BY <1>1, <1>2, <2>1, <2>2, <2>3, AloneOthers
<1>15. TempKnown'
  BY <1>1, <1>2, <1>3, TempOthers DEF Alike
<1>16. \A d \in Changesets, q \in Paths :
         (Over(d, q)' <=> Over(d, q)) /\ (Restored(d, q)' <=> Restored(d, q))
  <2>1. \A q \in Paths : Over(c, q)' <=> Over(c, q)
    BY <1>1, <1>11 DEF Over
  <2> QED BY <1>1, <1>12, <2>1, RestoredStays
<1>17. BackupsKept'
  <2>1. \A d \in Changesets : ap'[d].read = ap[d].read
    BY <1>2, <1>12 DEF Alike
  <2> QED BY <1>1, <1>16, <2>1 DEF BackupsKept
<1>18. Stacking'
  <2> SUFFICES ASSUME Quiet PROVE OnDisk' /\ BaseStands' /\ BaseCovered' /\ OneOver' /\ RestoredGone'
    BY <1>1 DEF Stacking, Quiet
  <2>1. \A d \in Changesets : LostBy(d)' <=> LostBy(d)
    BY <1>1, <1>2, <1>12 DEF LostBy, Alike
  <2>2. OnDisk'
    <3> SUFFICES ASSUME NEW q \in Paths, NEW d \in Changesets, disk'[q] = d
                 PROVE  q \in row[d].applied \/ (ap'[d].pc = "mark" /\ Turn(d, q)') \/ LostBy(d)
      BY <1>1, <2>1 DEF OnDisk
    <3>1. CASE q = p
      BY <1>2, <1>10, <3>1
    <3>2. CASE q /= p
      <4>1. q \in row[d].applied \/ (ap[d].pc = "mark" /\ Turn(d, q)) \/ LostBy(d)
        BY <1>2, <3>2 DEF Stacking, OnDisk
      <4> QED BY <1>2, <1>12, <4>1
    <3> QED BY <3>1, <3>2
  <2>3. BaseStands'
    BY <1>1, <1>16, <2>1 DEF Stacking, BaseStands
  <2>4. BaseCovered'
    <3>1. \A d \in Changesets, q \in Paths \ {p} : q \in Seen(d) => q \in Seen(d)'
      BY <1>11, <1>12
    <3> QED BY <1>1, <1>2, <1>4, <1>16, <3>1 DEF Stacking, BaseCovered
  <2>5. OneOver'
    BY <1>1, <1>16 DEF Stacking, OneOver
  <2>6. RestoredGone'
    BY <1>1, <1>2, <1>4, <1>16 DEF Stacking, RestoredGone
  <2> QED BY <2>2, <2>3, <2>4, <2>5, <2>6
<1> QED BY <1>2, <1>5, <1>6, <1>7, <1>8, <1>9, <1>13, <1>14, <1>15, <1>17, <1>18

\* Step 10 of apply, after the answer.
LEMMA MarkKeeps ==
  ASSUME IInv, NEW c \in Changesets, NEW p \in Paths, Mark(c, p)
  PROVE  IInv'
<1> USE DEF IInv, Advancing
<1>1. UNCHANGED <<disk, backup, temp, locks, rb, vf, granted, grants, faults, edits, windows>>
  BY DEF Mark, remote, bounds
<1>2. /\ TypeOK' /\ ap[c].pc = "mark" /\ p \in ap[c].todo /\ Others(c)
      /\ ap'[c].applied = ap[c].applied \cup {p} /\ ap'[c].written = ap[c].written
      /\ ap'[c].undone = ap[c].undone /\ ap'[c].uncertain = ap[c].uncertain
      /\ ap'[c].result = ap[c].result /\ ap'[c].read = ap[c].read
      /\ \/ ap[c].todo = {p} /\ ap'[c].pc = "return" /\ ap'[c].todo = {}
         \/ ap[c].todo /= {p} /\ ap'[c].pc = "rename" /\ ap'[c].todo = ap[c].todo \ {p}
      /\ row'[c].status = IF ap[c].applied = {} THEN "applied" ELSE row[c].status
      /\ row'[c].applied = row[c].applied \cup {p}
      /\ \A d \in Changesets \ {c} : row'[d] = row[d]
  BY MarkMoves
<1>3. /\ ap[c].todo \subseteq PathsOf(c) /\ ap[c].applied = PathsOf(c) \ ap[c].todo
      /\ ap[c].undone /\ ~ap[c].uncertain /\ ap[c].result = "none"
  BY <1>2 DEF FilesKnown, FilesOf, Renaming
<1>4. FilesKnown'
  <2>1. FilesOf(c)'
    BY <1>2, <1>3 DEF FilesOf, Preparing, Early, Renaming
  <2> QED BY <1>2, <2>1, FilesStay
<1>5. RowsKnown'
  BY <1>1, <1>2 DEF RowsKnown, Others
<1>6. LocksKnown'
  BY <1>1, <1>2, LocksStay
<1>7. NoBackupYet'
  BY <1>1, <1>2, BackupsStay DEF Early
<1>8. Paid'
  <2>1. Granted(c)
    BY <1>2 DEF Paid, Renaming
  <2> QED BY <1>1, <1>2, <2>1, PaidStays
<1>9. \A q \in ap[c].todo \ {p} : ~Turn(c, q)
  <2>1. \A q \in ap[c].todo \ {p} : p < q
    BY <1>2 DEF Mark, Turn
  <2>2. \A q \in ap[c].todo \ {p} : ~(q < p)
    BY <2>1, ContentFacts DEF TypeOK, ApplyState
  <2> QED BY <1>2, <2>2 DEF Turn
<1>10. Seen(c)' = ap[c].todo \ {p} /\ ap[c].todo \ {p} \subseteq Seen(c)
  BY <1>2, <1>3, <1>9 DEF Seen
<1>11. Undisturbed'
  BY <1>1, <1>2, <1>10, ContentsStay
<1>12. Alone'
  <2>1. ASSUME StatusKnown(c) PROVE StatusKnown(c)'
    BY <1>2, <2>1 DEF StatusKnown, Renaming
  <2>2. ASSUME OneActor(c) PROVE OneActor(c)'
    BY <1>1, <1>2, <2>2 DEF OneActor
  <2>3. ASSUME StatusKnown(c), AppliedKnown(c) PROVE AppliedKnown(c)'
    BY <1>2, <2>3 DEF AppliedKnown, StatusKnown, Renaming
  <2> QED BY <1>1, <1>2, <2>1, <2>2, <2>3, AloneOthers
<1>13. TempKnown'
  BY <1>1, <1>2, <1>3, TempOthers
<1>14. BackupsKept' /\ Stacking'
  <2>1. \A q \in Paths : Over(c, q)' <=> Over(c, q)
    <3>1. Saved(c) = ap[c].todo /\ Saved(c)' = ap[c].todo \ {p}
      BY <1>2, <1>3 DEF Saved, Renaming
    <3> QED BY <1>2, <3>1 DEF Over
  <2>2. \A q \in Paths : q \in Seen(c) /\ Over(c, q)' => q \in Seen(c)'
    <3>1. p \notin Seen(c) /\ Seen(c) \subseteq ap[c].todo
      BY <1>2 DEF Seen, Mark
    <3> QED BY <1>10, <3>1
  <2>3. \A q \in Paths : Turn(c, q) => q \in row'[c].applied
    BY <1>2, <1>9 DEF Turn
  <2> QED BY <1>1, <1>2, <2>1, <2>2, <2>3, StackStaysFor
<1> QED BY <1>2, <1>4, <1>5, <1>6, <1>7, <1>8, <1>11, <1>12, <1>13, <1>14

\* An apply that ends lets its locks go.
LEMMA LocksGo ==
  ASSUME LocksKnown, NEW c \in Changesets, Others(c), ap'[c].pc = "end",
         \A p \in Paths : locks'[p] = IF locks[p] = c THEN None ELSE locks[p]
  PROVE  LocksKnown'
<1>1. Held(c)' = {}
  BY DEF Held, InFlight
<1>2. \A d \in Changesets \ {c} : Held(d)' = Held(d)
  BY DEF Held, InFlight, Others
<1>3. \A p \in Paths : locks'[p] /= c /\ \A d \in Changesets \ {c} : locks'[p] = d <=> locks[p] = d
  BY ContentFacts
<1> QED BY <1>1, <1>2, <1>3 DEF LocksKnown

\* The return of apply.
LEMMA ReturnKeeps ==
  ASSUME IInv, NEW c \in Changesets, Return(c)
  PROVE  IInv'
<1> USE DEF IInv, Advancing
<1>1. UNCHANGED <<disk, backup, temp, row, rb, vf, granted, grants, faults, edits, windows>>
  BY DEF Return, remote, bounds
<1>2. /\ TypeOK' /\ ap[c].pc = "return" /\ Others(c) /\ ap'[c].pc = "end" /\ ap'[c].todo = ap[c].todo
      /\ ap'[c].uncertain = ap[c].uncertain /\ ap'[c].read = ap[c].read
      /\ ap'[c].written = ap[c].written /\ ap'[c].applied = ap[c].applied
      /\ ap'[c].undone = ap[c].undone /\ ap'[c].result = "applied"
  BY ReturnMoves DEF Ends
<1>3. /\ ap[c].todo \subseteq PathsOf(c) /\ ap[c].applied = PathsOf(c)
      /\ ap[c].undone /\ ~ap[c].uncertain /\ ap[c].result = "none"
  BY <1>2 DEF FilesKnown, FilesOf
<1>4. FilesKnown'
  <2>1. FilesOf(c)'
    BY <1>2, <1>3 DEF FilesOf, Preparing, Early, Renaming
  <2> QED BY <1>2, <2>1, FilesStay
<1>5. RowsKnown'
  BY <1>1, <1>2 DEF RowsKnown, Others
<1>6. LocksKnown'
  BY <1>2, LocksGo, ReturnMoves
<1>7. NoBackupYet'
  BY <1>1, <1>2, BackupsStay DEF Early
<1>8. Paid'
  BY <1>1, <1>2, PaidStays DEF Renaming
<1>9. Seen(c)' = {} /\ Saved(c)' = {} /\ Saved(c) = {}
  BY <1>2 DEF Seen, Saved, Renaming
<1>10. Undisturbed'
  BY <1>1, <1>2, <1>9, ContentsStay
<1>11. Alone'
  <2>1. ASSUME StatusKnown(c) PROVE StatusKnown(c)'
    BY <1>1, <1>2, <2>1 DEF StatusKnown, Renaming
  <2>2. ASSUME OneActor(c) PROVE OneActor(c)'
    BY <1>1, <1>2, <2>2 DEF OneActor
  <2>3. ASSUME StatusKnown(c), AppliedKnown(c) PROVE AppliedKnown(c)'
    BY <1>1, <1>2, <1>3, <2>3 DEF AppliedKnown, StatusKnown
  <2> QED BY <1>1, <1>2, <2>1, <2>2, <2>3, AloneOthers
<1>12. TempKnown'
  BY <1>1, <1>2, <1>3, TempOthers
<1>13. BackupsKept' /\ Stacking'
  <2>1. \A q \in Paths : (Over(c, q)' <=> Over(c, q)) /\ q \notin Seen(c)
    <3>1. Seen(c) = {}
      BY <1>2 DEF Seen
    <3> QED BY <1>1, <1>9, <3>1 DEF Over
  <2>2. ap[c].pc /= "mark"
    BY <1>2
  <2> QED BY <1>1, <1>2, <2>1, <2>2, StackStaysFor
<1> QED BY <1>2, <1>4, <1>5, <1>6, <1>7, <1>8, <1>10, <1>11, <1>12, <1>13

\* A transport call of apply raises.
LEMMA CallFailsKeeps ==
  ASSUME IInv, NEW c \in Changesets, NEW p \in Paths, NEW effect \in BOOLEAN,
         NEW timeout \in BOOLEAN, CallFails(c, p, effect, timeout)
  PROVE  IInv'
<1> USE DEF IInv, Advancing
<1>1. UNCHANGED <<backup, row, locks, rb, vf, granted, grants, edits>>
  BY DEF CallFails
<1>2. /\ TypeOK' /\ Raises(c, timeout)
      /\ ap[c].pc \in {"read", "remote", "temp", "check", "rename"}
      /\ effect => timeout /\ ap[c].pc \in {"temp", "rename"}
      /\ ap[c].pc \in {"temp", "rename"} => p \in ap[c].todo
      /\ windows \subseteq windows' /\ (effect => "lost" \in windows')
      /\ windows' \subseteq windows \cup {"lost"}
      /\ ~effect => temp' = temp
      /\ ~effect \/ ap[c].pc /= "rename" => disk' = disk
      /\ effect /\ ap[c].pc = "rename" =>
           disk'[p] = c /\ \A q \in Paths \ {p} : disk'[q] = disk[q]
      /\ \A d \in Changesets \ {c} : temp'[d] = temp[d]
  BY CallFailsMoves
<1>3. /\ FilesKnown' /\ RowsKnown' /\ LocksKnown' /\ Alone'
      /\ Seen(c)' = {} /\ Saved(c)' = {}
      /\ Seen(c) \cap row[c].applied = {} /\ ~ap[c].uncertain
  BY <1>1, <1>2, RaiseKeeps
<1>4. /\ Others(c) /\ ap'[c].pc = "undo" /\ ap'[c].read = ap[c].read /\ ap'[c].written = ap[c].written
      /\ ap'[c].uncertain = timeout
  BY <1>2 DEF Raises
<1>5. NoBackupYet'
  BY <1>1, <1>4, BackupsStay DEF Early
<1>6. TempKnown'
  BY <1>2, <1>3, <1>4, TempOthers
<1>7. \A q \in Paths : (q \in Seen(c) /\ Over(c, q)' => FALSE) /\ (Over(c, q)' => Over(c, q))
  BY <1>1, <1>3 DEF Over
<1>8. ap[c].pc /= "mark"
  BY <1>2
<1>9. CASE ~(effect /\ ap[c].pc = "rename")
  <2>1. disk' = disk
    BY <1>2, <1>9
  <2>2. Paid'
    BY <1>1, <1>4, <2>1, PaidStays DEF Renaming
  <2>3. Undisturbed'
    BY <1>1, <1>2, <1>3, <1>4, <2>1, ContentsStay
  <2>4. BackupsKept' /\ Stacking'
    BY <1>1, <1>2, <1>3, <1>4, <1>7, <1>8, <2>1, StackStaysFor
  <2> QED BY <1>2, <1>3, <1>5, <1>6, <2>2, <2>3, <2>4
<1>10. CASE effect /\ ap[c].pc = "rename"
  <2>1. disk'[p] = c /\ \A q \in Paths \ {p} : disk'[q] = disk[q]
    BY <1>2, <1>10
  <2>2. /\ \A d \in Changesets \ {c} : p \notin Seen(d) /\ ~(ap[d].pc = "mark" /\ Turn(d, p))
        /\ Quiet => \A d \in Changesets : Over(d, p) => backup[d][p] /= c
        /\ ~Restored(c, p) /\ p \in PathsOf(c) /\ Granted(c) /\ p \notin row[c].applied
    BY <1>2, <1>10, Replacing
  <2>3. \A d \in Changesets \ {c} :
           /\ ap'[d] = ap[d] /\ Saved(d)' = Saved(d) /\ Seen(d)' = Seen(d)
           /\ \A q : (Turn(d, q)' <=> Turn(d, q)) /\ (Over(d, q)' <=> Over(d, q))
    BY <1>1, <1>4, OthersStand
  <2>4. Paid'
    <3>1. \A d \in Changesets : Granted(d)' <=> Granted(d)
      BY <1>1 DEF Granted
    <3>2. \A d \in Changesets : ap'[d].pc \in Renaming \cup {"return"} => ap[d].pc \in Renaming \cup {"return"}
      BY <1>4 DEF Others, Renaming
    <3> HIDE DEF Granted
    <3> QED BY <1>1, <2>1, <2>2, <3>1, <3>2 DEF Paid
  <2>5. Undisturbed'
    <3>1. \A d \in Changesets : \A q \in Seen(d)' :
            q \in Paths /\ q /= p /\ q \in Seen(d) /\ ap'[d].read = ap[d].read
      <4>1. \A d \in Changesets : Seen(d) \subseteq Paths
        BY PathsKnown DEF Seen
      <4> QED BY <1>3, <2>2, <2>3, <4>1
    <3> QED BY <1>1, <1>2, <2>1, <3>1 DEF Undisturbed
  <2>6. \A d \in Changesets, q \in Paths : Restored(d, q)' <=> Restored(d, q)
    BY <1>1, RestoredStays
  <2>7. "lost" \in windows'
    BY <1>2, <1>10
  <2>8. BackupsKept'
    BY <2>7 DEF BackupsKept
  <2>9. Stacking'
    <3> SUFFICES ASSUME Quiet PROVE OnDisk' /\ BaseStands' /\ BaseCovered' /\ OneOver' /\ RestoredGone'
      BY <1>2 DEF Stacking, Quiet
    <3>1. \A d \in Changesets : (LostBy(d) => LostBy(d)') /\ LostBy(c)'
      BY <1>2, <1>4, <1>10, <2>3, <2>7 DEF LostBy
    <3>2. \A d \in Changesets, q \in Paths : Over(d, q)' => Over(d, q)
      BY <1>7, <2>3
    <3>3. OnDisk'
      <4> SUFFICES ASSUME NEW q \in Paths, NEW d \in Changesets \ {c}, disk'[q] = d
                   PROVE  q \in row[d].applied \/ (ap'[d].pc = "mark" /\ Turn(d, q)') \/ LostBy(d)'
        BY <1>1, <3>1 DEF OnDisk
      <4>1. q /= p
        BY <2>1
      <4>2. q \in row[d].applied \/ (ap[d].pc = "mark" /\ Turn(d, q)) \/ LostBy(d)
        BY <2>1, <4>1 DEF Stacking, OnDisk
      <4> QED BY <2>3, <3>1, <4>2
    <3>4. BaseStands'
      BY <1>1, <3>1, <3>2 DEF Stacking, BaseStands
    <3>5. BaseCovered'
      BY <1>1, <1>7, <2>1, <2>2, <2>3, <3>2 DEF Stacking, BaseCovered
    <3>6. OneOver'
      BY <1>1, <3>2 DEF Stacking, OneOver
    <3>7. RestoredGone'
      BY <1>1, <2>1, <2>2, <2>6, <3>2 DEF Stacking, RestoredGone
    <3> QED BY <3>3, <3>4, <3>5, <3>6, <3>7
  <2> QED BY <1>2, <1>3, <1>5, <1>6, <2>4, <2>5, <2>8, <2>9
<1> QED BY <1>9, <1>10

-----------------------------------------------------------------------------
(* The invariant is kept: restoring. *)

\* The end of _handle_failure.
LEMMA SettleKeeps ==
  ASSUME IInv, NEW c \in Changesets, Settle(c)
  PROVE  IInv'
<1> USE DEF IInv, Advancing
<1>1. UNCHANGED <<disk, backup, rb, vf, granted, grants, edits>>
  BY DEF Settle
<1>2. /\ TypeOK' /\ ap[c].pc = "undo" /\ ap[c].todo = {}
      /\ windows \subseteq windows' /\ windows' \subseteq windows \cup {"untidy"}
      /\ \A d \in Changesets \ {c} : temp'[d] = temp[d] /\ row'[d] = row[d]
      /\ temp'[c] = temp[c] \ ap[c].written \/ (temp' = temp /\ "untidy" \in windows')
      /\ row'[c].applied = row[c].applied
      /\ FailedStatus(c) \in {"rolled_back", "failed"}
  BY SettleMoves
<1>3. /\ Others(c) /\ ap'[c].pc = "end" /\ ap'[c].todo = ap[c].todo
      /\ ap'[c].uncertain = ap[c].uncertain /\ ap'[c].read = ap[c].read
      /\ ap'[c].written = ap[c].written /\ ap'[c].applied = ap[c].applied
      /\ ap'[c].undone = ap[c].undone /\ ap'[c].result \in {"rolled_back", "failed", "raised"}
  BY SettleMoves DEF Ends
<1>4. \/ /\ row[c].status = "none" /\ row' = row /\ ap'[c].result = FailedStatus(c)
      \/ /\ row[c].status /= "none" /\ MayMove(c, FailedStatus(c))
         /\ row'[c].status = FailedStatus(c) /\ ap'[c].result = FailedStatus(c)
      \/ row[c].status /= "none" /\ ~MayMove(c, FailedStatus(c))
  BY SettleMoves DEF Ends
<1>5. ap[c].todo \subseteq PathsOf(c) /\ ap[c].applied \subseteq PathsOf(c)
  BY DEF FilesKnown, FilesOf
<1>6. FilesKnown'
  <2>1. FilesOf(c)'
    BY <1>3, <1>5 DEF FilesOf, Preparing, Early, Renaming
  <2> QED BY <1>3, <2>1, FilesStay
<1>7. RowsKnown'
  BY <1>1, <1>2, <1>3 DEF RowsKnown, Others
<1>8. LocksKnown'
  BY <1>3, LocksGo, SettleMoves
<1>9. NoBackupYet'
  BY <1>1, <1>3, BackupsStay DEF Early
<1>10. Paid'
  BY <1>1, <1>3, PaidStays DEF Renaming
<1>11. Seen(c)' = {} /\ Saved(c)' = {} /\ Saved(c) = {} /\ Seen(c) = {}
  BY <1>2, <1>3 DEF Seen, Saved, Renaming
<1>12. Undisturbed'
  BY <1>1, <1>2, <1>3, <1>11, ContentsStay
<1>13. Alone'
  <2> SUFFICES ASSUME StatusKnown(c), OneActor(c), AppliedKnown(c)
               PROVE  StatusKnown(c)' /\ OneActor(c)' /\ AppliedKnown(c)'
    BY <1>1, <1>2, <1>3, AloneOthers
  <2>1. /\ ap[c].applied = {} => row[c].status \in {"none", "draft", "locally_backed_up", "remotely_backed_up"}
        /\ ap[c].applied /= {} => row[c].status = "applied"
    BY <1>2 DEF StatusKnown
  <2>2. ap[c].undone => row[c].applied = {}
    BY <1>2 DEF AppliedKnown
  <2>3. FailedStatus(c) = "rolled_back" => ap[c].applied /= {} /\ ap[c].undone
    BY DEF FailedStatus
  <2>4. row[c].status /= "none" => MayMove(c, FailedStatus(c))
    <3>1. FailedStatus(c) = "rolled_back" => row[c].status = "applied"
      BY <2>1, <2>3
    <3> QED BY <1>2, <2>1, <3>1 DEF MayMove, Predecessors, Terminal, Active
  <2>5. StatusKnown(c)'
    <3>1. /\ ap'[c].result = FailedStatus(c)
          /\ row'[c].status = FailedStatus(c) \/ (row'[c].status = "none" /\ FailedStatus(c) = "failed")
      BY <1>2, <1>4, <2>1, <2>3, <2>4
    <3> QED BY <1>2, <1>3, <3>1 DEF StatusKnown, Renaming
  <2>6. OneActor(c)'
    BY <1>1, <1>2, <1>3 DEF OneActor
  <2>7. AppliedKnown(c)'
    <3>1. row'[c].status \in {"none", "rolled_back", "failed"}
          /\ (row'[c].status = "rolled_back" => ap[c].undone)
      BY <1>2, <1>4, <2>1, <2>3, <2>4
    <3> QED BY <1>2, <1>3, <2>2, <3>1 DEF AppliedKnown
  <2> QED BY <2>5, <2>6, <2>7
<1>14. TempKnown'
  BY <1>2, <1>3, TempOthers
<1>15. BackupsKept' /\ Stacking'
  <2>1. \A q \in Paths : Over(c, q)' <=> Over(c, q)
    BY <1>2, <1>11 DEF Over
  <2>2. ap[c].pc /= "mark"
    BY <1>2
  <2> QED BY <1>1, <1>2, <1>3, <1>11, <2>1, <2>2, StackStaysFor
<1> QED BY <1>2, <1>6, <1>7, <1>8, <1>9, <1>10, <1>12, <1>13, <1>14, <1>15

\* A file is put back, by the undo pass or by a rollback.
LEMMA PuttingBack ==
  ASSUME IInv, NEW c \in Changesets, NEW p \in Paths, PutBack(c, p), p \in ap[c].applied,
         UNCHANGED <<locks, granted, edits>>, Others(c),
         ap'[c].pc = ap[c].pc, ap'[c].read = ap[c].read,
         ap[c].pc /= "undo" => ap'[c] = ap[c]
  PROVE  /\ NoBackupYet' /\ Paid' /\ Undisturbed'
         /\ \A d \in Changesets :
              /\ Seen(d)' = Seen(d) /\ Saved(d)' = Saved(d)
              /\ \A q : (ap[d].pc = "mark" /\ Turn(d, q))' <=> (ap[d].pc = "mark" /\ Turn(d, q))
         /\ "unlocked" \notin windows' => \A d \in Changesets : p \notin Seen(d)
<1> USE DEF IInv, Advancing
<1>1. /\ disk'[p] = IF ap[c].read[p] = Absent THEN Absent ELSE backup[c][p]
      /\ backup'[c][p] = Absent
      /\ \A q \in Paths \ {p} : disk'[q] = disk[q] /\ backup'[c][q] = backup[c][q]
      /\ \A d \in Changesets \ {c} : backup'[d] = backup[d]
      /\ windows \subseteq windows' /\ ("unlocked" \notin windows' => locks[p] \in {None, c})
  BY PutBackFacts
<1>2. NoBackupYet'
  <2>1. \A d \in Changesets : ap'[d].pc = ap[d].pc /\ (ap[d].pc = "remote" => ap'[d].todo = ap[d].todo)
    BY DEF Others
  <2>2. \A d \in Changesets, q \in Paths : backup'[d][q] \in {Absent, backup[d][q]}
    BY <1>1
  <2> QED BY <2>1, <2>2 DEF NoBackupYet
<1>3. Paid'
  <2>1. \A d \in Changesets : Granted(d)' <=> Granted(d)
    BY DEF Granted
  <2>2. \A d \in Changesets : ap'[d].pc = ap[d].pc
    BY DEF Others
  <2>3. \A d \in Changesets, q \in Paths :
          disk'[q] = d \/ (\E e \in Changesets : backup'[e][q] = d) =>
            disk[q] = d \/ \E e \in Changesets : backup[e][q] = d
    BY <1>1, ContentFacts
  <2> HIDE DEF Granted
  <2> QED BY <2>1, <2>2, <2>3 DEF Paid
<1>4. /\ \A d \in Changesets \ {c} :
           Seen(d)' = Seen(d) /\ Saved(d)' = Saved(d) /\ ap'[d] = ap[d] /\ \A q : Turn(d, q)' <=> Turn(d, q)
      /\ Seen(c)' = Seen(c) /\ Saved(c)' = Saved(c)
      /\ \A q : (ap[c].pc = "mark" /\ Turn(c, q))' <=> (ap[c].pc = "mark" /\ Turn(c, q))
  <2>1. \A d \in Changesets \ {c} : ap'[d] = ap[d] /\ \A q : Turn(d, q)' <=> Turn(d, q)
    BY ZenonT(40) DEF Others, Turn
  <2>2. CASE ap[c].pc = "undo"
    BY <2>1, <2>2, SeenStays DEF Seen, Saved, Renaming
  <2>3. CASE ap'[c] = ap[c]
    <3>1. \A q : Turn(c, q)' <=> Turn(c, q)
      BY <2>3 DEF Turn
    <3>2. Seen(c)' = Seen(c) /\ Saved(c)' = Saved(c)
      BY <2>3, <3>1 DEF Seen, Saved
    <3> QED BY <2>1, <2>3, <3>1, <3>2, SeenStays
  <2> QED BY <2>2, <2>3
<1>5. p \notin Seen(c)
  BY DEF FilesKnown, FilesOf, Seen, Preparing, Early, Renaming
<1>6. ASSUME "unlocked" \notin windows', NEW d \in Changesets PROVE p \notin Seen(d)
  <2>1. \A e \in Changesets : p \in Seen(e) => locks[p] = e
    BY HeldFacts DEF LocksKnown
  <2> QED BY <1>1, <1>5, <1>6, <2>1, ContentFacts
<1>7. Undisturbed'
  <2>1. \A d \in Changesets : Seen(d) \subseteq Paths /\ ap'[d].read = ap[d].read
    BY PathsKnown DEF Seen, Others
  <2> QED BY <1>1, <1>4, <1>6, <2>1 DEF Undisturbed
<1> QED BY <1>2, <1>3, <1>4, <1>6, <1>7

\* While nobody interferes, the content that comes back is the one under c alone.
LEMMA ComingBack ==
  ASSUME IInv, NEW c \in Changesets, NEW p \in Paths, PutBack(c, p), Quiet', p \in row[c].applied,
         \A d \in Changesets : p \notin Seen(d)
  PROVE  /\ disk[p] = c
         /\ \A d \in Changesets : Over(d, p) => backup[d][p] /= c
         /\ \A d \in Changesets : disk'[p] = d =>
              /\ d /= c /\ (p \in row[d].applied \/ LostBy(d)) /\ ~Restored(d, p)
              /\ \A e \in Changesets \ {c} : Over(e, p) => backup[e][p] /= d
<1> USE DEF IInv, Advancing
<1>1. /\ disk'[p] = IF ap[c].read[p] = Absent THEN Absent ELSE backup[c][p]
      /\ windows \subseteq windows' /\ ("stacked" \notin windows' => disk[p] = c)
  BY PutBackFacts
<1>2. Quiet /\ disk[p] = c
  BY <1>1 DEF Quiet
<1>3. Over(c, p)
  BY DEF Over
<1>4. \A d \in Changesets : Over(d, p) => backup[d][p] /= c
  BY <1>2 DEF Stacking, BaseCovered
<1>5. ASSUME NEW d \in Changesets, disk'[p] = d
      PROVE  /\ d /= c /\ (p \in row[d].applied \/ LostBy(d)) /\ ~Restored(d, p)
             /\ \A e \in Changesets \ {c} : Over(e, p) => backup[e][p] /= d
  <2>1. backup[c][p] = d
    BY <1>1, <1>5, ContentFacts
  <2> QED BY <1>2, <1>3, <1>4, <2>1 DEF Stacking, BaseStands, OneOver, RestoredGone
<1> QED BY <1>2, <1>4, <1>5

\* Step 11 of apply: what lay under c is on disk again.
LEMMA UndoKeeps ==
  ASSUME IInv, NEW c \in Changesets, NEW p \in Paths, Undo(c, p)
  PROVE  IInv'
<1> USE DEF IInv, Advancing
<1>1. UNCHANGED <<temp, locks, rb, vf, granted, grants, edits>>
  BY DEF Undo
<1>2. /\ TypeOK' /\ ap[c].pc = "undo" /\ p \in ap[c].todo
      /\ Others(c) /\ ap'[c].pc = "undo" /\ ap'[c].todo = ap[c].todo \ {p}
      /\ ap'[c].uncertain = ap[c].uncertain
      /\ ap'[c].read = ap[c].read /\ ap'[c].written = ap[c].written
      /\ ap'[c].applied = ap[c].applied /\ ap'[c].result = ap[c].result
  BY UndoMoves
<1>3. /\ ap[c].todo \subseteq ap[c].applied /\ ap[c].applied \subseteq PathsOf(c)
      /\ ap[c].result = "none"
  BY <1>2 DEF FilesKnown, FilesOf
<1>4. FilesKnown'
  <2>1. FilesOf(c)'
    BY <1>2, <1>3 DEF FilesOf, Preparing, Early, Renaming
  <2> QED BY <1>2, <2>1, FilesStay
<1>5. LocksKnown'
  BY <1>1, <1>2, LocksStay
<1>6. Seen(c) = {} /\ Saved(c) = {} /\ Seen(c)' = {} /\ Saved(c)' = {}
  BY <1>2 DEF Seen, Saved, Renaming
<1>7. CASE UNCHANGED <<disk, backup, row, windows>> /\ ~ap'[c].undone
  <2>1. RowsKnown'
    BY <1>1, <1>2, <1>7 DEF RowsKnown, Others
  <2>2. NoBackupYet' /\ Paid' /\ Undisturbed'
    BY <1>1, <1>2, <1>6, <1>7, BackupsStay, PaidStays, ContentsStay DEF Early, Renaming
  <2>3. TempKnown'
    BY <1>1, <1>2, <1>7, TempOthers
  <2>4. Alone'
    <3>1. ASSUME StatusKnown(c) PROVE StatusKnown(c)'
      BY <1>2, <1>7, <3>1 DEF StatusKnown, Renaming
    <3>2. ASSUME OneActor(c) PROVE OneActor(c)'
      BY <1>1, <1>2, <3>2 DEF OneActor
    <3>3. ASSUME AppliedKnown(c) PROVE AppliedKnown(c)'
      BY <1>2, <1>7, <3>3 DEF AppliedKnown
    <3> QED BY <1>1, <1>2, <1>7, <3>1, <3>2, <3>3, AloneOthers
  <2>5. BackupsKept' /\ Stacking'
    <3>1. \A q \in Paths : Over(c, q)' <=> Over(c, q)
      BY <1>6, <1>7 DEF Over
    <3> QED BY <1>1, <1>2, <1>6, <1>7, <3>1, StackStaysFor
  <2> QED BY <1>2, <1>4, <1>5, <2>1, <2>2, <2>3, <2>4, <2>5
<1>8. CASE /\ PutBack(c, p) /\ ap'[c].undone = ap[c].undone
           /\ row'[c].status = row[c].status /\ row'[c].applied = row[c].applied \ {p}
           /\ \A d \in Changesets \ {c} : row'[d] = row[d]
  <2>1. /\ \A q \in Paths \ {p} : disk'[q] = disk[q] /\ backup'[c][q] = backup[c][q]
        /\ \A d \in Changesets \ {c} : backup'[d] = backup[d]
        /\ windows \subseteq windows' /\ windows' \subseteq windows \cup {"stacked", "unlocked"}
    BY <1>8, PutBackFacts
  <2>2. /\ NoBackupYet' /\ Paid' /\ Undisturbed'
        /\ "unlocked" \notin windows' => \A d \in Changesets : p \notin Seen(d)
    BY <1>1, <1>2, <1>3, <1>8, PuttingBack
  <2>3. RowsKnown'
    BY <1>1, <1>2, <1>8 DEF RowsKnown, Others
  <2>4. TempKnown'
    BY <1>1, <1>2, <2>1, TempOthers
  <2>5. Alone'
    <3>1. ASSUME StatusKnown(c) PROVE StatusKnown(c)'
      BY <1>2, <1>8, <3>1 DEF StatusKnown, Renaming
    <3>2. ASSUME OneActor(c) PROVE OneActor(c)'
      BY <1>1, <1>2, <3>2 DEF OneActor
    <3>3. ASSUME AppliedKnown(c) PROVE AppliedKnown(c)'
      BY <1>2, <1>8, <3>3 DEF AppliedKnown
    <3> QED BY <1>1, <1>2, <1>8, <2>1, <3>1, <3>2, <3>3, AloneOthers
  <2>6. \A d \in Changesets \ {c} :
           /\ ap'[d] = ap[d] /\ Saved(d)' = Saved(d) /\ Seen(d)' = Seen(d)
           /\ \A q : (Turn(d, q)' <=> Turn(d, q)) /\ (Over(d, q)' <=> Over(d, q))
    BY <1>2, <1>8, OthersStand
  <2>7. \A q \in Paths : Over(c, q)' <=> Over(c, q) /\ q /= p
    BY <1>6, <1>8 DEF Over
  <2>8. \A d \in Changesets, q \in Paths :
          /\ Over(d, q)' => Over(d, q) /\ ap'[d].read = ap[d].read /\ backup'[d][q] = backup[d][q]
          /\ Restored(d, q)' <=> Restored(d, q)
    BY <1>1, <1>2, <2>1, <2>6, <2>7, RestoredStays
  <2>9. BackupsKept'
    BY <2>1, <2>8 DEF BackupsKept
  <2>10. Stacking'
    <3> SUFFICES ASSUME Quiet' PROVE OnDisk' /\ BaseStands' /\ BaseCovered' /\ OneOver' /\ RestoredGone'
      BY DEF Stacking
    <3>1. Quiet /\ Solo /\ \A d \in Changesets : p \notin Seen(d)
      BY <2>1, <2>2 DEF Quiet, Solo
    <3>2. p \in row[c].applied
      BY <1>2, <3>1 DEF Alone, AppliedKnown
    <3>3. /\ disk[p] = c
          /\ \A d \in Changesets : Over(d, p) => backup[d][p] /= c
          /\ \A d \in Changesets : disk'[p] = d =>
               /\ d /= c /\ (p \in row[d].applied \/ LostBy(d)) /\ ~Restored(d, p)
               /\ \A e \in Changesets \ {c} : Over(e, p) => backup[e][p] /= d
      BY <1>8, <3>1, <3>2, ComingBack
    <3>4. \A d \in Changesets :
            /\ LostBy(d) => LostBy(d)'
            /\ \A q \in Paths : q \in row[d].applied => q \in row'[d].applied \/ (d = c /\ q = p)
      BY <1>2, <1>8, <2>1, <2>6 DEF LostBy
    <3>5. OnDisk'
      <4> SUFFICES ASSUME NEW q \in Paths, NEW d \in Changesets, disk'[q] = d
                   PROVE  q \in row'[d].applied \/ (ap'[d].pc = "mark" /\ Turn(d, q)') \/ LostBy(d)'
        BY DEF OnDisk
      <4>1. CASE q = p
        BY <3>3, <3>4, <4>1
      <4>2. CASE q /= p
        <5>1. q \in row[d].applied \/ (ap[d].pc = "mark" /\ Turn(d, q)) \/ LostBy(d)
          BY <2>1, <3>1, <4>2 DEF Stacking, OnDisk
        <5>2. ap[d].pc = "mark" => d /= c
          BY <1>2
        <5> QED BY <2>6, <3>4, <4>2, <5>1, <5>2
      <4> QED BY <4>1, <4>2
    <3>6. BaseStands'
      <4>1. \A q \in Paths, d, e \in Changesets : Over(e, q)' /\ backup'[e][q] = d =>
              (q \in row[d].applied \/ LostBy(d)) /\ ~(d = c /\ q = p)
        BY <2>8, <3>1, <3>3 DEF Stacking, BaseStands
      <4> QED BY <3>4, <4>1 DEF BaseStands
    <3>7. BaseCovered'
      <4>1. \A q \in Paths, d, e \in Changesets :
              Over(e, q)' /\ backup'[e][q] = d /\ disk'[q] = d => q \in Seen(e)
        BY <2>1, <2>7, <2>8, <3>1, <3>3 DEF Stacking, BaseCovered
      <4> QED BY <1>6, <2>6, <4>1 DEF BaseCovered
    <3>8. OneOver'
      BY <2>8, <3>1 DEF Stacking, OneOver
    <3>9. RestoredGone'
      BY <2>1, <2>8, <3>1, <3>3 DEF Stacking, RestoredGone
    <3> QED BY <3>5, <3>6, <3>7, <3>8, <3>9
  <2> QED BY <1>2, <1>4, <1>5, <2>2, <2>3, <2>4, <2>5, <2>9, <2>10
<1> QED BY <1>7, <1>8, UndoMoves

\* A step beside the applies: what they have read, backed up and renamed stays.
LEMMA Standstill ==
  ASSUME Advancing, TypeOK', TempKnown,
         UNCHANGED <<disk, backup, temp, locks, ap, edits>>, windows \subseteq windows',
         \A d \in Changesets : granted'[<<d, "change">>] = granted[<<d, "change">>],
         \A d \in Changesets : row'[d].applied \subseteq row[d].applied,
         \A d \in Changesets : rb'[d].todo \subseteq rb[d].todo \cup row[d].applied
  PROVE  /\ Advancing' /\ TempKnown'
         /\ \A d \in Changesets :
              /\ Seen(d)' = Seen(d) /\ Saved(d)' = Saved(d) /\ ap'[d] = ap[d]
              /\ \A q : Turn(d, q)' <=> Turn(d, q)
<1> USE DEF Advancing
<1>1. \A d \in Changesets : ap'[d] = ap[d]
  OBVIOUS
<1>2. \A d \in Changesets : \A q : Turn(d, q)' <=> Turn(d, q)
  BY <1>1 DEF Turn
<1>3. \A d \in Changesets : Seen(d)' = Seen(d) /\ Saved(d)' = Saved(d) /\ Held(d)' = Held(d)
  BY <1>1, <1>2 DEF Seen, Saved, Held, InFlight
<1>4. FilesKnown'
  BY <1>1 DEF FilesKnown, FilesOf
<1>5. RowsKnown'
  BY <1>1 DEF RowsKnown
<1>6. LocksKnown'
  BY <1>3 DEF LocksKnown
<1>7. NoBackupYet'
  BY <1>1 DEF NoBackupYet
<1>8. Paid'
  <2>1. \A d \in Changesets : Granted(d)' <=> Granted(d)
    BY DEF Granted
  <2> HIDE DEF Granted
  <2> QED BY <1>1, <2>1 DEF Paid
<1>9. Undisturbed'
  BY <1>1, <1>3 DEF Undisturbed
<1>10. TempKnown'
  BY <1>1 DEF TempKnown
<1> QED BY <1>1, <1>2, <1>3, <1>4, <1>5, <1>6, <1>7, <1>8, <1>9, <1>10

\* One that keeps the file rows as well, and marks no file as being restored.
LEMMA Beside ==
  ASSUME IInv, TypeOK', NEW c \in Changesets,
         UNCHANGED <<disk, backup, temp, locks, ap, edits>>, windows \subseteq windows',
         \A d \in Changesets : granted'[<<d, "change">>] = granted[<<d, "change">>],
         \A d \in Changesets : row'[d].applied = row[d].applied,
         \A d \in Changesets \ {c} : row'[d] = row[d] /\ rb'[d] = rb[d] /\ vf'[d] = vf[d],
         rb'[c].todo \subseteq rb[c].todo \cup row[c].applied,
         rb'[c] = rb[c] \/ (rb[c].pc /= "mark" /\ rb'[c].pc /= "mark"),
         Solo' /\ StatusKnown(c) /\ OneActor(c) /\ AppliedKnown(c) =>
           StatusKnown(c)' /\ OneActor(c)' /\ AppliedKnown(c)'
  PROVE  IInv'
<1> USE DEF IInv
<1>1. /\ Advancing' /\ TempKnown'
      /\ \A d \in Changesets :
           /\ Seen(d)' = Seen(d) /\ Saved(d)' = Saved(d) /\ ap'[d] = ap[d]
           /\ \A q : Turn(d, q)' <=> Turn(d, q)
  BY Standstill
<1>2. Alone'
  BY AloneOthers DEF Others
<1>3. ASSUME NEW d \in Changesets, NEW q \in Paths PROVE Restored(d, q)' <=> Restored(d, q)
  <2>1. CASE rb'[d] = rb[d]
    BY <2>1 DEF Restored, RestoreTurn, RequestOrder, Position
  <2>2. CASE rb[d].pc /= "mark" /\ rb'[d].pc /= "mark"
    BY <2>2 DEF Restored
  <2> QED BY <2>1, <2>2
<1>4. \A d \in Changesets, q \in Paths : Over(d, q)' <=> Over(d, q)
  BY <1>1 DEF Over
<1>5. BackupsKept' /\ Stacking'
  BY <1>1, <1>3, <1>4, StackStays
<1> QED BY <1>1, <1>2, <1>5

\* verify.
LEMMA VerifyKeeps ==
  ASSUME IInv, NEW c \in Changesets, VerifyFails(c) \/ Verify(c) \/ VerifyEnds(c)
  PROVE  IInv'
<1>1. UNCHANGED <<disk, backup, temp, locks, ap, rb, granted, edits>>
  BY DEF VerifyFails, Verify, VerifyEnds, remote, bounds
<1>2. /\ TypeOK' /\ windows' = windows \cup Race(c) /\ windows \subseteq windows'
      /\ row'[c].applied = row[c].applied
      /\ \A d \in Changesets \ {c} : row'[d] = row[d] /\ vf'[d] = vf[d]
  BY VerifyMoves DEF IInv, Advancing
<1>3. \/ Standing(c) /\ row'[c].status \in {"failed", "validated"} /\ (vf' = vf \/ row'[c].status = "validated")
      \/ vf[c] = "validated" /\ row[c].status = "validated" /\ row'[c].status = "verified" /\ vf'[c] = "idle"
      \/ vf[c] = "validated" /\ row' = row /\ vf'[c] = "idle"
  BY ZenonT(40), VerifyMoves DEF IInv, Advancing, VerifyEnds, TypeOK
<1>4. ASSUME Solo', StatusKnown(c), OneActor(c), AppliedKnown(c)
      PROVE  StatusKnown(c)' /\ OneActor(c)' /\ AppliedKnown(c)'
  <2>1. ~InFlight(c) /\ rb[c].pc \in {"idle", "queued"}
    BY <1>2, <1>4, RaceFacts DEF Solo
  <2>2. ap[c].pc = "end"
    BY <1>3, <1>4, <2>1 DEF StatusKnown, OneActor, Standing, InFlight
  <2>3. Standing(c) \/ row[c].status = "validated" => ap[c].result = "applied"
    BY <1>4, <2>2 DEF StatusKnown, Standing
  <2>4. StatusKnown(c)'
    BY <1>1, <1>3, <1>4, <2>2, <2>3 DEF StatusKnown, Standing, Renaming
  <2>5. OneActor(c)'
    BY <1>1, <2>1, <2>2 DEF OneActor
  <2>6. AppliedKnown(c)'
    BY <1>1, <1>2, <1>3, <1>4, <2>1, <2>2, <2>3 DEF AppliedKnown, Standing
  <2> QED BY <2>4, <2>5, <2>6
<1>5. \A d \in Changesets : row'[d].applied = row[d].applied
  BY <1>2
<1> QED BY <1>1, <1>2, <1>4, <1>5, Beside

\* An approval for a rollback.
LEMMA GrantKeeps ==
  ASSUME IInv, NEW c \in Changesets, Grant(c)
  PROVE  IInv'
<1>1. UNCHANGED <<disk, backup, temp, row, locks, ap, rb, vf, edits, windows>>
  BY DEF Grant, remote
<1>2. TypeOK' /\ \A d \in Changesets : granted'[<<d, "change">>] = granted[<<d, "change">>]
  BY GrantMoves DEF IInv, Advancing
<1>3. StatusKnown(c) /\ OneActor(c) /\ AppliedKnown(c) => StatusKnown(c)' /\ OneActor(c)' /\ AppliedKnown(c)'
  BY <1>1 DEF StatusKnown, OneActor, AppliedKnown, Standing
<1> QED BY <1>1, <1>2, <1>3, Beside

\* The route of a rollback.
LEMMA RequestRollbackKeeps ==
  ASSUME IInv, NEW c \in Changesets, RequestRollback(c)
  PROVE  IInv'
<1>1. UNCHANGED <<disk, backup, temp, row, locks, ap, vf, granted, edits, windows>>
  BY DEF RequestRollback, remote, bounds
<1>2. /\ TypeOK' /\ rb[c].pc = "idle" /\ rb'[c].pc = "queued" /\ rb'[c].todo = {}
      /\ \A d \in Changesets \ {c} : rb'[d] = rb[d]
  BY RequestRollbackMoves DEF IInv, Advancing, RollsBack
<1>3. ASSUME StatusKnown(c), OneActor(c), AppliedKnown(c)
      PROVE  StatusKnown(c)' /\ OneActor(c)' /\ AppliedKnown(c)'
  <2>1. StatusKnown(c)'
    BY <1>1, <1>3 DEF StatusKnown
  <2>2. OneActor(c)'
    BY <1>1, <1>2, <1>3 DEF OneActor
  <2>3. AppliedKnown(c)'
    BY <1>1, <1>2, <1>3 DEF AppliedKnown
  <2> QED BY <2>1, <2>2, <2>3
<1> QED BY <1>1, <1>2, <1>3, Beside

\* The handler of a rollback.
LEMMA StartRollbackKeeps ==
  ASSUME IInv, NEW c \in Changesets, StartRollback(c)
  PROVE  IInv'
<1>1. UNCHANGED <<disk, backup, temp, row, locks, ap, vf, edits>>
  BY DEF StartRollback, remote, bounds
<1>2. /\ TypeOK' /\ rb[c].pc = "queued" /\ windows \subseteq windows'
      /\ \A d \in Changesets : granted'[<<d, "change">>] = granted[<<d, "change">>]
      /\ \A d \in Changesets \ {c} : rb'[d] = rb[d]
      /\ \/ rb'[c].pc = "idle" /\ rb'[c].todo = {}
         \/ /\ Standing(c) /\ rb'[c].pc = "restore" /\ rb'[c].todo = row[c].applied
            /\ "race" \notin windows' => ~InFlight(c) /\ vf[c] = "idle"
  BY StartRollbackMoves DEF IInv, Advancing, RollsBack
<1>3. ASSUME Solo', StatusKnown(c), OneActor(c), AppliedKnown(c)
      PROVE  StatusKnown(c)' /\ OneActor(c)' /\ AppliedKnown(c)'
  <2>1. StatusKnown(c)'
    BY <1>1, <1>3 DEF StatusKnown
  <2>2. OneActor(c)'
    BY <1>1, <1>2, <1>3 DEF OneActor, Solo, InFlight, StatusKnown, Standing
  <2>3. AppliedKnown(c)'
    BY <1>1, <1>2, <1>3 DEF AppliedKnown
  <2> QED BY <2>1, <2>2, <2>3
<1> QED BY <1>1, <1>2, <1>3, Beside

\* A restore fails.
LEMMA RestoreFailsKeeps ==
  ASSUME IInv, NEW c \in Changesets, NEW p \in Paths, RestoreFails(c, p)
  PROVE  IInv'
<1>1. UNCHANGED <<disk, backup, temp, row, locks, ap, vf, granted, edits>>
  BY DEF RestoreFails, remote
<1>2. /\ TypeOK' /\ rb[c].pc = "restore" /\ windows' = windows \cup {"partial"}
      /\ rb'[c].pc = "idle" /\ rb'[c].todo = {} /\ \A d \in Changesets \ {c} : rb'[d] = rb[d]
  BY RestoreFailsMoves DEF IInv, Advancing, RollsBack
<1>3. ASSUME StatusKnown(c), OneActor(c), AppliedKnown(c)
      PROVE  StatusKnown(c)' /\ OneActor(c)' /\ AppliedKnown(c)'
  <2>1. StatusKnown(c)'
    BY <1>1, <1>3 DEF StatusKnown
  <2>2. OneActor(c)'
    BY <1>1, <1>2, <1>3 DEF OneActor
  <2>3. AppliedKnown(c)'
    BY <1>1, <1>2, <1>3 DEF AppliedKnown
  <2> QED BY <2>1, <2>2, <2>3
<1> QED BY <1>1, <1>2, <1>3, Beside

\* The end of a rollback.
LEMMA EndRollbackKeeps ==
  ASSUME IInv, NEW c \in Changesets, EndRollback(c)
  PROVE  IInv'
<1>1. UNCHANGED <<disk, backup, temp, locks, ap, vf, granted, edits, windows>>
  BY DEF EndRollback, remote, bounds
<1>2. /\ TypeOK' /\ rb[c].pc = "restore" /\ rb[c].todo = {}
      /\ rb'[c].pc = "idle" /\ rb'[c].todo = {} /\ \A d \in Changesets \ {c} : rb'[d] = rb[d]
      /\ row'[c].applied = row[c].applied /\ \A d \in Changesets \ {c} : row'[d] = row[d]
  BY EndRollbackMoves DEF IInv, Advancing, RollsBack
<1>3. \/ Standing(c) /\ row'[c].status = "rolled_back"
      \/ ~MayMove(c, "rolled_back") /\ row' = row
  BY EndRollbackMoves DEF IInv, Advancing
<1>4. ASSUME Solo', StatusKnown(c), OneActor(c), AppliedKnown(c)
      PROVE  StatusKnown(c)' /\ OneActor(c)' /\ AppliedKnown(c)'
  <2>1. Standing(c) /\ row[c].applied = {} /\ ap[c].pc = "end"
    BY <1>2, <1>4 DEF OneActor
  <2>2. row'[c].status = "rolled_back"
    BY <1>3, <2>1 DEF Standing, MayMove, Predecessors, Terminal
  <2>3. ap[c].result \in {"applied", "rolled_back"}
    BY <1>4, <2>1 DEF StatusKnown, Standing
  <2>4. StatusKnown(c)'
    BY <1>1, <2>1, <2>2, <2>3 DEF StatusKnown, Renaming
  <2>5. OneActor(c)'
    BY <1>1, <1>2, <1>4, <2>1 DEF OneActor
  <2>6. AppliedKnown(c)'
    BY <1>1, <1>2, <2>1, <2>2 DEF AppliedKnown
  <2> QED BY <2>4, <2>5, <2>6
<1>5. \A d \in Changesets : row'[d].applied = row[d].applied
  BY <1>2
<1> QED BY <1>1, <1>2, <1>4, <1>5, Beside

\* A rollback restores one file at a time.
LEMMA OneTurn ==
  ASSUME Advancing, NEW c \in Changesets, NEW p, NEW q, RestoreTurn(c, p), RestoreTurn(c, q)
  PROVE  p = q
<1>1. p \in PathsOf(c) /\ q \in PathsOf(c)
  BY DEF RestoreTurn, Advancing, RowsKnown, FilesKnown, FilesOf
<1>2. Request[c] \in Seq(Paths)
  BY ChangeConstants
<1>3. DOMAIN Request[c] \subseteq Int
  BY <1>2
<1>4. Position(c, p) \in Int /\ Position(c, q) \in Int
  BY <1>1, <1>3 DEF PathsOf, Position
<1>5. p /= q => Position(c, q) < Position(c, p) /\ Position(c, p) < Position(c, q)
  BY DEF RestoreTurn, RequestOrder
<1> QED BY <1>4, <1>5

\* A rollback puts one file back.
LEMMA RestoreFileKeeps ==
  ASSUME IInv, NEW c \in Changesets, NEW p \in Paths, RestoreFile(c, p)
  PROVE  IInv'
<1> USE DEF IInv, Advancing
<1>1. UNCHANGED <<temp, row, locks, ap, vf, granted, grants, faults, edits>>
  BY DEF RestoreFile, bounds
<1>2. /\ TypeOK' /\ rb[c].pc = "restore" /\ RestoreTurn(c, p) /\ p \in rb[c].todo /\ PutBack(c, p)
      /\ rb'[c].pc = "mark" /\ rb'[c].todo = rb[c].todo /\ \A d \in Changesets \ {c} : rb'[d] = rb[d]
  BY RestoreFileMoves DEF RollsBack
<1>3. p \in ap[c].applied /\ \A d \in Changesets : ap'[d] = ap[d]
  BY <1>1, <1>2 DEF RowsKnown
<1>4. /\ \A q \in Paths \ {p} : disk'[q] = disk[q] /\ backup'[c][q] = backup[c][q]
      /\ \A d \in Changesets \ {c} : backup'[d] = backup[d]
      /\ backup'[c][p] = Absent
      /\ windows \subseteq windows' /\ windows' \subseteq windows \cup {"stacked", "unlocked"}
  BY <1>2, PutBackFacts
<1>5. /\ NoBackupYet' /\ Paid' /\ Undisturbed'
      /\ \A d \in Changesets :
           /\ Seen(d)' = Seen(d) /\ Saved(d)' = Saved(d)
           /\ \A q : (ap[d].pc = "mark" /\ Turn(d, q))' <=> (ap[d].pc = "mark" /\ Turn(d, q))
      /\ "unlocked" \notin windows' => \A d \in Changesets : p \notin Seen(d)
  BY <1>1, <1>2, <1>3, PuttingBack DEF Others
<1>6. FilesKnown' /\ RowsKnown'
  BY <1>1, <1>2, <1>3 DEF FilesKnown, FilesOf, RowsKnown
<1>7. LocksKnown'
  <2>1. \A d \in Changesets : Held(d)' = Held(d)
    BY <1>3 DEF Held, InFlight
  <2> QED BY <1>1, <2>1 DEF LocksKnown
<1>8. TempKnown'
  BY <1>1, <1>3, <1>4 DEF TempKnown
<1>9. Alone'
  <2>1. ASSUME StatusKnown(c), OneActor(c), AppliedKnown(c)
        PROVE  StatusKnown(c)' /\ OneActor(c)' /\ AppliedKnown(c)'
    <3>1. StatusKnown(c)'
      BY <1>1, <2>1 DEF StatusKnown
    <3>2. OneActor(c)'
      BY <1>1, <1>2, <2>1 DEF OneActor, Standing
    <3>3. AppliedKnown(c)'
      BY <1>1, <1>2, <2>1 DEF AppliedKnown
    <3> QED BY <3>1, <3>2, <3>3
  <2> QED BY <1>1, <1>2, <1>3, <1>4, <2>1, AloneOthers DEF Others
<1>10. \A d \in Changesets, q \in Paths :
         /\ Over(d, q)' <=> Over(d, q)
         /\ d /= c \/ q /= p => backup'[d][q] = backup[d][q] /\ (Restored(d, q)' <=> Restored(d, q))
         /\ LostBy(d) => LostBy(d)'
  <2>1. \A d \in Changesets, q \in Paths : Over(d, q)' <=> Over(d, q)
    BY <1>1, <1>5 DEF Over
  <2>2. ASSUME NEW d \in Changesets \ {c}, NEW q \in Paths PROVE Restored(d, q)' <=> Restored(d, q)
    BY SMTT(40), <1>2 DEF Restored, RestoreTurn, RequestOrder, Position
  <2>3. ASSUME NEW q \in Paths \ {p} PROVE Restored(c, q)' <=> Restored(c, q)
    <3>1. RestoreTurn(c, q)' <=> RestoreTurn(c, q)
      BY <1>2 DEF RestoreTurn, RequestOrder, Position
    <3>2. ~RestoreTurn(c, q)
      BY <1>2, OneTurn
    <3> QED BY <1>2, <3>1, <3>2 DEF Restored
  <2> QED BY <1>3, <1>4, <2>1, <2>2, <2>3 DEF LostBy
<1>11. Restored(c, p)'
  BY <1>2 DEF Restored, RestoreTurn, RequestOrder, Position
<1>12. BackupsKept'
  BY <1>3, <1>4, <1>10, <1>11 DEF BackupsKept
<1>13. Stacking'
  <2> SUFFICES ASSUME Quiet' PROVE OnDisk' /\ BaseStands' /\ BaseCovered' /\ OneOver' /\ RestoredGone'
    BY DEF Stacking
  <2>1. Quiet /\ Solo /\ \A d \in Changesets : p \notin Seen(d)
    BY <1>4, <1>5 DEF Quiet, Solo
  <2>2. p \in row[c].applied
    BY <1>2, <2>1 DEF Alone, OneActor
  <2>3. /\ \A d \in Changesets : Over(d, p) => backup[d][p] /= c
        /\ \A d \in Changesets : disk'[p] = d =>
             /\ d /= c /\ (p \in row[d].applied \/ LostBy(d))
             /\ \A e \in Changesets \ {c} : Over(e, p) => backup[e][p] /= d
        /\ \A d \in Changesets : disk'[p] = d => ~Restored(d, p)
    BY <1>2, <2>1, <2>2, ComingBack
  <2>4. OnDisk'
    BY <1>1, <1>3, <1>4, <1>5, <1>10, <2>1, <2>3 DEF Stacking, OnDisk
  <2>5. BaseStands'
    BY <1>1, <1>4, <1>10, <2>1, ContentFacts DEF Stacking, BaseStands
  <2>6. BaseCovered'
    BY <1>4, <1>5, <1>10, <2>1, <2>3, ContentFacts DEF Stacking, BaseCovered
  <2>7. OneOver'
    BY <1>4, <1>10, <2>1, ContentFacts DEF Stacking, OneOver
  <2>8. RestoredGone'
    BY <1>4, <1>10, <2>1, <2>3, ContentFacts DEF Stacking, RestoredGone
  <2> QED BY <2>4, <2>5, <2>6, <2>7, <2>8
<1> QED BY <1>2, <1>5, <1>6, <1>7, <1>8, <1>9, <1>12, <1>13

\* A rollback clears the row of that file.
LEMMA MarkRestoredKeeps ==
  ASSUME IInv, NEW c \in Changesets, NEW p \in Paths, MarkRestored(c, p)
  PROVE  IInv'
<1> USE DEF IInv
<1>1. UNCHANGED <<disk, backup, temp, locks, ap, vf, granted, edits, windows>>
  BY DEF MarkRestored, remote, bounds
<1>2. /\ TypeOK' /\ rb[c].pc = "mark" /\ RestoreTurn(c, p) /\ p \in rb[c].todo
      /\ rb'[c].pc = "restore" /\ rb'[c].todo = rb[c].todo \ {p}
      /\ \A d \in Changesets \ {c} : rb'[d] = rb[d]
      /\ row'[c].status = row[c].status /\ row'[c].applied = row[c].applied \ {p}
      /\ \A d \in Changesets \ {c} : row'[d] = row[d]
  BY MarkRestoredMoves DEF RollsBack, Advancing
<1>3. /\ Advancing' /\ TempKnown'
      /\ \A d \in Changesets :
           /\ Seen(d)' = Seen(d) /\ Saved(d)' = Saved(d) /\ ap'[d] = ap[d]
           /\ \A q : Turn(d, q)' <=> Turn(d, q)
  <2>1. /\ \A d \in Changesets : row'[d].applied \subseteq row[d].applied
        /\ \A d \in Changesets : rb'[d].todo \subseteq rb[d].todo \cup row[d].applied
    BY <1>2
  <2> QED BY <1>1, <1>2, <2>1, Standstill
<1>4. ASSUME Solo PROVE ap[c].pc = "end" /\ Saved(c) = {} /\ row[c].applied = rb[c].todo
  <2>1. ap[c].pc = "end" /\ row[c].applied = rb[c].todo
    BY <1>2, <1>4 DEF Alone, OneActor
  <2> QED BY <2>1 DEF Saved, Renaming
<1>5. Alone'
  <2>1. ASSUME Solo, StatusKnown(c), OneActor(c), AppliedKnown(c)
        PROVE  StatusKnown(c)' /\ OneActor(c)' /\ AppliedKnown(c)'
    <3>1. StatusKnown(c)'
      BY <1>1, <1>2, <2>1 DEF StatusKnown
    <3>2. OneActor(c)'
      BY <1>1, <1>2, <1>4, <2>1 DEF OneActor, Standing
    <3>3. AppliedKnown(c)'
      BY <1>1, <1>2, <1>4, <2>1 DEF AppliedKnown
    <3> QED BY <3>1, <3>2, <3>3
  <2> QED BY <1>1, <1>2, <1>3, <2>1, AloneOthers DEF Others
<1>6. \A d \in Changesets, q \in Paths :
        /\ Over(d, q)' => Over(d, q)
        /\ Solo => ~Over(c, p)'
        /\ Restored(d, q)' <=> Restored(d, q) /\ d /= c
        /\ LostBy(d)' <=> LostBy(d)
        /\ Restored(c, q) => q = p
  <2>1. \A d \in Changesets, q \in Paths : Over(d, q)' => Over(d, q)
    BY <1>2, <1>3 DEF Over
  <2>2. Solo => ~Over(c, p)'
    BY <1>2, <1>3, <1>4 DEF Over
  <2>3. ASSUME NEW d \in Changesets \ {c}, NEW q \in Paths PROVE Restored(d, q)' <=> Restored(d, q)
    <3>1. rb'[d] = rb[d]
      BY <1>2
    <3> QED BY <3>1 DEF Restored, RestoreTurn, RequestOrder, Position
  <2>4. \A q \in Paths : ~Restored(c, q)' /\ (Restored(c, q) => q = p)
    BY <1>2, OneTurn DEF Restored
  <2> QED BY <1>1, <1>3, <2>1, <2>2, <2>3, <2>4 DEF LostBy
<1>7. BackupsKept'
  <2> SUFFICES ASSUME windows \subseteq {"partial", "stacked", "unlocked"}, NEW d \in Changesets,
                      NEW q \in Paths, Over(d, q)'
               PROVE  Restored(d, q)' \/ ap'[d].read[q] = Absent \/ backup'[d][q] = ap'[d].read[q]
    BY <1>1 DEF BackupsKept
  <2>1. Solo
    BY DEF Solo
  <2>2. Restored(d, q) \/ ap[d].read[q] = Absent \/ backup[d][q] = ap[d].read[q]
    BY <1>6 DEF BackupsKept
  <2> QED BY <1>1, <1>3, <1>6, <2>1, <2>2
<1>8. Stacking'
  <2> SUFFICES ASSUME Quiet PROVE OnDisk' /\ BaseStands' /\ BaseCovered' /\ OneOver' /\ RestoredGone'
    BY <1>1 DEF Stacking, Quiet
  <2>1. Solo /\ Restored(c, p)
    BY <1>2 DEF Quiet, Solo, Restored
  <2>2. disk[p] /= c /\ \A d \in Changesets : Over(d, p) => backup[d][p] /= c
    BY <2>1 DEF Stacking, RestoredGone
  <2>3. \A d \in Changesets, q \in Paths : q \in row[d].applied => q \in row'[d].applied \/ (d = c /\ q = p)
    BY <1>2
  <2>4. OnDisk'
    BY <1>1, <1>3, <1>6, <2>2, <2>3 DEF Stacking, OnDisk
  <2>5. BaseStands'
    BY <1>1, <1>6, <2>2, <2>3 DEF Stacking, BaseStands
  <2>6. BaseCovered'
    BY <1>1, <1>3, <1>6 DEF Stacking, BaseCovered
  <2>7. OneOver'
    BY <1>1, <1>6 DEF Stacking, OneOver
  <2>8. RestoredGone'
    BY <1>1, <1>6 DEF Stacking, RestoredGone
  <2> QED BY <2>4, <2>5, <2>6, <2>7, <2>8
<1> QED BY <1>3, <1>5, <1>7, <1>8

\* Somebody edits a file.
LEMMA EditKeeps ==
  ASSUME IInv, NEW p \in Paths, Edit(p)
  PROVE  IInv'
<1> USE DEF IInv, Advancing
<1>1. UNCHANGED <<backup, temp, row, locks, ap, rb, vf, granted, windows>>
  BY DEF Edit
<1>2. /\ TypeOK' /\ edits' /= 0
      /\ \A q \in Paths, d \in Changesets : disk'[q] = d => disk[q] = d
  BY EditMoves, ContentFacts
<1>3. \A d \in Changesets : ap'[d] = ap[d] /\ \A q : Turn(d, q)' <=> Turn(d, q)
  BY <1>1 DEF Turn
<1>4. \A d \in Changesets : Seen(d)' = Seen(d) /\ Saved(d)' = Saved(d) /\ Held(d)' = Held(d)
  BY <1>3 DEF Seen, Saved, Held, InFlight
<1>5. FilesKnown' /\ RowsKnown' /\ LocksKnown' /\ NoBackupYet'
  BY <1>1, <1>3, <1>4 DEF FilesKnown, FilesOf, RowsKnown, LocksKnown, NoBackupYet
<1>6. Paid'
  <2>1. \A d \in Changesets : Granted(d)' <=> Granted(d)
    BY <1>1 DEF Granted
  <2> HIDE DEF Granted
  <2> QED BY <1>1, <1>2, <1>3, <2>1 DEF Paid
<1>7. Undisturbed'
  BY <1>2 DEF Undisturbed
<1>8. Alone'
  <2>1. \A d \in Changesets : row'[d] = row[d] /\ rb'[d] = rb[d] /\ vf'[d] = vf[d]
    BY <1>1
  <2>2. \A d \in Changesets : StatusKnown(d) => StatusKnown(d)'
    BY <1>3, <2>1 DEF StatusKnown
  <2>3. \A d \in Changesets : OneActor(d) => OneActor(d)'
    BY <1>3, <2>1 DEF OneActor, Standing
  <2>4. \A d \in Changesets : AppliedKnown(d) => AppliedKnown(d)'
    BY <1>1, <1>3, <2>1 DEF AppliedKnown
  <2> QED BY <1>1, <2>2, <2>3, <2>4 DEF Alone, Solo
<1>9. TempKnown'
  BY <1>1, <1>3 DEF TempKnown
<1>10. \A d \in Changesets, q \in Paths :
         /\ Over(d, q)' <=> Over(d, q)
         /\ Restored(d, q)' <=> Restored(d, q)
         /\ LostBy(d)' <=> LostBy(d)
  BY <1>1, <1>4, RestoredStays DEF Over, LostBy
<1>11. BackupsKept'
  BY <1>1, <1>3, <1>10 DEF BackupsKept
<1>12. Stacking'
  <2> SUFFICES ASSUME Quiet PROVE OnDisk' /\ BaseStands' /\ BaseCovered' /\ OneOver' /\ RestoredGone'
    BY <1>1 DEF Stacking, Quiet
  <2>1. OnDisk'
    BY <1>1, <1>2, <1>3, <1>10 DEF Stacking, OnDisk
  <2>2. BaseStands' /\ OneOver'
    BY <1>1, <1>10 DEF Stacking, BaseStands, OneOver
  <2>3. BaseCovered'
    BY <1>1, <1>2, <1>4, <1>10 DEF Stacking, BaseCovered
  <2>4. RestoredGone'
    BY <1>1, <1>2, <1>10 DEF Stacking, RestoredGone
  <2> QED BY <2>1, <2>2, <2>3, <2>4
<1> QED BY <1>2, <1>5, <1>6, <1>7, <1>8, <1>9, <1>11, <1>12

\* The process dies.
LEMMA CrashKeeps ==
  ASSUME IInv, Crash
  PROVE  IInv'
<1> USE DEF IInv, Advancing
<1>1. UNCHANGED <<disk, backup, temp, row, granted, edits>>
  BY DEF Crash, remote
<1>2. /\ TypeOK' /\ "died" \in windows' /\ windows \subseteq windows'
      /\ \A q \in Paths : locks'[q] = None
      /\ \A d \in Changesets : rb'[d].todo = {} \/ rb'[d] = rb[d]
  BY CrashMoves
<1>3. \A d \in Changesets :
        \/ /\ ap[d].pc \in {"new", "end"} /\ ap'[d] = ap[d]
        \/ /\ ap'[d].pc = "end" /\ ap'[d].todo = ap[d].todo /\ ap'[d].applied = ap[d].applied
           /\ ap'[d].result = "died"
  BY CrashMoves, EndFacts DEF InFlight
<1>4. \A d \in Changesets : Held(d)' = {} /\ Seen(d)' = {}
  <2> SUFFICES ASSUME NEW d \in Changesets PROVE Held(d)' = {} /\ Seen(d)' = {}
    OBVIOUS
  <2>1. ap'[d].pc \in {"new", "end"}
    BY <1>3
  <2> QED BY <2>1 DEF Held, Seen, InFlight
<1>5. FilesKnown'
  <2> SUFFICES ASSUME NEW d \in Changesets PROVE FilesOf(d)'
    BY DEF FilesKnown
  <2>1. FilesOf(d)
    BY DEF FilesKnown
  <2> QED BY <1>3, <2>1 DEF FilesOf, Preparing, Early, Renaming
<1>6. RowsKnown'
  BY <1>1, <1>2, <1>3 DEF RowsKnown
<1>7. LocksKnown'
  BY <1>2, <1>4, ContentFacts DEF LocksKnown
<1>8. NoBackupYet'
  BY <1>1, <1>3 DEF NoBackupYet, Early
<1>9. Paid'
  <2>1. \A d \in Changesets : Granted(d)' <=> Granted(d)
    BY <1>1 DEF Granted
  <2>2. \A d \in Changesets : ap'[d].pc \notin Renaming \cup {"return"}
    BY <1>3 DEF Renaming
  <2> HIDE DEF Granted
  <2> QED BY <1>1, <2>1, <2>2 DEF Paid
<1>10. Undisturbed'
  BY <1>4 DEF Undisturbed
<1>11. Alone' /\ TempKnown' /\ BackupsKept' /\ Stacking'
  BY <1>2 DEF Alone, Solo, TempKnown, BackupsKept, Stacking, Quiet
<1> QED BY <1>2, <1>5, <1>6, <1>7, <1>8, <1>9, <1>10, <1>11

-----------------------------------------------------------------------------
(* The invariant and what follows from it. *)

\* The invariant holds before anything has happened.
LEMMA InitHolds ==
  Init => IInv
<1> SUFFICES ASSUME Init PROVE IInv
  OBVIOUS
<1> DEFINE idle == [status |-> "none", applied |-> {}]
<1>1. /\ NoApply \in ApplyState /\ NoApply.pc = "new" /\ NoApply.todo = {} /\ NoApply.applied = {}
      /\ NoApply.written = {} /\ NoApply.undone /\ ~NoApply.uncertain /\ NoApply.result = "none"
  BY ContentFacts DEF NoApply, ApplyState
<1>2. idle \in ChangeSet /\ idle.status = "none" /\ idle.applied = {}
  BY DEF ChangeSet, Status
<1>3. /\ NoRollback \in [pc : {"idle", "queued", "restore", "mark"}, todo : SUBSET Paths]
      /\ NoRollback.pc = "idle" /\ NoRollback.todo = {}
  BY DEF NoRollback
<1>4. \A c \in Changesets :
        ap[c] = NoApply /\ row[c] = idle /\ rb[c] = NoRollback /\ vf[c] = "idle" /\ temp[c] = {}
  BY DEF Init
<1> HIDE DEF idle
<1>5. \A c \in Changesets : ap[c].pc = "new" /\ row[c].applied = {} /\ rb[c].pc = "idle"
  BY <1>1, <1>2, <1>3, <1>4
<1>6. \A c \in Changesets : Seen(c) = {} /\ Saved(c) = {} /\ Held(c) = {}
  BY <1>5 DEF Seen, Saved, Held, InFlight, Renaming
<1>7. TypeOK
  <2>1. {MaxApprovals, MaxFaults, MaxEdits} \subseteq Nat
    BY ChangeConstants
  <2>2. disk \in [Paths -> Content] /\ backup \in [Changesets -> [Paths -> Content]]
    BY ContentFacts DEF Init
  <2>3. ap \in [Changesets -> ApplyState]
    BY <1>1 DEF Init
  <2>4. row \in [Changesets -> ChangeSet]
    BY <1>2 DEF Init, idle
  <2>5. rb \in [Changesets -> [pc : {"idle", "queued", "restore", "mark"}, todo : SUBSET Paths]]
    BY <1>3 DEF Init
  <2>6. granted \in [Changesets \X {"change", "rollback"} -> Nat]
    <3>1. granted \in [Changesets \X {"change", "rollback"} -> {0, 1}] /\ {0, 1} \subseteq Nat
      BY DEF Init
    <3> QED BY <3>1
  <2> QED BY <2>1, <2>2, <2>3, <2>4, <2>5, <2>6 DEF TypeOK, Init
<1>8. FilesKnown /\ RowsKnown
  BY <1>1, <1>3, <1>4, <1>5 DEF FilesKnown, FilesOf, RowsKnown, Renaming
<1>9. LocksKnown
  BY <1>6, ContentFacts DEF LocksKnown, Init
<1>10. NoBackupYet
  BY DEF NoBackupYet, Init
<1>11. Paid
  <2>1. \A c \in Changesets : granted[<<c, "change">>] \in {0, 1}
    BY DEF Init
  <2>2. \A c \in Changesets, p \in Paths : disk[p] /= c /\ \A d \in Changesets : backup[d][p] /= c
    BY ContentFacts DEF Init
  <2> QED BY <1>5, <2>1, <2>2 DEF Paid, Renaming
<1>12. Undisturbed
  BY <1>6 DEF Undisturbed
<1>13. Alone
  <2> SUFFICES ASSUME NEW c \in Changesets PROVE StatusKnown(c) /\ OneActor(c) /\ AppliedKnown(c)
    BY DEF Alone
  <2>1. StatusKnown(c)
    BY <1>2, <1>4, <1>5 DEF StatusKnown, Renaming
  <2>2. OneActor(c)
    BY <1>4, <1>5 DEF OneActor
  <2>3. AppliedKnown(c)
    BY <1>1, <1>4, <1>5 DEF AppliedKnown
  <2> QED BY <2>1, <2>2, <2>3
<1>14. TempKnown
  BY <1>4 DEF TempKnown
<1>15. \A c \in Changesets, p \in Paths : ~Over(c, p) /\ ~Restored(c, p) /\ disk[p] /= c
  BY <1>5, <1>6, ContentFacts DEF Over, Restored, Init
<1>16. BackupsKept /\ Stacking
  BY <1>15 DEF BackupsKept, Stacking, OnDisk, BaseStands, BaseCovered, OneOver, RestoredGone
<1> QED BY <1>7, <1>8, <1>9, <1>10, <1>11, <1>12, <1>13, <1>14, <1>16 DEF IInv, Advancing

\* A stuttering step keeps the invariant.
LEMMA NothingHappens ==
  ASSUME IInv, UNCHANGED vars
  PROVE  IInv'
<1> USE DEF IInv, Advancing, vars
<1>1. UNCHANGED <<disk, backup, temp, row, locks, ap, rb, vf, granted, grants, faults, edits, windows>>
  OBVIOUS
<1>2. TypeOK'
  BY <1>1 DEF TypeOK
<1>3. \A d \in Changesets : /\ ap'[d] = ap[d] /\ row'[d] = row[d] /\ rb'[d] = rb[d] /\ vf'[d] = vf[d]
  BY <1>1
<1>4. \A c \in Changesets : StatusKnown(c) /\ OneActor(c) /\ AppliedKnown(c) =>
                              StatusKnown(c)' /\ OneActor(c)' /\ AppliedKnown(c)'
  <2> SUFFICES ASSUME NEW c \in Changesets, StatusKnown(c), OneActor(c), AppliedKnown(c)
               PROVE  StatusKnown(c)' /\ OneActor(c)' /\ AppliedKnown(c)'
    OBVIOUS
  <2>1. StatusKnown(c)'
    BY <1>3 DEF StatusKnown
  <2>2. OneActor(c)'
    BY <1>3 DEF OneActor, Standing
  <2>3. AppliedKnown(c)'
    BY <1>1, <1>3 DEF AppliedKnown
  <2> QED BY <2>1, <2>2, <2>3
<1>5. ASSUME NEW c \in Changesets PROVE IInv'
  BY <1>1, <1>2, <1>3, <1>4, <1>5, Beside
<1>6. CASE Changesets = {}
  <2>1. FilesKnown' /\ RowsKnown' /\ LocksKnown' /\ NoBackupYet' /\ Paid' /\ Undisturbed'
    BY <1>6 DEF FilesKnown, RowsKnown, LocksKnown, NoBackupYet, Paid, Undisturbed
  <2>2. Alone' /\ TempKnown' /\ BackupsKept' /\ Stacking'
    BY <1>6 DEF Alone, TempKnown, BackupsKept, Stacking, OnDisk, BaseStands, BaseCovered, OneOver,
                RestoredGone
  <2> QED BY <1>2, <2>1, <2>2
<1> QED BY <1>5, <1>6

\* Every step keeps the invariant.
LEMMA StepKeeps ==
  ASSUME IInv, [Next]_vars
  PROVE  IInv'
<1>1. ASSUME NEW c \in Changesets, ApplyStep(c)
      PROVE  IInv'
  <2>1. CASE Journal(c) \/ BackUpLocally(c) \/ CheckAndConsume(c) \/ Return(c) \/ Settle(c)
    BY <2>1, JournalKeeps, BackUpLocallyKeeps, CheckAndConsumeKeeps, ReturnKeeps, SettleKeeps
  <2>2. CASE \E p \in Paths : \/ Acquire(c, p) \/ Read(c, p) \/ BackUpRemotely(c, p) \/ WriteTemp(c, p)
                               \/ Rename(c, p) \/ Mark(c, p) \/ Undo(c, p)
    BY <2>2, AcquireKeeps, ReadKeeps, BackUpRemotelyKeeps, WriteTempKeeps, RenameKeeps, MarkKeeps,
       UndoKeeps
  <2> QED BY <1>1, <2>1, <2>2 DEF ApplyStep
<1>2. ASSUME NEW c \in Changesets, RollbackStep(c)
      PROVE  IInv'
  BY <1>2, StartRollbackKeeps, EndRollbackKeeps, RestoreFileKeeps, MarkRestoredKeeps, RestoreFailsKeeps
     DEF RollbackStep
<1>3. ASSUME NEW c \in Changesets,
             \/ Apply(c) \/ Unresolved(c)
             \/ \E p \in Paths, effect, timeout \in BOOLEAN : CallFails(c, p, effect, timeout)
             \/ VerifyFails(c) \/ Verify(c) \/ VerifyEnds(c) \/ Grant(c) \/ RequestRollback(c)
      PROVE  IInv'
  BY <1>3, ApplyStarts, CallFailsKeeps, VerifyKeeps, GrantKeeps, RequestRollbackKeeps
<1>4. CASE (\E p \in Paths : Edit(p)) \/ Crash
  BY <1>4, EditKeeps, CrashKeeps
<1>5. CASE UNCHANGED vars
  BY <1>5, NothingHappens
<1> QED BY <1>1, <1>2, <1>3, <1>4, <1>5 DEF Next

\* Journal, locks, backups and files agree in every state of every behaviour, as
\* far as the windows that were hit leave it to the code.
THEOREM ChangesInvariant == Spec => []IInv
<1>1. Init => IInv
  BY InitHolds
<1>2. IInv /\ [Next]_vars => IInv'
  BY StepKeeps
<1> QED BY <1>1, <1>2, PTL DEF Spec

\* A change set is applied as a whole or not at all, every file its rows name can be
\* put back from the backup of apply, and a protected file is replaced only under
\* an approval that is spent (apply, _handle_failure, rollback, verify).
THEOREM AppliedAsAWhole == Spec => []AllOrNothing
<1>1. IInv => AllOrNothing
  <2> SUFFICES ASSUME IInv PROVE AllOrNothing
    OBVIOUS
  <2> USE DEF IInv, Advancing
  <2>1. \A c \in Changesets : row[c].applied \subseteq Paths
    BY DEF TypeOK, ChangeSet
  <2>2. AppliedCanBeRestored
    BY <2>1 DEF BackupsKept, AppliedCanBeRestored, Over, Restored
  <2>3. SettledMeansWhole
    <3> SUFFICES ASSUME windows \subseteq {"partial"}, NEW c \in Changesets, AtRest(c)
                 PROVE  /\ row[c].status = "rolled_back" => row[c].applied = {}
                        /\ row[c].status \in {"applied", "validated", "verified"} =>
                             row[c].applied = PathsOf(c) \/ "partial" \in windows
                        /\ \A p \in PathsOf(c) \ row[c].applied : disk[p] /= c
      BY DEF SettledMeansWhole
    <3>1. AppliedKnown(c) /\ ap[c].pc = "end" /\ rb[c].pc \in {"idle", "queued"}
      BY DEF Alone, Solo, AtRest
    <3>2. ASSUME NEW p \in PathsOf(c) \ row[c].applied PROVE disk[p] /= c
      <4>1. OnDisk /\ p \in Paths
        BY PathsKnown DEF Stacking, Quiet
      <4> QED BY <3>1, <4>1 DEF OnDisk, LostBy
    <3> QED BY <3>1, <3>2 DEF AppliedKnown
  <2>4. ProtectedNeedsApproval
    BY ChangeConstants DEF Paid, Granted, InterruptsService, ProtectedNeedsApproval
  <2> QED BY <2>2, <2>3, <2>4 DEF AllOrNothing
<1> QED BY <1>1, ChangesInvariant, PTL

\* An apply that failed, was undone and is not reported uncertain has left neither
\* content nor a temporary file on the host (_is_uncertain_failure, _handle_failure).
THEOREM FailureLeavesNothing == Spec => []CertainFailureIsClean
<1>1. IInv => CertainFailureIsClean
  <2> SUFFICES ASSUME IInv, windows \subseteq {"lost", "partial"}, NEW c \in Changesets,
                      ap[c].result \in {"failed", "rolled_back"}, ap[c].undone, ~ap[c].uncertain
               PROVE  temp[c] = {} /\ \A p \in Paths : disk[p] /= c
    BY DEF CertainFailureIsClean
  <2> USE DEF IInv, Advancing
  <2>1. ap[c].pc = "end"
    BY DEF FilesKnown, FilesOf
  <2>2. temp[c] = {}
    BY <2>1 DEF TempKnown
  <2>3. row[c].applied = {}
    BY <2>1 DEF Alone, Solo, AppliedKnown
  <2>4. OnDisk
    BY DEF Stacking, Quiet
  <2> QED BY <2>1, <2>2, <2>3, <2>4 DEF OnDisk, LostBy
<1> QED BY <1>1, ChangesInvariant, PTL

\* What apply renames a file over is what it has read under its locks, unless
\* somebody on the host or a rollback without a lock came in between.
THEOREM UpdatesAreKept == Spec => NoLostUpdate
<1>1. IInv /\ [Next]_vars =>
        [\A c \in Changesets, p \in Paths : Rename(c, p) =>
           disk[p] = ap[c].read[p] \/ edits > 0 \/ "unlocked" \in windows]_vars
  <2> SUFFICES ASSUME IInv, NEW c \in Changesets, NEW p \in Paths, Rename(c, p)
               PROVE  disk[p] = ap[c].read[p] \/ edits > 0 \/ "unlocked" \in windows
    OBVIOUS
  <2>1. ap[c].pc = "rename" /\ p \in ap[c].todo
    BY RenameMoves DEF IInv, Advancing
  <2>2. p \in Seen(c)
    BY <2>1 DEF IInv, Advancing, FilesKnown, FilesOf, Seen
  <2>3. edits \in Nat
    BY ChangeConstants DEF IInv, Advancing, TypeOK
  <2> QED BY <2>2, <2>3 DEF IInv, Advancing, Undisturbed
<1> QED BY <1>1, ChangesInvariant, PTL DEF Spec, NoLostUpdate

=============================================================================
