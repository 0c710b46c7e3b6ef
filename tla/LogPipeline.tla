----------------------------- MODULE LogPipeline -----------------------------
(***************************************************************************)
(* Opt-in log subscriptions: the calls that start and stop them, a reader  *)
(* and a writer task per running subscription with a bounded queue between *)
(* them, the durable records and cursors, and the two kinds of socket that *)
(* replay records and follow new ones.  A source is a sequence of lines; a *)
(* line is known by its place, the generation of its file and its text.    *)
(* The cursor of a line of a file is the offset of its end, less the bytes *)
(* it lags behind for blank lines that were read before it.                *)
(***************************************************************************)
EXTENDS Integers, Sequences, FiniteSets

CONSTANTS
  NSubs,          \* subscriptions 1..NSubs, in the order they are created
  Kind,           \* subscription -> "file" or "docker"
  MaxActive,      \* running subscriptions create and the restart allow
  QueueSize,      \* lines between reader and writer
  BatchSize,      \* lines of one batch
  PageSize,       \* records of one replay page
  LiveSize,       \* records a socket's queue holds
  MaxFailures,    \* reader failures in a row that end in status error
  MaxLines,       \* bound: lines ever written to a source
  MaxBlanks,      \* bound: blank lines above a line; those of a file are fewer than a line has bytes
  MaxRotations,   \* bound: rotations of a file
  MaxFaults,      \* bound: failing reads and writes, restarts
  MaxCalls        \* bound: pause, resume and delete calls

Subs == 1..NSubs

ASSUME LogConstants ==
  /\ {NSubs, MaxActive, QueueSize, BatchSize, PageSize, LiveSize, MaxFailures} \subseteq Nat \ {0}
  /\ MaxLines \in [Subs -> Nat] /\ {MaxBlanks, MaxRotations, MaxFaults, MaxCalls} \subseteq Nat
  /\ Kind \in [Subs -> {"file", "docker"}]

VARIABLES
  row,       \* subscription -> status, committed cursor and its lag, first promised line
  task,      \* subscription -> reader, queue and writer while it runs
  waiting,   \* subscription -> calls that have stopped the tasks and not yet marked the row
  src,       \* subscription -> its source; above counts the blank lines above each line
  records,   \* log_records: lines with their stream_sequence
  view,      \* a socket
  faults, calls,
  opened    \* history: the windows hit

logVars == <<row, task, waiting, src, records, view, faults, calls, opened>>

Idle == [on |-> FALSE, lines |-> << >>, queue |-> << >>, pos |-> -1, fails |-> 0]
NoView == [st |-> "off", kind |-> "legacy", pos |-> <<0, 0>>, last |-> 0, seen |-> {}, q |-> << >>,
           paused |-> FALSE]

\* running_subscription_ids
Running == {s \in Subs : task[s].on}

\* A line, and the record made of it: the dedupe key has no generation.
Line(s, i, lag) == [s |-> s, off |-> i, lag |-> lag, gen |-> src[s].gen, text |-> src[s].text]
CursorOf(r) == <<r.off, r.lag>>
DedupeKey(r) == <<r.s, r.off, r.lag, r.text>>

-----------------------------------------------------------------------------
(* Subscription rows and tasks.                                            *)

\* _start: new tasks with an empty queue and no failures; a running
\* subscription is left alone.
Started(s) == [task EXCEPT ![s] = IF @.on THEN @ ELSE [Idle EXCEPT !.on = TRUE]]

\* _stop pops the tasks and cancels them; lines on their way are dropped.
Stopped(s) == [task EXCEPT ![s] = Idle]

\* _transition_status: a conditional update of the status.
MoveStatus(s, from, to) ==
  row' = IF row[s].status \in from THEN [row EXCEPT ![s].status = to] ELSE row

\* The cap, as create reads it.
BelowCap == Cardinality(Running) < MaxActive

\* create_subscription: a new active row without a cursor.
CreateSubscription(s) == [row EXCEPT ![s].status = "active"]

\* create: opt-in and the cap are checked, the source is validated against
\* the registry, the row is written and the tasks are started.
Create(s) ==
  /\ row[s].status = "none" /\ \A r \in 1..(s - 1) : row[r].status /= "none"
  /\ BelowCap
  /\ row' = CreateSubscription(s)
  /\ task' = Started(s)
  /\ UNCHANGED <<waiting, src, records, view, faults, calls, opened>>

Called(s) == row[s].status /= "none" /\ calls < MaxCalls /\ calls' = calls + 1

\* pause and delete: stop the tasks; with none running the row is marked at
\* once, otherwise the call waits for the tasks to end.
Pause(s) ==
  /\ Called(s)
  /\ task' = Stopped(s)
  /\ IF task[s].on THEN waiting' = [waiting EXCEPT ![s] = @ \cup {"pause"}] /\ UNCHANGED row
                   ELSE MoveStatus(s, {"active"}, "paused") /\ UNCHANGED waiting
  /\ UNCHANGED <<src, records, view, faults, opened>>

Delete(s) ==
  /\ Called(s)
  /\ task' = Stopped(s)
  /\ IF task[s].on THEN waiting' = [waiting EXCEPT ![s] = @ \cup {"delete"}] /\ UNCHANGED row
                   ELSE row' = [row EXCEPT ![s].status = "deleted"] /\ UNCHANGED waiting
  /\ UNCHANGED <<src, records, view, faults, opened>>

\* The call marks the row when the tasks have ended.
Marked(s, call) ==
  /\ call \in waiting[s]
  /\ waiting' = [waiting EXCEPT ![s] = @ \ {call}]
  /\ IF call = "delete" THEN row' = [row EXCEPT ![s].status = "deleted"]
                        ELSE MoveStatus(s, {"active"}, "paused")
  /\ UNCHANGED <<task, src, records, view, faults, calls, opened>>

\* resume: from paused or error, without a look at the cap.
Resume(s) ==
  /\ Called(s)
  /\ row[s].status \in {"paused", "error"}
  /\ row' = [row EXCEPT ![s].status = "active"]
  /\ task' = Started(s)
  /\ opened' = opened \cup (IF waiting[s] = {} THEN {} ELSE {"crossed"})
                        \cup (IF Cardinality(Running) < MaxActive THEN {} ELSE {"overcap"})
  /\ UNCHANGED <<waiting, src, records, view, faults>>

\* The process ends; start_active_opt_in starts active rows in order up to
\* the cap.
Restart ==
  /\ faults < MaxFaults /\ faults' = faults + 1
  /\ LET active == {s \in Subs : row[s].status = "active"}
     IN task' = [s \in Subs |->
          IF s \in active /\ Cardinality({r \in active : r < s}) < MaxActive
          THEN [Idle EXCEPT !.on = TRUE] ELSE Idle]
  /\ waiting' = [s \in Subs |-> {}]
  /\ view' = NoView
  /\ UNCHANGED <<row, src, records, calls, opened>>

-----------------------------------------------------------------------------
(* Sources.                                                                *)

\* The blank lines above line i.
Above(s, i) == IF i = 0 THEN 0 ELSE src[s].above[i]

\* A line is written; in a file blank lines may be above it.
WriteLine(s, blanks) ==
  /\ src[s].total < MaxLines[s]
  /\ blanks > 0 => Kind[s] = "file"
  /\ src' = [src EXCEPT ![s].len = @ + 1, ![s].total = @ + 1,
                        ![s].above = Append(@, Above(s, src[s].len) + blanks)]
  /\ opened' = opened \cup (IF blanks > 0 THEN {"blank"} ELSE {})
  /\ UNCHANGED <<row, task, waiting, records, view, faults, calls>>

\* A file is rotated; the new one may hold the same text at the same place.
Rotate(s, text) ==
  /\ Kind[s] = "file" /\ src[s].gen < MaxRotations /\ src[s].len > 0
  /\ src' = [src EXCEPT ![s].gen = @ + 1, ![s].len = 0, ![s].above = << >>, ![s].text = text]
  /\ opened' = opened \cup {"rotated"}
  /\ UNCHANGED <<row, task, waiting, records, view, faults, calls>>

-----------------------------------------------------------------------------
(* Reader.                                                                 *)

\* The lines below a place, read from a cursor that lags there: a blank line
\* is skipped without being counted, so the cursors below it lag more.
LinesBelow(s, from, lag) ==
  [i \in 1..(src[s].len - from) |-> Line(s, from + i, lag + Above(s, from + i) - Above(s, from))]

\* What a cursor that lags by more than the line feed reads first: the end of
\* its own line, a text of its own under the cursor of the true end.
Fragment(s) == [Line(s, row[s].cursor, 0) EXCEPT !.text = row[s].lag]

\* Mutant: one line past the cursor.
SkipOne(s) ==
  LinesBelow(s, IF src[s].len < row[s].cursor THEN 0 ELSE row[s].cursor + 1, row[s].lag)

\* FileLogSource.stream: complete lines behind the cursor; a file shorter
\* than the cursor was rotated and is read from its start.
NewLines(s) ==
  IF src[s].len < row[s].cursor THEN LinesBelow(s, 0, 0)
  ELSE IF row[s].lag > 1 THEN <<Fragment(s)>> \o LinesBelow(s, row[s].cursor, 0)
  ELSE LinesBelow(s, row[s].cursor, row[s].lag)

\* _poll_file: one poll from the committed cursor, after all lines of the
\* last poll have been queued.
PollFile(s) ==
  /\ task[s].on /\ Kind[s] = "file" /\ task[s].lines = << >>
  /\ NewLines(s) /= << >>
  /\ task' = [task EXCEPT ![s].lines = NewLines(s), ![s].fails = 0]
  /\ UNCHANGED <<row, waiting, src, records, view, faults, calls, opened>>

\* A line of the poll is put; put waits while the queue is full.
PutLine(s) ==
  /\ task[s].on /\ task[s].lines /= << >> /\ Len(task[s].queue) < QueueSize
  /\ task' = [task EXCEPT ![s].queue = Append(@, Head(task[s].lines)), ![s].lines = Tail(@)]
  /\ UNCHANGED <<row, waiting, src, records, view, faults, calls, opened>>

\* --since: the cursor's own line is sent again.
Since(s) == row[s].cursor - 1

\* _stream_docker opens the process at the committed cursor; without one it
\* begins a second ago, wherever that is, and never before the last such place.
OpenStream(s) ==
  /\ task[s].on /\ Kind[s] = "docker" /\ task[s].pos = -1
  /\ IF row[s].cursor > 0
     THEN task' = [task EXCEPT ![s].pos = Since(s)] /\ UNCHANGED row
     ELSE \E p \in row[s].from..src[s].len : task' = [task EXCEPT ![s].pos = p] /\ row' = [row EXCEPT ![s].from = p]
  /\ UNCHANGED <<waiting, src, records, view, faults, calls, opened>>

StreamLine(s) ==
  /\ task[s].on /\ task[s].pos \in 0..(src[s].len - 1)
  /\ Len(task[s].queue) < QueueSize
  /\ task' = [task EXCEPT ![s].pos = @ + 1, ![s].queue = Append(@, Line(s, task[s].pos + 1, 0))]
  /\ UNCHANGED <<row, waiting, src, records, view, faults, calls, opened>>

\* The queue stays full past the put timeout: the line is given up, the
\* process is closed and opened again from the committed cursor.
Backpressure(s) ==
  /\ task[s].on /\ task[s].pos \in 0..(src[s].len - 1)
  /\ Len(task[s].queue) = QueueSize
  /\ task' = [task EXCEPT ![s].pos = -1]
  /\ UNCHANGED <<row, waiting, src, records, view, faults, calls, opened>>

\* _teardown_running.
TornDown(s) == Stopped(s)

\* _reader_loop: the next attempt opens the source again from the cursor.
Reopen(s, fails) == [task EXCEPT ![s].pos = -1, ![s].fails = fails]

\* A poll or a stream fails.  After MaxFailures in a row the row becomes
\* error and the tasks are dropped; a deleted row is left alone.
ReaderFails(s) ==
  /\ task[s].on /\ task[s].lines = << >> /\ faults < MaxFaults
  /\ faults' = faults + 1
  /\ IF row[s].status = "deleted"
     THEN task' = Reopen(s, task[s].fails) /\ UNCHANGED row
     ELSE IF task[s].fails + 1 < MaxFailures
     THEN task' = Reopen(s, task[s].fails + 1) /\ UNCHANGED row
     ELSE task' = TornDown(s) /\ row' = [row EXCEPT ![s].status = "error"]
  /\ UNCHANGED <<waiting, src, records, view, calls, opened>>

-----------------------------------------------------------------------------
(* Writer.                                                                 *)

Batch(s) == SubSeq(task[s].queue, 1, IF Len(task[s].queue) < BatchSize THEN Len(task[s].queue) ELSE BatchSize)
Rest(s) == SubSeq(task[s].queue, Len(Batch(s)) + 1, Len(task[s].queue))

Stored(line) == \E r \in records : DedupeKey(r.line) = DedupeKey(line)

\* COALESCE(MAX(...), 0)
Highest(S) == IF S = {} THEN 0 ELSE CHOOSE x \in S : \A y \in S : y <= x

\* latest_product_sequence
LatestSequence == Highest({r.seq : r \in records})

\* The lines of a batch that are not ignored: no row and no line before it
\* has the same dedupe key.
Inserted(b) == {i \in DOMAIN b : /\ ~Stored(b[i])
                                 /\ \A j \in 1..(i - 1) : DedupeKey(b[j]) /= DedupeKey(b[i])}

\* append_batch: insert or ignore by dedupe key, in one transaction; every row
\* takes the next sequence.
AppendBatch(b) ==
  records \cup {[seq |-> LatestSequence + Cardinality({j \in Inserted(b) : j <= i}), line |-> b[i]] :
                  i \in Inserted(b)}

\* _publish_live: every record of the batch, stored before or not, goes to
\* the sockets; a full queue loses its oldest record without a trace.
PublishLive(s, b) ==
  LET all == IF view.kind = "product" \/ s = 1 THEN view.q \o b ELSE view.q
      over == Len(all) > LiveSize
  IN IF view.st = "off" THEN UNCHANGED <<view, opened>>
     ELSE /\ view' = [view EXCEPT !.q = IF over THEN SubSeq(all, Len(all) - LiveSize + 1, Len(all)) ELSE all]
          /\ opened' = opened \cup (IF over THEN {"overflow"} ELSE {})

\* upsert_cursor: the cursor of the batch's last line, whatever was there.
UpsertCursor(s, b) == [row EXCEPT ![s].cursor = b[Len(b)].off, ![s].lag = b[Len(b)].lag]

\* Mutant: the cursor is committed first, the batch may then fail.
CursorFirst(s) ==
  /\ task[s].on /\ task[s].queue /= << >>
  /\ row' = UpsertCursor(s, Batch(s))
  /\ \/ records' = AppendBatch(Batch(s)) /\ PublishLive(s, Batch(s))
     \/ UNCHANGED <<records, view, opened>>
  /\ task' = [task EXCEPT ![s].queue = Rest(s)]
  /\ UNCHANGED <<waiting, src, faults, calls>>

\* _write_batch: records, then live sockets, then the cursor of the last line.
WriteBatch(s) ==
  /\ task[s].on /\ task[s].queue /= << >>
  /\ records' = AppendBatch(Batch(s))
  /\ PublishLive(s, Batch(s))
  /\ row' = UpsertCursor(s, Batch(s))
  /\ task' = [task EXCEPT ![s].queue = Rest(s)]
  /\ UNCHANGED <<waiting, src, faults, calls>>

\* The batch or its cursor cannot be written.  The batch is not put back: if
\* lines behind it are on their way, their cursor covers it.
WriteFails(s, appended) ==
  /\ task[s].on /\ task[s].queue /= << >> /\ faults < MaxFaults
  /\ faults' = faults + 1
  /\ IF appended THEN records' = AppendBatch(Batch(s)) /\ PublishLive(s, Batch(s))
     ELSE /\ opened' = opened \cup (IF Rest(s) = << >> /\ task[s].lines = << >> /\ Kind[s] = "file"
                                      THEN {} ELSE {"dropped"})
          /\ UNCHANGED <<records, view>>
  /\ task' = [task EXCEPT ![s].queue = Rest(s)]
  /\ UNCHANGED <<row, waiting, src, calls>>

-----------------------------------------------------------------------------
(* Sockets.  "legacy" follows subscription 1, "product" the service.       *)

\* The pages of the product list up to the latest sequence.
ProductRows(after) == {r \in records : after < r.seq /\ r.seq <= LatestSequence}

\* backlog: what the product stream has sent after its replay.
Backlog(last) == IF ProductRows(last) = {} THEN last ELSE LatestSequence

\* The queue is registered before the replay.
ViewRecords(kind) ==
  /\ view.st = "off"
  /\ kind = "legacy" => row[1].status /= "none"
  /\ view' = IF kind = "legacy" THEN [NoView EXCEPT !.st = "replay"]
             ELSE [NoView EXCEPT !.st = "live", !.kind = kind, !.last = Backlog(0)]
  /\ UNCHANGED <<row, task, waiting, src, records, faults, calls, opened>>

\* list_records_for_subscription: the rows behind the last row that has the
\* cursor, a page of them at a time.
RowsAfter(cursor) ==
  LET mine == {r \in records : r.line.s = 1}
  IN {r \in mine : r.seq > Highest({q.seq : q \in {m \in mine : CursorOf(m.line) = cursor}})}
Page(rows) == {r \in rows : Cardinality({q \in rows : q.seq <= r.seq}) <= PageSize}
LastOf(rows) == CHOOSE r \in rows : \A q \in rows : q.seq <= r.seq
Keys(rows) == {DedupeKey(r.line) : r \in rows}

\* Mutant: one page is all that is replayed.
ReplayOnePage ==
  /\ view.st = "replay"
  /\ view' = [view EXCEPT !.st = "live", !.seen = @ \cup Keys(Page(RowsAfter(view.pos)))]
  /\ UNCHANGED <<row, task, waiting, src, records, faults, calls, opened>>

\* One page is sent; an empty page ends the replay.
ReplayPage ==
  /\ view.st = "replay"
  /\ LET page == Page(RowsAfter(view.pos))
     IN view' = IF page = {} THEN [view EXCEPT !.st = "live"]
                ELSE [view EXCEPT !.pos = CursorOf(LastOf(page).line), !.seen = @ \cup Keys(page)]
  /\ UNCHANGED <<row, task, waiting, src, records, faults, calls, opened>>

\* A live record.  The legacy socket sends what it has not sent.  The product
\* stream compares sequences, and a record that comes from the writer carries
\* none: it is 0.
SequenceOf(r) == 0

TakeLive ==
  /\ view.st = "live" /\ view.q /= << >>
  /\ LET r == Head(view.q)
     IN view' = [view EXCEPT !.q = Tail(@),
          !.seen = IF view.kind = "legacy" THEN @ \cup {DedupeKey(r)} ELSE @,
          !.last = IF view.kind = "product" /\ ~view.paused /\ SequenceOf(r) > @ THEN SequenceOf(r) ELSE @]
  /\ UNCHANGED <<row, task, waiting, src, records, faults, calls, opened>>

\* pause and resume of a product stream; resume replays the backlog.
PauseView ==
  /\ view.st = "live" /\ view.kind = "product"
  /\ view' = [view EXCEPT !.paused = ~@, !.last = IF view.paused THEN Backlog(@) ELSE @]
  /\ UNCHANGED <<row, task, waiting, src, records, faults, calls, opened>>

CloseView ==
  /\ view.st /= "off" /\ view' = NoView
  /\ UNCHANGED <<row, task, waiting, src, records, faults, calls, opened>>

-----------------------------------------------------------------------------
LogInit ==
  /\ row = [s \in Subs |-> [status |-> "none", cursor |-> 0, lag |-> 0, from |-> 0]]
  /\ task = [s \in Subs |-> Idle]
  /\ waiting = [s \in Subs |-> {}]
  /\ src = [s \in Subs |-> [gen |-> 0, len |-> 0, total |-> 0, above |-> << >>, text |-> 0]]
  /\ records = {} /\ view = NoView
  /\ faults = 0 /\ calls = 0 /\ opened = {}

ReaderStep(s) == PollFile(s) \/ PutLine(s) \/ OpenStream(s) \/ StreamLine(s) \/ Backpressure(s)

LogNext ==
  \/ \E s \in Subs :
       \/ Create(s) \/ Pause(s) \/ Delete(s) \/ Resume(s)
       \/ \E call \in {"pause", "delete"} : Marked(s, call)
       \/ (\E blanks \in 0..MaxBlanks : WriteLine(s, blanks)) \/ \E text \in {0, 1} : Rotate(s, text)
       \/ ReaderStep(s) \/ ReaderFails(s) \/ WriteBatch(s)
       \/ \E appended \in BOOLEAN : WriteFails(s, appended)
  \/ Restart
  \/ \E kind \in {"legacy", "product"} : ViewRecords(kind)
  \/ ReplayPage \/ TakeLive \/ PauseView \/ CloseView

LogSpec == LogInit /\ [][LogNext]_logVars

\* The loop runs ready tasks: reader and writer go on, a call that waits for
\* stopped tasks returns.
FairSpec ==
  LogSpec /\ \A s \in Subs : /\ WF_logVars(ReaderStep(s)) /\ WF_logVars(WriteBatch(s))
                          /\ \A call \in {"pause", "delete"} : WF_logVars(Marked(s, call))

-----------------------------------------------------------------------------
LogTypeOK ==
  /\ \A s \in Subs :
       /\ row[s].status \in {"none", "active", "paused", "error", "deleted"}
       /\ row[s].cursor \in 0..MaxLines[s] /\ row[s].from \in 0..MaxLines[s]
       /\ task[s].on \in BOOLEAN /\ task[s].pos \in -1..MaxLines[s]
       /\ Len(task[s].queue) <= QueueSize /\ task[s].fails \in 0..(MaxFailures - 1)
       /\ src[s].len \in 0..src[s].total /\ src[s].gen \in 0..MaxRotations
       /\ Len(src[s].above) = src[s].len
  /\ waiting \in [Subs -> SUBSET {"pause", "delete"}]
  /\ view.st \in {"off", "replay", "live"} /\ view.last \in 0..LatestSequence /\ Len(view.q) <= LiveSize
  /\ faults \in 0..MaxFaults /\ calls \in 0..MaxCalls
  /\ opened \subseteq {"crossed", "overcap", "rotated", "dropped", "overflow", "blank"}

\* The line is stored as it was written, whatever its cursor.
Whole(s, i) == \E r \in records : r.line.s = s /\ r.line.off = i /\ r.line.text = src[s].text

\* Reader and writer share no state but the queue, and the cursor is
\* committed by the writer alone: every promised line of the source up to the
\* committed cursor is stored whole, in spite of failing polls, restarts,
\* pauses, reconnects and blank lines that make the cursor lag.  Exceptions: a
\* batch was dropped while later lines were under way, or the file was rotated.
NothingBehindCursor ==
  opened \cap {"dropped", "rotated"} = {} =>
    \A s \in Subs : \A i \in (row[s].from + 1)..row[s].cursor : Whole(s, i)

\* No line is stored twice, whatever the reader reads again, unless blank
\* lines made cursors lag: a line may then have two cursors, and its end may
\* be stored as a line of its own.
StoredOnce ==
  "blank" \notin opened =>
    \A r, q \in records :
      r.line.s = q.line.s /\ r.line.off = q.line.off /\ r.line.text = q.line.text => r = q

\* A row that says paused, error or deleted has no tasks once the calls on it
\* have returned, unless a resume came between the two halves of a call.
StoppedMeansStopped ==
  "crossed" \notin opened =>
    \A s \in Subs : waiting[s] = {} /\ row[s].status \in {"none", "paused", "error", "deleted"} => ~task[s].on

\* The cap holds for create and for the restart; only resume passes it.
WithinCap == Cardinality(Running) <= MaxActive \/ "overcap" \in opened

\* Replay and live meet without a gap: a legacy socket that has taken all of
\* its queue has seen every stored record of its subscription.  Exceptions: its
\* queue overflowed, the file was rotated, or blank lines made cursors lag, so
\* that two rows may have one cursor and a page begins behind the later.
SocketSeesAll ==
  opened \cap {"overflow", "rotated", "blank"} = {} /\ view.st = "live" /\ view.kind = "legacy" /\ view.q = << >> =>
    \A r \in records : r.line.s = 1 => DedupeKey(r.line) \in view.seen

\* Every line of a running subscription is stored whole in the end, or the
\* subscription stops, or a named window other than blank lines was hit.
LinesArrive ==
  \A s \in Subs :
    task[s].on ~> \/ ~task[s].on \/ ~(opened \subseteq {"blank"})
                  \/ \A i \in (row[s].from + 1)..src[s].len : Whole(s, i)

\* The store holds each promised line up to the cursor once, and only
\* subscriptions whose row says so, and no more than the cap, are read.
LinesKept ==
  /\ LogTypeOK
  /\ NothingBehindCursor
  /\ StoredOnce
  /\ StoppedMeansStopped
  /\ WithinCap

=============================================================================
