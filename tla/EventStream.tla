----------------------------- MODULE EventStream -----------------------------
(***************************************************************************)
(* Durable runtime events, the in-memory broker, the replay-then-live CLI  *)
(* stream of the control plane, and the client that follows it: transport, *)
(* session synchronizer and the reducer that keeps what is on the screen.  *)
(* An event is recorded in the log and published to the subscribers' queues*)
(* either at once (await publish) or by a task created for it.             *)
(***************************************************************************)
EXTENDS Integers, Sequences, FiniteSets

CONSTANTS
  Sessions,      \* agent sessions a client may look at
  Events,        \* the events that may be recorded
  Home,          \* the session the client starts with
  Conns,         \* sockets
  None,
  Publishers,    \* how events are published: "task" and/or "await"
  StartInv,      \* investigations bound to a session before the client starts
  MaxInv,        \* bound: investigations ever bound to a session
  QueueSize,     \* broker queue of a subscriber
  PageSize,      \* events of one replay page
  WireSize,      \* frames a socket buffers; one more makes send wait
  MaxEvents,     \* bound: recorded events
  MaxFaults,     \* bound: lost connections, restarts, timeouts, failed reads
  MaxSwitches,   \* bound: session changes of the user
  Pruned         \* may maintenance remove old events while the server is down?

Event == [s : Sessions, inv : 0..MaxInv, kind : {"row", "log"}]

ASSUME StreamConstants ==
  /\ Home \in Sessions /\ Events \subseteq Event
  /\ None \notin Conns
  /\ Publishers \subseteq {"task", "await"}
  /\ {StartInv, MaxInv, MaxEvents, MaxFaults, MaxSwitches} \subseteq Nat
  /\ StartInv <= MaxInv
  /\ WireSize \in Nat
  /\ {QueueSize, PageSize} \subseteq Nat \ {0}
  /\ Pruned \in BOOLEAN

VARIABLES
  log,        \* runtime_events: the events in sequence order
  earliest,   \* lowest retained sequence
  bound,      \* session -> the investigation it is bound to (0: none)
  tasks,      \* sequences whose publish task has not run yet
  conn,       \* socket -> both ends of a stream connection
  cli,        \* the synchronizer that owns the session now
  recs,       \* gap recoveries in flight, of this or of an earlier synchronizer
  view,       \* the reducer's state
  faults, switches,
  windows     \* history: the windows hit in which an event can be lost

vars == <<log, earliest, bound, tasks, conn, cli, recs, view, faults, switches, windows>>
srvVars == <<log, earliest, bound, tasks>>

-----------------------------------------------------------------------------
(* Events.  inv = 0: the payload names the session; inv = n: it names only *)
(* the n-th investigation of the session.  A "row" event has a durable row *)
(* of its own that a snapshot reads (message, approval); what a "log"      *)
(* event shows (tool, todo, operation) is rebuilt from the event log.      *)

Seqs == 1..MaxEvents

\* Frames: event i, or a control frame.
Ev(i) == [t |-> "event", n |-> i]
Hello == [t |-> "hello", n |-> 0]
Gap == [t |-> "gap", n |-> 0]
Slow == [t |-> "slow", n |-> 0]
Closed == [t |-> "closed", n |-> 0]
Frame == [t : {"event"}, n : Seqs] \cup {Hello, Gap, Slow, Closed}

Idle == [st |-> "free", s |-> Home, after |-> 0, inv |-> 0, hw |-> 0, page |-> {},
         more |-> FALSE, q |-> << >>, dropped |-> 0, wire |-> << >>]

ConnType ==
  [st : {"free", "accepted", "fetch", "replay", "live", "ended"}, s : Sessions,
   after : 0..MaxEvents, inv : 0..MaxInv, hw : 0..MaxEvents, page : SUBSET Seqs,
   more : BOOLEAN, q : Seq(Seqs), dropped : Nat, wire : Seq(Frame)]

\* Does the stream's filter accept the event?
Matches(e, s, inv) == e.s = s /\ (e.inv = 0 \/ e.inv = inv)

\* The retained events after a sequence that the filter accepts, and the page
\* of them that list_page returns: the lowest ones.
After(after, s, inv) ==
  {i \in DOMAIN log : i >= earliest /\ i > after /\ Matches(log[i], s, inv)}
PageOf(found) == {i \in found : Cardinality({j \in found : j < i}) < PageSize}

\* Subscribed to the broker.
Subscribed(c) == conn[c].st \in {"fetch", "replay", "live"}

\* The stream's coroutine is not waiting in a send.
Ready(c) == Len(conn[c].wire) <= WireSize

\* Delivery of one event to a queue: a full queue loses its oldest frame,
\* and the loss is counted.
Offer(k, i) ==
  IF Len(k.q) = QueueSize
  THEN [k EXCEPT !.q = Append(Tail(@), i), !.dropped = @ + 1]
  ELSE [k EXCEPT !.q = Append(@, i)]

\* broker.publish: every subscriber is offered the event; never blocks.
Published(i) == [c \in Conns |-> IF Subscribed(c) THEN Offer(conn[c], i) ELSE conn[c]]

-----------------------------------------------------------------------------
(* The control plane.                                                      *)

\* emit and the services that await broker.publish: append the event, then
\* publish it in the same step or leave that to a new task of the loop.
Emit(e, how) ==
  LET i == Len(log) + 1
  IN /\ i \in Seqs
     /\ e.inv \in {0, bound[e.s]}
     /\ log' = Append(log, e)
     /\ \/ /\ how = "await"
           /\ conn' = Published(i)
           /\ windows' = windows \cup (IF tasks = << >> THEN {} ELSE {"overtaken"})
           /\ UNCHANGED tasks
        \/ /\ how = "task"
           /\ tasks' = Append(tasks, i)
           /\ UNCHANGED <<conn, windows>>
     /\ UNCHANGED <<earliest, bound, cli, recs, view, faults, switches>>

\* The oldest publish task runs.
Publish ==
  /\ tasks /= << >>
  /\ conn' = Published(Head(tasks))
  /\ tasks' = Tail(tasks)
  /\ UNCHANGED <<log, earliest, bound, cli, recs, view, faults, switches, windows>>

\* A message creates an investigation for its session and binds it.
Bind(s) ==
  /\ bound[s] < MaxInv
  /\ bound' = [bound EXCEPT ![s] = @ + 1]
  /\ windows' = windows \cup {"rebound"}
  /\ UNCHANGED <<log, earliest, tasks, conn, cli, recs, view, faults, switches>>

\* Subscribe, capture the high-water sequence, and refuse a cursor whose
\* next event is no longer retained.
Subscribe(c) ==
  /\ conn[c].st = "accepted" /\ Ready(c)
  /\ LET k == conn[c]
     IN conn' = [conn EXCEPT ![c] =
          IF k.after > 0 /\ earliest > k.after + 1
          THEN [k EXCEPT !.st = "ended", !.wire = k.wire \o <<Gap, Closed>>]
          ELSE [k EXCEPT !.st = "fetch", !.hw = Len(log), !.q = << >>]]
  /\ UNCHANGED <<srvVars, cli, recs, view, faults, switches, windows>>

\* _replay reads the next durable page.
ReplayPage(c) ==
  /\ conn[c].st = "fetch" /\ Ready(c)
  /\ LET k == conn[c]
         found == After(k.after, k.s, k.inv)
     IN conn' = [conn EXCEPT ![c] =
          [k EXCEPT !.st = "replay", !.page = PageOf(found), !.more = found /= PageOf(found)]]
  /\ UNCHANGED <<srvVars, cli, recs, view, faults, switches, windows>>

\* The page is sent, or what is left of it lies above the high water.
ReplayDone(k) == \A i \in k.page : i > k.hw

\* The stream k behind its replay, or about to fetch the next page.
Replayed(k) ==
  [k EXCEPT !.page = {}, !.more = FALSE,
            !.st = IF k.page = {} /\ k.more THEN "fetch" ELSE "live"]

\* The next event of the page is sent.
SendNext(c) ==
  LET k == conn[c]
  IN \E i \in k.page :
       /\ \A j \in k.page : i <= j
       /\ conn' = [conn EXCEPT ![c] =
            [k EXCEPT !.wire = Append(k.wire, Ev(i)), !.page = k.page \ {i}, !.after = i]]

\* Mutant: the stream subscribes when the replay has ended.
ReplayThenSubscribe(c) ==
  /\ conn[c].st = "replay" /\ Ready(c)
  /\ \/ /\ ReplayDone(conn[c])
        /\ conn' = [conn EXCEPT ![c] = [Replayed(conn[c]) EXCEPT !.q = << >>]]
     \/ ~ReplayDone(conn[c]) /\ SendNext(c)
  /\ UNCHANGED <<srvVars, cli, recs, view, faults, switches, windows>>

\* _replay sends the next event of its page; it ends at the high water or
\* behind the last page.
ReplaySend(c) ==
  /\ conn[c].st = "replay" /\ Ready(c)
  /\ \/ ReplayDone(conn[c]) /\ conn' = [conn EXCEPT ![c] = Replayed(conn[c])]
     \/ ~ReplayDone(conn[c]) /\ SendNext(c)
  /\ UNCHANGED <<srvVars, cli, recs, view, faults, switches, windows>>

\* The investigation the filter of a live stream names: an open stream asks
\* for it as long as it has none.
LiveInv(k) == IF k.inv = 0 THEN bound[k.s] ELSE k.inv

\* _live takes the next frame from its queue: a stream that lost frames is
\* closed as a slow consumer, what replay delivered is skipped, the filter is
\* applied again.
Live(c) ==
  /\ conn[c].st = "live" /\ Ready(c)
  /\ conn[c].q /= << >>
  /\ LET k == [conn[c] EXCEPT !.q = Tail(@)]
         i == Head(conn[c].q)
         ours == [k EXCEPT !.inv = LiveInv(k)]
     IN \/ /\ k.dropped > 0
           /\ conn' = [conn EXCEPT ![c] =
                [k EXCEPT !.st = "ended", !.q = << >>, !.wire = k.wire \o <<Slow, Closed>>]]
        \/ /\ k.dropped = 0 /\ i <= k.hw
           /\ conn' = [conn EXCEPT ![c] = k]
        \/ /\ k.dropped = 0 /\ i > k.hw /\ ~Matches(log[i], k.s, LiveInv(k))
           /\ conn' = [conn EXCEPT ![c] = ours]
        \/ /\ k.dropped = 0 /\ i > k.hw /\ Matches(log[i], k.s, LiveInv(k))
           /\ conn' = [conn EXCEPT ![c] = [ours EXCEPT !.wire = Append(k.wire, Ev(i))]]
  /\ UNCHANGED <<srvVars, cli, recs, view, faults, switches, windows>>

\* The network loses a connection with everything it carried.
Lose(c) ==
  /\ conn[c].st \in {"accepted", "fetch", "replay", "live"}
  /\ faults < MaxFaults
  /\ faults' = faults + 1
  /\ conn' = [conn EXCEPT ![c] = [Idle EXCEPT !.st = "ended", !.wire = <<Closed>>]]
  /\ UNCHANGED <<srvVars, cli, recs, view, switches, windows>>

\* The control plane restarts: queues and publish tasks are gone, the log
\* stays, except for what maintenance removed below p while it was down (a
\* client without a cursor is not owed what is gone).
Restart(p) ==
  /\ faults < MaxFaults
  /\ faults' = faults + 1
  /\ p = earliest \/ (Pruned /\ cli.cursor > 0 /\ p \in earliest..(Len(log) + 1))
  /\ earliest' = p
  /\ windows' = windows \cup (IF p = earliest THEN {} ELSE {"pruned"})
  /\ tasks' = << >>
  /\ conn' = [c \in Conns |-> IF conn[c].st \in {"free", "ended"} THEN conn[c]
                              ELSE [Idle EXCEPT !.st = "ended", !.wire = <<Closed>>]]
  /\ UNCHANGED <<log, bound, cli, recs, view, switches>>
-----------------------------------------------------------------------------
(* The client.  A gap recovery belongs to the synchronizer that started it *)
(* and outlives it.                                                        *)

Unread == -1
Own(r) == r.inc = cli.inc
Paused == \E r \in recs : Own(r)

\* persistCursor writes the profile in the background, so lastSequenceBySession
\* holds some cursor that the session has had, or none.
SavedCursors(s) == {i \in view.got : log[i].s = s}

\* A new synchronizer for session s, with all sockets of the old one closed.
\* Its cursor is the profile's, or else the reducer's last sequence.
Attach(s, last) ==
  /\ \E n \in SavedCursors(s) \cup {last} :
       cli' = [inc |-> cli.inc + 1, s |-> s, cur |-> None, cursor |-> n]
  /\ conn' = [c \in Conns |-> Idle]

Unused(c) == conn[c].st \in {"free", "ended"} /\ conn[c].wire = << >>

\* The route accepts a socket, resolves the session's investigation, and the
\* stream says hello.
Accepted(s, after) ==
  [Idle EXCEPT !.st = "accepted", !.s = s, !.after = after, !.inv = bound[s],
               !.wire = <<Hello>>]

\* runOnce opens a socket at the cursor.
Connect(c) ==
  /\ cli.cur = None
  /\ c = CHOOSE d \in Conns : Unused(d)
  /\ Unused(c)
  /\ conn' = [conn EXCEPT ![c] = Accepted(cli.s, cli.cursor)]
  /\ cli' = [cli EXCEPT !.cur = c]
  /\ UNCHANGED <<srvVars, recs, view, faults, switches, windows>>

\* handleStreamEvent: the reducer takes an event above its last sequence.
Reduced(i) ==
  IF i <= view.last THEN view
  ELSE [view EXCEPT !.last = i, !.shown = @ \cup {i}, !.got = @ \cup {i}]

\* Mutant: events below the cursor are applied too.
OnEventTwice(c) ==
  /\ conn[c].wire /= << >> /\ Head(conn[c].wire).t \in {"hello", "event"}
  /\ LET i == Head(conn[c].wire).n
     IN IF Paused \/ i = 0
        THEN UNCHANGED <<cli, view>>
        ELSE cli' = [cli EXCEPT !.cursor = i] /\ view' = Reduced(i)
  /\ conn' = [conn EXCEPT ![c].wire = Tail(@)]
  /\ UNCHANGED <<srvVars, recs, faults, switches, windows>>

\* onEvent: dropped while paused or below the cursor; otherwise reduced, and
\* the cursor follows.
OnEvent(c) ==
  /\ conn[c].wire /= << >> /\ Head(conn[c].wire).t \in {"hello", "event"}
  /\ LET i == Head(conn[c].wire).n
     IN IF Paused \/ i <= cli.cursor
        THEN /\ windows' = windows \cup (IF i > cli.cursor THEN {"paused"} ELSE {})
             /\ UNCHANGED <<cli, view>>
        ELSE /\ cli' = [cli EXCEPT !.cursor = i]
             /\ view' = Reduced(i)
             /\ UNCHANGED windows
  /\ conn' = [conn EXCEPT ![c].wire = Tail(@)]
  /\ UNCHANGED <<srvVars, recs, faults, switches>>

\* onGap: pause and start to fetch the authoritative snapshot, whose event
\* pages begin behind the cursor.
OnGap(c) ==
  /\ conn[c].wire /= << >> /\ Head(conn[c].wire) \in {Gap, Slow}
  /\ recs' = IF Paused THEN recs
             ELSE recs \cup {[inc |-> cli.inc, s |-> cli.s, on |-> c, base |-> cli.cursor,
                              rows |-> Unread, evs |-> Unread, inv |-> 0, saving |-> FALSE]}
  /\ conn' = [conn EXCEPT ![c].wire = Tail(@)]
  /\ UNCHANGED <<srvVars, cli, view, faults, switches, windows>>

\* onStatus recoverable: reconnect, but behind a recovery that this
\* connection started.
OnClose(c) ==
  /\ conn[c].wire /= << >> /\ Head(conn[c].wire) = Closed
  /\ conn' = [conn EXCEPT ![c].wire = Tail(@)]
  /\ cli' = IF c = cli.cur /\ ~\E r \in recs : Own(r) /\ r.on = c
            THEN [cli EXCEPT !.cur = None] ELSE cli
  /\ UNCHANGED <<srvVars, recs, view, faults, switches, windows>>

\* The recovery is over; a reconnect that waited for it goes ahead.
Recovered(r, k) ==
  IF Own(r) /\ k.cur = r.on /\ conn[r.on].st = "ended" /\ conn[r.on].wire = << >>
  THEN [k EXCEPT !.cur = None] ELSE k

\* No frame within the heartbeat timeout: the loop reconnects and leaves the
\* old socket open, with its handlers.
HeartbeatTimeout ==
  /\ faults < MaxFaults
  /\ cli.cur /= None /\ Hello \notin {conn[cli.cur].wire[j] : j \in DOMAIN conn[cli.cur].wire}
  /\ faults' = faults + 1
  /\ cli' = [cli EXCEPT !.cur = None]
  /\ UNCHANGED <<srvVars, conn, recs, view, switches, windows>>

\* The session's messages and pending approvals are read.
ReadRows(r) ==
  /\ r \in recs /\ r.rows = Unread
  /\ recs' = (recs \ {r}) \cup {[r EXCEPT !.rows = Len(log)]}
  /\ UNCHANGED <<srvVars, conn, cli, view, faults, switches, windows>>

\* The session's event pages behind the cursor are read.
ReadEvents(r) ==
  /\ r \in recs /\ r.evs = Unread
  /\ recs' = (recs \ {r}) \cup {[r EXCEPT !.evs = Len(log), !.inv = bound[r.s]]}
  /\ UNCHANGED <<srvVars, conn, cli, view, faults, switches, windows>>

\* A read fails: the recovery ends with the cursor as it was.
ReadFails(r) ==
  /\ r \in recs /\ Unread \in {r.rows, r.evs}
  /\ faults < MaxFaults
  /\ faults' = faults + 1
  /\ recs' = recs \ {r}
  /\ cli' = Recovered(r, cli)
  /\ UNCHANGED <<srvVars, conn, view, switches, windows>>

\* The events a snapshot was made from, and the sequence it stands for.
SnapshotEvents(r) ==
  {i \in DOMAIN log : earliest <= i /\ r.base < i /\ i <= r.evs /\ Matches(log[i], r.s, r.inv)}

\* Mutant: the cursor jumps to the latest sequence of the whole log.
LatestSequence(r) == Len(log)

SnapshotSequence(r) ==
  CHOOSE n \in {r.base} \cup SnapshotEvents(r) : \A i \in SnapshotEvents(r) : i <= n

\* What the snapshot puts on the screen: rows as they were read, tools, todos
\* and the operation from the fetched events.
Snapshot(r) ==
  {i \in DOMAIN log : i <= r.rows /\ log[i].s = r.s /\ log[i].kind = "row"}
    \cup {i \in SnapshotEvents(r) : log[i].kind = "log"}

\* The rows written behind the read of the rows whose events the snapshot's
\* sequence covers: they are not in it, and their events are not sent again.
Unnoticed(r) ==
  {i \in DOMAIN log : r.rows < i /\ i <= SnapshotSequence(r) /\ log[i].s = r.s /\ log[i].kind = "row"}

\* set_session and gap_snapshot are dispatched and the cursor is set.  A
\* recovery of a session that is no longer shown brings that session back.
ApplySnapshot(r) ==
  /\ r \in recs /\ Unread \notin {r.rows, r.evs} /\ ~r.saving
  /\ view' = [s |-> r.s, last |-> SnapshotSequence(r), shown |-> Snapshot(r),
              got |-> view.got \cup {i \in Snapshot(r) : i <= SnapshotSequence(r)}]
  /\ windows' = windows \cup (IF Unnoticed(r) = {} THEN {} ELSE {"between"})
  /\ CASE view.s /= r.s -> /\ Attach(r.s, view.last)
                           /\ recs' = recs \ {r}
       [] view.s = r.s /\ ~Own(r) -> recs' = recs \ {r} /\ UNCHANGED <<cli, conn>>
       [] OTHER -> /\ cli' = [cli EXCEPT !.cursor = SnapshotSequence(r)]
                   /\ recs' = (recs \ {r}) \cup {[r EXCEPT !.saving = TRUE]}
                   /\ UNCHANGED conn
  /\ UNCHANGED <<srvVars, faults, switches>>

\* The cursor of the snapshot is in the profile; events are taken again.
EndRecovery(r) ==
  /\ r \in recs /\ r.saving /\ Own(r)
  /\ recs' = recs \ {r}
  /\ cli' = Recovered(r, cli)
  /\ UNCHANGED <<srvVars, conn, view, faults, switches, windows>>

\* The user selects another session.
Select(s) ==
  /\ switches < MaxSwitches /\ s /= view.s
  /\ switches' = switches + 1
  /\ view' = [view EXCEPT !.s = s, !.shown = {}]
  /\ Attach(s, view.last)
  /\ recs' = {r \in recs : ~r.saving}
  /\ windows' = windows \cup {"selected"}
  /\ UNCHANGED <<srvVars, faults>>
-----------------------------------------------------------------------------
Init ==
  /\ log = << >> /\ earliest = 1 /\ tasks = << >>
  /\ bound = [s \in Sessions |-> StartInv]
  /\ conn = [c \in Conns |-> Idle]
  /\ cli = [inc |-> 0, s |-> Home, cur |-> None, cursor |-> 0]
  /\ recs = {}
  /\ view = [s |-> Home, last |-> 0, shown |-> {}, got |-> {}]
  /\ faults = 0 /\ switches = 0 /\ windows = {}

Record == \E e \in Events, how \in Publishers : Emit(e, how)

ServerStep ==
  \/ Publish
  \/ \E c \in Conns : Subscribe(c) \/ ReplayPage(c) \/ ReplaySend(c) \/ Live(c)

ClientStep ==
  \/ \E c \in Conns : Connect(c) \/ OnEvent(c) \/ OnGap(c) \/ OnClose(c)
  \/ \E r \in recs : ReadRows(r) \/ ReadEvents(r) \/ ApplySnapshot(r) \/ EndRecovery(r)

Fault ==
  \/ \E c \in Conns : Lose(c)
  \/ \E p \in 1..(MaxEvents + 1) : Restart(p)
  \/ HeartbeatTimeout
  \/ \E r \in recs : ReadFails(r)

User == \E s \in Sessions : Bind(s) \/ Select(s)

Next == Record \/ ServerStep \/ ClientStep \/ Fault \/ User

Spec == Init /\ [][Next]_vars

\* The event loops of both programs keep running what is ready.
Fairness ==
  /\ WF_vars(Publish)
  /\ \A c \in Conns :
       /\ WF_vars(Subscribe(c) \/ ReplayPage(c) \/ ReplaySend(c) \/ Live(c))
       /\ WF_vars(OnEvent(c) \/ OnGap(c) \/ OnClose(c))
  /\ WF_vars(\E c \in Conns : Connect(c))
  /\ WF_vars(\E r \in recs : ReadRows(r))
  /\ WF_vars(\E r \in recs : ReadEvents(r))
  /\ WF_vars(\E r \in recs : ApplySnapshot(r))
  /\ WF_vars(\E r \in recs : EndRecovery(r))

FairSpec == Spec /\ Fairness
-----------------------------------------------------------------------------
(* Properties.                                                             *)

Recovery ==
  [inc : Nat, s : Sessions, on : Conns, base : 0..MaxEvents, inv : 0..MaxInv,
   rows : Unread..MaxEvents, evs : Unread..MaxEvents, saving : BOOLEAN]

\* Every variable has its type, and no queue outgrows the broker's bound.
TypeOK ==
  /\ log \in Seq(Event) /\ Len(log) <= MaxEvents
  /\ earliest \in 1..(MaxEvents + 1)
  /\ bound \in [Sessions -> 0..MaxInv]
  /\ tasks \in Seq(Seqs)
  /\ conn \in [Conns -> ConnType] /\ \A c \in Conns : Len(conn[c].q) <= QueueSize
  /\ cli \in [inc : Nat, s : Sessions, cur : Conns \cup {None}, cursor : 0..MaxEvents]
  /\ recs \subseteq Recovery
  /\ view \in [s : Sessions, last : 0..MaxEvents, shown : SUBSET Seqs, got : SUBSET Seqs]
  /\ faults \in 0..MaxFaults /\ switches \in 0..MaxSwitches
  /\ windows \subseteq {"overtaken", "rebound", "pruned", "paused", "selected", "between"}

\* Behind the cursor nothing of the session is missing: replay, live feed,
\* overflow, lost connections, an old socket beside a new one and snapshots
\* between them gave the reducer every event of the session up to the
\* committed cursor, or a snapshot made from it, as long as none of the windows
\* is hit in which an event is lost.  What maintenance removed before it was
\* seen is gone, but for what has a row of its own.
NothingSkipped ==
  windows \subseteq {"pruned"} =>
    \A i \in 1..cli.cursor : log[i].s = cli.s =>
      i \in view.got \/ (i < earliest /\ log[i].kind = "log")

\* Every message and approval of the session up to the cursor is on the screen,
\* whatever gaps, snapshots and reconnects lie behind: a snapshot throws the
\* screen away, and the events of the rows it holds are never sent again.
RowsOnScreen ==
  windows \subseteq {"pruned"} =>
    \A i \in 1..cli.cursor : log[i].s = cli.s /\ log[i].kind = "row" => i \in view.shown

\* A stream that has delivered all it holds, and that lost nothing, has
\* delivered every published event of its session: what was published during
\* the replay waits in the queue, and what overflowed is known.
QuietMeansCaughtUp ==
  LET k == conn[cli.cur]
  IN cli.cur /= None /\ k.st = "live" /\ k.q = << >> /\ k.wire = << >> /\ ~Paused
     /\ windows \subseteq {"pruned"}
     => \A i \in DOMAIN log : log[i].s = cli.s /\ i > cli.cursor =>
          i \in {tasks[j] : j \in DOMAIN tasks}

\* The synchronizer implements ordered, lossless delivery of its session.
OfHome(e) == e.s = Home
Delivery ==
  INSTANCE OrderedDelivery WITH cursor <- cli.cursor, void <- windows /= {}, Mine <- OfHome

\* Every event of the session is delivered in order, or stood for by a
\* snapshot, and eventually the client has caught up.
DeliversInOrder == Delivery!Spec

\* Neither the server nor the client loses an event of the session: bounded
\* queues, nothing missing behind the cursor or from the screen, nothing missing
\* from a stream that is quiet.
Lossless ==
  /\ TypeOK
  /\ NothingSkipped
  /\ RowsOnScreen
  /\ QuietMeansCaughtUp

=============================================================================
