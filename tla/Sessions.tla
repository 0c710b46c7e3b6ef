------------------------------ MODULE Sessions ------------------------------
(***************************************************************************)
(* An agent session: the product facade over investigations.  Sources:     *)
(* agent_sessions/service.py and store.py (the session row, its messages,  *)
(* the projection of a run's transcript), api/routes/agent_sessions.py,    *)
(* the agent-message handler of operations/handlers.py, and what           *)
(* operations/recovery.py decides for its operation after a crash.         *)
(*                                                                         *)
(* One session, one owner, one target.  The routes and the handler run on  *)
(* one event loop and await only while the run's loop is on ("run"), so    *)
(* their commits follow each other with only a crash in between.  The      *)
(* dispatcher runs one operation of a session at a time (Operations).      *)
(* What the run does is a choice here (AgentRun and Children have it).     *)
(***************************************************************************)
EXTENDS Integers, Sequences, FiniteSets

CONSTANTS
  MaxActive,     \* max_active_investigations
  Page,          \* limit of list_messages in a client's poll
  ResumePage,    \* limit=500 of _latest_user_message_id
  MaxMsgs, MaxOps, MaxInvs, MaxSaid,   \* bounds on the behaviours
  MaxCrashes     \* how often the process ends, by a crash or a stop

ASSUME SessionsBounds ==
  /\ {MaxActive, Page, ResumePage} \subseteq Nat \ {0}
  /\ {MaxMsgs, MaxOps, MaxInvs, MaxSaid, MaxCrashes} \subseteq Nat

VARIABLES
  sess,      \* the row of agent_sessions: status and investigation (0: none)
  timeline,  \* texts in the order of created_at: the user's and the runs'
  rows,      \* agent_messages: the texts that are in the store
  bound,     \* investigation and transcript sequence of each user row
  ops,       \* the session's AGENT_MESSAGE operations
  invs,      \* the investigations: status and the message that is the symptom
  target,    \* the session's target is registered
  route,     \* where the route that accepts a message or a resume is
  handler,   \* where the handler is, and its operation
  cursor,    \* after_message_id of the client, as a position of the timeline
  shown,     \* history: the texts the client was given
  crashes,
  opened     \* history: the unprotected windows this behaviour went through

product == <<sess, rows, bound>>
client  == <<cursor, shown>>
sessionVars == <<product, timeline, ops, invs, target, route, handler, client, crashes, opened>>

Terminal  == {"cancelled", "failed", "completed"}
InvStatus == Terminal \cup {"created", "running", "waiting_approval", "paused", "cancel_requested"}
Status    == (InvStatus \ {"created", "running"}) \cup {"idle", "active"}
User(n)    == <<"user", n, 0>>
Said(i, k) == <<"said", i, k>>
Items      == {User(n) : n \in 1..MaxMsgs} \cup {Said(i, k) : i \in 1..MaxInvs, k \in 1..MaxSaid}

Operation ==
  [act : {"message", "resume"}, msg : 0..MaxMsgs, inv : 0..MaxInvs,
   state : {"queued", "running", "succeeded", "failed", "cancelled"}]
Investigation == [status : InvStatus, symptom : 1..MaxMsgs]
HandlerPlaces ==
  {"off", "load", "created", "bound", "start", "run", "waits", "ended", "rebound",
   "projected", "synced"}

SessionTypeOK ==
  /\ sess \in [status : Status, inv : 0..Len(invs)]
  /\ timeline \in Seq(Items) /\ rows \subseteq Items
  /\ bound \in [1..MaxMsgs -> (0..Len(invs)) \X {0, 1}]
  /\ ops \in Seq(Operation) /\ invs \in Seq(Investigation)
  /\ target \in BOOLEAN /\ route \in {"off", "appended", "enqueued"}
  /\ handler \in [pc : HandlerPlaces, op : 0..Len(ops)]
  /\ cursor \in 0..Len(timeline) /\ shown \subseteq Items /\ crashes \in Nat

NewSession == [status |-> "idle", inv |-> 0]

SessionInit ==
  /\ sess = NewSession
  /\ timeline = <<>> /\ rows = {} /\ bound = [n \in 1..MaxMsgs |-> <<0, 0>>]
  /\ ops = <<>> /\ invs = <<>> /\ target = TRUE
  /\ route = "off" /\ handler = [pc |-> "off", op |-> 0]
  /\ cursor = 0 /\ shown = {} /\ crashes = 0 /\ opened = {}

Live(i) == invs[i].status \notin Terminal
Users   == Cardinality({k \in DOMAIN timeline : timeline[k][1] = "user"})
Awaits  == handler.pc \in {"run", "waits"}
Free    == route = "off" /\ (handler.pc = "off" \/ Awaits)
AtRest  == route = "off" /\ handler.pc = "off" /\ \A k \in DOMAIN ops : ops[k].state # "queued"
Op      == ops[handler.op]
Through(W) == opened \cap W # {}

-----------------------------------------------------------------------------
(* The store of messages. *)

\* list_messages: the first rows after the cursor by (created_at, message_id),
\* as positions of the timeline.
PageAfter(from, limit) ==
  LET after == {k \in DOMAIN timeline : k > from /\ timeline[k] \in rows}
  IN {k \in after : Cardinality({j \in after : j <= k}) <= limit}

\* _latest_user_message_id: the last user row of the first page, if any.
LatestUser ==
  LET us == {k \in PageAfter(0, ResumePage) : timeline[k][1] = "user"}
  IN IF us = {} THEN 0
     ELSE timeline[CHOOSE k \in us : \A j \in us : j <= k][2]

\* update_session: the columns of the row that was read, unconditionally.
UpdateSession(row) == row

\* append_message: the same message again is the row that is there.
Stored(items) == rows \cup items

\* bind_message: unconditional, whatever the row was bound to.
Bind(n, i, seq) == [bound EXCEPT ![n] = <<i, seq>>]

\* A client asks for the messages after the last one it has.
Poll ==
  /\ Free /\ PageAfter(cursor, Page) # {}
  /\ LET page == PageAfter(cursor, Page)
     IN /\ shown' = shown \cup {timeline[k] : k \in page}
        /\ cursor' = CHOOSE k \in page : \A j \in page : j <= k
  /\ UNCHANGED <<product, timeline, ops, invs, target, route, handler, crashes, opened>>

-----------------------------------------------------------------------------
(* The routes.  accept_message is three commits: the message, the operation, *)
(* the status of the session. *)

NewOp(act, n) == [act |-> act, msg |-> n, inv |-> sess.inv, state |-> "queued"]

SendMessage ==
  /\ Free /\ Users < MaxMsgs /\ Len(ops) < MaxOps
  /\ timeline' = Append(timeline, User(Users + 1))
  /\ rows' = Stored({User(Users + 1)})
  /\ route' = "appended"
  /\ opened' = opened \cup (IF handler.pc = "run" THEN {"midrun"} ELSE {})
  /\ UNCHANGED <<sess, bound, ops, invs, target, handler, client, crashes>>

Enqueue ==
  /\ route = "appended"
  /\ ops' = Append(ops, NewOp("message", Users))
  /\ route' = "enqueued"
  /\ UNCHANGED <<product, timeline, invs, target, handler, client, crashes, opened>>

Activate ==
  /\ route = "enqueued"
  /\ sess' = UpdateSession([sess EXCEPT !.status = "active"])
  /\ route' = "off"
  /\ UNCHANGED <<rows, bound, timeline, ops, invs, target, handler, client, crashes, opened>>

\* resume: no message of its own; msg 0 is the made-up id, which is in no row.
Resume ==
  /\ Free /\ Len(ops) < MaxOps
  /\ ops' = Append(ops, NewOp("resume", LatestUser))
  /\ route' = "enqueued"
  /\ UNCHANGED <<product, timeline, invs, target, handler, client, crashes, opened>>

\* cancel_operation on an operation that no worker has: the session is not told.
CancelQueued ==
  /\ Free
  /\ \E k \in DOMAIN ops :
       /\ ops[k].state = "queued"
       /\ ops' = [ops EXCEPT ![k].state = "cancelled"]
  /\ opened' = opened \cup {"dropped"}
  /\ UNCHANGED <<product, timeline, invs, target, route, handler, client, crashes>>

\* delete_target: refused while an investigation of the target is not terminal.
MayDelete == target /\ \A i \in DOMAIN invs : ~Live(i)

DeleteTarget ==
  /\ Free /\ MayDelete
  /\ target' = FALSE
  /\ UNCHANGED <<product, timeline, ops, invs, route, handler, client, crashes, opened>>

\* delete_project of the operator's routes asks nobody.
DeleteProject ==
  /\ Free /\ target
  /\ target' = FALSE
  /\ opened' = opened \cup {"unregistered"}
  /\ UNCHANGED <<product, timeline, ops, invs, route, handler, client, crashes>>

-----------------------------------------------------------------------------
(* The handler of an AGENT_MESSAGE operation. *)

HandlerTo(pc) == handler' = [handler EXCEPT !.pc = pc]
Ends(state) ==
  /\ ops' = [ops EXCEPT ![handler.op].state = state]
  /\ handler' = [pc |-> "off", op |-> 0]

\* Mutant: an exception puts the operation back.
RaisesRetried ==
  /\ Ends("queued")
  /\ opened' = opened \cup {"raised"}
  /\ UNCHANGED <<product, timeline, invs, target, route, client, crashes>>

\* Mutant: an exception is swallowed.
RaisesSilently ==
  /\ Ends("succeeded")
  /\ opened' = opened \cup {"raised"}
  /\ UNCHANGED <<product, timeline, invs, target, route, client, crashes>>

\* The exception that ends a handler fails the operation; the session row stays
\* as the route left it.
Raises ==
  /\ Ends("failed")
  /\ opened' = opened \cup {"raised"}
  /\ UNCHANGED <<product, timeline, invs, target, route, client, crashes>>

\* The dispatcher claims the oldest queued operation.
Claim ==
  /\ Free /\ handler.pc = "off"
  /\ \E k \in DOMAIN ops :
       /\ ops[k].state = "queued" /\ \A j \in 1..k - 1 : ops[j].state # "queued"
       /\ ops' = [ops EXCEPT ![k].state = "running"]
       /\ handler' = [pc |-> "load", op |-> k]
  /\ UNCHANGED <<product, timeline, invs, target, route, client, crashes, opened>>

\* No investigation, or a terminal one: a message opens a new one.
NeedsInvestigation == IF sess.inv = 0 THEN TRUE ELSE ~Live(sess.inv)

\* The early returns: the made-up message id, the target, a resume of nothing.
Unavailable ==
  \/ Op.msg = 0
  \/ ~target
  \/ NeedsInvestigation /\ Op.act # "message"

LoadFails == handler.pc = "load" /\ Unavailable /\ Raises

LoadExisting ==
  /\ handler.pc = "load" /\ ~Unavailable /\ ~NeedsInvestigation
  /\ HandlerTo("start")
  /\ opened' = opened \cup
       (IF Op.act = "message" /\ invs[sess.inv].symptom # Op.msg THEN {"followup"} ELSE {})
       \cup (IF Op.act = "resume" /\ invs[sess.inv].symptom # Op.msg THEN {"other"} ELSE {})
  /\ UNCHANGED <<product, timeline, ops, invs, target, route, client, crashes>>

\* create_investigation, with the investigations of other sessions beside.
CreateFails ==
  /\ handler.pc = "load" /\ ~Unavailable /\ NeedsInvestigation
  /\ \E others \in {0, MaxActive} :
       Cardinality({i \in DOMAIN invs : Live(i)}) + others >= MaxActive
  /\ Raises

Create ==
  /\ handler.pc = "load" /\ ~Unavailable /\ NeedsInvestigation /\ Len(invs) < MaxInvs
  /\ Cardinality({i \in DOMAIN invs : Live(i)}) < MaxActive
  /\ invs' = Append(invs, [status |-> "created", symptom |-> Op.msg])
  /\ HandlerTo("created")
  /\ UNCHANGED <<product, timeline, ops, target, route, client, crashes, opened>>

\* bind_investigation of the store.
BindInvestigation ==
  /\ handler.pc = "created"
  /\ sess' = [status |-> "active", inv |-> Len(invs)]
  /\ HandlerTo("bound")
  /\ UNCHANGED <<rows, bound, timeline, ops, invs, target, route, client, crashes, opened>>

BindMessage ==
  /\ handler.pc = "bound"
  /\ bound' = Bind(Op.msg, Len(invs), 0)
  /\ HandlerTo("start")
  /\ UNCHANGED <<sess, rows, timeline, ops, invs, target, route, client, crashes, opened>>

\* start: the transition to RUNNING, legal from every status but these, also
\* when the run waits for an approval, which an investigation that start made
\* RUNNING before does not tell.
Startable(s) == s \notin Terminal \cup {"cancel_requested"}

Start ==
  /\ handler.pc = "start" /\ Startable(invs[sess.inv].status)
  /\ invs' = [invs EXCEPT ![sess.inv].status = "running"]
  /\ \/ /\ invs[sess.inv].status # "waiting_approval"
        /\ HandlerTo("run") /\ UNCHANGED opened
     \/ /\ invs[sess.inv].status \in {"waiting_approval", "running"}
        /\ HandlerTo("waits") /\ opened' = opened \cup {"parked"}
  /\ UNCHANGED <<product, timeline, ops, target, route, client, crashes>>

StartRefused == handler.pc = "start" /\ ~Startable(invs[sess.inv].status) /\ Raises

SaidBy(i) == {k \in DOMAIN timeline : timeline[k][1] = "said" /\ timeline[k][2] = i}

\* The loop is on: the assistant's texts go to the transcript.
RunSays ==
  /\ handler.pc = "run" /\ route = "off" /\ Cardinality(SaidBy(sess.inv)) < MaxSaid
  /\ timeline' = Append(timeline, Said(sess.inv, Cardinality(SaidBy(sess.inv)) + 1))
  /\ UNCHANGED <<product, ops, invs, target, route, handler, client, crashes, opened>>

\* What the loop may leave of an investigation.  For a run that waits for an
\* approval it returns at once; it may also leave one CANCEL_REQUESTED, when the
\* cancel comes while a tool asks for an approval.
RunOutcome(s) ==
  CASE s = "running" /\ handler.pc = "waits" -> {"running"}
    [] s = "running" /\ handler.pc = "run" -> {"waiting_approval", "paused", "failed", "completed"}
    [] OTHER -> {s, "cancelled", "failed"}

RunEnds ==
  /\ Awaits /\ route = "off"
  /\ \E o \in RunOutcome(invs[sess.inv].status) :
       invs' = [invs EXCEPT ![sess.inv].status = o]
  /\ HandlerTo("ended")
  /\ UNCHANGED <<product, timeline, ops, target, route, client, crashes, opened>>

\* An exception leaves the loop; the investigation stays as it is.
RunRaises == handler.pc = "run" /\ route = "off" /\ Raises

\* After the await: bound again to the investigation the handler started.
Rebind ==
  /\ handler.pc = "ended"
  /\ sess' = [sess EXCEPT !.status = "active"]
  /\ HandlerTo("rebound")
  /\ UNCHANGED <<rows, bound, timeline, ops, invs, target, route, client, crashes, opened>>

\* project_run: every assistant text of the transcript under an id made of run
\* and sequence, with the created_at it has there.
Projection(i) == {timeline[k] : k \in SaidBy(i)}

Project ==
  /\ handler.pc = "rebound"
  /\ rows' = Stored(Projection(sess.inv))
  /\ bound' = Bind(Op.msg, sess.inv, 1)
  /\ HandlerTo("projected")
  /\ UNCHANGED <<sess, timeline, ops, invs, target, route, client, crashes, opened>>

\* A run without a first entry: it was cancelled before its first round, or the
\* append failed.  It said nothing, and the message is not bound to it.
ProjectNothing ==
  /\ handler.pc = "rebound" /\ Projection(sess.inv) \subseteq rows
  /\ HandlerTo("projected")
  /\ opened' = opened \cup {"untold"}
  /\ UNCHANGED <<product, timeline, ops, invs, target, route, client, crashes>>

\* _session_status.
SessionStatus(s) == IF s \in {"created", "running"} THEN "active" ELSE s

Sync ==
  /\ handler.pc = "projected"
  /\ sess' = UpdateSession([sess EXCEPT !.status = SessionStatus(invs[sess.inv].status)])
  /\ HandlerTo("synced")
  /\ UNCHANGED <<rows, bound, timeline, ops, invs, target, route, client, crashes, opened>>

Done ==
  /\ handler.pc = "synced"
  /\ Ends("succeeded")
  /\ UNCHANGED <<product, timeline, invs, target, route, client, crashes, opened>>

-----------------------------------------------------------------------------
(* What moves an investigation beside the handler. *)

\* InvestigationService.cancel from the operator's route.
CancelInvestigation ==
  /\ Free
  /\ \E i \in DOMAIN invs :
       /\ Live(i) /\ invs[i].status # "cancel_requested"
       /\ invs' = [invs EXCEPT ![i].status =
                     IF @ = "created" THEN "cancelled" ELSE "cancel_requested"]
       /\ opened' = opened \cup (IF Awaits /\ i = sess.inv THEN {} ELSE {"outside"})
  /\ UNCHANGED <<product, timeline, ops, target, route, handler, client, crashes>>

\* An approval is decided: the run goes on in the approval's request, not in
\* an operation of the session.  It may say a text, which no row holds before an
\* operation of the session projects the run again, and wait once more.
Decided ==
  /\ Free /\ handler.pc = "off"
  /\ \E i \in DOMAIN invs :
       /\ \/ invs[i].status = "waiting_approval"
          \/ invs[i].status = "running" /\ Through({"outside", "parked"})
       /\ \E s \in {"running", "waiting_approval", "paused", "failed", "completed"} :
            invs' = [invs EXCEPT ![i].status = s]
       /\ \/ UNCHANGED timeline
          \/ /\ Cardinality(SaidBy(i)) < MaxSaid
             /\ timeline' = Append(timeline, Said(i, Cardinality(SaidBy(i)) + 1))
  /\ opened' = opened \cup {"outside"}
  /\ UNCHANGED <<product, ops, target, route, handler, client, crashes>>

\* Mutant: an agent operation without an investigation goes back to the queue.
RequeueOrphan(op) ==
  IF op.inv # 0 /\ ~Live(op.inv)
  THEN IF invs[op.inv].status = "completed" THEN "succeeded" ELSE "failed"
  ELSE "queued"

\* _reconcile_agent_kind of an operation that was RUNNING: by the investigation
\* it was linked to when it was enqueued.
Reconciled(op) ==
  IF op.inv = 0 THEN "failed"
  ELSE IF Live(op.inv) THEN "queued"
  ELSE IF invs[op.inv].status = "completed" THEN "succeeded"
  ELSE "failed"

\* The investigations after the recovery of a process that died.
RecoverInvestigations ==
  \E s \in {"running", "paused"} :
    invs' = [i \in DOMAIN invs |->
               CASE invs[i].status = "running" -> [invs[i] EXCEPT !.status = s]
                 [] invs[i].status = "cancel_requested" -> [invs[i] EXCEPT !.status = "cancelled"]
                 [] OTHER -> invs[i]]

\* The orderly stop's sweep cancels every investigation that is not terminal.
SweepInvestigations ==
  invs' = [i \in DOMAIN invs |->
             IF Live(i) THEN [invs[i] EXCEPT !.status = "cancelled"] ELSE invs[i]]

\* The orderly stop: the handler that does not end within the grace period is
\* cancelled in its await and its operation put back, whatever it started; then
\* the investigations are swept, unless the process dies before that.  The
\* process starts again.
Stop ==
  /\ Free /\ crashes < MaxCrashes
  /\ crashes' = crashes + 1
  /\ ops' = [k \in DOMAIN ops |->
               IF ops[k].state = "running" THEN [ops[k] EXCEPT !.state = "queued"] ELSE ops[k]]
  /\ SweepInvestigations \/ RecoverInvestigations
  /\ handler' = [pc |-> "off", op |-> 0]
  /\ opened' = opened \cup (IF Awaits THEN {"requeued"}
                            ELSE IF invs # invs' THEN {"stopped"} ELSE {})
  /\ UNCHANGED <<product, timeline, target, route, client>>

\* The process dies and starts again: both recoveries, then the dispatcher.
Crash ==
  /\ crashes < MaxCrashes
  /\ crashes' = crashes + 1
  /\ ops' = [k \in DOMAIN ops |->
               IF ops[k].state = "running"
               THEN [ops[k] EXCEPT !.state = Reconciled(ops[k])] ELSE ops[k]]
  /\ RecoverInvestigations
  /\ route' = "off" /\ handler' = [pc |-> "off", op |-> 0]
  /\ opened' = opened \cup
       (IF route = "appended" THEN {"unqueued"} ELSE {})
       \cup (IF route = "enqueued" \/ handler.pc # "off" \/ invs # invs' THEN {"crash"} ELSE {})
       \cup {IF Reconciled(ops[k]) = "succeeded" THEN "relinked" ELSE "crash" :
               k \in {j \in DOMAIN ops : ops[j].state = "running"}}
  /\ UNCHANGED <<product, timeline, target, client>>

-----------------------------------------------------------------------------
Handler ==
  \/ Claim \/ LoadFails \/ LoadExisting \/ CreateFails \/ Create
  \/ BindInvestigation \/ BindMessage \/ Start \/ StartRefused
  \/ RunEnds \/ RunRaises \/ Rebind \/ Project \/ ProjectNothing \/ Sync \/ Done

Routes == Enqueue \/ Activate

SessionNext ==
  \/ Handler \/ Routes \/ RunSays
  \/ SendMessage \/ Resume \/ CancelQueued
  \/ DeleteTarget \/ DeleteProject \/ Poll
  \/ CancelInvestigation \/ Decided \/ Stop \/ Crash

\* The dispatcher's worker and the routes go on while the process lives, and a
\* loop ends within its budget.
SessionSpec == SessionInit /\ [][SessionNext]_sessionVars /\ WF_sessionVars(Handler \/ Routes)

-----------------------------------------------------------------------------
(* Properties. *)

\* With nothing queued or running the session shows what its investigation is
\* (sync_investigation), unless something other than the session's operations
\* moved it, the handler raised, or the process ended in between.
SessionAgrees ==
  /\ AtRest /\ sess.inv # 0
  /\ ~Through({"outside", "raised", "dropped", "crash", "stopped", "relinked"})
  => sess.status = SessionStatus(invs[sess.inv].status)

\* Every investigation that can still run is the one its session is bound to:
\* what a session started can be found and cancelled through it.  Only a crash
\* between create_investigation and bind_investigation leaves one alone.
NoOrphan ==
  ~Through({"crash"}) =>
    \A i \in DOMAIN invs : Live(i) => i = sess.inv \/ (handler.pc = "created" /\ i = Len(invs))

\* A message opens one investigation at most, across retries after a crash.  An
\* orderly stop cancels the investigation and puts the message's operation back,
\* which opens a second one.
OneInvestigationPerMessage ==
  ~Through({"requeued"}) =>
    \A i, j \in DOMAIN invs : invs[i].symptom = invs[j].symptom => i = j

\* bind_message(..., transcript_sequence=1) names the transcript entry that
\* holds this message: the first one holds the symptom.  A later message of a
\* live investigation is bound to it too.
BoundToItself ==
  ~Through({"followup", "other"}) =>
    \A n \in 1..MaxMsgs : bound[n][1] # 0 => invs[bound[n][1]].symptom = n

\* A stored message has its operation: no message is accepted and forgotten.
\* The two are separate commits, so a crash can come between.
MessageHasOperation ==
  route # "appended" /\ ~Through({"unqueued"}) =>
    \A n \in 1..Users : \E k \in DOMAIN ops : ops[k].act = "message" /\ ops[k].msg = n

\* A client that pages forward from the last message it has is given every
\* message before its cursor.  Texts are stored late with their early
\* created_at: a message sent while a run is on, and a run whose texts are
\* projected by a later operation only, hide them.
NothingSkipped ==
  ~Through({"midrun", "outside", "raised", "requeued", "crash"}) =>
    \A k \in 1..cursor : timeline[k] \in rows => timeline[k] \in shown

\* A message operation that succeeded has run its message: it is bound to an
\* investigation's run by the end of its handler, unless the run has no first
\* entry.  Recovery may say so of an operation that never got there.
SucceededIsDone ==
  ~Through({"untold", "relinked"}) =>
    \A k \in DOMAIN ops : ops[k].state = "succeeded" =>
      ops[k].msg # 0 /\ bound[ops[k].msg][2] = 1

\* Nothing runs on a target that was deleted, unless its project was deleted
\* through the operator's route.
NoWorkOnDeletedTarget ==
  ~target /\ ~Through({"unregistered"}) => \A i \in DOMAIN invs : ~Live(i)

\* Every operation of the session ends.
OperationsSettle ==
  [](Len(ops) > 0 => <>(\A k \in DOMAIN ops : ops[k].state \notin {"queued", "running"}))

\* A session that became ACTIVE does not stay so: clients poll until it is not.
\* A run that start took up while it waits for an approval leaves it ACTIVE.
ActiveEnds ==
  [](sess.status = "active" =>
       <>(\/ sess.status # "active"
          \/ Through({"parked", "raised", "dropped", "crash", "relinked"})))

\* The session and its work agree: its status is that of its investigation, a
\* message has opened one at most, none is out of the session's reach, and none
\* is left on a deleted target.
SessionTracksWork ==
  /\ SessionTypeOK
  /\ SessionAgrees
  /\ NoOrphan
  /\ OneInvestigationPerMessage
  /\ NoWorkOnDeletedTarget

\* A message that was accepted is queued, handled by the operation that says
\* so, bound to the investigation that holds it, and listed for the client.
MessagesKept ==
  /\ MessageHasOperation
  /\ BoundToItself
  /\ SucceededIsDone
  /\ NothingSkipped

\* Accepted work ends, and the session says so.
WorkEnds == OperationsSettle /\ ActiveEnds

=============================================================================
