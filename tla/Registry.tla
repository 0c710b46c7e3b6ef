------------------------------ MODULE Registry ------------------------------
(***************************************************************************)
(* The project registry and the two parts that write to it beside the      *)
(* operator's own routes: the product targets (targets/service.py and      *)
(* store.py, a facade of bindings over registry targets) and the registry  *)
(* proposals of agents (investigation/registry_proposals.py, applied when  *)
(* their approval is decided).  project_registry/store.py has the records. *)
(*                                                                         *)
(* Every project has one target; projects "A" and "B" were registered by   *)
(* the operator with the same target id, "N" is made by create_target.     *)
(* The facade never awaits, so only a crash comes between its two commits  *)
(* (mid); a decision awaits the remote host and the event broker.          *)
(***************************************************************************)
EXTENDS Integers, Sequences, FiniteSets

CONSTANTS
  MaxWrites,    \* bound on the writes of a project record
  MaxEdits,     \* bound on the operator's edits of projects
  MaxCrashes,
  NoOne         \* no project

ASSUME RegistryBounds == {MaxWrites, MaxEdits, MaxCrashes} \subseteq Nat

Project  == {"A", "B", "N"}
Proposal == {1, 2}       \* proposal k asks for its approval, number k
Item     == {"x", "y"}   \* containers and paths that a scope may hold

ASSUME NoProject == NoOne \notin Project

VARIABLES
  reg,      \* projects.record_json: registered, has its target, host, scope, updated_at
  bind,     \* target_facade_bindings: facade id -> project and version
  mid,      \* the facade operation that has made the first of its two commits
  acked,    \* history: the host that the last answered create or patch set
  gone,     \* history: projects whose target was deleted through the facade
  listed,   \* history: how the last list_targets ended
  prop,     \* registry_update_proposals: status
  appr,     \* the approvals of the proposals
  late,     \* approvals past expires_at
  dec,      \* handle_approval_decision, for each approval
  writes,   \* history: registry writes made under each approval
  applied,  \* history: proposals whose write was made
  asked,    \* what each proposal asks for: its intent
  cancelled,\* the run that made the proposals was cancelled
  edits, crashes, windows

facade   == <<bind, mid, acked, gone, listed>>
decision == <<prop, appr, late, dec, writes, applied, asked, cancelled>>
bounds   == <<edits, crashes>>
vars     == <<reg, facade, decision, bounds, windows>>

\* The registry's id of each project's target, and the ids a facade may give it.
Tid(p)   == IF p = "N" THEN "internal" ELSE "t"
Plain(p) == <<"plain", Tid(p)>>
Hash(p)  == <<"hash", p>>
New(p)   == <<"new", p>>
Facade   == {Plain(p) : p \in Project} \cup {Hash(p) : p \in Project} \cup {New("N")}

Row    == [there : BOOLEAN, target : BOOLEAN, host : Nat, scope : SUBSET Item, ver : 0..MaxWrites]
Absent == [there |-> FALSE, target |-> FALSE, host |-> 0, scope |-> {}, ver |-> 0]
Record(scope) == [Absent EXCEPT !.there = TRUE, !.target = TRUE, !.scope = scope]
Idle   == [pc |-> "off", prop |-> 0, seen |-> Absent]

TypeOK ==
  /\ reg \in [Project -> Row]
  /\ bind \in [Facade -> [to : Project \cup {NoOne}, ver : Nat]]
  /\ mid \in [op : {"none", "create", "patch", "delete"}, id : Facade, to : Project \cup {NoOne}]
  /\ acked \in [Facade -> Nat] /\ gone \subseteq Project /\ listed \in {"ok", "raised"}
  /\ prop \in [Proposal -> {"none", "requested", "pending", "approved", "rejected", "stale"}]
  /\ appr \in [Proposal -> {"none", "pending", "approved", "rejected", "consumed"}]
  /\ late \subseteq Proposal
  /\ dec \in [Proposal -> [pc : {"off", "handle", "lock", "verify", "written", "consumed", "done"},
                           prop : {0} \cup Proposal, seen : Row]]
  /\ writes \in [Proposal -> Nat] /\ applied \subseteq Proposal
  /\ asked \in [Proposal -> Item] /\ cancelled \in BOOLEAN
  /\ {edits, crashes} \subseteq Nat

NoWork == [op |-> "none", id |-> New("N"), to |-> NoOne]

Init ==
  /\ reg = [p \in Project |-> IF p = "A" THEN Record({}) ELSE Absent]
  /\ bind = [f \in Facade |-> [to |-> NoOne, ver |-> 0]]
  /\ mid = NoWork /\ acked = [f \in Facade |-> 0] /\ gone = {} /\ listed = "ok"
  /\ prop = [k \in Proposal |-> "none"] /\ appr = [k \in Proposal |-> "none"]
  /\ late = {} /\ dec = [k \in Proposal |-> Idle]
  /\ writes = [k \in Proposal |-> 0] /\ applied = {} /\ cancelled = FALSE
  /\ asked \in {a \in [Proposal -> Item] : a[1] = "x"}
  /\ edits = 0 /\ crashes = 0 /\ windows = {}

Through(W) == windows \cap W # {}
Free == mid = NoWork

-----------------------------------------------------------------------------
(* project_registry/store.py. *)

\* list_registry_targets.
Registered == {p \in Project : reg[p].there /\ reg[p].target}

\* Mutant: the update is not conditional.
AlwaysReplaces(p, seen) == reg[p].there

\* replace with expected_updated_at.
Replaces(p, seen) == reg[p].there /\ reg[p].ver = seen

\* The record after a replace; updated_at is a new value.
Replaced(p, r) == [reg EXCEPT ![p] = [r EXCEPT !.ver = reg[p].ver + 1]]

MayWrite(p) == reg[p].ver < MaxWrites

-----------------------------------------------------------------------------
(* targets/store.py and the internals of targets/service.py. *)

BoundAs(p) == {f \in Facade : bind[f].to = p}

\* _derive_facade_id: the registry's id while no other project uses it.
DeriveFacadeId(p) ==
  IF \E q \in Registered \ {p} : Tid(q) = Tid(p) THEN Hash(p) ELSE Plain(p)

\* TargetStore.create: both keys of the table are unique.
Creates(f, p) == bind[f].to = NoOne /\ BoundAs(p) = {}

Binding(p) == [to |-> p, ver |-> 1]
Unbound(f) == [bind EXCEPT ![f] = [to |-> NoOne, ver |-> 0]]

\* _binding_for_access: the binding of f, or a new one for the target whose id
\* f is now.
Resolve(f) ==
  IF bind[f].to # NoOne THEN bind[f].to
  ELSE IF \E p \in Registered : DeriveFacadeId(p) = f /\ Creates(f, p)
  THEN CHOOSE p \in Registered : DeriveFacadeId(p) = f
  ELSE NoOne

\* _to_view: a binding whose project or target is gone is not found.
Viewable(f) == bind[f].to \in Registered

\* list_targets: every registered target gets its binding before any is shown.
ListTargets ==
  LET unbound == {p \in Registered : BoundAs(p) = {}}
      taken   == {p \in unbound : bind[DeriveFacadeId(p)].to # NoOne}
  IN
  /\ Free
  /\ listed' = IF taken = {} THEN "ok" ELSE "raised"
  /\ \E B \in SUBSET unbound :   \* in the order of the ids up to the first that fails
       /\ IF taken = {} THEN B = unbound ELSE B \cap taken = {}
       /\ bind' = [f \in Facade |->
                     IF \E p \in B : DeriveFacadeId(p) = f
                     THEN Binding(CHOOSE p \in B : DeriveFacadeId(p) = f) ELSE bind[f]]
       /\ acked' = [f \in Facade |->
                      IF \E p \in B : DeriveFacadeId(p) = f
                      THEN reg[bind'[f].to].host ELSE acked[f]]
  /\ UNCHANGED <<reg, mid, gone, decision, bounds, windows>>

\* get_target, services_for_target and test_target bind on access.
Access(f) ==
  /\ Free /\ bind[f].to = NoOne /\ Resolve(f) # NoOne
  /\ bind' = [bind EXCEPT ![f] = Binding(Resolve(f))]
  /\ acked' = [acked EXCEPT ![f] = reg[Resolve(f)].host]
  /\ UNCHANGED <<reg, mid, gone, listed, decision, bounds, windows>>

-----------------------------------------------------------------------------
(* The write surface of targets/service.py: two commits each. *)

\* create_target: its project id is a new one, so no binding has it.
CreateTarget ==
  /\ Free /\ ~reg["N"].there /\ BoundAs("N") = {} /\ edits < MaxEdits
  /\ reg' = [reg EXCEPT !["N"] = Record({})]
  /\ mid' = [op |-> "create", id |-> New("N"), to |-> "N"]
  /\ edits' = edits + 1 /\ gone' = gone \ {"N"}
  /\ UNCHANGED <<bind, acked, listed, decision, crashes, windows>>

CreateBinding ==
  /\ mid.op = "create"
  /\ bind' = [bind EXCEPT ![mid.id] = Binding(mid.to)]
  /\ acked' = [acked EXCEPT ![mid.id] = reg[mid.to].host]
  /\ mid' = NoWork
  /\ UNCHANGED <<reg, gone, listed, decision, bounds, windows>>

\* patch_target: a request for another version of the binding is refused; the
\* record is read and replaced without an await.
PatchTarget(f) ==
  /\ Free /\ edits < MaxEdits /\ Viewable(f) /\ MayWrite(bind[f].to)
  /\ reg' = Replaced(bind[f].to, [reg[bind[f].to] EXCEPT !.host = bind[f].ver])
  /\ mid' = [op |-> "patch", id |-> f, to |-> bind[f].to]
  /\ edits' = edits + 1
  /\ UNCHANGED <<bind, acked, gone, listed, decision, crashes, windows>>

PatchBinding ==
  /\ mid.op = "patch"
  /\ bind' = [bind EXCEPT ![mid.id].ver = @ + 1]
  /\ acked' = [acked EXCEPT ![mid.id] = reg[mid.to].host]
  /\ mid' = NoWork
  /\ UNCHANGED <<reg, gone, listed, decision, bounds, windows>>

\* delete_target: first the binding, then the project or its target.  (The
\* investigations that block it are in Sessions.)
DeleteTarget(f) ==
  /\ Free /\ edits < MaxEdits /\ bind[f].to # NoOne /\ MayWrite(bind[f].to)
  /\ bind' = Unbound(f)
  /\ mid' = [op |-> "delete", id |-> f, to |-> bind[f].to]
  /\ edits' = edits + 1
  /\ UNCHANGED <<reg, acked, gone, listed, decision, crashes, windows>>

\* A project that create_target made goes as a whole; one that is gone stays so.
WithoutTarget(p) ==
  IF p = "N" \/ ~reg[p].there THEN [reg EXCEPT ![p] = Absent]
  ELSE Replaced(p, [reg[p] EXCEPT !.target = FALSE])

DeleteRegistered ==
  /\ mid.op = "delete"
  /\ reg' = WithoutTarget(mid.to)
  /\ gone' = gone \cup {mid.to}
  /\ mid' = NoWork
  /\ UNCHANGED <<bind, acked, listed, decision, bounds, windows>>

-----------------------------------------------------------------------------
(* The operator's routes on projects (routes/projects.py). *)

\* A project id that was deleted may be registered again, also beneath a binding
\* that was left behind.
CreateProject ==
  /\ Free /\ ~reg["B"].there /\ edits < MaxEdits
  /\ reg' = [reg EXCEPT !["B"] = Record({})]
  /\ edits' = edits + 1 /\ gone' = gone \ {"B"}
  /\ windows' = windows \cup (IF BoundAs("B") # {} THEN {"overwritten"} ELSE {})
  /\ UNCHANGED <<bind, mid, acked, listed, decision, crashes>>

\* update_project replaces whatever is there: another host, an empty scope, and
\* a deleted target registered again.
UpdateProject(p) ==
  /\ Free /\ reg[p].there /\ edits < MaxEdits /\ MayWrite(p)
  /\ reg' = Replaced(p, [Record({}) EXCEPT !.host = 9])
  /\ edits' = edits + 1 /\ gone' = gone \ {p}
  /\ windows' = windows \cup {"overwritten"}
  /\ UNCHANGED <<bind, mid, acked, listed, decision, crashes>>

DeleteProject(p) ==
  /\ Free /\ reg[p].there /\ edits < MaxEdits
  /\ reg' = [reg EXCEPT ![p] = Absent]
  /\ edits' = edits + 1
  /\ windows' = windows \cup {"dangling"}
  /\ UNCHANGED <<facade, decision, crashes>>

-----------------------------------------------------------------------------
(* investigation/registry_proposals.py.  Proposals are for project "A". *)

\* create_request inserts a new row whatever other approval carries the intent.
CreateRequest(k) == [appr EXCEPT ![k] = "pending"]

\* propose: the approval is requested, and an event published, before the
\* proposal is stored.
Request(k) ==
  /\ Free /\ prop[k] = "none" /\ appr[k] = "none" /\ ~cancelled
  /\ \A j \in 1..k - 1 : prop[j] # "none" \/ appr[j] # "none"
  /\ prop' = [prop EXCEPT ![k] = "requested"]
  /\ appr' = CreateRequest(k)
  /\ UNCHANGED <<reg, facade, late, dec, writes, applied, asked, cancelled, bounds, windows>>

Propose(k) ==
  /\ Free /\ prop[k] = "requested"
  /\ prop' = [prop EXCEPT ![k] = "pending"]
  /\ windows' = windows \cup (IF appr[k] # "pending" THEN {"early"} ELSE {})
  /\ UNCHANGED <<reg, facade, appr, late, dec, writes, applied, asked, cancelled, bounds>>

\* ApprovalService.approve and reject: only a pending approval is decided, and
\* the row is committed before its event is published.
Decision(k, v) == appr[k] = "pending" /\ appr' = [appr EXCEPT ![k] = v]

\* The route goes on to the handler of the decided approval.
RunDownstream(k) ==
  /\ dec' = [dec EXCEPT ![k] = [Idle EXCEPT !.pc = "handle"]]
  /\ UNCHANGED <<reg, facade, prop, late, writes, applied, asked, cancelled, bounds, windows>>

Approve(k) == Free /\ Decision(k, "approved") /\ RunDownstream(k)
Reject(k)  == Free /\ Decision(k, "rejected") /\ RunDownstream(k)

\* expires_at passes.
Expire(k) ==
  /\ Free /\ appr[k] = "approved" /\ k \notin late
  /\ late' = late \cup {k}
  /\ windows' = windows \cup {"expired"}
  /\ UNCHANGED <<reg, facade, prop, appr, dec, writes, applied, asked, cancelled, bounds>>

CancelRun ==
  /\ Free /\ ~cancelled
  /\ cancelled' = TRUE
  /\ windows' = windows \cup
       (IF \E k \in Proposal : dec[k].pc \in {"lock", "verify", "written", "consumed"}
        THEN {"midway"} ELSE {})
  /\ UNCHANGED <<reg, facade, prop, appr, late, dec, writes, applied, asked, bounds>>

\* handle_approval_decision of the investigation service: the oldest pending
\* proposal whose intent hash is the approval's.
Matching(k) ==
  LET same == {j \in Proposal : prop[j] = "pending" /\ asked[j] = asked[k]}
  IN IF same = {} THEN 0 ELSE CHOOSE j \in same : \A i \in same : j <= i

Finished(k) == dec' = [dec EXCEPT ![k] = [Idle EXCEPT !.pc = "done"]]

\* Mutant: the cancellation is not looked at.
NeverCancelled == FALSE

\* _run_cancel_pending.
RunCancelPending == cancelled

Handle(k) ==
  LET j == Matching(k) IN
  /\ Free /\ dec[k].pc = "handle"
  /\ IF j = 0 \/ RunCancelPending
     THEN /\ prop' = IF j = 0 THEN prop ELSE [prop EXCEPT ![j] = "stale"]
          /\ Finished(k)
     ELSE /\ dec' = [dec EXCEPT ![k] = [Idle EXCEPT !.pc = "lock", !.prop = j]]
          /\ prop' = prop
  /\ windows' = windows \cup (IF j \notin {0, k} THEN {"twins"} ELSE {})
  /\ UNCHANGED <<reg, facade, appr, late, writes, applied, asked, cancelled, bounds>>

Holds(k) == dec[k].pc \in {"verify", "written", "consumed"}

\* Mutant: no lock.
Unlocked(k) == dec[k].pc = "lock"

\* _decision_lock: one decision per proposal.
Locks(k) ==
  dec[k].pc = "lock" /\ \A j \in Proposal \ {k} : ~(Holds(j) /\ dec[j].prop = dec[k].prop)

\* transition_proposal_status: only a pending proposal is decided.
Decided(j, s) == [prop EXCEPT ![j] = IF @ = "pending" THEN s ELSE @]

\* consume: an approval that is not approved, or expired, stays.
Spent(k) == [appr EXCEPT ![k] = IF @ = "approved" /\ k \notin late THEN "consumed" ELSE @]

\* _decide up to its first await: no-op, rejection, refusal, or the record read.
Enter(k) ==
  /\ Free /\ Locks(k)
  /\ LET j == dec[k].prop IN
     IF prop[j] # "pending" \/ (appr[k] # "rejected" /\ (appr[k] # "approved" \/ k \in late)) THEN
        Finished(k) /\ UNCHANGED <<prop, appr>>
     ELSE IF appr[k] = "rejected" THEN
        Finished(k) /\ prop' = Decided(j, "rejected") /\ UNCHANGED appr
     ELSE IF ~reg["A"].there THEN
        Finished(k) /\ prop' = Decided(j, "stale") /\ appr' = Spent(k)
     ELSE
        /\ dec' = [dec EXCEPT ![k].pc = "verify", ![k].seen = reg["A"]]
        /\ UNCHANGED <<prop, appr>>
  /\ UNCHANGED <<reg, facade, late, writes, applied, asked, cancelled, bounds, windows>>

\* _stale: the identity or the path was not confirmed, the item is registered
\* already, or the record moved since it was read.
GoesStale(k) ==
  /\ prop' = Decided(dec[k].prop, "stale")
  /\ appr' = IF prop[dec[k].prop] = "pending" THEN Spent(k) ELSE appr
  /\ Finished(k)
  /\ UNCHANGED <<reg, facade, late, writes, applied, asked, cancelled, bounds, windows>>

NotConfirmed(k) == Free /\ dec[k].pc = "verify" /\ GoesStale(k)

\* The host does not answer: only RemotePathError and OSError count as not
\* confirmed, so a connection, host key or timeout error leaves the decision.
\* The routes swallow it, and only a restart looks at the proposal again.
DecisionRaises(k) ==
  /\ Free /\ dec[k].pc = "verify" /\ dec[k].seen.target
  /\ Finished(k)
  /\ windows' = windows \cup {"unreachable"}
  /\ UNCHANGED <<reg, facade, prop, appr, late, writes, applied, asked, cancelled, bounds>>

\* derive_registration_with_updates on the record that was read, and the
\* conditional replace.
Conflicts(k, item) == item \in dec[k].seen.scope \/ ~Replaces("A", dec[k].seen.ver)

\* _canonicalize_host_paths: the path that is registered is what the host
\* resolves it to.
Confirmed(k) ==
  /\ Free /\ dec[k].pc = "verify" /\ dec[k].seen.target
  /\ \E item \in Item :
       IF Conflicts(k, item) THEN GoesStale(k)
       ELSE /\ MayWrite("A")
            /\ reg' = Replaced("A", [dec[k].seen EXCEPT !.scope = @ \cup {item}])
            /\ dec' = [dec EXCEPT ![k].pc = "written"]
            /\ writes' = [writes EXCEPT ![k] = @ + 1]
            /\ applied' = applied \cup {dec[k].prop}
            /\ windows' = windows \cup (IF item # asked[k] THEN {"resolved"} ELSE {})
            /\ UNCHANGED <<facade, prop, appr, late, asked, cancelled, bounds>>

Consume(k) ==
  /\ Free /\ dec[k].pc = "written"
  /\ appr' = Spent(k)
  /\ dec' = [dec EXCEPT ![k].pc = "consumed"]
  /\ UNCHANGED <<reg, facade, prop, late, writes, applied, asked, cancelled, bounds, windows>>

Finish(k) ==
  /\ Free /\ dec[k].pc = "consumed"
  /\ prop' = Decided(dec[k].prop, "approved")
  /\ Finished(k)
  /\ UNCHANGED <<reg, facade, appr, late, writes, applied, asked, cancelled, bounds, windows>>

\* Mutant: startup leaves decided approvals alone.
NoneDecided == {}

\* _reconcile_decided_approvals: decided, and unfinished or with a pending
\* proposal of its intent.
ToReconcile ==
  {k \in Proposal : appr[k] \in {"approved", "rejected"}
                    /\ (dec[k].pc # "done" \/ Matching(k) # 0)}

\* The process dies and starts again.
Crash ==
  /\ crashes < MaxCrashes
  /\ crashes' = crashes + 1
  /\ mid' = NoWork
  /\ prop' = [k \in Proposal |-> IF prop[k] = "requested" THEN "none" ELSE prop[k]]
  /\ dec' = [k \in Proposal |->
               IF k \in ToReconcile THEN [Idle EXCEPT !.pc = "handle"]
               ELSE IF dec[k].pc = "done" THEN dec[k] ELSE Idle]
  /\ windows' = windows \cup (IF mid # NoWork THEN {"torn"} ELSE {})
       \cup (IF \E k \in Proposal : dec[k].pc \in {"written", "consumed"} THEN {"unrecorded"} ELSE {})
  /\ UNCHANGED <<reg, bind, acked, gone, listed, appr, late, writes, applied, asked, cancelled, edits>>

-----------------------------------------------------------------------------
Facades ==
  \/ ListTargets \/ CreateTarget \/ CreateBinding \/ PatchBinding \/ DeleteRegistered
  \/ \E f \in Facade : Access(f) \/ PatchTarget(f) \/ DeleteTarget(f)

Operator == CreateProject \/ (\E p \in Project : UpdateProject(p) \/ DeleteProject(p))

Deciding(k) ==
  \/ Handle(k) \/ Enter(k) \/ NotConfirmed(k) \/ DecisionRaises(k) \/ Confirmed(k)
  \/ Consume(k) \/ Finish(k)

Next ==
  \/ Facades \/ Operator \/ CancelRun \/ Crash
  \/ \E k \in Proposal : Request(k) \/ Propose(k) \/ Approve(k) \/ Reject(k) \/ Expire(k) \/ Deciding(k)

\* The event loop goes on with what it has begun.
Progress ==
  \/ CreateBinding \/ PatchBinding \/ DeleteRegistered
  \/ \E k \in Proposal : Propose(k) \/ Deciding(k)

Spec == Init /\ [][Next]_vars /\ WF_vars(Progress)

-----------------------------------------------------------------------------
(* Properties. *)

\* Two product targets never stand for one registry target, and a new target
\* keeps the id it was answered with.
OneFacadePerTarget ==
  \A f, g \in Facade : bind[f].to # NoOne /\ bind[f].to = bind[g].to => f = g

\* GET /targets answers whatever was registered, unless a project was deleted
\* beneath a binding whose id another project's target now has.
ListAnswers == ~Through({"dangling"}) => listed = "ok"

\* delete_target is final: the target does not come back by an access or a
\* list.  A crash after its first commit leaves the registry's target.
DeletedStaysDeleted ==
  \A f \in Facade : bind[f].to \notin gone

\* The host behind a product target is the one its last answered change set:
\* an agent's proposal never writes back a record read before the patch.
HostIsAcknowledged ==
  Free /\ ~Through({"overwritten", "torn"}) =>
    \A f \in Facade : Viewable(f) => reg[bind[f].to].host = acked[f]

\* What an approved proposal asked for is registered: no other write took it
\* back, save the operator's own or a path that resolved elsewhere.
ApprovedIsRegistered ==
  ~Through({"overwritten", "dangling", "resolved"}) =>
    \A k \in Proposal : prop[k] = "approved" => asked[k] \in reg["A"].scope

\* A proposal that is not approved in the end wrote nothing.  A crash between
\* the write and its record, and a cancellation after the write, break it.
DecidedHonestly ==
  ~Through({"unrecorded", "midway"}) =>
    \A k \in Proposal : prop[k] \in {"none", "requested", "rejected", "stale"} => k \notin applied

\* An approval is good for one write, across crashes, retries and twins, while
\* the item it registers is the one it asked for: a repeated write conflicts,
\* unless the operator took the first one back before a restart repeats it.
SingleUse ==
  ~Through({"resolved"}) /\ ~({"overwritten", "unrecorded"} \subseteq windows) =>
    \A k \in Proposal : writes[k] <= 1

\* No registry write for a run the operator cancelled, unless the decision was
\* under way.
NoWriteAfterCancel ==
  [][cancelled /\ ~Through({"midway"}) => applied' = applied]_vars

\* Every decided approval resolves its proposal, unless the host could not be
\* asked, or one of the other windows leaves the proposal behind.
ProposalsResolve ==
  \A k \in Proposal :
    [](prop[k] = "pending" /\ appr[k] # "pending" =>
         <>(\/ prop[k] # "pending"
            \/ Through({"early", "expired", "twins", "unrecorded", "unreachable"})))

\* The facade shows the registry as it is: one product target for each target,
\* a list that answers, deletions that last, and the host last acknowledged.
TargetsHold ==
  /\ TypeOK
  /\ OneFacadePerTarget
  /\ ListAnswers
  /\ DeletedStaysDeleted
  /\ HostIsAcknowledged

\* A proposal's status says whether it was written: what is approved is
\* registered, what is not was never written, and an approval writes once.
ProposalsHold ==
  /\ ApprovedIsRegistered
  /\ DecidedHonestly
  /\ SingleUse

=============================================================================
