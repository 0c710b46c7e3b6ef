--------------------------- MODULE RegistryProofs ---------------------------
(***************************************************************************)
(* Proofs about Registry.tla: what the facade shows (Targets) and what a   *)
(* proposal's status tells (ProposalsKept), for every bound on writes,     *)
(* edits and crashes.  The facade and the operator move project A on, take *)
(* it away or overwrite it; a decision moves one proposal it holds alone.  *)
(* Most steps touch one of the two parts and are framed for the other.     *)
(***************************************************************************)
EXTENDS Registry, TLAPS

-----------------------------------------------------------------------------
(* The inductive invariant. *)

\* What the operation between its two commits has done so far.
MidKnown ==
  /\ mid.op = "none" => mid = NoWork
  /\ mid.op # "none" => mid.to \in Project
  /\ mid.op = "create" => mid.id = New("N") /\ mid.to = "N" /\ BoundAs("N") = {} /\ "N" \in Registered
  /\ mid.op = "patch" => bind[mid.id].to = mid.to /\ mid.to \in Registered
  /\ mid.op = "delete" => BoundAs(mid.to) = {} /\ reg[mid.to].ver < MaxWrites

\* A facade id is bound to a project that it may be derived from.
IdsDerived ==
  \A f \in Facade : bind[f].to # NoOne =>
    f \in {Plain(bind[f].to), Hash(bind[f].to)} \/ (f = New("N") /\ bind[f].to = "N")

\* Only a project that was deleted beneath its binding leaves the binding behind.
BoundIsRegistered ==
  ~Through({"dangling"}) => \A f \in Facade : bind[f].to # NoOne => bind[f].to \in Registered

\* The host acknowledged last, but for the patch that is under way.
HostKept ==
  ~Through({"overwritten", "torn"}) =>
    \A f \in Facade : Viewable(f) /\ ~(mid.op = "patch" /\ f = mid.id) => reg[bind[f].to].host = acked[f]

Targets ==
  /\ MidKnown /\ IdsDerived /\ OneFacadePerTarget /\ BoundIsRegistered /\ ListAnswers
  /\ DeletedStaysDeleted /\ gone \cap Registered = {} /\ HostKept

UnderWay(k) == dec[k].pc \in {"lock", "verify", "written", "consumed"}
Took(k) == dec[k].pc \in {"written", "consumed"}

\* A decision under way has a proposal of its intent, one decision at a time
\* decides it, and the record it read is the registry's while that has its version.
DecisionKnown ==
  /\ \A k \in Proposal : UnderWay(k) => dec[k].prop \in Proposal /\ asked[dec[k].prop] = asked[k]
  /\ \A k, d \in Proposal : Holds(k) /\ Holds(d) /\ k # d => dec[k].prop # dec[d].prop
  /\ ~reg["A"].there => "dangling" \in windows
  /\ \A k \in Proposal : dec[k].pc = "verify" /\ reg["A"].there =>
       /\ dec[k].seen.there /\ dec[k].seen.ver <= reg["A"].ver
       /\ dec[k].seen.ver = reg["A"].ver => dec[k].seen = reg["A"]

\* Only a decided approval has a decision, and it is spent last.
ApprovalKnown ==
  \A k \in Proposal : /\ dec[k].pc # "off" => appr[k] \notin {"none", "pending"}
                      /\ dec[k].pc \in {"verify", "written"} => appr[k] = "approved"

\* Whose proposal a decision holds is pending, and after a cancellation no
\* decision is under way, unless it was then.
HeldIsPending ==
  ~Through({"midway"}) =>
    /\ \A k \in Proposal : Holds(k) => prop[dec[k].prop] = "pending"
    /\ cancelled => \A k \in Proposal : ~UnderWay(k)

\* A proposal whose write was made is approved, or about to be.
AppliedIsApproved ==
  ~Through({"unrecorded", "midway"}) =>
    \A j \in applied : prop[j] = "approved" \/ \E k \in Proposal : Took(k) /\ dec[k].prop = j

\* What was written is registered.
WrittenStays ==
  ~Through({"overwritten", "dangling", "resolved"}) =>
    \A k \in Proposal : Took(k) => asked[dec[k].prop] \in reg["A"].scope

\* A second write under an approval finds the first, or the approval spent.
WritesCounted ==
  ~Through({"resolved"}) =>
    /\ ~Through({"overwritten"}) =>
         \A k \in Proposal : writes[k] > 0 => asked[k] \in reg["A"].scope \/ ~reg["A"].there
    /\ ~Through({"unrecorded"}) =>
         \A k \in Proposal : writes[k] > 0 =>
           dec[k].pc = "written" \/ (dec[k].pc # "verify" /\ (appr[k] = "consumed" \/ k \in late))
    /\ SingleUse

ProposalsKept ==
  /\ DecisionKnown /\ ApprovalKnown /\ HeldIsPending /\ AppliedIsApproved
  /\ WrittenStays /\ ApprovedIsRegistered /\ WritesCounted

IInv == TypeOK /\ Targets /\ ProposalsKept

-----------------------------------------------------------------------------
(* Facade ids and bindings. *)

\* A window that is not hit was not hit before.
LEMMA Wider ==
  ASSUME windows \subseteq windows'
  PROVE  \A W : ~Through(W)' => ~Through(W)
BY DEF Through

\* The three kinds of facade ids are told apart.
LEMMA IdsDiffer ==
  /\ New("N") \in Facade /\ \A p \in Project : Plain(p) \in Facade /\ Hash(p) \in Facade
  /\ \A p, q \in Project : /\ Hash(p) = Hash(q) => p = q
                           /\ Plain(p) = Plain(q) <=> Tid(p) = Tid(q)
                           /\ Plain(p) # Hash(q) /\ New("N") # Plain(p) /\ New("N") # Hash(p)
BY DEF Plain, Hash, New, Facade, Project, Tid

\* The registry derives an id of its own for each target.
LEMMA DerivedIds ==
  /\ \A p \in Registered : DeriveFacadeId(p) \in {Plain(p), Hash(p)} /\ DeriveFacadeId(p) \in Facade
  /\ \A p, q \in Registered : DeriveFacadeId(p) = DeriveFacadeId(q) => p = q
  /\ \A p, q \in Registered : DeriveFacadeId(p) = Plain(p) /\ p # q => Plain(p) # Plain(q)
<1>1. \A p \in Registered : p \in Project
  BY DEF Registered
<1>2. \A p \in Registered : DeriveFacadeId(p) \in {Plain(p), Hash(p)} /\ DeriveFacadeId(p) \in Facade
  BY <1>1, IdsDiffer DEF DeriveFacadeId
<1>3. ASSUME NEW p \in Registered, NEW q \in Registered, DeriveFacadeId(p) = Plain(p), p # q
      PROVE  Plain(p) # Plain(q)
  BY <1>1, <1>3, IdsDiffer DEF DeriveFacadeId
<1>4. ASSUME NEW p \in Registered, NEW q \in Registered, DeriveFacadeId(p) = DeriveFacadeId(q)
      PROVE  p = q
  BY <1>1, <1>2, <1>3, <1>4, IdsDiffer
<1> QED BY <1>2, <1>3, <1>4

\* While no binding was left behind, a target without one finds its id free.
LEMMA IdIsFree ==
  ASSUME TypeOK, Targets, ~Through({"dangling"}), NEW p \in Registered, BoundAs(p) = {}
  PROVE  bind[DeriveFacadeId(p)].to = NoOne
<1>1. PICK f \in Facade : f = DeriveFacadeId(p)
  BY DerivedIds
<1>2. PICK q \in Project \cup {NoOne} : q = bind[f].to
  BY DEF TypeOK
<1> SUFFICES ASSUME q # NoOne PROVE FALSE
  BY <1>1, <1>2
<1>3. q \in Registered /\ q # p /\ p \in Project /\ q \in Project
  BY <1>2 DEF Targets, BoundIsRegistered, BoundAs, Registered
<1>4. f \in {Plain(q), Hash(q)} \/ f = New("N")
  BY <1>2 DEF Targets, IdsDerived
<1> QED BY <1>1, <1>3, <1>4, DerivedIds, IdsDiffer

\* Targets that have no binding get one under the id that is free for them.
LEMMA BindsKeep ==
  ASSUME TypeOK, Targets, Free, NEW S \in SUBSET Registered,
         \A p \in S : BoundAs(p) = {} /\ bind[DeriveFacadeId(p)].to = NoOne,
         UNCHANGED <<reg, mid, gone, windows>>,
         bind' \in [Facade -> [to : Project \cup {NoOne}, ver : Nat]],
         \A f \in Facade :
           \/ \E p \in S : DeriveFacadeId(p) = f /\ bind'[f].to = p /\ acked'[f] = reg[p].host
           \/ bind'[f] = bind[f] /\ acked'[f] = acked[f],
         ~Through({"dangling"}) => listed' = "ok"
  PROVE  Targets'
<1>1. \A f \in Facade : bind[f].to \in Project \cup {NoOne}
  BY DEF TypeOK
<1>2. \A p \in S : p \in Project /\ p \in Registered /\ p # NoOne /\ \A f \in Facade : bind[f].to # p
  BY NoProject DEF Registered, BoundAs
<1>3. Registered' = Registered /\ mid = NoWork /\ mid' = NoWork /\ mid.op = "none"
  BY DEF Registered, Free, NoWork
<1>4. MidKnown'
  BY <1>3 DEF MidKnown, NoWork
<1>5. IdsDerived'
  BY <1>2, DerivedIds DEF Targets, IdsDerived
<1>6. OneFacadePerTarget'
  <2> SUFFICES ASSUME NEW f \in Facade, NEW g \in Facade, bind'[f].to # NoOne, bind'[f].to = bind'[g].to
               PROVE  f = g
    BY DEF OneFacadePerTarget
  <2>1. CASE bind'[f] = bind[f] /\ bind'[g] = bind[g]
    BY <2>1 DEF Targets, OneFacadePerTarget
  <2>2. ASSUME NEW p \in S, DeriveFacadeId(p) = f, bind'[f].to = p
        PROVE  f = g
    BY ZenonT(40), <1>2, <2>2
  <2>3. ASSUME NEW p \in S, DeriveFacadeId(p) = g, bind'[g].to = p
        PROVE  f = g
    BY <1>2, <2>3
  <2> QED BY <2>1, <2>2, <2>3
<1>7. BoundIsRegistered'
  BY <1>2, <1>3 DEF Targets, BoundIsRegistered, Through
<1>8. ListAnswers'
  BY DEF ListAnswers, Through
<1>9. DeletedStaysDeleted' /\ (gone \cap Registered = {})'
  BY <1>2, <1>3 DEF Targets, DeletedStaysDeleted
<1>10. HostKept'
  <2> SUFFICES ASSUME ~Through({"overwritten", "torn"}), NEW f \in Facade, bind'[f].to \in Registered
               PROVE  reg[bind'[f].to].host = acked'[f]
    BY <1>3 DEF HostKept, Viewable, Through
  <2>1. CASE bind'[f] = bind[f] /\ acked'[f] = acked[f]
    BY <1>3, <2>1 DEF Targets, HostKept, Viewable
  <2> QED BY <2>1
<1> QED BY <1>4, <1>5, <1>6, <1>7, <1>8, <1>9, <1>10 DEF Targets

-----------------------------------------------------------------------------
(* The product targets, action by action. *)

\* The part of the type that the facade's operations change.
FacadeTypes ==
  /\ reg \in [Project -> Row]
  /\ bind \in [Facade -> [to : Project \cup {NoOne}, ver : Nat]]
  /\ mid \in [op : {"none", "create", "patch", "delete"}, id : Facade, to : Project \cup {NoOne}]
  /\ acked \in [Facade -> Nat] /\ gone \subseteq Project /\ listed \in {"ok", "raised"}

\* list_targets binds every target, or stops where an id is taken.
LEMMA ListKeeps ==
  ASSUME TypeOK, Targets, ListTargets
  PROVE  Targets' /\ FacadeTypes'
<1> DEFINE unbound == {p \in Registered : BoundAs(p) = {}}
           taken == {p \in unbound : bind[DeriveFacadeId(p)].to # NoOne}
<1>1. PICK S \in SUBSET unbound :
        /\ IF taken = {} THEN S = unbound ELSE S \cap taken = {}
        /\ bind' = [f \in Facade |->
                      IF \E p \in S : DeriveFacadeId(p) = f
                      THEN Binding(CHOOSE p \in S : DeriveFacadeId(p) = f) ELSE bind[f]]
        /\ acked' = [f \in Facade |->
                       IF \E p \in S : DeriveFacadeId(p) = f
                       THEN reg[bind'[f].to].host ELSE acked[f]]
  BY DEF ListTargets
<1>2. Free /\ UNCHANGED <<reg, mid, gone, windows>> /\ listed' = IF taken = {} THEN "ok" ELSE "raised"
  BY DEF ListTargets
<1>3. S \in SUBSET Registered /\ \A p \in S : BoundAs(p) = {} /\ bind[DeriveFacadeId(p)].to = NoOne
  BY <1>1
<1>4. ~Through({"dangling"}) => taken = {}
  BY IdIsFree
<1>5. ASSUME NEW p \in S
      PROVE  /\ p \in Project /\ reg[p].host \in Nat /\ DeriveFacadeId(p) \in Facade
             /\ (CHOOSE q \in S : DeriveFacadeId(q) = DeriveFacadeId(p)) = p
  <2>1. \A q \in S : DeriveFacadeId(q) = DeriveFacadeId(p) => q = p
    BY <1>3, DerivedIds
  <2>2. reg[p] \in Row /\ p \in Project
    BY <1>3 DEF Registered, TypeOK
  <2>3. p \in S /\ DeriveFacadeId(p) \in Facade
    BY <1>3, DerivedIds
  <2> QED BY <2>1, <2>2, <2>3 DEF Row
<1>6. ASSUME NEW f \in Facade
      PROVE  /\ \/ \E p \in S : /\ DeriveFacadeId(p) = f /\ bind'[f].to = p
                                /\ acked'[f] = reg[p].host
                \/ bind'[f] = bind[f] /\ acked'[f] = acked[f]
             /\ bind'[f] \in [to : Project \cup {NoOne}, ver : Nat] /\ acked'[f] \in Nat
  <2>1. CASE \E p \in S : DeriveFacadeId(p) = f
    <3>1. PICK p \in S : DeriveFacadeId(p) = f
      BY <2>1
    <3>2. bind'[f] = Binding(p) /\ acked'[f] = reg[bind'[f].to].host
      BY <1>1, <1>5, <3>1
    <3> QED BY <1>5, <3>1, <3>2 DEF Binding
  <2>2. CASE ~\E p \in S : DeriveFacadeId(p) = f
    BY <1>1, <2>2 DEF TypeOK
  <2> QED BY <2>1, <2>2
<1>7. /\ bind' \in [Facade -> [to : Project \cup {NoOne}, ver : Nat]] /\ acked' \in [Facade -> Nat]
      /\ \A f \in Facade :
           \/ \E p \in S : DeriveFacadeId(p) = f /\ bind'[f].to = p /\ acked'[f] = reg[p].host
           \/ bind'[f] = bind[f] /\ acked'[f] = acked[f]
  BY <1>1, <1>6
<1> HIDE DEF taken, unbound
<1>8. Targets'
  BY <1>2, <1>3, <1>4, <1>7, BindsKeep
<1>9. FacadeTypes'
  BY <1>2, <1>7 DEF FacadeTypes, TypeOK
<1> QED BY <1>8, <1>9

\* An access binds the one target whose id it asks for.
LEMMA AccessKeeps ==
  ASSUME TypeOK, Targets, NEW f \in Facade, Access(f)
  PROVE  Targets' /\ FacadeTypes'
<1>1. PICK p : p = Resolve(f)
  OBVIOUS
<1>2. /\ Free /\ bind[f].to = NoOne /\ p # NoOne
      /\ bind' = [bind EXCEPT ![f] = Binding(p)] /\ acked' = [acked EXCEPT ![f] = reg[p].host]
      /\ UNCHANGED <<reg, mid, gone, listed, windows>>
  BY <1>1 DEF Access
<1>3. p \in Registered /\ DeriveFacadeId(p) = f /\ BoundAs(p) = {}
  <2>1. \E q \in Registered : DeriveFacadeId(q) = f /\ Creates(f, q)
    BY <1>1, <1>2 DEF Resolve
  <2>2. p = CHOOSE q \in Registered : DeriveFacadeId(q) = f
    BY <1>1, <1>2, <2>1 DEF Resolve
  <2>3. PICK q \in Registered : DeriveFacadeId(q) = f /\ Creates(f, q)
    BY <2>1
  <2>4. p \in Registered /\ DeriveFacadeId(p) = f
    BY <2>2, <2>3
  <2>5. p = q
    BY <2>3, <2>4, DerivedIds
  <2> QED BY <2>3, <2>4, <2>5 DEF Creates
<1>4. p \in Project /\ reg[p].host \in Nat
  BY <1>3 DEF Registered, TypeOK, Row
<1>5. /\ bind' \in [Facade -> [to : Project \cup {NoOne}, ver : Nat]] /\ acked' \in [Facade -> Nat]
      /\ bind'[f].to = p /\ acked'[f] = reg[p].host
      /\ \A g \in Facade : g # f => bind'[g] = bind[g] /\ acked'[g] = acked[g]
  BY <1>2, <1>4 DEF TypeOK, Binding
<1>6. \A g \in Facade :
        \/ \E q \in {p} : DeriveFacadeId(q) = g /\ bind'[g].to = q /\ acked'[g] = reg[q].host
        \/ bind'[g] = bind[g] /\ acked'[g] = acked[g]
  BY <1>3, <1>5
<1>7. ~Through({"dangling"}) => listed' = "ok"
  BY <1>2 DEF Targets, ListAnswers
<1>8. {p} \in SUBSET Registered /\ \A q \in {p} : BoundAs(q) = {} /\ bind[DeriveFacadeId(q)].to = NoOne
  BY <1>2, <1>3
<1>9. Targets'
  BY <1>2, <1>5, <1>6, <1>7, <1>8, BindsKeep
<1> QED BY <1>2, <1>5, <1>9 DEF FacadeTypes, TypeOK

\* A step that leaves the bindings alone, and which projects are registered and
\* their hosts.
LEMMA SameHosts ==
  ASSUME TypeOK, Targets, Free, UNCHANGED facade, windows \subseteq windows',
         reg' \in [Project -> Row],
         \A p \in Project : /\ reg'[p].there = reg[p].there /\ reg'[p].target = reg[p].target
                            /\ reg'[p].host = reg[p].host
  PROVE  Targets' /\ FacadeTypes'
<1>1. /\ UNCHANGED <<bind, mid, acked, gone, listed>> /\ mid.op = "none"
      /\ Registered' = Registered
  BY DEF facade, Free, NoWork, Registered
<1>2. MidKnown'
  BY <1>1 DEF Targets, MidKnown, NoWork
<1>3. IdsDerived' /\ OneFacadePerTarget'
  BY <1>1 DEF Targets, IdsDerived, OneFacadePerTarget
<1>4. BoundIsRegistered' /\ ListAnswers'
  BY <1>1, Wider DEF Targets, BoundIsRegistered, ListAnswers
<1>5. DeletedStaysDeleted' /\ (gone \cap Registered = {})'
  BY <1>1 DEF Targets, DeletedStaysDeleted
<1>6. HostKept'
  <2> SUFFICES ASSUME ~Through({"overwritten", "torn"})', NEW f \in Facade, bind[f].to \in Registered
               PROVE  reg'[bind[f].to].host = acked[f]
    BY <1>1 DEF HostKept, Viewable
  <2>1. reg[bind[f].to].host = acked[f]
    BY <1>1, Wider DEF Targets, HostKept, Viewable
  <2> QED BY <2>1 DEF Registered
<1> QED BY <1>1, <1>2, <1>3, <1>4, <1>5, <1>6 DEF Targets, FacadeTypes, TypeOK

\* A project that is registered anew, when no binding stands for it or the
\* operator is told to have overwritten it.
LEMMA RegistersKeep ==
  ASSUME TypeOK, Targets, Free, NEW p \in Project, NEW r \in Row, r.there, r.target,
         reg' = [reg EXCEPT ![p] = r], gone' = gone \ {p},
         UNCHANGED <<bind, acked, listed>>, windows \subseteq windows',
         BoundAs(p) = {} \/ "overwritten" \in windows',
         mid' = NoWork \/ (p = "N" /\ BoundAs(p) = {} /\ mid' = [op |-> "create", id |-> New("N"), to |-> "N"])
  PROVE  Targets' /\ FacadeTypes'
<1>1. /\ reg' \in [Project -> Row] /\ reg'[p] = r /\ \A q \in Project : q # p => reg'[q] = reg[q]
      /\ Registered' = Registered \cup {p}
  BY DEF TypeOK, Registered
<1>2. \A q \in Project : BoundAs(q)' = BoundAs(q)
  BY DEF BoundAs
<1>3. mid' \in [op : {"none", "create", "patch", "delete"}, id : Facade, to : Project \cup {NoOne}]
      /\ mid'.op \in {"none", "create"}
  BY IdsDiffer DEF NoWork
<1>4. MidKnown'
  BY <1>1, <1>2, <1>3 DEF MidKnown, NoWork
<1>5. IdsDerived' /\ OneFacadePerTarget'
  BY DEF Targets, IdsDerived, OneFacadePerTarget
<1>6. BoundIsRegistered' /\ ListAnswers'
  BY <1>1, Wider DEF Targets, BoundIsRegistered, ListAnswers
<1>7. DeletedStaysDeleted' /\ (gone \cap Registered = {})'
  BY <1>1 DEF Targets, DeletedStaysDeleted
<1>8. HostKept'
  <2> SUFFICES ASSUME ~Through({"overwritten", "torn"})', NEW f \in Facade, bind[f].to \in Registered'
               PROVE  reg'[bind[f].to].host = acked[f]
    BY DEF HostKept, Viewable
  <2>1. BoundAs(p) = {}
    BY DEF Through
  <2>2. bind[f].to # p /\ bind[f].to \in Registered /\ bind[f].to \in Project
    BY <1>1, <2>1 DEF BoundAs, Registered
  <2>3. reg[bind[f].to].host = acked[f]
    BY <2>2, Wider DEF Targets, HostKept, Viewable, Free, NoWork
  <2> QED BY <1>1, <2>2, <2>3
<1> QED BY <1>1, <1>3, <1>4, <1>5, <1>6, <1>7, <1>8 DEF Targets, FacadeTypes, TypeOK

\* A new record is a record.
LEMMA FreshRow == \A n \in Nat, v \in 0..MaxWrites :
  LET r == [[Record({}) EXCEPT !.host = n] EXCEPT !.ver = v] IN r \in Row /\ r.there /\ r.target
BY DEF Record, Absent, Row

\* create_target, the route that registers a project, and the one that replaces it.
LEMMA NewProjectsKeep ==
  ASSUME TypeOK, Targets, CreateTarget \/ CreateProject \/ \E p \in Project : UpdateProject(p)
  PROVE  Targets' /\ FacadeTypes'
<1>1. Record({}) \in Row /\ Record({}).there /\ Record({}).target
  <2>1. 0 \in 0..MaxWrites
    BY RegistryBounds
  <2> QED BY <2>1 DEF Record, Absent, Row
<1>2. CASE CreateTarget
  <2>1. "N" \in Project /\ Free /\ BoundAs("N") = {} /\ reg' = [reg EXCEPT !["N"] = Record({})]
        /\ mid' = [op |-> "create", id |-> New("N"), to |-> "N"] /\ gone' = gone \ {"N"}
        /\ UNCHANGED <<bind, acked, listed, windows>>
    BY <1>2 DEF CreateTarget, Project
  <2> QED BY <1>1, <2>1, RegistersKeep
<1>3. CASE CreateProject
  <2>1. "B" \in Project /\ Free /\ reg' = [reg EXCEPT !["B"] = Record({})] /\ gone' = gone \ {"B"}
        /\ mid' = NoWork /\ (BoundAs("B") = {} \/ "overwritten" \in windows')
        /\ UNCHANGED <<bind, acked, listed>> /\ windows \subseteq windows'
    BY <1>3 DEF CreateProject, Project, Free
  <2> QED BY <1>1, <2>1, RegistersKeep
<1>4. ASSUME NEW p \in Project, UpdateProject(p)
      PROVE  Targets' /\ FacadeTypes'
  <2> DEFINE r == [[Record({}) EXCEPT !.host = 9] EXCEPT !.ver = reg[p].ver + 1]
  <2>1. Free /\ reg' = [reg EXCEPT ![p] = r] /\ gone' = gone \ {p} /\ reg[p].ver < MaxWrites
        /\ mid' = NoWork /\ UNCHANGED <<bind, acked, listed>> /\ windows \subseteq windows'
        /\ "overwritten" \in windows'
    BY <1>4 DEF UpdateProject, Replaced, Free, MayWrite
  <2>2. reg[p].ver + 1 \in 0..MaxWrites
    BY <2>1, RegistryBounds DEF TypeOK, Row
  <2>3. r \in Row /\ r.there /\ r.target
    BY <2>2, FreshRow
  <2> HIDE DEF r
  <2> QED BY <2>1, <2>3, RegistersKeep
<1> QED BY <1>2, <1>3, <1>4

\* The second commit of create_target.
LEMMA CreateBindingKeeps ==
  ASSUME TypeOK, Targets, CreateBinding
  PROVE  Targets' /\ FacadeTypes'
<1> DEFINE n == New("N")
<1>1. /\ mid.op = "create" /\ mid.id = n /\ mid.to = "N" /\ BoundAs("N") = {} /\ "N" \in Registered
      /\ n \in Facade /\ "N" \in Project
  BY IdsDiffer DEF CreateBinding, Targets, MidKnown, Project
<1>2. /\ bind' = [bind EXCEPT ![n] = Binding("N")] /\ acked' = [acked EXCEPT ![n] = reg["N"].host]
      /\ mid' = NoWork /\ UNCHANGED <<reg, gone, listed, windows>>
  BY <1>1 DEF CreateBinding
<1>3. /\ bind' \in [Facade -> [to : Project \cup {NoOne}, ver : Nat]] /\ acked' \in [Facade -> Nat]
      /\ bind'[n].to = "N" /\ acked'[n] = reg["N"].host
      /\ \A g \in Facade : g # n => bind'[g] = bind[g] /\ acked'[g] = acked[g] /\ bind[g].to # "N"
  BY <1>1, <1>2 DEF TypeOK, Binding, Row, BoundAs
<1> HIDE DEF n
<1>4. NoWork \in [op : {"none", "create", "patch", "delete"}, id : Facade, to : Project \cup {NoOne}]
      /\ Registered' = Registered
  BY <1>2, IdsDiffer DEF NoWork, Registered
<1>5. MidKnown'
  BY <1>2 DEF MidKnown, NoWork
<1>6. IdsDerived'
  BY <1>3 DEF Targets, IdsDerived, n
<1>7. OneFacadePerTarget'
  BY <1>3 DEF Targets, OneFacadePerTarget
<1>8. BoundIsRegistered' /\ ListAnswers'
  BY <1>1, <1>2, <1>3, <1>4 DEF Targets, BoundIsRegistered, ListAnswers, Through
<1>9. DeletedStaysDeleted' /\ (gone \cap Registered = {})'
  BY <1>1, <1>2, <1>3, <1>4 DEF Targets, DeletedStaysDeleted
<1>10. HostKept'
  <2> SUFFICES ASSUME ~Through({"overwritten", "torn"}), NEW f \in Facade, bind'[f].to \in Registered
               PROVE  reg[bind'[f].to].host = acked'[f]
    BY <1>2, <1>4 DEF HostKept, Viewable, Through
  <2>1. CASE f = n
    BY <1>3, <2>1
  <2>2. CASE f # n
    BY <1>1, <1>3, <2>2 DEF Targets, HostKept, Viewable
  <2> QED BY <2>1, <2>2
<1> QED BY <1>2, <1>3, <1>4, <1>5, <1>6, <1>7, <1>8, <1>9, <1>10 DEF Targets, FacadeTypes, TypeOK

\* The first commit of patch_target: the record has the new host.
LEMMA PatchKeeps ==
  ASSUME TypeOK, Targets, NEW f \in Facade, PatchTarget(f)
  PROVE  Targets' /\ FacadeTypes'
<1>1. PICK p \in Project : p = bind[f].to /\ p \in Registered
  BY DEF PatchTarget, Viewable, Registered
<1>2. /\ Free /\ mid' = [op |-> "patch", id |-> f, to |-> p] /\ UNCHANGED <<bind, acked, gone, listed, windows>>
      /\ reg' = [reg EXCEPT ![p] = [[reg[p] EXCEPT !.host = bind[f].ver] EXCEPT !.ver = reg[p].ver + 1]]
      /\ reg[p].ver < MaxWrites
  BY <1>1 DEF PatchTarget, Replaced, MayWrite
<1>3. reg[p] \in Row /\ bind[f].ver \in Nat /\ reg[p].ver + 1 \in 0..MaxWrites
  BY <1>2, RegistryBounds DEF TypeOK, Row
<1>4. reg' \in [Project -> Row]
  BY <1>2, <1>3 DEF TypeOK, Row
<1>5. /\ \A q \in Project : q # p => reg'[q] = reg[q]
      /\ reg'[p].there = reg[p].there /\ reg'[p].target = reg[p].target
  BY <1>2, <1>3 DEF TypeOK, Row
<1>6. Registered' = Registered
  BY <1>5 DEF Registered
<1>7. MidKnown'
  BY <1>1, <1>2, <1>6 DEF MidKnown
<1>8. IdsDerived' /\ OneFacadePerTarget'
  BY <1>2 DEF Targets, IdsDerived, OneFacadePerTarget
<1>9. BoundIsRegistered' /\ ListAnswers'
  BY <1>2, <1>6 DEF Targets, BoundIsRegistered, ListAnswers, Through
<1>10. DeletedStaysDeleted' /\ (gone \cap Registered = {})'
  BY <1>2, <1>6 DEF Targets, DeletedStaysDeleted
<1>11. HostKept'
  <2> SUFFICES ASSUME ~Through({"overwritten", "torn"}), NEW g \in Facade, bind[g].to \in Registered, g # f
               PROVE  reg'[bind[g].to].host = acked[g]
    BY <1>2, <1>6 DEF HostKept, Viewable, Through
  <2>1. bind[g].to # p
    BY <1>1, NoProject DEF Targets, OneFacadePerTarget
  <2>2. bind[g].to \in Project
    BY DEF Registered
  <2>3. reg[bind[g].to].host = acked[g]
    BY <1>2 DEF Targets, HostKept, Viewable, Free, NoWork
  <2> QED BY <1>5, <2>1, <2>2, <2>3
<1> QED BY <1>1, <1>2, <1>4, <1>7, <1>8, <1>9, <1>10, <1>11 DEF Targets, FacadeTypes, TypeOK

\* The second commit of patch_target acknowledges it.
LEMMA PatchBindingKeeps ==
  ASSUME TypeOK, Targets, PatchBinding
  PROVE  Targets' /\ FacadeTypes'
<1>1. PICK f \in Facade, p \in Project : f = mid.id /\ p = mid.to /\ bind[f].to = p /\ p \in Registered
  BY DEF PatchBinding, Targets, MidKnown, TypeOK
<1>2. /\ mid.op = "patch" /\ mid' = NoWork /\ UNCHANGED <<reg, gone, listed, windows>>
      /\ bind' = [bind EXCEPT ![f].ver = bind[f].ver + 1]
      /\ acked' = [acked EXCEPT ![f] = reg[p].host]
  BY <1>1 DEF PatchBinding
<1>3. /\ bind' \in [Facade -> [to : Project \cup {NoOne}, ver : Nat]] /\ acked' \in [Facade -> Nat]
      /\ \A g \in Facade : bind'[g].to = bind[g].to
      /\ acked'[f] = reg[p].host /\ \A g \in Facade : g # f => acked'[g] = acked[g]
  BY <1>1, <1>2 DEF TypeOK, Row
<1>4. NoWork \in [op : {"none", "create", "patch", "delete"}, id : Facade, to : Project \cup {NoOne}]
      /\ Registered' = Registered
  BY <1>2, IdsDiffer DEF NoWork, Registered
<1>5. MidKnown'
  BY <1>2 DEF MidKnown, NoWork
<1>6. IdsDerived' /\ OneFacadePerTarget'
  BY <1>3 DEF Targets, IdsDerived, OneFacadePerTarget
<1>7. BoundIsRegistered' /\ ListAnswers'
  BY <1>2, <1>3, <1>4 DEF Targets, BoundIsRegistered, ListAnswers, Through
<1>8. DeletedStaysDeleted' /\ (gone \cap Registered = {})'
  BY <1>2, <1>3, <1>4 DEF Targets, DeletedStaysDeleted
<1>9. HostKept'
  <2> SUFFICES ASSUME ~Through({"overwritten", "torn"}), NEW g \in Facade, bind[g].to \in Registered
               PROVE  reg[bind[g].to].host = acked'[g]
    BY <1>2, <1>3, <1>4 DEF HostKept, Viewable, Through
  <2>1. CASE g = f
    BY <1>1, <1>3, <2>1
  <2>2. CASE g # f
    BY <1>1, <1>3, <2>2 DEF Targets, HostKept, Viewable
  <2> QED BY <2>1, <2>2
<1> QED BY <1>2, <1>3, <1>4, <1>5, <1>6, <1>7, <1>8, <1>9 DEF Targets, FacadeTypes, TypeOK

\* The first commit of delete_target takes the binding away.
LEMMA DeleteKeeps ==
  ASSUME TypeOK, Targets, NEW f \in Facade, DeleteTarget(f)
  PROVE  Targets' /\ FacadeTypes'
<1>1. PICK p \in Project : p = bind[f].to
  BY DEF DeleteTarget, TypeOK
<1>2. /\ Free /\ mid' = [op |-> "delete", id |-> f, to |-> p] /\ UNCHANGED <<reg, acked, gone, listed, windows>>
      /\ bind' = [bind EXCEPT ![f] = [to |-> NoOne, ver |-> 0]] /\ reg[p].ver < MaxWrites
  BY <1>1 DEF DeleteTarget, Unbound, MayWrite
<1>3. /\ bind' \in [Facade -> [to : Project \cup {NoOne}, ver : Nat]] /\ bind'[f].to = NoOne
      /\ \A g \in Facade : g # f => bind'[g] = bind[g]
  BY <1>2 DEF TypeOK
<1>4. Registered' = Registered /\ p # NoOne /\ NoOne \notin Registered
  BY <1>2, NoProject DEF Registered
<1>5. \A g \in Facade : bind'[g].to # p
  BY <1>1, <1>3, <1>4 DEF Targets, OneFacadePerTarget
<1>6. MidKnown'
  BY <1>2, <1>5 DEF MidKnown, BoundAs
<1>7. IdsDerived' /\ OneFacadePerTarget'
  BY <1>3 DEF Targets, IdsDerived, OneFacadePerTarget
<1>8. BoundIsRegistered' /\ ListAnswers'
  BY <1>2, <1>3, <1>4 DEF Targets, BoundIsRegistered, ListAnswers, Through
<1>9. DeletedStaysDeleted' /\ (gone \cap Registered = {})'
  <2>1. NoOne \notin gone
    BY NoProject DEF TypeOK
  <2> QED BY <1>2, <1>3, <1>4, <2>1 DEF Targets, DeletedStaysDeleted
<1>10. HostKept'
  <2> SUFFICES ASSUME ~Through({"overwritten", "torn"}), NEW g \in Facade, bind'[g].to \in Registered
               PROVE  reg[bind'[g].to].host = acked[g]
    BY <1>2, <1>4 DEF HostKept, Viewable, Through
  <2>1. g # f
    BY <1>3, <1>4
  <2> QED BY <1>2, <1>3, <2>1 DEF Targets, HostKept, Viewable, Free, NoWork
<1> QED BY <1>2, <1>3, <1>6, <1>7, <1>8, <1>9, <1>10 DEF Targets, FacadeTypes, TypeOK

\* A project or its target goes, and no binding that is owed to it stays.
LEMMA RemovalKeeps ==
  ASSUME TypeOK, Targets, NEW p \in Project, NEW r \in Row, reg' = [reg EXCEPT ![p] = r],
         ~r.there \/ ~r.target, UNCHANGED <<bind, acked, listed>>, windows \subseteq windows',
         gone' \subseteq gone \cup {p}, BoundAs(p) = {} \/ (gone' = gone /\ "dangling" \in windows'),
         mid' = NoWork, mid.op # "patch"
  PROVE  Targets' /\ FacadeTypes'
<1>1. /\ reg' \in [Project -> Row] /\ reg'[p] = r /\ \A q \in Project : q # p => reg'[q] = reg[q]
      /\ Registered' = Registered \ {p}
  BY DEF TypeOK, Registered
<1>2. mid' \in [op : {"none", "create", "patch", "delete"}, id : Facade, to : Project \cup {NoOne}]
      /\ mid'.op = "none"
  BY IdsDiffer DEF NoWork
<1>3. MidKnown'
  BY <1>2 DEF MidKnown, NoWork
<1>4. IdsDerived' /\ OneFacadePerTarget'
  BY DEF Targets, IdsDerived, OneFacadePerTarget
<1>5. BoundIsRegistered' /\ ListAnswers'
  <2>1. ASSUME ~Through({"dangling"})', NEW f \in Facade, bind[f].to # NoOne
        PROVE  bind[f].to \in Registered'
    <3>1. BoundAs(p) = {}
      BY <2>1 DEF Through
    <3>2. bind[f].to \in Registered /\ bind[f].to # p
      BY <2>1, <3>1, Wider DEF Targets, BoundIsRegistered, BoundAs
    <3> QED BY <1>1, <3>2
  <2> QED BY <2>1, Wider DEF Targets, BoundIsRegistered, ListAnswers
<1>6. DeletedStaysDeleted' /\ (gone \cap Registered = {})'
  BY <1>1 DEF Targets, DeletedStaysDeleted, BoundAs
<1>7. HostKept'
  <2> SUFFICES ASSUME ~Through({"overwritten", "torn"})', NEW f \in Facade, bind[f].to \in Registered'
               PROVE  reg'[bind[f].to].host = acked[f]
    BY DEF HostKept, Viewable
  <2>1. bind[f].to \in Registered /\ bind[f].to # p /\ bind[f].to \in Project
    BY <1>1 DEF Registered
  <2>2. reg[bind[f].to].host = acked[f]
    BY <2>1, Wider DEF Targets, HostKept, Viewable
  <2> QED BY <1>1, <2>1, <2>2
<1> QED BY <1>1, <1>2, <1>3, <1>4, <1>5, <1>6, <1>7 DEF Targets, FacadeTypes, TypeOK

\* The second commit of delete_target, and the route that deletes a project.
LEMMA DeletesKeep ==
  ASSUME TypeOK, Targets, DeleteRegistered \/ \E p \in Project : DeleteProject(p)
  PROVE  Targets' /\ FacadeTypes'
<1>1. Absent \in Row /\ ~Absent.there
  <2>1. 0 \in 0..MaxWrites
    BY RegistryBounds
  <2> QED BY <2>1 DEF Absent, Row
<1>2. CASE DeleteRegistered
  <2>1. PICK p \in Project : p = mid.to /\ BoundAs(p) = {} /\ reg[p].ver < MaxWrites
    BY <1>2 DEF DeleteRegistered, Targets, MidKnown
  <2>2. /\ mid.op = "delete" /\ mid' = NoWork /\ gone' = gone \cup {p} /\ reg' = WithoutTarget(p)
        /\ UNCHANGED <<bind, acked, listed, windows>>
    BY <1>2, <2>1 DEF DeleteRegistered
  <2>3. PICK r \in Row : reg' = [reg EXCEPT ![p] = r] /\ (~r.there \/ ~r.target)
    <3>1. CASE p = "N" \/ ~reg[p].there
      BY <1>1, <2>2, <3>1 DEF WithoutTarget
    <3>2. CASE ~(p = "N" \/ ~reg[p].there)
      <4> DEFINE r == [[reg[p] EXCEPT !.target = FALSE] EXCEPT !.ver = reg[p].ver + 1]
      <4>1. reg[p] \in Row /\ reg[p].ver + 1 \in 0..MaxWrites
        BY <2>1, RegistryBounds DEF TypeOK, Row
      <4>2. r \in Row /\ ~r.target
        BY <4>1 DEF Row
      <4> QED BY <2>2, <3>2, <4>2 DEF WithoutTarget, Replaced
    <3> QED BY <3>1, <3>2
  <2> QED BY <2>1, <2>2, <2>3, RemovalKeeps
<1>3. ASSUME NEW p \in Project, DeleteProject(p)
      PROVE  Targets' /\ FacadeTypes'
  <2>1. /\ reg' = [reg EXCEPT ![p] = Absent] /\ mid = NoWork /\ mid' = NoWork /\ mid.op # "patch"
        /\ UNCHANGED <<bind, acked, listed, gone>> /\ windows' = windows \cup {"dangling"}
    BY <1>3 DEF DeleteProject, facade, Free, NoWork
  <2> QED BY <1>1, <2>1, RemovalKeeps
<1> QED BY <1>2, <1>3

\* A crash between the two commits of a patch leaves its host unacknowledged.
LEMMA CrashKeepsTargets ==
  ASSUME TypeOK, Targets, Crash
  PROVE  Targets' /\ FacadeTypes'
<1>1. /\ UNCHANGED <<reg, bind, acked, gone, listed>> /\ mid' = NoWork /\ windows \subseteq windows'
      /\ (mid # NoWork => "torn" \in windows')
  BY DEF Crash
<1>2. mid' \in [op : {"none", "create", "patch", "delete"}, id : Facade, to : Project \cup {NoOne}]
      /\ Registered' = Registered
  BY <1>1, IdsDiffer DEF NoWork, Registered
<1>3. MidKnown'
  BY <1>1 DEF MidKnown, NoWork
<1>4. IdsDerived' /\ OneFacadePerTarget' /\ BoundIsRegistered' /\ ListAnswers'
  BY <1>1, <1>2, Wider DEF Targets, IdsDerived, OneFacadePerTarget, BoundIsRegistered, ListAnswers
<1>5. DeletedStaysDeleted' /\ (gone \cap Registered = {})'
  BY <1>1, <1>2 DEF Targets, DeletedStaysDeleted
<1>6. HostKept'
  <2> SUFFICES ASSUME ~Through({"overwritten", "torn"})', NEW f \in Facade, bind[f].to \in Registered
               PROVE  reg[bind[f].to].host = acked[f]
    BY <1>1, <1>2 DEF HostKept, Viewable
  <2>1. mid = NoWork
    BY <1>1 DEF Through
  <2> QED BY <1>1, <2>1, Wider DEF Targets, HostKept, Viewable, NoWork
<1> QED BY <1>1, <1>2, <1>3, <1>4, <1>5, <1>6 DEF Targets, FacadeTypes, TypeOK

-----------------------------------------------------------------------------
(* The proposals. *)

DecisionTypes ==
  /\ prop \in [Proposal -> {"none", "requested", "pending", "approved", "rejected", "stale"}]
  /\ appr \in [Proposal -> {"none", "pending", "approved", "rejected", "consumed"}]
  /\ late \subseteq Proposal
  /\ dec \in [Proposal -> [pc : {"off", "handle", "lock", "verify", "written", "consumed", "done"},
                           prop : {0} \cup Proposal, seen : Row]]
  /\ writes \in [Proposal -> Nat] /\ applied \subseteq Proposal
  /\ asked \in [Proposal -> Item] /\ cancelled \in BOOLEAN
  /\ {edits, crashes} \subseteq Nat

\* The type invariant is that of the two parts.
LEMMA TypesJoin == ASSUME FacadeTypes', DecisionTypes' PROVE TypeOK'
BY DEF FacadeTypes, DecisionTypes, TypeOK

LEMMA TypesSplit == ASSUME TypeOK PROVE FacadeTypes /\ DecisionTypes
BY DEF FacadeTypes, DecisionTypes, TypeOK

\* The facade and the operator move project A on, take it away, or overwrite it.
LEMMA RegistryMoves ==
  ASSUME TypeOK, ProposalsKept, UNCHANGED decision, windows \subseteq windows',
         \/ reg'["A"] = reg["A"]
         \/ /\ reg["A"].there /\ reg'["A"].there /\ reg'["A"].ver = reg["A"].ver + 1
            /\ reg'["A"].scope = reg["A"].scope \/ "overwritten" \in windows'
         \/ ~reg'["A"].there /\ "dangling" \in windows'
  PROVE  ProposalsKept'
<1>1. UNCHANGED <<prop, appr, late, dec, writes, applied, asked, cancelled>>
  BY DEF decision
<1>2. /\ \A k \in Proposal : UnderWay(k)' = UnderWay(k) /\ Holds(k)' = Holds(k) /\ Took(k)' = Took(k)
      /\ reg["A"].ver \in Nat
  BY <1>1, RegistryBounds DEF UnderWay, Holds, Took, TypeOK, Row, Project
<1>3. DecisionKnown'
  <2>1. ASSUME NEW k \in Proposal, dec[k].pc = "verify", reg'["A"].there
        PROVE  /\ dec[k].seen.there /\ dec[k].seen.ver <= reg'["A"].ver
               /\ dec[k].seen.ver = reg'["A"].ver => dec[k].seen = reg'["A"]
    <3>1. dec[k].seen.ver \in Nat
      BY RegistryBounds DEF TypeOK, Row
    <3>2. CASE reg'["A"] = reg["A"]
      BY <2>1, <3>2 DEF ProposalsKept, DecisionKnown
    <3>3. CASE reg["A"].there /\ reg'["A"].ver = reg["A"].ver + 1
      <4>1. dec[k].seen.there /\ dec[k].seen.ver <= reg["A"].ver
        BY <2>1, <3>3 DEF ProposalsKept, DecisionKnown
      <4> QED BY <1>2, <3>1, <3>3, <4>1
    <3> QED BY <2>1, <3>2, <3>3
  <2>2. ~reg'["A"].there => "dangling" \in windows'
    BY DEF ProposalsKept, DecisionKnown
  <2>3. \A k \in Proposal : UnderWay(k) => dec[k].prop \in Proposal /\ asked[dec[k].prop] = asked[k]
    BY DEF ProposalsKept, DecisionKnown
  <2>4. \A k, d \in Proposal : Holds(k) /\ Holds(d) /\ k # d => dec[k].prop # dec[d].prop
    BY DEF ProposalsKept, DecisionKnown
  <2> QED BY <1>1, <1>2, <2>1, <2>2, <2>3, <2>4 DEF DecisionKnown
<1>4. ApprovalKnown' /\ HeldIsPending' /\ AppliedIsApproved'
  BY <1>1, <1>2, Wider DEF ProposalsKept, ApprovalKnown, HeldIsPending, AppliedIsApproved
<1>5. ~Through({"overwritten", "dangling"})' => reg'["A"].scope = reg["A"].scope
  BY DEF Through
<1>6. \A W : ~Through(W \cup {"overwritten", "dangling"})' => ~Through({"overwritten", "dangling"})'
  BY DEF Through
<1>7. ~Through({"overwritten", "dangling", "resolved"})' =>
        ~Through({"overwritten", "dangling", "resolved"}) /\ reg'["A"].scope = reg["A"].scope
  BY <1>5, Wider DEF Through
<1>8. WrittenStays' /\ ApprovedIsRegistered'
  BY <1>1, <1>2, <1>7 DEF ProposalsKept, WrittenStays, ApprovedIsRegistered
<1>9. ~Through({"overwritten"})' => reg'["A"].scope = reg["A"].scope \/ ~reg'["A"].there
  BY DEF Through
<1>10. WritesCounted'
  <2>1. ASSUME ~Through({"resolved"})', ~Through({"overwritten"})', NEW k \in Proposal, writes[k] > 0
        PROVE  asked[k] \in reg'["A"].scope \/ ~reg'["A"].there
    <3>1. asked[k] \in reg["A"].scope \/ ~reg["A"].there
      BY <2>1, Wider DEF ProposalsKept, WritesCounted
    <3> QED BY <2>1, <1>9, <3>1
  <2>2. SingleUse'
    BY <1>1, Wider DEF ProposalsKept, WritesCounted, SingleUse
  <2>3. ~Through({"resolved"})' /\ ~Through({"unrecorded"})' => \A k \in Proposal : writes[k] > 0 =>
           dec[k].pc = "written" \/ (dec[k].pc # "verify" /\ (appr[k] = "consumed" \/ k \in late))
    BY Wider DEF ProposalsKept, WritesCounted
  <2> QED BY <1>1, <2>1, <2>2, <2>3 DEF WritesCounted
<1> QED BY <1>3, <1>4, <1>8, <1>10 DEF ProposalsKept

\* What the facade and the operator do to project A.
LEMMA FacadeMovesA ==
  ASSUME TypeOK, Targets, Facades \/ Operator
  PROVE  /\ UNCHANGED decision /\ windows \subseteq windows' /\ {edits, crashes}' \subseteq Nat
         /\ \/ reg'["A"] = reg["A"]
            \/ /\ reg["A"].there /\ reg'["A"].there /\ reg'["A"].ver = reg["A"].ver + 1
               /\ reg'["A"].scope = reg["A"].scope \/ "overwritten" \in windows'
            \/ ~reg'["A"].there /\ "dangling" \in windows'
            \/ ~reg["A"].there /\ ~reg'["A"].there
<1>1. "A" \in Project /\ reg \in [Project -> Row] /\ edits \in Nat /\ crashes \in Nat
  BY DEF TypeOK, Project
<1>2. CASE ListTargets \/ CreateBinding \/ PatchBinding \/ \E f \in Facade : Access(f) \/ DeleteTarget(f)
  BY <1>1, <1>2 DEF ListTargets, CreateBinding, PatchBinding, Access, DeleteTarget, bounds
<1>3. CASE CreateTarget \/ CreateProject
  BY <1>1, <1>3 DEF CreateTarget, CreateProject
<1>4. ASSUME NEW f \in Facade, PatchTarget(f)
      PROVE  /\ UNCHANGED <<decision, windows, crashes>> /\ edits' = edits + 1
             /\ \/ reg'["A"] = reg["A"]
                \/ /\ reg["A"].there /\ reg'["A"].there /\ reg'["A"].ver = reg["A"].ver + 1
                   /\ reg'["A"].scope = reg["A"].scope
  <2>1. PICK p \in Registered : p = bind[f].to
    BY <1>4 DEF PatchTarget, Viewable
  <2>2. p \in Project /\ reg[p].there /\ reg[p] \in Row
    BY <1>1, <2>1 DEF Registered
  <2>3. PICK r : r = [[reg[p] EXCEPT !.host = bind[f].ver] EXCEPT !.ver = reg[p].ver + 1]
    OBVIOUS
  <2>4. reg' = [reg EXCEPT ![p] = r]
    BY <1>4, <2>1, <2>3 DEF PatchTarget, Replaced
  <2>5. r.there = reg[p].there /\ r.ver = reg[p].ver + 1 /\ r.scope = reg[p].scope
    BY <2>2, <2>3 DEF Row
  <2>6. CASE p = "A"
    <3>1. reg'["A"] = r
      BY <1>1, <2>4, <2>6
    <3> QED BY <1>4, <2>2, <2>5, <2>6, <3>1 DEF PatchTarget
  <2>7. CASE p # "A"
    <3>1. reg'["A"] = reg["A"]
      BY <1>1, <2>4, <2>7
    <3> QED BY <1>4, <3>1 DEF PatchTarget
  <2> QED BY <2>6, <2>7
<1>5. CASE DeleteRegistered
  <2>1. PICK p \in Project : p = mid.to
    BY <1>5 DEF DeleteRegistered, Targets, MidKnown
  <2>2. reg' = WithoutTarget(p) /\ UNCHANGED <<decision, bounds, windows>>
    BY <1>5, <2>1 DEF DeleteRegistered
  <2>3. CASE p # "A"
    BY <1>1, <2>2, <2>3 DEF WithoutTarget, Replaced, bounds
  <2>4. CASE p = "A" /\ ~reg["A"].there
    BY <1>1, <2>2, <2>4 DEF WithoutTarget, Absent, bounds
  <2>5. CASE p = "A" /\ reg["A"].there
    BY <1>1, <2>2, <2>5 DEF WithoutTarget, Replaced, bounds, Row
  <2> QED BY <2>3, <2>4, <2>5
<1>6. ASSUME NEW p \in Project, UpdateProject(p)
      PROVE  /\ UNCHANGED <<decision, crashes>> /\ edits' = edits + 1 /\ windows \subseteq windows'
             /\ \/ reg'["A"] = reg["A"]
                \/ /\ reg["A"].there /\ reg'["A"].there /\ reg'["A"].ver = reg["A"].ver + 1
                   /\ "overwritten" \in windows'
  BY <1>1, <1>6 DEF UpdateProject, Replaced, Record, Absent
<1>7. ASSUME NEW p \in Project, DeleteProject(p)
      PROVE  /\ UNCHANGED <<decision, crashes>> /\ edits' = edits + 1 /\ windows \subseteq windows'
             /\ (~reg'["A"].there /\ "dangling" \in windows') \/ reg'["A"] = reg["A"]
  BY <1>1, <1>7 DEF DeleteProject, Absent
<1> QED BY <1>1, <1>2, <1>3, <1>4, <1>5, <1>6, <1>7 DEF Facades, Operator

\* A decision.
DecRec == [pc : {"off", "handle", "lock", "verify", "written", "consumed", "done"},
           prop : {0} \cup Proposal, seen : Row]

\* The decision of approval k takes a step that writes nothing to the registry:
\* it may begin, hold a pending proposal that no other decision holds, move on
\* from its write, or resolve proposals that no other decision holds.
LEMMA DecisionMoves ==
  ASSUME TypeOK, ProposalsKept, DecisionTypes', NEW k \in Proposal, NEW d \in DecRec,
         dec' = [dec EXCEPT ![k] = d],
         UNCHANGED <<reg, late, writes, applied, asked, cancelled>>, windows \subseteq windows',
         d.pc \in {"lock", "verify", "consumed"} =>
           d.prop \in Proposal /\ asked[d.prop] = asked[k] /\ (cancelled => UnderWay(k)),
         d.pc = "verify" =>
           /\ d.seen = reg["A"] /\ reg["A"].there /\ appr[k] = "approved" /\ k \notin late
           /\ prop'[d.prop] = "pending" /\ ~Took(k) /\ appr' = appr
           /\ \A e \in Proposal \ {k} : Holds(e) => dec[e].prop # d.prop,
         d.pc = "consumed" =>
           /\ dec[k].pc = "written" /\ d.prop = dec[k].prop /\ prop'[d.prop] = prop[d.prop]
           /\ appr'[k] = "consumed" \/ k \in late,
         d.pc # "written", dec[k].pc = "written" => d.pc = "consumed",
         \A i \in Proposal : prop'[i] # prop[i] =>
           /\ prop[i] = "pending"
           /\ ~Through({"midway"}) => \A e \in Proposal \ {k} : Holds(e) => dec[e].prop # i
           /\ prop'[i] = "approved" => Took(k) /\ dec[k].prop = i,
         ~Through({"midway"}) /\ Took(k) => d.pc = "consumed" \/ prop'[dec[k].prop] = "approved",
         \A i \in Proposal \ {k} : appr'[i] = appr[i],
         appr[k] = "consumed" => appr'[k] = "consumed", appr'[k] \notin {"none", "pending"}
  PROVE  ProposalsKept'
<1>1. dec'[k] = d /\ \A e \in Proposal : e # k => dec'[e] = dec[e]
  BY DEF TypeOK
<1>2. \A e \in Proposal : e # k =>
        UnderWay(e)' = UnderWay(e) /\ Holds(e)' = Holds(e) /\ Took(e)' = Took(e)
  BY <1>1 DEF UnderWay, Holds, Took
<1>3. /\ UnderWay(k)' <=> d.pc \in {"lock", "verify", "consumed"}
      /\ Holds(k)' <=> d.pc \in {"verify", "consumed"}
      /\ Took(k)' <=> d.pc = "consumed"
  BY <1>1 DEF UnderWay, Holds, Took
<1>4. d.pc = "consumed" => Holds(k) /\ Took(k) /\ UnderWay(k)
  BY DEF Holds, Took, UnderWay
<1>5. DecisionKnown'
  <2>1. \A e \in Proposal : UnderWay(e)' => dec'[e].prop \in Proposal /\ asked'[dec'[e].prop] = asked'[e]
    BY <1>1, <1>2, <1>3 DEF ProposalsKept, DecisionKnown
  <2>2. \A e, f \in Proposal : Holds(e)' /\ Holds(f)' /\ e # f => dec'[e].prop # dec'[f].prop
    <3>1. ASSUME NEW e \in Proposal, e # k, Holds(e), Holds(k)'
          PROVE  dec[e].prop # d.prop
      BY <1>3, <1>4, <3>1 DEF ProposalsKept, DecisionKnown
    <3>2. \A e, f \in Proposal : e # k /\ f # k /\ e # f /\ Holds(e) /\ Holds(f) => dec[e].prop # dec[f].prop
      BY DEF ProposalsKept, DecisionKnown
    <3> QED BY <1>1, <1>2, <3>1, <3>2
  <2>3. \A e \in Proposal : dec'[e].pc = "verify" /\ reg'["A"].there =>
          /\ dec'[e].seen.there /\ dec'[e].seen.ver <= reg'["A"].ver
          /\ dec'[e].seen.ver = reg'["A"].ver => dec'[e].seen = reg'["A"]
    <3>1. reg["A"].ver \in Nat
      BY RegistryBounds DEF TypeOK, Row, Project
    <3>2. \A e \in Proposal : e # k /\ dec[e].pc = "verify" /\ reg["A"].there =>
            /\ dec[e].seen.there /\ dec[e].seen.ver <= reg["A"].ver
            /\ dec[e].seen.ver = reg["A"].ver => dec[e].seen = reg["A"]
      BY DEF ProposalsKept, DecisionKnown
    <3> QED BY <1>1, <3>1, <3>2
  <2>4. ~reg'["A"].there => "dangling" \in windows'
    BY DEF ProposalsKept, DecisionKnown
  <2> QED BY <2>1, <2>2, <2>3, <2>4 DEF DecisionKnown
<1>6. ApprovalKnown'
  BY <1>1 DEF ProposalsKept, ApprovalKnown
<1>7. HeldIsPending'
  <2> SUFFICES ASSUME ~Through({"midway"})'
               PROVE  /\ \A e \in Proposal : Holds(e)' => prop'[dec'[e].prop] = "pending"
                      /\ cancelled => \A e \in Proposal : ~UnderWay(e)'
    BY DEF HeldIsPending
  <2>1. /\ ~Through({"midway"}) /\ \A e \in Proposal : Holds(e) => prop[dec[e].prop] = "pending"
        /\ cancelled => \A e \in Proposal : ~UnderWay(e)
    BY Wider DEF ProposalsKept, HeldIsPending
  <2>2. ASSUME NEW e \in Proposal, e # k, Holds(e) PROVE prop'[dec[e].prop] = "pending"
    <3>1. dec[e].prop \in Proposal
      BY <2>2 DEF ProposalsKept, DecisionKnown, Holds, UnderWay
    <3> QED BY <2>1, <2>2, <3>1
  <2>3. Holds(k)' => prop'[d.prop] = "pending"
    BY <1>3, <1>4, <2>1
  <2>4. cancelled => \A e \in Proposal : ~UnderWay(e)'
    BY <1>2, <1>3, <2>1
  <2> QED BY <1>1, <1>2, <2>2, <2>3, <2>4
<1>8. AppliedIsApproved'
  <2> SUFFICES ASSUME ~Through({"unrecorded", "midway"})', NEW j \in applied
               PROVE  prop'[j] = "approved" \/ \E e \in Proposal : Took(e)' /\ dec'[e].prop = j
    BY DEF AppliedIsApproved
  <2>1. ~Through({"unrecorded", "midway"}) /\ ~Through({"midway"}) /\ j \in Proposal
    BY Wider DEF Through, TypeOK
  <2>2. CASE prop[j] = "approved"
    BY <2>1, <2>2
  <2>3. ASSUME NEW e \in Proposal, Took(e), dec[e].prop = j
        PROVE  prop'[j] = "approved" \/ \E f \in Proposal : Took(f)' /\ dec'[f].prop = j
    BY <1>1, <1>2, <1>3, <2>1, <2>3
  <2> QED BY <2>1, <2>2, <2>3 DEF ProposalsKept, AppliedIsApproved
<1>9. WrittenStays' /\ ApprovedIsRegistered'
  <2> SUFFICES ASSUME ~Through({"overwritten", "dangling", "resolved"})'
               PROVE  /\ \A e \in Proposal : Took(e)' => asked[dec'[e].prop] \in reg["A"].scope
                      /\ \A e \in Proposal : prop'[e] = "approved" => asked[e] \in reg["A"].scope
    BY DEF WrittenStays, ApprovedIsRegistered
  <2>1. /\ \A e \in Proposal : Took(e) => asked[dec[e].prop] \in reg["A"].scope
        /\ \A e \in Proposal : prop[e] = "approved" => asked[e] \in reg["A"].scope
    BY Wider DEF ProposalsKept, WrittenStays, ApprovedIsRegistered
  <2>2. \A e \in Proposal : Took(e)' => asked[dec'[e].prop] \in reg["A"].scope
    BY <1>1, <1>2, <1>3, <1>4, <2>1
  <2> QED BY <2>1, <2>2
<1>10. WritesCounted'
  <2>1. SingleUse'
    BY Wider DEF ProposalsKept, WritesCounted, SingleUse
  <2>2. ~Through({"resolved"})' /\ ~Through({"overwritten"})' =>
          \A e \in Proposal : writes[e] > 0 => asked[e] \in reg["A"].scope \/ ~reg["A"].there
    BY Wider DEF ProposalsKept, WritesCounted
  <2>3. ASSUME ~Through({"resolved"})', ~Through({"unrecorded"})', NEW e \in Proposal, writes[e] > 0
        PROVE  dec'[e].pc = "written" \/ (dec'[e].pc # "verify" /\ (appr'[e] = "consumed" \/ e \in late))
    <3>1. dec[e].pc = "written" \/ (dec[e].pc # "verify" /\ (appr[e] = "consumed" \/ e \in late))
      BY <2>3, Wider DEF ProposalsKept, WritesCounted
    <3>2. CASE e # k
      BY <1>1, <3>1, <3>2
    <3>3. CASE e = k /\ d.pc # "verify"
      BY <1>1, <3>1, <3>3
    <3>4. CASE e = k /\ d.pc = "verify"
      BY <3>1, <3>4 DEF Took
    <3> QED BY <3>2, <3>3, <3>4
  <2> QED BY <2>1, <2>2, <2>3 DEF WritesCounted
<1> QED BY <1>5, <1>6, <1>7, <1>8, <1>9, <1>10 DEF ProposalsKept

\* The records a decision is made of.
LEMMA DecTypes ==
  ASSUME TypeOK
  PROVE  /\ Absent \in Row /\ reg["A"] \in Row /\ "A" \in Project
         /\ \A k \in Proposal : dec[k] \in DecRec
         /\ Idle \in DecRec /\ Idle = [pc |-> "off", prop |-> 0, seen |-> Absent]
         /\ \A q \in {"handle", "done"} : [Idle EXCEPT !.pc = q] \in DecRec
         /\ \A j \in Proposal : [[Idle EXCEPT !.pc = "lock"] EXCEPT !.prop = j] \in DecRec
<1>1. Absent \in Row
  <2>1. 0 \in 0..MaxWrites
    BY RegistryBounds
  <2> QED BY <2>1 DEF Absent, Row
<1>2. reg["A"] \in Row /\ "A" \in Project
  BY DEF TypeOK, Project
<1>3. \A k \in Proposal : dec[k] \in DecRec
  BY DEF TypeOK, DecRec
<1> QED BY <1>1, <1>2, <1>3 DEF Idle, DecRec

\* The oldest pending proposal of the approval's intent.
LEMMA MatchingFound ==
  ASSUME TypeOK, NEW k \in Proposal
  PROVE  \/ Matching(k) = 0
         \/ Matching(k) \in Proposal /\ prop[Matching(k)] = "pending" /\ asked[Matching(k)] = asked[k]
<1> DEFINE same == {j \in Proposal : prop[j] = "pending" /\ asked[j] = asked[k]}
<1>1. CASE same = {}
  BY <1>1 DEF Matching
<1>2. CASE same # {}
  <2>1. \E j \in same : \A i \in same : j <= i
    BY <1>2 DEF Proposal
  <2>2. Matching(k) = CHOOSE j \in same : \A i \in same : j <= i
    BY <1>2 DEF Matching
  <2>3. Matching(k) \in same
    BY <2>1, <2>2
  <2> QED BY <2>3
<1> QED BY <1>1, <1>2

\* An approval is approved or rejected, and its handler begins.
LEMMA DecideKeeps ==
  ASSUME TypeOK, ProposalsKept, NEW k \in Proposal, Approve(k) \/ Reject(k)
  PROVE  ProposalsKept' /\ DecisionTypes' /\ UNCHANGED <<reg, facade, windows>> /\ Free
<1>1. PICK d \in DecRec : d = [Idle EXCEPT !.pc = "handle"]
  BY DecTypes
<1>2. d.pc = "handle"
  BY <1>1, DecTypes
<1>3. /\ dec' = [dec EXCEPT ![k] = d] /\ appr[k] = "pending" /\ Free
      /\ UNCHANGED <<reg, facade, prop, late, writes, applied, asked, cancelled, bounds, windows>>
      /\ \E v \in {"approved", "rejected"} : appr' = [appr EXCEPT ![k] = v]
  BY <1>1 DEF Approve, Reject, Decision, RunDownstream
<1>4. DecisionTypes'
  BY <1>3 DEF TypeOK, DecisionTypes, DecRec, bounds
<1>5. /\ \A i \in Proposal \ {k} : appr'[i] = appr[i]
      /\ appr'[k] \in {"approved", "rejected"}
  BY <1>3 DEF TypeOK
<1>6. dec[k].pc = "off" /\ ~Took(k)
  BY <1>3 DEF ProposalsKept, ApprovalKnown, Took
<1> QED BY <1>2, <1>3, <1>4, <1>5, <1>6, DecisionMoves

\* The handler finds its proposal, unless the run was cancelled.
LEMMA HandleKeeps ==
  ASSUME TypeOK, ProposalsKept, NEW k \in Proposal, Handle(k)
  PROVE  ProposalsKept' /\ DecisionTypes' /\ UNCHANGED <<reg, facade>> /\ windows \subseteq windows' /\ Free
<1>1. PICK j : j = Matching(k)
  OBVIOUS
<1>2. j = 0 \/ (j \in Proposal /\ prop[j] = "pending" /\ asked[j] = asked[k])
  BY <1>1, MatchingFound
<1>3. /\ dec[k].pc = "handle" /\ Free /\ UNCHANGED <<reg, facade, appr, late, writes, applied, asked, cancelled, bounds>>
      /\ windows \subseteq windows'
  BY DEF Handle
<1>4. ~Took(k) /\ dec[k].pc # "written" /\ ~UnderWay(k) /\ appr[k] \notin {"none", "pending"}
  BY <1>3 DEF Took, UnderWay, ProposalsKept, ApprovalKnown
<1>5. CASE j = 0 \/ cancelled
  <2>1. PICK d \in DecRec : d = [Idle EXCEPT !.pc = "done"]
    BY DecTypes
  <2>2. d.pc = "done" /\ dec' = [dec EXCEPT ![k] = d]
        /\ prop' = IF j = 0 THEN prop ELSE [prop EXCEPT ![j] = "stale"]
    BY <1>1, <1>5, <2>1, DecTypes DEF Handle, RunCancelPending, Finished
  <2>3. DecisionTypes'
    BY <1>2, <1>3, <2>2 DEF TypeOK, DecisionTypes, DecRec, bounds
  <2>4. ASSUME NEW i \in Proposal, prop'[i] # prop[i]
        PROVE  /\ prop[i] = "pending" /\ prop'[i] = "stale" /\ i = j /\ j # 0 /\ cancelled
    BY <1>2, <1>5, <2>2, <2>4 DEF TypeOK, Proposal
  <2>5. cancelled /\ ~Through({"midway"}) => \A e \in Proposal : ~Holds(e)
    BY DEF ProposalsKept, HeldIsPending, Holds, UnderWay
  <2> QED BY <1>3, <1>4, <2>2, <2>3, <2>4, <2>5, DecisionMoves
<1>6. CASE j # 0 /\ ~cancelled
  <2>1. PICK d \in DecRec : d = [[Idle EXCEPT !.pc = "lock"] EXCEPT !.prop = j]
    BY <1>2, <1>6, DecTypes
  <2>2. d.pc = "lock" /\ d.prop = j /\ dec' = [dec EXCEPT ![k] = d] /\ prop' = prop
    BY <1>1, <1>6, <2>1, DecTypes DEF Handle, RunCancelPending
  <2>3. DecisionTypes'
    BY <1>2, <1>3, <2>2 DEF TypeOK, DecisionTypes, DecRec, bounds
  <2> QED BY <1>2, <1>3, <1>4, <1>6, <2>2, <2>3, DecisionMoves
<1> QED BY <1>5, <1>6

\* Deciding a proposal and spending the approval, as the actions combine them.
LEMMA DecidedSpent ==
  ASSUME TypeOK, NEW k \in Proposal
  PROVE  /\ Spent(k) \in [Proposal -> {"none", "pending", "approved", "rejected", "consumed"}]
         /\ \A i \in Proposal \ {k} : Spent(k)[i] = appr[i]
         /\ Spent(k)[k] \in {appr[k], "consumed"}
         /\ appr[k] \in {"approved", "consumed"} => Spent(k)[k] = "consumed" \/ k \in late
         /\ \A j \in Proposal, s \in {"approved", "rejected", "stale"} :
              /\ Decided(j, s) \in [Proposal -> {"none", "requested", "pending", "approved", "rejected", "stale"}]
              /\ \A i \in Proposal : Decided(j, s)[i] # prop[i] => i = j /\ prop[i] = "pending" /\ Decided(j, s)[i] = s
              /\ prop[j] = "pending" => Decided(j, s)[j] = s
<1>1. /\ Spent(k) \in [Proposal -> {"none", "pending", "approved", "rejected", "consumed"}]
      /\ \A i \in Proposal \ {k} : Spent(k)[i] = appr[i]
      /\ Spent(k)[k] \in {appr[k], "consumed"}
      /\ appr[k] \in {"approved", "consumed"} => Spent(k)[k] = "consumed" \/ k \in late
  BY DEF Spent, TypeOK
<1>2. ASSUME NEW j \in Proposal, NEW s \in {"approved", "rejected", "stale"}
      PROVE  /\ Decided(j, s) \in [Proposal -> {"none", "requested", "pending", "approved", "rejected", "stale"}]
             /\ \A i \in Proposal : Decided(j, s)[i] # prop[i] => i = j /\ prop[i] = "pending" /\ Decided(j, s)[i] = s
             /\ prop[j] = "pending" => Decided(j, s)[j] = s
  BY DEF Decided, TypeOK
<1> QED BY <1>1, <1>2

\* The type of the decisions after a step of one.
LEMMA DecisionTyped ==
  ASSUME TypeOK, NEW k \in Proposal, NEW d \in DecRec, dec' = [dec EXCEPT ![k] = d],
         prop' \in [Proposal -> {"none", "requested", "pending", "approved", "rejected", "stale"}],
         appr' \in [Proposal -> {"none", "pending", "approved", "rejected", "consumed"}],
         UNCHANGED <<late, writes, applied, asked, cancelled, bounds>>
  PROVE  DecisionTypes'
<1>1. dec' \in [Proposal -> [pc : {"off", "handle", "lock", "verify", "written", "consumed", "done"},
                            prop : {0} \cup Proposal, seen : Row]]
  BY DEF TypeOK, DecRec
<1> QED BY <1>1 DEF TypeOK, DecisionTypes, bounds

\* A decision up to its first await, with the lock.
LEMMA EnterKeeps ==
  ASSUME TypeOK, ProposalsKept, NEW k \in Proposal, Enter(k)
  PROVE  ProposalsKept' /\ DecisionTypes' /\ UNCHANGED <<reg, facade, windows>> /\ Free
<1>1. PICK j \in Proposal : j = dec[k].prop /\ asked[j] = asked[k]
  BY DEF Enter, Locks, ProposalsKept, DecisionKnown, UnderWay
<1>2. /\ dec[k].pc = "lock" /\ Free
      /\ UNCHANGED <<reg, facade, late, writes, applied, asked, cancelled, bounds, windows>>
      /\ \A e \in Proposal \ {k} : Holds(e) => dec[e].prop # j
  BY <1>1 DEF Enter, Locks
<1>3. ~Took(k) /\ UnderWay(k) /\ dec[k].pc # "written" /\ appr[k] \notin {"none", "pending"}
  BY <1>2 DEF Took, UnderWay, ProposalsKept, ApprovalKnown
<1>4. PICK d \in DecRec : d = [Idle EXCEPT !.pc = "done"] /\ d.pc = "done"
  BY DecTypes
<1>5. Finished(k) <=> dec' = [dec EXCEPT ![k] = d]
  BY <1>4 DEF Finished
<1>6. ASSUME Finished(k), UNCHANGED <<prop, appr>>
      PROVE  ProposalsKept' /\ DecisionTypes'
  <2>1. dec' = [dec EXCEPT ![k] = d]
    BY <1>5, <1>6
  <2>2. DecisionTypes'
    BY <1>2, <1>6, <2>1 DEF TypeOK, DecisionTypes, DecRec, bounds
  <2> QED BY <1>2, <1>3, <1>4, <1>6, <2>1, <2>2, DecisionMoves
<1>7. ASSUME NEW s \in {"rejected", "stale"}, Finished(k), prop' = Decided(j, s),
             UNCHANGED appr \/ appr' = Spent(k)
      PROVE  ProposalsKept' /\ DecisionTypes'
  <2>1. dec' = [dec EXCEPT ![k] = d]
    BY <1>5, <1>7
  <2>2. /\ prop' \in [Proposal -> {"none", "requested", "pending", "approved", "rejected", "stale"}]
        /\ \A i \in Proposal : prop'[i] # prop[i] => i = j /\ prop[i] = "pending" /\ prop'[i] = s
    BY <1>7, DecidedSpent
  <2>3. /\ appr' \in [Proposal -> {"none", "pending", "approved", "rejected", "consumed"}]
        /\ \A i \in Proposal \ {k} : appr'[i] = appr[i]
        /\ appr'[k] \in {appr[k], "consumed"}
    BY <1>7, DecidedSpent DEF TypeOK
  <2>4. DecisionTypes'
    BY <1>2, <2>1, <2>2, <2>3, DecisionTyped
  <2>5. \A i \in Proposal : prop'[i] # prop[i] =>
          /\ prop[i] = "pending"
          /\ ~Through({"midway"}) => \A e \in Proposal \ {k} : Holds(e) => dec[e].prop # i
          /\ prop'[i] = "approved" => Took(k) /\ dec[k].prop = i
    BY <1>2, <1>7, <2>2
  <2>6. appr[k] = "consumed" => appr'[k] = "consumed"
    BY <2>3
  <2>7. appr'[k] \notin {"none", "pending"}
    BY <1>3, <2>3
  <2> QED BY <1>2, <1>3, <1>4, <2>1, <2>3, <2>4, <2>5, <2>6, <2>7, DecisionMoves
<1>8. ASSUME dec' = [dec EXCEPT ![k].pc = "verify", ![k].seen = reg["A"]], UNCHANGED <<prop, appr>>,
             prop[j] = "pending", appr[k] = "approved", k \notin late, reg["A"].there
      PROVE  ProposalsKept' /\ DecisionTypes'
  <2>0. dec[k] \in DecRec /\ reg["A"] \in Row
    BY DecTypes
  <2>1. PICK v \in DecRec : v = [dec[k] EXCEPT !.pc = "verify", !.seen = reg["A"]]
    BY <2>0 DEF DecRec
  <2>2. v.pc = "verify" /\ v.seen = reg["A"] /\ v.prop = j
    BY <1>1, <2>0, <2>1 DEF DecRec
  <2>3. dec' = [dec EXCEPT ![k] = v]
    BY <1>8, <2>1
  <2>4. /\ prop' \in [Proposal -> {"none", "requested", "pending", "approved", "rejected", "stale"}]
        /\ appr' \in [Proposal -> {"none", "pending", "approved", "rejected", "consumed"}]
    BY <1>8 DEF TypeOK
  <2>5. DecisionTypes'
    BY <1>2, <2>3, <2>4, DecisionTyped
  <2>6. /\ \A i \in Proposal : prop'[i] = prop[i]
        /\ \A i \in Proposal \ {k} : appr'[i] = appr[i]
        /\ appr[k] = "approved" /\ appr'[k] = "approved"
    BY <1>8
  <2>7. /\ v.pc \in {"lock", "verify", "consumed"} =>
             v.prop \in Proposal /\ asked[v.prop] = asked[k] /\ (cancelled => UnderWay(k))
        /\ v.pc # "written" /\ v.pc # "consumed" /\ dec[k].pc # "written" /\ ~Took(k)
    BY <1>1, <1>3, <2>2
  <2>8. v.pc = "verify" =>
          /\ v.seen = reg["A"] /\ reg["A"].there /\ appr[k] = "approved" /\ k \notin late
          /\ prop'[v.prop] = "pending" /\ ~Took(k) /\ appr' = appr
          /\ \A e \in Proposal \ {k} : Holds(e) => dec[e].prop # v.prop
    BY <1>2, <1>3, <1>8, <2>2, <2>6
  <2>9. UNCHANGED <<reg, late, writes, applied, asked, cancelled>> /\ windows \subseteq windows'
    BY <1>2
  <2> QED BY <2>3, <2>5, <2>6, <2>7, <2>8, <2>9, DecisionMoves
<1>9. \/ Finished(k) /\ UNCHANGED <<prop, appr>>
      \/ Finished(k) /\ prop' = Decided(j, "rejected") /\ UNCHANGED appr
      \/ Finished(k) /\ prop' = Decided(j, "stale") /\ appr' = Spent(k)
      \/ /\ dec' = [dec EXCEPT ![k].pc = "verify", ![k].seen = reg["A"]] /\ UNCHANGED <<prop, appr>>
         /\ prop[j] = "pending" /\ appr[k] = "approved" /\ k \notin late /\ reg["A"].there
  <2> DEFINE C1 == prop[j] # "pending" \/ (appr[k] # "rejected" /\ (appr[k] # "approved" \/ k \in late))
             C2 == appr[k] = "rejected"
             C3 == ~reg["A"].there
             F1 == Finished(k) /\ UNCHANGED <<prop, appr>>
             F2 == Finished(k) /\ prop' = Decided(j, "rejected") /\ UNCHANGED appr
             F3 == Finished(k) /\ prop' = Decided(j, "stale") /\ appr' = Spent(k)
             F4 == dec' = [dec EXCEPT ![k].pc = "verify", ![k].seen = reg["A"]] /\ UNCHANGED <<prop, appr>>
  <2>1. IF C1 THEN F1 ELSE IF C2 THEN F2 ELSE IF C3 THEN F3 ELSE F4
    BY <1>1 DEF Enter
  <2>2. F1 \/ F2 \/ F3 \/ (F4 /\ ~C1 /\ ~C2 /\ ~C3)
    <3> HIDE DEF C1, C2, C3, F1, F2, F3, F4
    <3> QED BY <2>1
  <2> QED BY <2>2
<1> QED BY <1>2, <1>6, <1>7, <1>8, <1>9

\* A decision that goes stale.
LEMMA StaleKeeps ==
  ASSUME TypeOK, ProposalsKept, NEW k \in Proposal, dec[k].pc = "verify", GoesStale(k)
  PROVE  ProposalsKept' /\ DecisionTypes'
<1>1. PICK j \in Proposal : j = dec[k].prop
  BY DEF ProposalsKept, DecisionKnown, UnderWay
<1>2. ~Took(k) /\ UnderWay(k) /\ Holds(k) /\ dec[k].pc # "written" /\ appr[k] = "approved"
  BY DEF Took, UnderWay, Holds, ProposalsKept, ApprovalKnown
<1>3. \A e \in Proposal \ {k} : Holds(e) => dec[e].prop # j
  BY <1>1, <1>2 DEF ProposalsKept, DecisionKnown
<1>4. PICK d \in DecRec : d = [Idle EXCEPT !.pc = "done"] /\ d.pc = "done"
  BY DecTypes
<1>5. /\ dec' = [dec EXCEPT ![k] = d] /\ prop' = Decided(j, "stale")
      /\ appr' = Spent(k) \/ appr' = appr
      /\ UNCHANGED <<reg, facade, late, writes, applied, asked, cancelled, bounds, windows>>
  BY <1>1, <1>4 DEF GoesStale, Finished
<1>6. /\ prop' \in [Proposal -> {"none", "requested", "pending", "approved", "rejected", "stale"}]
      /\ \A i \in Proposal : prop'[i] # prop[i] => i = j /\ prop[i] = "pending" /\ prop'[i] = "stale"
  BY <1>5, DecidedSpent
<1>7. /\ appr' \in [Proposal -> {"none", "pending", "approved", "rejected", "consumed"}]
      /\ \A i \in Proposal \ {k} : appr'[i] = appr[i]
      /\ appr'[k] \in {appr[k], "consumed"}
  BY <1>5, DecidedSpent DEF TypeOK
<1>8. DecisionTypes'
  BY <1>5, <1>6, <1>7, DecisionTyped
<1>9. \A i \in Proposal : prop'[i] # prop[i] =>
        /\ prop[i] = "pending"
        /\ ~Through({"midway"}) => \A e \in Proposal \ {k} : Holds(e) => dec[e].prop # i
        /\ prop'[i] = "approved" => Took(k) /\ dec[k].prop = i
  BY <1>3, <1>6
<1>10. appr'[k] \in {"approved", "consumed"}
  BY <1>2, <1>7
<1> QED BY <1>2, <1>4, <1>5, <1>7, <1>8, <1>9, <1>10, DecisionMoves

\* A decision that its host leaves without an answer resolves nothing.
LEMMA RaiseKeeps ==
  ASSUME TypeOK, ProposalsKept, NEW k \in Proposal, DecisionRaises(k)
  PROVE  ProposalsKept' /\ DecisionTypes' /\ UNCHANGED <<reg, facade>> /\ windows \subseteq windows' /\ Free
<1>1. PICK d \in DecRec : d = [Idle EXCEPT !.pc = "done"] /\ d.pc = "done"
  BY DecTypes
<1>2. /\ dec[k].pc = "verify" /\ Free /\ dec' = [dec EXCEPT ![k] = d] /\ windows \subseteq windows'
      /\ UNCHANGED <<reg, facade, prop, appr, late, writes, applied, asked, cancelled, bounds>>
  BY <1>1 DEF DecisionRaises, Finished
<1>3. ~Took(k) /\ dec[k].pc # "written" /\ appr[k] = "approved"
  BY <1>2 DEF Took, UnderWay, ProposalsKept, ApprovalKnown
<1>4. DecisionTypes'
  BY <1>2, DecisionTyped DEF TypeOK
<1> QED BY <1>1, <1>2, <1>3, <1>4, DecisionMoves

\* The approval is consumed after the write.
LEMMA ConsumeKeeps ==
  ASSUME TypeOK, ProposalsKept, NEW k \in Proposal, Consume(k)
  PROVE  ProposalsKept' /\ DecisionTypes' /\ UNCHANGED <<reg, facade, windows>> /\ Free
<1>1. /\ dec[k].pc = "written" /\ Free /\ appr' = Spent(k) /\ dec' = [dec EXCEPT ![k].pc = "consumed"]
      /\ UNCHANGED <<reg, facade, prop, late, writes, applied, asked, cancelled, bounds, windows>>
  BY DEF Consume
<1>2. PICK d \in DecRec : d = [dec[k] EXCEPT !.pc = "consumed"]
  BY DecTypes DEF DecRec
<1>3. d.pc = "consumed" /\ d.prop = dec[k].prop /\ dec' = [dec EXCEPT ![k] = d]
  BY <1>1, <1>2, DecTypes DEF DecRec
<1>4. Took(k) /\ UnderWay(k) /\ appr[k] = "approved" /\ d.prop \in Proposal /\ asked[d.prop] = asked[k]
  BY <1>1, <1>3 DEF Took, UnderWay, ProposalsKept, ApprovalKnown, DecisionKnown
<1>5. /\ appr' \in [Proposal -> {"none", "pending", "approved", "rejected", "consumed"}]
      /\ \A i \in Proposal \ {k} : appr'[i] = appr[i]
      /\ appr'[k] \in {appr[k], "consumed"} /\ (appr'[k] = "consumed" \/ k \in late)
  BY <1>1, <1>4, DecidedSpent
<1>6. prop' \in [Proposal -> {"none", "requested", "pending", "approved", "rejected", "stale"}]
  BY <1>1 DEF TypeOK
<1>7. DecisionTypes'
  BY <1>1, <1>3, <1>5, <1>6, DecisionTyped
<1> QED BY <1>1, <1>3, <1>4, <1>5, <1>7, DecisionMoves

\* The status is the last thing a decision writes.
LEMMA FinishKeeps ==
  ASSUME TypeOK, ProposalsKept, NEW k \in Proposal, Finish(k)
  PROVE  ProposalsKept' /\ DecisionTypes' /\ UNCHANGED <<reg, facade, windows>> /\ Free
<1>1. PICK j \in Proposal : j = dec[k].prop
  BY DEF Finish, ProposalsKept, DecisionKnown, UnderWay
<1>2. PICK d \in DecRec : d = [Idle EXCEPT !.pc = "done"] /\ d.pc = "done"
  BY DecTypes
<1>3. /\ dec[k].pc = "consumed" /\ Free /\ dec' = [dec EXCEPT ![k] = d] /\ prop' = Decided(j, "approved")
      /\ UNCHANGED <<reg, facade, appr, late, writes, applied, asked, cancelled, bounds, windows>>
  BY <1>1, <1>2 DEF Finish, Finished
<1>4. Took(k) /\ UnderWay(k) /\ Holds(k) /\ appr[k] \notin {"none", "pending"}
  BY <1>3 DEF Took, UnderWay, Holds, ProposalsKept, ApprovalKnown
<1>5. \A e \in Proposal \ {k} : Holds(e) => dec[e].prop # j
  BY <1>1, <1>4 DEF ProposalsKept, DecisionKnown
<1>6. ~Through({"midway"}) => prop[j] = "pending"
  BY <1>1, <1>4 DEF ProposalsKept, HeldIsPending
<1>7. /\ prop' \in [Proposal -> {"none", "requested", "pending", "approved", "rejected", "stale"}]
      /\ \A i \in Proposal : prop'[i] # prop[i] => i = j /\ prop[i] = "pending" /\ prop'[i] = "approved"
      /\ prop[j] = "pending" => prop'[j] = "approved"
  BY <1>3, DecidedSpent
<1>8. DecisionTypes'
  BY <1>3, <1>7, DecisionTyped DEF TypeOK
<1>9. \A i \in Proposal : prop'[i] # prop[i] =>
        /\ prop[i] = "pending"
        /\ ~Through({"midway"}) => \A e \in Proposal \ {k} : Holds(e) => dec[e].prop # i
        /\ prop'[i] = "approved" => Took(k) /\ dec[k].prop = i
  BY <1>1, <1>4, <1>5, <1>7
<1>10. ~Through({"midway"}) => prop'[dec[k].prop] = "approved"
  BY <1>1, <1>6, <1>7
<1> QED BY <1>2, <1>3, <1>4, <1>8, <1>9, <1>10, DecisionMoves

\* The conditional replace writes the record that was read, with its item.
LEMMA WriteKeeps ==
  ASSUME TypeOK, ProposalsKept, NEW k \in Proposal, NEW item \in Item,
         dec[k].pc = "verify", ~Conflicts(k, item), MayWrite("A"),
         reg' = Replaced("A", [dec[k].seen EXCEPT !.scope = @ \cup {item}]),
         dec' = [dec EXCEPT ![k].pc = "written"],
         writes' = [writes EXCEPT ![k] = @ + 1],
         applied' = applied \cup {dec[k].prop},
         windows' = windows \cup (IF item # asked[k] THEN {"resolved"} ELSE {}),
         UNCHANGED <<prop, appr, late, asked, cancelled, bounds>>
  PROVE  /\ ProposalsKept' /\ DecisionTypes' /\ reg' \in [Project -> Row]
         /\ \A p \in Project : /\ reg'[p].there = reg[p].there /\ reg'[p].target = reg[p].target
                               /\ reg'[p].host = reg[p].host
<1>1. PICK j \in Proposal : j = dec[k].prop /\ asked[j] = asked[k]
  BY DEF ProposalsKept, DecisionKnown, UnderWay
<1>2. ~Took(k) /\ UnderWay(k) /\ Holds(k) /\ dec[k].pc # "written" /\ appr[k] = "approved"
  BY DEF Took, UnderWay, Holds, ProposalsKept, ApprovalKnown
<1>3. /\ reg["A"].there /\ dec[k].seen = reg["A"] /\ item \notin reg["A"].scope
  BY DEF Conflicts, Replaces, ProposalsKept, DecisionKnown
<1>4. /\ "A" \in Project /\ reg \in [Project -> Row] /\ reg["A"] \in Row
      /\ reg["A"].ver \in Nat /\ reg["A"].ver + 1 \in 0..MaxWrites /\ reg["A"].ver < MaxWrites
      /\ \A p \in Project : reg[p].ver \in Nat
  BY RegistryBounds DEF MayWrite, TypeOK, Project, Row
<1>5. PICK r : r = [[reg["A"] EXCEPT !.scope = @ \cup {item}] EXCEPT !.ver = reg["A"].ver + 1]
  OBVIOUS
<1>6. /\ r \in Row /\ r.there = reg["A"].there /\ r.target = reg["A"].target /\ r.host = reg["A"].host
      /\ r.scope = reg["A"].scope \cup {item} /\ r.ver = reg["A"].ver + 1
  BY <1>4, <1>5 DEF Row
<1>7. reg' = [reg EXCEPT !["A"] = r]
  BY <1>3, <1>5 DEF Replaced
<1>8. reg'["A"] = r /\ \A p \in Project : p # "A" => reg'[p] = reg[p]
  BY <1>4, <1>7
<1>9. PICK d : d = [dec[k] EXCEPT !.pc = "written"]
  OBVIOUS
<1>10. d \in DecRec /\ d.pc = "written" /\ d.prop = j
  BY <1>1, <1>9, DecTypes DEF DecRec
<1>11. dec' = [dec EXCEPT ![k] = d]
  BY <1>9
<1>12. dec'[k] = d /\ \A e \in Proposal : e # k => dec'[e] = dec[e]
  BY <1>11 DEF TypeOK
<1>13. /\ \A e \in Proposal : UnderWay(e)' = UnderWay(e) /\ Holds(e)' = Holds(e)
       /\ \A e \in Proposal : Took(e)' <=> Took(e) \/ e = k
       /\ \A e \in Proposal : dec'[e].prop = dec[e].prop
  BY <1>1, <1>2, <1>10, <1>12 DEF UnderWay, Holds, Took
<1>14. /\ writes' \in [Proposal -> Nat] /\ writes'[k] = writes[k] + 1
       /\ \A e \in Proposal : e # k => writes'[e] = writes[e]
       /\ writes \in [Proposal -> Nat]
  BY DEF TypeOK
<1>15. DecisionTypes'
  <2>1. dec' \in [Proposal -> [pc : {"off", "handle", "lock", "verify", "written", "consumed", "done"},
                              prop : {0} \cup Proposal, seen : Row]]
    BY <1>10, <1>11 DEF TypeOK, DecRec
  <2>2. applied' \subseteq Proposal
    BY <1>1 DEF TypeOK
  <2> QED BY <1>14, <2>1, <2>2 DEF TypeOK, DecisionTypes, bounds
<1>16. reg' \in [Project -> Row]
  BY <1>4, <1>6, <1>7
<1>17. DecisionKnown'
  <2>1. \A e \in Proposal : UnderWay(e)' => dec'[e].prop \in Proposal /\ asked'[dec'[e].prop] = asked'[e]
    BY <1>13 DEF ProposalsKept, DecisionKnown
  <2>2. \A e, f \in Proposal : Holds(e)' /\ Holds(f)' /\ e # f => dec'[e].prop # dec'[f].prop
    BY <1>13 DEF ProposalsKept, DecisionKnown
  <2>3. ASSUME NEW e \in Proposal, dec'[e].pc = "verify"
        PROVE  /\ dec'[e].seen.there /\ dec'[e].seen.ver <= reg'["A"].ver
               /\ dec'[e].seen.ver = reg'["A"].ver => dec'[e].seen = reg'["A"]
    <3>1. e # k /\ dec'[e] = dec[e]
      BY <1>10, <1>12, <2>3
    <3>2. dec[e].seen.there /\ dec[e].seen.ver <= reg["A"].ver
      BY <1>3, <2>3, <3>1 DEF ProposalsKept, DecisionKnown
    <3>3. dec[e].seen.ver \in Nat
      BY RegistryBounds DEF TypeOK, Row
    <3> QED BY <1>4, <1>6, <1>8, <3>1, <3>2, <3>3
  <2>4. reg'["A"].there
    BY <1>3, <1>6, <1>8
  <2> QED BY <2>1, <2>2, <2>3, <2>4 DEF DecisionKnown
<1>18. ApprovalKnown'
  BY <1>2, <1>12 DEF ProposalsKept, ApprovalKnown
<1>19. HeldIsPending'
  BY <1>13, Wider DEF ProposalsKept, HeldIsPending
<1>20. AppliedIsApproved'
  <2> SUFFICES ASSUME ~Through({"unrecorded", "midway"})', NEW i \in applied'
               PROVE  prop[i] = "approved" \/ \E e \in Proposal : Took(e)' /\ dec'[e].prop = i
    BY DEF AppliedIsApproved
  <2>1. ~Through({"unrecorded", "midway"})
    BY Wider
  <2>2. CASE i = j
    BY <1>1, <1>13, <2>2
  <2>3. CASE i \in applied
    <3>1. prop[i] = "approved" \/ \E e \in Proposal : Took(e) /\ dec[e].prop = i
      BY <2>1, <2>3 DEF ProposalsKept, AppliedIsApproved
    <3> QED BY <1>13, <3>1
  <2> QED BY <1>1, <2>2, <2>3
<1>21. WrittenStays' /\ ApprovedIsRegistered'
  <2> SUFFICES ASSUME ~Through({"overwritten", "dangling", "resolved"})'
               PROVE  /\ \A e \in Proposal : Took(e)' => asked[dec'[e].prop] \in r.scope
                      /\ \A e \in Proposal : prop[e] = "approved" => asked[e] \in r.scope
    BY <1>8 DEF WrittenStays, ApprovedIsRegistered
  <2>1. ~Through({"overwritten", "dangling", "resolved"}) /\ item = asked[k]
    BY DEF Through
  <2>2. /\ \A e \in Proposal : Took(e) => asked[dec[e].prop] \in reg["A"].scope
        /\ \A e \in Proposal : prop[e] = "approved" => asked[e] \in reg["A"].scope
    BY <2>1 DEF ProposalsKept, WrittenStays, ApprovedIsRegistered
  <2> QED BY <1>1, <1>6, <1>13, <2>1, <2>2
<1>22. WritesCounted'
  <2> SUFFICES ASSUME ~Through({"resolved"})'
               PROVE  /\ ~Through({"overwritten"})' =>
                           \A e \in Proposal : writes'[e] > 0 => asked[e] \in r.scope
                      /\ ~Through({"unrecorded"})' =>
                           \A e \in Proposal : writes'[e] > 0 =>
                             dec'[e].pc = "written"
                             \/ (dec'[e].pc # "verify" /\ (appr[e] = "consumed" \/ e \in late))
                      /\ SingleUse'
    BY <1>8 DEF WritesCounted
  <2>1. windows' = windows /\ item = asked[k]
    BY DEF Through
  <2>2. ~Through({"resolved"})
    BY <2>1 DEF Through
  <2>3. ~Through({"overwritten"}) => \A e \in Proposal : writes[e] > 0 => asked[e] \in reg["A"].scope
    BY <1>3, <2>2 DEF ProposalsKept, WritesCounted
  <2>4. ~Through({"unrecorded"}) =>
          \A e \in Proposal : writes[e] > 0 =>
            dec[e].pc = "written" \/ (dec[e].pc # "verify" /\ (appr[e] = "consumed" \/ e \in late))
    BY <2>2 DEF ProposalsKept, WritesCounted
  <2>5. ~Through({"overwritten"}) \/ ~Through({"unrecorded"}) => writes[k] = 0
    BY <1>3, <1>14, <2>1, <2>3, <2>4
  <2>6. SingleUse'
    <3> SUFFICES ASSUME ~({"overwritten", "unrecorded"} \subseteq windows), NEW e \in Proposal
                 PROVE  writes'[e] <= 1
      BY <2>1 DEF SingleUse
    <3>1. ~Through({"overwritten"}) \/ ~Through({"unrecorded"})
      BY DEF Through
    <3>2. writes[k] = 0
      BY <2>5, <3>1
    <3>3. \A i \in Proposal : writes[i] <= 1
      BY <2>2 DEF ProposalsKept, WritesCounted, SingleUse
    <3> QED BY <1>14, <3>2, <3>3
  <2>7. (~Through({"overwritten"}))' <=> ~Through({"overwritten"})
    BY <2>1 DEF Through
  <2>8. (~Through({"unrecorded"}))' <=> ~Through({"unrecorded"})
    BY <2>1 DEF Through
  <2>9. ~Through({"overwritten"}) => \A e \in Proposal : writes'[e] > 0 => asked[e] \in r.scope
    BY <1>6, <1>14, <2>1, <2>3
  <2>10. ~Through({"unrecorded"}) =>
           \A e \in Proposal : writes'[e] > 0 =>
             dec'[e].pc = "written" \/ (dec'[e].pc # "verify" /\ (appr[e] = "consumed" \/ e \in late))
    BY <1>10, <1>12, <1>14, <2>4
  <2> QED BY <2>6, <2>7, <2>8, <2>9, <2>10
<1>23. \A p \in Project : /\ reg'[p].there = reg[p].there /\ reg'[p].target = reg[p].target
                          /\ reg'[p].host = reg[p].host
  BY <1>6, <1>8
<1> QED BY <1>15, <1>16, <1>17, <1>18, <1>19, <1>20, <1>21, <1>22, <1>23 DEF ProposalsKept

\* A step of a decision after the host has answered: it writes, or goes stale.
LEMMA AnswersKeep ==
  ASSUME TypeOK, ProposalsKept, NEW k \in Proposal, NotConfirmed(k) \/ Confirmed(k)
  PROVE  /\ ProposalsKept' /\ DecisionTypes' /\ Free /\ UNCHANGED facade /\ windows \subseteq windows'
         /\ reg' \in [Project -> Row]
         /\ \A p \in Project : /\ reg'[p].there = reg[p].there /\ reg'[p].target = reg[p].target
                               /\ reg'[p].host = reg[p].host
<1>1. Free /\ dec[k].pc = "verify"
  BY DEF NotConfirmed, Confirmed
<1>2. CASE GoesStale(k)
  <2>1. ProposalsKept' /\ DecisionTypes'
    BY <1>1, <1>2, StaleKeeps
  <2>2. UNCHANGED <<reg, facade, windows>>
    BY <1>2 DEF GoesStale
  <2> QED BY <1>1, <2>1, <2>2 DEF TypeOK
<1>3. ASSUME NEW item \in Item, ~Conflicts(k, item), MayWrite("A"),
             reg' = Replaced("A", [dec[k].seen EXCEPT !.scope = @ \cup {item}]),
             dec' = [dec EXCEPT ![k].pc = "written"],
             writes' = [writes EXCEPT ![k] = @ + 1],
             applied' = applied \cup {dec[k].prop},
             windows' = windows \cup (IF item # asked[k] THEN {"resolved"} ELSE {}),
             UNCHANGED <<facade, prop, appr, late, asked, cancelled, bounds>>
      PROVE  /\ ProposalsKept' /\ DecisionTypes' /\ UNCHANGED facade /\ windows \subseteq windows'
             /\ reg' \in [Project -> Row]
             /\ \A p \in Project : /\ reg'[p].there = reg[p].there /\ reg'[p].target = reg[p].target
                                   /\ reg'[p].host = reg[p].host
  <2>1. UNCHANGED <<prop, appr, late, asked, cancelled, bounds>>
    BY <1>3
  <2> QED BY <1>1, <1>3, <2>1, WriteKeeps
<1>4. ASSUME Confirmed(k), ~GoesStale(k)
      PROVE  \E item \in Item :
               /\ ~Conflicts(k, item) /\ MayWrite("A")
               /\ reg' = Replaced("A", [dec[k].seen EXCEPT !.scope = @ \cup {item}])
               /\ dec' = [dec EXCEPT ![k].pc = "written"]
               /\ writes' = [writes EXCEPT ![k] = @ + 1]
               /\ applied' = applied \cup {dec[k].prop}
               /\ windows' = windows \cup (IF item # asked[k] THEN {"resolved"} ELSE {})
               /\ UNCHANGED <<facade, prop, appr, late, asked, cancelled, bounds>>
  BY <1>4 DEF Confirmed
<1> QED BY <1>1, <1>2, <1>3, <1>4 DEF NotConfirmed

\* Making proposals, the clock and a cancellation move no decision.
LEMMA QuietMoves ==
  ASSUME TypeOK, ProposalsKept, UNCHANGED <<reg, dec, writes, applied, asked>>,
         windows \subseteq windows', late \subseteq late',
         \A i \in Proposal : prop'[i] # prop[i] => prop[i] \notin {"pending", "approved"} /\ prop'[i] # "approved",
         \A i \in Proposal : appr'[i] # appr[i] => appr[i] = "none",
         cancelled' /\ ~Through({"midway"})' => cancelled \/ \A k \in Proposal : ~UnderWay(k)
  PROVE  ProposalsKept'
<1>1. \A k \in Proposal : UnderWay(k)' = UnderWay(k) /\ Holds(k)' = Holds(k) /\ Took(k)' = Took(k)
  BY DEF UnderWay, Holds, Took
<1>2. DecisionKnown'
  <2>1. ~reg["A"].there => "dangling" \in windows'
    BY DEF ProposalsKept, DecisionKnown
  <2> QED BY <1>1, <2>1 DEF ProposalsKept, DecisionKnown
<1>3. ApprovalKnown'
  BY DEF ProposalsKept, ApprovalKnown
<1>4. \A k \in Proposal : Holds(k) => dec[k].prop \in Proposal
  BY DEF ProposalsKept, DecisionKnown, UnderWay, Holds
<1>5. HeldIsPending'
  <2>1. ~Through({"midway"})' => ~Through({"midway"})
    BY Wider
  <2> QED BY <1>1, <1>4, <2>1 DEF ProposalsKept, HeldIsPending
<1>6. AppliedIsApproved'
  <2>1. ~Through({"unrecorded", "midway"})' => ~Through({"unrecorded", "midway"})
    BY Wider
  <2>2. applied \subseteq Proposal
    BY DEF TypeOK
  <2> QED BY <1>1, <2>1, <2>2 DEF ProposalsKept, AppliedIsApproved
<1>7. WrittenStays' /\ ApprovedIsRegistered'
  <2>1. ~Through({"overwritten", "dangling", "resolved"})' => ~Through({"overwritten", "dangling", "resolved"})
    BY Wider
  <2> QED BY <1>1, <2>1 DEF ProposalsKept, WrittenStays, ApprovedIsRegistered
<1>8. WritesCounted'
  <2>1. SingleUse'
    BY Wider DEF ProposalsKept, WritesCounted, SingleUse
  <2>2. ~Through({"resolved"})' /\ ~Through({"overwritten"})' =>
          \A e \in Proposal : writes[e] > 0 => asked[e] \in reg["A"].scope \/ ~reg["A"].there
    BY Wider DEF ProposalsKept, WritesCounted
  <2>3. ~Through({"resolved"})' /\ ~Through({"unrecorded"})' => \A e \in Proposal : writes[e] > 0 =>
           dec[e].pc = "written" \/ (dec[e].pc # "verify" /\ (appr'[e] = "consumed" \/ e \in late'))
    BY Wider DEF ProposalsKept, WritesCounted
  <2> QED BY <2>1, <2>2, <2>3 DEF WritesCounted
<1> QED BY <1>2, <1>3, <1>5, <1>6, <1>7, <1>8 DEF ProposalsKept

\* A proposal is made, or its approval expires.
LEMMA ProposingKeeps ==
  ASSUME TypeOK, ProposalsKept, NEW k \in Proposal, Request(k) \/ Propose(k) \/ Expire(k)
  PROVE  ProposalsKept' /\ DecisionTypes' /\ Free /\ UNCHANGED <<reg, facade>> /\ windows \subseteq windows'
<1>1. /\ Free /\ UNCHANGED <<reg, facade, dec, writes, applied, asked, cancelled, bounds>>
      /\ windows \subseteq windows' /\ late \subseteq late' /\ late' \subseteq Proposal
  BY DEF Request, Propose, Expire, TypeOK
<1>2. /\ prop' \in [Proposal -> {"none", "requested", "pending", "approved", "rejected", "stale"}]
      /\ appr' \in [Proposal -> {"none", "pending", "approved", "rejected", "consumed"}]
      /\ \A i \in Proposal : prop'[i] # prop[i] => prop[i] \notin {"pending", "approved"} /\ prop'[i] # "approved"
      /\ \A i \in Proposal : appr'[i] # appr[i] => appr[i] = "none"
  <2>1. CASE Request(k)
    BY <2>1 DEF Request, CreateRequest, TypeOK
  <2>2. CASE Propose(k)
    BY <2>2 DEF Propose, TypeOK
  <2>3. CASE Expire(k)
    BY <2>3 DEF Expire, TypeOK
  <2> QED BY <2>1, <2>2, <2>3
<1>3. DecisionTypes'
  BY <1>1, <1>2 DEF TypeOK, DecisionTypes, bounds
<1>4. UNCHANGED <<reg, dec, writes, applied, asked>> /\ cancelled' = cancelled
  BY <1>1
<1>5. ProposalsKept'
  BY <1>1, <1>2, <1>4, QuietMoves
<1> QED BY <1>1, <1>3, <1>5

\* A cancellation notes the decisions under way.
LEMMA CancelKeeps ==
  ASSUME TypeOK, ProposalsKept, CancelRun
  PROVE  ProposalsKept' /\ DecisionTypes' /\ Free /\ UNCHANGED <<reg, facade>> /\ windows \subseteq windows'
<1>1. /\ Free /\ UNCHANGED <<reg, facade, prop, appr, late, dec, writes, applied, asked, bounds>>
      /\ windows \subseteq windows' /\ cancelled' \in BOOLEAN
      /\ ~Through({"midway"})' => \A k \in Proposal : ~UnderWay(k)
  BY DEF CancelRun, Through, UnderWay
<1>2. DecisionTypes'
  BY <1>1 DEF TypeOK, DecisionTypes, bounds
<1>3. ProposalsKept'
  BY <1>1, QuietMoves
<1> QED BY <1>1, <1>2, <1>3

\* A restart begins the decided approvals again, and no decision is under way.
LEMMA CrashKeepsProposals ==
  ASSUME TypeOK, ProposalsKept, Crash
  PROVE  ProposalsKept' /\ DecisionTypes'
<1>1. PICK h \in DecRec : h = [Idle EXCEPT !.pc = "handle"] /\ h.pc = "handle"
  BY DecTypes
<1>2. /\ UNCHANGED <<reg, appr, late, writes, applied, asked, cancelled, edits>> /\ crashes' = crashes + 1
      /\ prop' = [k \in Proposal |-> IF prop[k] = "requested" THEN "none" ELSE prop[k]]
      /\ dec' = [k \in Proposal |-> IF k \in ToReconcile THEN h
                                    ELSE IF dec[k].pc = "done" THEN dec[k] ELSE Idle]
      /\ windows \subseteq windows'
  BY <1>1 DEF Crash
<1>3. \A k \in Proposal : Took(k) => "unrecorded" \in windows'
  BY DEF Crash, Took
<1>4. \A k \in Proposal : /\ dec'[k] \in {h, dec[k], Idle} /\ dec'[k].pc \in {"off", "handle", "done"}
                          /\ dec'[k].pc # "off" => appr[k] \notin {"none", "pending"}
  <2> SUFFICES ASSUME NEW k \in Proposal
               PROVE  /\ dec'[k] \in {h, dec[k], Idle} /\ dec'[k].pc \in {"off", "handle", "done"}
                      /\ dec'[k].pc # "off" => appr[k] \notin {"none", "pending"}
    OBVIOUS
  <2>1. Idle.pc = "off"
    BY DEF Idle
  <2>2. CASE k \in ToReconcile
    BY <1>1, <1>2, <2>2 DEF ToReconcile
  <2>3. CASE k \notin ToReconcile /\ dec[k].pc = "done"
    BY <1>2, <2>3 DEF ProposalsKept, ApprovalKnown
  <2>4. CASE k \notin ToReconcile /\ dec[k].pc # "done"
    BY <1>2, <2>1, <2>4
  <2> QED BY <2>2, <2>3, <2>4
<1>5. DecisionTypes'
  <2>1. dec' \in [Proposal -> DecRec]
    BY <1>1, <1>2, DecTypes
  <2>2. prop' \in [Proposal -> {"none", "requested", "pending", "approved", "rejected", "stale"}]
    BY <1>2 DEF TypeOK
  <2> QED BY <1>2, <2>1, <2>2 DEF TypeOK, DecisionTypes, DecRec
<1>6. \A k \in Proposal : ~UnderWay(k)' /\ ~Holds(k)' /\ ~Took(k)' /\ dec'[k].pc \notin {"verify", "written"}
  BY <1>4 DEF UnderWay, Holds, Took
<1>7. DecisionKnown'
  <2>1. ~reg["A"].there => "dangling" \in windows'
    BY <1>2 DEF ProposalsKept, DecisionKnown
  <2> QED BY <1>2, <1>6, <2>1 DEF DecisionKnown
<1>8. ApprovalKnown' /\ HeldIsPending' /\ WrittenStays'
  BY <1>2, <1>4, <1>6 DEF ApprovalKnown, HeldIsPending, WrittenStays
<1>9. \A k \in Proposal : prop'[k] = "approved" <=> prop[k] = "approved"
  BY <1>2
<1>10. AppliedIsApproved'
  <2> SUFFICES ASSUME ~Through({"unrecorded", "midway"})', NEW j \in applied
               PROVE  prop'[j] = "approved"
    BY <1>2 DEF AppliedIsApproved
  <2>1. ~Through({"unrecorded", "midway"}) /\ j \in Proposal /\ "unrecorded" \notin windows'
    BY <1>2, Wider DEF Through, TypeOK
  <2> QED BY <1>3, <1>9, <2>1 DEF ProposalsKept, AppliedIsApproved
<1>11. ApprovedIsRegistered'
  BY <1>2, <1>9, Wider DEF ProposalsKept, ApprovedIsRegistered
<1>12. WritesCounted'
  <2>1. SingleUse'
    BY <1>2, Wider DEF ProposalsKept, WritesCounted, SingleUse
  <2>2. ~Through({"resolved"})' /\ ~Through({"overwritten"})' =>
          \A e \in Proposal : writes[e] > 0 => asked[e] \in reg["A"].scope \/ ~reg["A"].there
    BY <1>2, Wider DEF ProposalsKept, WritesCounted
  <2>3. ASSUME ~Through({"resolved"})', ~Through({"unrecorded"})', NEW e \in Proposal, writes[e] > 0
        PROVE  appr[e] = "consumed" \/ e \in late
    <3>1. ~Through({"resolved"}) /\ ~Through({"unrecorded"}) /\ "unrecorded" \notin windows'
      BY <1>2, <2>3, Wider DEF Through
    <3>2. dec[e].pc # "written"
      BY <1>3, <3>1 DEF Took
    <3> QED BY <2>3, <3>1, <3>2 DEF ProposalsKept, WritesCounted
  <2> QED BY <1>2, <1>6, <2>1, <2>2, <2>3 DEF WritesCounted
<1> QED BY <1>5, <1>7, <1>8, <1>10, <1>11, <1>12 DEF ProposalsKept

-----------------------------------------------------------------------------
(* The invariant holds at first and every step keeps it. *)

\* Nothing is bound, proposed or decided at first.
LEMMA InitHolds == Init => IInv
<1> SUFFICES ASSUME Init PROVE IInv
  OBVIOUS
<1>1. /\ Absent \in Row /\ Record({}) \in Row /\ Idle \in DecRec /\ Idle.pc = "off"
      /\ Record({}).there /\ Record({}).target /\ Record({}).host = 0
  <2>1. 0 \in 0..MaxWrites
    BY RegistryBounds
  <2>2. Absent \in Row
    BY <2>1 DEF Absent, Row
  <2>3. Record({}) \in Row /\ Record({}).there /\ Record({}).target /\ Record({}).host = 0
    BY <2>1 DEF Record, Absent, Row
  <2> QED BY <2>2, <2>3 DEF Idle, DecRec
<1>2. NoWork \in [op : {"none", "create", "patch", "delete"}, id : Facade, to : Project \cup {NoOne}]
  BY IdsDiffer DEF NoWork
<1>3. /\ reg \in [Project -> Row] /\ reg["A"] = Record({})
      /\ bind = [f \in Facade |-> [to |-> NoOne, ver |-> 0]] /\ \A f \in Facade : bind[f].to = NoOne
      /\ \A k \in Proposal : dec[k] = Idle
  BY <1>1 DEF Init, Project
<1>4. TypeOK
  <2>1. bind \in [Facade -> [to : Project \cup {NoOne}, ver : Nat]] /\ acked \in [Facade -> Nat]
    BY <1>3 DEF Init
  <2>2. dec \in [Proposal -> DecRec]
    BY <1>1 DEF Init
  <2>3. mid \in [op : {"none", "create", "patch", "delete"}, id : Facade, to : Project \cup {NoOne}]
    BY <1>2 DEF Init
  <2>4. asked \in [Proposal -> Item] /\ writes \in [Proposal -> Nat]
    BY DEF Init
  <2>5. /\ prop \in [Proposal -> {"none", "requested", "pending", "approved", "rejected", "stale"}]
        /\ appr \in [Proposal -> {"none", "pending", "approved", "rejected", "consumed"}]
    BY DEF Init
  <2>6. /\ gone \subseteq Project /\ listed \in {"ok", "raised"} /\ late \subseteq Proposal
        /\ applied \subseteq Proposal /\ cancelled \in BOOLEAN
    BY DEF Init
  <2>7. edits \in Nat /\ crashes \in Nat
    BY DEF Init
  <2> QED BY <1>3, <2>1, <2>2, <2>3, <2>4, <2>5, <2>6, <2>7 DEF TypeOK, DecRec
<1>5. Targets
  <2>1. mid = NoWork /\ mid.op = "none" /\ gone = {} /\ listed = "ok"
    BY DEF Init, NoWork
  <2>2. MidKnown
    BY <2>1 DEF MidKnown
  <2>3. IdsDerived /\ OneFacadePerTarget /\ BoundIsRegistered
    BY <1>3 DEF IdsDerived, OneFacadePerTarget, BoundIsRegistered
  <2>4. ListAnswers
    BY <2>1 DEF ListAnswers
  <2>5. DeletedStaysDeleted /\ gone \cap Registered = {}
    BY <2>1 DEF DeletedStaysDeleted
  <2>6. HostKept
    BY <1>3, NoProject DEF HostKept, Viewable, Registered
  <2> QED BY <2>2, <2>3, <2>4, <2>5, <2>6 DEF Targets
<1>6. ProposalsKept
  <2>1. \A k \in Proposal : ~UnderWay(k) /\ ~Holds(k) /\ ~Took(k) /\ dec[k].pc = "off"
    BY <1>1, <1>3 DEF UnderWay, Holds, Took
  <2>2. \A k \in Proposal : prop[k] = "none" /\ writes[k] = 0
    BY DEF Init
  <2>3. DecisionKnown /\ ApprovalKnown
    BY <1>1, <1>3, <2>1 DEF DecisionKnown, ApprovalKnown
  <2>4. HeldIsPending /\ AppliedIsApproved
    BY <2>1 DEF Init, HeldIsPending, AppliedIsApproved
  <2>5. WrittenStays /\ ApprovedIsRegistered
    BY <2>1, <2>2 DEF WrittenStays, ApprovedIsRegistered
  <2>6. WritesCounted
    BY <2>2 DEF WritesCounted, SingleUse
  <2> QED BY <2>3, <2>4, <2>5, <2>6 DEF ProposalsKept
<1> QED BY <1>4, <1>5, <1>6 DEF IInv

\* The operator's steps, through the facade or on the projects.
LEMMA OperatorSteps ==
  ASSUME IInv, Facades \/ Operator
  PROVE  IInv' /\ applied' = applied
<1>1. TypeOK /\ Targets /\ ProposalsKept
  BY DEF IInv
<1>2. Targets' /\ FacadeTypes'
  <2>1. CASE ListTargets
    BY <1>1, <2>1, ListKeeps
  <2>2. CASE \E f \in Facade : Access(f)
    BY <1>1, <2>2, AccessKeeps
  <2>3. CASE CreateTarget \/ CreateProject \/ \E p \in Project : UpdateProject(p)
    BY <1>1, <2>3, NewProjectsKeep
  <2>4. CASE CreateBinding
    BY <1>1, <2>4, CreateBindingKeeps
  <2>5. CASE \E f \in Facade : PatchTarget(f)
    BY <1>1, <2>5, PatchKeeps
  <2>6. CASE PatchBinding
    BY <1>1, <2>6, PatchBindingKeeps
  <2>7. CASE \E f \in Facade : DeleteTarget(f)
    BY <1>1, <2>7, DeleteKeeps
  <2>8. CASE DeleteRegistered \/ \E p \in Project : DeleteProject(p)
    BY <1>1, <2>8, DeletesKeep
  <2> QED BY <2>1, <2>2, <2>3, <2>4, <2>5, <2>6, <2>7, <2>8 DEF Facades, Operator
<1>3. /\ UNCHANGED decision /\ windows \subseteq windows' /\ {edits, crashes}' \subseteq Nat
      /\ \/ reg'["A"] = reg["A"]
         \/ /\ reg["A"].there /\ reg'["A"].there /\ reg'["A"].ver = reg["A"].ver + 1
            /\ reg'["A"].scope = reg["A"].scope \/ "overwritten" \in windows'
         \/ ~reg'["A"].there /\ "dangling" \in windows'
  <2>1. ~reg["A"].there => "dangling" \in windows
    BY <1>1 DEF ProposalsKept, DecisionKnown
  <2> QED BY <1>1, <2>1, FacadeMovesA
<1>4. ProposalsKept'
  BY <1>1, <1>3, RegistryMoves
<1>5. DecisionTypes'
  BY <1>1, <1>3 DEF TypeOK, DecisionTypes, decision
<1> QED BY <1>2, <1>3, <1>4, <1>5, TypesJoin DEF IInv, decision

\* The steps of the proposals and their approvals.
LEMMA ProposalSteps ==
  ASSUME IInv, NEW k \in Proposal,
         \/ Request(k) \/ Propose(k) \/ Expire(k) \/ Approve(k) \/ Reject(k) \/ Deciding(k) \/ CancelRun
  PROVE  IInv' /\ (cancelled /\ ~Through({"midway"}) => applied' = applied)
<1>1. TypeOK /\ Targets /\ ProposalsKept
  BY DEF IInv
<1>2. /\ ProposalsKept' /\ DecisionTypes' /\ Free /\ UNCHANGED facade /\ windows \subseteq windows'
      /\ reg' \in [Project -> Row]
      /\ \A p \in Project : /\ reg'[p].there = reg[p].there /\ reg'[p].target = reg[p].target
                            /\ reg'[p].host = reg[p].host
  <2>1. ASSUME ProposalsKept', DecisionTypes', Free, UNCHANGED <<reg, facade>>, windows \subseteq windows'
        PROVE  /\ ProposalsKept' /\ DecisionTypes' /\ Free /\ UNCHANGED facade /\ windows \subseteq windows'
               /\ reg' \in [Project -> Row]
               /\ \A p \in Project : /\ reg'[p].there = reg[p].there /\ reg'[p].target = reg[p].target
                                     /\ reg'[p].host = reg[p].host
    BY <1>1, <2>1 DEF TypeOK
  <2>2. CASE Request(k) \/ Propose(k) \/ Expire(k)
    BY <1>1, <2>1, <2>2, ProposingKeeps
  <2>3. CASE Approve(k) \/ Reject(k)
    BY <1>1, <2>1, <2>3, DecideKeeps
  <2>4. CASE Handle(k)
    BY <1>1, <2>1, <2>4, HandleKeeps
  <2>5. CASE Enter(k)
    BY <1>1, <2>1, <2>5, EnterKeeps
  <2>6. CASE NotConfirmed(k) \/ Confirmed(k)
    BY <1>1, <2>6, AnswersKeep
  <2>7. CASE Consume(k)
    BY <1>1, <2>1, <2>7, ConsumeKeeps
  <2>8. CASE Finish(k)
    BY <1>1, <2>1, <2>8, FinishKeeps
  <2>9. CASE CancelRun
    BY <1>1, <2>1, <2>9, CancelKeeps
  <2>10. CASE DecisionRaises(k)
    BY <1>1, <2>1, <2>10, RaiseKeeps
  <2> QED BY <2>2, <2>3, <2>4, <2>5, <2>6, <2>7, <2>8, <2>9, <2>10 DEF Deciding
<1>3. Targets' /\ FacadeTypes'
  BY <1>1, <1>2, SameHosts
<1>4. cancelled /\ ~Through({"midway"}) => applied' = applied
  <2>1. CASE Confirmed(k) \/ NotConfirmed(k)
    <3>1. UnderWay(k)
      BY <2>1 DEF Confirmed, NotConfirmed, UnderWay
    <3> QED BY <1>1, <3>1 DEF ProposalsKept, HeldIsPending
  <2>2. CASE ~(Confirmed(k) \/ NotConfirmed(k))
    BY <2>2 DEF Deciding, Request, Propose, Expire, Approve, Reject, RunDownstream, Handle, Enter,
                Consume, Finish, DecisionRaises, CancelRun
  <2> QED BY <2>1, <2>2
<1> QED BY <1>2, <1>3, <1>4, TypesJoin DEF IInv

\* Every step keeps the invariant, and a cancelled run writes nothing.
LEMMA StepHolds ==
  ASSUME IInv, [Next]_vars
  PROVE  IInv' /\ (cancelled /\ ~Through({"midway"}) => applied' = applied)
<1>1. CASE Facades \/ Operator
  BY <1>1, OperatorSteps
<1>2. CASE Crash
  BY <1>2, CrashKeepsTargets, CrashKeepsProposals, TypesJoin DEF IInv, Crash
<1>3. CASE CancelRun
  BY <1>3, ProposalSteps DEF Proposal
<1>4. ASSUME NEW k \in Proposal,
             Request(k) \/ Propose(k) \/ Approve(k) \/ Reject(k) \/ Expire(k) \/ Deciding(k)
      PROVE  IInv' /\ (cancelled /\ ~Through({"midway"}) => applied' = applied)
  BY <1>4, ProposalSteps
<1>5. CASE UNCHANGED vars
  <2>1. UNCHANGED <<reg, facade, decision, windows, bounds>>
    BY <1>5 DEF vars
  <2>2. UNCHANGED <<bind, mid, acked, gone, listed, prop, appr, late, dec, writes, applied, asked, cancelled,
                    edits, crashes>>
    BY <2>1 DEF facade, decision, bounds
  <2>3. TypeOK' /\ applied' = applied
    BY <2>1, <2>2 DEF IInv, TypeOK
  <2>4. Registered' = Registered
    BY <2>1 DEF Registered
  <2>5. Targets'
    BY <2>1, <2>2, <2>4 DEF IInv, Targets, MidKnown, IdsDerived, OneFacadePerTarget, BoundIsRegistered,
         ListAnswers, DeletedStaysDeleted, HostKept, Viewable, BoundAs, Through
  <2>6. ProposalsKept'
    BY <2>1, <2>2, RegistryMoves DEF IInv
  <2> QED BY <2>3, <2>5, <2>6 DEF IInv
<1> QED BY <1>1, <1>2, <1>3, <1>4, <1>5 DEF Next

-----------------------------------------------------------------------------
(* What it implies. *)

LEMMA ShownTargets == IInv => TargetsHold
<1> SUFFICES ASSUME IInv PROVE TargetsHold
  OBVIOUS
<1>1. HostIsAcknowledged
  BY DEF IInv, Targets, HostKept, HostIsAcknowledged, Free, NoWork
<1> QED BY <1>1 DEF IInv, Targets, TargetsHold

LEMMA ShownProposals == IInv => ProposalsHold
<1> SUFFICES ASSUME IInv PROVE ProposalsHold
  OBVIOUS
<1>1. ASSUME ~Through({"unrecorded", "midway"}), NEW j \in Proposal, j \in applied,
             prop[j] \in {"none", "requested", "rejected", "stale"}
      PROVE  FALSE
  <2>1. PICK k \in Proposal : Took(k) /\ dec[k].prop = j
    BY <1>1 DEF IInv, ProposalsKept, AppliedIsApproved
  <2>2. prop[j] = "pending"
    BY <1>1, <2>1 DEF IInv, ProposalsKept, HeldIsPending, Took, Holds, Through
  <2> QED BY <1>1, <2>2
<1>2. DecidedHonestly
  BY <1>1 DEF DecidedHonestly
<1>3. SingleUse
  BY DEF IInv, ProposalsKept, WritesCounted, SingleUse
<1> QED BY <1>2, <1>3 DEF IInv, ProposalsKept, ProposalsHold

\* The product targets show the registry as it is (targets/service.py): one
\* target for each registry target, ids that are kept, a list that answers,
\* deletions that last and the host last acknowledged, whatever the bounds on
\* edits, writes and crashes.
THEOREM FacadeIsTrue == Spec => []TargetsHold
<1>1. Init => IInv
  BY InitHolds
<1>2. IInv /\ [Next]_vars => IInv'
  BY StepHolds
<1>3. IInv => TargetsHold
  BY ShownTargets
<1> QED BY <1>1, <1>2, <1>3, PTL DEF Spec

\* A proposal's status tells what was written (registry_proposals.py): the
\* decision lock, the conditional replace and the order of write, consumption
\* and status keep approved items registered, undecided ones unwritten, and an
\* approval to one write.
THEOREM ProposalsAreTrue == Spec => []ProposalsHold
<1>1. Init => IInv
  BY InitHolds
<1>2. IInv /\ [Next]_vars => IInv'
  BY StepHolds
<1>3. IInv => ProposalsHold
  BY ShownProposals
<1> QED BY <1>1, <1>2, <1>3, PTL DEF Spec

\* handle_approval_decision looks at the run's cancellation before it decides,
\* so no write is made for a run that was cancelled before.
THEOREM CancelStopsWrites == Spec => NoWriteAfterCancel
<1>1. Init => IInv
  BY InitHolds
<1>2. IInv /\ [Next]_vars => IInv'
  BY StepHolds
<1>3. IInv /\ [Next]_vars => [cancelled /\ ~Through({"midway"}) => applied' = applied]_vars
  BY StepHolds
<1> QED BY <1>1, <1>2, <1>3, PTL DEF Spec, NoWriteAfterCancel
=============================================================================
