-------------------------- MODULE RemoteToolsProofs --------------------------
(***************************************************************************)
(* Proofs about RemoteTools, for any number of targets, callers, sessions, *)
(* container processes, faults and calls: every transport and container    *)
(* process has an owner, what connect hands out is the registered session, *)
(* one approval begins one command, and reads stay inside the roots.       *)
(*                                                                         *)
(* Closing and dialling take several steps, and only connect holds the     *)
(* lock of its target over them.  The invariant therefore says what each   *)
(* call knows between its steps: what it saw in the table (Watched), which *)
(* children it has still to close (Covered), and that nothing else can     *)
(* register a session for a target whose lock is held (Locked).            *)
(*                                                                         *)
(* The second part is about Sessions, for any number of messages,          *)
(* operations, investigations, texts and crashes: an agent session agrees  *)
(* with its work, and accepted messages are kept.  Its invariant           *)
(* (SessionInv) says in addition what the handler has in hand, in which    *)
(* order operations are served, which investigation each is linked to, and *)
(* that unstored texts are the end of the timeline.                        *)
(***************************************************************************)
EXTENDS RemoteTools, Sessions, FiniteSetTheorems, SequenceTheorems, NaturalsInduction,
        WellFoundedInduction, TLAPS

Ops == {"none", "connect", "read", "command", "disconnect", "close_all", "spawn"}
Places == {"idle", "lock", "live", "probe", "dial", "have", "kids", "shut", "all", "open",
           "lstat", "body"}
Call == [op : Ops, at : Places, tgt : Targets, s : Sessions \cup {None}, canon : {"in"},
         todo : SUBSET Children, rest : SUBSET Sessions]

Answers == {"none", "connected", "closed", "spawned", "failed", "denied", "done",
            "uncertain", "inside", "outside"}

CallTypes == call \in [Callers -> Call] /\ answer \in [Callers -> Answers]

\* Which operation is where, and what it carries.
Known(r) ==
  /\ r.at = "idle" => r = Idle
  /\ r.at \in {"live", "probe", "kids", "shut", "have", "open", "lstat", "body"} => r.s \in Sessions
  /\ r.op = "disconnect" => r.at \in {"kids", "shut"}
  /\ r.op = "close_all" => r.at \in {"all", "kids", "shut"}
  /\ r.at = "all" => r.op = "close_all"
  /\ r.op = "spawn" <=> r.at = "open"
CallKnown == \A c \in Callers : Known(call[c])

\* connect, from taking the lock to handing out a session.
Holds(c) ==
  \/ call[c].at \in {"probe", "dial"}
  \/ call[c].at \in {"kids", "shut"} /\ call[c].op \notin {"disconnect", "close_all"}
Locked == \A c \in Callers : Holds(c) => lock[call[c].tgt] = c

\* A registered session is a transport of its target.
TableKnown ==
  \A t \in Targets : table[t] /= None => tr[table[t]].tgt = t /\ tr[table[t]].st /= "unborn"

\* A listed child runs in a session.
ListedKnown == \A k \in listed : kid[k].st = "open" /\ kid[k].host \in Sessions

NoWindow == windows \cap {"keyerror", "late", "orphan"} = {}

\* What connect read in the table is there still, or was taken out; where it
\* dials, nothing that is open, or has children, is replaced.
Watched ==
  \A c \in Callers : Holds(c) =>
    LET s == table[call[c].tgt]
    IN \/ s = None
       \/ call[c].at /= "dial" /\ call[c].s = s
       \/ call[c].at = "dial" /\ tr[s].st = "closed" /\ (NoWindow => ChildrenOf(s) = {})

\* A call that closes a session closes all the children listed under it.
Covered ==
  NoWindow => \A c \in Callers :
    /\ call[c].at = "kids" => ChildrenOf(call[c].s) \subseteq call[c].todo
    /\ call[c].at = "shut" => ChildrenOf(call[c].s) = {}

Tables ==
  /\ CallKnown /\ Locked /\ TableKnown /\ ListedKnown /\ Watched /\ Covered
  /\ NoStrayTransport /\ ChildHasHost

Typed == TypeOK /\ CallTypes

\* The approval is spent by the one call that runs the command.
Paid ==
  /\ ran = 0 \/ approval = "consumed"
  /\ approval /= "none" => calls > 0
  /\ \A c \in Callers : call[c].op = "command" =>
       /\ approval = "consumed" /\ ran = 0
       /\ \A d \in Callers : call[d].op = "command" => d = c

\* The file that a read has authorised is still the one it was.
Authorized ==
  \A c \in Callers : call[c].at \in {"lstat", "body"} => file = "plain" \/ "swapped" \in windows

IInv == Typed /\ Tables /\ Paid /\ ApprovalRunsOnce /\ Authorized /\ ReadsStayInside

-----------------------------------------------------------------------------
(* What the steps do to a call. *)

LEMMA IdleFacts ==
  /\ Idle \in Call /\ Known(Idle)
  /\ Idle.at = "idle" /\ Idle.op = "none" /\ Idle.rest = {} /\ Idle.todo = {}
  BY RemoteConstants DEF Idle, Call, Ops, Places, Sessions, Children, Known

\* Only the call of c is in question.
Only(c) == call' \in [Callers -> Call] /\ \A d \in Callers \ {c} : call'[d] = call[d]

LEMMA Gone ==
  ASSUME CallTypes, NEW c \in Callers, NEW r \in Call, Goto(c, r)
  PROVE  Only(c) /\ call'[c] = r
  BY DEF Goto, CallTypes, Only

LEMMA Returned ==
  ASSUME CallTypes, NEW c \in Callers, NEW a, Return(c, a)
  PROVE  Only(c) /\ call'[c] = Idle
  BY IdleFacts DEF Return, CallTypes, Only

\* The places of a call where it neither holds a lock nor closes anything.
Out == {"idle", "lock", "live", "have", "open", "lstat", "body"}

\* A call goes on, the sessions stay as they are.
Quiet(c) ==
  /\ UNCHANGED <<table, tr, listed, kid, lock>> /\ windows \subseteq windows'
  /\ Only(c) /\ Known(call'[c])
  /\ call[c].at \in Out /\ call'[c].at \in Out \cup {"all"}

LEMMA QuietBegins ==
  ASSUME Typed, CallKnown, NEW c \in Callers, NEW t \in Targets,
         StartTool(c, "read", t) \/ ConnectRoute(c, t) \/ StartCommand(c, t) \/ Spawn(c, t)
  PROVE  Quiet(c)
<1> USE IdleFacts DEF Typed
<1>1. CASE StartTool(c, "read", t)
  <2> DEFINE r == [Idle EXCEPT !.op = "read", !.tgt = t, !.at = "lock"]
  <2>1. r \in Call /\ Known(r) /\ r.at = "lock"
    BY DEF Call, Places, Ops, Known
  <2> QED BY <1>1, <2>1, Gone DEF StartTool, Begin, Quiet, Out, net
<1>2. CASE ConnectRoute(c, t)
  <2> DEFINE r == [Idle EXCEPT !.op = "connect", !.tgt = t,
                               !.at = IF table[t] = None THEN "lock" ELSE "live", !.s = table[t]]
  <2>1. r \in Call /\ Known(r) /\ r.at \in {"lock", "live"}
    BY DEF Call, Places, Ops, Known, TypeOK
  <2> QED BY <1>2, <2>1, Gone DEF ConnectRoute, Begin, Quiet, Out, net
<1>3. CASE StartCommand(c, t)
  <2> DEFINE r == [Idle EXCEPT !.op = "command", !.tgt = t, !.at = "lock"]
  <2>1. r \in Call /\ Known(r) /\ r.at = "lock"
    BY DEF Call, Places, Ops, Known
  <2> QED BY <1>3, <2>1, Gone DEF StartCommand, Begin, Quiet, Out, net
<1>4. CASE Spawn(c, t)
  <2> DEFINE r == [Idle EXCEPT !.op = "spawn", !.tgt = t, !.s = table[t], !.at = "open"]
  <2>1. r \in Call /\ Known(r) /\ r.at = "open"
    BY <1>4 DEF Call, Places, Ops, Known, TypeOK, Spawn
  <2> QED BY <1>4, <2>1, Gone DEF Spawn, Begin, Quiet, Out, net
<1> QED BY <1>1, <1>2, <1>3, <1>4

LEMMA QuietGoesOn ==
  ASSUME Typed, CallKnown, NEW c \in Callers,
         \/ FindLive(c) \/ Realpath(c) \/ Lstat(c) \/ ReadBody(c) \/ ToolFails(c) \/ Answer(c)
         \/ \E kind \in Kinds, how \in Endings : RunCommand(c, kind, how)
  PROVE  Quiet(c)
<1> USE DEF Typed
<1>0. call[c] \in Call /\ Known(call[c])
  BY DEF CallTypes, CallKnown
<1>1. UNCHANGED <<table, tr, listed, kid, lock>> /\ windows \subseteq windows'
  BY DEF FindLive, Realpath, Lstat, ReadBody, ToolFails, Answer, RunCommand, net
<1>2. call[c].at \in {"live", "have", "lstat", "body"}
  BY DEF FindLive, Realpath, Lstat, ReadBody, ToolFails, Answer, RunCommand
<1>3. \/ \E a : Return(c, a)
      \/ call[c].at = "live" /\ Goto(c, [call[c] EXCEPT !.at = "lock"])
      \/ call[c].at = "have" /\ Goto(c, [call[c] EXCEPT !.at = "lstat", !.canon = "in"])
      \/ call[c].at = "lstat" /\ Goto(c, [call[c] EXCEPT !.at = "body"])
  BY DEF FindLive, Realpath, Authorize, Lstat, ReadBody, ToolFails, Answer, RunCommand
<1>4. ASSUME NEW a, Return(c, a) PROVE Quiet(c)
  BY <1>1, <1>2, <1>4, Returned, IdleFacts DEF Quiet, Out
<1>5. CASE call[c].at = "live" /\ Goto(c, [call[c] EXCEPT !.at = "lock"])
  <2> DEFINE r == [call[c] EXCEPT !.at = "lock"]
  <2>1. r \in Call /\ Known(r) /\ r.at = "lock"
    BY <1>0, <1>5 DEF Call, Places, Known
  <2> QED BY <1>1, <1>2, <1>5, <2>1, Gone DEF Quiet, Out
<1>6. CASE call[c].at = "have" /\ Goto(c, [call[c] EXCEPT !.at = "lstat", !.canon = "in"])
  <2> DEFINE r == [call[c] EXCEPT !.at = "lstat", !.canon = "in"]
  <2>1. r \in Call /\ Known(r) /\ r.at = "lstat"
    BY <1>0, <1>6 DEF Call, Places, Known
  <2> QED BY <1>1, <1>2, <1>6, <2>1, Gone DEF Quiet, Out
<1>7. CASE call[c].at = "lstat" /\ Goto(c, [call[c] EXCEPT !.at = "body"])
  <2> DEFINE r == [call[c] EXCEPT !.at = "body"]
  <2>1. r \in Call /\ Known(r) /\ r.at = "body"
    BY <1>0, <1>7 DEF Call, Places, Known
  <2> QED BY <1>1, <1>2, <1>7, <2>1, Gone DEF Quiet, Out
<1> QED BY <1>3, <1>4, <1>5, <1>6, <1>7

LEMMA QuietCloseAll ==
  ASSUME Typed, CallKnown, NEW c \in Callers, CloseAll(c)
  PROVE  Quiet(c)
<1> DEFINE r == [Idle EXCEPT !.op = "close_all", !.at = "all",
                             !.rest = {table[t] : t \in Targets} \ {None}]
<1>0. {table[t] : t \in Targets} \ {None} \in SUBSET Sessions
  BY DEF Typed, TypeOK
<1>1. r \in Call /\ Known(r) /\ r.at = "all"
  BY <1>0, IdleFacts DEF Call, Places, Ops, Known
<1> QED BY <1>1, Gone DEF CloseAll, Begin, Quiet, Out, net, Typed

LEMMA QuietKeeps ==
  ASSUME Typed, Tables, NEW c \in Callers, Quiet(c)
  PROVE  Tables'
<1> USE DEF Typed
<1>1. /\ \A d \in Callers : d # c => call'[d] = call[d]
      /\ UNCHANGED <<table, tr, listed, kid, lock>>
      /\ NoWindow' => NoWindow
      /\ ~Holds(c) /\ ~Holds(c)' /\ call[c].op /= "close_all"
      /\ call[c].at \notin {"kids", "shut"} /\ call'[c].at \notin {"kids", "shut"}
  BY DEF Quiet, Only, Out, Holds, NoWindow, Tables, CallKnown, Known
<1>2. CallKnown' /\ Locked' /\ TableKnown' /\ ListedKnown'
  BY <1>1 DEF Quiet, Tables, CallKnown, Locked, Holds, TableKnown, ListedKnown
<1>3. Watched' /\ Covered'
  BY <1>1 DEF Tables, Watched, Covered, Holds, ChildrenOf
<1>4. \A s : Closers(s)' = Closers(s)
  BY <1>1 DEF Closers
<1>5. NoStrayTransport' /\ ChildHasHost'
  BY <1>1, <1>4 DEF Tables, NoStrayTransport, ChildHasHost, NoWindow, Quiet
<1> QED BY <1>2, <1>3, <1>5 DEF Tables

-----------------------------------------------------------------------------
(* The table of sessions, action by action. *)

\* A call that lets go of its lock takes it from nobody else.
LEMMA StillLocked ==
  ASSUME Typed, Locked, NEW c \in Callers, Only(c), ~Holds(c)', lock' \in {lock, Released(c)}
  PROVE  Locked'
<1> SUFFICES ASSUME NEW d \in Callers, Holds(d)' PROVE lock'[call'[d].tgt] = d
  BY DEF Locked
<1>1. d # c /\ call'[d] = call[d]
  BY DEF Only
<1>2. lock[call[d].tgt] = d /\ call[d].tgt \in Targets
  BY <1>1 DEF Locked, Holds, Typed, CallTypes, Call
<1> QED BY <1>1, <1>2 DEF Released

LEMMA LockKeeps ==
  ASSUME Typed, Tables, NEW c \in Callers, Lock(c)
  PROVE  Only(c) /\ Tables'
<1> USE DEF Typed
<1> DEFINE s == table[call[c].tgt]
           r == [call[c] EXCEPT !.s = s, !.at = IF s = None THEN "dial" ELSE "probe"]
<1>0. call[c] \in Call /\ Known(call[c]) /\ call[c].at = "lock" /\ call[c].tgt \in Targets
  BY DEF CallTypes, Tables, CallKnown, Lock, Call
<1>1. /\ r \in Call /\ Known(r) /\ r.at \in {"probe", "dial"} /\ r.tgt = call[c].tgt
      /\ r.at = "dial" => s = None
      /\ r.at # "dial" => r.s = s
  BY <1>0 DEF TypeOK, Call, Places, Known
<1>2. /\ Only(c) /\ call'[c] = r /\ UNCHANGED <<table, tr, listed, kid, windows>>
      /\ lock[call[c].tgt] = None /\ lock' = [lock EXCEPT ![call[c].tgt] = c]
  BY <1>1, Gone DEF Lock, Enter, net
<1> HIDE DEF r, s
<1>3. \A d \in Callers : d # c => call'[d] = call[d]
  BY <1>2 DEF Only
<1>4. CallKnown' /\ TableKnown' /\ ListedKnown'
  BY <1>1, <1>2, <1>3 DEF Tables, CallKnown, TableKnown, ListedKnown
<1>5. Locked'
  <2> SUFFICES ASSUME NEW d \in Callers, Holds(d)' PROVE lock'[call'[d].tgt] = d
    BY DEF Locked
  <2>1. CASE d = c
    BY <1>0, <1>1, <1>2, <2>1 DEF TypeOK
  <2>2. CASE d # c
    <3>1. lock[call[d].tgt] = d /\ call[d].tgt \in Targets
      BY <1>3, <2>2 DEF Tables, Locked, Holds, CallTypes, Call
    <3>2. call[d].tgt # call[c].tgt
      BY <1>2, <3>1, RemoteConstants
    <3> QED BY <1>2, <1>3, <2>2, <3>1, <3>2 DEF TypeOK
  <2> QED BY <2>1, <2>2
<1>6. Watched'
  BY <1>1, <1>2, <1>3 DEF Tables, Watched, Holds, ChildrenOf, NoWindow, s
<1>7. Covered'
  BY <1>1, <1>2, <1>3 DEF Tables, Covered, ChildrenOf, NoWindow
<1>8. \A q : Closers(q)' = Closers(q)
  BY <1>0, <1>1, <1>2, <1>3 DEF Closers
<1>9. call[c].op /= "close_all"
  BY <1>0 DEF Known
<1>10. NoStrayTransport' /\ ChildHasHost'
  BY <1>2, <1>3, <1>8, <1>9 DEF Tables, NoStrayTransport, ChildHasHost
<1> QED BY <1>2, <1>4, <1>5, <1>6, <1>7, <1>10 DEF Tables

LEMMA ProbeKeeps ==
  ASSUME Typed, Tables, NEW c \in Callers, Probe(c)
  PROVE  Only(c) /\ Tables'
<1> USE DEF Typed
<1>0. /\ call[c] \in Call /\ Known(call[c]) /\ call[c].at = "probe"
      /\ call[c].op \notin {"disconnect", "close_all", "spawn"}
      /\ UNCHANGED <<table, tr, listed, kid>> /\ windows \subseteq windows'
      /\ NoWindow' => NoWindow
      /\ windows' \cap {"keyerror", "late"} = {} => windows \cap {"keyerror", "late"} = {}
  BY DEF CallTypes, Tables, CallKnown, Probe, Known, net, NoWindow
<1>1. CASE Alive(call[c].s)
  <2> DEFINE r == [call[c] EXCEPT !.at = "have"]
  <2>1. r \in Call /\ Known(r) /\ r.at = "have" /\ r.op # "close_all"
    BY <1>0 DEF Call, Places, Known
  <2>2. Only(c) /\ call'[c] = r /\ lock' = Released(c)
    BY <1>1, <2>1, Gone DEF Probe
  <2> HIDE DEF r
  <2>3. \A d \in Callers : d # c => call'[d] = call[d]
    BY <2>2 DEF Only
  <2>4. ~Holds(c)' /\ call'[c].at \notin {"kids", "shut", "dial", "probe"}
    BY <2>1, <2>2 DEF Holds
  <2>5. CallKnown' /\ Locked' /\ TableKnown' /\ ListedKnown'
    BY <1>0, <2>1, <2>2, <2>3, <2>4, StillLocked DEF Tables, CallKnown, TableKnown, ListedKnown
  <2>6. Watched' /\ Covered'
    BY <1>0, <2>3, <2>4 DEF Tables, Watched, Covered, Holds, ChildrenOf
  <2>7. \A q : Closers(q)' = Closers(q)
    BY <1>0, <2>3, <2>4 DEF Closers
  <2>8. NoStrayTransport' /\ ChildHasHost'
    BY <1>0, <2>1, <2>2, <2>3, <2>7 DEF Tables, NoStrayTransport, ChildHasHost, NoWindow
  <2> QED BY <2>2, <2>5, <2>6, <2>8 DEF Tables
<1>2. CASE ~Alive(call[c].s)
  <2> DEFINE r == [call[c] EXCEPT !.at = "kids", !.todo = ChildrenOf(call[c].s)]
  <2>0. ChildrenOf(call[c].s) \subseteq Children
    BY DEF ChildrenOf, TypeOK
  <2>1. /\ r \in Call /\ Known(r) /\ r.at = "kids" /\ r.op = call[c].op /\ r.s = call[c].s
        /\ r.tgt = call[c].tgt /\ r.todo = ChildrenOf(r.s)
    BY <1>0, <2>0 DEF Call, Places, Known
  <2>2. Only(c) /\ call'[c] = r /\ UNCHANGED <<lock, windows>>
    BY <1>2, <2>1, Gone DEF Probe
  <2> HIDE DEF r
  <2>3. \A d \in Callers : d # c => call'[d] = call[d]
    BY <2>2 DEF Only
  <2>4. \A d \in Callers : Holds(d)' => Holds(d) /\ call'[d].tgt = call[d].tgt
    BY <1>0, <2>1, <2>2, <2>3 DEF Holds
  <2>5. CallKnown' /\ Locked' /\ TableKnown' /\ ListedKnown'
    BY <1>0, <2>1, <2>2, <2>3, <2>4 DEF Tables, CallKnown, Locked, TableKnown, ListedKnown
  <2>6. Watched'
    BY <1>0, <2>1, <2>2, <2>3, <2>4 DEF Tables, Watched, ChildrenOf
  <2>7. Covered'
    BY <1>0, <2>1, <2>2, <2>3 DEF Tables, Covered, ChildrenOf
  <2>8. \A q : Closers(q) \subseteq Closers(q)'
    BY <1>0, <2>1, <2>2, <2>3 DEF Closers
  <2>9. NoStrayTransport' /\ ChildHasHost'
    BY <1>0, <2>1, <2>2, <2>3, <2>8 DEF Tables, NoStrayTransport, ChildHasHost
  <2> QED BY <2>2, <2>5, <2>6, <2>7, <2>9 DEF Tables
<1> QED BY <1>1, <1>2

LEMMA DialKeeps ==
  ASSUME Typed, Tables, NEW c \in Callers, NEW n \in Sessions, Dial(c, n)
  PROVE  Only(c) /\ Tables'
<1> USE DEF Typed
<1> DEFINE r == [call[c] EXCEPT !.at = "have", !.s = n]
           t == call[c].tgt
<1>0. /\ call[c] \in Call /\ Known(call[c]) /\ call[c].at = "dial" /\ t \in Targets
      /\ tr[n].st = "unborn" /\ Holds(c) /\ lock[t] = c
  BY DEF CallTypes, Tables, CallKnown, Dial, Call, Holds, Locked
<1>1. r \in Call /\ Known(r) /\ r.at = "have" /\ r.op # "close_all" /\ call[c].op # "close_all"
  BY <1>0 DEF Call, Places, Known
<1>2. /\ Only(c) /\ call'[c] = r /\ lock' = Released(c) /\ UNCHANGED <<listed, kid, windows>>
  BY <1>1, Gone DEF Dial
<1> HIDE DEF r
<1>3. \A d \in Callers : d # c => call'[d] = call[d]
  BY <1>2 DEF Only
<1>4. ~Holds(c)' /\ call'[c].at \notin {"kids", "shut"}
  BY <1>1, <1>2 DEF Holds
<1>5. /\ tr' = [tr EXCEPT ![n] = [tgt |-> t, st |-> "open"]] /\ tr'[n] = [tgt |-> t, st |-> "open"]
      /\ \A q \in Sessions : q # n => tr'[q] = tr[q]
      /\ table'[t] = n /\ \A u \in Targets : u # t => table'[u] = table[u]
  BY <1>0 DEF Dial, TypeOK
<1>6. \A u \in Targets : table[u] # n /\ table[u] \in Sessions \cup {None}
  BY <1>0 DEF Tables, TableKnown, TypeOK, None, Sessions
<1>7. CallKnown' /\ Locked' /\ ListedKnown'
  BY <1>1, <1>2, <1>3, <1>4, StillLocked DEF Tables, CallKnown, ListedKnown
<1>8. TableKnown'
  BY <1>0, <1>5, <1>6 DEF Tables, TableKnown
<1>9. \A d \in Callers : Holds(d)' => d # c /\ Holds(d) /\ call[d].tgt # t /\ call[d].tgt \in Targets
  BY <1>0, <1>3, <1>4 DEF Tables, Holds, Locked, CallTypes, Call
<1>10. Watched'
  BY <1>2, <1>3, <1>5, <1>6, <1>9 DEF Tables, Watched, ChildrenOf, NoWindow
<1>11. Covered'
  BY <1>2, <1>3, <1>4 DEF Tables, Covered, ChildrenOf, NoWindow
<1>12. \A q : Closers(q)' = Closers(q)
  BY <1>0, <1>3, <1>4 DEF Closers
<1>13. table[t] = None \/ (tr[table[t]].st = "closed" /\ (NoWindow => ChildrenOf(table[t]) = {}))
  BY <1>0 DEF Tables, Watched
<1>14. NoStrayTransport'
  <2> SUFFICES ASSUME windows \cap {"keyerror", "late"} = {}, NEW q \in Sessions,
                      tr'[q].st \in {"open", "dead"}, q # n
               PROVE  \/ table'[tr'[q].tgt] = q \/ Closers(q)' /= {}
                      \/ \E d \in Callers : call'[d].op = "close_all" /\ q \in call'[d].rest
    BY <1>2, <1>5 DEF NoStrayTransport
  <2>1. tr[q].st \in {"open", "dead"} /\ tr'[q].tgt = tr[q].tgt /\ tr[q].tgt \in Targets
    BY <1>5 DEF TypeOK, HostSession
  <2>2. CASE table[tr[q].tgt] = q
    BY <1>5, <1>13, <2>1, <2>2 DEF None, Sessions
  <2>3. CASE table[tr[q].tgt] # q
    BY <1>1, <1>3, <1>12, <2>1, <2>3 DEF Tables, NoStrayTransport
  <2> QED BY <2>2, <2>3
<1>15. ChildHasHost'
  <2> SUFFICES ASSUME NoWindow, NEW k \in listed, NEW h, h = kid[k].host
               PROVE  (\E u \in Targets : table'[u] = h) \/ Closers(h)' /= {}
    BY <1>2 DEF ChildHasHost, NoWindow
  <2>1. CASE \E u \in Targets : table[u] = h
    <3>1. PICK u \in Targets : table[u] = h
      BY <2>1
    <3>2. u # t
      BY <1>13, <3>1 DEF ChildrenOf, Tables, ListedKnown, None, Sessions
    <3> QED BY <1>5, <3>1, <3>2
  <2>2. CASE ~\E u \in Targets : table[u] = h
    <3>1. Closers(h) /= {}
      BY <2>2 DEF Tables, ChildHasHost, NoWindow
    <3> QED BY <1>12, <3>1
  <2> QED BY <2>1, <2>2
<1> QED BY <1>2, <1>7, <1>8, <1>10, <1>11, <1>14, <1>15 DEF Tables

\* The block is left by an exception, from the dial or from a child.
LEMMA RaiseKeeps ==
  ASSUME Typed, Tables, NEW c \in Callers, Raise(c), UNCHANGED net,
         windows \subseteq windows', call[c].op # "spawn", call[c].at \in {"dial", "kids"},
         call[c].at = "kids" => "keyerror" \in windows'
  PROVE  Only(c) /\ Tables'
<1> USE DEF Typed
<1>1. /\ Only(c) /\ call'[c] = Idle /\ lock' = Released(c) /\ UNCHANGED <<table, tr, listed, kid>>
  BY Returned DEF Raise, net
<1>2. \A d \in Callers : d # c => call'[d] = call[d]
  BY <1>1 DEF Only
<1>3. ~Holds(c)' /\ call'[c].at \notin {"kids", "shut"}
  BY <1>1, IdleFacts DEF Holds
<1>4. /\ NoWindow' => NoWindow /\ call[c].at = "dial"
      /\ windows' \cap {"keyerror", "late"} = {} =>
           windows \cap {"keyerror", "late"} = {} /\ call[c].at = "dial"
  BY DEF NoWindow
<1>5. CallKnown' /\ Locked' /\ TableKnown' /\ ListedKnown'
  BY <1>1, <1>2, <1>3, IdleFacts, StillLocked DEF Tables, CallKnown, TableKnown, ListedKnown
<1>6. Watched' /\ Covered'
  BY <1>1, <1>2, <1>3, <1>4 DEF Tables, Watched, Covered, Holds, ChildrenOf
<1>7. call[c].at = "dial" => call[c].op # "close_all" /\ \A q : Closers(q)' = Closers(q)
  BY <1>2, <1>3 DEF Closers, Tables, CallKnown, Known
<1>8. NoStrayTransport' /\ ChildHasHost'
  BY <1>1, <1>2, <1>4, <1>7 DEF Tables, NoStrayTransport, ChildHasHost, NoWindow
<1> QED BY <1>1, <1>5, <1>6, <1>8 DEF Tables

LEMMA CloseChildrenKeeps ==
  ASSUME Typed, Tables, NEW c \in Callers, CloseChildren(c)
  PROVE  Only(c) /\ Tables'
<1> USE DEF Typed
<1>0. /\ call[c] \in Call /\ Known(call[c]) /\ call[c].at = "kids" /\ UNCHANGED <<table, tr>>
      /\ call[c].op # "spawn"
  BY DEF CallTypes, Tables, CallKnown, CloseChildren, Known
<1>1. CASE call[c].todo = {}
  <2> DEFINE r == [call[c] EXCEPT !.at = "shut"]
  <2>1. /\ r \in Call /\ Known(r) /\ r.at = "shut" /\ r.op = call[c].op /\ r.s = call[c].s
        /\ r.tgt = call[c].tgt /\ r.rest = call[c].rest
    BY <1>0 DEF Call, Places, Known
  <2>2. Only(c) /\ call'[c] = r /\ UNCHANGED <<listed, kid, lock, windows>>
    BY <1>1, <2>1, Gone DEF CloseChildren
  <2> HIDE DEF r
  <2>3. \A d \in Callers : d # c => call'[d] = call[d]
    BY <2>2 DEF Only
  <2>4. \A d \in Callers : /\ Holds(d)' => Holds(d)
                           /\ call'[d].tgt = call[d].tgt /\ call'[d].s = call[d].s
                           /\ call'[d].op = call[d].op /\ call'[d].rest = call[d].rest
    BY <1>0, <2>1, <2>2, <2>3 DEF Holds
  <2>5. CallKnown' /\ Locked' /\ TableKnown' /\ ListedKnown'
    BY <1>0, <2>1, <2>2, <2>3, <2>4 DEF Tables, CallKnown, Locked, TableKnown, ListedKnown
  <2>6. Watched'
    BY <1>0, <2>1, <2>2, <2>3, <2>4 DEF Tables, Watched, ChildrenOf, NoWindow
  <2>7. Covered'
    BY <1>0, <1>1, <2>1, <2>2, <2>3 DEF Tables, Covered, ChildrenOf, NoWindow
  <2>8. \A q : Closers(q)' = Closers(q)
    BY <1>0, <2>1, <2>2, <2>3 DEF Closers
  <2>9. NoStrayTransport' /\ ChildHasHost'
    BY <1>0, <2>2, <2>4, <2>8 DEF Tables, NoStrayTransport, ChildHasHost
  <2> QED BY <2>2, <2>5, <2>6, <2>7, <2>9 DEF Tables
<1>2. ASSUME NEW k, PopChild(c, k), k \notin listed PROVE Only(c) /\ Tables'
  BY <1>0, <1>2, RaiseKeeps DEF PopChild, net
<1>3. ASSUME NEW k \in listed, PopChild(c, k) PROVE Only(c) /\ Tables'
  <2> DEFINE r == [call[c] EXCEPT !.todo = @ \ {k}]
  <2>1. /\ r \in Call /\ Known(r) /\ r.at = "kids" /\ r.op = call[c].op /\ r.s = call[c].s
        /\ r.tgt = call[c].tgt /\ r.rest = call[c].rest /\ r.todo = call[c].todo \ {k}
    BY <1>0, IdleFacts DEF Call, Places, Known
  <2>2. /\ Only(c) /\ call'[c] = r /\ UNCHANGED <<lock, windows>>
        /\ listed' = listed \ {k} /\ kid' = [kid EXCEPT ![k].st = "closed"]
    BY <1>3, <2>1, Gone DEF PopChild
  <2> HIDE DEF r
  <2>3. \A d \in Callers : d # c => call'[d] = call[d]
    BY <2>2 DEF Only
  <2>4. \A d \in Callers : /\ Holds(d)' => Holds(d) /\ call'[d].at = call[d].at
                           /\ call'[d].tgt = call[d].tgt /\ call'[d].s = call[d].s
                           /\ call'[d].op = call[d].op /\ call'[d].rest = call[d].rest
    BY <1>0, <2>1, <2>2, <2>3 DEF Holds
  <2>5. \A j \in listed' : kid'[j] = kid[j] /\ j \in listed /\ j # k
    BY <2>2 DEF TypeOK
  <2>6. \A q : ChildrenOf(q)' = ChildrenOf(q) \ {k}
    BY <2>2, <2>5 DEF ChildrenOf
  <2>7. CallKnown' /\ Locked' /\ TableKnown' /\ ListedKnown'
    BY <1>0, <2>1, <2>2, <2>3, <2>4, <2>5 DEF Tables, CallKnown, Locked, TableKnown, ListedKnown
  <2>8. Watched'
    BY <1>0, <2>2, <2>4, <2>6 DEF Tables, Watched, NoWindow
  <2>9. Covered'
    BY <1>0, <2>1, <2>2, <2>3, <2>6 DEF Tables, Covered, NoWindow
  <2>10. \A q : Closers(q)' = Closers(q)
    BY <1>0, <2>1, <2>2, <2>3 DEF Closers
  <2>11. NoStrayTransport' /\ ChildHasHost'
    BY <1>0, <2>2, <2>4, <2>5, <2>10 DEF Tables, NoStrayTransport, ChildHasHost
  <2> QED BY <2>2, <2>7, <2>8, <2>9, <2>11 DEF Tables
<1> QED BY <1>1, <1>2, <1>3 DEF CloseChildren

LEMMA CloseTransportKeeps ==
  ASSUME Typed, Tables, NEW c \in Callers, CloseTransport(c)
  PROVE  Only(c) /\ Tables'
<1> USE DEF Typed
<1> DEFINE s == call[c].s
           r == IF call[c].op = "disconnect" THEN Idle
                ELSE [call[c] EXCEPT !.at = IF call[c].op = "close_all" THEN "all" ELSE "dial"]
<1>0. /\ call[c] \in Call /\ Known(call[c]) /\ call[c].at = "shut" /\ s \in Sessions
      /\ call[c].op # "spawn" /\ UNCHANGED <<table, listed, kid, lock, windows>>
  BY DEF CallTypes, Tables, CallKnown, CloseTransport, Known
<1>1. /\ r \in Call /\ Known(r) /\ r.at \in {"idle", "all", "dial"}
      /\ r.at = "dial" <=> Holds(c)
      /\ r.at = "dial" => r.tgt = call[c].tgt
      /\ call[c].op = "close_all" => r.op = "close_all" /\ r.rest = call[c].rest
  BY <1>0, IdleFacts DEF Call, Places, Known, Holds
<1>2. Only(c) /\ call'[c] = r
  BY <1>1, Gone, Returned DEF CloseTransport
<1> HIDE DEF r, s
<1>3. \A d \in Callers : d # c => call'[d] = call[d]
  BY <1>2 DEF Only
<1>4. /\ tr'[s].st = "closed" /\ tr'[s].tgt = tr[s].tgt
      /\ \A q \in Sessions : q # s => tr'[q] = tr[q]
  BY <1>0 DEF CloseTransport, TypeOK, HostSession, s
<1>5. \A d \in Callers : Holds(d)' => Holds(d) /\ call'[d].tgt = call[d].tgt
  BY <1>1, <1>2, <1>3 DEF Holds
<1>6. CallKnown' /\ Locked' /\ ListedKnown'
  BY <1>0, <1>1, <1>2, <1>3, <1>5 DEF Tables, CallKnown, Locked, ListedKnown
<1>7. TableKnown'
  BY <1>0, <1>4 DEF Tables, TableKnown, TypeOK
<1>8. NoWindow => ChildrenOf(s) = {}
  BY <1>0 DEF Tables, Covered, s
<1>9. Watched'
  <2> SUFFICES ASSUME NEW d \in Callers, Holds(d)', table[call[d].tgt] # None
               PROVE  LET q == table[call[d].tgt]
                      IN \/ call'[d].at /= "dial" /\ call'[d].s = q
                         \/ /\ call'[d].at = "dial" /\ tr'[q].st = "closed"
                            /\ NoWindow => ChildrenOf(q) = {}
    BY <1>0, <1>5 DEF Watched, NoWindow, ChildrenOf
  <2>1. table[call[d].tgt] \in Sessions
    BY DEF TypeOK, CallTypes, Call
  <2>2. CASE d = c
    BY <1>0, <1>1, <1>2, <1>4, <1>5, <1>8, <2>2 DEF Tables, Watched, Holds, s
  <2>3. CASE d # c
    BY <1>3, <1>4, <1>5, <2>1, <2>3 DEF Tables, Watched
  <2> QED BY <2>2, <2>3
<1>10. Covered'
  BY <1>0, <1>1, <1>2, <1>3 DEF Tables, Covered, ChildrenOf, NoWindow
<1>11. \A q : q # s => Closers(q) \subseteq Closers(q)'
  BY <1>3 DEF Closers, s
<1>12. NoStrayTransport'
  <2> SUFFICES ASSUME windows \cap {"keyerror", "late"} = {}, NEW q \in Sessions,
                      tr'[q].st \in {"open", "dead"}
               PROVE  \/ table[tr[q].tgt] = q \/ Closers(q)' /= {}
                      \/ \E d \in Callers : call'[d].op = "close_all" /\ q \in call'[d].rest
    BY <1>0, <1>4 DEF NoStrayTransport
  <2>1. q # s /\ tr'[q] = tr[q]
    BY <1>4
  <2>2. \/ table[tr[q].tgt] = q \/ Closers(q) /= {}
        \/ \E d \in Callers : call[d].op = "close_all" /\ q \in call[d].rest
    BY <2>1 DEF Tables, NoStrayTransport
  <2>3. ASSUME NEW d \in Callers, call[d].op = "close_all", q \in call[d].rest
        PROVE  call'[d].op = "close_all" /\ q \in call'[d].rest
    BY <1>1, <1>2, <1>3, <2>3
  <2> QED BY <1>11, <2>1, <2>2, <2>3
<1>13. ChildHasHost'
  <2> SUFFICES ASSUME NoWindow, NEW k \in listed, NEW h, h = kid[k].host
               PROVE  (\E u \in Targets : table[u] = h) \/ Closers(h)' /= {}
    BY <1>0 DEF ChildHasHost, NoWindow
  <2>1. h # s
    BY <1>8 DEF ChildrenOf
  <2>2. (\E u \in Targets : table[u] = h) \/ Closers(h) /= {}
    BY DEF Tables, ChildHasHost, NoWindow
  <2> QED BY <1>11, <2>1, <2>2
<1> QED BY <1>2, <1>6, <1>7, <1>9, <1>10, <1>12, <1>13 DEF Tables

LEMMA DisconnectKeeps ==
  ASSUME Typed, Tables, NEW c \in Callers, NEW t \in Targets, Disconnect(c, t)
  PROVE  Only(c) /\ Tables'
<1> USE DEF Typed
<1> DEFINE s == table[t]
           r == [Idle EXCEPT !.op = "disconnect", !.tgt = t, !.s = s, !.at = "kids",
                             !.todo = ChildrenOf(s)]
<1>0. /\ call[c] = Idle /\ s \in Sessions /\ UNCHANGED <<tr, listed, kid, lock, windows>>
      /\ table'[t] = None /\ \A u \in Targets : u # t => table'[u] = table[u]
  BY DEF Disconnect, Begin, TypeOK, Tables, CallKnown, Known
<1>1. /\ r \in Call /\ Known(r) /\ r.at = "kids" /\ r.op = "disconnect" /\ r.s = s
      /\ r.todo = ChildrenOf(s)
  <2>1. ChildrenOf(s) \in SUBSET Children
    BY DEF ChildrenOf, TypeOK
  <2> QED BY <1>0, <2>1, IdleFacts DEF Call, Places, Ops, Known
<1>2. Only(c) /\ call'[c] = r
  BY <1>1, Gone DEF Disconnect
<1> HIDE DEF r, s
<1>3. \A d \in Callers : d # c => call'[d] = call[d]
  BY <1>2 DEF Only
<1>4. \A d \in Callers : Holds(d)' => d # c /\ Holds(d)
  BY <1>1, <1>2, <1>3 DEF Holds
<1>5. CallKnown' /\ Locked' /\ ListedKnown'
  BY <1>0, <1>1, <1>2, <1>3, <1>4 DEF Tables, CallKnown, Locked, ListedKnown
<1>6. TableKnown'
  BY <1>0 DEF Tables, TableKnown
<1>7. Watched'
  BY <1>0, <1>3, <1>4 DEF Tables, Watched, ChildrenOf, NoWindow, CallTypes, Call
<1>8. Covered'
  BY <1>0, <1>1, <1>2, <1>3 DEF Tables, Covered, ChildrenOf, NoWindow
<1>9. (\A q : Closers(q) \subseteq Closers(q)') /\ (\A q : q = s => c \in Closers(q)')
  BY <1>0, <1>1, <1>2, <1>3, IdleFacts DEF Closers
<1>10. \A u \in Targets : \A q : table[u] = q => table'[u] = q \/ Closers(q)' /= {}
  BY <1>0, <1>9 DEF s
<1>11. NoStrayTransport'
  <2> SUFFICES ASSUME windows \cap {"keyerror", "late"} = {}, NEW q \in Sessions,
                      tr[q].st \in {"open", "dead"}
               PROVE  \/ table'[tr[q].tgt] = q \/ Closers(q)' /= {}
                      \/ \E d \in Callers : call'[d].op = "close_all" /\ q \in call'[d].rest
    BY <1>0 DEF NoStrayTransport
  <2>1. tr[q].tgt \in Targets
    BY DEF TypeOK, HostSession
  <2>2. \/ table[tr[q].tgt] = q \/ Closers(q) /= {}
        \/ \E d \in Callers : call[d].op = "close_all" /\ q \in call[d].rest
    BY DEF Tables, NoStrayTransport
  <2>3. ASSUME NEW d \in Callers, call[d].op = "close_all", q \in call[d].rest
        PROVE  call'[d].op = "close_all" /\ q \in call'[d].rest
    BY <1>0, <1>3, <2>3, IdleFacts
  <2> QED BY <1>9, <1>10, <2>1, <2>2, <2>3
<1>12. ChildHasHost'
  <2> SUFFICES ASSUME NoWindow, NEW k \in listed, NEW h, h = kid[k].host
               PROVE  (\E u \in Targets : table'[u] = h) \/ Closers(h)' /= {}
    BY <1>0 DEF ChildHasHost, NoWindow
  <2>1. (\E u \in Targets : table[u] = h) \/ Closers(h) /= {}
    BY DEF Tables, ChildHasHost, NoWindow
  <2> QED BY <1>9, <1>10, <2>1
<1> QED BY <1>2, <1>5, <1>6, <1>7, <1>8, <1>11, <1>12 DEF Tables

LEMMA NextToCloseKeeps ==
  ASSUME Typed, Tables, NEW c \in Callers, NextToClose(c)
  PROVE  Only(c) /\ Tables'
<1> USE DEF Typed
<1> DEFINE s == CHOOSE q \in call[c].rest : TRUE
           r == [call[c] EXCEPT !.s = s, !.rest = @ \ {s}, !.at = "kids", !.todo = ChildrenOf(s)]
<1>0. /\ call[c] \in Call /\ Known(call[c]) /\ call[c].at = "all" /\ call[c].op = "close_all"
      /\ UNCHANGED <<table, tr, listed, kid, lock, windows>> /\ call[c].rest # {}
  BY DEF CallTypes, Tables, CallKnown, NextToClose, Known, net
<1>1. s \in call[c].rest
  BY <1>0
<1>2. Goto(c, r)
  BY DEF NextToClose
<1> HIDE DEF s
<1>3. /\ r \in Call /\ Known(r) /\ r.at = "kids" /\ r.op = "close_all" /\ r.s = s
      /\ r.rest = call[c].rest \ {s} /\ r.todo = ChildrenOf(s)
  <2>1. ChildrenOf(s) \in SUBSET Children /\ s \in Sessions
    BY <1>0, <1>1 DEF ChildrenOf, TypeOK, Call
  <2> QED BY <1>0, <2>1, IdleFacts DEF Call, Places, Ops, Known
<1>4. Only(c) /\ call'[c] = r
  BY <1>2, <1>3, Gone
<1> HIDE DEF r
<1>5. \A d \in Callers : d # c => call'[d] = call[d]
  BY <1>4 DEF Only
<1>6. \A d \in Callers : Holds(d)' => d # c /\ Holds(d)
  BY <1>3, <1>4, <1>5 DEF Holds
<1>7. CallKnown' /\ Locked' /\ ListedKnown' /\ TableKnown'
  BY <1>0, <1>3, <1>4, <1>5, <1>6 DEF Tables, CallKnown, Locked, ListedKnown, TableKnown
<1>8. Watched' /\ Covered'
  <2>1. Watched'
    BY <1>0, <1>5, <1>6 DEF Tables, Watched, ChildrenOf, NoWindow
  <2>2. Covered'
    BY <1>0, <1>3, <1>4, <1>5 DEF Tables, Covered, ChildrenOf, NoWindow
  <2> QED BY <2>1, <2>2
<1>9. (\A q : Closers(q) \subseteq Closers(q)') /\ (\A q : q = s => c \in Closers(q)')
  BY <1>0, <1>3, <1>4, <1>5 DEF Closers
<1>10. NoStrayTransport'
  <2> SUFFICES ASSUME NEW q \in Sessions,
                      \E d \in Callers : call[d].op = "close_all" /\ q \in call[d].rest
               PROVE  \/ Closers(q)' /= {}
                      \/ \E d \in Callers : call'[d].op = "close_all" /\ q \in call'[d].rest
    BY <1>0, <1>9 DEF Tables, NoStrayTransport
  <2>1. CASE q = s
    BY <1>9, <2>1
  <2>2. CASE q # s
    BY <1>3, <1>4, <1>5, <2>2
  <2> QED BY <2>1, <2>2
<1>11. ChildHasHost'
  BY <1>0, <1>9 DEF Tables, ChildHasHost
<1> QED BY <1>4, <1>7, <1>8, <1>10, <1>11 DEF Tables

LEMMA ClearTablesKeeps ==
  ASSUME Typed, Tables, NEW c \in Callers, ClearTables(c)
  PROVE  Only(c) /\ Tables'
<1> USE DEF Typed
<1>0. /\ UNCHANGED <<tr, kid, lock>> /\ listed' = {} /\ \A t \in Targets : table'[t] = None
      /\ (\E s \in Sessions : tr[s].st \in {"open", "dead"}) => "late" \in windows'
  BY DEF ClearTables
<1>1. Only(c) /\ call'[c] = Idle
  BY Returned DEF ClearTables
<1>2. \A d \in Callers : d # c => call'[d] = call[d]
  BY <1>1 DEF Only
<1>3. \A d \in Callers : Holds(d)' => d # c /\ Holds(d)
  BY <1>1, <1>2, IdleFacts DEF Holds
<1>4. CallKnown' /\ Locked' /\ ListedKnown' /\ TableKnown'
  BY <1>0, <1>1, <1>2, <1>3, IdleFacts DEF Tables, CallKnown, Locked, ListedKnown, TableKnown
<1>5. Watched'
  BY <1>0, <1>2, <1>3 DEF Watched, CallTypes, Call
<1>6. Covered' /\ ChildHasHost'
  BY <1>0 DEF Covered, ChildrenOf, ChildHasHost
<1>7. NoStrayTransport'
  BY <1>0 DEF NoStrayTransport
<1> QED BY <1>1, <1>4, <1>5, <1>6, <1>7 DEF Tables

LEMMA OpenChildKeeps ==
  ASSUME Typed, Tables, NEW c \in Callers, NEW k \in Children, OpenChild(c, k)
  PROVE  Only(c) /\ Tables'
<1> USE DEF Typed
<1> DEFINE s == call[c].s
<1>0. /\ call[c] \in Call /\ Known(call[c]) /\ call[c].at = "open" /\ s \in Sessions
      /\ call[c].op = "spawn" /\ UNCHANGED <<table, tr, lock>> /\ windows \subseteq windows'
  BY DEF CallTypes, Tables, CallKnown, OpenChild, Known
<1>1. Only(c) /\ call'[c] = Idle
  BY Returned DEF OpenChild
<1>2. CASE tr[s].st # "open"
  <2>1. Quiet(c)
    BY <1>0, <1>1, <1>2, IdleFacts DEF OpenChild, Quiet, Out
  <2> QED BY <1>1, <2>1, QuietKeeps
<1>3. CASE tr[s].st = "open"
  <2>1. /\ listed' = listed \cup {k} /\ kid' = [kid EXCEPT ![k] = [host |-> s, st |-> "open"]]
        /\ kid[k].st = "unborn"
        /\ (\E t \in Targets : table[t] = s /\ Closers(s) = {}) \/ "orphan" \in windows'
    BY <1>3 DEF OpenChild
  <2> HIDE DEF s
  <2>2. \A d \in Callers : d # c => call'[d] = call[d]
    BY <1>1 DEF Only
  <2>3. \A d \in Callers : Holds(d)' => d # c /\ Holds(d)
    BY <1>1, <2>2, IdleFacts DEF Holds
  <2>4. /\ k \notin listed /\ kid'[k] = [host |-> s, st |-> "open"]
        /\ \A j \in listed : kid'[j] = kid[j]
    BY <2>1 DEF Tables, ListedKnown, TypeOK
  <2>5. \A q : q # s => ChildrenOf(q)' = ChildrenOf(q)
    BY <2>1, <2>4 DEF ChildrenOf
  <2>6. CallKnown' /\ Locked' /\ ListedKnown' /\ TableKnown'
    BY <1>0, <1>1, <2>1, <2>2, <2>3, <2>4, IdleFacts
    DEF Tables, CallKnown, Locked, ListedKnown, TableKnown
  <2>7. (NoWindow' => NoWindow /\ \E t \in Targets : table[t] = s /\ Closers(s) = {})
        /\ (windows' \cap {"keyerror", "late"} = {} => windows \cap {"keyerror", "late"} = {})
    BY <1>0, <2>1 DEF NoWindow
  <2>8. Watched'
    <3> SUFFICES ASSUME NEW d \in Callers, Holds(d)', table[call[d].tgt] # None,
                        call[d].at = "dial", NEW q, q = table[call[d].tgt]
                 PROVE  tr[q].st = "closed" /\ (NoWindow' => ChildrenOf(q)' = {})
      BY <1>0, <2>2, <2>3 DEF Watched, Tables
    <3>1. tr[q].st = "closed" /\ (NoWindow => ChildrenOf(q) = {})
      BY <2>3 DEF Tables, Watched
    <3> QED BY <1>3, <2>5, <2>7, <3>1 DEF s
  <2>9. Covered'
    <3> SUFFICES ASSUME NoWindow', NEW d \in Callers, call'[d].at \in {"kids", "shut"},
                        NEW q, q = call'[d].s
                 PROVE  /\ call'[d].at = "kids" => ChildrenOf(q)' \subseteq call'[d].todo
                        /\ call'[d].at = "shut" => ChildrenOf(q)' = {}
      BY DEF Covered
    <3>1. d # c /\ call'[d] = call[d]
      BY <1>1, <2>2, IdleFacts
    <3>2. q # s
      BY <2>7, <3>1 DEF Closers
    <3> QED BY <2>5, <2>7, <3>1, <3>2 DEF Tables, Covered
  <2>10. \A q : Closers(q)' = Closers(q)
    BY <1>0, <1>1, <2>2, IdleFacts DEF Closers
  <2>11. NoStrayTransport'
    BY <1>0, <2>2, <2>7, <2>10 DEF Tables, NoStrayTransport
  <2>12. ChildHasHost'
    <3> SUFFICES ASSUME NoWindow', NEW j \in listed \cup {k}, NEW h, h = kid'[j].host
                 PROVE  (\E u \in Targets : table[u] = h) \/ Closers(h)' /= {}
      BY <1>0, <2>1 DEF ChildHasHost, NoWindow
    <3>1. CASE j = k
      BY <2>4, <2>7, <3>1
    <3>2. CASE j \in listed
      <4>1. (\E u \in Targets : table[u] = h) \/ Closers(h) /= {}
        BY <2>4, <2>7, <3>2 DEF Tables, ChildHasHost, NoWindow
      <4> QED BY <2>10, <4>1
    <3> QED BY <3>1, <3>2
  <2> QED BY <1>1, <2>6, <2>8, <2>9, <2>11, <2>12 DEF Tables
<1> QED BY <1>2, <1>3

LEMMA CloseChildKeeps ==
  ASSUME Typed, Tables, NEW c \in Callers, NEW k \in Children, CloseChild(c, k)
  PROVE  call' = call /\ Tables'
<1> USE DEF Typed
<1>1. /\ UNCHANGED <<table, tr, lock, call, windows>>
      /\ listed' = listed \ {k} /\ kid' = [kid EXCEPT ![k].st = "closed"]
  BY DEF CloseChild
<1>2. \A j \in listed' : kid'[j] = kid[j] /\ j \in listed
  BY <1>1 DEF TypeOK
<1>3. (\A q : ChildrenOf(q)' \subseteq ChildrenOf(q)) /\ (\A q : Closers(q)' = Closers(q))
  BY <1>1, <1>2 DEF ChildrenOf, Closers
<1>4. \A d \in Callers : Holds(d)' = Holds(d)
  BY <1>1 DEF Holds
<1>5. CallKnown' /\ Locked' /\ ListedKnown' /\ TableKnown'
  BY <1>1, <1>2, <1>4 DEF Tables, CallKnown, Locked, ListedKnown, TableKnown
<1>6. Watched'
  <2> SUFFICES ASSUME NEW d \in Callers, Holds(d), table[call[d].tgt] # None,
                      call[d].at = "dial", NEW q, q = table[call[d].tgt]
               PROVE  tr[q].st = "closed" /\ (NoWindow => ChildrenOf(q)' = {})
    BY <1>1, <1>4 DEF Watched, NoWindow, Tables
  <2> QED BY <1>3 DEF Tables, Watched
<1>7. Covered'
  <2> SUFFICES ASSUME NoWindow, NEW d \in Callers, NEW q, q = call[d].s
               PROVE  /\ call[d].at = "kids" => ChildrenOf(q)' \subseteq call[d].todo
                      /\ call[d].at = "shut" => ChildrenOf(q)' = {}
    BY <1>1 DEF Covered, NoWindow
  <2> QED BY <1>3 DEF Tables, Covered
<1>8. NoStrayTransport'
  BY <1>1, <1>3 DEF Tables, NoStrayTransport
<1>9. ChildHasHost'
  <2> SUFFICES ASSUME NoWindow, NEW j \in listed', NEW h, h = kid[j].host
               PROVE  (\E u \in Targets : table[u] = h) \/ Closers(h)' /= {}
    BY <1>1, <1>2 DEF ChildHasHost, NoWindow
  <2>1. (\E u \in Targets : table[u] = h) \/ Closers(h) /= {}
    BY <1>2 DEF Tables, ChildHasHost, NoWindow
  <2> QED BY <1>3, <2>1
<1> QED BY <1>1, <1>5, <1>6, <1>7, <1>8, <1>9 DEF Tables

LEMMA LoseKeeps ==
  ASSUME Typed, Tables, NEW s \in Sessions, Lose(s)
  PROVE  call' = call /\ Tables'
<1> USE DEF Typed
<1>1. /\ UNCHANGED <<table, listed, kid, lock, call, windows>> /\ tr[s].st = "open"
      /\ tr' = [tr EXCEPT ![s].st = "dead"]
  BY DEF Lose
<1>2. \A q \in Sessions : tr'[q].tgt = tr[q].tgt /\ (q # s => tr'[q] = tr[q])
  BY <1>1 DEF TypeOK, HostSession
<1>3. tr'[s].st = "dead"
  BY <1>1 DEF TypeOK, HostSession
<1>4. CallKnown' /\ Locked' /\ ListedKnown' /\ Covered' /\ ChildHasHost'
  BY <1>1 DEF Tables, CallKnown, Locked, Holds, ListedKnown, Covered, ChildrenOf, NoWindow,
     ChildHasHost, Closers
<1>5. TableKnown'
  BY <1>1, <1>2, <1>3 DEF Tables, TableKnown, TypeOK
<1>6. Watched'
  BY <1>1, <1>2 DEF Tables, Watched, Holds, ChildrenOf, NoWindow, TypeOK, CallTypes, Call
<1>7. NoStrayTransport'
  BY <1>1, <1>2 DEF Tables, NoStrayTransport, Closers
<1> QED BY <1>1, <1>4, <1>5, <1>6, <1>7 DEF Tables

\* An approval, a link on the host, a request: nothing of this is about sessions.
LEMMA StillKeeps ==
  ASSUME Tables, UNCHANGED <<table, tr, listed, kid, lock, call>>, windows \subseteq windows'
  PROVE  Tables'
<1>1. /\ NoWindow' => NoWindow
      /\ windows' \cap {"keyerror", "late"} = {} => windows \cap {"keyerror", "late"} = {}
  BY DEF NoWindow
<1>2. CallKnown' /\ Locked' /\ ListedKnown' /\ TableKnown'
  BY DEF Tables, CallKnown, Locked, Holds, ListedKnown, TableKnown
<1>3. Watched' /\ Covered'
  BY <1>1 DEF Tables, Watched, Holds, Covered, ChildrenOf
<1>4. NoStrayTransport' /\ ChildHasHost'
  BY <1>1 DEF Tables, NoStrayTransport, ChildHasHost, Closers, NoWindow
<1> QED BY <1>2, <1>3, <1>4 DEF Tables

-----------------------------------------------------------------------------
(* Types, and the step of the sessions. *)

CallerStep(c) ==
  \/ Step(c) \/ CloseAll(c) \/ RequestApproval(c)
  \/ \E t \in Targets :
       \/ StartTool(c, "read", t) \/ ConnectRoute(c, t) \/ Disconnect(c, t) \/ Spawn(c, t)
       \/ StartCommand(c, t)
  \/ \E k \in Children : CloseChild(c, k)

LEMMA NextCases ==
  ASSUME [Next]_vars
  PROVE  \/ \E c \in Callers : CallerStep(c)
         \/ Approve \/ (\E s \in Sessions : Lose(s)) \/ Swap \/ UNCHANGED vars
  BY DEF Next, CallerStep

\* The calls of all the others stay as they are.
LEMMA TablesByCaller ==
  ASSUME Typed, Tables, NEW c \in Callers, CallerStep(c)
  PROVE  Only(c) /\ Tables'
<1>0. CallKnown /\ CallTypes
  BY DEF Tables, Typed
<1>1. CASE Quiet(c)
  BY <1>1, QuietKeeps DEF Quiet
<1>2. CASE \/ FindLive(c) \/ Realpath(c) \/ Lstat(c) \/ ReadBody(c) \/ ToolFails(c) \/ Answer(c)
           \/ (\E kind \in Kinds, how \in Endings : RunCommand(c, kind, how)) \/ CloseAll(c)
           \/ \E t \in Targets : \/ StartTool(c, "read", t) \/ ConnectRoute(c, t)
                                 \/ StartCommand(c, t) \/ Spawn(c, t)
  BY <1>0, <1>1, <1>2, QuietGoesOn, QuietCloseAll, QuietBegins
<1>3. CASE Lock(c) \/ Probe(c) \/ \E s \in Sessions : Dial(c, s)
  BY <1>3, LockKeeps, ProbeKeeps, DialKeeps
<1>4. CASE DialFails(c)
  <2>1. /\ Raise(c) /\ UNCHANGED net /\ windows' = windows /\ call[c].at = "dial"
        /\ call[c].op # "spawn"
    BY <1>0, <1>4 DEF DialFails, CallKnown, Known
  <2> QED BY <2>1, RaiseKeeps
<1>5. CASE CloseChildren(c) \/ CloseTransport(c) \/ NextToClose(c) \/ ClearTables(c)
  BY <1>5, CloseChildrenKeeps, CloseTransportKeeps, NextToCloseKeeps, ClearTablesKeeps
<1>6. CASE (\E k \in Children : OpenChild(c, k)) \/ \E t \in Targets : Disconnect(c, t)
  BY <1>6, OpenChildKeeps, DisconnectKeeps
<1>7. CASE (\E k \in Children : CloseChild(c, k)) \/ RequestApproval(c)
  <2>1. call' = call /\ Tables'
    BY <1>7, CloseChildKeeps, StillKeeps DEF RequestApproval, net
  <2> QED BY <1>0, <2>1 DEF Only, CallTypes
<1> QED BY <1>2, <1>3, <1>4, <1>5, <1>6, <1>7 DEF CallerStep, Step

LEMMA TablesStep ==
  ASSUME Typed, Tables, [Next]_vars
  PROVE  Tables' /\ call' \in [Callers -> Call]
<1>1. CASE Approve \/ Swap \/ UNCHANGED vars
  BY <1>1, StillKeeps DEF Approve, Swap, vars, net, Typed, CallTypes
<1>2. CASE \E s \in Sessions : Lose(s)
  BY <1>2, LoseKeeps DEF Typed, CallTypes
<1>3. CASE \E c \in Callers : CallerStep(c)
  BY <1>3, TablesByCaller DEF Only
<1> QED BY <1>1, <1>2, <1>3, NextCases

NetTypes ==
  /\ table \in [Targets -> Sessions \cup {None}] /\ tr \in [Sessions -> HostSession]
  /\ listed \subseteq Children /\ kid \in [Children -> ContainerSession]
  /\ lock \in [Targets -> Callers \cup {None}]
Counts ==
  /\ approval \in {"none", "pending", "approved", "consumed"} /\ ran \in 0..MaxCalls
  /\ ended \in Seen \cup {"none", "unseen"}
  /\ file \in {"plain", "link"} /\ calls \in 0..MaxCalls /\ faults \in 0..MaxFaults
  /\ windows \subseteq {"torn", "keyerror", "late", "orphan", "eof", "cut", "swapped"}
  /\ answer \in [Callers -> Answers]

LEMMA NetTypesStep ==
  ASSUME Typed, Tables, [Next]_vars
  PROVE  NetTypes'
<1> USE DEF NetTypes, net
<1>0. NetTypes /\ call \in [Callers -> Call] /\ CallKnown
  BY DEF Typed, TypeOK, CallTypes, Tables
<1>1. CASE Approve \/ Swap \/ UNCHANGED vars
  BY <1>0, <1>1 DEF Approve, Swap, vars
<1>2. ASSUME NEW s \in Sessions, Lose(s) PROVE NetTypes'
  BY <1>0, <1>2 DEF Lose, HostSession
<1>3. ASSUME NEW c \in Callers, CallerStep(c) PROVE NetTypes'
  <2>0. call[c] \in Call /\ Known(call[c]) /\ call[c].tgt \in Targets
    BY <1>0 DEF CallKnown, Call
  <2>1. CASE \/ FindLive(c) \/ Realpath(c) \/ Lstat(c) \/ ReadBody(c) \/ ToolFails(c)
             \/ Answer(c) \/ NextToClose(c) \/ CloseAll(c) \/ RequestApproval(c)
             \/ (\E kind \in Kinds, how \in Endings : RunCommand(c, kind, how))
             \/ \E t \in Targets : \/ StartTool(c, "read", t) \/ ConnectRoute(c, t)
                                   \/ StartCommand(c, t) \/ Spawn(c, t)
    <3>1. UNCHANGED <<table, tr, listed, kid, lock>>
      BY <2>1 DEF FindLive, Realpath, Lstat, ReadBody, ToolFails, Answer, NextToClose, CloseAll,
         RequestApproval, RunCommand, StartTool, ConnectRoute, StartCommand, Spawn
    <3> QED BY SMTT(40), <1>0, <3>1
  <2>2. CASE Lock(c) \/ Probe(c) \/ DialFails(c)
    BY <1>0, <2>0, <2>2 DEF Lock, Enter, Probe, DialFails, Raise, Released
  <2>3. ASSUME NEW s \in Sessions, Dial(c, s) PROVE NetTypes'
    BY <1>0, <2>0, <2>3 DEF Dial, Released, HostSession
  <2>4. CASE CloseChildren(c)
    <3>1. /\ UNCHANGED <<table, tr>> /\ listed' \subseteq listed /\ lock' \in {lock, Released(c)}
          /\ kid' = kid \/ \E k \in listed : kid' = [kid EXCEPT ![k].st = "closed"]
      BY <2>4 DEF CloseChildren, PopChild, Raise
    <3> QED BY <1>0, <3>1 DEF Released, ContainerSession
  <2>5. CASE CloseTransport(c)
    <3>1. call[c].s \in Sessions /\ tr' = [tr EXCEPT ![call[c].s].st = "closed"]
          /\ UNCHANGED <<table, listed, kid, lock>>
      BY <2>0, <2>5 DEF CloseTransport, Known
    <3> QED BY <1>0, <3>1 DEF HostSession
  <2>6. CASE ClearTables(c) \/ \E t \in Targets : Disconnect(c, t)
    BY <1>0, <2>6 DEF ClearTables, Disconnect
  <2>7. ASSUME NEW k \in Children, OpenChild(c, k) \/ CloseChild(c, k) PROVE NetTypes'
    <3>1. OpenChild(c, k) => call[c].s \in Sessions
      BY <2>0 DEF OpenChild, Known
    <3> QED BY <1>0, <2>7, <3>1 DEF OpenChild, CloseChild, ContainerSession
  <2> QED BY <1>3, <2>1, <2>2, <2>3, <2>4, <2>5, <2>6, <2>7 DEF CallerStep, Step
<1> QED BY <1>1, <1>2, <1>3, NextCases

LEMMA CountsStep ==
  ASSUME Typed, Paid, [Next]_vars
  PROVE  Counts'
<1> USE RemoteConstants DEF Counts, Answers
<1>0. Counts
  BY DEF Typed, TypeOK, CallTypes
<1>1. CASE Approve \/ Swap \/ UNCHANGED vars \/ \E s \in Sessions : Lose(s)
  BY <1>0, <1>1 DEF Approve, Swap, vars, Lose
<1>2. ASSUME NEW c \in Callers, CallerStep(c) PROVE Counts'
  <2>1. CASE \/ CloseAll(c) \/ (\E k \in Children : CloseChild(c, k))
             \/ \E t \in Targets : StartTool(c, "read", t) \/ ConnectRoute(c, t) \/ Disconnect(c, t)
                                   \/ Spawn(c, t)
    <3>1. /\ \E op : Begin(c, op)
          /\ UNCHANGED <<approval, ran, ended, file, faults, windows>>
      BY <2>1 DEF CloseAll, CloseChild, StartTool, ConnectRoute, Disconnect, Spawn
    <3> QED BY SMTT(40), <1>0, <3>1 DEF Begin
  <2>2. CASE RequestApproval(c) \/ \E t \in Targets : StartCommand(c, t)
    <3>1. /\ \E op : Begin(c, op)
          /\ UNCHANGED <<ran, ended, file, faults, windows>> /\ approval' \in {"pending", "consumed"}
      BY <2>2 DEF RequestApproval, StartCommand, Consume
    <3> QED BY <1>0, <3>1 DEF Begin
  <2>3. CASE FindLive(c) \/ Lock(c) \/ Probe(c) \/ (\E s \in Sessions : Dial(c, s)) \/ DialFails(c)
    BY <1>0, <2>3 DEF FindLive, Lock, Probe, Dial, DialFails, Raise, Return
  <2>4. CASE CloseChildren(c) \/ CloseTransport(c) \/ NextToClose(c) \/ ClearTables(c)
    BY <1>0, <2>4 DEF CloseChildren, PopChild, Raise, CloseTransport, NextToClose, ClearTables,
       Return
  <2>5. CASE (\E k \in Children : OpenChild(c, k)) \/ Realpath(c) \/ Lstat(c) \/ ReadBody(c)
             \/ ToolFails(c) \/ Answer(c)
    BY <1>0, <2>5 DEF OpenChild, Realpath, Authorize, Lstat, ReadBody, ToolFails, Answer, Return
  <2>6. ASSUME NEW kind \in Kinds, NEW how \in Endings, RunCommand(c, kind, how) PROVE Counts'
    <3>1. ran = 0 /\ calls > 0
      BY <2>6 DEF RunCommand, Paid
    <3>2. /\ faults' \in 0..MaxFaults /\ ran' = 1 /\ UNCHANGED <<approval, file, calls>>
          /\ windows' \subseteq windows \cup {"eof", "cut"}
          /\ ended' \in Seen \cup {"unseen"}
      BY <1>0, <2>6, <3>1 DEF RunCommand, CutOff
    <3>3. PICK a \in Reported(kind, how) : answer' = [answer EXCEPT ![c] = a]
      BY <2>6 DEF RunCommand, Return
    <3>4. a \in Answers
      BY DEF Reported
    <3> QED BY <1>0, <3>1, <3>2, <3>3, <3>4
  <2> QED BY <1>2, <2>1, <2>2, <2>3, <2>4, <2>5, <2>6 DEF CallerStep, Step
<1> QED BY <1>1, <1>2, NextCases

LEMMA TypedStep ==
  ASSUME Typed, Tables, Paid, [Next]_vars
  PROVE  Typed'
<1>1. NetTypes' /\ Counts' /\ CallKnown' /\ call' \in [Callers -> Call]
  BY NetTypesStep, CountsStep, TablesStep DEF Tables
<1> QED BY <1>1 DEF Typed, TypeOK, CallTypes, NetTypes, Counts, CallKnown, Known

-----------------------------------------------------------------------------
(* The approval, and the file. *)

LEMMA Begins ==
  ASSUME Typed, NEW c \in Callers,
         \/ (\E k \in Children : CloseChild(c, k)) \/ CloseAll(c)
         \/ \E t \in Targets : StartTool(c, "read", t) \/ ConnectRoute(c, t) \/ Disconnect(c, t)
                               \/ Spawn(c, t)
  PROVE  \/ call'[c] = call[c]
         \/ call'[c].op # "command" /\ call'[c].at \notin {"lstat", "body", "have"}
<1> USE IdleFacts DEF Goto, Typed, CallTypes, Call
<1>1. CASE CloseAll(c)
  BY <1>1 DEF CloseAll
<1>2. ASSUME NEW t \in Targets, StartTool(c, "read", t)
      PROVE  call'[c].op # "command" /\ call'[c].at \notin {"lstat", "body", "have"}
  BY <1>2 DEF StartTool
<1>3. ASSUME NEW t \in Targets, ConnectRoute(c, t)
      PROVE  call'[c].op # "command" /\ call'[c].at \notin {"lstat", "body", "have"}
  BY <1>3 DEF ConnectRoute
<1>4. ASSUME NEW t \in Targets, Disconnect(c, t)
      PROVE  call'[c].op # "command" /\ call'[c].at \notin {"lstat", "body", "have"}
  BY <1>4 DEF Disconnect
<1>5. ASSUME NEW t \in Targets, Spawn(c, t)
      PROVE  call'[c].op # "command" /\ call'[c].at \notin {"lstat", "body", "have"}
  BY <1>5 DEF Spawn
<1>6. CASE \E k \in Children : CloseChild(c, k)
  BY <1>6 DEF CloseChild
<1> QED BY <1>1, <1>2, <1>3, <1>4, <1>5, <1>6

LEMMA GoesOn ==
  ASSUME Typed, NEW c \in Callers, Step(c), ~\E kind \in Kinds, how \in Endings : RunCommand(c, kind, how)
  PROVE  /\ call'[c].op \in {call[c].op, "none"}
         /\ call'[c].at \in {"lstat", "body"} => Realpath(c) \/ Lstat(c)
         /\ call'[c].at = "have" => Probe(c) \/ \E s \in Sessions : Dial(c, s)
<1> USE DEF Typed
<1>C. call[c] \in Call
  BY DEF CallTypes
<1>0. \A a : Return(c, a) => call'[c].op = "none" /\ call'[c].at = "idle"
  BY Returned, IdleFacts
<1>1. CASE FindLive(c)
  BY <1>C, <1>0, <1>1 DEF FindLive, Goto, CallTypes, Call
<1>2. CASE Lock(c)
  BY <1>C, <1>0, <1>2 DEF Lock, Goto, CallTypes, Call
<1>3. CASE Probe(c)
  <2>1. CASE Goto(c, [call[c] EXCEPT !.at = "have"])
    <3>1. call'[c].op = call[c].op /\ call'[c].at = "have"
      BY <1>C, <2>1 DEF Goto, CallTypes, Call
    <3> QED BY <1>3, <3>1
  <2>2. CASE Goto(c, [call[c] EXCEPT !.at = "kids", !.todo = ChildrenOf(call[c].s)])
    BY <1>C, <2>2 DEF Goto, CallTypes, Call
  <2> QED BY <1>3, <2>1, <2>2 DEF Probe
<1>4. CASE \E s \in Sessions : Dial(c, s)
  <2>1. call'[c].op = call[c].op /\ call'[c].at = "have"
    BY <1>C, <1>4 DEF Dial, Goto, CallTypes, Call
  <2> QED BY <1>4, <2>1
<1>5. CASE DialFails(c)
  BY <1>C, <1>0, <1>5 DEF DialFails, Raise, Goto, CallTypes, Call
<1>6. CASE CloseChildren(c)
  BY <1>C, <1>0, <1>6 DEF CloseChildren, PopChild, Raise, Goto, CallTypes, Call
<1>7. CASE CloseTransport(c)
  BY <1>C, <1>0, <1>7 DEF CloseTransport, Goto, CallTypes, Call
<1>8. CASE NextToClose(c)
  BY <1>C, <1>0, <1>8 DEF NextToClose, Goto, CallTypes, Call
<1>9. CASE ClearTables(c)
  BY <1>C, <1>0, <1>9 DEF ClearTables, Goto, CallTypes, Call
<1>10. CASE \E k \in Children : OpenChild(c, k)
  BY <1>C, <1>0, <1>10 DEF OpenChild, Goto, CallTypes, Call
<1>11. CASE Realpath(c)
  <2>1. CASE Goto(c, [call[c] EXCEPT !.at = "lstat", !.canon = "in"])
    <3>1. call'[c].op = call[c].op /\ call'[c].at = "lstat"
      BY <1>C, <2>1 DEF Goto, CallTypes, Call
    <3> QED BY <1>11, <3>1
  <2>2. (\E a : Return(c, a)) \/ Goto(c, [call[c] EXCEPT !.at = "lstat", !.canon = "in"])
    BY <1>11 DEF Realpath, Authorize
  <2> QED BY <1>0, <2>1, <2>2
<1>12. CASE Lstat(c)
  BY <1>C, <1>0, <1>12 DEF Lstat, Goto, CallTypes, Call
<1>13. CASE ReadBody(c)
  BY <1>C, <1>0, <1>13 DEF ReadBody, Goto, CallTypes, Call
<1>14. CASE ToolFails(c)
  BY <1>C, <1>0, <1>14 DEF ToolFails, Goto, CallTypes, Call
<1>15. CASE Answer(c)
  BY <1>C, <1>0, <1>15 DEF Answer, Goto, CallTypes, Call
<1> QED BY <1>1, <1>2, <1>3, <1>4, <1>5, <1>6, <1>7, <1>8, <1>9, <1>10, <1>11,
           <1>12, <1>13, <1>14, <1>15 DEF Step

\* How a call comes to hold a session, and to a file that it has authorised.
LEMMA Arrives ==
  ASSUME Typed, NEW c \in Callers, CallerStep(c), call'[c] # call[c]
  PROVE  /\ call'[c].at \in {"lstat", "body"} => Realpath(c) \/ Lstat(c)
         /\ call'[c].at = "have" => Probe(c) \/ \E s \in Sessions : Dial(c, s)
<1>1. CASE RequestApproval(c) \/ \E t \in Targets : StartCommand(c, t)
  BY ZenonT(40), <1>1, IdleFacts DEF RequestApproval, StartCommand, Goto, Typed, CallTypes, Call
<1>2. CASE \E kind \in Kinds, how \in Endings : RunCommand(c, kind, how)
  BY <1>2, Returned, IdleFacts DEF RunCommand, Typed
<1> QED BY <1>1, <1>2, Begins, GoesOn DEF CallerStep

\* Which steps can begin or end a guarded command.
LEMMA CommandMoves ==
  ASSUME Typed, CallKnown, NEW c \in Callers, CallerStep(c), Only(c)
  PROVE  \/ /\ UNCHANGED <<approval, ran>> /\ calls' \in {calls, calls + 1}
            /\ call'[c].op = "command" => call[c].op = "command"
         \/ /\ approval = "none" /\ approval' = "pending" /\ calls' > 0 /\ call' = call /\ ran' = ran
         \/ /\ approval = "approved" /\ approval' = "consumed" /\ calls' > 0 /\ ran' = ran
         \/ /\ call[c].op = "command" /\ call'[c].op = "none" /\ ran' = ran + 1
            /\ UNCHANGED <<approval, calls>>
<1> USE DEF Typed, TypeOK
<1>0. call[c] \in Call /\ Known(call[c])
  BY DEF CallTypes, CallKnown
<1>1. CASE RequestApproval(c)
  BY <1>1 DEF RequestApproval, Begin
<1>2. CASE \E t \in Targets : StartCommand(c, t)
  BY <1>2 DEF StartCommand, Begin, Consume
<1>3. CASE \E kind \in Kinds, how \in Endings : RunCommand(c, kind, how)
  BY <1>3, Returned, IdleFacts DEF RunCommand
<1>4. CASE (\E k \in Children : CloseChild(c, k)) \/ CloseAll(c)
           \/ \E t \in Targets : StartTool(c, "read", t) \/ ConnectRoute(c, t) \/ Disconnect(c, t)
                                 \/ Spawn(c, t)
  <2>1. UNCHANGED <<approval, ran>> /\ calls' = calls + 1
    BY <1>4 DEF CloseChild, CloseAll, StartTool, ConnectRoute, Disconnect, Spawn, Begin
  <2>2. call'[c] = call[c] \/ call'[c].op # "command"
    BY <1>4, Begins
  <2> QED BY <2>1, <2>2
<1>5. CASE Step(c) /\ ~\E kind \in Kinds, how \in Endings : RunCommand(c, kind, how)
  <2>1. UNCHANGED <<approval, ran, calls>>
    BY <1>5 DEF Step, FindLive, Lock, Probe, Dial, DialFails, Raise, CloseChildren,
       CloseTransport, NextToClose, ClearTables, OpenChild, Realpath, Lstat, ReadBody,
       ToolFails, Answer
  <2>2. call'[c].op \in {call[c].op, "none"}
    BY <1>5, GoesOn
  <2> QED BY <2>1, <2>2
<1> QED BY <1>1, <1>2, <1>3, <1>4, <1>5 DEF CallerStep

LEMMA PaidStep ==
  ASSUME Typed, Tables, Paid, ApprovalRunsOnce, [Next]_vars
  PROVE  Paid' /\ ApprovalRunsOnce'
<1> USE DEF Paid, ApprovalRunsOnce
<1>1. CASE Approve \/ Swap \/ UNCHANGED vars \/ \E s \in Sessions : Lose(s)
  BY <1>1 DEF Approve, Swap, vars, Lose, net
<1>2. ASSUME NEW c \in Callers, CallerStep(c) PROVE Paid' /\ ApprovalRunsOnce'
  <2>1. Only(c) /\ \A d \in Callers : d # c => call'[d] = call[d]
    BY <1>2, TablesByCaller DEF Only
  <2>2. calls \in Nat /\ calls' \in Nat /\ ran \in Nat
    BY TypedStep, RemoteConstants DEF Typed, TypeOK
  <2>3. CallKnown
    BY DEF Tables
  <2>4. CASE UNCHANGED <<approval, ran>>
    BY <1>2, <2>1, <2>2, <2>3, <2>4, CommandMoves
  <2>5. CASE ~UNCHANGED <<approval, ran>>
    BY <1>2, <2>1, <2>2, <2>3, <2>5, CommandMoves
  <2> QED BY <2>4, <2>5
<1> QED BY <1>1, <1>2, NextCases

\* From the check of its path to its bytes, a read sees the same file, unless
\* somebody replaces it and the window is recorded.
LEMMA ReadStep ==
  ASSUME Typed, Tables, Authorized, ReadsStayInside, [Next]_vars
  PROVE  Authorized' /\ ReadsStayInside'
<1> USE DEF Authorized, ReadsStayInside
<1>0. \A c \in Callers : call[c].canon = "in"
  BY DEF Typed, CallTypes, Call
<1>1. CASE Swap
  BY <1>1 DEF Swap
<1>2. CASE Approve \/ UNCHANGED vars \/ \E s \in Sessions : Lose(s)
  BY <1>2 DEF Approve, vars, Lose
<1>3. ASSUME NEW c \in Callers, CallerStep(c) PROVE Authorized' /\ ReadsStayInside'
  <2>1. Only(c) /\ \A d \in Callers : d # c => call'[d] = call[d]
    BY SMTT(40), <1>3, TablesByCaller DEF Only
  <2>2. file' = file /\ windows \subseteq windows'
    BY <1>3 DEF CallerStep, Step, CloseAll, RequestApproval, StartTool, ConnectRoute, Disconnect,
       Spawn, StartCommand, CloseChild, FindLive, Lock, Probe, Dial, DialFails, CloseChildren,
       PopChild, CloseTransport, NextToClose, ClearTables, OpenChild, RunCommand, Realpath,
       Lstat, ReadBody, ToolFails, Answer
  <2>3. call'[c].at \in {"lstat", "body"} =>
          call[c].at \in {"lstat", "body"} \/ file = "plain"
    <3>1. CASE Realpath(c) \/ Lstat(c)
      <4>1. CASE Realpath(c) /\ file # "plain"
        <5>1. Return(c, "denied")
          BY <4>1 DEF Realpath, Authorize, Typed, TypeOK
        <5> QED BY <5>1, Returned, IdleFacts DEF Typed
      <4>2. CASE Lstat(c)
        BY <4>2 DEF Lstat
      <4> QED BY <3>1, <4>1, <4>2
    <3>2. CASE ~Realpath(c) /\ ~Lstat(c)
      BY <1>3, <3>2, Arrives
    <3> QED BY <3>1, <3>2
  <2>4. \A d \in Callers : answer'[d] = "outside" => answer[d] = "outside" \/ "swapped" \in windows
    <3> USE DEF Typed, CallTypes
    <3>1. CASE ReadBody(c)
      BY <1>0, <3>1 DEF ReadBody, NowLink, Return
    <3>2. CASE \/ CloseAll(c) \/ RequestApproval(c) \/ (\E k \in Children : CloseChild(c, k))
               \/ \E t \in Targets : \/ StartTool(c, "read", t) \/ ConnectRoute(c, t)
                                     \/ Disconnect(c, t) \/ Spawn(c, t) \/ StartCommand(c, t)
      <4>1. \E op : Begin(c, op)
        BY <3>2 DEF CloseAll, RequestApproval, StartTool, ConnectRoute, Disconnect, Spawn,
           StartCommand, CloseChild
      <4> QED BY SMTT(40), <4>1 DEF Begin
    <3>3. CASE Step(c) /\ ~ReadBody(c)
      <4>1. answer' = answer \/ \E a \in Answers \ {"outside"} : answer' = [answer EXCEPT ![c] = a]
        BY <3>3 DEF Step, FindLive, Lock, Probe, Dial, DialFails, Raise, CloseChildren, PopChild,
           CloseTransport, NextToClose, ClearTables, OpenChild, RunCommand, Reported, Realpath,
           Authorize, Lstat, ToolFails, Answer, Return, Answers
      <4> QED BY <4>1
    <3> QED BY <1>3, <3>1, <3>2, <3>3 DEF CallerStep
  <2> QED BY <2>1, <2>2, <2>3, <2>4
<1> QED BY <1>1, <1>2, <1>3, NextCases

-----------------------------------------------------------------------------
(* The invariant and the theorems. *)

LEMMA InitIInv == Init => IInv
<1> SUFFICES ASSUME Init PROVE IInv
  OBVIOUS
<1>1. \A c \in Callers : call[c] = Idle
  BY DEF Init
<1>2. Idle.tgt \in Targets
  BY IdleFacts DEF Call
<1>3. Typed
  BY <1>1, <1>2, IdleFacts, RemoteConstants
  DEF Init, Typed, TypeOK, CallTypes, HostSession, ContainerSession, Answers
<1>4. Tables
  BY <1>1, IdleFacts DEF Init, Tables, CallKnown, Locked, Holds, TableKnown, ListedKnown, Watched,
     Covered, NoStrayTransport, ChildHasHost
<1>5. Paid /\ ApprovalRunsOnce /\ Authorized /\ ReadsStayInside
  BY <1>1, IdleFacts DEF Init, Paid, ApprovalRunsOnce, Authorized, ReadsStayInside
<1> QED BY <1>3, <1>4, <1>5 DEF IInv

LEMMA IInvStep == IInv /\ [Next]_vars => IInv'
  BY TypedStep, TablesStep, PaidStep, ReadStep DEF IInv

LEMMA IInvHolds == Spec => []IInv
<1> QED BY InitIInv, IInvStep, PTL DEF Spec

\* For any number of targets, callers and lost connections, SessionManager never
\* loses a transport or a container process: what this process has opened and not
\* closed is in its table, or a call is closing it, or close_all has it on its
\* list, outside the recorded windows.
THEOREM SessionsAreOwned == Spec => []SessionsOwned
<1>1. IInv => SessionsOwned
  BY DEF IInv, Typed, Tables, SessionsOwned
<1> QED BY <1>1, IInvHolds, PTL

\* What connect hands out is the registered, open session of its target, whoever
\* disconnects or connects meanwhile.
LEMMA HandsOutStep ==
  ASSUME IInv, [Next]_vars, NEW c \in Callers, call[c].at /= "have", call'[c].at = "have",
         "torn" \notin windows'
  PROVE  /\ table'[call[c].tgt] = call'[c].s
         /\ tr'[call'[c].s].st = "open" /\ tr'[call'[c].s].tgt = call[c].tgt
<1> USE DEF IInv, Typed
<1>0. call[c] \in Call /\ Known(call[c]) /\ call[c].tgt \in Targets
  BY DEF CallTypes, Call, Tables, CallKnown
<1>1. PICK d \in Callers : CallerStep(d)
  BY NextCases DEF Approve, Lose, Swap, vars
<1>2. d = c
  BY <1>1, TablesByCaller DEF Only
<1>3. Probe(c) \/ \E s \in Sessions : Dial(c, s)
  BY <1>1, <1>2, Arrives
<1>4. CASE Probe(c)
  <2>1. Alive(call[c].s) /\ call[c].s \in Sessions
    BY <1>0, <1>4 DEF Probe, Goto, CallTypes, Call, Known
  <2>2. /\ call'[c].s = call[c].s /\ table[call[c].tgt] = call[c].s
        /\ UNCHANGED <<table, tr>>
    BY <1>0, <1>4, <2>1 DEF Probe, Goto, CallTypes, Call, net
  <2> QED BY <1>0, <2>1, <2>2 DEF Alive, Tables, TableKnown, Sessions, None
<1>5. ASSUME NEW s \in Sessions, Dial(c, s)
      PROVE  /\ table'[call[c].tgt] = call'[c].s
             /\ tr'[call'[c].s].st = "open" /\ tr'[call'[c].s].tgt = call[c].tgt
  <2>1. call'[c].s = s
    BY <1>0, <1>5 DEF Dial, Goto, CallTypes, Call
  <2> QED BY <1>0, <1>5, <2>1 DEF Dial, TypeOK
<1> QED BY <1>3, <1>4, <1>5

\* What is reported of a command that has begun is what was seen of its end.
LEMMA StartedStep ==
  ASSUME IInv, [Next]_vars, NEW c \in Callers, ran' > ran, call[c] /= call'[c],
         windows' \cap {"eof", "cut"} = {}
  PROVE  /\ answer'[c] = "failed" => ended' = "nonzero"
         /\ answer'[c] = "done" => ended' = "done"
<1> USE DEF IInv, Typed
<1>0. ran \in Nat
  BY RemoteConstants DEF TypeOK
<1>1. PICK d \in Callers : CallerStep(d)
  BY NextCases DEF Approve, Lose, Swap, vars, net
<1>2. d = c
  BY <1>1, TablesByCaller DEF Only
<1>3. PICK kind \in Kinds, how \in Endings : RunCommand(c, kind, how)
  <2> SUFFICES ASSUME ~\E kind \in Kinds, how \in Endings : RunCommand(c, kind, how) PROVE ran' = ran
    BY <1>0
  <2>1. CASE Step(c)
    BY ZenonT(40), <2>1 DEF Step, FindLive, Lock, Probe, Dial, DialFails, Raise, CloseChildren, CloseTransport,
       NextToClose, ClearTables, OpenChild, Realpath, Lstat, ReadBody, ToolFails, Answer
  <2>2. CASE CallerStep(c) /\ ~Step(c)
    BY <2>2 DEF CallerStep, CloseAll, RequestApproval, StartTool, ConnectRoute, Disconnect, Spawn,
       StartCommand, CloseChild
  <2> QED BY <1>1, <1>2, <2>1, <2>2
<1>4. /\ "eof" \notin CutOff(kind, how) /\ "cut" \notin CutOff(kind, how)
      /\ ended' = IF how \in Seen THEN how ELSE "unseen"
  BY <1>3 DEF RunCommand
<1>5. how # "eof" /\ ~(kind = "shell" /\ how = "lost")
  BY <1>4 DEF CutOff
<1>6. answer'[c] \in Reported(kind, how)
  BY <1>3 DEF RunCommand, Return, CallTypes
<1> QED BY <1>4, <1>5, <1>6 DEF Reported, Endings, Kinds, Seen

\* What a call is answered is so, for any number of callers: connect hands out
\* the registered session, one approval begins one command however many calls
\* present it, a command that began is reported as failed or done only when it
\* was seen to end so, and no read returns what lies outside the roots, outside
\* the recorded windows.
THEOREM AnswersAreTrue == Spec => AnswersHold
<1> DEFINE HandsOut ==
             \A c \in Callers :
               call[c].at /= "have" /\ call'[c].at = "have" /\ "torn" \notin windows' =>
                 /\ table'[call[c].tgt] = call'[c].s
                 /\ tr'[call'[c].s].st = "open" /\ tr'[call'[c].s].tgt = call[c].tgt
           Started ==
             \A c \in Callers :
               ran' > ran /\ call[c] /= call'[c] /\ windows' \cap {"eof", "cut"} = {} =>
                 /\ answer'[c] = "failed" => ended' = "nonzero"
                 /\ answer'[c] = "done" => ended' = "done"
<1>1. IInv /\ [Next]_vars => [HandsOut]_vars
  BY HandsOutStep
<1>2. IInv /\ [Next]_vars => [Started]_vars
  BY StartedStep
<1>3. IInv => ApprovalRunsOnce /\ ReadsStayInside
  BY DEF IInv
<1> QED BY <1>1, <1>2, <1>3, IInvHolds, PTL
        DEF Spec, AnswersHold, HandsOutRegistered, StartedIsNotFailed

-----------------------------------------------------------------------------
(* Agent sessions. *)

\* Handler and routes: who is where, and what the handler has in hand.
Driving == {"start", "run", "waits", "ended", "rebound", "projected", "synced"}
HandlerKnown ==
  /\ Len(invs) <= MaxInvs
  /\ route # "off" => handler.pc \in {"off", "run", "waits"}
  /\ handler.pc # "off" => handler.op \in DOMAIN ops /\ Op.state = "running"
  /\ \A k \in DOMAIN ops : ops[k].state = "running" => handler.pc # "off" /\ k = handler.op
  /\ handler.pc \notin {"off", "load"} => Op.msg # 0
  /\ handler.pc \in {"created", "bound"} =>
       /\ Op.act = "message" /\ Len(invs) # 0 /\ invs[Len(invs)].symptom = Op.msg
  /\ handler.pc = "bound" => sess.inv = Len(invs)
  /\ handler.pc \in Driving => sess.inv # 0

\* The texts: numbered as they come, stored ones among them.
TimelineKnown ==
  /\ Users <= MaxMsgs
  /\ \A k \in DOMAIN timeline :
       /\ timeline[k][1] = "user" => timeline[k][2] <= Users
       /\ timeline[k][1] = "said" => timeline[k][3] <= Cardinality(SaidBy(timeline[k][2]))
  /\ \A x \in rows : \E k \in DOMAIN timeline : timeline[k] = x

\* An operation that carries the message n.
Carries(k, n) == ops[k].act = "message" /\ ops[k].msg = n
Waits(k) == ops[k].state \in {"queued", "running"}

\* The operations: each message has one at most, enqueued before any resume of
\* it; the older ones are served first.
QueueKnown ==
  /\ \A k \in DOMAIN ops : /\ ops[k].msg <= Users
                           /\ ops[k].act = "message" => ops[k].msg # 0
                           /\ route = "appended" => ops[k].msg # Users
  /\ route = "appended" => Users # 0
  /\ route = "enqueued" => \E k \in DOMAIN ops : ops[k].state = "queued"
  /\ \A j, k \in DOMAIN ops : Carries(k, ops[j].msg) /\ j # k => ops[j].act = "resume" /\ k < j
  /\ \A j, k \in DOMAIN ops : k < j /\ Waits(k) => ops[j].state \in {"queued", "cancelled"}

\* A message that is in the timeline has its operation, or the route is about
\* to enqueue it.
Queued ==
  ~Through({"unqueued"}) =>
    \A n \in 1..Users : (route = "appended" /\ n = Users) \/ \E k \in DOMAIN ops : Carries(k, n)

\* The investigations an operation was linked to are over, but for the bound one.
\* Whoever carries a message that has its investigation is past opening it, and
\* recovery will not queue it again, though an orderly stop does.
LinksKnown ==
  /\ \A k \in DOMAIN ops :
       /\ ops[k].inv <= Len(invs)
       /\ ops[k].inv \notin {0, sess.inv} => ~Live(ops[k].inv)
  /\ handler.pc = "created" /\ sess.inv # 0 => sess.inv < Len(invs) /\ ~Live(sess.inv)
  /\ \A i \in DOMAIN invs : \E k \in DOMAIN ops : Carries(k, invs[i].symptom)
  /\ \A k \in DOMAIN ops, i \in DOMAIN invs :
       Carries(k, invs[i].symptom) /\ Waits(k) /\ ~Through({"requeued"}) =>
         /\ ops[k].state = "running" /\ handler.pc # "load"
         /\ ops[k].inv # 0 => ~Live(ops[k].inv)

\* The status that the session should show.
Agrees == sess.status = SessionStatus(invs[sess.inv].status)

\* With nothing queued the session agrees with its investigation as soon as the
\* handler has synchronized it.
AgreesOrWaits ==
  ~Through({"outside", "raised", "dropped", "crash", "stopped", "relinked"}) =>
    /\ handler.pc = "synced" => Agrees
    /\ /\ handler.pc = "off" /\ route # "enqueued" /\ sess.inv # 0
       /\ \A k \in DOMAIN ops : ops[k].state # "queued"
       => Agrees

\* Only the bound investigation is live, or the one about to be bound.
Bounded ==
  ~Through({"crash"}) =>
    \A i \in DOMAIN invs : Live(i) => i = IF handler.pc = "created" THEN Len(invs) ELSE sess.inv

\* The handler drives the investigation that its message opened.
OwnMessage ==
  ~Through({"followup", "other"}) =>
    /\ handler.pc \in Driving => invs[sess.inv].symptom = Op.msg
    /\ \A n \in 1..MaxMsgs : bound[n][1] # 0 => invs[bound[n][1]].symptom = n

\* The projection has been written when the handler ends.
Projected ==
  /\ handler.pc \in {"projected", "synced"} /\ ~Through({"untold"}) => bound[Op.msg][2] = 1
  /\ SucceededIsDone

\* What is not stored is the end of the timeline and belongs to the run that is
\* on; the cursor is behind it.
UnstoredLast ==
  ~Through({"midrun", "outside", "raised", "requeued", "crash"}) =>
    /\ cursor # 0 => timeline[cursor] \in rows
    /\ \A k \in DOMAIN timeline : timeline[k] \notin rows =>
         /\ handler.pc \in {"run", "ended", "rebound"} /\ k \in SaidBy(sess.inv)
         /\ \A j \in k..Len(timeline) : timeline[j] \notin rows
    /\ NothingSkipped

SessionInv ==
  /\ SessionTypeOK
  /\ HandlerKnown /\ TimelineKnown /\ QueueKnown /\ Queued /\ LinksKnown
  /\ AgreesOrWaits /\ Bounded /\ OneInvestigationPerMessage /\ NoWorkOnDeletedTarget
  /\ OwnMessage /\ Projected /\ UnstoredLast

-----------------------------------------------------------------------------
(* Numbers, and what the steps write. *)

\* A set of numbers up to n that is not empty has a largest one.
LEMMA Highest ==
  ASSUME NEW n \in Nat, NEW T \in SUBSET (1..n), T # {}
  PROVE  \E x \in T : \A y \in T : y <= x
<1>1. PICK R : R = {ss \in Nat \X Nat : ss[1] < ss[2]}
  OBVIOUS
<1>2. IsWellFoundedOn(R, Nat)
  BY <1>1, NatLessThanWellFounded DEF OpToRel
<1> DEFINE D == {m \in Nat : \E y \in T : m = n - y}
<1>3. D # {} /\ D \subseteq Nat
  <2>1. PICK y \in T : TRUE
    OBVIOUS
  <2>2. n - y \in D
    BY <2>1
  <2> QED BY <2>2
<1>4. PICK m \in D : \A d \in D : ~(<<d, m>> \in R)
  BY <1>2, <1>3, WFMin
<1>5. PICK x \in T : m = n - x
  BY <1>4
<1>6. ASSUME NEW y \in T PROVE y <= x
  <2>1. n - y \in D
    OBVIOUS
  <2>2. ~(<<n - y, m>> \in R)
    BY <1>4, <2>1
  <2>3. ~(n - y < m)
    BY <1>1, <1>4, <2>1, <2>2
  <2> QED BY <1>5, <2>3
<1> QED BY <1>6

\* An operation changes its state and nothing else.
OpMoves(k, state) ==
  /\ ops' \in Seq(Operation) /\ Len(ops') = Len(ops) /\ DOMAIN ops' = DOMAIN ops
  /\ \A j \in DOMAIN ops : /\ ops'[j].act = ops[j].act /\ ops'[j].msg = ops[j].msg
                           /\ ops'[j].inv = ops[j].inv
                           /\ ops'[j].state = IF j = k THEN state ELSE ops[j].state

LEMMA MovesOp ==
  ASSUME SessionTypeOK, NEW k \in DOMAIN ops,
         NEW state \in {"queued", "running", "succeeded", "failed", "cancelled"},
         ops' = [ops EXCEPT ![k].state = state]
  PROVE  OpMoves(k, state)
<1>1. ops \in [1..Len(ops) -> Operation] /\ Len(ops) \in Nat /\ DOMAIN ops = 1..Len(ops)
  BY LenProperties DEF SessionTypeOK
<1>2. ops[k] \in Operation
  BY <1>1
<1>3. [ops[k] EXCEPT !.state = state] \in Operation
  BY <1>2 DEF Operation
<1>4. ops' \in [1..Len(ops) -> Operation]
  BY <1>1, <1>3
<1>5. ops' \in Seq(Operation) /\ Len(ops') = Len(ops) /\ DOMAIN ops' = DOMAIN ops
  BY <1>1, <1>4
<1>6. \A j \in DOMAIN ops : ops'[j] = IF j = k THEN [ops[k] EXCEPT !.state = state] ELSE ops[j]
  BY <1>1
<1> QED BY <1>1, <1>2, <1>5, <1>6 DEF OpMoves, Operation

\* A new operation is the last one.
OpAdded(op) ==
  /\ ops' \in Seq(Operation) /\ Len(ops') = Len(ops) + 1
  /\ DOMAIN ops' = DOMAIN ops \cup {Len(ops) + 1} /\ ops'[Len(ops) + 1] = op
  /\ \A j \in DOMAIN ops : ops'[j] = ops[j]

LEMMA AddsOp ==
  ASSUME SessionTypeOK, NEW op \in Operation, ops' = Append(ops, op)
  PROVE  OpAdded(op)
<1>1. ops \in Seq(Operation) /\ DOMAIN ops = 1..Len(ops) /\ Len(ops) \in Nat
  BY LenProperties DEF SessionTypeOK
<1>2. /\ ops' \in Seq(Operation) /\ Len(ops') = Len(ops) + 1
      /\ \A j \in 1..Len(ops) : ops'[j] = ops[j]
      /\ ops'[Len(ops) + 1] = op
  BY <1>1, AppendProperties
<1>3. DOMAIN ops' = 1..Len(ops')
  BY <1>2, LenProperties
<1> QED BY <1>1, <1>2, <1>3 DEF OpAdded

\* An investigation changes its status and nothing else.
InvMoves(i, status) ==
  /\ invs' \in Seq(Investigation) /\ Len(invs') = Len(invs) /\ DOMAIN invs' = DOMAIN invs
  /\ \A j \in DOMAIN invs : /\ invs'[j].symptom = invs[j].symptom
                            /\ invs'[j].status = IF j = i THEN status ELSE invs[j].status

LEMMA MovesInv ==
  ASSUME SessionTypeOK, NEW i \in DOMAIN invs, NEW status \in InvStatus,
         invs' = [invs EXCEPT ![i].status = status]
  PROVE  InvMoves(i, status)
<1>1. invs \in [1..Len(invs) -> Investigation] /\ Len(invs) \in Nat /\ DOMAIN invs = 1..Len(invs)
  BY LenProperties DEF SessionTypeOK
<1>2. invs[i] \in Investigation
  BY <1>1
<1>3. [invs[i] EXCEPT !.status = status] \in Investigation
  BY <1>2 DEF Investigation
<1>4. invs' \in [1..Len(invs) -> Investigation]
  BY <1>1, <1>3
<1>5. invs' \in Seq(Investigation) /\ Len(invs') = Len(invs) /\ DOMAIN invs' = DOMAIN invs
  BY <1>1, <1>4
<1>6. \A j \in DOMAIN invs : invs'[j] = IF j = i THEN [invs[i] EXCEPT !.status = status] ELSE invs[j]
  BY <1>1
<1> QED BY <1>1, <1>2, <1>5, <1>6 DEF InvMoves, Investigation

\* A new investigation is the last one.
InvAdded(row) ==
  /\ invs' \in Seq(Investigation) /\ Len(invs') = Len(invs) + 1
  /\ DOMAIN invs' = DOMAIN invs \cup {Len(invs) + 1} /\ invs'[Len(invs) + 1] = row
  /\ \A j \in DOMAIN invs : invs'[j] = invs[j]

LEMMA AddsInv ==
  ASSUME SessionTypeOK, NEW r \in Investigation, invs' = Append(invs, r)
  PROVE  InvAdded(r)
<1>1. invs \in Seq(Investigation) /\ DOMAIN invs = 1..Len(invs) /\ Len(invs) \in Nat
  BY LenProperties DEF SessionTypeOK
<1>2. /\ invs' \in Seq(Investigation) /\ Len(invs') = Len(invs) + 1
      /\ \A j \in 1..Len(invs) : invs'[j] = invs[j]
      /\ invs'[Len(invs) + 1] = r
  BY <1>1, AppendProperties
<1>3. DOMAIN invs' = 1..Len(invs')
  BY <1>2, LenProperties
<1> QED BY <1>1, <1>2, <1>3 DEF InvAdded

\* The counts of the timeline are numbers, and what they count lies in it.
LEMMA TimelineTypes ==
  ASSUME SessionTypeOK
  PROVE  /\ DOMAIN timeline = 1..Len(timeline) /\ Len(timeline) \in Nat
         /\ \A k \in DOMAIN timeline : timeline[k] \in Items
         /\ Users \in Nat
         /\ \A i : IsFiniteSet(SaidBy(i)) /\ Cardinality(SaidBy(i)) \in Nat
<1>1. DOMAIN timeline = 1..Len(timeline) /\ Len(timeline) \in Nat
  BY LenProperties DEF SessionTypeOK
<1>2. \A k \in DOMAIN timeline : timeline[k] \in Items
  BY <1>1, ElementOfSeq DEF SessionTypeOK
<1>3. IsFiniteSet(DOMAIN timeline)
  BY <1>1, FS_Interval
<1>4. IsFiniteSet({k \in DOMAIN timeline : timeline[k][1] = "user"})
  BY <1>3, FS_Subset
<1>5. Users \in Nat
  BY <1>4, FS_CardinalityType DEF Users
<1>6. \A i : IsFiniteSet(SaidBy(i)) /\ Cardinality(SaidBy(i)) \in Nat
  BY <1>3, FS_Subset, FS_CardinalityType DEF SaidBy
<1> QED BY <1>1, <1>2, <1>5, <1>6

\* A text is appended to the timeline: the counts grow by one where it counts.
LEMMA TextAdded ==
  ASSUME SessionTypeOK, NEW x \in Items, timeline' = Append(timeline, x)
  PROVE  /\ timeline' \in Seq(Items) /\ Len(timeline') = Len(timeline) + 1
         /\ DOMAIN timeline' = DOMAIN timeline \cup {Len(timeline) + 1}
         /\ \A k \in DOMAIN timeline : timeline'[k] = timeline[k]
         /\ timeline'[Len(timeline) + 1] = x
         /\ Users' = IF x[1] = "user" THEN Users + 1 ELSE Users
         /\ \A i : /\ SaidBy(i)' = IF x[1] = "said" /\ x[2] = i
                                   THEN SaidBy(i) \cup {Len(timeline) + 1} ELSE SaidBy(i)
                   /\ Cardinality(SaidBy(i)') = IF x[1] = "said" /\ x[2] = i
                                   THEN Cardinality(SaidBy(i)) + 1 ELSE Cardinality(SaidBy(i))
<1>1. DOMAIN timeline = 1..Len(timeline) /\ Len(timeline) \in Nat
  BY LenProperties DEF SessionTypeOK
<1>2. /\ timeline' \in Seq(Items) /\ Len(timeline') = Len(timeline) + 1
      /\ \A k \in 1..Len(timeline) : timeline'[k] = timeline[k]
      /\ timeline'[Len(timeline) + 1] = x
  BY <1>1, AppendProperties DEF SessionTypeOK
<1>3. DOMAIN timeline' = DOMAIN timeline \cup {Len(timeline) + 1}
  BY <1>1, <1>2, LenProperties
<1> DEFINE U == {k \in DOMAIN timeline : timeline[k][1] = "user"}
           V == {k \in DOMAIN timeline' : timeline'[k][1] = "user"}
<1>4. V = IF x[1] = "user" THEN U \cup {Len(timeline) + 1} ELSE U
  BY <1>1, <1>2, <1>3
<1>5. IsFiniteSet(DOMAIN timeline)
  BY <1>1, FS_Interval
<1>6. IsFiniteSet(U) /\ Len(timeline) + 1 \notin U
  BY <1>1, <1>5, FS_Subset
<1>7. Users' = IF x[1] = "user" THEN Users + 1 ELSE Users
  <2>1. Users = Cardinality(U) /\ Users' = Cardinality(V)
    BY DEF Users
  <2>2. Cardinality(U \cup {Len(timeline) + 1}) = Cardinality(U) + 1
    BY <1>6, FS_AddElement
  <2> HIDE DEF U, V
  <2> QED BY <1>4, <2>1, <2>2
<1>8. ASSUME NEW i
      PROVE  /\ SaidBy(i)' = IF x[1] = "said" /\ x[2] = i
                             THEN SaidBy(i) \cup {Len(timeline) + 1} ELSE SaidBy(i)
             /\ Cardinality(SaidBy(i)') = IF x[1] = "said" /\ x[2] = i
                             THEN Cardinality(SaidBy(i)) + 1 ELSE Cardinality(SaidBy(i))
  <2>1. SaidBy(i)' = IF x[1] = "said" /\ x[2] = i
                     THEN SaidBy(i) \cup {Len(timeline) + 1} ELSE SaidBy(i)
    <3>1. SaidBy(i)' = {k \in DOMAIN timeline' : timeline'[k][1] = "said" /\ timeline'[k][2] = i}
      BY DEF SaidBy
    <3>2. SaidBy(i) = {k \in DOMAIN timeline : timeline[k][1] = "said" /\ timeline[k][2] = i}
      BY DEF SaidBy
    <3> QED BY <1>1, <1>2, <1>3, <3>1, <3>2
  <2>2. IsFiniteSet(SaidBy(i)) /\ Len(timeline) + 1 \notin SaidBy(i)
    BY <1>1, <1>5, FS_Subset DEF SaidBy
  <2> QED BY <2>1, <2>2, FS_AddElement
<1> QED BY <1>2, <1>3, <1>7, <1>8

\* Where nothing is appended the counts stay.
LEMMA TextsStay ==
  ASSUME UNCHANGED timeline
  PROVE  Users' = Users /\ \A i : SaidBy(i)' = SaidBy(i)
  BY DEF Users, SaidBy

\* A page of list_messages holds stored texts behind the cursor, and leaves out
\* none before its last one.
LEMMA PageFacts ==
  ASSUME SessionTypeOK, NEW from \in Nat, NEW limit \in Nat
  PROVE  LET page == PageAfter(from, limit)
         IN /\ page \subseteq DOMAIN timeline
            /\ \A k \in page : k > from /\ timeline[k] \in rows
            /\ \A k \in page, j \in DOMAIN timeline :
                 from < j /\ j <= k /\ timeline[j] \in rows => j \in page
            /\ page # {} => \E k \in page : \A j \in page : j <= k
<1> DEFINE after == {k \in DOMAIN timeline : k > from /\ timeline[k] \in rows}
           upto(k) == {j \in after : j <= k}
           page == PageAfter(from, limit)
<1>1. page = {k \in after : Cardinality(upto(k)) <= limit}
  BY DEF PageAfter
<1>2. DOMAIN timeline = 1..Len(timeline) /\ Len(timeline) \in Nat
  BY TimelineTypes
<1>3. \A k : IsFiniteSet(upto(k))
  <2>1. IsFiniteSet(DOMAIN timeline)
    BY <1>2, FS_Interval
  <2>2. \A k : upto(k) \subseteq DOMAIN timeline
    OBVIOUS
  <2> HIDE DEF upto
  <2> QED BY <2>1, <2>2, FS_Subset
<1>4. ASSUME NEW k \in page, NEW j \in after, j <= k PROVE j \in page
  <2>1. upto(j) \subseteq upto(k)
    BY <1>1, <1>2, <1>4
  <2>2. Cardinality(upto(j)) <= Cardinality(upto(k))
    BY <1>3, <2>1, FS_Subset
  <2> HIDE DEF upto, page, after
  <2>3. Cardinality(upto(j)) \in Nat /\ Cardinality(upto(k)) \in Nat
    BY <1>3, FS_CardinalityType
  <2> QED BY <1>1, <1>4, <2>2, <2>3
<1>5. page \subseteq 1..Len(timeline)
  BY <1>1, <1>2
<1>6. page # {} => \E k \in page : \A j \in page : j <= k
  BY <1>2, <1>5, Highest
<1> QED BY <1>1, <1>4, <1>6

\* _latest_user_message_id names a message of the timeline, or none.
LEMMA LatestFacts ==
  ASSUME SessionTypeOK
  PROVE  \/ LatestUser = 0
         \/ \E k \in DOMAIN timeline : timeline[k][1] = "user" /\ LatestUser = timeline[k][2]
<1> DEFINE us == {k \in PageAfter(0, ResumePage) : timeline[k][1] = "user"}
           last == CHOOSE k \in us : \A j \in us : j <= k
<1>1. DOMAIN timeline = 1..Len(timeline) /\ Len(timeline) \in Nat
  BY TimelineTypes
<1>2. us \subseteq 1..Len(timeline)
  BY <1>1, PageFacts, SessionsBounds
<1>3. LatestUser = IF us = {} THEN 0 ELSE timeline[last][2]
  BY DEF LatestUser
<1>4. us # {} => last \in us
  <2> HIDE DEF us
  <2> QED BY <1>1, <1>2, Highest
<1> QED BY <1>1, <1>2, <1>3, <1>4

\* The numbers that the texts of the timeline carry.
LEMMA ItemFacts ==
  /\ \A x \in Items : x[1] = "user" => x[2] \in 1..MaxMsgs
  /\ \A x \in Items : x[1] = "said" => x[2] \in 1..MaxInvs /\ x[3] \in 1..MaxSaid
  /\ \A n : User(n)[1] = "user" /\ User(n)[2] = n
  /\ \A i, k : Said(i, k)[1] = "said" /\ Said(i, k)[2] = i /\ Said(i, k)[3] = k
  BY DEF Items, User, Said

\* What the handler has in hand.
Hands ==
  /\ DOMAIN ops = 1..Len(ops) /\ Len(ops) \in Nat
  /\ DOMAIN invs = 1..Len(invs) /\ Len(invs) \in Nat
  /\ \A k \in DOMAIN ops : ops[k] \in Operation
  /\ \A i \in DOMAIN invs : invs[i] \in Investigation
  /\ sess.inv \in 0..Len(invs) /\ sess.status \in Status
  /\ handler.pc # "off" => handler.op \in DOMAIN ops /\ Op \in Operation /\ Op.state = "running"
  /\ handler.pc \in {"created", "bound"} => Len(invs) \in DOMAIN invs
  /\ handler.pc \in Driving => sess.inv \in DOMAIN invs
  /\ handler.pc \notin {"off", "load"} => Op.msg \in 1..MaxMsgs

LEMMA InHand ==
  ASSUME SessionTypeOK, HandlerKnown
  PROVE  Hands
<1>1. /\ DOMAIN ops = 1..Len(ops) /\ Len(ops) \in Nat
      /\ DOMAIN invs = 1..Len(invs) /\ Len(invs) \in Nat
  BY LenProperties DEF SessionTypeOK
<1>2. \A k \in DOMAIN ops : ops[k] \in Operation
  BY <1>1, ElementOfSeq DEF SessionTypeOK
<1>3. \A i \in DOMAIN invs : invs[i] \in Investigation
  BY <1>1, ElementOfSeq DEF SessionTypeOK
<1>4. sess.inv \in 0..Len(invs) /\ sess.status \in Status
  BY DEF SessionTypeOK
<1>5. handler.pc # "off" => handler.op \in DOMAIN ops /\ Op \in Operation /\ Op.state = "running"
  BY <1>2 DEF HandlerKnown, Op
<1>6. handler.pc \notin {"off", "load"} => Op.msg \in 1..MaxMsgs
  BY <1>5, SessionsBounds DEF HandlerKnown, Operation
<1> QED BY <1>1, <1>2, <1>3, <1>4, <1>5, <1>6 DEF Hands, HandlerKnown, Driving

\* A step of the handler changes its place and keeps its operation.
LEMMA Moves ==
  ASSUME SessionTypeOK, NEW pc \in HandlerPlaces, HandlerTo(pc)
  PROVE  /\ handler' \in [pc : HandlerPlaces, op : 0..Len(ops)] /\ handler'.op = handler.op /\ handler'.pc = pc
  BY DEF SessionTypeOK, HandlerTo

\* Every step keeps the types.
LEMMA SessionTypesKept ==
  ASSUME SessionTypeOK, HandlerKnown, TimelineKnown, [SessionNext]_sessionVars
  PROVE  SessionTypeOK'
<1> USE DEF product, client, Hands
<1>h. Hands
  BY InHand
<1>n. 0 \in Nat /\ Len(timeline) \in Nat /\ {MaxActive, Page, ResumePage} \subseteq Nat \ {0}
      /\ {MaxMsgs, MaxOps, MaxInvs, MaxSaid, MaxCrashes} \subseteq Nat
  BY SessionsBounds, TimelineTypes
<1>1. CASE Claim
  <2>1. PICK k \in DOMAIN ops : /\ ops' = [ops EXCEPT ![k].state = "running"]
                                /\ handler' = [pc |-> "load", op |-> k]
    BY <1>1 DEF Claim
  <2>2. OpMoves(k, "running")
    BY <2>1, MovesOp
  <2> QED BY <1>1, <1>h, <2>1, <2>2 DEF Claim, OpMoves, SessionTypeOK, HandlerPlaces
<1>2. ASSUME NEW state \in {"failed", "succeeded"}, Ends(state), handler.pc # "off",
             UNCHANGED <<product, timeline, invs, target, route, client, crashes>>
      PROVE  SessionTypeOK'
  <2>1. OpMoves(handler.op, state)
    BY <1>2, <1>h, MovesOp DEF Ends
  <2> QED BY <1>2, <2>1 DEF OpMoves, SessionTypeOK, HandlerPlaces, Ends
<1>3. CASE LoadFails \/ CreateFails \/ StartRefused \/ RunRaises
  BY <1>2, <1>3 DEF LoadFails, CreateFails, StartRefused, RunRaises, Raises
<1>4. CASE Done
  BY <1>2, <1>4 DEF Done
<1>5. CASE LoadExisting
  BY <1>5, Moves DEF LoadExisting, SessionTypeOK, HandlerPlaces
<1>6. CASE Create
  <2> DEFINE r == [status |-> "created", symptom |-> Op.msg]
  <2>1. r \in Investigation
    <3>1. Op.msg \in 1..MaxMsgs
      BY <1>6, <1>h, <1>n DEF Create, Unavailable, Operation
    <3> QED BY <3>1 DEF Investigation, InvStatus
  <2>2. InvAdded(r)
    BY <1>6, <2>1, AddsInv DEF Create
  <2>3. handler' \in [pc : HandlerPlaces, op : 0..Len(ops)]
    BY <1>6, Moves DEF Create, HandlerPlaces
  <2>4. bound \in [1..MaxMsgs -> (0..Len(invs')) \X {0, 1}]
    <3>1. (0..Len(invs)) \X {0, 1} \subseteq (0..Len(invs')) \X {0, 1}
      BY <1>h, <2>2 DEF InvAdded
    <3> QED BY <3>1 DEF SessionTypeOK
  <2>5. sess \in [status : Status, inv : 0..Len(invs')]
    BY <1>h, <2>2 DEF InvAdded, SessionTypeOK
  <2> QED BY <1>6, <2>2, <2>3, <2>4, <2>5 DEF Create, InvAdded, SessionTypeOK
<1>7. CASE BindInvestigation
  BY <1>7, <1>h, Moves DEF BindInvestigation, SessionTypeOK, HandlerPlaces, Status
<1>8. CASE BindMessage
  <2>1. handler' \in [pc : HandlerPlaces, op : 0..Len(ops)]
    BY <1>8, Moves DEF BindMessage, HandlerPlaces
  <2>2. <<Len(invs), 0>> \in (0..Len(invs)) \X {0, 1}
    BY <1>h
  <2>3. bound' \in [1..MaxMsgs -> (0..Len(invs)) \X {0, 1}]
    BY <1>8, <2>2 DEF BindMessage, Bind, SessionTypeOK
  <2> QED BY <1>8, <2>1, <2>3 DEF BindMessage, SessionTypeOK
<1>9. ASSUME NEW i \in DOMAIN invs, NEW status \in InvStatus,
             invs' = [invs EXCEPT ![i].status = status],
             handler' \in [pc : HandlerPlaces, op : 0..Len(ops)],
             UNCHANGED <<product, timeline, ops, target, route, client, crashes>>
      PROVE  SessionTypeOK'
  <2>1. InvMoves(i, status)
    BY <1>9, MovesInv
  <2> QED BY <1>9, <2>1 DEF InvMoves, SessionTypeOK
<1>10. CASE Start
  BY <1>10, <1>9, <1>h, Moves DEF Start, HandlerPlaces, Driving, InvStatus
<1>11. CASE RunEnds
  <2>1. PICK o \in RunOutcome(invs[sess.inv].status) : invs' = [invs EXCEPT ![sess.inv].status = o]
    BY <1>11 DEF RunEnds
  <2>2. o \in InvStatus
    BY <1>11, <1>h, <2>1 DEF RunEnds, Awaits, RunOutcome, Driving, InvStatus, Terminal, Investigation
  <2> QED BY <1>11, <1>9, <1>h, <2>1, <2>2, Moves DEF RunEnds, Awaits, HandlerPlaces, Driving
<1>12. CASE RunSays
  <2> DEFINE n == Cardinality(SaidBy(sess.inv)) + 1
  <2>1. n \in 1..MaxSaid
    BY <1>12, <1>n, TimelineTypes DEF RunSays
  <2>2. sess.inv \in 1..MaxInvs
    BY <1>12, <1>h, <1>n DEF RunSays, Driving, HandlerKnown
  <2>3. Said(sess.inv, n) \in Items
    BY <2>1, <2>2 DEF Items
  <2>4. timeline' \in Seq(Items) /\ Len(timeline') = Len(timeline) + 1
    BY <1>12, <2>3, TextAdded DEF RunSays
  <2> QED BY <1>12, <1>n, <2>4 DEF RunSays, SessionTypeOK
<1>13. CASE Rebind
  BY <1>13, Moves DEF Rebind, SessionTypeOK, HandlerPlaces, Status
<1>14. CASE Project
  <2>1. handler' \in [pc : HandlerPlaces, op : 0..Len(ops)]
    BY <1>14, Moves DEF Project, HandlerPlaces
  <2>2. <<sess.inv, 1>> \in (0..Len(invs)) \X {0, 1}
    BY <1>h
  <2>3. bound' \in [1..MaxMsgs -> (0..Len(invs)) \X {0, 1}]
    BY <1>14, <2>2 DEF Project, Bind, SessionTypeOK
  <2>4. Projection(sess.inv) \subseteq Items
    BY TimelineTypes DEF Projection, SaidBy
  <2>5. rows' \subseteq Items
    BY <1>14, <2>4 DEF Project, Stored, SessionTypeOK
  <2> QED BY <1>14, <2>1, <2>3, <2>5 DEF Project, SessionTypeOK
<1>28. CASE ProjectNothing
  <2>1. handler' \in [pc : HandlerPlaces, op : 0..Len(ops)]
    BY <1>28, Moves DEF ProjectNothing, HandlerPlaces
  <2> QED BY <1>28, <2>1 DEF ProjectNothing, SessionTypeOK
<1>15. CASE Sync
  <2>1. SessionStatus(invs[sess.inv].status) \in Status
    BY <1>15, <1>h DEF Sync, SessionStatus, Investigation, Status, Driving
  <2> QED BY <1>15, <2>1, Moves DEF Sync, UpdateSession, SessionTypeOK, HandlerPlaces
<1>16. ASSUME NEW op \in Operation, ops' = Append(ops, op),
              UNCHANGED <<product, timeline, invs, target, handler, client, crashes>>,
              route' \in {"off", "appended", "enqueued"}
       PROVE  SessionTypeOK'
  <2>1. OpAdded(op)
    BY <1>16, AddsOp
  <2>2. handler \in [pc : HandlerPlaces, op : 0..Len(ops')]
    BY <1>h, <2>1 DEF OpAdded, SessionTypeOK
  <2> QED BY <1>16, <2>1, <2>2 DEF OpAdded, SessionTypeOK
<1>17. CASE Enqueue
  <2>1. NewOp("message", Users) \in Operation
    BY <1>h, <1>n, TimelineTypes DEF NewOp, Operation, TimelineKnown, HandlerKnown
  <2> QED BY <1>17, <1>16, <2>1 DEF Enqueue
<1>18. CASE Resume
  <2>1. LatestUser \in 0..MaxMsgs
    BY <1>n, LatestFacts, TimelineTypes, ItemFacts
  <2>2. NewOp("resume", LatestUser) \in Operation
    BY <1>h, <1>n, <2>1 DEF NewOp, Operation, HandlerKnown
  <2> QED BY <1>18, <1>16, <2>2 DEF Resume
<1>19. CASE Activate
  BY <1>19 DEF Activate, UpdateSession, SessionTypeOK, Status
<1>20. CASE SendMessage
  <2>1. User(Users + 1) \in Items
    <3>1. Users + 1 \in 1..MaxMsgs
      BY <1>20, <1>n, TimelineTypes DEF SendMessage
    <3> QED BY <3>1 DEF Items
  <2>2. timeline' \in Seq(Items) /\ Len(timeline') = Len(timeline) + 1
    BY <1>20, <2>1, TextAdded DEF SendMessage
  <2> QED BY <1>20, <1>n, <2>1, <2>2 DEF SendMessage, Stored, SessionTypeOK
<1>21. CASE CancelQueued
  <2>1. PICK k \in DOMAIN ops : ops' = [ops EXCEPT ![k].state = "cancelled"]
    BY <1>21 DEF CancelQueued
  <2>2. OpMoves(k, "cancelled")
    BY <2>1, MovesOp
  <2> QED BY <1>21, <2>2 DEF CancelQueued, OpMoves, SessionTypeOK
<1>22. CASE DeleteTarget \/ DeleteProject
  BY <1>22 DEF DeleteTarget, DeleteProject, SessionTypeOK
<1>23. CASE Poll
  <2> DEFINE page == PageAfter(cursor, Page)
             last == CHOOSE k \in page : \A j \in page : j <= k
  <2>1. page \subseteq DOMAIN timeline /\ \E k \in page : \A j \in page : j <= k
    <3>1. cursor \in Nat /\ Page \in Nat
      BY <1>n DEF SessionTypeOK
    <3> QED BY <1>23, <3>1, PageFacts DEF Poll
  <2>2. last \in DOMAIN timeline
    BY <2>1
  <2>3. cursor' \in 0..Len(timeline)
    BY <1>23, <1>n, <2>2, TimelineTypes DEF Poll
  <2>4. shown' \subseteq Items
    BY <1>23, <2>1, TimelineTypes DEF Poll, SessionTypeOK
  <2> QED BY <1>23, <2>3, <2>4 DEF Poll, SessionTypeOK
<1>24. CASE CancelInvestigation
  <2>1. PICK i \in DOMAIN invs : invs' = [invs EXCEPT ![i].status =
                     IF @ = "created" THEN "cancelled" ELSE "cancel_requested"]
    BY <1>24 DEF CancelInvestigation
  <2> DEFINE st == IF invs[i].status = "created" THEN "cancelled" ELSE "cancel_requested"
  <2>2. invs' = [invs EXCEPT ![i].status = st] /\ st \in InvStatus
    BY <2>1 DEF InvStatus, Terminal
  <2>3. handler' \in [pc : HandlerPlaces, op : 0..Len(ops)]
    BY <1>24 DEF CancelInvestigation, SessionTypeOK
  <2> HIDE DEF st
  <2> QED BY <1>24, <1>9, <2>2, <2>3 DEF CancelInvestigation
<1>25. CASE Decided
  <2>1. PICK i \in DOMAIN invs :
          /\ \E s \in {"running", "waiting_approval", "paused", "failed", "completed"} :
               invs' = [invs EXCEPT ![i].status = s]
          /\ \/ UNCHANGED timeline
             \/ /\ Cardinality(SaidBy(i)) < MaxSaid
                /\ timeline' = Append(timeline, Said(i, Cardinality(SaidBy(i)) + 1))
    BY <1>25 DEF Decided
  <2>2. PICK st \in {"running", "waiting_approval", "paused", "failed", "completed"} :
          invs' = [invs EXCEPT ![i].status = st]
    BY <2>1
  <2>3. InvMoves(i, st)
    <3>1. st \in InvStatus
      BY DEF InvStatus, Terminal
    <3> QED BY <2>2, <3>1, MovesInv
  <2>4. timeline' \in Seq(Items) /\ Len(timeline') >= Len(timeline)
    <3>1. CASE timeline' = Append(timeline, Said(i, Cardinality(SaidBy(i)) + 1)) /\ Cardinality(SaidBy(i)) < MaxSaid
      <4>1. Said(i, Cardinality(SaidBy(i)) + 1) \in Items
        <5>1. i \in 1..MaxInvs
          <6>1. i \in 1..Len(invs) /\ Len(invs) \in Nat /\ Len(invs) <= MaxInvs
            BY <2>1, <1>h DEF HandlerKnown
          <6> QED BY <6>1, <1>n
        <5>2. Cardinality(SaidBy(i)) + 1 \in 1..MaxSaid
          <6>1. Cardinality(SaidBy(i)) \in Nat
            BY TimelineTypes
          <6> HIDE DEF Hands
          <6> QED BY <3>1, <6>1, <1>n
        <5> QED BY <5>1, <5>2 DEF Items
      <4> QED BY <3>1, <4>1, <1>n, TextAdded
    <3>2. CASE UNCHANGED timeline
      BY <3>2, <1>n DEF SessionTypeOK
    <3> QED BY <2>1, <3>1, <3>2
  <2>5. cursor' \in 0..Len(timeline') /\ shown' \subseteq Items
    BY <1>25, <1>n, <2>4, LenProperties DEF Decided, SessionTypeOK
  <2> QED BY <1>25, <2>3, <2>4, <2>5 DEF Decided, InvMoves, SessionTypeOK
<1>29. ASSUME SweepInvestigations \/ RecoverInvestigations
       PROVE  invs' \in Seq(Investigation) /\ Len(invs') = Len(invs)
  <2>1. \A i \in DOMAIN invs : invs'[i] \in Investigation
    <3>1. CASE SweepInvestigations
      BY <3>1, <1>h DEF SweepInvestigations, Investigation, InvStatus, Terminal
    <3>2. CASE RecoverInvestigations
      BY <3>2, <1>h DEF RecoverInvestigations, Investigation, InvStatus, Terminal
    <3> QED BY <1>29, <3>1, <3>2
  <2>2. invs' \in [1..Len(invs) -> Investigation]
    BY <1>29, <1>h, <2>1 DEF SweepInvestigations, RecoverInvestigations
  <2> QED BY <1>h, <2>2
<1>30. ASSUME NEW f, \A k \in DOMAIN ops : f[k] \in {"queued", "running", "succeeded", "failed", "cancelled"},
              ops' = [k \in DOMAIN ops |-> IF ops[k].state = "running"
                                           THEN [ops[k] EXCEPT !.state = f[k]] ELSE ops[k]]
       PROVE  ops' \in Seq(Operation) /\ Len(ops') = Len(ops)
  <2>1. \A k \in DOMAIN ops : ops'[k] \in Operation
    BY <1>30, <1>h DEF Operation
  <2>2. ops' \in [1..Len(ops) -> Operation]
    BY <1>30, <1>h, <2>1
  <2> QED BY <1>h, <2>2
<1>26. CASE Crash
  <2> DEFINE f == [k \in DOMAIN ops |-> Reconciled(ops[k])]
  <2>1. ops' \in Seq(Operation) /\ Len(ops') = Len(ops)
    <3>1. \A k \in DOMAIN ops : f[k] \in {"queued", "running", "succeeded", "failed", "cancelled"}
      BY DEF Reconciled
    <3>2. ops' = [k \in DOMAIN ops |-> IF ops[k].state = "running"
                                       THEN [ops[k] EXCEPT !.state = f[k]] ELSE ops[k]]
      BY <1>26 DEF Crash
    <3> HIDE DEF f
    <3> QED BY <3>1, <3>2, <1>30
  <2> QED BY <1>26, <1>n, <1>29, <2>1 DEF Crash, SessionTypeOK, HandlerPlaces
<1>31. CASE Stop
  <2> DEFINE f == [k \in DOMAIN ops |-> "queued"]
  <2>1. ops' \in Seq(Operation) /\ Len(ops') = Len(ops)
    <3>1. \A k \in DOMAIN ops : f[k] \in {"queued", "running", "succeeded", "failed", "cancelled"}
      OBVIOUS
    <3>2. ops' = [k \in DOMAIN ops |-> IF ops[k].state = "running"
                                       THEN [ops[k] EXCEPT !.state = f[k]] ELSE ops[k]]
      BY <1>31 DEF Stop
    <3> HIDE DEF f
    <3> QED BY <3>1, <3>2, <1>30
  <2> QED BY <1>31, <1>n, <1>29, <2>1 DEF Stop, SessionTypeOK, HandlerPlaces
<1>27. CASE UNCHANGED sessionVars
  BY <1>27 DEF sessionVars, SessionTypeOK
<1> QED BY <1>1, <1>3, <1>4, <1>5, <1>6, <1>7, <1>8, <1>10, <1>11, <1>12, <1>13, <1>14,
   <1>15, <1>17, <1>18, <1>19, <1>20, <1>21, <1>22, <1>23, <1>24, <1>25, <1>26, <1>27, <1>28, <1>31
   DEF SessionNext, Handler, Routes

-----------------------------------------------------------------------------
(* What each step does to the operations, the investigations and the texts. *)

\* The handler goes on with its operation.
OpsStay ==
  /\ ops' = ops
  /\ \/ handler' = handler
     \/ handler.pc # "off" /\ handler'.pc # "off" /\ handler'.op = handler.op

\* The oldest queued operation is claimed.
OpClaimed ==
  \E k \in DOMAIN ops :
    /\ ops[k].state = "queued" /\ \A j \in 1..k - 1 : ops[j].state # "queued"
    /\ OpMoves(k, "running")
    /\ handler.pc = "off" /\ route = "off" /\ handler' = [pc |-> "load", op |-> k]

\* The handler ends.
OpEnded ==
  \E state \in {"failed", "succeeded"} :
    /\ OpMoves(handler.op, state)
    /\ handler.pc # "off" /\ handler.op \in DOMAIN ops /\ handler' = [pc |-> "off", op |-> 0]
    /\ state = "succeeded" => Done
    /\ state = "failed" => opened' = opened \cup {"raised"}

OpCancelled ==
  \E k \in DOMAIN ops :
    /\ ops[k].state = "queued" /\ OpMoves(k, "cancelled")
    /\ handler' = handler /\ route = "off" /\ opened' = opened \cup {"dropped"}

\* The route enqueues a message, or a resume of the latest one.
OpEnqueued ==
  \E op \in Operation :
    /\ OpAdded(op) /\ handler' = handler /\ op.inv = sess.inv /\ op.state = "queued"
    /\ route' = "enqueued"
    /\ \/ route = "appended" /\ op.act = "message" /\ op.msg = Users
       \/ route = "off" /\ op.act = "resume" /\ op.msg = LatestUser

\* Recovery decides about what was running.
OpsRecovered ==
  /\ Crash
  /\ ops' \in Seq(Operation) /\ DOMAIN ops' = DOMAIN ops
  /\ \A k \in DOMAIN ops :
       /\ ops'[k].act = ops[k].act /\ ops'[k].msg = ops[k].msg /\ ops'[k].inv = ops[k].inv
       /\ ops'[k].state = IF ops[k].state = "running" THEN Reconciled(ops[k]) ELSE ops[k].state
       /\ ops[k].state = "running" =>
            (IF Reconciled(ops[k]) = "succeeded" THEN "relinked" ELSE "crash") \in opened'

\* The orderly stop puts back what was running.
OpsSwept ==
  /\ Stop
  /\ ops' \in Seq(Operation) /\ DOMAIN ops' = DOMAIN ops
  /\ \A k \in DOMAIN ops :
       /\ ops'[k].act = ops[k].act /\ ops'[k].msg = ops[k].msg /\ ops'[k].inv = ops[k].inv
       /\ ops'[k].state = IF ops[k].state = "running" THEN "queued" ELSE ops[k].state
       /\ ops[k].state = "running" => "requeued" \in opened'

LEMMA OpsStep ==
  ASSUME SessionTypeOK, HandlerKnown, TimelineKnown, [SessionNext]_sessionVars
  PROVE  \/ OpsStay \/ OpClaimed \/ OpEnded \/ OpCancelled \/ OpEnqueued
         \/ OpsRecovered \/ OpsSwept
<1> USE DEF product, client, Hands
<1>h. Hands
  BY InHand
<1>1. CASE Claim
  <2>1. PICK k \in DOMAIN ops :
          /\ ops[k].state = "queued" /\ \A j \in 1..k - 1 : ops[j].state # "queued"
          /\ ops' = [ops EXCEPT ![k].state = "running"]
          /\ handler' = [pc |-> "load", op |-> k]
    BY <1>1 DEF Claim
  <2>2. OpMoves(k, "running")
    BY <2>1, MovesOp
  <2> QED BY <1>1, <2>1, <2>2 DEF Claim, Free, OpClaimed
<1>2. ASSUME NEW state \in {"failed", "succeeded"}, Ends(state), handler.pc # "off",
             state = "succeeded" => Done,
             state = "failed" => opened' = opened \cup {"raised"}
      PROVE  OpEnded
  <2>1. OpMoves(handler.op, state)
    BY <1>2, <1>h, MovesOp DEF Ends
  <2> QED BY <1>2, <1>h, <2>1 DEF Ends, OpEnded
<1>3. CASE LoadFails \/ CreateFails \/ StartRefused \/ RunRaises
  BY <1>2, <1>3 DEF LoadFails, CreateFails, StartRefused, RunRaises, Raises
<1>4. CASE Done
  BY <1>2, <1>4 DEF Done
<1>5. ASSUME NEW pc \in HandlerPlaces \ {"off"}, HandlerTo(pc), handler.pc # "off", ops' = ops
      PROVE  OpsStay
  BY <1>5, Moves DEF OpsStay
<1>6. CASE LoadExisting \/ Create \/ BindInvestigation \/ BindMessage \/ Start \/ RunEnds
            \/ Rebind \/ Project \/ ProjectNothing \/ Sync
  BY <1>5, <1>6 DEF LoadExisting, Create, BindInvestigation, BindMessage, Start, RunEnds, Awaits,
     Rebind, Project, ProjectNothing, Sync, HandlerPlaces
<1>7. CASE RunSays \/ Activate \/ SendMessage \/ DeleteTarget \/ DeleteProject \/ Poll
            \/ CancelInvestigation \/ Decided \/ UNCHANGED sessionVars
  BY <1>7 DEF RunSays, Activate, SendMessage, DeleteTarget, DeleteProject, Poll,
     CancelInvestigation, Decided, sessionVars, OpsStay
<1>8. CASE Enqueue
  <2>1. NewOp("message", Users) \in Operation
    BY <1>h, SessionsBounds, TimelineTypes DEF NewOp, Operation, TimelineKnown, HandlerKnown
  <2>2. OpAdded(NewOp("message", Users))
    BY <1>8, <2>1, AddsOp DEF Enqueue
  <2> QED BY <1>8, <2>1, <2>2 DEF Enqueue, OpEnqueued, NewOp
<1>9. CASE Resume
  <2>1. LatestUser \in 0..MaxMsgs
    BY SessionsBounds, LatestFacts, TimelineTypes, ItemFacts
  <2>2. NewOp("resume", LatestUser) \in Operation
    BY <1>h, SessionsBounds, <2>1 DEF NewOp, Operation, HandlerKnown
  <2>3. OpAdded(NewOp("resume", LatestUser))
    BY <1>9, <2>2, AddsOp DEF Resume
  <2> QED BY <1>9, <2>2, <2>3 DEF Resume, Free, OpEnqueued, NewOp
<1>10. CASE CancelQueued
  <2>1. PICK k \in DOMAIN ops : /\ ops[k].state = "queued"
                                /\ ops' = [ops EXCEPT ![k].state = "cancelled"]
    BY <1>10 DEF CancelQueued
  <2>2. OpMoves(k, "cancelled")
    BY <2>1, MovesOp
  <2> QED BY <1>10, <2>1, <2>2 DEF CancelQueued, Free, OpCancelled
<1>11. CASE Crash
  <2>1. SessionTypeOK'
    BY SessionTypesKept
  <2>2. \A k \in DOMAIN ops :
          /\ ops'[k].act = ops[k].act /\ ops'[k].msg = ops[k].msg /\ ops'[k].inv = ops[k].inv
          /\ ops'[k].state = IF ops[k].state = "running" THEN Reconciled(ops[k]) ELSE ops[k].state
    BY <1>11, <1>h DEF Crash, Operation
  <2>3. \A k \in DOMAIN ops : ops[k].state = "running" =>
          (IF Reconciled(ops[k]) = "succeeded" THEN "relinked" ELSE "crash") \in opened'
    BY <1>11 DEF Crash
  <2>4. DOMAIN ops' = DOMAIN ops
    BY <1>11 DEF Crash
  <2> QED BY <1>11, <2>1, <2>2, <2>3, <2>4 DEF SessionTypeOK, OpsRecovered
<1>12. CASE Stop
  <2>1. SessionTypeOK'
    BY SessionTypesKept
  <2>2. \A k \in DOMAIN ops :
          /\ ops'[k].act = ops[k].act /\ ops'[k].msg = ops[k].msg /\ ops'[k].inv = ops[k].inv
          /\ ops'[k].state = IF ops[k].state = "running" THEN "queued" ELSE ops[k].state
    BY <1>12, <1>h DEF Stop, Operation
  <2>3. \A k \in DOMAIN ops : ops[k].state = "running" => "requeued" \in opened'
    BY <1>12 DEF Stop, Free, HandlerKnown
  <2>4. DOMAIN ops' = DOMAIN ops
    BY <1>12 DEF Stop
  <2> QED BY <1>12, <2>1, <2>2, <2>3, <2>4 DEF SessionTypeOK, OpsSwept
<1> QED BY <1>1, <1>3, <1>4, <1>6, <1>7, <1>8, <1>9, <1>10, <1>11, <1>12
   DEF SessionNext, Handler, Routes

\* An investigation is opened for the message of the operation.
InvOpened == Create /\ Op.act = "message" /\ InvAdded([status |-> "created", symptom |-> Op.msg])

\* An investigation that is not over changes its status; one that is over stays
\* so, and no other is touched.
InvChanged ==
  \E i \in DOMAIN invs, status \in InvStatus :
    /\ InvMoves(i, status)
    /\ status \in Terminal \/ Live(i)
    /\ \/ i = sess.inv /\ handler.pc \in {"start", "run", "waits"} /\ handler'.pc # "off"
       \/ "outside" \in opened' /\ handler' = handler

InvsRecovered ==
  /\ Crash \/ Stop
  /\ invs' \in Seq(Investigation) /\ DOMAIN invs' = DOMAIN invs /\ Len(invs') = Len(invs)
  /\ \A i \in DOMAIN invs : invs'[i].symptom = invs[i].symptom /\ (Live(i)' => Live(i))

LEMMA OpensOne ==
  ASSUME SessionTypeOK, HandlerKnown, Create
  PROVE  InvOpened /\ Len(invs) < MaxInvs /\ Op.msg # 0
<1>h. Hands
  BY InHand
<1>1. Op.act = "message" /\ Op.msg \in 1..MaxMsgs /\ Len(invs) < MaxInvs
  BY <1>h, SessionsBounds DEF Create, Unavailable, Operation, Hands
<1>2. [status |-> "created", symptom |-> Op.msg] \in Investigation
  BY <1>1 DEF Investigation, InvStatus
<1>3. InvAdded([status |-> "created", symptom |-> Op.msg])
  BY <1>2, AddsInv DEF Create
<1> QED BY <1>1, <1>3 DEF InvOpened

LEMMA InvsStep ==
  ASSUME SessionTypeOK, HandlerKnown, TimelineKnown, [SessionNext]_sessionVars
  PROVE  UNCHANGED invs \/ InvOpened \/ InvChanged \/ InvsRecovered
<1> USE DEF product, client, Hands
<1>h. Hands
  BY InHand
<1>1. CASE Create
  BY <1>1, OpensOne
<1>2. CASE Start
  <2>1. sess.inv \in DOMAIN invs
    BY <1>2, <1>h DEF Start, Driving
  <2>2. InvMoves(sess.inv, "running")
    BY <1>2, <2>1, MovesInv DEF Start, InvStatus
  <2>3. Live(sess.inv)
    BY <1>2 DEF Start, Startable, Live
  <2>4. handler'.pc # "off"
    BY <1>2, Moves DEF Start, HandlerPlaces
  <2> QED BY <1>2, <2>1, <2>2, <2>3, <2>4 DEF Start, InvChanged, InvStatus
<1>3. CASE RunEnds
  <2>1. PICK o \in RunOutcome(invs[sess.inv].status) : invs' = [invs EXCEPT ![sess.inv].status = o]
    BY <1>3 DEF RunEnds
  <2>3. sess.inv \in DOMAIN invs
    BY <1>3, <1>h DEF RunEnds, Awaits, Driving
  <2>2. o \in InvStatus /\ (o \in Terminal \/ Live(sess.inv))
    BY <1>3, <1>h, <2>1, <2>3 DEF RunEnds, RunOutcome, InvStatus, Terminal, Live, Investigation
  <2>4. InvMoves(sess.inv, o)
    BY <2>1, <2>2, <2>3, MovesInv
  <2>5. handler'.pc = "ended"
    BY <1>3, Moves DEF RunEnds, HandlerPlaces
  <2> QED BY <1>3, <2>2, <2>3, <2>4, <2>5 DEF RunEnds, Awaits, InvChanged
<1>4. CASE CancelInvestigation
  <2>1. PICK i \in DOMAIN invs :
          /\ Live(i)
          /\ invs' = [invs EXCEPT ![i].status =
                     IF @ = "created" THEN "cancelled" ELSE "cancel_requested"]
          /\ opened' = opened \cup (IF Awaits /\ i = sess.inv THEN {} ELSE {"outside"})
    BY <1>4 DEF CancelInvestigation
  <2> DEFINE st == IF invs[i].status = "created" THEN "cancelled" ELSE "cancel_requested"
  <2>2. invs' = [invs EXCEPT ![i].status = st] /\ st \in InvStatus
    BY <2>1 DEF InvStatus, Terminal
  <2> HIDE DEF st
  <2>3. InvMoves(i, st)
    BY <2>2, MovesInv
  <2> QED BY <1>4, <2>1, <2>2, <2>3 DEF CancelInvestigation, Awaits, InvChanged
<1>5. CASE Decided
  <2>1. PICK i \in DOMAIN invs, st \in {"running", "waiting_approval", "paused", "failed", "completed"} :
          /\ invs[i].status \in {"waiting_approval", "running"}
          /\ invs' = [invs EXCEPT ![i].status = st]
    BY <1>5 DEF Decided
  <2>2. st \in InvStatus /\ Live(i)
    BY <2>1 DEF InvStatus, Terminal, Live
  <2>3. InvMoves(i, st)
    BY <2>1, <2>2, MovesInv
  <2> QED BY <1>5, <2>2, <2>3 DEF Decided, InvChanged
<1>6. CASE Crash \/ Stop
  <2>1. SessionTypeOK'
    BY SessionTypesKept
  <2>2. DOMAIN invs' = DOMAIN invs
    BY <1>6 DEF Crash, Stop, RecoverInvestigations, SweepInvestigations
  <2>3. Len(invs') = Len(invs)
    BY <2>1, <2>2, LenProperties DEF SessionTypeOK
  <2>4. \A i \in DOMAIN invs : invs'[i].symptom = invs[i].symptom /\ (Live(i)' => Live(i))
    <3>1. CASE RecoverInvestigations
      BY <3>1, <1>h DEF RecoverInvestigations, Investigation, Live, Terminal
    <3>2. CASE SweepInvestigations
      BY <3>2, <1>h DEF SweepInvestigations, Investigation, Live, Terminal
    <3> QED BY <1>6, <3>1, <3>2 DEF Crash, Stop
  <2> QED BY <1>6, <2>1, <2>2, <2>3, <2>4 DEF SessionTypeOK, InvsRecovered
<1>7. CASE UNCHANGED invs
  BY <1>7
<1>8. CASE LoadFails \/ CreateFails \/ StartRefused \/ RunRaises \/ Done \/ Claim
  BY <1>8 DEF LoadFails, CreateFails, StartRefused, RunRaises, Raises, Done, Claim
<1>9. CASE LoadExisting \/ BindInvestigation \/ BindMessage \/ Rebind \/ Project \/ ProjectNothing \/ Sync
  BY <1>9 DEF LoadExisting, BindInvestigation, BindMessage, Rebind, Project, ProjectNothing, Sync
<1>10. CASE RunSays \/ Activate \/ SendMessage \/ DeleteTarget \/ DeleteProject \/ Poll
  BY <1>10 DEF RunSays, Activate, SendMessage, DeleteTarget, DeleteProject, Poll
<1>11. CASE Enqueue \/ Resume \/ CancelQueued \/ UNCHANGED sessionVars
  BY <1>11 DEF Enqueue, Resume, CancelQueued, sessionVars
<1> QED BY <1>1, <1>2, <1>3, <1>4, <1>5, <1>6, <1>8, <1>9, <1>10, <1>11
   DEF SessionNext, Handler, Routes

\* What is over stays over, what an investigation was opened for stays, and
\* only a message that had none opens another.
LEMMA InvsKept ==
  ASSUME SessionTypeOK, HandlerKnown, TimelineKnown, [SessionNext]_sessionVars
  PROVE  /\ DOMAIN invs \subseteq DOMAIN invs' /\ Len(invs) <= Len(invs')
         /\ \A i \in DOMAIN invs : /\ invs'[i].symptom = invs[i].symptom
                                   /\ Live(i)' => Live(i)
         /\ ~Create => DOMAIN invs' = DOMAIN invs /\ Len(invs') = Len(invs)
<1>h. Hands
  BY InHand
<1>1. CASE UNCHANGED invs
  BY <1>1, <1>h DEF Live, Hands
<1>2. CASE InvOpened
  BY <1>2, <1>h DEF InvOpened, InvAdded, Live, Hands
<1>3. CASE InvChanged
  BY <1>3, <1>h DEF InvChanged, InvMoves, Live, Hands
<1>4. CASE InvsRecovered
  BY <1>4, <1>h DEF InvsRecovered, Hands
<1> QED BY <1>1, <1>2, <1>3, <1>4, InvsStep

\* A run says its next text.
Speaks(i) ==
  /\ i \in 1..MaxInvs /\ Cardinality(SaidBy(i)) + 1 \in 1..MaxSaid
  /\ timeline' = Append(timeline, Said(i, Cardinality(SaidBy(i)) + 1))
  /\ (RunSays /\ i = sess.inv) \/ Decided

\* What the steps do to the texts.
LEMMA TextStep ==
  ASSUME SessionTypeOK, HandlerKnown, TimelineKnown, [SessionNext]_sessionVars
  PROVE  \/ UNCHANGED timeline /\ Users' = Users /\ \A i : SaidBy(i)' = SaidBy(i)
         \/ SendMessage /\ Users' = Users + 1 /\ \A i : SaidBy(i)' = SaidBy(i)
         \/ Users' = Users /\ \E i \in Nat : Speaks(i)
<1>1. CASE UNCHANGED timeline
  BY <1>1, TextsStay
<1>2. CASE SendMessage
  <2>1. Users + 1 \in 1..MaxMsgs
    BY <1>2, SessionsBounds, TimelineTypes DEF SendMessage
  <2>2. User(Users + 1) \in Items
    BY <2>1 DEF Items
  <2> QED BY <1>2, <2>2, TextAdded, ItemFacts DEF SendMessage
<1>3. CASE RunSays
  <2> DEFINE n == Cardinality(SaidBy(sess.inv)) + 1
  <2>1. n \in 1..MaxSaid
    BY <1>3, SessionsBounds, TimelineTypes DEF RunSays
  <2>2. sess.inv \in 1..MaxInvs
    BY <1>3, InHand, SessionsBounds DEF RunSays, Driving, HandlerKnown, Hands
  <2>3. Said(sess.inv, n) \in Items
    BY <2>1, <2>2 DEF Items
  <2>4. Users' = Users
    BY <1>3, <2>3, TextAdded, ItemFacts DEF RunSays
  <2>5. Speaks(sess.inv) /\ sess.inv \in Nat
    BY <1>3, <2>1, <2>2, SessionsBounds DEF RunSays, Speaks
  <2> QED BY <2>4, <2>5
<1>4. CASE LoadFails \/ CreateFails \/ StartRefused \/ RunRaises \/ Done \/ Claim \/ Start \/ RunEnds
  BY <1>4, <1>1 DEF LoadFails, CreateFails, StartRefused, RunRaises, Raises, Done, Claim, Start, RunEnds
<1>5. CASE LoadExisting \/ BindInvestigation \/ BindMessage \/ Rebind \/ Project \/ ProjectNothing
            \/ Sync \/ Create
  BY <1>5, <1>1 DEF LoadExisting, BindInvestigation, BindMessage, Rebind, Project, ProjectNothing, Sync, Create
<1>6. CASE Activate \/ DeleteTarget \/ DeleteProject \/ Poll \/ CancelInvestigation \/ Stop \/ Crash
  BY <1>6, <1>1 DEF Activate, DeleteTarget, DeleteProject, Poll, CancelInvestigation, Stop, Crash
<1>7. CASE Enqueue \/ Resume \/ CancelQueued \/ UNCHANGED sessionVars
  BY <1>7, <1>1 DEF Enqueue, Resume, CancelQueued, sessionVars
<1>8. CASE Decided
  <2>1. PICK i \in DOMAIN invs : \/ UNCHANGED timeline
                                 \/ /\ Cardinality(SaidBy(i)) < MaxSaid
                                    /\ timeline' = Append(timeline, Said(i, Cardinality(SaidBy(i)) + 1))
    BY <1>8 DEF Decided
  <2> DEFINE n == Cardinality(SaidBy(i)) + 1
  <2>2. CASE Cardinality(SaidBy(i)) < MaxSaid /\ timeline' = Append(timeline, Said(i, n))
    <3>1. n \in 1..MaxSaid /\ i \in 1..MaxInvs /\ i \in Nat
      <4>1. i \in 1..Len(invs) /\ Len(invs) \in Nat /\ Len(invs) <= MaxInvs
        BY <2>1, InHand DEF HandlerKnown, Hands
      <4>2. Cardinality(SaidBy(i)) \in Nat /\ Cardinality(SaidBy(i)) < MaxSaid
        BY <2>2, TimelineTypes
      <4>3. MaxSaid \in Nat /\ MaxInvs \in Nat
        BY SessionsBounds
      <4> QED BY <4>1, <4>2, <4>3
    <3>2. Said(i, n) \in Items
      BY <3>1 DEF Items
    <3>3. Users' = Users
      BY <2>2, <3>2, TextAdded, ItemFacts
    <3>4. Speaks(i)
      BY <1>8, <2>2, <3>1 DEF Speaks
    <3> QED BY <3>1, <3>3, <3>4
  <2> QED BY <1>1, <2>1, <2>2
<1> QED BY <1>1, <1>2, <1>3, <1>4, <1>5, <1>6, <1>7, <1>8 DEF SessionNext, Handler, Routes

\* Where the handler goes, and what else its step writes.
Goes(pc) == handler'.pc = pc /\ handler'.op = handler.op /\ ops' = ops /\ UNCHANGED <<timeline, target, route, client>>
HandlerMoves ==
  \/ LoadExisting /\ Goes("start") /\ UNCHANGED <<product, invs>>
  \/ Create /\ Goes("created") /\ UNCHANGED <<product, opened>>
  \/ BindInvestigation /\ Goes("bound") /\ UNCHANGED <<rows, bound, invs, opened>> /\ sess'.inv = Len(invs)
  \/ BindMessage /\ Goes("start") /\ UNCHANGED <<sess, rows, invs, opened>>
  \/ Start /\ (Goes("run") \/ Goes("waits")) /\ UNCHANGED product /\ InvMoves(sess.inv, "running")
  \/ RunEnds /\ Goes("ended") /\ UNCHANGED <<product, opened>>
  \/ Rebind /\ Goes("rebound") /\ UNCHANGED <<rows, bound, invs, opened>> /\ sess'.inv = sess.inv
  \/ Project /\ Goes("projected") /\ UNCHANGED <<sess, invs, opened>>
  \/ ProjectNothing /\ Goes("projected") /\ UNCHANGED <<product, invs>> /\ "untold" \in opened'
  \/ Sync /\ Goes("synced") /\ UNCHANGED <<rows, bound, invs, opened>> /\ sess'.inv = sess.inv

\* A step of anyone else leaves the handler in its place, or off it.
Beside ==
  \/ RunSays \/ Enqueue \/ Activate \/ SendMessage \/ Resume \/ CancelQueued
  \/ DeleteTarget \/ DeleteProject \/ Poll \/ CancelInvestigation \/ Decided
  \/ UNCHANGED sessionVars
Failing == LoadFails \/ CreateFails \/ StartRefused \/ RunRaises

LEMMA PlaceStep ==
  ASSUME SessionTypeOK, HandlerKnown, [SessionNext]_sessionVars
  PROVE  \/ Claim /\ handler.pc = "off" /\ handler'.pc = "load" /\ UNCHANGED <<product, timeline, invs, target, route, client, opened>>
         \/ HandlerMoves
         \/ /\ Failing /\ handler'.pc = "off" /\ opened' = opened \cup {"raised"}
            /\ UNCHANGED <<product, timeline, invs, target, route, client>>
         \/ Done /\ handler'.pc = "off" /\ UNCHANGED <<product, timeline, invs, target, route, client, opened>>
         \/ Beside /\ handler' = handler /\ bound' = bound /\ sess'.inv = sess.inv
         \/ (Crash \/ Stop) /\ handler'.pc = "off" /\ route' = "off" /\ UNCHANGED <<product, timeline, target, client>>
<1> USE DEF product, client
<1>1. CASE Claim
  <2>1. /\ handler.pc = "off" /\ handler'.pc = "load"
        /\ UNCHANGED <<product, timeline, invs, target, route, client, opened>>
    BY <1>1 DEF Claim
  <2> QED BY <1>1, <2>1
<1>2. CASE Failing
  BY <1>2 DEF Failing, LoadFails, CreateFails, StartRefused, RunRaises, Raises, Ends
<1>3. CASE Done
  BY <1>3 DEF Done, Ends
<1>4. CASE Crash \/ Stop
  BY <1>4 DEF Crash, Stop, Free
<1>16. CASE ProjectNothing
  BY <1>16, Moves DEF ProjectNothing, HandlerPlaces, HandlerMoves, Goes
<1>5. CASE LoadExisting
  BY <1>5, Moves DEF LoadExisting, HandlerPlaces, HandlerMoves, Goes
<1>6. CASE Create
  BY <1>6, Moves DEF Create, HandlerPlaces, HandlerMoves, Goes
<1>7. CASE BindInvestigation
  BY <1>7, Moves DEF BindInvestigation, HandlerPlaces, HandlerMoves, Goes
<1>8. CASE BindMessage
  BY <1>8, Moves DEF BindMessage, HandlerPlaces, HandlerMoves, Goes
<1>9. CASE Start
  <2>1. sess.inv \in DOMAIN invs
    BY <1>9, InHand DEF Start, Driving, Hands
  <2>2. InvMoves(sess.inv, "running")
    BY <1>9, <2>1, MovesInv DEF Start, InvStatus
  <2> QED BY <1>9, <2>2, Moves DEF Start, HandlerPlaces, HandlerMoves, Goes
<1>10. CASE RunEnds
  BY <1>10, Moves DEF RunEnds, HandlerPlaces, HandlerMoves, Goes
<1>11. CASE Rebind
  BY <1>11, Moves DEF Rebind, HandlerPlaces, HandlerMoves, Goes, SessionTypeOK
<1>12. CASE Project
  BY <1>12, Moves DEF Project, HandlerPlaces, HandlerMoves, Goes
<1>13. CASE Sync
  BY <1>13, Moves DEF Sync, UpdateSession, HandlerPlaces, HandlerMoves, Goes, SessionTypeOK
<1>14. CASE RunSays \/ Activate \/ SendMessage \/ DeleteTarget \/ DeleteProject \/ Poll
            \/ CancelInvestigation \/ Decided
  BY <1>14 DEF RunSays, Activate, UpdateSession, SendMessage, DeleteTarget, DeleteProject, Poll,
     CancelInvestigation, Decided, Beside, SessionTypeOK
<1>15. CASE Enqueue \/ Resume \/ CancelQueued \/ UNCHANGED sessionVars
  BY <1>15 DEF Enqueue, Resume, CancelQueued, sessionVars, Beside
<1> QED BY <1>1, <1>2, <1>3, <1>4, <1>5, <1>6, <1>7, <1>8, <1>9, <1>10, <1>11, <1>12, <1>13,
   <1>14, <1>15, <1>16 DEF SessionNext, Handler, Routes, Failing

\* A window that was opened stays open.
LEMMA WindowsGrow ==
  ASSUME [SessionNext]_sessionVars
  PROVE  opened \subseteq opened'
<1>1. CASE LoadFails \/ CreateFails \/ StartRefused \/ RunRaises \/ Done \/ Claim \/ Start \/ RunEnds
  BY <1>1 DEF LoadFails, CreateFails, StartRefused, RunRaises, Raises, Done, Claim, Start, RunEnds
<1>2. CASE LoadExisting \/ BindInvestigation \/ BindMessage \/ Rebind \/ Project \/ ProjectNothing
            \/ Sync \/ Create
  BY <1>2 DEF LoadExisting, BindInvestigation, BindMessage, Rebind, Project, ProjectNothing, Sync, Create
<1>3. CASE Activate \/ DeleteTarget \/ DeleteProject \/ Poll \/ CancelInvestigation \/ Decided
  BY <1>3 DEF Activate, DeleteTarget, DeleteProject, Poll, CancelInvestigation, Decided
<1>4. CASE Enqueue \/ Resume \/ CancelQueued \/ RunSays \/ SendMessage \/ UNCHANGED sessionVars
  BY <1>4 DEF Enqueue, Resume, CancelQueued, RunSays, SendMessage, sessionVars
<1>5. CASE Crash \/ Stop
  BY <1>5 DEF Crash, Stop
<1> QED BY <1>1, <1>2, <1>3, <1>4, <1>5 DEF SessionNext, Handler, Routes

-----------------------------------------------------------------------------
(* The parts of the invariant, one by one. *)

\* What the handler has in hand stays right.
LEMMA HandlerKnownKept ==
  ASSUME SessionTypeOK, HandlerKnown, TimelineKnown, [SessionNext]_sessionVars
  PROVE  HandlerKnown'
<1>h. Hands /\ Hands \in BOOLEAN
  BY InHand DEF Hands
<1>1. Len(invs') <= MaxInvs
  <2>1. CASE Create
    BY <2>1, <1>h, OpensOne, SessionsBounds DEF InvOpened, InvAdded, Hands
  <2> QED BY <2>1, InvsKept DEF HandlerKnown
<1>2. route' # "off" => handler'.pc \in {"off", "run", "waits"}
  <2>1. CASE Beside /\ handler' = handler
    BY <2>1 DEF Beside, HandlerKnown, RunSays, Enqueue, Activate, SendMessage, Resume, CancelQueued,
       DeleteTarget, DeleteProject, Poll, CancelInvestigation, Decided, sessionVars, Free, Awaits
  <2>2. CASE HandlerMoves
    BY <2>2 DEF HandlerMoves, Goes, LoadExisting, Create, BindInvestigation, BindMessage, Start,
       RunEnds, Rebind, Project, ProjectNothing, Sync, HandlerKnown
  <2> QED BY <2>1, <2>2, PlaceStep DEF Claim, Free
<1>3. /\ handler'.pc # "off" => handler'.op \in DOMAIN ops' /\ Op'.state = "running"
      /\ \A k \in DOMAIN ops' : ops'[k].state = "running" => handler'.pc # "off" /\ k = handler'.op
  <2>1. CASE OpsStay
    BY <2>1 DEF OpsStay, HandlerKnown, Op
  <2>2. CASE OpClaimed
    BY <2>2 DEF OpClaimed, OpMoves, HandlerKnown, Op
  <2>3. CASE OpEnded
    BY <2>3 DEF OpEnded, OpMoves, HandlerKnown, Op
  <2>4. CASE OpCancelled
    BY <2>4 DEF OpCancelled, OpMoves, HandlerKnown, Op
  <2>5. CASE OpEnqueued
    BY <2>5, <1>h DEF OpEnqueued, OpAdded, HandlerKnown, Op, Hands
  <2>6. CASE OpsRecovered
    BY <2>6 DEF OpsRecovered, Reconciled, HandlerKnown, Op, Crash
  <2>7. CASE OpsSwept
    BY <2>7 DEF OpsSwept, HandlerKnown, Op, Stop
  <2> QED BY <2>1, <2>2, <2>3, <2>4, <2>5, <2>6, <2>7, OpsStep
<1>4. CASE HandlerMoves
  <2>1. UNCHANGED ops /\ Op' = Op /\ handler'.pc # "off"
    BY <1>4 DEF HandlerMoves, Goes, Op
  <2>2. handler'.pc \notin {"off", "load"} => Op'.msg # 0
    BY <1>4, <2>1 DEF HandlerMoves, Goes, LoadExisting, Create, BindInvestigation, BindMessage, Start,
       RunEnds, Awaits, Rebind, Project, ProjectNothing, Sync, HandlerKnown, Unavailable
  <2>3. handler'.pc \in {"created", "bound"} =>
          /\ Op'.act = "message" /\ Len(invs') # 0 /\ invs'[Len(invs')].symptom = Op'.msg
          /\ handler'.pc = "bound" => sess'.inv = Len(invs')
    <3>1. CASE Create
      <4>1. Op'.act = "message" /\ Len(invs') # 0 /\ invs'[Len(invs')].symptom = Op'.msg
        BY <3>1, <2>1, <1>h, OpensOne DEF InvOpened, InvAdded, Hands
      <4>2. handler'.pc = "created"
        BY <3>1, Moves DEF Create, HandlerPlaces
      <4> QED BY <4>1, <4>2
    <3>2. CASE BindInvestigation
      BY <3>2, <1>4, <2>1 DEF BindInvestigation, HandlerKnown, HandlerTo
    <3> QED BY <3>1, <3>2, <1>4 DEF HandlerMoves, Goes
  <2>4. handler'.pc \in Driving => sess'.inv # 0
    <3>1. CASE LoadExisting
      BY <3>1, <1>4 DEF HandlerMoves, LoadExisting, NeedsInvestigation, product
    <3>2. CASE handler.pc = "bound" /\ sess' = sess
      BY <3>2, <1>h DEF HandlerKnown, Hands
    <3>3. CASE handler.pc \in Driving /\ sess'.inv = sess.inv
      BY <3>3 DEF HandlerKnown
    <3>4. CASE handler'.pc \notin Driving
      BY <3>4
    <3> QED BY <3>1, <3>2, <3>3, <3>4, <1>4 DEF HandlerMoves, Goes, BindMessage, Start,
       RunEnds, Awaits, Rebind, Project, ProjectNothing, Sync, Driving, product
  <2> QED BY <1>1, <1>2, <1>3, <2>2, <2>3, <2>4 DEF HandlerKnown
<1>5. CASE Beside /\ handler' = handler /\ sess'.inv = sess.inv
  <2>1. handler.pc # "off" => Op'.act = Op.act /\ Op'.msg = Op.msg
    BY <1>5, <1>h, OpsStep DEF OpsStay, OpClaimed, OpEnded, OpCancelled, OpEnqueued, OpsRecovered,
       OpsSwept, OpMoves, OpAdded, Op, Hands, Crash, Stop
  <2>2. ~Create
    BY <1>5, Moves DEF Create, HandlerPlaces
  <2>3. handler.pc \in {"created", "bound"} => invs'[Len(invs')].symptom = invs[Len(invs)].symptom
    BY <2>2, <1>h, InvsKept DEF Hands
  <2> QED BY <1>1, <1>2, <1>3, <1>5, <2>1, <2>2, <2>3, InvsKept DEF HandlerKnown, Driving
<1>6. CASE handler'.pc \in {"off", "load"}
  BY <1>1, <1>2, <1>3, <1>6 DEF HandlerKnown, Driving
<1> QED BY <1>4, <1>5, <1>6, PlaceStep

\* Which steps write which part of the state.
LEMMA Writers ==
  ASSUME [SessionNext]_sessionVars
  PROVE  /\ UNCHANGED rows \/ SendMessage \/ Project
         /\ UNCHANGED client \/ Poll
         /\ UNCHANGED target \/ DeleteTarget \/ DeleteProject
         /\ UNCHANGED route \/ SendMessage \/ Enqueue \/ Activate \/ Resume \/ Crash
         /\ UNCHANGED sess \/ Activate \/ BindInvestigation \/ Rebind \/ Sync
         /\ UNCHANGED bound \/ BindMessage \/ Project
<1> USE DEF product, client
<1>1. CASE LoadFails \/ CreateFails \/ StartRefused \/ RunRaises \/ Done \/ Claim \/ Start \/ RunEnds
  BY <1>1 DEF LoadFails, CreateFails, StartRefused, RunRaises, Raises, Done, Claim, Start, RunEnds
<1>2. CASE LoadExisting \/ BindInvestigation \/ BindMessage \/ Rebind \/ Project \/ ProjectNothing
            \/ Sync \/ Create
  <2>1. CASE LoadExisting \/ Create \/ ProjectNothing
    BY <2>1 DEF LoadExisting, Create, ProjectNothing
  <2>2. UNCHANGED client /\ UNCHANGED target /\ UNCHANGED route
    BY <1>2 DEF LoadExisting, BindInvestigation, BindMessage, Rebind, Project, ProjectNothing, Sync, Create
  <2>3. BindInvestigation \/ Rebind \/ Sync => UNCHANGED rows /\ UNCHANGED bound
    BY DEF BindInvestigation, Rebind, Sync
  <2>4. BindMessage => UNCHANGED rows /\ UNCHANGED sess
    BY DEF BindMessage
  <2>5. Project => UNCHANGED sess
    BY DEF Project
  <2> QED BY <1>2, <2>1, <2>2, <2>3, <2>4, <2>5
<1>3. CASE Activate
  <2>1. UNCHANGED <<rows, bound, client, target>>
    BY <1>3 DEF Activate
  <2> QED BY <1>3, <2>1
<1>4. CASE DeleteTarget \/ DeleteProject
  <2>1. UNCHANGED <<product, route, client>>
    BY <1>4 DEF DeleteTarget, DeleteProject
  <2> QED BY <1>4, <2>1
<1>5. CASE Poll
  <2>1. UNCHANGED <<product, target, route>>
    BY <1>5 DEF Poll
  <2> QED BY <1>5, <2>1
<1>6. CASE SendMessage
  <2>1. UNCHANGED <<sess, bound, client, target>>
    BY <1>6 DEF SendMessage
  <2> QED BY <1>6, <2>1
<1>7. CASE Enqueue \/ Resume \/ Crash
  <2>1. UNCHANGED <<product, client, target>>
    BY <1>7 DEF Enqueue, Resume, Crash
  <2> QED BY <1>7, <2>1
<1>8. CASE CancelInvestigation \/ Decided \/ CancelQueued \/ RunSays \/ Stop \/ UNCHANGED sessionVars
  BY <1>8 DEF CancelInvestigation, Decided, CancelQueued, RunSays, Stop, sessionVars
<1> QED BY <1>1, <1>2, <1>3, <1>4, <1>5, <1>6, <1>7, <1>8 DEF SessionNext, Handler, Routes

\* Texts keep their numbers below the counts, and only they are stored.
LEMMA TimelineKnownKept ==
  ASSUME SessionTypeOK, HandlerKnown, TimelineKnown, [SessionNext]_sessionVars
  PROVE  TimelineKnown'
<1>t. /\ DOMAIN timeline = 1..Len(timeline) /\ Len(timeline) \in Nat
      /\ \A k \in DOMAIN timeline : timeline[k] \in Items
      /\ Users \in Nat /\ \A i : Cardinality(SaidBy(i)) \in Nat
  BY TimelineTypes
<1>1. CASE UNCHANGED timeline
  <2>1. Users' = Users /\ \A i : SaidBy(i)' = SaidBy(i)
    BY <1>1, TextsStay
  <2>2. \A x \in rows' : x \in rows \/ \E k \in DOMAIN timeline : timeline[k] = x
    <3>1. CASE Project
      BY <3>1 DEF Project, Stored, Projection, SaidBy
    <3>2. ASSUME SendMessage PROVE FALSE
      <4>1. Users + 1 \in 1..MaxMsgs
        BY <3>2, <1>t, SessionsBounds DEF SendMessage
      <4>2. User(Users + 1) \in Items
        BY <4>1 DEF Items
      <4>3. Users' = Users + 1
        BY <3>2, <4>2, TextAdded, ItemFacts DEF SendMessage
      <4> QED BY <4>3, <2>1, <1>t
    <3> QED BY <3>1, <3>2, Writers
  <2> QED BY <1>1, <2>1, <2>2 DEF TimelineKnown
<1>2. CASE SendMessage
  <2>1. Users + 1 \in 1..MaxMsgs
    BY <1>2, <1>t, SessionsBounds DEF SendMessage
  <2>2. User(Users + 1) \in Items
    BY <2>1 DEF Items
  <2>3. /\ DOMAIN timeline' = DOMAIN timeline \cup {Len(timeline) + 1}
        /\ \A k \in DOMAIN timeline : timeline'[k] = timeline[k]
        /\ timeline'[Len(timeline) + 1] = User(Users + 1)
        /\ Users' = Users + 1 /\ \A i : SaidBy(i)' = SaidBy(i)
    BY <1>2, <2>2, TextAdded, ItemFacts DEF SendMessage
  <2>4. rows' = rows \cup {User(Users + 1)}
    BY <1>2 DEF SendMessage, Stored
  <2>5. ~(User(Users + 1)[1] = "said") /\ User(Users + 1)[2] = Users + 1
    BY DEF User
  <2>6. ASSUME NEW k \in DOMAIN timeline'
        PROVE  /\ timeline'[k][1] = "user" => timeline'[k][2] <= Users + 1
               /\ timeline'[k][1] = "said" => timeline'[k][3] <= Cardinality(SaidBy(timeline'[k][2]))
    <3>1. CASE k \in DOMAIN timeline
      BY <3>1, <2>3, <1>t, ItemFacts DEF TimelineKnown
    <3>2. CASE k = Len(timeline) + 1
      BY <3>2, <2>3, <2>5, <1>t
    <3> QED BY <3>1, <3>2, <2>3
  <2>7. \A x \in rows' : \E k \in DOMAIN timeline' : timeline'[k] = x
    BY <2>3, <2>4 DEF TimelineKnown
  <2> QED BY <1>t, <2>1, <2>3, <2>6, <2>7 DEF TimelineKnown
<1>3. ASSUME NEW c \in Nat, Speaks(c)
      PROVE  TimelineKnown'
  <2> DEFINE n == Cardinality(SaidBy(c)) + 1
  <2>1. n \in 1..MaxSaid /\ c \in 1..MaxInvs
    BY <1>3 DEF Speaks
  <2>3. Said(c, n) \in Items
    BY <2>1 DEF Items
  <2>4. /\ DOMAIN timeline' = DOMAIN timeline \cup {Len(timeline) + 1}
        /\ \A k \in DOMAIN timeline : timeline'[k] = timeline[k]
        /\ timeline'[Len(timeline) + 1] = Said(c, n)
        /\ Users' = Users
        /\ \A i : Cardinality(SaidBy(i)') = IF i = c THEN Cardinality(SaidBy(i)) + 1
                                            ELSE Cardinality(SaidBy(i))
    BY <1>3, <2>3, TextAdded, ItemFacts DEF Speaks
  <2>5. rows' = rows
    BY <1>3 DEF Speaks, RunSays, Decided, product
  <2>6. Said(c, n)[1] = "said" /\ Said(c, n)[2] = c /\ Said(c, n)[3] = n
    BY DEF Said
  <2>7. ASSUME NEW k \in DOMAIN timeline'
        PROVE  /\ timeline'[k][1] = "user" => timeline'[k][2] <= Users
               /\ (timeline[k][1] = "said" => timeline[k][3] <= Cardinality(SaidBy(timeline[k][2])))'
    <3>0. PICK i : i = timeline'[k][2]
      OBVIOUS
    <3>i. (Cardinality(SaidBy(timeline[k][2])))' = Cardinality(SaidBy(i)')
      BY <3>0 DEF SaidBy
    <3>1. CASE k \in DOMAIN timeline
      <4>1. timeline'[k] = timeline[k] /\ timeline[k] \in Items
        BY <3>1, <2>4, <1>t
      <4>2. /\ timeline[k][1] = "user" => timeline[k][2] <= Users
            /\ timeline[k][1] = "said" => timeline[k][3] <= Cardinality(SaidBy(timeline[k][2]))
        BY <3>1 DEF TimelineKnown
      <4>3. timeline[k][1] = "said" => timeline[k][3] \in Nat
        BY <4>1, ItemFacts, SessionsBounds
      <4>4. Cardinality(SaidBy(i)) <= Cardinality(SaidBy(i)')
        BY <2>4, <1>t
      <4>5. Cardinality(SaidBy(i)') \in Nat /\ Cardinality(SaidBy(i)) \in Nat
        BY <2>4, <1>t
      <4>6. timeline[k][1] = "said" => timeline[k][3] <= Cardinality(SaidBy(i))
        BY <4>1, <4>2, <3>0
      <4> QED BY <4>1, <4>2, <4>3, <4>4, <4>5, <4>6, <3>i
    <3>2. CASE k = Len(timeline) + 1
      <4>1. timeline'[k] = Said(c, n) /\ i = c
        BY <3>2, <2>4, <2>6, <3>0
      <4>2. timeline'[k][3] = n /\ n <= Cardinality(SaidBy(i)')
        BY <4>1, <2>4, <2>6, <1>t
      <4> QED BY <4>1, <4>2, <2>6, <3>i
    <3> QED BY <3>1, <3>2, <2>4
  <2>8. \A x \in rows' : \E k \in DOMAIN timeline' : timeline'[k] = x
    BY <2>4, <2>5 DEF TimelineKnown
  <2>9. Users' <= MaxMsgs
    BY <2>4 DEF TimelineKnown
  <2> QED BY <2>4, <2>7, <2>8, <2>9 DEF TimelineKnown
<1> QED BY <1>1, <1>2, <1>3, TextStep

\* Every step keeps what operations are for; one may be added.
OpsKept ==
  /\ DOMAIN ops \subseteq DOMAIN ops'
  /\ \A k \in DOMAIN ops : ops'[k].act = ops[k].act /\ ops'[k].msg = ops[k].msg /\ ops'[k].inv = ops[k].inv
  /\ \A k \in DOMAIN ops' \ DOMAIN ops : OpEnqueued /\ k = Len(ops) + 1

LEMMA OperationsKept ==
  ASSUME SessionTypeOK, HandlerKnown, TimelineKnown, [SessionNext]_sessionVars
  PROVE  OpsKept
<1>1. CASE OpsStay
  BY <1>1 DEF OpsStay, OpsKept
<1>2. CASE OpClaimed
  BY <1>2 DEF OpClaimed, OpMoves, OpsKept
<1>3. CASE OpEnded
  BY <1>3 DEF OpEnded, OpMoves, OpsKept
<1>4. CASE OpCancelled
  BY <1>4 DEF OpCancelled, OpMoves, OpsKept
<1>5. CASE OpEnqueued
  <2>1. PICK op \in Operation : OpAdded(op)
    BY <1>5 DEF OpEnqueued
  <2> QED BY <1>5, <2>1 DEF OpAdded, OpsKept
<1>6. CASE OpsRecovered \/ OpsSwept
  BY <1>6 DEF OpsRecovered, OpsSwept, OpsKept
<1> QED BY <1>1, <1>2, <1>3, <1>4, <1>5, <1>6, OpsStep

\* When a message is enqueued, and when the route stands where.
LEMMA RouteStep ==
  ASSUME SessionTypeOK, HandlerKnown, TimelineKnown, [SessionNext]_sessionVars
  PROVE  /\ Users' \in Nat /\ Users <= Users'
         /\ \/ route' = route /\ Users' = Users
            \/ route = "off" /\ route' = "appended" /\ Users' = Users + 1
            \/ route \in {"appended", "off"} /\ route' = "enqueued" /\ Users' = Users /\ OpEnqueued
            \/ route = "enqueued" /\ route' = "off" /\ Users' = Users
            \/ Crash /\ route' = "off" /\ Users' = Users
<1>t. Users \in Nat
  BY TimelineTypes
<1>1. CASE SendMessage
  <2>1. Users' = Users + 1
    <3>1. Users + 1 \in 1..MaxMsgs
      BY <1>1, <1>t, SessionsBounds DEF SendMessage
    <3>2. User(Users + 1) \in Items
      BY <3>1 DEF Items
    <3> QED BY <1>1, <3>2, TextAdded, ItemFacts DEF SendMessage
  <2> QED BY <1>1, <1>t, <2>1 DEF SendMessage, Free
<1>2. ASSUME ~SendMessage PROVE Users' = Users
  BY <1>2, TextStep
<1>3. CASE Enqueue \/ Resume
  <2>1. OpEnqueued
    <3>1. ops' # ops
      <4>1. PICK op : ops' = Append(ops, op)
        BY <1>3 DEF Enqueue, Resume
      <4>2. ops \in Seq(Operation)
        BY DEF SessionTypeOK
      <4>3. Len(ops) \in Nat
        BY <4>2
      <4> QED BY <4>1, <4>2, <4>3, AppendProperties
    <3>2. route' = "enqueued" /\ route # "enqueued"
      BY <1>3 DEF Enqueue, Resume, Free
    <3>3. ~OpsStay
      BY <3>1 DEF OpsStay
    <3>4. ~OpClaimed /\ ~OpEnded /\ ~OpCancelled
      <4>2. ops'[Len(ops) + 1].state = "queued" /\ Len(ops) + 1 \in DOMAIN ops' /\ Len(ops) + 1 \notin DOMAIN ops
        <5>1. PICK op : ops' = Append(ops, op) /\ op.state = "queued"
          BY <1>3 DEF Enqueue, Resume, NewOp
        <5>2. ops \in Seq(Operation) /\ DOMAIN ops = 1..Len(ops) /\ Len(ops) \in Nat
          BY LenProperties DEF SessionTypeOK
        <5> QED BY <5>1, <5>2
      <4> QED BY <4>2 DEF OpClaimed, OpEnded, OpCancelled, OpMoves
    <3>5. ~OpsRecovered /\ ~OpsSwept
      BY <1>3, <3>2 DEF OpsRecovered, OpsSwept, Crash, Stop, Enqueue, Resume
    <3> QED BY <3>3, <3>4, <3>5, OpsStep
  <2>2. ~SendMessage
    BY <1>3 DEF Enqueue, Resume, SendMessage
  <2> QED BY <1>3, <1>t, <1>2, <2>1, <2>2 DEF Enqueue, Resume, Free
<1>4. CASE Activate
  <2>1. ~SendMessage
    BY <1>4 DEF Activate, SendMessage
  <2> QED BY <1>4, <1>t, <1>2, <2>1 DEF Activate
<1>5. CASE Crash
  <2>1. ~SendMessage
    BY <1>5 DEF Crash, SendMessage
  <2> QED BY <1>5, <1>t, <1>2, <2>1 DEF Crash
<1>6. CASE UNCHANGED route /\ ~SendMessage
  BY <1>6, <1>t, <1>2
<1> QED BY <1>1, <1>3, <1>4, <1>5, <1>6, Writers

\* Messages have one operation at most and are served in their order.
LEMMA QueueKnownKept ==
  ASSUME SessionTypeOK, HandlerKnown, TimelineKnown, QueueKnown, [SessionNext]_sessionVars
  PROVE  QueueKnown'
<1>h. Hands /\ OpsKept
  BY InHand, OperationsKept
<1>t. Users \in Nat /\ \A k \in DOMAIN ops : ops[k].msg \in Nat
  BY TimelineTypes, <1>h, SessionsBounds DEF Hands, Operation
<1>l. LatestUser \in Nat /\ LatestUser <= Users
  BY LatestFacts, TimelineTypes, ItemFacts, <1>t, SessionsBounds DEF TimelineKnown
<1>1. \A k \in DOMAIN ops' : /\ ops'[k].msg <= Users'
                             /\ ops'[k].act = "message" => ops'[k].msg # 0
                             /\ route' = "appended" => ops'[k].msg # Users'
  <2>1. ASSUME NEW k \in DOMAIN ops
        PROVE  /\ ops'[k].msg <= Users' /\ (ops'[k].act = "message" => ops'[k].msg # 0)
               /\ route' = "appended" => ops'[k].msg # Users'
    BY <1>h, <1>t, RouteStep DEF OpsKept, QueueKnown
  <2>2. ASSUME NEW k \in DOMAIN ops', k \notin DOMAIN ops
        PROVE  /\ ops'[k].msg <= Users' /\ (ops'[k].act = "message" => ops'[k].msg # 0)
               /\ route' # "appended"
    <3>1. OpEnqueued /\ k = Len(ops) + 1
      BY <2>2, <1>h DEF OpsKept
    <3>2. PICK op \in Operation :
            /\ ops'[k] = op /\ route' = "enqueued"
            /\ \/ route = "appended" /\ op.act = "message" /\ op.msg = Users
               \/ route = "off" /\ op.act = "resume" /\ op.msg = LatestUser
      BY <3>1 DEF OpEnqueued, OpAdded
    <3> QED BY <3>2, <1>t, <1>l, RouteStep DEF QueueKnown
  <2> QED BY <2>1, <2>2
<1>2. route' = "appended" => Users' # 0
  BY RouteStep, <1>t DEF QueueKnown
<1>3. route' = "enqueued" => \E k \in DOMAIN ops' : ops'[k].state = "queued"
  <2>1. CASE OpEnqueued
    BY <2>1 DEF OpEnqueued, OpAdded
  <2>2. CASE route' = route /\ route = "enqueued"
    <3>1. PICK k \in DOMAIN ops : ops[k].state = "queued"
      BY <2>2 DEF QueueKnown
    <3>2. CASE OpsStay
      BY <3>1, <3>2 DEF OpsStay
    <3>3. CASE OpEnded
      BY <3>1, <3>3, <1>h DEF OpEnded, OpMoves, Hands, Op
    <3>4. CASE OpClaimed \/ OpCancelled \/ OpsRecovered \/ OpsSwept
      BY <2>2, <3>4 DEF OpClaimed, OpCancelled, OpsRecovered, OpsSwept, Crash, Stop, Free
    <3> QED BY <2>1, <3>2, <3>3, <3>4, OpsStep
  <2> QED BY <2>1, <2>2, RouteStep
<1>4. ASSUME NEW j \in DOMAIN ops', NEW k \in DOMAIN ops',
             ops'[k].act = "message", ops'[k].msg = ops'[j].msg, j # k
      PROVE  ops'[j].act = "resume" /\ k < j
  <2>1. CASE j \in DOMAIN ops /\ k \in DOMAIN ops
    BY <1>4, <2>1, <1>h DEF OpsKept, QueueKnown, Carries
  <2>2. ASSUME OpEnqueued
        PROVE  \/ ops'[Len(ops) + 1].act = "message" /\ \A m \in DOMAIN ops : ops[m].msg # ops'[Len(ops) + 1].msg
               \/ ops'[Len(ops) + 1].act = "resume"
    BY <2>2 DEF OpEnqueued, OpAdded, QueueKnown
  <2>3. CASE j \notin DOMAIN ops
    <3>1. OpEnqueued /\ j = Len(ops) + 1 /\ k \in DOMAIN ops
      BY <2>3, <1>4, <1>h DEF OpsKept
    <3>2. ops'[k].msg = ops[k].msg
      BY <3>1, <1>h DEF OpsKept
    <3>3. k < j
      BY <3>1, <1>h DEF Hands
    <3>4. ops'[j].act = "resume"
      BY <3>1, <3>2, <2>2, <1>4
    <3> QED BY <3>3, <3>4
  <2>4. CASE k \notin DOMAIN ops
    <3>1. OpEnqueued /\ k = Len(ops) + 1 /\ j \in DOMAIN ops
      BY <2>4, <1>4, <1>h DEF OpsKept
    <3>2. ops'[j].msg = ops[j].msg
      BY <3>1, <1>h DEF OpsKept
    <3> QED BY <3>1, <3>2, <2>2, <1>4
  <2> QED BY <2>1, <2>3, <2>4
<1>5. ASSUME NEW j \in DOMAIN ops', NEW k \in DOMAIN ops', k < j, ops'[k].state \in {"queued", "running"}
      PROVE  ops'[j].state \in {"queued", "cancelled"}
  <2> USE <1>5
  <2>1. CASE OpsStay
    BY <2>1 DEF OpsStay, QueueKnown, Waits
  <2>2. CASE OpClaimed
    <3>1. PICK c \in DOMAIN ops : /\ ops[c].state = "queued" /\ \A i \in 1..c - 1 : ops[i].state # "queued"
                                  /\ OpMoves(c, "running") /\ handler.pc = "off"
      BY <2>2 DEF OpClaimed
    <3>2. \A i \in DOMAIN ops : ops[i].state # "running"
      BY <3>1 DEF HandlerKnown
    <3>3. ~(k < c)
      BY <3>1, <3>2, <1>h DEF OpMoves, Hands
    <3>4. Waits(k)
      BY <3>1 DEF OpMoves, Waits
    <3> QED BY <3>1, <3>3, <3>4, <1>h DEF OpMoves, QueueKnown, Hands
  <2>3. CASE OpEnded
    <3>1. PICK st \in {"failed", "succeeded"} : OpMoves(handler.op, st) /\ handler.pc # "off"
      BY <2>3 DEF OpEnded
    <3>2. Waits(k) /\ k \in DOMAIN ops /\ j \in DOMAIN ops
      BY <1>5, <3>1 DEF OpMoves, Waits
    <3>3. ops[j].state \in {"queued", "cancelled"}
      BY <1>5, <3>2 DEF QueueKnown
    <3>4. j # handler.op
      BY <3>1, <3>3, <1>h DEF Hands, Op
    <3> QED BY <3>1, <3>2, <3>3, <3>4 DEF OpMoves
  <2>4. CASE OpCancelled
    <3>1. PICK c \in DOMAIN ops : ops[c].state = "queued" /\ OpMoves(c, "cancelled")
      BY <2>4 DEF OpCancelled
    <3> QED BY <3>1 DEF OpMoves, QueueKnown, Waits
  <2>5. CASE OpEnqueued
    <3>1. PICK op \in Operation : OpAdded(op) /\ op.state = "queued"
      BY <2>5 DEF OpEnqueued
    <3>2. k \in DOMAIN ops
      BY <3>1, <1>h DEF OpAdded, Hands
    <3>3. CASE j \in DOMAIN ops
      BY <3>1, <3>2, <3>3 DEF OpAdded, QueueKnown, Waits
    <3>4. CASE j = Len(ops) + 1
      BY <3>1, <3>4 DEF OpAdded
    <3> QED BY <3>1, <3>3, <3>4 DEF OpAdded
  <2>6. CASE OpsRecovered \/ OpsSwept
    <3>1. Waits(k) /\ k \in DOMAIN ops /\ j \in DOMAIN ops
      BY <2>6 DEF OpsRecovered, OpsSwept, Waits
    <3>2. ops[j].state \in {"queued", "cancelled"}
      BY <3>1 DEF QueueKnown
    <3> QED BY <2>6, <3>1, <3>2 DEF OpsRecovered, OpsSwept
  <2> QED BY <2>1, <2>2, <2>3, <2>4, <2>5, <2>6, OpsStep
<1> QED BY <1>1, <1>2, <1>3, <1>4, <1>5 DEF QueueKnown, Carries, Waits

\* No message is forgotten but by a crash between its two commits.
LEMMA QueuedKept ==
  ASSUME SessionTypeOK, HandlerKnown, TimelineKnown, QueueKnown, Queued, [SessionNext]_sessionVars
  PROVE  Queued'
<1>h. OpsKept /\ Users \in Nat
  BY OperationsKept, TimelineTypes
<1> SUFFICES ASSUME ~Through({"unqueued"})', NEW n \in 1..Users'
             PROVE  (route' = "appended" /\ n = Users') \/ \E k \in DOMAIN ops' : Carries(k, n)'
  BY DEF Queued
<1>1. ~Through({"unqueued"})
  BY WindowsGrow DEF Through
<1>2. ASSUME NEW k \in DOMAIN ops, Carries(k, n) PROVE k \in DOMAIN ops' /\ Carries(k, n)'
  BY <1>2, <1>h DEF OpsKept, Carries
<1>3. CASE n \notin 1..Users
  BY <1>3, <1>h, RouteStep
<1>4. CASE n \in 1..Users /\ route = "appended" /\ n = Users
  <2>1. CASE OpEnqueued
    BY <2>1, <1>4 DEF OpEnqueued, OpAdded, Carries
  <2>2. CASE Crash
    BY <2>2, <1>4 DEF Crash, Through
  <2> QED BY <2>1, <2>2, <1>4, RouteStep
<1>5. CASE n \in 1..Users /\ \E k \in DOMAIN ops : Carries(k, n)
  BY <1>5, <1>2
<1> QED BY <1>1, <1>3, <1>4, <1>5 DEF Queued

\* Operations are linked to investigations that are over, or to the bound one,
\* and whoever carries the message of an investigation will not open another.
LEMMA LinksKnownKept ==
  ASSUME SessionTypeOK, HandlerKnown, TimelineKnown, QueueKnown, LinksKnown, [SessionNext]_sessionVars
  PROVE  LinksKnown'
<1>h. Hands /\ OpsKept
  BY InHand, OperationsKept
<1>o. \A k \in DOMAIN ops : ops[k].inv \in Nat
  BY <1>h, SessionsBounds DEF Hands, Operation
<1>i. /\ DOMAIN invs \subseteq DOMAIN invs' /\ Len(invs) <= Len(invs') /\ Len(invs') \in Nat
      /\ \A i \in DOMAIN invs : invs'[i].symptom = invs[i].symptom /\ (Live(i)' => Live(i))
      /\ ~Create => DOMAIN invs' = DOMAIN invs /\ Len(invs') = Len(invs)
  BY InvsKept, SessionTypesKept, LenProperties DEF SessionTypeOK
<1>b. sess'.inv = sess.inv \/ (handler.pc = "created" /\ sess'.inv = Len(invs))
  BY PlaceStep DEF HandlerMoves, product, BindInvestigation, Crash, Stop
<1>n. \A k \in DOMAIN ops' \ DOMAIN ops :
        /\ ops'[k].inv = sess.inv /\ sess'.inv = sess.inv /\ handler' = handler
        /\ ops'[k].act = "message" => route = "appended" /\ ops'[k].msg = Users
  <2>1. \A k \in DOMAIN ops' \ DOMAIN ops :
        /\ ops'[k].inv = sess.inv /\ handler' = handler
        /\ ops'[k].act = "message" => route = "appended" /\ ops'[k].msg = Users
    BY <1>h DEF OpsKept, OpEnqueued, OpAdded
  <2>2. OpEnqueued => sess' = sess
    BY RouteStep, Writers DEF OpEnqueued, Activate, BindInvestigation, Rebind, Sync, HandlerKnown
  <2> QED BY <2>1, <2>2, <1>h DEF OpsKept
<1>1. ASSUME NEW k \in DOMAIN ops'
      PROVE  ops'[k].inv <= Len(invs') /\ (ops'[k].inv \notin {0, sess'.inv} => ~Live(ops[k].inv)')
  <2>1. CASE k \in DOMAIN ops
    <3>1. ops'[k].inv = ops[k].inv /\ ops[k].inv <= Len(invs) /\ ops[k].inv \in Nat
      BY <2>1, <1>h, <1>o DEF OpsKept, LinksKnown
    <3>2. ops[k].inv # 0 => ops[k].inv \in DOMAIN invs
      BY <3>1, <1>h DEF Hands
    <3>3. ASSUME ops[k].inv \notin {0, sess'.inv} PROVE ~Live(ops[k].inv)
      BY <3>3, <2>1, <1>b DEF LinksKnown
    <3>4. ASSUME NEW i \in DOMAIN invs, i = ops[k].inv, ~Live(i) PROVE ~Live(ops[k].inv)'
      BY <3>1, <3>4, <1>i DEF Live
    <3> QED BY <3>1, <3>2, <3>3, <3>4, <1>i, <1>h DEF Hands
  <2>2. CASE k \notin DOMAIN ops
    BY <2>2, <1>n, <1>h, <1>i DEF Hands
  <2> QED BY <2>1, <2>2
<1>2. handler'.pc = "created" /\ sess'.inv # 0 => sess'.inv < Len(invs') /\ ~Live(sess.inv)'
  <2> SUFFICES ASSUME handler'.pc = "created", sess'.inv # 0
               PROVE  sess'.inv < Len(invs') /\ ~Live(sess.inv)'
    OBVIOUS
  <2>1. sess'.inv = sess.inv /\ sess.inv \in DOMAIN invs /\ sess.inv \in Nat
    BY <1>h, PlaceStep DEF HandlerMoves, Goes, product, Hands
  <2>2. sess.inv < Len(invs') /\ ~Live(sess.inv)
    <3>1. CASE Create
      BY <3>1, <2>1, <1>h, OpensOne DEF Create, NeedsInvestigation, InvOpened, InvAdded, Hands
    <3>2. CASE ~Create
      <4>1. handler.pc = "created"
        BY <3>2, PlaceStep DEF HandlerMoves, Goes
      <4> QED BY <4>1, <3>2, <2>1, <1>i DEF LinksKnown
    <3> QED BY <3>1, <3>2
  <2>3. ASSUME NEW i \in DOMAIN invs, i = sess.inv, ~Live(i) PROVE ~Live(sess.inv)'
    BY <2>1, <2>3, <1>i DEF Live
  <2> QED BY <2>1, <2>2, <2>3
<1>3. ASSUME NEW i \in DOMAIN invs'
      PROVE  \E k \in DOMAIN ops' : Carries(k, invs[i].symptom)'
  <2>1. CASE i \in DOMAIN invs
    <3>1. PICK k \in DOMAIN ops : Carries(k, invs[i].symptom)
      BY <2>1 DEF LinksKnown
    <3> QED BY <2>1, <3>1, <1>h, <1>i DEF OpsKept, Carries
  <2>2. CASE i \notin DOMAIN invs
    <3>1. InvOpened
      BY <2>2, <1>i, OpensOne
    <3>2. invs'[i].symptom = Op.msg /\ Op.act = "message" /\ handler.op \in DOMAIN ops
      BY <2>2, <3>1, <1>h DEF InvOpened, InvAdded, Hands, Create
    <3> QED BY <3>2, <1>h DEF OpsKept, Carries, Op
  <2> QED BY <2>1, <2>2
<1>4. ASSUME NEW k \in DOMAIN ops', NEW i \in DOMAIN invs',
             Carries(k, invs[i].symptom)', Waits(k)', ~Through({"requeued"})'
      PROVE  /\ ops'[k].state = "running" /\ handler'.pc # "load"
             /\ ops'[k].inv # 0 => ~Live(ops[k].inv)'
  <2> USE <1>4
  <2>0. ~Through({"requeued"})
    BY WindowsGrow DEF Through
  <2>1. k \in DOMAIN ops
    <3>1. SUFFICES ASSUME k \notin DOMAIN ops PROVE FALSE
      OBVIOUS
    <3>2. route = "appended" /\ ops'[k].msg = Users /\ OpEnqueued
      BY <3>1, <1>n, <1>h DEF Carries, OpsKept
    <3>3. ~Create
      BY <3>2 DEF Create, HandlerKnown
    <3>4. i \in DOMAIN invs /\ invs[i].symptom = Users
      BY <3>2, <3>3, <1>i DEF Carries
    <3> QED BY <3>2, <3>4 DEF LinksKnown, QueueKnown, Carries
  <2>2. ops'[k].act = ops[k].act /\ ops'[k].msg = ops[k].msg /\ ops'[k].inv = ops[k].inv
    BY <2>1, <1>h DEF OpsKept
  <2>3. ASSUME NEW l \in DOMAIN invs, l = ops[k].inv, ~Live(l) PROVE ~Live(ops[k].inv)'
    BY <2>2, <2>3, <1>i DEF Live
  <2>4. ops[k].inv # 0 => ops[k].inv \in DOMAIN invs
    BY <2>1, <1>h, <1>o DEF Hands, LinksKnown
  <2>5. CASE Create
    <3>1. InvOpened /\ UNCHANGED ops /\ handler'.pc = "created" /\ handler.pc = "load"
      BY <2>5, OpensOne, Moves DEF Create, HandlerPlaces
    <3>2. \A m \in DOMAIN invs : ~(Carries(k, invs[m].symptom) /\ Waits(k))
      BY <2>0, <2>1, <3>1 DEF LinksKnown
    <3>3. i = Len(invs) + 1 /\ invs'[i].symptom = Op.msg
      BY <2>5, <3>1, <3>2, <1>i DEF InvOpened, InvAdded, Carries, Waits
    <3>4. k = handler.op
      BY <2>1, <2>2, <3>1, <3>3, <1>h DEF InvOpened, QueueKnown, Carries, Op, Hands
    <3>5. ops[k].inv # 0 => ~Live(ops[k].inv)
      BY <2>1, <2>5, <3>4 DEF LinksKnown, Create, NeedsInvestigation, Op
    <3> QED BY <2>1, <2>2, <2>3, <2>4, <3>1, <3>4, <3>5, <1>h DEF Op, Hands
  <2>6. CASE ~Create
    <3>1. i \in DOMAIN invs /\ Carries(k, invs[i].symptom)
      BY <2>2, <2>6, <1>i DEF Carries
    <3>2. ASSUME Waits(k) PROVE ops[k].state = "running" /\ handler.pc # "load" /\ k = handler.op
                              /\ (ops[k].inv # 0 => ~Live(ops[k].inv))
      BY <2>0, <2>1, <3>1, <3>2 DEF LinksKnown, HandlerKnown
    <3>3. CASE OpsStay
      <4>1. Waits(k) /\ ops' = ops
        BY <3>3 DEF OpsStay, Waits
      <4>2. handler'.pc # "load"
        BY <3>2, <3>3, <4>1, PlaceStep DEF OpsStay, HandlerMoves, Goes
      <4> QED BY <4>1, <4>2, <3>2, <2>2, <2>3, <2>4
    <3>4. CASE OpClaimed
      <4>1. Waits(k)
        BY <2>1, <3>4 DEF OpClaimed, OpMoves, Waits
      <4> QED BY <4>1, <3>2, <3>4, <2>1 DEF OpClaimed, HandlerKnown
    <3>5. CASE OpEnded
      <4>1. Waits(k) /\ k # handler.op
        BY <2>1, <3>5 DEF OpEnded, OpMoves, Waits
      <4> QED BY <4>1, <3>2
    <3>6. CASE OpCancelled
      <4>1. Waits(k) /\ ops'[k].state = ops[k].state /\ handler' = handler
        BY <2>1, <3>6 DEF OpCancelled, OpMoves, Waits
      <4> QED BY <4>1, <3>2, <2>2, <2>3, <2>4
    <3>7. CASE OpEnqueued
      <4>1. ops'[k] = ops[k] /\ handler' = handler
        BY <2>1, <3>7 DEF OpEnqueued, OpAdded
      <4> QED BY <4>1, <3>2, <2>3, <2>4 DEF Waits
    <3>8. CASE OpsRecovered
      <4>1. Waits(k) /\ (ops[k].state = "running" => Reconciled(ops[k]) \in {"queued", "running"})
        BY <2>1, <3>8 DEF OpsRecovered, Waits
      <4> QED BY <4>1, <3>2 DEF Reconciled
    <3>9. CASE OpsSwept
      <4>1. Waits(k) /\ ops[k].state # "running"
        BY <2>1, <3>9 DEF OpsSwept, Waits, Through
      <4> QED BY <4>1, <3>2
    <3> QED BY <3>3, <3>4, <3>5, <3>6, <3>7, <3>8, <3>9, OpsStep
  <2> QED BY <2>5, <2>6
<1> QED BY <1>1, <1>2, <1>3, <1>4 DEF LinksKnown

\* A message opens one investigation at most.
LEMMA OneInvestigationKept ==
  ASSUME SessionTypeOK, HandlerKnown, TimelineKnown, QueueKnown, LinksKnown,
         OneInvestigationPerMessage, [SessionNext]_sessionVars
  PROVE  OneInvestigationPerMessage'
<1>h. Hands
  BY InHand
<1> SUFFICES ASSUME ~Through({"requeued"})'
             PROVE  \A i, j \in DOMAIN invs' : invs'[i].symptom = invs'[j].symptom => i = j
  BY DEF OneInvestigationPerMessage
<1>0. ~Through({"requeued"})
  BY WindowsGrow DEF Through
<1>1. CASE Create
  <2>1. InvOpened /\ handler.pc = "load"
    BY <1>1, OpensOne DEF Create
  <2>2. \A i \in DOMAIN invs : invs[i].symptom # Op.msg
    <3>1. Carries(handler.op, Op.msg) /\ Waits(handler.op) /\ handler.op \in DOMAIN ops
      BY <2>1, <1>h DEF InvOpened, Carries, Waits, Op, Hands
    <3> QED BY <1>0, <3>1, <2>1 DEF LinksKnown
  <2> QED BY <1>0, <2>1, <2>2 DEF InvOpened, InvAdded, OneInvestigationPerMessage
<1>2. CASE ~Create
  BY <1>0, <1>2, InvsKept DEF OneInvestigationPerMessage
<1> QED BY <1>1, <1>2

\* What an investigation was opened for stays, and no other is opened but by
\* the handler at its place.
LEMMA Onwards ==
  ASSUME SessionTypeOK, HandlerKnown, TimelineKnown, [SessionNext]_sessionVars
  PROVE  /\ DOMAIN invs \subseteq DOMAIN invs' /\ DOMAIN invs' = 1..Len(invs') /\ Len(invs') \in Nat
         /\ \A i \in DOMAIN invs : invs'[i].symptom = invs[i].symptom /\ (Live(i)' => Live(i))
         /\ \A i \in DOMAIN invs' : i \in DOMAIN invs \/ (Create /\ InvOpened /\ i = Len(invs'))
         /\ ~Create => Len(invs') = Len(invs)
<1>1. DOMAIN invs' = 1..Len(invs') /\ Len(invs') \in Nat
  BY SessionTypesKept, LenProperties DEF SessionTypeOK
<1>2. \A i \in DOMAIN invs' : i \in DOMAIN invs \/ (Create /\ InvOpened /\ i = Len(invs'))
  BY OpensOne, InvsKept DEF InvOpened, InvAdded
<1> QED BY <1>1, <1>2, InvsKept

\* Only the bound investigation is live, or the one about to be bound.
LEMMA BoundedKept ==
  ASSUME SessionTypeOK, HandlerKnown, TimelineKnown, Bounded, [SessionNext]_sessionVars
  PROVE  Bounded'
<1>h. Hands
  BY InHand
<1> SUFFICES ASSUME ~Through({"crash"})', NEW i \in DOMAIN invs', Live(i)'
             PROVE  i = IF handler'.pc = "created" THEN Len(invs') ELSE sess'.inv
  BY DEF Bounded
<1>1. ~Through({"crash"})
  BY WindowsGrow DEF Through
<1>2. CASE Create
  <2>1. handler.pc = "load" /\ handler'.pc = "created"
    BY <1>2, Moves DEF Create, HandlerPlaces
  <2>2. i \in DOMAIN invs => FALSE
    BY <1>1, <1>2, <2>1, Onwards DEF Bounded, Create, NeedsInvestigation
  <2> QED BY <2>1, <2>2, Onwards
<1>3. CASE ~Create
  <2>1. i \in DOMAIN invs /\ Len(invs') = Len(invs) /\ i = IF handler.pc = "created" THEN Len(invs) ELSE sess.inv
    BY <1>1, <1>3, Onwards DEF Bounded
  <2>2. CASE HandlerMoves
    BY <1>3, <2>1, <2>2 DEF HandlerMoves, Goes, product, LoadExisting, BindInvestigation, BindMessage,
       Start, RunEnds, Awaits, Rebind, Project, ProjectNothing, Sync
  <2>3. CASE Crash \/ Stop
    <3>1. handler.pc # "created" /\ handler'.pc = "off" /\ UNCHANGED product
      BY <2>3 DEF Crash, Stop, Free, Awaits, Through
    <3> QED BY <2>1, <3>1 DEF product
  <2>4. CASE Failing \/ Done \/ Claim
    BY <2>1, <2>4, PlaceStep DEF HandlerMoves, Goes, Failing, LoadFails, CreateFails, StartRefused,
       RunRaises, Done, Claim, product, Raises, Ends
  <2> QED BY <2>1, <2>2, <2>3, <2>4, PlaceStep
<1> QED BY <1>2, <1>3

\* Nothing is opened on a deleted target.
LEMMA TargetKept ==
  ASSUME SessionTypeOK, HandlerKnown, TimelineKnown, NoWorkOnDeletedTarget, [SessionNext]_sessionVars
  PROVE  NoWorkOnDeletedTarget'
<1> SUFFICES ASSUME ~target', ~Through({"unregistered"})', NEW i \in DOMAIN invs', Live(i)'
             PROVE  FALSE
  BY DEF NoWorkOnDeletedTarget
<1>1. ~Through({"unregistered"})
  BY WindowsGrow DEF Through
<1>2. CASE DeleteTarget
  BY <1>2, Onwards DEF DeleteTarget, MayDelete
<1>3. CASE DeleteProject
  BY <1>3 DEF DeleteProject, Through
<1>4. CASE target' = target
  <2>1. ~Create
    BY <1>4 DEF Create, Unavailable
  <2> QED BY <1>1, <1>4, <2>1, Onwards DEF NoWorkOnDeletedTarget
<1> QED BY <1>2, <1>3, <1>4, Writers

\* The session goes on showing what its investigation is.
LEMMA AgreesKept ==
  ASSUME SessionTypeOK, HandlerKnown, TimelineKnown, QueueKnown, AgreesOrWaits, [SessionNext]_sessionVars
  PROVE  AgreesOrWaits'
<1> DEFINE W == {"outside", "raised", "dropped", "crash", "stopped", "relinked"}
<1>h. Hands
  BY InHand
<1> SUFFICES ASSUME ~Through(W)'
             PROVE  /\ handler'.pc = "synced" => Agrees'
                    /\ /\ handler'.pc = "off" /\ route' # "enqueued" /\ sess'.inv # 0
                       /\ \A k \in DOMAIN ops' : ops'[k].state # "queued"
                       => Agrees'
  BY DEF AgreesOrWaits
<1>1. ~Through(W)
  BY WindowsGrow DEF Through
<1>2. ASSUME sess' = sess, invs' = invs, Agrees PROVE Agrees'
  BY <1>2 DEF Agrees
<1>3. CASE handler'.pc = "synced"
  <2>1. CASE Sync
    BY <2>1, <1>3, <1>h DEF Sync, UpdateSession, Agrees, SessionTypeOK
  <2>2. CASE ~Sync
    <3>1. handler.pc = "synced" /\ Beside /\ handler' = handler
      BY <1>3, <2>2, PlaceStep DEF HandlerMoves, Goes
    <3>2. sess' = sess
      BY <3>1, Writers DEF Beside, Activate, BindInvestigation, Rebind, Sync, HandlerKnown
    <3>3. invs' = invs
      BY <3>1, InvsStep DEF InvOpened, Create, InvChanged, InvsRecovered, Crash, Stop, Through
    <3> QED BY <1>1, <1>2, <3>1, <3>2, <3>3 DEF AgreesOrWaits
  <2> QED BY <2>1, <2>2
<1>4. CASE /\ handler'.pc = "off" /\ route' # "enqueued" /\ sess'.inv # 0
           /\ \A k \in DOMAIN ops' : ops'[k].state # "queued"
  <2>1. CASE Done
    <3>1. sess' = sess /\ invs' = invs /\ handler.pc = "synced"
      BY <2>1 DEF Done, product
    <3> QED BY <1>1, <1>2, <3>1 DEF AgreesOrWaits
  <2>2. CASE Crash
    <3>1. sess' = sess /\ invs' = invs /\ handler.pc = "off" /\ route # "enqueued"
      BY <2>2 DEF Crash, product, Through
    <3>2. \A k \in DOMAIN ops : ops[k].state # "running"
      BY <3>1 DEF HandlerKnown
    <3>3. \A k \in DOMAIN ops : ops[k].state # "queued"
      BY <1>4, <2>2, <3>2 DEF Crash
    <3> QED BY <1>1, <1>2, <1>4, <3>1, <3>3 DEF AgreesOrWaits
  <2>4. CASE Stop
    <3>1. sess' = sess /\ (handler.pc = "off" => invs' = invs) /\ route = "off"
      BY <2>4 DEF Stop, Free, Awaits, product, Through
    <3>2. handler.pc = "off" /\ \A k \in DOMAIN ops : ops[k].state # "running"
      <4>1. \A k \in DOMAIN ops : ops[k].state # "running"
        BY <1>4, <2>4, OpsStep DEF Stop, HandlerKnown
      <4> QED BY <4>1, <1>h DEF Hands, Op
    <3>3. \A k \in DOMAIN ops : ops[k].state # "queued"
      BY <1>4, <2>4, <3>2 DEF Stop
    <3> QED BY <1>1, <1>2, <1>4, <3>1, <3>2, <3>3 DEF AgreesOrWaits
  <2>3. CASE Beside /\ handler' = handler /\ ~Crash /\ ~Stop
    <3>1. handler.pc = "off"
      BY <1>4, <2>3
    <3>2. ~OpEnqueued
      BY <1>4 DEF OpEnqueued
    <3>3. ops' = ops
      <4>1. ~OpClaimed /\ ~OpEnded /\ ~OpsRecovered /\ ~OpsSwept
        BY <2>3, <3>1 DEF OpClaimed, OpEnded, OpsRecovered, OpsSwept
      <4>2. ~OpCancelled
        BY DEF OpCancelled, Through
      <4> QED BY <3>2, <4>1, <4>2, OpsStep DEF OpsStay
    <3>4. route # "enqueued"
      BY <1>4, <3>3 DEF QueueKnown
    <3>5. sess' = sess
      BY <3>1, <3>4, Writers DEF Activate, BindInvestigation, Rebind, Sync
    <3>6. invs' = invs
      BY <2>3, <3>1, InvsStep DEF InvOpened, Create, InvChanged, InvsRecovered, Through
    <3> QED BY <1>1, <1>2, <1>4, <3>1, <3>3, <3>4, <3>5, <3>6 DEF AgreesOrWaits
  <2> QED BY <2>1, <2>2, <2>3, <2>4, <1>4, PlaceStep DEF HandlerMoves, Goes, Through
<1> QED BY <1>3, <1>4

\* The handler drives the investigation that its message opened.
LEMMA OwnMessageKept ==
  ASSUME SessionTypeOK, HandlerKnown, TimelineKnown, OwnMessage, [SessionNext]_sessionVars
  PROVE  OwnMessage'
<1> DEFINE W == {"followup", "other"}
<1>h. Hands /\ OpsKept
  BY InHand, OperationsKept
<1>i. /\ \A i \in DOMAIN invs : invs'[i].symptom = invs[i].symptom
      /\ \A n \in 1..MaxMsgs : bound[n] \in (0..Len(invs)) \X {0, 1}
  BY Onwards DEF SessionTypeOK
<1>b. \A n \in 1..MaxMsgs : bound[n][1] # 0 => bound[n][1] \in DOMAIN invs
  BY <1>i, <1>h DEF Hands
<1> SUFFICES ASSUME ~Through(W)'
             PROVE  /\ handler'.pc \in Driving => invs'[sess'.inv].symptom = Op'.msg
                    /\ \A n \in 1..MaxMsgs : bound'[n][1] # 0 => invs'[bound'[n][1]].symptom = n
  BY DEF OwnMessage
<1>1. ~Through(W)
  BY WindowsGrow DEF Through
<1>2. /\ handler.pc \in Driving => invs[sess.inv].symptom = Op.msg
      /\ \A n \in 1..MaxMsgs : bound[n][1] # 0 => invs[bound[n][1]].symptom = n
  BY <1>1 DEF OwnMessage
<1>3. handler'.pc \in Driving => invs'[sess'.inv].symptom = Op'.msg
  <2>1. CASE HandlerMoves
    <3>1. Op' = Op
      BY <2>1 DEF HandlerMoves, Goes, Op
    <3>2. CASE LoadExisting
      <4>1. sess' = sess /\ invs' = invs /\ Op.act \in {"message", "resume"}
        BY <3>2, <1>h DEF LoadExisting, product, Operation, Hands
      <4>2. invs[sess.inv].symptom = Op.msg
        BY <3>2, <4>1 DEF LoadExisting, Through
      <4> QED BY <3>1, <4>1, <4>2
    <3>3. CASE BindMessage
      BY <3>1, <3>3 DEF BindMessage, HandlerKnown
    <3>4. CASE handler.pc \in Driving /\ sess'.inv = sess.inv
      BY <1>2, <1>i, <3>1, <3>4, <1>h DEF Hands
    <3>5. CASE handler'.pc \notin Driving
      BY <3>5
    <3> QED BY <2>1, <3>2, <3>3, <3>4, <3>5 DEF HandlerMoves, Goes, Start, RunEnds, Awaits, Rebind, Project,
       ProjectNothing, Sync, Driving, product
  <2>2. CASE Beside /\ handler' = handler /\ sess'.inv = sess.inv
    <3>1. handler.pc # "off" => Op'.msg = Op.msg
      BY <2>2, <1>h DEF OpsKept, Hands, Op
    <3> QED BY <1>2, <1>i, <2>2, <3>1, <1>h DEF Hands, Driving
  <2> QED BY <2>1, <2>2, PlaceStep DEF Driving
<1>4. ASSUME NEW n \in 1..MaxMsgs, bound'[n][1] # 0 PROVE invs'[bound'[n][1]].symptom = n
  <2>1. CASE bound'[n] = bound[n]
    BY <1>2, <1>4, <1>i, <1>b, <2>1
  <2>2. CASE BindMessage /\ bound'[n] # bound[n]
    <3>1. n = Op.msg /\ bound'[n] = <<Len(invs), 0>> /\ invs' = invs
      BY <2>2, <1>h DEF BindMessage, Bind, SessionTypeOK
    <3> QED BY <2>2, <3>1 DEF BindMessage, HandlerKnown
  <2>3. CASE Project /\ bound'[n] # bound[n]
    <3>1. n = Op.msg /\ bound'[n] = <<sess.inv, 1>> /\ invs' = invs
      BY <2>3, <1>h DEF Project, Bind, SessionTypeOK
    <3> QED BY <2>3, <3>1, <1>2 DEF Project, Driving
  <2> QED BY <2>1, <2>2, <2>3, Writers
<1> QED BY <1>3, <1>4

\* What is said to be done has been projected.
LEMMA ProjectedKept ==
  ASSUME SessionTypeOK, HandlerKnown, TimelineKnown, QueueKnown, Projected, [SessionNext]_sessionVars
  PROVE  Projected'
<1>h. Hands /\ OpsKept
  BY InHand, OperationsKept
<1>m. \A k \in DOMAIN ops : ops[k].msg \in 0..MaxMsgs
  BY <1>h DEF Hands, Operation
<1>1. ASSUME ~Through({"untold"})'
      PROVE  handler'.pc \in {"projected", "synced"} => bound'[Op'.msg][2] = 1
  <2>0. ~Through({"untold"})
    BY <1>1, WindowsGrow DEF Through
  <2>1. CASE HandlerMoves
    <3>1. Op' = Op
      BY <2>1 DEF HandlerMoves, Goes, Op
    <3>2. CASE Project
      BY <3>1, <3>2, <1>h DEF Project, Bind, SessionTypeOK, Hands
    <3>3. CASE Sync
      BY <2>0, <3>1, <3>3 DEF Sync, Projected
    <3>4. ~ProjectNothing
      BY <1>1 DEF ProjectNothing, Through
    <3> QED BY <2>1, <3>2, <3>3, <3>4 DEF HandlerMoves, Goes
  <2>2. CASE Beside /\ handler' = handler /\ bound' = bound
    <3>1. handler.pc # "off" => Op'.msg = Op.msg
      BY <2>2, <1>h DEF OpsKept, Hands, Op
    <3> QED BY <2>0, <2>2, <3>1 DEF Projected
  <2> QED BY <2>1, <2>2, PlaceStep
<1>2. ASSUME ~Through({"untold", "relinked"})', NEW k \in DOMAIN ops', ops'[k].state = "succeeded"
      PROVE  ops'[k].msg # 0 /\ bound'[ops'[k].msg][2] = 1
  <2>0. ~Through({"untold", "relinked"}) /\ ~Through({"untold"})
    BY <1>2, WindowsGrow DEF Through
  <2>1. k \in DOMAIN ops /\ ops'[k].msg = ops[k].msg
    BY <1>2, <1>h DEF OpsKept, OpEnqueued, OpAdded
  <2>2. CASE Done /\ ops[k].state # "succeeded"
    <3>1. handler.pc = "synced" /\ bound' = bound
      BY <2>2 DEF Done, product
    <3>2. k = handler.op
      BY <1>2, <2>1, <2>2, <1>h DEF Done, Ends, Hands
    <3> QED BY <2>0, <2>1, <3>1, <3>2 DEF Projected, HandlerKnown, Op
  <2>3. CASE ~Done \/ ops[k].state = "succeeded"
    <3>1. ops[k].state = "succeeded"
      <4>1. CASE OpsStay
        BY <4>1, <1>2 DEF OpsStay
      <4>2. CASE OpClaimed \/ OpCancelled
        BY <4>2, <1>2, <2>1 DEF OpClaimed, OpCancelled, OpMoves
      <4>3. CASE OpEnded
        BY <4>3, <1>2, <2>1, <2>3 DEF OpEnded, OpMoves
      <4>4. CASE OpEnqueued
        BY <4>4, <1>2, <2>1 DEF OpEnqueued, OpAdded
      <4>5. CASE OpsRecovered
        BY <4>5, <1>2, <2>1 DEF OpsRecovered, Through
      <4>6. CASE OpsSwept
        BY <4>6, <1>2, <2>1 DEF OpsSwept
      <4> QED BY <4>1, <4>2, <4>3, <4>4, <4>5, <4>6, OpsStep
    <3>2. ops[k].msg # 0 /\ bound[ops[k].msg][2] = 1
      BY <2>0, <2>1, <3>1 DEF Projected, SucceededIsDone
    <3>3. CASE BindMessage
      <4>1. handler.op \in DOMAIN ops /\ Op.state = "running" /\ Op.act = "message" /\ handler.op # k
        BY <3>1, <3>3, <1>h DEF BindMessage, HandlerKnown, Hands, Op
      <4>2. ops[k].msg # Op.msg
        <5>1. SUFFICES ASSUME ops[k].msg = Op.msg PROVE FALSE
          OBVIOUS
        <5>2. handler.op < k
          BY <2>1, <4>1, <5>1 DEF QueueKnown, Carries, Op
        <5> QED BY <2>1, <3>1, <4>1, <5>2 DEF QueueKnown, Waits, Op
      <4> QED BY <2>1, <3>2, <3>3, <4>2, <1>m DEF BindMessage, Bind, SessionTypeOK
    <3>4. CASE Project
      BY <2>1, <3>2, <3>4, <1>m DEF Project, Bind, SessionTypeOK
    <3> QED BY <2>1, <3>2, <3>3, <3>4, Writers
  <2> QED BY <2>2, <2>3
<1> QED BY <1>1, <1>2 DEF Projected, SucceededIsDone

\* What is not stored yet is the end of the timeline and belongs to the run.
LEMMA UnstoredKept ==
  ASSUME SessionTypeOK, HandlerKnown, TimelineKnown, UnstoredLast, [SessionNext]_sessionVars
  PROVE  UnstoredLast'
<1> DEFINE W == {"midrun", "outside", "raised", "requeued", "crash"}
           Late == {"run", "ended", "rebound"}
<1>h. Hands
  BY InHand
<1>t. /\ DOMAIN timeline = 1..Len(timeline) /\ Len(timeline) \in Nat
      /\ \A k \in DOMAIN timeline : timeline[k] \in Items
      /\ Users \in Nat /\ \A i : Cardinality(SaidBy(i)) \in Nat
      /\ cursor \in 0..Len(timeline)
  BY TimelineTypes DEF SessionTypeOK
<1> SUFFICES ASSUME ~Through(W)'
             PROVE  /\ cursor' # 0 => timeline'[cursor'] \in rows'
                    /\ \A k \in DOMAIN timeline' : timeline'[k] \notin rows' =>
                         /\ handler'.pc \in Late /\ k \in SaidBy(sess.inv)'
                         /\ \A j \in k..Len(timeline') : timeline'[j] \notin rows'
                    /\ \A k \in 1..cursor' : timeline'[k] \in rows' => timeline'[k] \in shown'
  BY DEF UnstoredLast, NothingSkipped
<1>0. ~Through(W)
  BY WindowsGrow DEF Through
<1>1. /\ cursor # 0 => timeline[cursor] \in rows
      /\ \A k \in DOMAIN timeline : timeline[k] \notin rows =>
           /\ handler.pc \in Late /\ k \in SaidBy(sess.inv)
           /\ \A j \in k..Len(timeline) : timeline[j] \notin rows
      /\ \A k \in 1..cursor : timeline[k] \in rows => timeline[k] \in shown
  BY <1>0 DEF UnstoredLast, NothingSkipped
<1>2. CASE SendMessage
  <2>1. handler.pc \in {"off", "waits"} /\ UNCHANGED client
    BY <1>2 DEF SendMessage, Free, Awaits, Through
  <2>2. \A k \in DOMAIN timeline : timeline[k] \in rows
    BY <1>1, <2>1
  <2>3. User(Users + 1) \in Items
    <3>1. Users + 1 \in 1..MaxMsgs
      BY <1>2, <1>t, SessionsBounds DEF SendMessage
    <3> QED BY <3>1 DEF Items
  <2>4. /\ DOMAIN timeline' = DOMAIN timeline \cup {Len(timeline) + 1}
        /\ \A k \in DOMAIN timeline : timeline'[k] = timeline[k]
        /\ timeline'[Len(timeline) + 1] = User(Users + 1)
    BY <1>2, <2>3, TextAdded DEF SendMessage
  <2>5. rows' = rows \cup {User(Users + 1)}
    BY <1>2 DEF SendMessage, Stored
  <2>6. \A k \in DOMAIN timeline' : timeline'[k] \in rows'
    BY <2>2, <2>4, <2>5
  <2> QED BY <1>1, <1>t, <2>1, <2>2, <2>4, <2>5, <2>6 DEF client
<1>3. CASE RunSays
  <2> DEFINE n == Cardinality(SaidBy(sess.inv)) + 1
             x == Said(sess.inv, n)
  <2>1. n \in 1..MaxSaid /\ sess.inv \in 1..MaxInvs
    <3>1. n \in 1..MaxSaid
      BY <1>3, <1>t, SessionsBounds DEF RunSays
    <3>2. sess.inv \in 1..MaxInvs
      BY <1>3, <1>h, SessionsBounds DEF RunSays, Driving, HandlerKnown, Hands
    <3> QED BY <3>1, <3>2
  <2>2. x \in Items
    BY <2>1 DEF Items
  <2>3. /\ DOMAIN timeline' = DOMAIN timeline \cup {Len(timeline) + 1} /\ Len(timeline') = Len(timeline) + 1
        /\ \A k \in DOMAIN timeline : timeline'[k] = timeline[k]
        /\ timeline'[Len(timeline) + 1] = x
        /\ SaidBy(sess.inv)' = SaidBy(sess.inv) \cup {Len(timeline) + 1}
    <3>1. x[1] = "said" /\ x[2] = sess.inv
      BY DEF Said
    <3>2. timeline' = Append(timeline, x) /\ sess' = sess
      BY <1>3 DEF RunSays, product
    <3>3. (SaidBy(sess.inv))' = {k \in DOMAIN timeline' : timeline'[k][1] = "said" /\ timeline'[k][2] = sess.inv}
      BY <3>2 DEF SaidBy
    <3>4. /\ DOMAIN timeline' = DOMAIN timeline \cup {Len(timeline) + 1} /\ Len(timeline') = Len(timeline) + 1
          /\ \A k \in DOMAIN timeline : timeline'[k] = timeline[k]
          /\ timeline'[Len(timeline) + 1] = x
      BY <2>2, <3>2, TextAdded
    <3>5. SaidBy(sess.inv) = {k \in DOMAIN timeline : timeline[k][1] = "said" /\ timeline[k][2] = sess.inv}
      BY DEF SaidBy
    <3> HIDE DEF x
    <3>6. (SaidBy(sess.inv))' = SaidBy(sess.inv) \cup {Len(timeline) + 1}
      BY <3>1, <3>3, <3>4, <3>5, <1>t
    <3> QED BY <3>4, <3>6
  <2>4. UNCHANGED <<rows, client, handler, sess>> /\ handler.pc = "run"
    BY <1>3 DEF RunSays, product
  <2>5. x \notin rows
    <3>1. SUFFICES ASSUME x \in rows PROVE FALSE
      OBVIOUS
    <3>2. PICK k \in DOMAIN timeline : timeline[k] = x
      BY <3>1 DEF TimelineKnown
    <3>3. x[1] = "said" /\ x[2] = sess.inv /\ x[3] = n
      BY DEF Said
    <3>4. n <= Cardinality(SaidBy(sess.inv))
      BY <3>2, <3>3 DEF TimelineKnown
    <3> QED BY <3>4, <1>t
  <2> HIDE DEF x, n
  <2>6. ASSUME NEW k \in DOMAIN timeline', timeline'[k] \notin rows'
        PROVE  k \in SaidBy(sess.inv)' /\ \A j \in k..Len(timeline') : timeline'[j] \notin rows'
    <3>1. CASE k \in DOMAIN timeline
      BY <1>1, <1>t, <2>3, <2>4, <2>5, <2>6, <3>1
    <3>2. CASE k = Len(timeline) + 1
      BY <1>t, <2>3, <2>4, <2>5, <3>2
    <3> QED BY <2>3, <3>1, <3>2
  <2>7. cursor' = cursor /\ shown' = shown /\ rows' = rows /\ \A k \in 1..cursor : timeline'[k] = timeline[k]
    BY <1>t, <2>3, <2>4 DEF client
  <2>8. cursor # 0 => cursor \in DOMAIN timeline
    BY <1>t
  <2> QED BY <1>1, <2>3, <2>4, <2>6, <2>7, <2>8
<1>4. CASE Project
  <2>1. UNCHANGED <<timeline, client, sess>> /\ handler.pc = "rebound"
    BY <1>4 DEF Project
  <2>2. rows' = rows \cup Projection(sess.inv)
    BY <1>4 DEF Project, Stored
  <2>3. \A k \in DOMAIN timeline : timeline[k] \in rows'
    BY <1>1, <2>2 DEF Projection
  <2>4. \A k \in 1..cursor : timeline[k] \in rows
    <3>1. ASSUME NEW k \in 1..cursor, timeline[k] \notin rows PROVE FALSE
      <4>1. k \in DOMAIN timeline /\ cursor \in k..Len(timeline) /\ cursor # 0
        BY <1>t, <3>1
      <4> QED BY <1>1, <3>1, <4>1
    <3> QED BY <3>1
  <2>5. cursor # 0 => cursor \in DOMAIN timeline
    BY <1>t
  <2> QED BY <1>1, <2>1, <2>3, <2>4, <2>5 DEF client
<1>5. CASE Poll
  <2> DEFINE page == PageAfter(cursor, Page)
  <2>1. UNCHANGED <<timeline, rows, handler, sess>>
    BY <1>5 DEF Poll, product
  <2>2. /\ page \subseteq DOMAIN timeline
        /\ \A k \in page : k > cursor /\ timeline[k] \in rows
        /\ \A k \in page, j \in DOMAIN timeline :
             cursor < j /\ j <= k /\ timeline[j] \in rows => j \in page
        /\ \E k \in page : \A j \in page : j <= k
    <3>1. cursor \in Nat /\ Page \in Nat
      BY <1>t, SessionsBounds
    <3> QED BY <1>5, <3>1, PageFacts DEF Poll
  <2>3. cursor' \in page /\ shown' = shown \cup {timeline[k] : k \in page}
    BY <1>5, <2>2 DEF Poll
  <2> HIDE DEF page
  <2>4. ASSUME NEW k \in 1..cursor', timeline[k] \in rows PROVE timeline[k] \in shown'
    <3>1. CASE k <= cursor
      BY <1>1, <1>t, <2>3, <2>4, <3>1
    <3>2. CASE ~(k <= cursor)
      <4>1. k \in page
        BY <1>t, <2>2, <2>3, <2>4, <3>2
      <4> QED BY <2>3, <4>1
    <3> QED BY <3>1, <3>2
  <2>5. \A i : SaidBy(i)' = SaidBy(i)
    BY <2>1, TextsStay
  <2>6. (SaidBy(sess.inv))' = SaidBy(sess.inv)
    BY <2>1 DEF SaidBy
  <2> QED BY <1>1, <2>1, <2>2, <2>3, <2>4, <2>6
<1>6. CASE ~SendMessage /\ ~RunSays /\ ~Project /\ ~Poll
  <2>0. ~Decided
    BY DEF Decided, Through
  <2>1. UNCHANGED <<timeline, rows, client>>
    BY <1>6, <2>0, TextStep, Writers DEF Speaks
  <2>2. ASSUME NEW k \in DOMAIN timeline, timeline[k] \notin rows
        PROVE  handler'.pc \in Late /\ sess'.inv = sess.inv
    <3>1. handler.pc \in Late
      BY <1>1, <2>2
    <3>2. ~Crash /\ ~Stop
      BY <3>1 DEF Crash, Stop, Free, Awaits, Through
    <3>4. ~ProjectNothing
      BY <1>1, <2>2 DEF ProjectNothing, Projection
    <3>3. ~Failing
      BY DEF Failing, LoadFails, CreateFails, StartRefused, RunRaises, Raises, Through
    <3> QED BY <1>6, <3>1, <3>2, <3>3, <3>4, PlaceStep DEF Claim, Done, HandlerMoves, Goes, LoadExisting,
         Create, BindInvestigation, BindMessage, Start, RunEnds, Awaits, Rebind, Sync, product
  <2>3. ASSUME sess'.inv = sess.inv PROVE (SaidBy(sess.inv))' = SaidBy(sess.inv)
    BY <2>1, <2>3 DEF SaidBy
  <2> QED BY <1>1, <2>1, <2>2, <2>3 DEF client
<1> QED BY <1>2, <1>3, <1>4, <1>5, <1>6

-----------------------------------------------------------------------------
(* The invariant, and what it says. *)

\* A session that was just created.
LEMMA InitSessionInv == SessionInit => SessionInv
<1> SUFFICES ASSUME SessionInit PROVE SessionInv
  OBVIOUS
<1> USE DEF SessionInit, NewSession
<1>1. timeline = <<>> /\ ops = <<>> /\ invs = <<>> /\ Len(ops) = 0 /\ Len(invs) = 0 /\ Len(timeline) = 0
  OBVIOUS
<1>2. DOMAIN ops = {} /\ DOMAIN invs = {} /\ DOMAIN timeline = {}
  OBVIOUS
<1>3. SessionTypeOK
  <2>1. [n \in 1..MaxMsgs |-> <<0, 0>>] \in [1..MaxMsgs -> (0..Len(invs)) \X {0, 1}]
    OBVIOUS
  <2> QED BY <2>1, SessionsBounds DEF SessionTypeOK, Status, HandlerPlaces
<1>4. Users = 0
  <2>1. {k \in DOMAIN timeline : timeline[k][1] = "user"} = {}
    BY <1>2
  <2> QED BY <2>1, FS_EmptySet DEF Users
<1>5. HandlerKnown
  BY <1>1, <1>2, SessionsBounds DEF HandlerKnown, Driving
<1>6. TimelineKnown
  BY <1>2, <1>4, SessionsBounds DEF TimelineKnown
<1>7. QueueKnown
  BY <1>2 DEF QueueKnown
<1>8. Queued
  BY <1>4 DEF Queued
<1>9. LinksKnown
  BY <1>2 DEF LinksKnown
<1>10. AgreesOrWaits /\ Bounded /\ OneInvestigationPerMessage /\ NoWorkOnDeletedTarget
  BY <1>2 DEF AgreesOrWaits, Bounded, OneInvestigationPerMessage, NoWorkOnDeletedTarget
<1>11. OwnMessage /\ Projected
  BY <1>2 DEF OwnMessage, Driving, Projected, SucceededIsDone
<1>12. UnstoredLast
  BY <1>2 DEF UnstoredLast, NothingSkipped
<1> QED BY <1>3, <1>5, <1>6, <1>7, <1>8, <1>9, <1>10, <1>11, <1>12 DEF SessionInv

\* Every step keeps the invariant.
LEMMA SessionInvKept ==
  ASSUME SessionInv, [SessionNext]_sessionVars
  PROVE  SessionInv'
BY SessionTypesKept, HandlerKnownKept, TimelineKnownKept, QueueKnownKept, QueuedKept, LinksKnownKept,
   AgreesKept, BoundedKept, OneInvestigationKept, TargetKept, OwnMessageKept, ProjectedKept,
   UnstoredKept DEF SessionInv

\* The invariant holds in every state.
LEMMA SessionInvAlways == SessionSpec => []SessionInv
<1>1. SessionInit => SessionInv
  BY InitSessionInv
<1>2. SessionInv /\ [SessionNext]_sessionVars => SessionInv'
  BY SessionInvKept
<1> QED BY <1>1, <1>2, PTL DEF SessionSpec

\* The session and its work agree: with nothing queued or running its status is
\* that of its investigation, only the bound investigation can still run, a
\* message has opened one at most whatever is retried or recovered unless an
\* orderly stop requeued it (dispatcher.py:295), and nothing runs on a target
\* that was deleted.  Each part names the windows it leaves out.
THEOREM SessionsTrackTheirWork == SessionSpec => []SessionTracksWork
<1>1. SessionInv => SessionTracksWork
  BY DEF SessionInv, SessionTracksWork, SessionAgrees, AgreesOrWaits, Agrees, AtRest, NoOrphan, Bounded
<1> QED BY <1>1, SessionInvAlways, PTL

\* A message that was accepted has its operation, the operation that says it
\* succeeded has bound it to its run unless the run had no first entry, a message
\* is bound to the investigation that it opened, and a client that pages forward
\* is given every stored text but those stored late behind its cursor by a named
\* window (a message sent mid-run, a decision outside the session's operations).
THEOREM AcceptedMessagesAreKept == SessionSpec => []MessagesKept
<1>1. SessionInv => MessagesKept
  BY DEF SessionInv, MessagesKept, Queued, MessageHasOperation, Carries, OwnMessage, BoundToItself,
     Projected, UnstoredLast, NothingSkipped
<1> QED BY <1>1, SessionInvAlways, PTL
=============================================================================
