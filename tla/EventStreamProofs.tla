-------------------------- MODULE EventStreamProofs --------------------------
(***************************************************************************)
(* Proofs about EventStream, for any sessions, events, sockets, queue, page*)
(* and wire sizes, and any number of faults: neither the server nor the    *)
(* client loses an event of the session, and what the client sees of it is *)
(* what OrderedDelivery promises, its liveness apart.                      *)
(*                                                                         *)
(* The invariant follows an event from the log to the cursor: through the  *)
(* publish tasks and the queue of a stream, or through its replay, to the  *)
(* wire.  At each place it says that nothing is left out between what has  *)
(* passed and what is still to come.                                       *)
(***************************************************************************)
EXTENDS EventStream, FiniteSetTheorems, NaturalsInduction, WellFoundedInduction, TLAPS

\* None of the windows is hit behind which an event may be lost.
Free == windows \subseteq {"pruned"}

\* The events of the session, and a frame of one of them on a wire.
Ours == {i \in DOMAIN log : log[i].s = Home}
OnWire(w, x) == \E j \in DOMAIN w : w[j] = Ev(x)

\* The last event that was published, or would have been but for a restart.
Frontier == Len(log) - Len(tasks)

Streaming == {"fetch", "replay", "live"}

\* The client never leaves its session: there is one synchronizer and at most
\* one recovery, which starts at the cursor and holds it there.
AtHome ==
  /\ cli.inc = 0 /\ cli.s = Home /\ view.s = Home /\ view.last = cli.cursor
  /\ \A s \in Sessions : bound[s] = StartInv
  /\ \A i \in DOMAIN log : log[i].inv \in {0, StartInv}
  /\ \A r \in recs : /\ r.inc = 0 /\ r.s = Home /\ r.evs <= Len(log)
                     /\ r.evs /= Unread => r.inv = StartInv
                     /\ ~r.saving => r.base = cli.cursor
  /\ \A q, r \in recs : q = r

\* What is not published is the end of the log, in order.
TasksInOrder ==
  /\ Len(tasks) <= Len(log)
  /\ \A j \in DOMAIN tasks : tasks[j] = Frontier + j

\* The reducer has every event of the session up to the cursor but what was
\* removed before, and shows those with a row of their own.
Reached ==
  \A x \in Ours : x <= cli.cursor =>
    /\ x \in view.got \/ (x < earliest /\ log[x].kind = "log")
    /\ log[x].kind = "row" => x \in view.shown

\* The stream k speaks about the session.
Tuned(k) ==
  /\ k.s = Home
  /\ k.st \in {"accepted"} \cup Streaming => k.inv = StartInv

\* Maintenance took nothing the stream k has still to replay.
Retained(k) ==
  /\ k.st = "accepted" /\ k.after = 0 => earliest = 1
  /\ k.st \in Streaming => earliest <= k.after + 1

\* What the wire of k carries has no gap above the cursor.
InOrder(k) ==
  \A j \in DOMAIN k.wire : k.wire[j].t = "event" =>
    /\ k.wire[j].n \in Ours
    /\ \A x \in Ours : cli.cursor < x /\ x < k.wire[j].n =>
         \E m \in DOMAIN k.wire : m < j /\ k.wire[m] = Ev(x)

\* The queue of k ends with the last published event; one that lost events is
\* full until the stream looks at it.
Queued(k) ==
  /\ k.st = "accepted" => k.dropped = 0
  /\ k.st \in Streaming =>
       /\ k.hw <= Len(log) /\ k.after <= Len(log)
       /\ Len(k.q) <= Frontier
       /\ \A j \in DOMAIN k.q : k.q[j] = Frontier - Len(k.q) + j
       /\ k.dropped > 0 => Len(k.q) = QueueSize

\* Up to the point where the replay of k stands, every event is on the wire or
\* behind the cursor; the queue begins below the high water; and the page
\* leaves out nothing up to its end, or up to the high water.
Replaying(k) ==
  /\ k.st = "accepted" => k.after <= cli.cursor
  /\ k.st \in {"fetch", "replay"} =>
       /\ \A x \in Ours : cli.cursor < x /\ x <= k.after => OnWire(k.wire, x)
       /\ k.dropped = 0 => Frontier - Len(k.q) <= k.hw
  /\ k.st = "replay" =>
       /\ \A i \in k.page : i \in Ours /\ i > k.after
       /\ \A x \in Ours : \A i \in k.page : k.after < x /\ x < i => x \in k.page
       /\ ~k.more => \A x \in Ours : k.after < x /\ x <= k.hw => x \in k.page

\* A live stream has sent what it replayed and what it took from its queue.
Current(k) ==
  k.st = "live" /\ k.dropped = 0 =>
    \A x \in Ours : x <= k.hw \/ x <= Frontier - Len(k.q) =>
      x <= cli.cursor \/ OnWire(k.wire, x)

Carries(k) == Tuned(k) /\ Retained(k) /\ InOrder(k) /\ Queued(k) /\ Replaying(k) /\ Current(k)

\* Inside the windows no event is lost on its way.
NoGap ==
  /\ AtHome /\ TasksInOrder /\ Reached
  /\ cli.cursor <= Len(log)
  /\ earliest > 1 => cli.cursor > 0
  /\ \A c \in Conns : Carries(conn[c])

IInv == TypeOK /\ (Free => NoGap)

-----------------------------------------------------------------------------
(* Numbers and sequences. *)

\* A set of numbers that is not empty has a least one.
LEMMA Least ==
  ASSUME NEW T \in SUBSET Nat, T /= {}
  PROVE  \E x \in T : \A y \in T : x <= y
<1>1. PICK R : R = {ss \in Nat \X Nat : ss[1] < ss[2]}
  OBVIOUS
<1>2. IsWellFoundedOn(R, Nat)
  BY <1>1, NatLessThanWellFounded DEF OpToRel
<1>3. \A x, y \in Nat : y < x => <<y, x>> \in R
  BY <1>1
<1>4. PICK x \in T : \A y \in T : ~(<<y, x>> \in R)
  BY <1>2, WFMin
<1>5. ASSUME NEW y \in T PROVE x <= y
  <2>1. x \in Nat /\ y \in Nat
    OBVIOUS
  <2>2. ~(<<y, x>> \in R)
    BY <1>4
  <2>3. ~(y < x)
    BY <1>3, <2>1, <2>2
  <2> QED BY <2>1, <2>3
<1> QED BY <1>5

\* A bounded one has a largest.
LEMMA Largest ==
  ASSUME NEW n \in Nat, NEW T \in SUBSET (0..n), T /= {}
  PROVE  \E x \in T : \A y \in T : y <= x
<1>1. PICK D : D = {n - x : x \in T}
  OBVIOUS
<1>2. D \in SUBSET Nat /\ D /= {}
  <2>1. \A x \in T : x \in 0..n
    OBVIOUS
  <2>2. \A x \in 0..n : n - x \in Nat
    OBVIOUS
  <2> QED BY <1>1, <2>1, <2>2
<1>3. PICK d \in D : \A e \in D : d <= e
  BY <1>2, Least
<1>4. PICK x \in T : d = n - x
  BY <1>1, <1>3
<1>5. ASSUME NEW y \in T PROVE y <= x
  <2>1. n - y \in D
    BY <1>1
  <2>2. d <= n - y
    BY <1>3, <2>1
  <2>3. x \in Int /\ y \in Int /\ d = n - x
    BY <1>4
  <2> QED BY <2>2, <2>3
<1> QED BY <1>5

\* The page holds the lowest of what was found.
LEMMA PageIsLowest ==
  ASSUME NEW n \in Nat, NEW found \in SUBSET (1..n), StreamConstants
  PROVE  /\ PageOf(found) \subseteq found
         /\ \A i \in PageOf(found), x \in found : x < i => x \in PageOf(found)
<1>1. ASSUME NEW i \in PageOf(found), NEW x \in found, x < i
      PROVE  x \in PageOf(found)
  <2>1. PICK A : A = {j \in found : j < x}
    OBVIOUS
  <2>2. PICK B : B = {j \in found : j < i}
    OBVIOUS
  <2>3. i \in found /\ Cardinality(B) < PageSize
    BY <2>2 DEF PageOf
  <2>4. A \subseteq B
    <3>1. \A j \in found : j \in Int
      OBVIOUS
    <3>2. \A j \in found : j < x => j < i
      BY <1>1, <2>3, <3>1
    <3> QED BY <2>1, <2>2, <3>2
  <2>5. IsFiniteSet(B)
    <3>1. IsFiniteSet(1..n)
      BY FS_Interval
    <3>2. B \subseteq 1..n
      BY <2>2
    <3> QED BY <3>1, <3>2, FS_Subset
  <2>6. Cardinality(A) <= Cardinality(B) /\ Cardinality(A) \in Nat /\ Cardinality(B) \in Nat
    BY <2>4, <2>5, FS_Subset, FS_CardinalityType
  <2>7. Cardinality(A) < PageSize
    BY <2>3, <2>6 DEF StreamConstants
  <2> QED BY <2>1, <2>7 DEF PageOf
<1> QED BY <1>1 DEF PageOf

-----------------------------------------------------------------------------
(* Types. *)

LEMMA FrameTypes ==
  /\ Hello \in Frame /\ Gap \in Frame /\ Slow \in Frame /\ Closed \in Frame
  /\ \A i \in Seqs : Ev(i) \in Frame /\ Ev(i).t = "event" /\ Ev(i).n = i
  /\ \A f \in Frame : f.t = "event" => f.n \in Seqs /\ f = Ev(f.n)
  /\ \A f \in {Hello, Gap, Slow, Closed} : f.t /= "event"
BY DEF Frame, Hello, Gap, Slow, Closed, Ev

LEMMA IdleType ==
  ASSUME StreamConstants
  PROVE  /\ Idle \in ConnType
         /\ Idle.st = "free" /\ Idle.s = Home /\ Idle.q = << >> /\ Idle.wire = << >>
         /\ Idle.dropped = 0
BY DEF Idle, ConnType, StreamConstants

\* A new record for one socket.
LEMMA SetConnType ==
  ASSUME TypeOK, NEW c \in Conns, NEW k \in ConnType, Len(k.q) <= QueueSize,
         conn' = [conn EXCEPT ![c] = k]
  PROVE  conn' \in [Conns -> ConnType] /\ \A d \in Conns : Len(conn'[d].q) <= QueueSize
BY DEF TypeOK

LEMMA OfferFacts ==
  ASSUME StreamConstants, NEW k \in ConnType, Len(k.q) <= QueueSize, NEW i \in Seqs
  PROVE  LET o == Offer(k, i) IN
         /\ o \in ConnType /\ Len(o.q) <= QueueSize
         /\ o.st = k.st /\ o.s = k.s /\ o.after = k.after /\ o.inv = k.inv /\ o.hw = k.hw
         /\ o.page = k.page /\ o.more = k.more /\ o.wire = k.wire
         /\ \/ /\ Len(k.q) = QueueSize /\ o.q = Append(Tail(k.q), i)
               /\ o.dropped = k.dropped + 1
            \/ /\ Len(k.q) < QueueSize /\ o.q = Append(k.q, i)
               /\ o.dropped = k.dropped
<1>1. k.q \in Seq(Seqs) /\ k.dropped \in Nat /\ QueueSize \in Nat \ {0} /\ Len(k.q) \in Nat
  BY DEF ConnType, StreamConstants
<1>2. CASE Len(k.q) = QueueSize
  <2>1. PICK q : q = Append(Tail(k.q), i)
    OBVIOUS
  <2>2. q \in Seq(Seqs) /\ Len(q) = Len(k.q)
    BY <1>1, <1>2, <2>1
  <2>3. PICK o : o = [k EXCEPT !.q = q, !.dropped = k.dropped + 1]
    OBVIOUS
  <2>4. /\ o.st = k.st /\ o.s = k.s /\ o.after = k.after /\ o.inv = k.inv /\ o.hw = k.hw
        /\ o.page = k.page /\ o.more = k.more /\ o.wire = k.wire /\ o.q = q
        /\ o.dropped = k.dropped + 1
    BY <2>3 DEF ConnType
  <2>5. o \in ConnType
    <3>1. k.dropped + 1 \in Nat
      BY <1>1
    <3>2. PICK n \in Nat : n = k.dropped + 1
      BY <3>1
    <3>3. o = [k EXCEPT !.q = q, !.dropped = n]
      BY <2>3, <3>2
    <3> QED BY <2>2, <3>3 DEF ConnType
  <2>6. Offer(k, i) = o
    BY <1>2, <2>1, <2>3 DEF Offer
  <2> QED BY <1>1, <1>2, <2>1, <2>2, <2>4, <2>5, <2>6
<1>3. CASE Len(k.q) /= QueueSize
  <2>1. PICK q : q = Append(k.q, i)
    OBVIOUS
  <2>2. q \in Seq(Seqs) /\ Len(q) = Len(k.q) + 1
    BY <1>1, <2>1
  <2>3. PICK o : o = [k EXCEPT !.q = q]
    OBVIOUS
  <2>4. /\ o.st = k.st /\ o.s = k.s /\ o.after = k.after /\ o.inv = k.inv /\ o.hw = k.hw
        /\ o.page = k.page /\ o.more = k.more /\ o.wire = k.wire /\ o.q = q
        /\ o.dropped = k.dropped
    BY <2>3 DEF ConnType
  <2>5. o \in ConnType
    BY <1>1, <2>2, <2>3 DEF ConnType
  <2>6. Offer(k, i) = o
    BY <1>3, <2>1, <2>3 DEF Offer
  <2> QED BY SMTT(40), <1>1, <1>3, <2>1, <2>2, <2>4, <2>5, <2>6
<1> QED BY <1>2, <1>3

\* The types of what an event, a task or a session is.
LEMMA LogFacts ==
  ASSUME TypeOK
  PROVE  /\ StreamConstants
         /\ Len(log) \in Nat /\ DOMAIN log = 1..Len(log) /\ Len(log) <= MaxEvents
         /\ DOMAIN log \subseteq Seqs
         /\ Ours \subseteq DOMAIN log
         /\ Len(tasks) \in Nat /\ DOMAIN tasks = 1..Len(tasks) /\ Frontier \in Int
         /\ cli.cursor \in Nat /\ earliest \in Nat
         /\ \A c \in Conns : conn[c] \in ConnType
<1>1. StreamConstants /\ MaxEvents \in Nat
  BY StreamConstants DEF StreamConstants
<1>2. /\ Len(log) \in Nat /\ DOMAIN log = 1..Len(log) /\ Len(log) <= MaxEvents
      /\ Len(tasks) \in Nat /\ DOMAIN tasks = 1..Len(tasks)
  BY DEF TypeOK
<1>3. cli.cursor \in Nat /\ earliest \in Nat /\ \A c \in Conns : conn[c] \in ConnType
  BY <1>1 DEF TypeOK
<1> QED BY <1>1, <1>2, <1>3 DEF Seqs, Ours, Frontier

\* The fields of a socket.
LEMMA ConnFacts ==
  ASSUME NEW k \in ConnType, StreamConstants
  PROVE  /\ k.q \in Seq(Seqs) /\ Len(k.q) \in Nat /\ DOMAIN k.q = 1..Len(k.q)
         /\ k.wire \in Seq(Frame) /\ Len(k.wire) \in Nat /\ DOMAIN k.wire = 1..Len(k.wire)
         /\ k.after \in Nat /\ k.hw \in Nat /\ k.dropped \in Nat /\ k.page \subseteq Seqs
         /\ Seqs \subseteq Nat
BY DEF ConnType, StreamConstants, Seqs

-----------------------------------------------------------------------------
(* What a step leaves alone. *)

LEMMA SameLog ==
  ASSUME UNCHANGED <<log, tasks>>
  PROVE  Ours' = Ours /\ Frontier' = Frontier
BY DEF Ours, Frontier

\* A stream keeps its promise while the cursor moves on.
LEMMA CarriesOn ==
  ASSUME TypeOK, NEW k \in ConnType, Carries(k), UNCHANGED <<log, tasks, earliest>>,
         cli'.cursor \in Nat, cli.cursor <= cli'.cursor
  PROVE  Carries(k)'
<1>1. Ours' = Ours /\ Frontier' = Frontier /\ Ours \subseteq Nat
  BY SameLog, LogFacts, ConnFacts
<1>2. /\ cli.cursor \in Nat /\ k.after \in Nat
      /\ \A x \in Nat : cli'.cursor < x => cli.cursor < x
      /\ \A x \in Nat : x <= cli.cursor => x <= cli'.cursor
  <2>1. cli.cursor \in Nat /\ k.after \in Nat
    BY LogFacts, ConnFacts
  <2> QED BY <2>1
<1>3. Tuned(k)' /\ Retained(k)'
  BY DEF Carries, Tuned, Retained
<1>4. InOrder(k)'
  BY <1>1, <1>2 DEF Carries, InOrder
<1>5. Queued(k)'
  BY <1>1 DEF Carries, Queued
<1>6. k.st = "accepted" => k.after <= cli'.cursor
  BY <1>2 DEF Carries, Replaying
<1>7. Replaying(k)'
  BY <1>1, <1>2, <1>6 DEF Carries, Replaying
<1>8. Current(k)'
  BY <1>1, <1>2 DEF Carries, Current
<1> QED BY <1>3, <1>4, <1>5, <1>7, <1>8 DEF Carries

\* A step of one socket: the others keep their promise.
LEMMA OneConn ==
  ASSUME TypeOK, NoGap, UNCHANGED <<log, tasks, earliest>>,
         cli'.cursor \in Nat, cli.cursor <= cli'.cursor,
         NEW c \in Conns, NEW k \in ConnType, conn' = [conn EXCEPT ![c] = k], Carries(k)'
  PROVE  \A d \in Conns : Carries(conn[d])'
<1> SUFFICES ASSUME NEW d \in Conns PROVE Carries(conn[d])'
  OBVIOUS
<1>1. PICK h \in ConnType : h = conn'[d] /\ (h = k \/ h = conn[d])
  BY LogFacts DEF TypeOK
<1>2. Carries(h)'
  <2>1. CASE h = k
    BY <2>1 DEF Carries, Tuned, Retained, InOrder, Queued, Replaying, Current
  <2>2. CASE h = conn[d]
    <3>1. Carries(h)
      BY <2>2 DEF NoGap
    <3> QED BY <3>1, CarriesOn
  <2> QED BY <1>1, <2>1, <2>2
<1> QED BY <1>1, <1>2
        DEF Carries, Tuned, Retained, InOrder, Queued, Replaying, Current

\* The rest of the state.
LEMMA RestType ==
  ASSUME TypeOK, UNCHANGED <<srvVars, cli, recs, view, faults, switches, windows>>,
         conn' \in [Conns -> ConnType], \A d \in Conns : Len(conn'[d].q) <= QueueSize
  PROVE  TypeOK'
BY DEF TypeOK, srvVars

\* A step of one socket and of nothing else.
LEMMA OnlyConn ==
  ASSUME IInv, UNCHANGED <<srvVars, cli, recs, view, faults, switches, windows>>,
         NEW c \in Conns, NEW k \in ConnType, conn' = [conn EXCEPT ![c] = k],
         Len(k.q) <= QueueSize, NoGap => Carries(k)'
  PROVE  IInv'
<1>1. TypeOK
  BY DEF IInv
<1>2. TypeOK'
  BY <1>1, SetConnType, RestType
<1>3. ASSUME NoGap PROVE NoGap'
  <2>1. \A d \in Conns : Carries(conn[d])'
    <3>1. UNCHANGED <<log, tasks, earliest, cli>> /\ cli.cursor \in Nat
      BY <1>1, LogFacts DEF srvVars
    <3>2. cli'.cursor \in Nat /\ cli.cursor <= cli'.cursor
      BY <3>1
    <3> QED BY <1>1, <1>3, <3>1, <3>2, OneConn
  <2>2. (AtHome /\ TasksInOrder /\ Reached)'
    <3>1. UNCHANGED <<log, earliest, tasks, bound, cli, view, recs>>
      BY DEF srvVars
    <3>2. AtHome' /\ TasksInOrder'
      BY <1>3, <3>1, SameLog DEF NoGap, AtHome, TasksInOrder
    <3>3. Reached'
      BY <1>3, <3>1, SameLog DEF NoGap, Reached
    <3> QED BY <3>2, <3>3
  <2> QED BY <1>3, <2>1, <2>2 DEF NoGap, srvVars
<1> QED BY <1>2, <1>3 DEF IInv, Free

-----------------------------------------------------------------------------
(* The streams of the server. *)

\* The last frames of a stream.
LEMMA LastFrames ==
  ASSUME NEW s \in Seq(Frame), NEW e \in Seq(Frame),
         \A j \in DOMAIN e : e[j].t /= "event", NEW w, w = s \o e
  PROVE  /\ w \in Seq(Frame)
         /\ \A j \in DOMAIN w : w[j].t = "event" => j \in DOMAIN s
         /\ \A j \in DOMAIN s : j \in DOMAIN w /\ w[j] = s[j]
<1>1. /\ w \in Seq(Frame) /\ Len(w) = Len(s) + Len(e) /\ Len(s) \in Nat /\ Len(e) \in Nat
      /\ DOMAIN e = 1..Len(e) /\ DOMAIN s = 1..Len(s)
  OBVIOUS
<1>2. DOMAIN w = 1..(Len(s) + Len(e))
  BY <1>1
<1>3. \A j \in 1..(Len(s) + Len(e)) : w[j] = IF j <= Len(s) THEN s[j] ELSE e[j - Len(s)]
  BY <1>1
<1>4. ASSUME NEW j \in DOMAIN w, w[j].t = "event" PROVE j \in DOMAIN s
  <2>1. j \in Int /\ 1 <= j /\ j <= Len(s) + Len(e)
    BY <1>1, <1>2
  <2>2. CASE j <= Len(s)
    BY <1>1, <2>1, <2>2
  <2>3. CASE ~(j <= Len(s))
    <3>1. j - Len(s) \in DOMAIN e
      BY <1>1, <2>1, <2>3
    <3> QED BY <1>2, <1>3, <1>4, <2>3, <3>1
  <2> QED BY <2>2, <2>3
<1>5. \A j \in DOMAIN s : j \in DOMAIN w /\ w[j] = s[j]
  <2>1. \A j \in DOMAIN s : j \in 1..(Len(s) + Len(e)) /\ j <= Len(s)
    BY <1>1
  <2> QED BY <1>2, <1>3, <2>1
<1> QED BY <1>1, <1>4, <1>5

LEMMA EndFrames ==
  ASSUME NEW a \in {Gap, Slow}
  PROVE  \E e \in Seq(Frame) : e = <<a, Closed>> /\ \A j \in DOMAIN e : e[j].t /= "event"
<1>1. PICK e : e = <<a, Closed>>
  OBVIOUS
<1>2. e \in Seq(Frame) /\ Len(e) = 2 /\ e[1] = a /\ e[2] = Closed
  BY <1>1, FrameTypes
<1>3. \A j \in DOMAIN e : j = 1 \/ j = 2
  BY <1>2
<1>4. a.t /= "event" /\ Closed.t /= "event"
  BY FrameTypes
<1> QED BY <1>1, <1>2, <1>3, <1>4

LEMMA SubscribeKeeps ==
  ASSUME IInv, NEW c \in Conns, Subscribe(c)
  PROVE  IInv'
<1>1. /\ TypeOK /\ conn[c] \in ConnType /\ StreamConstants /\ Len(log) \in Nat
      /\ Len(log) <= MaxEvents /\ MaxEvents \in Nat
  BY LogFacts DEF IInv, StreamConstants
<1>2. /\ conn[c].st = "accepted"
      /\ UNCHANGED <<srvVars, cli, recs, view, faults, switches, windows>>
  BY DEF Subscribe
<1>3. Ours' = Ours /\ Frontier' = Frontier /\ UNCHANGED <<log, tasks, earliest, cli>>
  BY <1>2, SameLog DEF srvVars
<1>4. CASE conn[c].after > 0 /\ earliest > conn[c].after + 1
  <2>1. PICK w : w = conn[c].wire \o <<Gap, Closed>>
    OBVIOUS
  <2>2. PICK k : k = [conn[c] EXCEPT !.st = "ended", !.wire = w]
    OBVIOUS
  <2>3. conn' = [conn EXCEPT ![c] = k]
    BY <1>4, <2>1, <2>2 DEF Subscribe
  <2>4. conn[c].wire \in Seq(Frame) /\ conn[c].q \in Seq(Seqs) /\ Len(conn[c].q) <= QueueSize
    BY <1>1, ConnFacts DEF TypeOK
  <2>5. /\ w \in Seq(Frame)
        /\ \A j \in DOMAIN w : w[j].t = "event" => j \in DOMAIN conn[c].wire
        /\ \A j \in DOMAIN conn[c].wire : j \in DOMAIN w /\ w[j] = conn[c].wire[j]
    <3>1. PICK e \in Seq(Frame) : /\ e = <<Gap, Closed>>
                                  /\ \A j \in DOMAIN e : e[j].t /= "event"
      BY EndFrames
    <3>2. PICK s \in Seq(Frame) : s = conn[c].wire
      BY <2>4
    <3>3. w = s \o e
      BY <2>1, <3>1, <3>2
    <3>4. \A j \in DOMAIN e : e[j].t /= "event"
      BY <3>1
    <3>5. /\ w \in Seq(Frame)
          /\ \A j \in DOMAIN w : w[j].t = "event" => j \in DOMAIN s
          /\ \A j \in DOMAIN s : j \in DOMAIN w /\ w[j] = s[j]
      BY <3>3, <3>4, LastFrames
    <3> QED BY <3>2, <3>5
  <2>6. k \in ConnType /\ k.s = conn[c].s /\ k.st = "ended" /\ k.wire = w /\ k.q = conn[c].q
    BY <1>1, <2>2, <2>5 DEF ConnType
  <2>7. ASSUME NoGap PROVE Carries(k)'
    <3>1. Carries(conn[c])
      BY <2>7 DEF NoGap
    <3>2. (Tuned(k) /\ Retained(k) /\ Queued(k) /\ Replaying(k) /\ Current(k))'
      BY <2>6, <3>1 DEF Carries, Tuned, Retained, Queued, Replaying, Current, Streaming
    <3>3. InOrder(k)'
      BY <1>3, <2>5, <2>6, <3>1 DEF Carries, InOrder
    <3> QED BY <3>2, <3>3 DEF Carries
  <2> QED BY <1>2, <2>3, <2>4, <2>6, <2>7, OnlyConn
<1>5. CASE ~(conn[c].after > 0 /\ earliest > conn[c].after + 1)
  <2>1. PICK n \in 0..MaxEvents : n = Len(log)
    BY <1>1
  <2>2. PICK k : k = [conn[c] EXCEPT !.st = "fetch", !.hw = n, !.q = << >>]
    OBVIOUS
  <2>3. conn' = [conn EXCEPT ![c] = k]
    BY <1>5, <2>1, <2>2 DEF Subscribe
  <2>4. /\ k \in ConnType /\ k.s = conn[c].s /\ k.st = "fetch" /\ k.wire = conn[c].wire
        /\ k.q = << >> /\ k.after = conn[c].after /\ k.inv = conn[c].inv /\ k.hw = n
        /\ k.dropped = conn[c].dropped
    <3>1. << >> \in Seq(Seqs)
      OBVIOUS
    <3> QED BY <1>1, <2>2, <3>1 DEF ConnType
  <2>5. Len(k.q) = 0 /\ QueueSize \in Nat /\ DOMAIN k.q = {}
    BY <1>1, <2>4 DEF StreamConstants
  <2>6. ASSUME NoGap PROVE Carries(k)'
    <3>1. Carries(conn[c])
      BY <2>6 DEF NoGap
    <3>2. Tuned(k)'
      BY <1>2, <2>4, <3>1 DEF Carries, Tuned, Streaming
    <3>3. conn[c].after \in Nat /\ earliest \in Nat /\ cli.cursor \in Nat /\ Ours \subseteq Nat
      BY <1>1, LogFacts, ConnFacts
    <3>4. Retained(k)'
      BY <1>2, <1>3, <1>5, <2>4, <3>1, <3>3 DEF Carries, Retained, Streaming
    <3>5. InOrder(k)'
      BY <1>3, <2>4, <3>1 DEF Carries, InOrder
    <3>6. k.dropped = 0 /\ Frontier <= n /\ 0 <= Frontier
      BY <1>1, <1>2, <2>1, <2>4, <2>6, <3>1, LogFacts
      DEF Carries, Queued, NoGap, TasksInOrder, Frontier
    <3>7. Queued(k)'
      <4>1. k.after <= Len(log)
        BY <1>1, <1>2, <2>4, <2>6, <3>1, <3>3 DEF Carries, Replaying, NoGap
      <4>2. k.st /= "accepted" /\ k.dropped = 0 /\ Len(k.q) = 0 /\ DOMAIN k.q = {}
        BY <2>4, <2>5, <3>6
      <4>3. k.hw <= Len(log')
        BY <1>1, <1>3, <2>1, <2>4
      <4>4. Len(k.q) <= Frontier'
        BY <1>3, <2>5, <3>6
      <4>5. k.after <= Len(log')
        BY <1>3, <4>1
      <4> QED BY <4>2, <4>3, <4>4, <4>5, SMTT(40) DEF Queued
    <3>8. \A x \in Ours : ~(cli.cursor < x /\ x <= k.after)
      BY <1>2, <2>4, <3>1, <3>3 DEF Carries, Replaying
    <3>9. Replaying(k)'
      <4>1. Frontier - Len(k.q) <= k.hw
        BY <2>4, <2>5, <3>6, LogFacts, <1>1
      <4> QED BY <1>3, <2>4, <3>8, <4>1 DEF Replaying
    <3>10. Current(k)'
      BY <2>4 DEF Current
    <3> QED BY <3>2, <3>4, <3>5, <3>7, <3>9, <3>10 DEF Carries
  <2>7. Len(k.q) <= QueueSize
    BY <2>5
  <2> QED BY <1>2, <2>3, <2>4, <2>6, <2>7, OnlyConn
<1> QED BY <1>4, <1>5

LEMMA ReplayPageKeeps ==
  ASSUME IInv, NEW c \in Conns, ReplayPage(c)
  PROVE  IInv'
<1>1. /\ TypeOK /\ conn[c] \in ConnType /\ StreamConstants /\ DOMAIN log = 1..Len(log)
      /\ Len(log) \in Nat /\ Len(log) <= MaxEvents /\ DOMAIN log \subseteq Seqs
      /\ Len(conn[c].q) <= QueueSize
  BY LogFacts DEF IInv, TypeOK
<1>2. /\ conn[c].st = "fetch"
      /\ UNCHANGED <<srvVars, cli, recs, view, faults, switches, windows>>
  BY DEF ReplayPage
<1>3. Ours' = Ours /\ Frontier' = Frontier /\ UNCHANGED <<log, tasks, earliest, cli>>
  BY <1>2, SameLog DEF srvVars
<1>4. PICK found : found = After(conn[c].after, conn[c].s, conn[c].inv)
  OBVIOUS
<1>5. PICK page : page = PageOf(found)
  OBVIOUS
<1>6. PICK more \in BOOLEAN : more = (found /= page)
  OBVIOUS
<1>7. PICK k : k = [conn[c] EXCEPT !.st = "replay", !.page = page, !.more = more]
  OBVIOUS
<1>8. conn' = [conn EXCEPT ![c] = k]
  BY <1>4, <1>5, <1>6, <1>7 DEF ReplayPage
<1>9. found \in SUBSET (1..Len(log)) /\ found \in SUBSET DOMAIN log
  BY <1>1, <1>4 DEF After
<1>10. page \subseteq found /\ \A i \in page, x \in found : x < i => x \in page
  BY <1>1, <1>5, <1>9, PageIsLowest
<1>11. /\ k \in ConnType /\ k.s = conn[c].s /\ k.st = "replay" /\ k.wire = conn[c].wire
       /\ k.q = conn[c].q /\ k.after = conn[c].after /\ k.inv = conn[c].inv
       /\ k.hw = conn[c].hw /\ k.dropped = conn[c].dropped /\ k.page = page /\ k.more = more
  <2>1. page \subseteq Seqs
    BY <1>1, <1>9, <1>10
  <2> QED BY <1>1, <1>7, <2>1 DEF ConnType
<1>12. ASSUME NoGap PROVE Carries(k)'
  <2>1. Carries(conn[c])
    BY <1>12 DEF NoGap
  <2>2. (Tuned(k) /\ Retained(k) /\ InOrder(k) /\ Queued(k) /\ Current(k))'
    BY <1>2, <1>3, <1>11, <2>1
    DEF Carries, Tuned, Retained, InOrder, Queued, Current, Streaming
  <2>3. found = {x \in Ours : k.after < x}
    <3>1. conn[c].s = Home /\ conn[c].inv = StartInv /\ earliest <= k.after + 1
      BY <1>2, <1>11, <2>1 DEF Carries, Tuned, Retained, Streaming
    <3>2. \A i \in DOMAIN log : log[i].inv \in {0, StartInv}
      BY <1>12 DEF NoGap, AtHome
    <3>3. \A i \in DOMAIN log : i \in Nat
      BY <1>1
    <3>4. k.after \in Nat /\ earliest \in Nat
      BY <1>1, <1>11, LogFacts, ConnFacts
    <3>5. \A i \in DOMAIN log : i > k.after => i >= earliest
      BY <3>1, <3>3, <3>4
    <3>6. \A i \in DOMAIN log : i > k.after <=> k.after < i
      BY <3>3, <3>4
    <3>7. \A i \in DOMAIN log : i \in found <=> i \in Ours /\ k.after < i
      BY <1>4, <1>11, <3>1, <3>2, <3>5, <3>6 DEF After, Matches, Ours
    <3> QED BY <1>9, <3>7 DEF Ours
  <2>4. \A i \in page : i \in Ours /\ i > k.after
    <3>1. \A i \in page : i \in Ours /\ k.after < i
      BY <1>10, <2>3
    <3>2. k.after \in Nat /\ \A i \in page : i \in Nat
      BY <1>1, <1>9, <1>10, <1>11, ConnFacts
    <3> QED BY <3>1, <3>2
  <2>5. \A x \in Ours : \A i \in page : k.after < x /\ x < i => x \in page
    BY <1>10, <2>3
  <2>6. ~more => \A x \in Ours : k.after < x => x \in page
    BY <1>6, <2>3
  <2>7. Replaying(k)'
    BY <1>2, <1>3, <1>11, <2>1, <2>4, <2>5, <2>6 DEF Carries, Replaying
  <2> QED BY <2>2, <2>7 DEF Carries
<1> QED BY <1>1, <1>2, <1>8, <1>11, <1>12, OnlyConn

\* A stream that has put the event i behind what it carries.
LEMMA SentFacts ==
  ASSUME NEW w \in Seq(Frame), NEW i \in Seqs, NEW v, v = Append(w, Ev(i))
  PROVE  /\ v \in Seq(Frame) /\ Len(v) = Len(w) + 1 /\ Len(w) \in Nat
         /\ DOMAIN v = 1..(Len(w) + 1) /\ DOMAIN w = 1..Len(w)
         /\ \A j \in DOMAIN w : v[j] = w[j]
         /\ v[Len(w) + 1] = Ev(i)
         /\ \A x : OnWire(w, x) => OnWire(v, x)
         /\ OnWire(v, i)
<1>1. PICK e \in Frame : e = Ev(i)
  BY FrameTypes
<1>2. /\ v \in Seq(Frame) /\ Len(v) = Len(w) + 1 /\ Len(w) \in Nat
      /\ DOMAIN v = 1..(Len(w) + 1) /\ DOMAIN w = 1..Len(w)
      /\ \A j \in 1..Len(w) : v[j] = w[j]
      /\ v[Len(w) + 1] = e
  BY <1>1
<1>3. \A j \in 1..Len(w) : j \in 1..(Len(w) + 1)
  BY <1>2
<1>4. Len(w) + 1 \in 1..(Len(w) + 1)
  BY <1>2
<1> QED BY <1>1, <1>2, <1>3, <1>4 DEF OnWire

\* It stays without a gap if all the events before i are behind the cursor or
\* on the wire already.
LEMMA SentInOrder ==
  ASSUME TypeOK, NEW k \in ConnType, InOrder(k), NEW i \in Ours,
         \A x \in Ours : cli.cursor < x /\ x < i => OnWire(k.wire, x),
         NEW h, h.wire = Append(k.wire, Ev(i))
  PROVE  InOrder(h)
<1>1. i \in Seqs /\ k.wire \in Seq(Frame)
  BY LogFacts, ConnFacts
<1>2. PICK v : v = h.wire
  OBVIOUS
<1>3. v = Append(k.wire, Ev(i))
  BY <1>2
<1>4. PICK w \in Seq(Frame) : w = k.wire
  BY <1>1
<1>5. /\ DOMAIN v = 1..(Len(w) + 1) /\ DOMAIN w = 1..Len(w) /\ Len(w) \in Nat
      /\ \A j \in DOMAIN w : v[j] = w[j]
      /\ v[Len(w) + 1] = Ev(i)
  BY <1>1, <1>3, <1>4, SentFacts
<1>6. Ev(i).t = "event" /\ Ev(i).n = i
  BY <1>1, FrameTypes
<1>7. ASSUME NEW j \in DOMAIN v, v[j].t = "event"
      PROVE  /\ v[j].n \in Ours
             /\ \A x \in Ours : cli.cursor < x /\ x < v[j].n =>
                  \E m \in DOMAIN v : m < j /\ v[m] = Ev(x)
  <2>1. CASE j \in DOMAIN w
    <3>1. /\ w[j].n \in Ours
          /\ \A x \in Ours : cli.cursor < x /\ x < w[j].n =>
               \E m \in DOMAIN w : m < j /\ w[m] = Ev(x)
      BY <1>4, <1>5, <1>7, <2>1 DEF InOrder
    <3>2. \A m \in DOMAIN w : m \in DOMAIN v /\ v[m] = w[m]
      BY <1>5
    <3> QED BY <1>5, <2>1, <3>1, <3>2
  <2>2. CASE j \notin DOMAIN w
    <3>1. j = Len(w) + 1
      BY <1>5, <2>2
    <3>2. v[j].n = i
      BY <1>5, <1>6, <3>1
    <3>3. ASSUME NEW x \in Ours, cli.cursor < x, x < i
          PROVE  \E m \in DOMAIN v : m < j /\ v[m] = Ev(x)
      <4>1. PICK m \in DOMAIN w : w[m] = Ev(x)
        BY <1>4, <3>3 DEF OnWire
      <4> QED BY <1>5, <3>1, <4>1
    <3> QED BY <3>2, <3>3
  <2> QED BY <2>1, <2>2
<1> QED BY <1>2, <1>7 DEF InOrder

LEMMA ReplaySendKeeps ==
  ASSUME IInv, NEW c \in Conns, ReplaySend(c)
  PROVE  IInv'
<1>1. /\ TypeOK /\ conn[c] \in ConnType /\ StreamConstants /\ Len(conn[c].q) <= QueueSize
  BY LogFacts DEF IInv, TypeOK
<1>2. /\ conn[c].st = "replay"
      /\ UNCHANGED <<srvVars, cli, recs, view, faults, switches, windows>>
  BY DEF ReplaySend
<1>3. Ours' = Ours /\ Frontier' = Frontier /\ UNCHANGED <<log, tasks, earliest, cli>>
  BY <1>2, SameLog DEF srvVars
<1>4. /\ conn[c].after \in Nat /\ conn[c].hw \in Nat /\ conn[c].page \subseteq Nat
      /\ cli.cursor \in Nat /\ Ours \subseteq Nat /\ Ours \subseteq Seqs /\ earliest \in Nat
      /\ Frontier \in Int /\ Len(conn[c].q) \in Nat /\ conn[c].wire \in Seq(Frame)
      /\ conn[c].page \subseteq Seqs /\ Seqs \subseteq 0..MaxEvents
  <2>1. /\ conn[c].after \in Nat /\ conn[c].hw \in Nat /\ Len(conn[c].q) \in Nat
        /\ conn[c].page \subseteq Seqs /\ conn[c].wire \in Seq(Frame) /\ Seqs \subseteq Nat
    BY <1>1, ConnFacts
  <2>2. /\ cli.cursor \in Nat /\ earliest \in Nat /\ Frontier \in Int
        /\ Ours \subseteq Seqs /\ MaxEvents \in Nat
    BY <1>1, LogFacts DEF StreamConstants
  <2>3. Seqs \subseteq 0..MaxEvents
    BY <2>2 DEF Seqs
  <2> QED BY <2>1, <2>2, <2>3
<1>5. CASE ReplayDone(conn[c]) /\ conn' = [conn EXCEPT ![c] = Replayed(conn[c])]
  <2>1. PICK st \in {"fetch", "live"} :
          st = IF conn[c].page = {} /\ conn[c].more THEN "fetch" ELSE "live"
    OBVIOUS
  <2>2. PICK k : k = [conn[c] EXCEPT !.page = {}, !.more = FALSE, !.st = st]
    OBVIOUS
  <2>3. conn' = [conn EXCEPT ![c] = k]
    BY <1>5, <2>1, <2>2 DEF Replayed
  <2>4. /\ k \in ConnType /\ k.s = conn[c].s /\ k.st = st /\ k.wire = conn[c].wire
        /\ k.q = conn[c].q /\ k.after = conn[c].after /\ k.inv = conn[c].inv
        /\ k.hw = conn[c].hw /\ k.dropped = conn[c].dropped
    BY <1>1, <2>2 DEF ConnType
  <2>5. ASSUME NoGap PROVE Carries(k)'
    <3>1. Carries(conn[c])
      BY <2>5 DEF NoGap
    <3>2. (Tuned(k) /\ Retained(k) /\ InOrder(k) /\ Queued(k))'
      BY <1>2, <1>3, <2>4, <3>1
      DEF Carries, Tuned, Retained, InOrder, Queued, Streaming
    <3>3. Replaying(k)'
      BY <1>2, <1>3, <2>1, <2>4, <3>1 DEF Carries, Replaying
    <3>4. ASSUME st = "live", NEW x \in Ours, k.after < x, x <= k.hw PROVE FALSE
      <4>1. CASE conn[c].page = {}
        BY <1>2, <2>1, <2>4, <3>1, <3>4, <4>1 DEF Carries, Replaying
      <4>2. CASE conn[c].page /= {}
        <5>1. \A i \in conn[c].page : i > conn[c].hw
          BY <1>5 DEF ReplayDone
        <5>2. PICK i \in conn[c].page : i \in Nat
          BY <1>4, <4>2
        <5>3. x < i /\ x \in Nat
          BY <1>4, <2>4, <3>4, <5>1, <5>2
        <5>4. x \in conn[c].page
          BY <1>2, <2>4, <3>1, <3>4, <5>3 DEF Carries, Replaying
        <5> QED BY <1>4, <2>4, <3>4, <5>1, <5>3, <5>4
      <4> QED BY <4>1, <4>2
    <3>5. ASSUME st = "live", k.dropped = 0, NEW x \in Ours,
                 x <= k.hw \/ x <= Frontier - Len(k.q)
          PROVE  x <= cli.cursor \/ OnWire(k.wire, x)
      <4>1. Frontier - Len(k.q) <= k.hw /\ x \in Nat
        BY <1>2, <1>4, <2>4, <3>1, <3>5 DEF Carries, Replaying
      <4>2. x <= k.hw
        BY <1>4, <2>4, <3>5, <4>1
      <4>3. x <= k.after
        BY <1>4, <2>4, <3>4, <3>5, <4>1, <4>2
      <4>4. cli.cursor < x => OnWire(k.wire, x)
        BY <1>2, <2>4, <3>1, <4>3 DEF Carries, Replaying
      <4> QED BY <1>4, <4>1, <4>4
    <3>6. Current(k)'
      BY <1>3, <2>4, <3>5 DEF Current
    <3> QED BY <3>2, <3>3, <3>6 DEF Carries
  <2> QED BY <1>1, <1>2, <2>3, <2>4, <2>5, OnlyConn
<1>6. CASE ~ReplayDone(conn[c]) /\ SendNext(c)
  <2>1. PICK i \in conn[c].page :
          /\ \A j \in conn[c].page : i <= j
          /\ conn' = [conn EXCEPT ![c] =
               [conn[c] EXCEPT !.wire = Append(conn[c].wire, Ev(i)),
                               !.page = conn[c].page \ {i}, !.after = i]]
    BY <1>6 DEF SendNext
  <2>2. PICK w : w = Append(conn[c].wire, Ev(i))
    OBVIOUS
  <2>3. PICK page : page = conn[c].page \ {i}
    OBVIOUS
  <2>4. PICK k : k = [conn[c] EXCEPT !.wire = w, !.page = page, !.after = i]
    OBVIOUS
  <2>5. conn' = [conn EXCEPT ![c] = k]
    BY <2>1, <2>2, <2>3, <2>4
  <2>6. i \in Seqs /\ i \in 0..MaxEvents /\ w \in Seq(Frame) /\ page \subseteq Seqs
    BY SMTT(40), <1>4, <2>2, <2>3, SentFacts
  <2>7. /\ k \in ConnType /\ k.s = conn[c].s /\ k.st = "replay" /\ k.wire = w
        /\ k.q = conn[c].q /\ k.after = i /\ k.inv = conn[c].inv /\ k.page = page
        /\ k.hw = conn[c].hw /\ k.dropped = conn[c].dropped /\ k.more = conn[c].more
    BY <1>1, <1>2, <2>4, <2>6 DEF ConnType
  <2>8. ASSUME NoGap PROVE Carries(k)'
    <3>1. Carries(conn[c])
      BY <2>8 DEF NoGap
    <3>2. /\ i \in Ours /\ i > conn[c].after
          /\ \A j \in conn[c].page : j \in Ours /\ j > conn[c].after
          /\ \A x \in Ours : cli.cursor < x /\ x <= conn[c].after => OnWire(conn[c].wire, x)
          /\ \A x \in Ours : \A j \in conn[c].page :
               conn[c].after < x /\ x < j => x \in conn[c].page
          /\ ~conn[c].more =>
               \A x \in Ours : conn[c].after < x /\ x <= conn[c].hw => x \in conn[c].page
      BY <1>2, <2>1, <3>1 DEF Carries, Replaying
    <3>3. ASSUME NEW x \in Ours, conn[c].after < x, x < i PROVE FALSE
      <4>1. x \in conn[c].page
        BY <2>1, <3>2, <3>3
      <4> QED BY <1>4, <2>1, <3>3, <4>1
    <3>4. \A x \in Ours : x \in Nat
      BY <1>4
    <3>5. ASSUME NEW x \in Ours, x < i PROVE x <= conn[c].after
      <4>1. ~(conn[c].after < x)
        BY <3>3, <3>5
      <4> QED BY <1>4, <3>4, <4>1
    <3>6. (Tuned(k) /\ Queued(k) /\ Current(k))'
      <4>1. i <= Len(log)
        BY <1>1, <3>2, LogFacts
      <4> QED BY <1>2, <1>3, <2>7, <3>1, <4>1
              DEF Carries, Tuned, Queued, Current, Streaming
    <3>7. Retained(k)'
      <4>1. earliest <= conn[c].after + 1
        BY <1>2, <3>1 DEF Carries, Retained, Streaming
      <4>2. earliest <= i + 1
        BY <1>4, <3>2, <3>4, <4>1
      <4> QED BY <1>3, <2>7, <4>2 DEF Retained
    <3>8. InOrder(k)'
      <4>1. \A x \in Ours : cli.cursor < x /\ x < i => OnWire(conn[c].wire, x)
        BY <3>2, <3>5
      <4>2. InOrder(conn[c]) /\ k.wire = Append(conn[c].wire, Ev(i))
        BY <2>2, <2>7, <3>1 DEF Carries
      <4>3. InOrder(k)
        BY <1>1, <3>2, <4>1, <4>2, SentInOrder
      <4> QED BY <1>3, <4>3 DEF InOrder
    <3>9. \A x \in Ours : cli.cursor < x /\ x <= i => OnWire(w, x)
      <4>0. PICK s \in Seq(Frame) : s = conn[c].wire
        BY <1>4
      <4>1. w = Append(s, Ev(i)) /\ i \in Seqs
        BY <2>2, <2>6, <4>0
      <4>2. (\A x : OnWire(s, x) => OnWire(w, x)) /\ OnWire(w, i)
        BY <4>1, SentFacts
      <4>3. \A x \in Ours : x <= i => x = i \/ x < i
        BY <1>4, <3>2
      <4> QED BY <3>2, <3>5, <4>0, <4>2, <4>3
    <3>10. \A j \in page : j \in Ours /\ j > i
      BY <1>4, <2>1, <2>3, <3>2
    <3>11. \A x \in Ours : i < x => conn[c].after < x /\ x /= i
      BY <1>4, <3>2
    <3>12. /\ \A x \in Ours : \A j \in page : i < x /\ x < j => x \in page
           /\ ~conn[c].more => \A x \in Ours : i < x /\ x <= conn[c].hw => x \in page
      BY <2>3, <3>2, <3>11
    <3>13. Replaying(k)'
      BY <1>2, <1>3, <2>7, <3>1, <3>9, <3>10, <3>12 DEF Carries, Replaying
    <3> QED BY <3>6, <3>7, <3>8, <3>13 DEF Carries
  <2> QED BY <1>1, <1>2, <2>5, <2>7, <2>8, OnlyConn
<1> QED BY <1>5, <1>6 DEF ReplaySend

\* The rest of a queue that holds the numbers up to F.
LEMMA Shifted ==
  ASSUME NEW p \in Seq(Seqs), p /= << >>, NEW q, q = Tail(p), NEW F \in Int,
         Len(p) <= F, \A j \in DOMAIN p : p[j] = F - Len(p) + j
  PROVE  /\ q \in Seq(Seqs) /\ Len(q) \in Nat /\ Len(q) + 1 = Len(p) /\ Len(q) <= F
         /\ Head(p) = F - Len(q) /\ Head(p) \in 1..F
         /\ \A j \in DOMAIN q : q[j] = F - Len(q) + j
<1>1. /\ q \in Seq(Seqs) /\ Len(p) \in Nat /\ Len(p) > 0 /\ Len(q) = Len(p) - 1
      /\ Head(p) = p[1] /\ DOMAIN p = 1..Len(p) /\ DOMAIN q = 1..Len(q)
  OBVIOUS
<1>2. \A j \in 1..Len(q) : q[j] = p[j + 1]
  BY <1>1
<1>3. Len(q) \in Nat /\ Len(q) + 1 = Len(p) /\ Len(q) <= F
  BY <1>1
<1>4. 1 \in DOMAIN p
  BY <1>1
<1>5. p[1] = F - Len(p) + 1
  BY <1>4
<1>6. Head(p) = F - Len(q) /\ Head(p) \in 1..F
  BY <1>1, <1>3, <1>5
<1>7. ASSUME NEW j \in DOMAIN q PROVE q[j] = F - Len(q) + j
  <2>1. j \in 1..Len(q) /\ j + 1 \in DOMAIN p
    BY <1>1, <1>3
  <2>2. q[j] = F - Len(p) + (j + 1)
    BY <1>2, <2>1
  <2> QED BY <1>3, <2>1, <2>2
<1> QED BY <1>1, <1>3, <1>6, <1>7

LEMMA LiveKeeps ==
  ASSUME IInv, NEW c \in Conns, Live(c)
  PROVE  IInv'
<1>1. /\ TypeOK /\ conn[c] \in ConnType /\ StreamConstants /\ Len(conn[c].q) <= QueueSize
  BY LogFacts DEF IInv, TypeOK
<1>2. /\ conn[c].st = "live" /\ conn[c].q /= << >>
      /\ UNCHANGED <<srvVars, cli, recs, view, faults, switches, windows>>
  BY DEF Live
<1>3. Ours' = Ours /\ Frontier' = Frontier /\ UNCHANGED <<log, tasks, earliest, cli>>
  BY <1>2, SameLog DEF srvVars
<1>4. /\ conn[c].hw \in Nat /\ cli.cursor \in Nat /\ Ours \subseteq Nat /\ Ours \subseteq Seqs
      /\ Frontier \in Int /\ Len(conn[c].q) \in Nat /\ conn[c].wire \in Seq(Frame)
      /\ conn[c].q \in Seq(Seqs) /\ Len(log) \in Nat /\ DOMAIN log = 1..Len(log)
      /\ conn[c].dropped \in Nat
  <2>1. /\ conn[c].hw \in Nat /\ Len(conn[c].q) \in Nat /\ conn[c].wire \in Seq(Frame)
        /\ conn[c].q \in Seq(Seqs) /\ Seqs \subseteq Nat /\ conn[c].dropped \in Nat
    BY SMTT(40), <1>1, ConnFacts
  <2>2. /\ cli.cursor \in Nat /\ Ours \subseteq Seqs /\ Frontier \in Int
        /\ Len(log) \in Nat /\ DOMAIN log = 1..Len(log)
    BY <1>1, LogFacts
  <2> QED BY <2>1, <2>2
<1>5. PICK p \in Seq(Seqs) : p = conn[c].q /\ p /= << >>
  BY <1>2, <1>4
<1>6. PICK i \in Seqs : i = Head(p)
  BY <1>5
<1>7. PICK q \in Seq(Seqs) : q = Tail(p) /\ Len(q) \in Nat /\ Len(q) + 1 = Len(p)
  <2>1. PICK q : q = Tail(p)
    OBVIOUS
  <2>2. q \in Seq(Seqs) /\ Len(q) = Len(p) - 1 /\ Len(p) \in Nat /\ Len(p) /= 0
    BY <1>5, <2>1
  <2>3. Len(q) \in Nat /\ Len(q) + 1 = Len(p)
    BY <2>2
  <2> QED BY ZenonT(40), <2>1, <2>2, <2>3
<1>8. PICK k : k = [conn[c] EXCEPT !.q = q]
  OBVIOUS
<1>9. /\ k \in ConnType /\ k.s = conn[c].s /\ k.st = "live" /\ k.wire = conn[c].wire
      /\ k.q = q /\ k.after = conn[c].after /\ k.inv = conn[c].inv
      /\ k.hw = conn[c].hw /\ k.dropped = conn[c].dropped
  BY <1>1, <1>2, <1>8 DEF ConnType
<1>10. PICK n : n = LiveInv(k)
  OBVIOUS
<1>11. n \in 0..MaxInv
  BY <1>1, <1>9, <1>10 DEF LiveInv, TypeOK, ConnType
<1>12. \/ /\ k.dropped > 0
          /\ conn' = [conn EXCEPT ![c] =
               [k EXCEPT !.st = "ended", !.q = << >>, !.wire = k.wire \o <<Slow, Closed>>]]
       \/ k.dropped = 0 /\ i <= k.hw /\ conn' = [conn EXCEPT ![c] = k]
       \/ /\ k.dropped = 0 /\ i > k.hw /\ ~Matches(log[i], k.s, n)
          /\ conn' = [conn EXCEPT ![c] = [k EXCEPT !.inv = n]]
       \/ /\ k.dropped = 0 /\ i > k.hw /\ Matches(log[i], k.s, n)
          /\ conn' = [conn EXCEPT ![c] =
               [[k EXCEPT !.inv = n] EXCEPT !.wire = Append(k.wire, Ev(i))]]
  BY <1>5, <1>6, <1>7, <1>8, <1>10 DEF Live
<1>13. Len(q) <= QueueSize /\ QueueSize \in Nat
  <2>1. Len(q) + 1 <= QueueSize /\ QueueSize \in Nat
    BY <1>1, <1>5, <1>7 DEF StreamConstants
  <2> QED BY <1>7, <2>1
\* What the stream has taken from its queue reaches one event further.
<1>14. ASSUME NoGap, k.dropped = 0
       PROVE  /\ Carries(conn[c]) /\ n = StartInv /\ k.s = Home /\ k.inv = StartInv
              /\ i = Frontier - Len(q) /\ i \in DOMAIN log
              /\ Len(q) <= Frontier /\ \A j \in DOMAIN q : q[j] = Frontier - Len(q) + j
              /\ \A x \in Ours : x <= k.hw \/ x < i => x <= cli.cursor \/ OnWire(k.wire, x)
              /\ Matches(log[i], k.s, n) <=> i \in Ours
  <2>1. Carries(conn[c])
    BY <1>14 DEF NoGap
  <2>2. k.s = Home /\ k.inv = StartInv
    BY <1>2, <1>9, <2>1 DEF Carries, Tuned, Streaming
  <2>3. n = StartInv
    BY <1>1, <1>10, <1>14, <2>2 DEF LiveInv, NoGap, AtHome, StreamConstants
  <2>4. Len(p) <= Frontier /\ \A j \in DOMAIN p : p[j] = Frontier - Len(p) + j
    BY <1>2, <1>5, <2>1 DEF Carries, Queued, Streaming
  <2>5. /\ i = Frontier - Len(q) /\ Len(q) <= Frontier /\ i \in 1..Frontier
        /\ \A j \in DOMAIN q : q[j] = Frontier - Len(q) + j
    <3>1. PICK F \in Int : F = Frontier
      BY <1>4
    <3>2. Len(p) <= F /\ \A j \in DOMAIN p : p[j] = F - Len(p) + j
      BY <2>4, <3>1
    <3>3. p /= << >> /\ q = Tail(p)
      BY <1>5, <1>7
    <3>4. /\ Len(q) <= F /\ Head(p) = F - Len(q) /\ Head(p) \in 1..F
          /\ \A j \in DOMAIN q : q[j] = F - Len(q) + j
      BY <3>2, <3>3, Shifted
    <3> QED BY <1>6, <3>1, <3>4
  <2>6. i \in DOMAIN log
    <3>1. Frontier <= Len(log)
      BY <1>1, LogFacts DEF Frontier
    <3>2. i \in 1..Len(log)
      BY <1>4, <2>5, <3>1
    <3> QED BY <1>4, <3>2
  <2>8. ASSUME NEW x \in Ours, x <= k.hw \/ x < i PROVE x <= cli.cursor \/ OnWire(k.wire, x)
    <3>1. x < i => x <= Frontier - Len(p)
      <4>1. x \in Int /\ i = Frontier - Len(q) /\ Len(p) = Len(q) + 1
        BY <1>4, <1>7, <2>5
      <4> QED BY <1>4, <1>7, <4>1
    <3>2. x <= conn[c].hw \/ x <= Frontier - Len(conn[c].q)
      BY <1>5, <1>9, <2>8, <3>1
    <3> QED BY <1>2, <1>9, <1>14, <2>1, <3>2 DEF Carries, Current
  <2>9. Matches(log[i], k.s, n) <=> i \in Ours
    <3>1. log[i].inv \in {0, StartInv}
      BY <1>14, <2>6 DEF NoGap, AtHome
    <3> QED BY <2>2, <2>3, <2>6, <3>1 DEF Matches, Ours
  <2> QED BY <2>1, <2>2, <2>3, <2>5, <2>6, <2>8, <2>9
\* The conditions that do not depend on the case.
<1>15. ASSUME NoGap, k.dropped = 0, NEW h \in ConnType, h.s = k.s, h.inv \in {k.inv, n},
              h.st = "live", h.after = k.after, h.q = q, h.hw = k.hw, h.dropped = 0,
              InOrder(h),
              \A x \in Ours : x <= k.hw \/ x <= i => x <= cli.cursor \/ OnWire(h.wire, x)
       PROVE  Carries(h)'
  <2>1. /\ Carries(conn[c]) /\ n = StartInv /\ k.s = Home /\ k.inv = StartInv
        /\ i = Frontier - Len(q)
        /\ Len(q) <= Frontier /\ \A j \in DOMAIN q : q[j] = Frontier - Len(q) + j
    BY <1>14, <1>15
  <2>2. (Tuned(h) /\ Replaying(h))'
    BY <1>15, <2>1 DEF Tuned, Replaying
  <2>3. Retained(h)'
    BY <1>2, <1>3, <1>9, <1>15, <2>1 DEF Carries, Retained, Streaming
  <2>4. Queued(h)'
    BY <1>2, <1>3, <1>9, <1>15, <2>1 DEF Carries, Queued, Streaming
  <2>5. InOrder(h)'
    BY <1>3, <1>15 DEF InOrder
  <2>6. Current(h)'
    BY <1>3, <1>15, <2>1 DEF Current
  <2> QED BY <2>2, <2>3, <2>4, <2>5, <2>6 DEF Carries
<1>16. CASE /\ k.dropped > 0
            /\ conn' = [conn EXCEPT ![c] =
                 [k EXCEPT !.st = "ended", !.q = << >>, !.wire = k.wire \o <<Slow, Closed>>]]
  <2>1. PICK w : w = k.wire \o <<Slow, Closed>>
    OBVIOUS
  <2>2. PICK h : h = [k EXCEPT !.st = "ended", !.q = << >>, !.wire = w]
    OBVIOUS
  <2>3. conn' = [conn EXCEPT ![c] = h]
    BY <1>16, <2>1, <2>2
  <2>4. /\ w \in Seq(Frame)
        /\ \A j \in DOMAIN w : w[j].t = "event" => j \in DOMAIN k.wire
        /\ \A j \in DOMAIN k.wire : j \in DOMAIN w /\ w[j] = k.wire[j]
    <3>1. PICK e \in Seq(Frame) : /\ e = <<Slow, Closed>>
                                  /\ \A j \in DOMAIN e : e[j].t /= "event"
      BY EndFrames
    <3>2. PICK s \in Seq(Frame) : s = k.wire
      BY <1>4, <1>9
    <3>3. w = s \o e
      BY <2>1, <3>1, <3>2
    <3>4. \A j \in DOMAIN e : e[j].t /= "event"
      BY <3>1
    <3>5. /\ w \in Seq(Frame)
          /\ \A j \in DOMAIN w : w[j].t = "event" => j \in DOMAIN s
          /\ \A j \in DOMAIN s : j \in DOMAIN w /\ w[j] = s[j]
      BY <3>3, <3>4, LastFrames
    <3> QED BY <3>2, <3>5
  <2>5. h \in ConnType /\ h.s = k.s /\ h.st = "ended" /\ h.wire = w /\ h.q = << >>
    <3>1. << >> \in Seq(Seqs)
      OBVIOUS
    <3> QED BY <1>9, <2>2, <2>4, <3>1 DEF ConnType
  <2>6. Len(h.q) <= QueueSize
    BY <1>13, <2>5
  <2>7. ASSUME NoGap PROVE Carries(h)'
    <3>1. Carries(conn[c])
      BY <2>7 DEF NoGap
    <3>2. (Tuned(h) /\ Retained(h) /\ Queued(h) /\ Replaying(h) /\ Current(h))'
      BY <1>9, <2>5, <3>1 DEF Carries, Tuned, Retained, Queued, Replaying, Current, Streaming
    <3>3. InOrder(h)'
      BY <1>3, <1>9, <2>4, <2>5, <3>1 DEF Carries, InOrder
    <3> QED BY <3>2, <3>3 DEF Carries
  <2> QED BY <1>2, <2>3, <2>5, <2>6, <2>7, OnlyConn
<1>17. CASE k.dropped = 0 /\ i <= k.hw /\ conn' = [conn EXCEPT ![c] = k]
  <2>1. ASSUME NoGap PROVE Carries(k)'
    <3>1. InOrder(k)
      BY <1>9, <1>14, <1>17, <2>1 DEF Carries, InOrder
    <3>2. \A x \in Ours : x <= k.hw \/ x <= i => x <= k.hw
      BY <1>4, <1>9, <1>17
    <3>3. \A x \in Ours : x <= k.hw => x <= cli.cursor \/ OnWire(k.wire, x)
      BY <1>14, <1>17, <2>1
    <3> QED BY <1>9, <1>15, <1>17, <2>1, <3>1, <3>2, <3>3
  <2> QED BY <1>2, <1>9, <1>13, <1>17, <2>1, OnlyConn
<1>18. CASE /\ k.dropped = 0 /\ i > k.hw /\ ~Matches(log[i], k.s, n)
            /\ conn' = [conn EXCEPT ![c] = [k EXCEPT !.inv = n]]
  <2>1. PICK h : h = [k EXCEPT !.inv = n]
    OBVIOUS
  <2>2. /\ h \in ConnType /\ h.s = k.s /\ h.st = "live" /\ h.wire = k.wire
        /\ h.q = q /\ h.after = k.after /\ h.inv = n
        /\ h.hw = k.hw /\ h.dropped = k.dropped
    BY <1>9, <1>11, <2>1 DEF ConnType
  <2>3. ASSUME NoGap PROVE Carries(h)'
    <3>1. InOrder(h)
      BY <1>9, <1>14, <1>18, <2>2, <2>3 DEF Carries, InOrder
    <3>2. i \notin Ours
      BY <1>14, <1>18, <2>3
    <3>3. \A x \in Ours : x <= i => x < i
      BY <1>4, <3>2
    <3>4. \A x \in Ours : x <= k.hw \/ x <= i => x <= cli.cursor \/ OnWire(h.wire, x)
      BY <1>14, <1>18, <2>2, <2>3, <3>3
    <3> QED BY <1>15, <1>18, <2>2, <2>3, <3>1, <3>4
  <2> QED BY <1>2, <1>13, <1>18, <2>1, <2>2, <2>3, OnlyConn
<1>19. CASE /\ k.dropped = 0 /\ i > k.hw /\ Matches(log[i], k.s, n)
            /\ conn' = [conn EXCEPT ![c] =
                 [[k EXCEPT !.inv = n] EXCEPT !.wire = Append(k.wire, Ev(i))]]
  <2>1. PICK w : w = Append(k.wire, Ev(i))
    OBVIOUS
  <2>2. PICK s \in Seq(Frame) : s = k.wire
    BY <1>4, <1>9
  <2>3. w = Append(s, Ev(i))
    BY <2>1, <2>2
  <2>4. w \in Seq(Frame) /\ OnWire(w, i) /\ \A x : OnWire(s, x) => OnWire(w, x)
    BY <2>3, SentFacts
  <2>5. PICK h : h = [k EXCEPT !.inv = n, !.wire = w]
    OBVIOUS
  <2>6. conn' = [conn EXCEPT ![c] = h]
    BY <1>19, <2>1, <2>5
  <2>7. /\ h \in ConnType /\ h.s = k.s /\ h.st = "live" /\ h.wire = w
        /\ h.q = q /\ h.after = k.after /\ h.inv = n
        /\ h.hw = k.hw /\ h.dropped = k.dropped
    BY <1>9, <1>11, <2>4, <2>5 DEF ConnType
  <2>8. ASSUME NoGap PROVE Carries(h)'
    <3>1. i \in Ours
      BY <1>14, <1>19, <2>8
    <3>2. InOrder(k)
      BY <1>9, <1>14, <1>19, <2>8 DEF Carries, InOrder
    <3>3. \A x \in Ours : x <= k.hw \/ x < i => x <= cli.cursor \/ OnWire(k.wire, x)
      BY <1>14, <1>19, <2>8
    <3>4. \A x \in Ours : cli.cursor < x => ~(x <= cli.cursor)
      BY <1>4
    <3>5. \A x \in Ours : cli.cursor < x /\ x < i => OnWire(k.wire, x)
      BY <3>3, <3>4
    <3>6. h.wire = Append(k.wire, Ev(i))
      BY <2>1, <2>7
    <3>7. InOrder(h)
      BY <1>1, <1>9, <3>1, <3>2, <3>5, <3>6, SentInOrder
    <3>8. \A x \in Ours : x <= i => x < i \/ x = i
      BY <1>4, <3>1
    <3>9. \A x \in Ours : x <= k.hw \/ x <= i => x <= cli.cursor \/ OnWire(h.wire, x)
      BY <2>2, <2>4, <2>7, <3>3, <3>8
    <3> QED BY <1>15, <1>19, <2>7, <2>8, <3>7, <3>9
  <2> QED BY <1>2, <1>13, <2>6, <2>7, <2>8, OnlyConn
<1> QED BY <1>12, <1>16, <1>17, <1>18, <1>19

-----------------------------------------------------------------------------
(* Events come in. *)

\* A stream keeps its promise while the log grows, if its queue does.
LEMMA Fed ==
  ASSUME TypeOK, NoGap, NEW k \in ConnType, Carries(k), NEW h \in ConnType,
         h.st = k.st, h.s = k.s, h.inv = k.inv, h.after = k.after, h.hw = k.hw,
         h.page = k.page, h.more = k.more, h.wire = k.wire,
         Queued(h)',
         k.st \in Streaming /\ h.dropped = 0 =>
           k.dropped = 0 /\ Frontier' - Len(h.q) = Frontier - Len(k.q),
         Ours \subseteq Ours', \A x \in Ours' : x \in Nat,
         \A x \in Ours' : x <= Len(log) => x \in Ours,
         UNCHANGED <<earliest, cli>>
  PROVE  Carries(h)'
<1>1. /\ Len(log) \in Nat /\ \A x \in Ours : x \in Nat /\ x <= Len(log)
      /\ k.after \in Nat /\ k.hw \in Nat /\ Len(k.q) \in Nat /\ Frontier \in Int
      /\ Frontier <= Len(log)
  <2>1. Len(log) \in Nat /\ Ours \subseteq 1..Len(log) /\ Frontier \in Int
    BY LogFacts
  <2>2. Frontier <= Len(log)
    BY LogFacts DEF Frontier
  <2>3. k.after \in Nat /\ k.hw \in Nat /\ Len(k.q) \in Nat
    BY LogFacts, ConnFacts
  <2> QED BY <2>1, <2>2, <2>3
<1>2. k.st \in Streaming => k.after <= Len(log) /\ k.hw <= Len(log)
  BY DEF Carries, Queued
<1>3. (Tuned(h) /\ Retained(h))'
  BY DEF Carries, Tuned, Retained
<1>4. InOrder(h)'
  <2>1. \A n \in Ours : \A x \in Ours' : x < n => x \in Ours
    BY <1>1
  <2> QED BY <2>1 DEF Carries, InOrder
<1>5. k.st \in {"fetch", "replay"} /\ h.dropped = 0 => Frontier' - Len(h.q) <= h.hw
  BY DEF Carries, Replaying, Streaming
<1>6. \A x \in Ours' : k.st \in Streaming /\ (x <= k.after \/ x <= k.hw) => x \in Ours
  BY <1>1, <1>2
<1>7. k.st \in {"fetch", "replay"} =>
        \A x \in Ours' : cli.cursor < x /\ x <= k.after => OnWire(k.wire, x)
  BY <1>6 DEF Carries, Replaying, Streaming
<1>8. k.st = "replay" =>
        /\ \A i \in k.page : i \in Ours' /\ i > k.after
        /\ \A x \in Ours' : \A i \in k.page : k.after < x /\ x < i => x \in k.page
        /\ ~k.more => \A x \in Ours' : k.after < x /\ x <= k.hw => x \in k.page
  <2>1. \A n \in Ours : \A x \in Ours' : x < n => x \in Ours
    BY <1>1
  <2>2. k.st = "replay" =>
          /\ \A i \in k.page : i \in Ours /\ i > k.after
          /\ \A x \in Ours : \A i \in k.page : k.after < x /\ x < i => x \in k.page
          /\ ~k.more => \A x \in Ours : k.after < x /\ x <= k.hw => x \in k.page
    BY DEF Carries, Replaying
  <2> QED BY <1>6, <2>1, <2>2 DEF Streaming
<1>9. Replaying(h)'
  BY <1>5, <1>7, <1>8 DEF Carries, Replaying
<1>10. ASSUME k.st = "live", h.dropped = 0, NEW x \in Ours',
              x <= k.hw \/ x <= Frontier' - Len(h.q)
       PROVE  x <= cli.cursor \/ OnWire(k.wire, x)
  <2>1. k.dropped = 0 /\ (x <= k.hw \/ x <= Frontier - Len(k.q))
    BY <1>10 DEF Streaming
  <2>2. Frontier - Len(k.q) <= Len(log)
    BY <1>1
  <2>3. x \in Ours
    BY <1>1, <1>2, <1>10, <2>1, <2>2 DEF Streaming
  <2> QED BY <1>10, <2>1, <2>3 DEF Carries, Current
<1>11. Current(h)'
  BY <1>10 DEF Current
<1> QED BY <1>3, <1>4, <1>9, <1>11 DEF Carries

\* A sequence with one more element.
LEMMA Appended ==
  ASSUME NEW S, NEW p \in Seq(S), NEW x \in S, NEW q, q = Append(p, x)
  PROVE  /\ q \in Seq(S) /\ Len(q) = Len(p) + 1 /\ DOMAIN q = 1..(Len(p) + 1)
         /\ \A j \in 1..Len(p) : q[j] = p[j]
         /\ q[Len(p) + 1] = x
OBVIOUS

\* A queue that ends at F takes the next number.
LEMMA Grown ==
  ASSUME NEW p \in Seq(Seqs), NEW F \in Nat, NEW i \in Seqs, i = F + 1, Len(p) <= F,
         \A j \in DOMAIN p : p[j] = F - Len(p) + j,
         NEW q, q = Append(p, i)
  PROVE  /\ Len(q) = Len(p) + 1 /\ Len(q) <= i /\ i - Len(q) = F - Len(p)
         /\ \A j \in DOMAIN q : q[j] = i - Len(q) + j
<1>1. /\ Len(q) = Len(p) + 1 /\ DOMAIN q = 1..(Len(p) + 1)
      /\ \A j \in 1..Len(p) : q[j] = p[j]
      /\ q[Len(p) + 1] = i
  BY Appended
<1>2. PICK n \in Nat : n = Len(p)
  OBVIOUS
<1>3. \A j \in 1..n : q[j] = F - n + j
  <2>1. DOMAIN p = 1..n
    BY <1>2
  <2> QED BY <1>1, <1>2, <2>1
<1>4. Len(q) = n + 1 /\ n <= F
  BY <1>1, <1>2
<1>5. ASSUME NEW j \in DOMAIN q PROVE q[j] = i - Len(q) + j
  <2>1. j \in 1..n \/ j = n + 1
    BY <1>1, <1>2
  <2>2. CASE j \in 1..n
    <3>1. q[j] = F - n + j
      BY <1>3, <2>2
    <3>2. F - n + j = i - (n + 1) + j
      BY <2>2
    <3> QED BY <1>4, <3>1, <3>2
  <2>3. CASE j = n + 1
    BY <1>1, <1>2, <1>4, <2>3
  <2> QED BY <2>1, <2>2, <2>3
<1> QED BY <1>2, <1>4, <1>5

\* What an offer does to a queue that ends with the last published event.
LEMMA OfferedQueue ==
  ASSUME StreamConstants, NEW k \in ConnType, Len(k.q) <= QueueSize,
         NEW F \in Nat, NEW i \in Seqs, i = F + 1, Len(k.q) <= F,
         \A j \in DOMAIN k.q : k.q[j] = F - Len(k.q) + j
  PROVE  LET o == Offer(k, i) IN
         /\ Len(o.q) <= i
         /\ \A j \in DOMAIN o.q : o.q[j] = i - Len(o.q) + j
         /\ o.dropped = 0 => k.dropped = 0 /\ i - Len(o.q) = F - Len(k.q)
         /\ o.dropped > 0 => Len(o.q) = QueueSize \/ o.dropped = k.dropped
         /\ o.dropped > 0 /\ Len(k.q) = QueueSize => Len(o.q) = QueueSize
<1>1. PICK o : o = Offer(k, i)
  OBVIOUS
<1>2. PICK p \in Seq(Seqs) : p = k.q
  BY ConnFacts
<1>3. k.dropped \in Nat /\ Len(p) \in Nat /\ QueueSize \in Nat \ {0} /\ Len(p) <= QueueSize
  BY <1>2, ConnFacts DEF StreamConstants
<1>4. Len(p) <= F /\ \A j \in DOMAIN p : p[j] = F - Len(p) + j
  BY <1>2
<1>5. \/ /\ Len(p) = QueueSize /\ o.q = Append(Tail(p), i)
         /\ o.dropped = k.dropped + 1
      \/ /\ Len(p) < QueueSize /\ o.q = Append(p, i)
         /\ o.dropped = k.dropped
  BY <1>1, <1>2, OfferFacts
<1>6. CASE /\ Len(p) = QueueSize /\ o.q = Append(Tail(p), i)
           /\ o.dropped = k.dropped + 1
  <2>1. p /= << >>
    BY <1>3, <1>6
  <2>2. PICK u \in Seq(Seqs) :
          /\ u = Tail(p) /\ Len(u) \in Nat /\ Len(u) + 1 = Len(p) /\ Len(u) <= F
          /\ \A j \in DOMAIN u : u[j] = F - Len(u) + j
    <3>1. PICK v : v = Tail(p)
      OBVIOUS
    <3>2. /\ v \in Seq(Seqs) /\ Len(v) \in Nat /\ Len(v) + 1 = Len(p) /\ Len(v) <= F
          /\ \A j \in DOMAIN v : v[j] = F - Len(v) + j
      BY SMTT(40), <1>4, <2>1, <3>1, Shifted
    <3> QED BY <3>1, <3>2, ZenonT(40)
  <2>3. Len(u) <= F /\ \A j \in DOMAIN u : u[j] = F - Len(u) + j
    BY <2>2
  <2>4. PICK q : q = Append(u, i)
    OBVIOUS
  <2>5. /\ Len(q) = Len(u) + 1 /\ Len(q) <= i
        /\ \A j \in DOMAIN q : q[j] = i - Len(q) + j
    BY SMTT(40), <2>3, <2>4, Grown
  <2>6. o.q = q
    BY <1>6, <2>2, <2>4
  <2>7. Len(q) = QueueSize /\ o.dropped > 0 /\ o.dropped /= 0
    BY SMTT(40), <1>3, <1>6, <2>2, <2>5
  <2> QED BY <1>1, <2>5, <2>6, <2>7
<1>7. CASE /\ Len(p) < QueueSize /\ o.q = Append(p, i)
           /\ o.dropped = k.dropped
  <2>1. PICK q : q = Append(p, i)
    OBVIOUS
  <2>2. /\ Len(q) <= i /\ i - Len(q) = F - Len(p)
        /\ \A j \in DOMAIN q : q[j] = i - Len(q) + j
    BY SMTT(40), <1>4, <2>1, Grown
  <2>3. o.q = q
    BY <1>7, <2>1
  <2>4. Len(k.q) /= QueueSize
    BY <1>2, <1>3, <1>7
  <2> QED BY <1>1, <1>2, <1>7, <2>2, <2>3, <2>4
<1> QED BY <1>5, <1>6, <1>7

LEMMA PublishedFacts ==
  ASSUME TypeOK, NEW i \in Seqs, conn' = Published(i)
  PROVE  /\ conn' \in [Conns -> ConnType]
         /\ \A d \in Conns : Len(conn'[d].q) <= QueueSize
         /\ \A d \in Conns : conn'[d] = IF conn[d].st \in Streaming THEN Offer(conn[d], i)
                                        ELSE conn[d]
<1>1. \A d \in Conns : conn'[d] = IF conn[d].st \in Streaming THEN Offer(conn[d], i)
                                  ELSE conn[d]
  BY DEF Published, Subscribed, Streaming
<1>2. ASSUME NEW d \in Conns PROVE conn'[d] \in ConnType /\ Len(conn'[d].q) <= QueueSize
  <2>1. StreamConstants /\ conn[d] \in ConnType /\ Len(conn[d].q) <= QueueSize
    BY LogFacts DEF TypeOK
  <2>2. Offer(conn[d], i) \in ConnType /\ Len(Offer(conn[d], i).q) <= QueueSize
    BY <2>1, OfferFacts
  <2> QED BY <1>1, <2>1, <2>2
<1>3. conn' = [d \in Conns |-> conn'[d]]
  BY DEF Published
<1> QED BY <1>1, <1>2, <1>3

\* Every stream keeps its promise when the next event is published.
LEMMA PublishedCarries ==
  ASSUME TypeOK, NoGap, NEW i \in Seqs, conn' = Published(i),
         i = Frontier + 1, Frontier' = Frontier + 1, Frontier' <= Len(log'),
         Len(log) <= Len(log'), Len(log') \in Nat,
         Ours \subseteq Ours', \A x \in Ours' : x \in Nat,
         \A x \in Ours' : x <= Len(log) => x \in Ours,
         UNCHANGED <<earliest, cli>>
  PROVE  \A d \in Conns : Carries(conn[d])'
<1> SUFFICES ASSUME NEW d \in Conns PROVE Carries(conn[d])'
  OBVIOUS
<1>1. PICK h \in ConnType : h = conn'[d]
  BY PublishedFacts
<1>2. PICK k \in ConnType : k = conn[d]
  BY LogFacts
<1>3. StreamConstants /\ Len(k.q) <= QueueSize /\ Carries(k)
  BY <1>2, LogFacts DEF TypeOK, NoGap
<1>4. h = IF k.st \in Streaming THEN Offer(k, i) ELSE k
  BY <1>1, <1>2, PublishedFacts
<1>5. PICK F \in Nat : F = Frontier
  <2>1. Len(tasks) <= Len(log)
    BY DEF NoGap, TasksInOrder
  <2>2. PICK m \in Nat : m = Len(tasks)
    BY ZenonT(40), LogFacts
  <2>3. PICK n \in Nat : n = Len(log)
    BY LogFacts
  <2>4. Frontier = n - m /\ m <= n
    BY <2>1, <2>2, <2>3 DEF Frontier
  <2>5. n - m \in Nat
    BY <2>4
  <2> QED BY <2>4, <2>5
<1>6. /\ h.st = k.st /\ h.s = k.s /\ h.inv = k.inv /\ h.after = k.after /\ h.hw = k.hw
      /\ h.page = k.page /\ h.more = k.more /\ h.wire = k.wire
  BY <1>3, <1>4, OfferFacts
<1>7. /\ k.after \in Nat /\ k.hw \in Nat /\ Len(log) \in Nat /\ k.dropped \in Nat
      /\ h.dropped \in Nat
  BY LogFacts, ConnFacts
<1>8. CASE k.st \in Streaming
  <2>1. /\ k.hw <= Len(log) /\ k.after <= Len(log) /\ Len(k.q) <= F
        /\ \A j \in DOMAIN k.q : k.q[j] = F - Len(k.q) + j
        /\ k.dropped > 0 => Len(k.q) = QueueSize
    BY <1>3, <1>5, <1>8 DEF Carries, Queued
  <2>2. i = F + 1 /\ h = Offer(k, i)
    BY <1>4, <1>5, <1>8
  <2>3. /\ Len(h.q) <= i
        /\ \A j \in DOMAIN h.q : h.q[j] = i - Len(h.q) + j
        /\ h.dropped = 0 => k.dropped = 0 /\ i - Len(h.q) = F - Len(k.q)
        /\ h.dropped > 0 => Len(h.q) = QueueSize \/ h.dropped = k.dropped
        /\ h.dropped > 0 /\ Len(k.q) = QueueSize => Len(h.q) = QueueSize
    <3>1. i = F + 1 /\ Len(k.q) <= F /\ \A j \in DOMAIN k.q : k.q[j] = F - Len(k.q) + j
      BY <2>1, <2>2
    <3>2. StreamConstants /\ Len(k.q) <= QueueSize
      BY <1>3
    <3>3. LET o == Offer(k, i) IN
          /\ Len(o.q) <= i
          /\ \A j \in DOMAIN o.q : o.q[j] = i - Len(o.q) + j
          /\ o.dropped = 0 => k.dropped = 0 /\ i - Len(o.q) = F - Len(k.q)
          /\ o.dropped > 0 => Len(o.q) = QueueSize \/ o.dropped = k.dropped
          /\ o.dropped > 0 /\ Len(k.q) = QueueSize => Len(o.q) = QueueSize
      BY ZenonT(40), <3>1, <3>2, OfferedQueue
    <3> QED BY <2>2, <3>3
  <2>4. h.dropped > 0 => Len(h.q) = QueueSize
    BY <1>7, <2>1, <2>3
  <2>5. k.hw <= Len(log') /\ k.after <= Len(log')
    BY <1>7, <2>1
  <2>6. Queued(h)'
    <3>1. h.st /= "accepted"
      BY <1>6, <1>8 DEF Streaming
    <3>2. h.hw <= Len(log') /\ h.after <= Len(log')
      BY <1>6, <2>5
    <3>3. Frontier' = i
      OBVIOUS
    <3>4. Len(h.q) <= Frontier' /\ \A j \in DOMAIN h.q : h.q[j] = Frontier' - Len(h.q) + j
      BY <2>3, <3>3
    <3> QED BY <2>4, <3>1, <3>2, <3>4 DEF Queued
  <2>7. h.dropped = 0 => k.dropped = 0 /\ Frontier' - Len(h.q) = Frontier - Len(k.q)
    <3>1. Frontier' = i /\ Frontier = F
      BY <1>5
    <3> QED BY <2>3, <3>1
  <2>8. Carries(h)'
    BY <1>3, <1>6, <2>6, <2>7, Fed
  <2> QED BY <1>1, <2>8
          DEF Carries, Tuned, Retained, InOrder, Queued, Replaying, Current
<1>9. CASE k.st \notin Streaming
  <2>1. h = k
    BY <1>4, <1>9
  <2>2. Queued(h)'
    BY <1>3, <1>9, <2>1 DEF Carries, Queued
  <2>3. Carries(h)'
    BY <1>3, <1>9, <2>1, <2>2, Fed
  <2> QED BY <1>1, <2>3
          DEF Carries, Tuned, Retained, InOrder, Queued, Replaying, Current
<1> QED BY <1>8, <1>9

LEMMA PublishKeeps ==
  ASSUME IInv, Publish
  PROVE  IInv'
<1>1. TypeOK /\ StreamConstants
  BY LogFacts DEF IInv
<1>2. /\ tasks /= << >> /\ tasks' = Tail(tasks) /\ conn' = Published(Head(tasks))
      /\ UNCHANGED <<log, earliest, bound, cli, recs, view, faults, switches, windows>>
  BY DEF Publish
<1>3. PICK p \in Seq(Seqs) : p = tasks /\ p /= << >>
  BY <1>1, <1>2 DEF TypeOK
<1>4. PICK i \in Seqs : i = Head(p)
  BY <1>3
<1>5. PICK q : q = Tail(p)
  OBVIOUS
<1>6. q \in Seq(Seqs) /\ tasks' = q /\ conn' = Published(i)
  BY <1>2, <1>3, <1>4, <1>5
<1>7. TypeOK'
  <2>1. /\ conn' \in [Conns -> ConnType]
        /\ \A d \in Conns : Len(conn'[d].q) <= QueueSize
    BY <1>1, <1>6, PublishedFacts
  <2> QED BY <1>1, <1>2, <1>6, <2>1 DEF TypeOK
<1>8. ASSUME NoGap PROVE NoGap'
  <2>1. /\ Len(log) \in Nat /\ Frontier \in Int /\ Frontier = Len(log) - Len(p)
        /\ Len(p) <= Len(log) /\ Len(p) \in Nat
        /\ \A j \in DOMAIN p : p[j] = Len(log) - Len(p) + j
    BY <1>1, <1>3, <1>8, LogFacts DEF NoGap, TasksInOrder, Frontier
  <2>2. /\ Len(q) \in Nat /\ Len(q) + 1 = Len(p) /\ Head(p) = Len(log) - Len(q)
        /\ \A j \in DOMAIN q : q[j] = Len(log) - Len(q) + j
    <3>1. PICK F \in Nat : F = Len(log)
      BY <2>1
    <3>2. Len(p) <= F /\ \A j \in DOMAIN p : p[j] = F - Len(p) + j
      BY <2>1, <3>1
    <3>3. p /= << >> /\ F \in Int
      BY <1>3
    <3>4. /\ Len(q) \in Nat /\ Len(q) + 1 = Len(p) /\ Head(p) = F - Len(q)
          /\ \A j \in DOMAIN q : q[j] = F - Len(q) + j
      BY <1>5, <3>2, <3>3, Shifted
    <3> QED BY <3>1, <3>4
  <2>3. i = Frontier + 1 /\ Frontier' = Len(log) - Len(q) /\ Frontier' = Frontier + 1
    <3>1. Frontier' = Len(log) - Len(q)
      BY <1>2, <1>6 DEF Frontier
    <3>2. i = Len(log) - Len(q)
      BY <1>4, <2>2
    <3> QED BY <2>1, <2>2, <3>1, <3>2
  <2>4. Ours' = Ours /\ \A x \in Ours : x \in Nat
    <3>1. Ours' = Ours
      BY <1>2 DEF Ours
    <3> QED BY <1>1, <3>1, LogFacts
  <2>5. \A d \in Conns : Carries(conn[d])'
    <3>1. Frontier' <= Len(log') /\ Len(log) <= Len(log') /\ Len(log') \in Nat
      BY <1>2, <2>1, <2>2, <2>3
    <3> QED BY <1>1, <1>2, <1>6, <1>8, <2>3, <2>4, <3>1, PublishedCarries
  <2>6. TasksInOrder'
    <3>1. Len(q) <= Len(log)
      BY <2>1, <2>2
    <3> QED BY <1>2, <1>6, <2>2, <2>3, <3>1 DEF TasksInOrder
  <2>7. AtHome' /\ Reached' /\ (cli.cursor <= Len(log))' /\ (earliest > 1 => cli.cursor > 0)'
    BY <1>2, <1>8, <2>4 DEF NoGap, AtHome, Reached
  <2> QED BY <2>5, <2>6, <2>7 DEF NoGap
<1> QED BY <1>2, <1>7, <1>8 DEF IInv, Free


\* An event is recorded, with its publication in the same step or by a task.
LEMMA EmitKeeps ==
  ASSUME IInv, NEW e \in Events, NEW how \in Publishers, Emit(e, how)
  PROVE  IInv'
<1>1. /\ TypeOK /\ StreamConstants /\ Len(log) \in Nat /\ DOMAIN log = 1..Len(log)
      /\ Len(tasks) \in Nat /\ DOMAIN tasks = 1..Len(tasks) /\ MaxEvents \in Nat
  BY LogFacts DEF IInv, StreamConstants
<1>2. e \in Event
  BY <1>1 DEF StreamConstants
<1>3. PICK i \in Seqs : i = Len(log) + 1
  BY DEF Emit
<1>4. /\ log' = Append(log, e) /\ e.inv \in {0, bound[e.s]}
      /\ UNCHANGED <<earliest, bound, cli, recs, view, faults, switches>>
  BY DEF Emit
<1>5. \/ /\ conn' = Published(i) /\ tasks' = tasks
         /\ windows' = windows \cup (IF tasks = << >> THEN {} ELSE {"overtaken"})
      \/ tasks' = Append(tasks, i) /\ conn' = conn /\ windows' = windows
  BY <1>3 DEF Emit
<1>6. /\ log' \in Seq(Event) /\ Len(log') = i /\ DOMAIN log' = 1..i
      /\ \A j \in 1..Len(log) : log'[j] = log[j]
      /\ log'[i] = e
  <2>1. PICK p \in Seq(Event) : p = log
    BY <1>1 DEF TypeOK
  <2>2. PICK q : q = Append(p, e)
    OBVIOUS
  <2>3. /\ q \in Seq(Event) /\ Len(q) = Len(p) + 1 /\ DOMAIN q = 1..(Len(p) + 1)
        /\ \A j \in 1..Len(p) : q[j] = p[j]
        /\ q[Len(p) + 1] = e
    BY <1>2, <2>2
  <2> QED BY <1>3, <1>4, <2>1, <2>2, <2>3
<1>7. i \in Nat /\ i <= MaxEvents /\ Len(log) <= i /\ \A j \in 1..i : j \in 1..Len(log) \/ j = i
  BY <1>1, <1>3 DEF Seqs
<1>8. /\ Ours \subseteq Ours' /\ \A x \in Ours' : x \in Nat
      /\ \A x \in Ours' : x <= Len(log) => x \in Ours
      /\ \A x \in Ours : log'[x] = log[x]
  <2>1. \A j \in DOMAIN log : j \in DOMAIN log' /\ log'[j] = log[j]
    BY <1>1, <1>3, <1>6
  <2>2. \A j \in DOMAIN log' : j \in Nat /\ (j <= Len(log) => j \in DOMAIN log)
    BY <1>1, <1>3, <1>6
  <2>3. Ours \subseteq Ours'
    BY <2>1 DEF Ours
  <2>4. \A x \in Ours' : x \in DOMAIN log' /\ log'[x].s = Home
    BY DEF Ours
  <2>5. \A x \in Ours' : x <= Len(log) => x \in Ours
    BY <2>1, <2>2, <2>4 DEF Ours
  <2>6. \A x \in Ours : log'[x] = log[x]
    BY <2>1 DEF Ours
  <2> QED BY <2>2, <2>3, <2>4, <2>5, <2>6
<1>9. ASSUME NoGap PROVE AtHome' /\ Reached' /\ (cli.cursor <= Len(log))'
                         /\ (earliest > 1 => cli.cursor > 0)'
  <2>1. \A j \in DOMAIN log' : log'[j].inv \in {0, StartInv}
    <3>1. e.inv \in {0, StartInv}
      BY <1>2, <1>4, <1>9 DEF Event, NoGap, AtHome
    <3>2. \A j \in DOMAIN log : log[j].inv \in {0, StartInv}
      BY <1>9 DEF NoGap, AtHome
    <3> QED BY <1>1, <1>6, <1>7, <3>1, <3>2
  <2>2. \A r \in recs : r.evs <= Len(log')
    <3>1. \A r \in recs : r.evs \in Int
      BY <1>1 DEF TypeOK, Recovery, Unread
    <3>2. \A r \in recs : r.evs <= Len(log)
      BY <1>9 DEF NoGap, AtHome
    <3> QED BY <1>1, <1>6, <1>7, <3>1, <3>2
  <2>3. AtHome'
    BY <1>4, <1>9, <2>1, <2>2 DEF NoGap, AtHome
  <2>4. cli.cursor <= Len(log) /\ cli.cursor \in Nat
    BY <1>1, <1>9, LogFacts DEF NoGap
  <2>5. \A x \in Ours' : x <= cli.cursor => x <= Len(log)
    BY <1>1, <1>8, <2>4
  <2>6. Reached'
    BY <1>4, <1>8, <1>9, <2>5 DEF NoGap, Reached
  <2>7. (cli.cursor <= Len(log))'
    BY <1>1, <1>4, <1>6, <1>7, <2>4
  <2> QED BY <1>4, <1>9, <2>3, <2>6, <2>7 DEF NoGap
<1>10. CASE /\ conn' = Published(i) /\ tasks' = tasks
            /\ windows' = windows \cup (IF tasks = << >> THEN {} ELSE {"overtaken"})
  <2>1. TypeOK'
    <3>1. /\ conn' \in [Conns -> ConnType]
          /\ \A d \in Conns : Len(conn'[d].q) <= QueueSize
      BY <1>1, <1>10, PublishedFacts
    <3>2. windows' \subseteq {"overtaken", "rebound", "pruned", "paused", "selected", "between"}
      BY <1>1, <1>10 DEF TypeOK
    <3> QED BY <1>1, <1>4, <1>6, <1>7, <1>10, <3>1, <3>2 DEF TypeOK
  <2>2. ASSUME Free' PROVE NoGap'
    <3>1. Free /\ tasks = << >>
      BY <1>10, <2>2 DEF Free
    <3>2. NoGap
      BY <3>1 DEF IInv
    <3>3. Len(tasks) = 0
      BY <3>1
    <3>4. Frontier = Len(log) /\ Frontier' = i
      BY <1>1, <1>6, <1>7, <1>10, <3>3 DEF Frontier
    <3>5. TasksInOrder'
      BY <1>6, <1>7, <1>10, <3>1, <3>3 DEF TasksInOrder
    <3>6. \A d \in Conns : Carries(conn[d])'
      <4>1. /\ i = Frontier + 1 /\ Frontier' = Frontier + 1 /\ Frontier' <= Len(log')
            /\ Len(log) <= Len(log') /\ Len(log') \in Nat
        BY <1>1, <1>3, <1>6, <1>7, <3>4
      <4>2. UNCHANGED <<earliest, cli>>
        BY <1>4
      <4> QED BY <1>1, <1>8, <1>10, <3>2, <4>1, <4>2, PublishedCarries
    <3> QED BY <1>9, <3>2, <3>5, <3>6 DEF NoGap
  <2> QED BY <2>1, <2>2 DEF IInv
<1>11. CASE tasks' = Append(tasks, i) /\ conn' = conn /\ windows' = windows
  <2>1. PICK p \in Seq(Seqs) : p = tasks
    BY <1>1 DEF TypeOK
  <2>2. PICK q : q = Append(p, i)
    OBVIOUS
  <2>3. /\ q \in Seq(Seqs) /\ Len(q) = Len(p) + 1 /\ Len(p) \in Nat
        /\ DOMAIN q = 1..(Len(p) + 1) /\ DOMAIN p = 1..Len(p)
        /\ \A j \in 1..Len(p) : q[j] = p[j]
        /\ q[Len(p) + 1] = i
    BY <2>2
  <2>4. tasks' = q
    BY <1>11, <2>1, <2>2
  <2>5. TypeOK'
    BY <1>1, <1>4, <1>6, <1>7, <1>11, <2>3, <2>4 DEF TypeOK
  <2>6. ASSUME NoGap PROVE NoGap'
    <3>1. Frontier = Len(log) - Len(p) /\ Frontier' = i - Len(q) /\ Len(p) <= Len(log)
      BY <1>6, <2>1, <2>4, <2>6 DEF Frontier, NoGap, TasksInOrder
    <3>2. Frontier' = Frontier /\ Len(q) <= i /\ Frontier \in Int
      BY <1>1, <1>3, <2>3, <3>1
    <3>3. \A j \in 1..Len(p) : p[j] = Frontier + j
      BY <2>1, <2>3, <2>6 DEF NoGap, TasksInOrder
    <3>4. ASSUME NEW j \in DOMAIN q PROVE q[j] = Frontier + j
      <4>1. j \in 1..Len(p) \/ j = Len(p) + 1
        BY <2>3
      <4>2. Len(p) + 1 \in Nat /\ Frontier + (Len(p) + 1) = i
        BY <1>1, <1>3, <2>3, <3>1
      <4> QED BY <2>3, <3>3, <4>1, <4>2
    <3>5. TasksInOrder'
      BY <1>6, <2>4, <3>2, <3>4 DEF TasksInOrder
    <3>6. ASSUME NEW d \in Conns PROVE Carries(conn[d])'
      <4>1. PICK k \in ConnType : k = conn[d] /\ Carries(k)
        BY <1>1, <2>6, LogFacts DEF NoGap
      <4>2. Queued(k)'
        <5>1. k.st = "accepted" => k.dropped = 0
          BY <4>1 DEF Carries, Queued
        <5>2. k.st \in Streaming => k.hw <= Len(log') /\ k.after <= Len(log')
          <6>1. k.hw \in Nat /\ k.after \in Nat
            BY <1>1, ConnFacts
          <6>2. k.st \in Streaming => k.hw <= Len(log) /\ k.after <= Len(log)
            BY <4>1 DEF Carries, Queued
          <6>3. Len(log') \in Nat /\ Len(log) <= Len(log')
            BY <1>6, <1>7
          <6> QED BY <1>1, <6>1, <6>2, <6>3
        <5> QED BY <3>2, <4>1, <5>1, <5>2 DEF Carries, Queued
      <4>3. k.st \in Streaming /\ k.dropped = 0 =>
              k.dropped = 0 /\ Frontier' - Len(k.q) = Frontier - Len(k.q)
        BY <3>2
      <4>4. UNCHANGED <<earliest, cli>>
        BY <1>4
      <4>5. Carries(k)'
        BY <1>1, <1>8, <2>6, <4>1, <4>2, <4>3, <4>4, Fed
      <4>6. conn'[d] = k
        BY <1>11, <4>1
      <4> QED BY <4>5, <4>6
              DEF Carries, Tuned, Retained, InOrder, Queued, Replaying, Current
    <3> QED BY <1>9, <2>6, <3>5, <3>6 DEF NoGap
  <2> QED BY <1>11, <2>5, <2>6 DEF IInv, Free
<1> QED BY <1>5, <1>10, <1>11

-----------------------------------------------------------------------------
(* Connections begin and end. *)

\* A connection that is gone.
Dead == [Idle EXCEPT !.st = "ended", !.wire = <<Closed>>]

LEMMA DeadFacts ==
  ASSUME StreamConstants
  PROVE  /\ Dead \in ConnType /\ Dead.q = << >> /\ Len(Dead.q) <= QueueSize
         /\ Carries(Dead)'
<1>1. PICK w : w = <<Closed>>
  OBVIOUS
<1>2. /\ w \in Seq(Frame) /\ \A j \in DOMAIN w : w[j].t /= "event"
  <2>1. w \in Seq(Frame) /\ Len(w) = 1 /\ w[1] = Closed
    BY <1>1, FrameTypes
  <2>2. \A j \in DOMAIN w : j = 1
    BY <2>1
  <2>3. Closed.t /= "event"
    BY FrameTypes
  <2> QED BY <2>1, <2>2, <2>3
<1>3. PICK k \in ConnType : k = Idle /\ k.s = Home /\ k.q = << >>
  BY IdleType
<1>4. PICK d : d = [k EXCEPT !.st = "ended", !.wire = w]
  OBVIOUS
<1>5. d = Dead
  BY <1>1, <1>3, <1>4 DEF Dead
<1>6. d \in ConnType /\ d.st = "ended" /\ d.s = Home /\ d.wire = w /\ d.q = << >>
  BY <1>2, <1>3, <1>4 DEF ConnType
<1>7. Len(d.q) <= QueueSize
  BY <1>6 DEF StreamConstants
<1>8. Carries(d)'
  <2>1. (Tuned(d) /\ Retained(d) /\ Queued(d) /\ Replaying(d) /\ Current(d))'
    BY <1>6 DEF Tuned, Retained, Queued, Replaying, Current, Streaming
  <2>2. InOrder(d)'
    BY <1>2, <1>6 DEF InOrder
  <2> QED BY <2>1, <2>2 DEF Carries
<1>9. Carries(Dead)'
  BY <1>5, <1>8 DEF Carries, Tuned, Retained, InOrder, Queued, Replaying, Current
<1> QED BY <1>5, <1>6, <1>7, <1>9

\* The network loses a connection.
LEMMA LoseKeeps ==
  ASSUME IInv, NEW c \in Conns, Lose(c)
  PROVE  IInv'
<1>1. TypeOK /\ StreamConstants /\ MaxFaults \in Nat /\ cli.cursor \in Nat
  BY LogFacts DEF IInv, StreamConstants
<1>2. /\ conn' = [conn EXCEPT ![c] = Dead] /\ faults < MaxFaults /\ faults' = faults + 1
      /\ UNCHANGED <<log, earliest, bound, tasks, cli, recs, view, switches, windows>>
  BY DEF Lose, Dead, srvVars
<1>3. PICK k \in ConnType : k = Dead /\ Len(k.q) <= QueueSize
  BY <1>1, DeadFacts
<1>4. conn' = [conn EXCEPT ![c] = k]
  BY <1>2, <1>3
<1>5. TypeOK'
  <2>1. /\ conn' \in [Conns -> ConnType]
        /\ \A d \in Conns : Len(conn'[d].q) <= QueueSize
    BY <1>1, <1>3, <1>4, SetConnType
  <2>2. faults' \in 0..MaxFaults
    <3>1. faults \in 0..MaxFaults
      BY <1>1 DEF TypeOK
    <3> QED BY <1>1, <1>2, <3>1
  <2> QED BY <1>1, <1>2, <2>1, <2>2 DEF TypeOK
<1>6. ASSUME NoGap PROVE NoGap'
  <2>1. Carries(k)'
    <3>1. Carries(Dead)'
      BY <1>1, DeadFacts
    <3> QED BY <1>3, <3>1
            DEF Carries, Tuned, Retained, InOrder, Queued, Replaying, Current
  <2>2. cli'.cursor \in Nat /\ cli.cursor <= cli'.cursor /\ UNCHANGED <<log, tasks, earliest>>
    BY <1>1, <1>2
  <2>3. \A d \in Conns : Carries(conn[d])'
    BY <1>1, <1>4, <1>6, <2>1, <2>2, OneConn
  <2>4. (AtHome /\ TasksInOrder /\ Reached)'
    BY <1>2, <1>6, SameLog DEF NoGap, AtHome, TasksInOrder, Reached
  <2> QED BY <1>2, <1>6, <2>3, <2>4 DEF NoGap
<1> QED BY <1>2, <1>5, <1>6 DEF IInv, Free

\* The control plane restarts, perhaps without the oldest events.
LEMMA RestartKeeps ==
  ASSUME IInv, NEW p \in 1..(MaxEvents + 1), Restart(p)
  PROVE  IInv'
<1>1. /\ TypeOK /\ StreamConstants /\ MaxFaults \in Nat /\ cli.cursor \in Nat
      /\ Len(log) \in Nat
  BY LogFacts DEF IInv, StreamConstants
<1>2. /\ faults < MaxFaults /\ faults' = faults + 1
      /\ p = earliest \/ cli.cursor > 0
      /\ earliest' = p
      /\ windows' = windows \cup (IF p = earliest THEN {} ELSE {"pruned"})
      /\ tasks' = << >>
      /\ conn' = [c \in Conns |-> IF conn[c].st \in {"free", "ended"} THEN conn[c] ELSE Dead]
      /\ UNCHANGED <<log, bound, cli, recs, view, switches>>
  BY DEF Restart, Dead
<1>3. Dead \in ConnType /\ Len(Dead.q) <= QueueSize /\ Carries(Dead)'
  BY <1>1, DeadFacts
<1>4. TypeOK'
  <2>1. /\ conn' \in [Conns -> ConnType]
        /\ \A d \in Conns : Len(conn'[d].q) <= QueueSize
    BY <1>1, <1>2, <1>3 DEF TypeOK
  <2>2. faults' \in 0..MaxFaults
    <3>1. faults \in 0..MaxFaults
      BY <1>1 DEF TypeOK
    <3> QED BY SMTT(40), <1>1, <1>2, <3>1
  <2>3. windows' \subseteq {"overtaken", "rebound", "pruned", "paused", "selected", "between"}
    BY <1>1, <1>2 DEF TypeOK
  <2>4. tasks' \in Seq(Seqs)
    BY <1>2
  <2> QED BY <1>1, <1>2, <2>1, <2>2, <2>3, <2>4 DEF TypeOK
<1>5. Free' => Free
  BY <1>2 DEF Free
<1>6. ASSUME NoGap PROVE NoGap'
  <2>1. Ours' = Ours
    BY <1>2 DEF Ours
  <2>2. AtHome' /\ Reached' /\ (cli.cursor <= Len(log))'
    <3>1. \A x \in Ours : x < earliest => x < earliest'
      <4>1. earliest \in Nat /\ earliest' \in Nat /\ earliest <= earliest'
        BY <1>1, LogFacts DEF Restart
      <4>2. \A x \in Ours : x \in Nat
        BY <1>1, LogFacts DEF Ours
      <4> QED BY <4>1, <4>2
    <3> QED BY <1>2, <1>6, <2>1, <3>1 DEF NoGap, AtHome, Reached
  <2>3. TasksInOrder'
    <3>1. Len(tasks') = 0 /\ DOMAIN tasks' = {}
      BY <1>2
    <3> QED BY <1>1, <1>2, <3>1 DEF TasksInOrder
  <2>4. (earliest > 1 => cli.cursor > 0)'
    BY <1>2, <1>6 DEF NoGap
  <2>5. ASSUME NEW d \in Conns PROVE Carries(conn[d])'
    <3>1. PICK h : h = conn'[d]
      OBVIOUS
    <3>2. Carries(h)'
      <4>1. CASE conn[d].st \in {"free", "ended"}
        <5>1. h = conn[d] /\ Carries(h) /\ h.st \notin {"accepted"} \cup Streaming
          <6>1. h = conn[d]
            BY <1>2, <3>1, <4>1
          <6> QED BY <1>6, <4>1, <6>1
                  DEF NoGap, Carries, Tuned, Retained, InOrder, Queued, Replaying, Current,
                      Streaming
        <5>2. (Tuned(h) /\ Retained(h) /\ Queued(h) /\ Replaying(h) /\ Current(h))'
          BY <5>1 DEF Carries, Tuned, Retained, Queued, Replaying, Current, Streaming
        <5>3. InOrder(h)'
          BY <1>2, <2>1, <5>1 DEF Carries, InOrder
        <5> QED BY <5>2, <5>3 DEF Carries
      <4>2. CASE conn[d].st \notin {"free", "ended"}
        <5>1. h = Dead
          BY <1>2, <3>1, <4>2
        <5> QED BY <1>3, <5>1
                DEF Carries, Tuned, Retained, InOrder, Queued, Replaying, Current
      <4> QED BY <4>1, <4>2
    <3> QED BY <3>1, <3>2
            DEF Carries, Tuned, Retained, InOrder, Queued, Replaying, Current
  <2> QED BY <2>2, <2>3, <2>4, <2>5 DEF NoGap
<1> QED BY <1>4, <1>5, <1>6 DEF IInv

\* A message binds a new investigation: a window.
LEMMA BindKeeps ==
  ASSUME IInv, NEW s \in Sessions, Bind(s)
  PROVE  IInv'
<1>1. TypeOK /\ StreamConstants
  BY LogFacts DEF IInv
<1>2. bound' \in [Sessions -> 0..MaxInv]
  <2>1. bound[s] + 1 \in 0..MaxInv
    <3>1. MaxInv \in Nat
      BY <1>1 DEF StreamConstants
    <3>2. bound[s] \in 0..MaxInv /\ bound[s] < MaxInv
      BY <1>1 DEF Bind, TypeOK
    <3> QED BY <3>1, <3>2
  <2> QED BY <1>1, <2>1 DEF Bind, TypeOK
<1>3. TypeOK'
  BY <1>1, <1>2 DEF Bind, TypeOK
<1>4. ~Free'
  BY DEF Bind, Free
<1> QED BY <1>3, <1>4 DEF IInv

\* The client opens a socket at its cursor.
LEMMA ConnectKeeps ==
  ASSUME IInv, NEW c \in Conns, Connect(c)
  PROVE  IInv'
<1>1. /\ TypeOK /\ StreamConstants /\ cli.cursor \in Nat /\ earliest \in Nat
      /\ cli.cursor \in 0..MaxEvents /\ cli.s \in Sessions /\ bound[cli.s] \in 0..MaxInv
  BY LogFacts DEF IInv, TypeOK
<1>2. PICK w : w = <<Hello>>
  OBVIOUS
<1>3. /\ w \in Seq(Frame) /\ \A j \in DOMAIN w : w[j].t /= "event"
  <2>1. w \in Seq(Frame) /\ Len(w) = 1 /\ w[1] = Hello
    BY <1>2, FrameTypes
  <2>2. \A j \in DOMAIN w : j = 1
    BY <2>1
  <2>3. Hello.t /= "event"
    BY FrameTypes
  <2> QED BY <2>1, <2>2, <2>3
<1>4. PICK i \in ConnType : i = Idle /\ i.q = << >> /\ i.dropped = 0
  BY <1>1, IdleType
<1>5. PICK k : k = [i EXCEPT !.st = "accepted", !.s = cli.s, !.after = cli.cursor,
                             !.inv = bound[cli.s], !.wire = w]
  OBVIOUS
<1>6. conn' = [conn EXCEPT ![c] = k]
  BY <1>2, <1>4, <1>5 DEF Connect, Accepted
<1>7. /\ k \in ConnType /\ k.st = "accepted" /\ k.s = cli.s /\ k.after = cli.cursor
      /\ k.inv = bound[cli.s] /\ k.wire = w /\ k.q = << >> /\ k.dropped = 0
  BY <1>1, <1>3, <1>4, <1>5 DEF ConnType
<1>8. Len(k.q) <= QueueSize
  BY <1>1, <1>7 DEF StreamConstants
<1>9. /\ cli' = [cli EXCEPT !.cur = c]
      /\ UNCHANGED <<log, earliest, bound, tasks, recs, view, faults, switches, windows>>
  BY DEF Connect, srvVars
<1>10. /\ cli' \in [inc : Nat, s : Sessions, cur : Conns \cup {None}, cursor : 0..MaxEvents]
       /\ cli'.inc = cli.inc /\ cli'.s = cli.s /\ cli'.cursor = cli.cursor
  BY <1>1, <1>9 DEF TypeOK
<1>11. TypeOK'
  <2>1. /\ conn' \in [Conns -> ConnType]
        /\ \A d \in Conns : Len(conn'[d].q) <= QueueSize
    BY <1>1, <1>6, <1>7, <1>8, SetConnType
  <2> QED BY <1>1, <1>9, <1>10, <2>1 DEF TypeOK
<1>12. ASSUME NoGap PROVE NoGap'
  <2>1. cli.s = Home /\ bound[cli.s] = StartInv
    BY <1>1, <1>12 DEF NoGap, AtHome
  <2>2. Carries(k)'
    <3>1. Tuned(k)'
      BY <1>7, <2>1 DEF Tuned
    <3>2. Retained(k)'
      <4>1. earliest = 1 \/ earliest > 1
        BY <1>1 DEF TypeOK
      <4>2. cli.cursor = 0 => earliest = 1
        BY <1>1, <1>12, <4>1 DEF NoGap
      <4> QED BY <1>7, <1>9, <4>2 DEF Retained, Streaming
    <3>3. InOrder(k)'
      BY <1>3, <1>7 DEF InOrder
    <3>4. (Queued(k) /\ Current(k))'
      BY <1>7 DEF Queued, Current, Streaming
    <3>5. Replaying(k)'
      BY <1>1, <1>7, <1>10 DEF Replaying
    <3> QED BY <3>1, <3>2, <3>3, <3>4, <3>5 DEF Carries
  <2>3. cli'.cursor \in Nat /\ cli.cursor <= cli'.cursor /\ UNCHANGED <<log, tasks, earliest>>
    BY <1>1, <1>9, <1>10
  <2>4. \A d \in Conns : Carries(conn[d])'
    BY <1>1, <1>6, <1>7, <1>12, <2>2, <2>3, OneConn
  <2>5. (AtHome /\ TasksInOrder /\ Reached)'
    BY <1>9, <1>10, <1>12, SameLog DEF NoGap, AtHome, TasksInOrder, Reached
  <2> QED BY <1>9, <1>10, <1>12, <2>4, <2>5 DEF NoGap
<1> QED BY <1>9, <1>11, <1>12 DEF IInv, Free

-----------------------------------------------------------------------------
(* The client takes frames. *)

\* A frame leaves the wire, and the cursor covers it.
LEMMA Popped ==
  ASSUME TypeOK, NEW k \in ConnType, k.wire /= << >>, Carries(k),
         UNCHANGED <<log, tasks, earliest>>,
         cli'.cursor \in Nat, cli.cursor <= cli'.cursor,
         Head(k.wire).t = "event" => Head(k.wire).n <= cli'.cursor,
         NEW h \in ConnType, h = [k EXCEPT !.wire = Tail(k.wire)]
  PROVE  Carries(h)'
<1>1. Carries(k)' /\ Ours' = Ours /\ \A x \in Ours : x \in Nat
  <2>1. Carries(k)'
    BY CarriesOn
  <2>2. Ours' = Ours
    BY SameLog
  <2> QED BY <2>1, <2>2, LogFacts
<1>2. PICK w \in Seq(Frame) : w = k.wire
  BY ConnFacts, LogFacts
<1>3. PICK v : v = Tail(w)
  OBVIOUS
<1>4. /\ h.st = k.st /\ h.s = k.s /\ h.inv = k.inv /\ h.after = k.after /\ h.hw = k.hw
      /\ h.page = k.page /\ h.more = k.more /\ h.q = k.q /\ h.dropped = k.dropped
      /\ h.wire = v
  BY <1>2, <1>3 DEF ConnType
<1>5. /\ Len(w) \in Nat /\ DOMAIN w = 1..Len(w) /\ DOMAIN v = 1..(Len(w) - 1)
      /\ \A j \in 1..(Len(w) - 1) : v[j] = w[j + 1]
      /\ Head(w) = w[1]
  BY <1>2, <1>3
<1>6. \A m \in DOMAIN w : m = 1 \/ (m - 1 \in DOMAIN v /\ v[m - 1] = w[m])
  BY <1>5
<1>7. \A x \in Ours : cli'.cursor < x => w[1] /= Ev(x)
  <2>1. ASSUME NEW x \in Ours, cli'.cursor < x, w[1] = Ev(x) PROVE FALSE
    <3>1. Ev(x).t = "event" /\ Ev(x).n = x
      BY DEF Ev
    <3>2. x <= cli'.cursor /\ x \in Nat
      BY <1>1, <1>2, <1>5, <2>1, <3>1
    <3> QED BY <2>1, <3>2
  <2> QED BY <2>1
<1>8. \A x \in Ours : cli'.cursor < x /\ OnWire(k.wire, x) => OnWire(v, x)
  BY <1>2, <1>6, <1>7 DEF OnWire
<1>9. InOrder(h)'
  <2>1. ASSUME NEW j \in DOMAIN v, v[j].t = "event"
        PROVE  /\ v[j].n \in Ours
               /\ \A x \in Ours : cli'.cursor < x /\ x < v[j].n =>
                    \E m \in DOMAIN v : m < j /\ v[m] = Ev(x)
    <3>1. j + 1 \in DOMAIN w /\ v[j] = w[j + 1] /\ j \in Int
      BY <1>5
    <3>2. w[j + 1].t = "event"
      BY <2>1, <3>1
    <3>3. /\ w[j + 1].n \in Ours
          /\ \A x \in Ours : cli'.cursor < x /\ x < w[j + 1].n =>
               \E m \in DOMAIN w : m < j + 1 /\ w[m] = Ev(x)
      BY <1>1, <1>2, <3>1, <3>2 DEF Carries, InOrder
    <3>4. ASSUME NEW x \in Ours, cli'.cursor < x, x < v[j].n
          PROVE  \E m \in DOMAIN v : m < j /\ v[m] = Ev(x)
      <4>1. PICK m \in DOMAIN w : m < j + 1 /\ w[m] = Ev(x)
        BY <3>1, <3>3, <3>4
      <4>2. m - 1 \in DOMAIN v /\ v[m - 1] = Ev(x)
        BY <1>6, <1>7, <3>4, <4>1
      <4>3. m \in Int /\ m - 1 < j
        BY <1>5, <3>1, <4>1
      <4> QED BY <4>2, <4>3
    <3> QED BY <3>1, <3>3, <3>4
  <2>2. \A j \in DOMAIN v : v[j].t = "event" =>
          /\ v[j].n \in Ours'
          /\ \A x \in Ours' : cli'.cursor < x /\ x < v[j].n =>
               \E m \in DOMAIN v : m < j /\ v[m] = Ev(x)
    BY <1>1, <2>1
  <2>3. h.wire = v
    BY <1>4
  <2> QED BY ZenonT(40), <2>2, <2>3 DEF InOrder
<1>10. (Tuned(h) /\ Retained(h) /\ Queued(h))'
  BY <1>1, <1>4 DEF Carries, Tuned, Retained, Queued
<1>11. Replaying(h)'
  BY <1>1, <1>4, <1>8 DEF Carries, Replaying
<1>12. Current(h)'
  <2>1. \A x \in Ours : x <= cli'.cursor \/ cli'.cursor < x
    BY <1>1
  <2> QED BY <1>1, <1>4, <1>8, <2>1 DEF Carries, Current
<1> QED BY <1>9, <1>10, <1>11, <1>12 DEF Carries

\* One frame leaves the wire of a socket.
LEMMA PoppedConn ==
  ASSUME TypeOK, NEW c \in Conns, conn[c].wire /= << >>,
         conn' = [conn EXCEPT ![c].wire = Tail(@)]
  PROVE  \E h \in ConnType :
           /\ h = [conn[c] EXCEPT !.wire = Tail(conn[c].wire)]
           /\ conn' = [conn EXCEPT ![c] = h] /\ Len(h.q) <= QueueSize
           /\ conn' \in [Conns -> ConnType]
           /\ \A d \in Conns : Len(conn'[d].q) <= QueueSize
<1>1. PICK k \in ConnType : k = conn[c] /\ Len(k.q) <= QueueSize
  BY LogFacts DEF TypeOK
<1>2. PICK w \in Seq(Frame) : w = k.wire
  BY <1>1, ConnFacts, LogFacts
<1>3. PICK v \in Seq(Frame) : v = Tail(w)
  <2>1. w \in Seq(Frame) /\ w /= << >>
    BY <1>1, <1>2
  <2>2. Tail(w) \in Seq(Frame)
    BY <2>1
  <2> QED BY <2>2
<1>4. PICK h : h = [k EXCEPT !.wire = v]
  OBVIOUS
<1>5. h \in ConnType /\ h.q = k.q
  BY <1>3, <1>4 DEF ConnType
<1>6. conn' = [conn EXCEPT ![c] = h]
  BY <1>1, <1>2, <1>3, <1>4
<1>7. Len(h.q) <= QueueSize
  BY <1>1, <1>5
<1>8. conn' \in [Conns -> ConnType] /\ \A d \in Conns : Len(conn'[d].q) <= QueueSize
  BY <1>5, <1>6, <1>7, SetConnType
<1> QED BY <1>1, <1>2, <1>3, <1>4, <1>5, <1>6, <1>7, <1>8

\* What the sockets carry after a frame was taken.
LEMMA PoppedCarries ==
  ASSUME TypeOK, NoGap, NEW c \in Conns, conn[c].wire /= << >>,
         conn' = [conn EXCEPT ![c].wire = Tail(@)],
         UNCHANGED <<log, tasks, earliest>>,
         cli'.cursor \in Nat, cli.cursor <= cli'.cursor,
         Head(conn[c].wire).t = "event" => Head(conn[c].wire).n <= cli'.cursor
  PROVE  \A d \in Conns : Carries(conn[d])'
<1>1. PICK k \in ConnType : k = conn[c] /\ Carries(k)
  BY LogFacts DEF NoGap
<1>2. PICK h \in ConnType : /\ h = [conn[c] EXCEPT !.wire = Tail(conn[c].wire)]
                            /\ conn' = [conn EXCEPT ![c] = h]
  BY PoppedConn
<1>3. h = [k EXCEPT !.wire = Tail(k.wire)] /\ k.wire /= << >>
  BY <1>1, <1>2
<1>4. Head(k.wire).t = "event" => Head(k.wire).n <= cli'.cursor
  BY <1>1
<1>5. Carries(h)'
  BY <1>1, <1>3, <1>4, Popped
<1> QED BY <1>2, <1>5, OneConn

\* An event on a wire that is above the cursor is the next one.
LEMMA SeesNext ==
  ASSUME TypeOK, NoGap, NEW c \in Conns, conn[c].wire /= << >>,
         Head(conn[c].wire).t = "event", NEW i, i = Head(conn[c].wire).n, cli.cursor < i
  PROVE  i \in Ours /\ \A x \in Ours : cli.cursor < x => i <= x
<1>1. PICK k \in ConnType : k = conn[c] /\ Carries(k)
  BY LogFacts DEF NoGap
<1>2. PICK w \in Seq(Frame) : w = k.wire /\ w /= << >>
  BY <1>1, ConnFacts, LogFacts
<1>3. Head(w) = w[1] /\ 1 \in DOMAIN w /\ \A m \in DOMAIN w : ~(m < 1)
  BY <1>2
<1>4. w[1].t = "event" /\ w[1].n = i
  BY <1>1, <1>2, <1>3
<1>5. /\ i \in Ours
      /\ \A x \in Ours : cli.cursor < x /\ x < i => \E m \in DOMAIN w : m < 1
  BY <1>1, <1>2, <1>3, <1>4 DEF Carries, InOrder
<1>6. \A x \in Ours : x \in Nat
  BY LogFacts
<1> QED BY <1>3, <1>5, <1>6

\* The frame that is taken.
LEMMA HeadFrame ==
  ASSUME TypeOK, NEW c \in Conns, conn[c].wire /= << >>
  PROVE  /\ Head(conn[c].wire) \in Frame
         /\ MaxEvents \in Nat /\ Head(conn[c].wire).n \in 0..MaxEvents
         /\ Head(conn[c].wire).t = "event" \/ Head(conn[c].wire).n = 0
         /\ Head(conn[c].wire).t = "event" => Head(conn[c].wire).n > 0
<1>1. PICK w \in Seq(Frame) : w = conn[c].wire /\ w /= << >>
  BY ConnFacts, LogFacts
<1>2. PICK f \in Frame : f = Head(w)
  BY <1>1
<1>3. MaxEvents \in Nat
  BY LogFacts DEF StreamConstants
<1>4. f.n \in 0..MaxEvents /\ (f.t = "event" \/ f.n = 0) /\ (f.t = "event" => f.n > 0)
  BY <1>2, <1>3 DEF Frame, Seqs, Hello, Gap, Slow, Closed
<1> QED BY <1>1, <1>2, <1>3, <1>4

LEMMA OnEventKeeps ==
  ASSUME IInv, NEW c \in Conns, OnEvent(c)
  PROVE  IInv'
<1>1. TypeOK /\ StreamConstants /\ cli.cursor \in Nat
  BY LogFacts DEF IInv
<1>2. /\ conn[c].wire /= << >> /\ conn' = [conn EXCEPT ![c].wire = Tail(@)]
      /\ UNCHANGED <<log, earliest, bound, tasks, recs, faults, switches>>
  BY DEF OnEvent, srvVars
<1>3. PICK i \in 0..MaxEvents :
        /\ i = Head(conn[c].wire).n /\ MaxEvents \in Nat
        /\ Head(conn[c].wire).t = "event" \/ i = 0
        /\ Head(conn[c].wire).t = "event" => i > 0
  BY <1>1, <1>2, HeadFrame
<1>4. \/ /\ Paused \/ i <= cli.cursor
         /\ windows' = windows \cup (IF i > cli.cursor THEN {"paused"} ELSE {})
         /\ cli' = cli /\ view' = view
      \/ /\ ~(Paused \/ i <= cli.cursor)
         /\ cli' = [cli EXCEPT !.cursor = i] /\ view' = Reduced(i) /\ windows' = windows
  BY <1>3 DEF OnEvent
<1>5. /\ conn' \in [Conns -> ConnType]
      /\ \A d \in Conns : Len(conn'[d].q) <= QueueSize
  BY <1>1, <1>2, PoppedConn
<1>6. Ours' = Ours /\ Frontier' = Frontier
  BY <1>2, SameLog
<1>7. CASE /\ Paused \/ i <= cli.cursor
           /\ windows' = windows \cup (IF i > cli.cursor THEN {"paused"} ELSE {})
           /\ cli' = cli /\ view' = view
  <2>1. windows' \subseteq {"overtaken", "rebound", "pruned", "paused", "selected", "between"}
    BY <1>1, <1>7 DEF TypeOK
  <2>2. TypeOK'
    BY <1>1, <1>2, <1>5, <1>7, <2>1 DEF TypeOK
  <2>3. ASSUME Free' PROVE NoGap'
    <3>1. Free /\ i <= cli.cursor
      <4>1. ~(i > cli.cursor)
        BY <1>7, <2>3 DEF Free
      <4>2. Free
        BY <1>7, <2>3 DEF Free
      <4> QED BY <1>1, <1>3, <4>1, <4>2
    <3>2. NoGap
      BY <3>1 DEF IInv
    <3>3. \A d \in Conns : Carries(conn[d])'
      <4>1. cli'.cursor \in Nat /\ cli.cursor <= cli'.cursor
        BY <1>1, <1>7
      <4>2. Head(conn[c].wire).n <= cli'.cursor
        BY <1>3, <1>7, <3>1
      <4> QED BY <1>1, <1>2, <3>2, <4>1, <4>2, PoppedCarries
    <3>4. (AtHome /\ TasksInOrder /\ Reached)'
      BY <1>2, <1>6, <1>7, <3>2 DEF NoGap, AtHome, TasksInOrder, Reached
    <3> QED BY <1>2, <1>7, <3>2, <3>3, <3>4 DEF NoGap
  <2> QED BY <2>2, <2>3 DEF IInv
<1>8. CASE /\ ~(Paused \/ i <= cli.cursor)
           /\ cli' = [cli EXCEPT !.cursor = i] /\ view' = Reduced(i) /\ windows' = windows
  <2>1. i > cli.cursor /\ cli.cursor < i /\ i \in Seqs /\ i \in Nat
    BY <1>1, <1>3, <1>8 DEF Seqs
  <2>2. /\ cli' \in [inc : Nat, s : Sessions, cur : Conns \cup {None}, cursor : 0..MaxEvents]
        /\ cli'.inc = cli.inc /\ cli'.s = cli.s /\ cli'.cursor = i
    BY <1>1, <1>3, <1>8 DEF TypeOK
  <2>3. view' \in [s : Sessions, last : 0..MaxEvents, shown : SUBSET Seqs, got : SUBSET Seqs]
    <3>1. CASE i <= view.last
      BY <1>1, <1>8, <3>1 DEF TypeOK, Reduced
    <3>2. CASE ~(i <= view.last)
      <4>1. view.shown \cup {i} \in SUBSET Seqs /\ view.got \cup {i} \in SUBSET Seqs
        BY <1>1, <2>1 DEF TypeOK
      <4>2. PICK a \in SUBSET Seqs : a = view.shown \cup {i}
        BY <4>1
      <4>3. PICK b \in SUBSET Seqs : b = view.got \cup {i}
        BY <4>1
      <4>4. view' = [view EXCEPT !.last = i, !.shown = a, !.got = b]
        BY <1>8, <3>2, <4>2, <4>3 DEF Reduced
      <4> QED BY <1>1, <1>3, <4>4 DEF TypeOK
    <3> QED BY <3>1, <3>2
  <2>4. TypeOK'
    BY <1>1, <1>2, <1>5, <1>8, <2>2, <2>3 DEF TypeOK
  <2>5. ASSUME NoGap PROVE NoGap'
    <3>1. i \in Ours /\ \A x \in Ours : cli.cursor < x => i <= x
      <4>1. Head(conn[c].wire).t = "event" /\ i = Head(conn[c].wire).n
        BY <1>1, <1>3, <2>1
      <4> QED BY <1>1, <1>2, <2>1, <2>5, <4>1, SeesNext
    <3>2. recs = {}
      BY <1>8, <2>5 DEF NoGap, AtHome, Paused, Own
    <3>3. /\ view'.s = view.s /\ view'.last = i /\ view'.got = view.got \cup {i}
          /\ view'.shown = view.shown \cup {i}
      <4>1. view.last = cli.cursor
        BY <2>5 DEF NoGap, AtHome
      <4>2. ~(i <= view.last)
        BY <1>1, <2>1, <4>1
      <4>3. view' = [view EXCEPT !.last = i, !.shown = view.shown \cup {i},
                                 !.got = view.got \cup {i}]
        BY <1>8, <4>2 DEF Reduced
      <4> QED BY <1>1, <4>3 DEF TypeOK
    <3>4. AtHome'
      BY <1>2, <2>2, <2>5, <3>2, <3>3 DEF NoGap, AtHome
    <3>5. Reached'
      <4>1. \A x \in Ours : x <= i => x <= cli.cursor \/ x = i
        BY SMTT(40), <1>1, <2>1, <3>1, LogFacts
      <4> QED BY <1>2, <1>6, <2>2, <2>5, <3>3, <4>1 DEF NoGap, Reached
    <3>6. \A d \in Conns : Carries(conn[d])'
      <4>1. cli'.cursor \in Nat /\ cli.cursor <= cli'.cursor
        BY <1>1, <2>1, <2>2
      <4>2. Head(conn[c].wire).n <= cli'.cursor
        BY <1>3, <2>1, <2>2
      <4> QED BY <1>1, <1>2, <2>5, <4>1, <4>2, PoppedCarries
    <3>7. TasksInOrder'
      BY <1>2, <1>6, <2>5 DEF NoGap, TasksInOrder
    <3>8. i <= Len(log) /\ i > 0
      BY <1>1, <2>1, <3>1, LogFacts
    <3> QED BY <1>2, <2>2, <3>4, <3>5, <3>6, <3>7, <3>8 DEF NoGap
  <2> QED BY <1>8, <2>4, <2>5 DEF IInv, Free
<1> QED BY <1>4, <1>7, <1>8

LEMMA OnGapKeeps ==
  ASSUME IInv, NEW c \in Conns, OnGap(c)
  PROVE  IInv'
<1>1. TypeOK /\ StreamConstants /\ cli.cursor \in Nat /\ Len(log) \in Nat
  BY LogFacts DEF IInv
<1>2. /\ conn[c].wire /= << >> /\ conn' = [conn EXCEPT ![c].wire = Tail(@)]
      /\ Head(conn[c].wire) \in {Gap, Slow}
      /\ UNCHANGED <<log, earliest, bound, tasks, cli, view, faults, switches, windows>>
  BY DEF OnGap, srvVars
<1>3. PICK r : r = [inc |-> cli.inc, s |-> cli.s, on |-> c, base |-> cli.cursor,
                    rows |-> Unread, evs |-> Unread, inv |-> 0, saving |-> FALSE]
  OBVIOUS
<1>4. recs' = IF Paused THEN recs ELSE recs \cup {r}
  BY <1>3 DEF OnGap
<1>5. /\ r \in Recovery /\ r.inc = cli.inc /\ r.s = cli.s /\ r.base = cli.cursor
      /\ r.evs = Unread
  <2>1. Unread \in Unread..MaxEvents /\ 0 \in 0..MaxInv
    BY <1>1 DEF StreamConstants, Unread
  <2> QED BY <1>1, <1>3, <2>1 DEF TypeOK, Recovery
<1>6. TypeOK'
  <2>1. /\ conn' \in [Conns -> ConnType]
        /\ \A d \in Conns : Len(conn'[d].q) <= QueueSize
    BY <1>1, <1>2, PoppedConn
  <2>2. recs' \subseteq Recovery
    BY <1>1, <1>4, <1>5 DEF TypeOK
  <2> QED BY <1>1, <1>2, <2>1, <2>2 DEF TypeOK
<1>7. ASSUME NoGap PROVE NoGap'
  <2>1. \A d \in Conns : Carries(conn[d])'
    <3>1. cli'.cursor \in Nat /\ cli.cursor <= cli'.cursor
      BY <1>1, <1>2
    <3>2. Head(conn[c].wire).t /= "event"
      BY <1>2, FrameTypes
    <3> QED BY <1>1, <1>2, <1>7, <3>1, <3>2, PoppedCarries
  <2>2. AtHome'
    <3>1. CASE Paused
      BY <1>2, <1>4, <1>7, <3>1 DEF NoGap, AtHome
    <3>2. CASE ~Paused
      <4>1. recs = {}
        BY <1>7, <3>2 DEF NoGap, AtHome, Paused, Own
      <4>2. recs' = {r}
        BY <1>4, <3>2, <4>1
      <4>3. r.evs <= Len(log)
        BY <1>1, <1>5 DEF Unread
      <4> QED BY <1>2, <1>5, <1>7, <4>2, <4>3 DEF NoGap, AtHome
    <3> QED BY <3>1, <3>2
  <2>3. (TasksInOrder /\ Reached)'
    BY <1>2, <1>7, SameLog DEF NoGap, TasksInOrder, Reached
  <2> QED BY <1>2, <1>7, <2>1, <2>2, <2>3 DEF NoGap
<1> QED BY <1>2, <1>6, <1>7 DEF IInv, Free

LEMMA OnCloseKeeps ==
  ASSUME IInv, NEW c \in Conns, OnClose(c)
  PROVE  IInv'
<1>1. TypeOK /\ StreamConstants /\ cli.cursor \in Nat
  BY LogFacts DEF IInv
<1>2. /\ conn[c].wire /= << >> /\ conn' = [conn EXCEPT ![c].wire = Tail(@)]
      /\ Head(conn[c].wire) = Closed
      /\ UNCHANGED <<log, earliest, bound, tasks, recs, view, faults, switches, windows>>
  BY DEF OnClose, srvVars
<1>3. cli' = [cli EXCEPT !.cur = None] \/ cli' = cli
  BY DEF OnClose
<1>4. /\ cli' \in [inc : Nat, s : Sessions, cur : Conns \cup {None}, cursor : 0..MaxEvents]
      /\ cli'.inc = cli.inc /\ cli'.s = cli.s /\ cli'.cursor = cli.cursor
  BY <1>1, <1>3 DEF TypeOK
<1>5. TypeOK'
  <2>1. /\ conn' \in [Conns -> ConnType]
        /\ \A d \in Conns : Len(conn'[d].q) <= QueueSize
    BY <1>1, <1>2, PoppedConn
  <2> QED BY <1>1, <1>2, <1>4, <2>1 DEF TypeOK
<1>6. ASSUME NoGap PROVE NoGap'
  <2>1. \A d \in Conns : Carries(conn[d])'
    <3>1. cli'.cursor \in Nat /\ cli.cursor <= cli'.cursor
      BY <1>1, <1>4
    <3>2. Head(conn[c].wire).t /= "event"
      BY <1>2, FrameTypes
    <3> QED BY <1>1, <1>2, <1>6, <3>1, <3>2, PoppedCarries
  <2>2. (AtHome /\ TasksInOrder /\ Reached)'
    BY <1>2, <1>4, <1>6, SameLog DEF NoGap, AtHome, TasksInOrder, Reached
  <2> QED BY <1>2, <1>4, <1>6, <2>1, <2>2 DEF NoGap
<1> QED BY <1>2, <1>5, <1>6 DEF IInv, Free

-----------------------------------------------------------------------------
(* The client alone: timeouts and recoveries. *)

\* No socket is touched, and the cursor does not go back.
LEMMA SocketsStay ==
  ASSUME TypeOK, NoGap, UNCHANGED <<log, earliest, bound, tasks, conn>>,
         cli'.cursor \in Nat, cli.cursor <= cli'.cursor, cli'.cursor <= Len(log),
         AtHome', Reached'
  PROVE  NoGap'
<1>1. ASSUME NEW d \in Conns PROVE Carries(conn[d])'
  <2>1. PICK k \in ConnType : k = conn[d] /\ Carries(k)
    BY LogFacts DEF NoGap
  <2>2. Carries(k)'
    BY <2>1, CarriesOn
  <2>3. conn'[d] = k
    BY <2>1
  <2> QED BY <2>2, <2>3
          DEF Carries, Tuned, Retained, InOrder, Queued, Replaying, Current
<1>2. TasksInOrder'
  BY SameLog DEF NoGap, TasksInOrder
<1>3. (earliest > 1 => cli.cursor > 0)'
  BY SMTT(40), LogFacts DEF NoGap
<1> QED BY <1>1, <1>2, <1>3 DEF NoGap

\* Nor is the view, or the session and the cursor of the synchronizer.
LEMMA ViewStays ==
  ASSUME TypeOK, NoGap, UNCHANGED <<log, earliest, bound, tasks, conn, view>>,
         cli'.inc = cli.inc, cli'.s = cli.s, cli'.cursor = cli.cursor,
         \A r \in recs' : /\ r.inc = 0 /\ r.s = Home /\ r.evs <= Len(log)
                          /\ r.evs /= Unread => r.inv = StartInv
                          /\ ~r.saving => r.base = cli.cursor,
         \A q, r \in recs' : q = r
  PROVE  NoGap'
<1>1. AtHome'
  BY DEF NoGap, AtHome
<1>2. Reached'
  BY SameLog DEF NoGap, Reached
<1>3. cli'.cursor \in Nat /\ cli.cursor <= cli'.cursor /\ cli'.cursor <= Len(log)
  BY LogFacts DEF NoGap
<1> QED BY <1>1, <1>2, <1>3, SocketsStay

LEMMA HeartbeatTimeoutKeeps ==
  ASSUME IInv, HeartbeatTimeout
  PROVE  IInv'
<1>1. TypeOK /\ StreamConstants /\ MaxFaults \in Nat
  BY LogFacts DEF IInv, StreamConstants
<1>2. /\ faults < MaxFaults /\ faults' = faults + 1 /\ cli' = [cli EXCEPT !.cur = None]
      /\ UNCHANGED <<log, earliest, bound, tasks, conn, recs, view, switches, windows>>
  BY DEF HeartbeatTimeout, srvVars
<1>3. /\ cli' \in [inc : Nat, s : Sessions, cur : Conns \cup {None}, cursor : 0..MaxEvents]
      /\ cli'.inc = cli.inc /\ cli'.s = cli.s /\ cli'.cursor = cli.cursor
  BY <1>1, <1>2 DEF TypeOK
<1>4. faults' \in 0..MaxFaults
  <2>1. faults \in 0..MaxFaults
    BY <1>1 DEF TypeOK
  <2> QED BY <1>1, <1>2, <2>1
<1>5. TypeOK'
  BY <1>1, <1>2, <1>3, <1>4 DEF TypeOK
<1>6. ASSUME NoGap PROVE NoGap'
  <2>1. /\ \A r \in recs' : /\ r.inc = 0 /\ r.s = Home /\ r.evs <= Len(log)
                            /\ r.evs /= Unread => r.inv = StartInv
                            /\ ~r.saving => r.base = cli.cursor
        /\ \A q, r \in recs' : q = r
    BY <1>2, <1>6 DEF NoGap, AtHome
  <2> QED BY <1>1, <1>2, <1>3, <1>6, <2>1, ViewStays
<1> QED BY <1>2, <1>5, <1>6 DEF IInv, Free

LEMMA ReadRowsKeeps ==
  ASSUME IInv, NEW r \in recs, ReadRows(r)
  PROVE  IInv'
<1>1. TypeOK /\ StreamConstants /\ Len(log) \in Nat /\ Len(log) <= MaxEvents
  BY LogFacts DEF IInv
<1>2. PICK n \in Unread..MaxEvents : n = Len(log)
  <2>1. MaxEvents \in Nat
    BY <1>1 DEF StreamConstants
  <2> QED BY <1>1, <2>1 DEF Unread
<1>3. PICK h : h = [r EXCEPT !.rows = n]
  OBVIOUS
<1>4. /\ recs' = (recs \ {r}) \cup {h}
      /\ UNCHANGED <<log, earliest, bound, tasks, conn, cli, view, faults, switches, windows>>
  BY <1>2, <1>3 DEF ReadRows, srvVars
<1>5. /\ h \in Recovery /\ h.inc = r.inc /\ h.s = r.s /\ h.evs = r.evs /\ h.inv = r.inv
      /\ h.saving = r.saving /\ h.base = r.base
  <2>1. r \in Recovery
    BY <1>1 DEF TypeOK
  <2> QED BY <1>2, <1>3, <2>1 DEF Recovery
<1>6. TypeOK'
  BY <1>1, <1>4, <1>5 DEF TypeOK
<1>7. ASSUME NoGap PROVE NoGap'
  <2>1. recs' = {h}
    BY <1>4, <1>7 DEF NoGap, AtHome
  <2>2. /\ h.inc = 0 /\ h.s = Home /\ h.evs <= Len(log)
        /\ h.evs /= Unread => h.inv = StartInv
        /\ ~h.saving => h.base = cli.cursor
    BY <1>5, <1>7 DEF NoGap, AtHome
  <2>3. /\ \A q \in recs' : /\ q.inc = 0 /\ q.s = Home /\ q.evs <= Len(log)
                            /\ q.evs /= Unread => q.inv = StartInv
                            /\ ~q.saving => q.base = cli.cursor
        /\ \A q, p \in recs' : q = p
    BY <2>1, <2>2
  <2> QED BY <1>1, <1>4, <1>7, <2>3, ViewStays
<1> QED BY <1>4, <1>6, <1>7 DEF IInv, Free

LEMMA ReadEventsKeeps ==
  ASSUME IInv, NEW r \in recs, ReadEvents(r)
  PROVE  IInv'
<1>1. /\ TypeOK /\ StreamConstants /\ Len(log) \in Nat /\ Len(log) <= MaxEvents
      /\ r \in Recovery
  BY LogFacts DEF IInv, TypeOK
<1>2. PICK n \in Unread..MaxEvents : n = Len(log)
  <2>1. MaxEvents \in Nat
    BY <1>1 DEF StreamConstants
  <2> QED BY <1>1, <2>1 DEF Unread
<1>3. PICK b \in 0..MaxInv : b = bound[r.s]
  BY <1>1 DEF TypeOK, Recovery
<1>4. PICK h : h = [r EXCEPT !.evs = n, !.inv = b]
  OBVIOUS
<1>5. /\ recs' = (recs \ {r}) \cup {h}
      /\ UNCHANGED <<log, earliest, bound, tasks, conn, cli, view, faults, switches, windows>>
  BY <1>2, <1>3, <1>4 DEF ReadEvents, srvVars
<1>6. /\ h \in Recovery /\ h.inc = r.inc /\ h.s = r.s /\ h.evs = n /\ h.inv = b
      /\ h.saving = r.saving /\ h.base = r.base
  BY <1>1, <1>2, <1>3, <1>4 DEF Recovery
<1>7. TypeOK'
  BY <1>1, <1>5, <1>6 DEF TypeOK
<1>8. ASSUME NoGap PROVE NoGap'
  <2>1. recs' = {h}
    BY <1>5, <1>8 DEF NoGap, AtHome
  <2>2. /\ h.inc = 0 /\ h.s = Home /\ ~h.saving => h.base = cli.cursor
    BY <1>6, <1>8 DEF NoGap, AtHome
  <2>3. h.inv = StartInv
    BY <1>1, <1>3, <1>6, <1>8 DEF NoGap, AtHome, Recovery
  <2>4. h.evs <= Len(log)
    BY <1>1, <1>2, <1>6
  <2>5. /\ \A q \in recs' : /\ q.inc = 0 /\ q.s = Home /\ q.evs <= Len(log)
                            /\ q.evs /= Unread => q.inv = StartInv
                            /\ ~q.saving => q.base = cli.cursor
        /\ \A q, p \in recs' : q = p
    BY <1>6, <1>8, <2>1, <2>2, <2>3, <2>4 DEF NoGap, AtHome
  <2> QED BY <1>1, <1>5, <1>8, <2>5, ViewStays
<1> QED BY <1>5, <1>7, <1>8 DEF IInv, Free

\* A recovery ends: at most the current socket is given up.
LEMMA Dropped ==
  ASSUME TypeOK, NEW r \in recs, cli' = Recovered(r, cli), recs' = recs \ {r},
         UNCHANGED <<log, earliest, bound, tasks, conn, view>>
  PROVE  /\ cli' \in [inc : Nat, s : Sessions, cur : Conns \cup {None}, cursor : 0..MaxEvents]
         /\ recs' \subseteq Recovery
         /\ cli'.cursor = cli.cursor
         /\ NoGap => NoGap'
<1>1. cli' = cli \/ cli' = [cli EXCEPT !.cur = None]
  BY DEF Recovered
<1>2. /\ cli' \in [inc : Nat, s : Sessions, cur : Conns \cup {None}, cursor : 0..MaxEvents]
      /\ cli'.inc = cli.inc /\ cli'.s = cli.s /\ cli'.cursor = cli.cursor
  BY <1>1 DEF TypeOK
<1>3. recs' \subseteq Recovery
  BY DEF TypeOK
<1>4. ASSUME NoGap PROVE NoGap'
  <2>1. /\ \A q \in recs' : /\ q.inc = 0 /\ q.s = Home /\ q.evs <= Len(log)
                            /\ q.evs /= Unread => q.inv = StartInv
                            /\ ~q.saving => q.base = cli.cursor
        /\ \A q, p \in recs' : q = p
    BY <1>4 DEF NoGap, AtHome
  <2> QED BY <1>2, <1>4, <2>1, ViewStays
<1> QED BY <1>2, <1>3, <1>4

LEMMA ReadFailsKeeps ==
  ASSUME IInv, NEW r \in recs, ReadFails(r)
  PROVE  IInv'
<1>1. TypeOK /\ StreamConstants /\ MaxFaults \in Nat
  BY LogFacts DEF IInv, StreamConstants
<1>2. /\ faults < MaxFaults /\ faults' = faults + 1
      /\ cli' = Recovered(r, cli) /\ recs' = recs \ {r}
      /\ UNCHANGED <<log, earliest, bound, tasks, conn, view, switches, windows>>
  BY DEF ReadFails, srvVars
<1>3. /\ cli' \in [inc : Nat, s : Sessions, cur : Conns \cup {None}, cursor : 0..MaxEvents]
      /\ recs' \subseteq Recovery
      /\ NoGap => NoGap'
  BY <1>1, <1>2, Dropped
<1>4. faults' \in 0..MaxFaults
  <2>1. faults \in 0..MaxFaults
    BY <1>1 DEF TypeOK
  <2> QED BY <1>1, <1>2, <2>1
<1>5. TypeOK'
  BY <1>1, <1>2, <1>3, <1>4 DEF TypeOK
<1> QED BY <1>2, <1>3, <1>5 DEF IInv, Free

LEMMA EndRecoveryKeeps ==
  ASSUME IInv, NEW r \in recs, EndRecovery(r)
  PROVE  IInv'
<1>1. TypeOK
  BY DEF IInv
<1>2. /\ cli' = Recovered(r, cli) /\ recs' = recs \ {r}
      /\ UNCHANGED <<log, earliest, bound, tasks, conn, view, faults, switches, windows>>
  BY DEF EndRecovery, srvVars
<1>3. /\ cli' \in [inc : Nat, s : Sessions, cur : Conns \cup {None}, cursor : 0..MaxEvents]
      /\ recs' \subseteq Recovery
      /\ NoGap => NoGap'
  BY <1>1, <1>2, Dropped
<1>4. TypeOK'
  BY <1>1, <1>2, <1>3 DEF TypeOK
<1> QED BY <1>2, <1>3, <1>4 DEF IInv, Free

-----------------------------------------------------------------------------
(* Snapshots and other sessions. *)

\* A synchronizer begins anew, with every socket closed.
LEMMA Attached ==
  ASSUME TypeOK, NEW s \in Sessions, NEW last \in 0..MaxEvents, Attach(s, last)
  PROVE  /\ cli' \in [inc : Nat, s : Sessions, cur : Conns \cup {None}, cursor : 0..MaxEvents]
         /\ conn' \in [Conns -> ConnType]
         /\ \A d \in Conns : Len(conn'[d].q) <= QueueSize
<1>1. StreamConstants /\ MaxEvents \in Nat
  BY LogFacts DEF StreamConstants
<1>2. PICK n \in SavedCursors(s) \cup {last} :
        cli' = [inc |-> cli.inc + 1, s |-> s, cur |-> None, cursor |-> n]
  BY DEF Attach
<1>3. n \in 0..MaxEvents
  <2>1. SavedCursors(s) \subseteq Seqs
    BY DEF SavedCursors, TypeOK
  <2>2. Seqs \subseteq 0..MaxEvents
    BY <1>1 DEF Seqs
  <2> QED BY <1>2, <2>1, <2>2
<1>4. cli.inc + 1 \in Nat
  BY DEF TypeOK
<1>5. conn' = [c \in Conns |-> Idle]
  BY DEF Attach
<1>6. Idle \in ConnType /\ Len(Idle.q) <= QueueSize
  <2>1. Idle \in ConnType /\ Idle.q = << >>
    BY <1>1, IdleType
  <2>2. Len(Idle.q) = 0 /\ QueueSize \in Nat
    BY <1>1, <2>1 DEF StreamConstants
  <2> QED BY <2>1, <2>2
<1> QED BY <1>2, <1>3, <1>4, <1>5, <1>6

\* The sequence of a snapshot is that of its last event, or where it began.
LEMMA SnapshotFacts ==
  ASSUME TypeOK, NEW r \in recs
  PROVE  /\ SnapshotSequence(r) \in {r.base} \cup SnapshotEvents(r)
         /\ SnapshotEvents(r) \subseteq DOMAIN log
         /\ \A i \in SnapshotEvents(r) : r.base < i /\ i <= r.evs /\ log[i].s = r.s
         /\ r.base \in 0..MaxEvents /\ SnapshotSequence(r) \in 0..MaxEvents
         /\ Snapshot(r) \subseteq Seqs
<1>1. MaxEvents \in Nat /\ DOMAIN log \subseteq Seqs
  BY LogFacts DEF StreamConstants
<1>2. r \in Recovery /\ r.base \in 0..MaxEvents
  BY DEF TypeOK, Recovery
<1>3. /\ SnapshotEvents(r) \subseteq DOMAIN log
      /\ \A i \in SnapshotEvents(r) : r.base < i /\ i <= r.evs /\ log[i].s = r.s
  BY DEF SnapshotEvents, Matches
<1>4. PICK T : T = {r.base} \cup SnapshotEvents(r)
  OBVIOUS
<1>5. T \in SUBSET (0..MaxEvents) /\ T /= {}
  <2>1. Seqs \subseteq 0..MaxEvents
    BY <1>1 DEF Seqs
  <2> QED BY <1>1, <1>2, <1>3, <1>4, <2>1
<1>6. \E n \in T : \A i \in T : i <= n
  BY <1>1, <1>5, Largest
<1>7. \E n \in {r.base} \cup SnapshotEvents(r) : \A i \in SnapshotEvents(r) : i <= n
  BY <1>4, <1>6
<1>8. SnapshotSequence(r) \in {r.base} \cup SnapshotEvents(r)
  BY <1>7 DEF SnapshotSequence
<1>9. SnapshotSequence(r) \in 0..MaxEvents
  BY <1>4, <1>5, <1>8
<1>10. Snapshot(r) \subseteq Seqs
  BY <1>1, <1>3 DEF Snapshot
<1> QED BY <1>2, <1>3, <1>8, <1>9, <1>10

\* At home a snapshot moves the cursor to its last event, or leaves it.
LEMMA Resyncs ==
  ASSUME TypeOK, NoGap, NEW r \in recs, ApplySnapshot(r)
  PROVE  /\ cli' = [cli EXCEPT !.cursor = SnapshotSequence(r)]
         /\ recs' = (recs \ {r}) \cup {[r EXCEPT !.saving = TRUE]}
         /\ UNCHANGED conn
         /\ r.base = cli.cursor
         /\ SnapshotSequence(r) /= cli.cursor =>
              SnapshotSequence(r) \in Ours /\ SnapshotSequence(r) > cli.cursor
<1>1. view.s = r.s /\ Own(r) /\ ~r.saving /\ r.base = cli.cursor /\ r.s = Home
  BY DEF NoGap, AtHome, Own, ApplySnapshot
<1>2. /\ cli' = [cli EXCEPT !.cursor = SnapshotSequence(r)]
      /\ recs' = (recs \ {r}) \cup {[r EXCEPT !.saving = TRUE]}
      /\ UNCHANGED conn
  BY <1>1 DEF ApplySnapshot
<1>4. ASSUME SnapshotSequence(r) /= cli.cursor
      PROVE  SnapshotSequence(r) \in Ours /\ SnapshotSequence(r) > cli.cursor
  <2>1. SnapshotSequence(r) \in SnapshotEvents(r) /\ SnapshotSequence(r) \in 0..MaxEvents
    BY <1>1, <1>4, SnapshotFacts
  <2>2. /\ SnapshotSequence(r) \in DOMAIN log /\ log[SnapshotSequence(r)].s = Home
        /\ cli.cursor < SnapshotSequence(r)
    BY <1>1, <2>1, SnapshotFacts
  <2>3. cli.cursor \in Nat /\ SnapshotSequence(r) \in Int
    BY <2>1, LogFacts
  <2> QED BY <2>2, <2>3 DEF Ours
<1> QED BY <1>1, <1>2, <1>4

LEMMA ApplySnapshotKeeps ==
  ASSUME IInv, NEW r \in recs, ApplySnapshot(r)
  PROVE  IInv'
<1>1. /\ TypeOK /\ StreamConstants /\ r \in Recovery /\ cli.cursor \in Nat /\ Len(log) \in Nat
      /\ MaxEvents \in Nat
  BY LogFacts DEF IInv, TypeOK, StreamConstants
<1>2. PICK n \in 0..MaxEvents : /\ n = SnapshotSequence(r)
                                /\ n \in {r.base} \cup SnapshotEvents(r)
  BY <1>1, SnapshotFacts
<1>3. PICK g : g = Snapshot(r)
  OBVIOUS
<1>4. /\ view' = [s |-> r.s, last |-> n, shown |-> g, got |-> view.got \cup {i \in g : i <= n}]
      /\ UNCHANGED <<log, earliest, bound, tasks, faults, switches>>
      /\ windows' = windows \cup (IF Unnoticed(r) = {} THEN {} ELSE {"between"})
  BY <1>2, <1>3 DEF ApplySnapshot, srvVars
<1>5. view' \in [s : Sessions, last : 0..MaxEvents, shown : SUBSET Seqs, got : SUBSET Seqs]
  <2>1. g \in SUBSET Seqs
    BY <1>1, <1>3, SnapshotFacts
  <2>3. view.got \cup {i \in g : i <= n} \in SUBSET Seqs
    BY <1>1, <2>1 DEF TypeOK
  <2>4. r.s \in Sessions
    BY <1>1 DEF Recovery
  <2> QED BY <1>4, <2>1, <2>3, <2>4
<1>6. PICK h : h = [r EXCEPT !.saving = TRUE]
  OBVIOUS
<1>7. /\ h \in Recovery /\ h.inc = r.inc /\ h.s = r.s /\ h.evs = r.evs /\ h.inv = r.inv
      /\ h.saving = TRUE
  BY <1>1, <1>6 DEF Recovery
<1>8. \/ Attach(r.s, view.last) /\ recs' = recs \ {r}
      \/ recs' = recs \ {r} /\ UNCHANGED <<cli, conn>>
      \/ /\ cli' = [cli EXCEPT !.cursor = n]
         /\ recs' = (recs \ {r}) \cup {h} /\ UNCHANGED conn
  BY <1>2, <1>6 DEF ApplySnapshot
<1>9. /\ cli' \in [inc : Nat, s : Sessions, cur : Conns \cup {None}, cursor : 0..MaxEvents]
      /\ conn' \in [Conns -> ConnType]
      /\ \A d \in Conns : Len(conn'[d].q) <= QueueSize
      /\ recs' \subseteq Recovery
  <2>1. CASE Attach(r.s, view.last) /\ recs' = recs \ {r}
    <3>1. r.s \in Sessions /\ view.last \in 0..MaxEvents /\ recs' \subseteq Recovery
      BY <1>1, <2>1 DEF TypeOK, Recovery
    <3> QED BY <1>1, <2>1, <3>1, Attached
  <2>2. CASE recs' = recs \ {r} /\ UNCHANGED <<cli, conn>>
    BY <1>1, <2>2 DEF TypeOK
  <2>3. CASE /\ cli' = [cli EXCEPT !.cursor = n]
             /\ recs' = (recs \ {r}) \cup {h} /\ UNCHANGED conn
    BY <1>1, <1>2, <1>7, <2>3 DEF TypeOK
  <2> QED BY <1>8, <2>1, <2>2, <2>3
<1>10. TypeOK'
  BY <1>1, <1>4, <1>5, <1>9 DEF TypeOK
<1>11. ASSUME NoGap, Unnoticed(r) = {} PROVE NoGap'
  <2>1. /\ cli' = [cli EXCEPT !.cursor = n] /\ recs' = (recs \ {r}) \cup {h}
        /\ UNCHANGED conn /\ r.base = cli.cursor
        /\ n /= cli.cursor => n \in Ours /\ n > cli.cursor
    BY <1>1, <1>2, <1>6, <1>11, Resyncs
  <2>2. cli'.inc = cli.inc /\ cli'.s = cli.s /\ cli'.cursor = n
    BY <1>1, <1>2, <2>1 DEF TypeOK
  <2>3. n \in Nat /\ cli.cursor <= n /\ n <= Len(log)
    <3>1. cli.cursor <= Len(log) /\ n \in Nat
      BY <1>1, <1>11 DEF NoGap
    <3>2. n /= cli.cursor => n <= Len(log)
      BY <1>1, <2>1, LogFacts
    <3> QED BY <1>1, <2>1, <3>1, <3>2
  <2>4. /\ view'.s = Home /\ view'.last = n /\ view'.got = view.got \cup {i \in g : i <= n}
        /\ view'.shown = g
    BY <1>4, <1>11 DEF NoGap, AtHome
  <2>5. recs' = {h}
    BY <1>11, <2>1 DEF NoGap, AtHome
  <2>6. AtHome'
    BY <1>4, <1>7, <1>11, <2>2, <2>4, <2>5 DEF NoGap, AtHome
  <2>7. Reached'
    <3>1. Ours' = Ours
      BY <1>4 DEF Ours
    <3>2. ASSUME NEW x \in Ours, x <= n
          PROVE  /\ x \in view.got \/ x \in g \/ (x < earliest /\ log[x].kind = "log")
                 /\ log[x].kind = "row" => x \in g
      <4>1. /\ x \in Nat /\ x > 0 /\ log[x].s = Home /\ x \in DOMAIN log
            /\ log[x].kind \in {"row", "log"} /\ earliest \in Nat
        <5>1. x \in DOMAIN log /\ log[x].s = Home
          BY DEF Ours
        <5>2. x \in 1..Len(log) /\ log[x] \in Event
          BY <1>1, <5>1 DEF TypeOK
        <5> QED BY <1>1, <5>1, <5>2, LogFacts DEF Event
      <4>2. r.s = Home /\ r.rows \in Int
        BY <1>1, <1>11 DEF NoGap, AtHome, Recovery, Unread
      <4>3. log[x].kind = "row" => x \in g
        <5>1. ASSUME log[x].kind = "row" PROVE x <= r.rows
          BY <1>2, <1>11, <3>2, <4>1, <4>2, <5>1 DEF Unnoticed
        <5> QED BY <1>3, <4>1, <4>2, <5>1 DEF Snapshot
      <4>4. CASE x <= cli.cursor
        BY <1>11, <4>3, <4>4 DEF NoGap, Reached
      <4>5. CASE ~(x <= cli.cursor) /\ log[x].kind = "log" /\ ~(x < earliest)
        <5>1. n \in SnapshotEvents(r)
          BY <1>1, <1>2, <2>1, <2>3, <3>2, <4>1, <4>5
        <5>2. n <= r.evs /\ r.evs \in Int /\ r.evs /= Unread
          <6>1. n <= r.evs /\ r.evs \in Int
            BY SMTT(40), <1>1, <5>1, SnapshotFacts DEF Recovery, Unread
          <6> QED BY <6>1, <1>2 DEF Unread
        <5>3. x <= r.evs /\ earliest <= x /\ r.base < x
          BY <1>1, <2>1, <2>3, <3>2, <4>1, <4>5, <5>2
        <5>4. Matches(log[x], r.s, r.inv)
          BY <1>11, <4>1, <4>2, <5>2 DEF NoGap, AtHome, Matches
        <5>5. x \in SnapshotEvents(r)
          BY <4>1, <5>3, <5>4 DEF SnapshotEvents
        <5> QED BY <1>3, <4>3, <4>5, <5>5 DEF Snapshot
      <4> QED BY <4>1, <4>3, <4>4, <4>5
    <3>3. UNCHANGED <<log, earliest>>
      BY <1>4
    <3> QED BY <2>2, <2>4, <3>1, <3>2, <3>3 DEF Reached
  <2>8. /\ cli'.cursor \in Nat /\ cli.cursor <= cli'.cursor /\ cli'.cursor <= Len(log)
    BY <2>2, <2>3
  <2> QED BY <1>1, <1>4, <1>11, <2>1, <2>6, <2>7, <2>8, SocketsStay
<1>12. Free' => Free /\ Unnoticed(r) = {}
  BY <1>4 DEF Free
<1> QED BY <1>10, <1>11, <1>12 DEF IInv

\* The user leaves the session: a window.
LEMMA SelectKeeps ==
  ASSUME IInv, NEW s \in Sessions, Select(s)
  PROVE  IInv'
<1>1. TypeOK /\ view.last \in 0..MaxEvents /\ MaxSwitches \in Nat
  BY LogFacts DEF IInv, TypeOK, StreamConstants
<1>2. /\ cli' \in [inc : Nat, s : Sessions, cur : Conns \cup {None}, cursor : 0..MaxEvents]
      /\ conn' \in [Conns -> ConnType]
      /\ \A d \in Conns : Len(conn'[d].q) <= QueueSize
  BY <1>1, Attached DEF Select
<1>3. switches' \in 0..MaxSwitches
  <2>1. switches \in 0..MaxSwitches
    BY <1>1 DEF TypeOK
  <2> QED BY <1>1, <2>1 DEF Select
<1>4. view' \in [s : Sessions, last : 0..MaxEvents, shown : SUBSET Seqs, got : SUBSET Seqs]
  BY <1>1 DEF Select, TypeOK
<1>5. TypeOK'
  BY <1>1, <1>2, <1>3, <1>4 DEF Select, TypeOK, srvVars
<1>6. ~Free'
  BY DEF Select, Free
<1> QED BY <1>5, <1>6 DEF IInv

-----------------------------------------------------------------------------
(* All steps. *)

LEMMA InitIInv ==
  ASSUME Init
  PROVE  IInv
<1>1. /\ StreamConstants /\ MaxEvents \in Nat /\ MaxInv \in Nat /\ MaxFaults \in Nat
      /\ MaxSwitches \in Nat /\ StartInv \in 0..MaxInv /\ Home \in Sessions
  BY StreamConstants DEF StreamConstants
<1>2. /\ log = << >> /\ earliest = 1 /\ tasks = << >>
      /\ bound = [s \in Sessions |-> StartInv]
      /\ conn = [c \in Conns |-> Idle]
      /\ cli = [inc |-> 0, s |-> Home, cur |-> None, cursor |-> 0]
      /\ recs = {}
      /\ view = [s |-> Home, last |-> 0, shown |-> {}, got |-> {}]
      /\ faults = 0 /\ switches = 0 /\ windows = {}
  BY DEF Init
<1>3. PICK k \in ConnType :
        /\ k = Idle /\ k.st = "free" /\ k.s = Home /\ k.q = << >> /\ k.wire = << >>
  BY <1>1, IdleType
<1>4. Len(k.q) <= QueueSize
  <2>1. Len(k.q) = 0 /\ QueueSize \in Nat
    BY <1>1, <1>3 DEF StreamConstants
  <2> QED BY <2>1
<1>5. TypeOK
  <2>1. log \in Seq(Event) /\ Len(log) <= MaxEvents /\ tasks \in Seq(Seqs)
    BY <1>1, <1>2
  <2>2. earliest \in 1..(MaxEvents + 1)
    BY <1>1, <1>2
  <2>3. bound \in [Sessions -> 0..MaxInv]
    BY <1>1, <1>2
  <2>4. conn \in [Conns -> ConnType] /\ \A c \in Conns : Len(conn[c].q) <= QueueSize
    BY <1>2, <1>3, <1>4
  <2>5. cli \in [inc : Nat, s : Sessions, cur : Conns \cup {None}, cursor : 0..MaxEvents]
    BY <1>1, <1>2
  <2>6. view \in [s : Sessions, last : 0..MaxEvents, shown : SUBSET Seqs, got : SUBSET Seqs]
    BY <1>1, <1>2
  <2>7. faults \in 0..MaxFaults /\ switches \in 0..MaxSwitches
    BY <1>1, <1>2
  <2> QED BY <1>2, <2>1, <2>2, <2>3, <2>4, <2>5, <2>6, <2>7 DEF TypeOK
<1>6. Ours = {}
  BY <1>2 DEF Ours
<1>7. AtHome
  BY <1>2 DEF AtHome
<1>8. TasksInOrder
  BY <1>2 DEF TasksInOrder
<1>9. Reached
  BY <1>6 DEF Reached
<1>10. Carries(k)
  <2>1. Tuned(k) /\ Retained(k) /\ Queued(k) /\ Replaying(k) /\ Current(k)
    BY <1>3 DEF Tuned, Retained, Queued, Replaying, Current, Streaming
  <2>2. InOrder(k)
    BY <1>3 DEF InOrder
  <2> QED BY <2>1, <2>2 DEF Carries
<1>11. \A c \in Conns : Carries(conn[c])
  BY <1>2, <1>3, <1>10
<1>12. cli.cursor <= Len(log) /\ (earliest > 1 => cli.cursor > 0)
  BY <1>2
<1> QED BY <1>5, <1>7, <1>8, <1>9, <1>11, <1>12 DEF IInv, NoGap

LEMMA NextIInv ==
  ASSUME IInv, [Next]_vars
  PROVE  IInv'
<1>1. CASE Record
  BY <1>1, EmitKeeps DEF Record
<1>2. CASE ServerStep
  <2>1. CASE Publish
    BY <2>1, PublishKeeps
  <2>2. ASSUME NEW c \in Conns, Subscribe(c) \/ ReplayPage(c) \/ ReplaySend(c) \/ Live(c)
        PROVE  IInv'
    BY <2>2, SubscribeKeeps, ReplayPageKeeps, ReplaySendKeeps, LiveKeeps
  <2> QED BY <1>2, <2>1, <2>2 DEF ServerStep
<1>3. CASE ClientStep
  <2>1. ASSUME NEW c \in Conns, Connect(c) \/ OnEvent(c) \/ OnGap(c) \/ OnClose(c)
        PROVE  IInv'
    BY <2>1, ConnectKeeps, OnEventKeeps, OnGapKeeps, OnCloseKeeps
  <2>2. ASSUME NEW r \in recs,
               ReadRows(r) \/ ReadEvents(r) \/ ApplySnapshot(r) \/ EndRecovery(r)
        PROVE  IInv'
    BY <2>2, ReadRowsKeeps, ReadEventsKeeps, ApplySnapshotKeeps, EndRecoveryKeeps
  <2> QED BY <1>3, <2>1, <2>2 DEF ClientStep
<1>4. CASE Fault
  BY <1>4, LoseKeeps, RestartKeeps, HeartbeatTimeoutKeeps, ReadFailsKeeps DEF Fault
<1>5. CASE User
  BY <1>5, BindKeeps, SelectKeeps DEF User
<1>6. CASE UNCHANGED vars
  <2>1. /\ UNCHANGED <<log, earliest, bound, tasks, conn, cli>>
        /\ UNCHANGED <<recs, view, faults, switches, windows>>
    BY <1>6 DEF vars
  <2>2. TypeOK'
    BY <2>1 DEF IInv, TypeOK
  <2>3. ASSUME NoGap PROVE NoGap'
    <3>1. TypeOK
      BY DEF IInv
    <3>2. AtHome' /\ Reached'
      BY <2>1, <2>3, SameLog DEF NoGap, AtHome, Reached
    <3>3. cli'.cursor \in Nat /\ cli.cursor <= cli'.cursor /\ cli'.cursor <= Len(log)
      BY <2>1, <2>3, <3>1, LogFacts DEF NoGap
    <3>4. UNCHANGED <<log, earliest, bound, tasks, conn>>
      BY <2>1
    <3> QED BY <2>3, <3>1, <3>2, <3>3, <3>4, SocketsStay
  <2> QED BY <2>1, <2>2, <2>3 DEF IInv, Free
<1> QED BY <1>1, <1>2, <1>3, <1>4, <1>5, <1>6 DEF Next

\* What the reader of the log, of the wire and of the queues may conclude.
LEMMA LosslessHolds ==
  ASSUME IInv
  PROVE  Lossless
<1>1. TypeOK /\ StreamConstants /\ Len(log) \in Nat /\ DOMAIN log = 1..Len(log)
  BY LogFacts DEF IInv
<1>2. NothingSkipped /\ RowsOnScreen
  <2>1. ASSUME windows \subseteq {"pruned"}, NEW i \in 1..cli.cursor, log[i].s = cli.s
        PROVE  /\ i \in view.got \/ (i < earliest /\ log[i].kind = "log")
               /\ log[i].kind = "row" => i \in view.shown
    <3>1. NoGap
      BY <2>1 DEF IInv, Free
    <3>2. cli.s = Home /\ cli.cursor <= Len(log) /\ cli.cursor \in Nat
      BY <1>1, <3>1, LogFacts DEF NoGap, AtHome
    <3>3. i \in Ours /\ i <= cli.cursor
      BY <1>1, <2>1, <3>2 DEF Ours
    <3> QED BY <3>1, <3>3 DEF NoGap, Reached
  <2> QED BY <2>1 DEF NothingSkipped, RowsOnScreen
<1>3. QuietMeansCaughtUp
  <2>1. ASSUME cli.cur /= None, conn[cli.cur].st = "live", conn[cli.cur].q = << >>,
               conn[cli.cur].wire = << >>, windows \subseteq {"pruned"},
               NEW i \in DOMAIN log, log[i].s = cli.s, i > cli.cursor
        PROVE  i \in {tasks[j] : j \in DOMAIN tasks}
    <3>1. NoGap /\ cli.cur \in Conns
      BY <1>1, <2>1 DEF IInv, Free, TypeOK
    <3>2. PICK k \in ConnType : k = conn[cli.cur] /\ Carries(k)
      BY <1>1, <3>1, LogFacts DEF NoGap
    <3>3. k.st = "live" /\ Len(k.q) = 0 /\ k.wire = << >>
      BY <2>1, <3>2
    <3>4. k.dropped = 0
      <4>1. QueueSize > 0 /\ k.dropped \in Nat
        BY <1>1, <3>2, ConnFacts DEF StreamConstants
      <4>2. k.dropped > 0 => Len(k.q) = QueueSize
        BY <3>2, <3>3 DEF Carries, Queued, Streaming
      <4> QED BY <3>3, <4>1, <4>2
    <3>5. i \in Ours /\ i \in Nat /\ cli.cursor \in Nat
      BY <1>1, <2>1, <3>1, LogFacts DEF Ours, NoGap, AtHome
    <3>6. ~(i <= cli.cursor) /\ ~OnWire(k.wire, i)
      BY <2>1, <3>3, <3>5 DEF OnWire
    <3>7. ~(i <= Frontier - Len(k.q))
      BY <3>2, <3>3, <3>4, <3>5, <3>6 DEF Carries, Current
    <3>8. i > Frontier /\ Frontier \in Int
      BY <1>1, <3>3, <3>5, <3>7, LogFacts
    <3>9. i - Frontier \in DOMAIN tasks
      <4>1. Len(tasks) \in Nat /\ DOMAIN tasks = 1..Len(tasks) /\ i <= Len(log)
        BY <1>1, LogFacts
      <4> QED BY <1>1, <3>5, <3>8, <4>1 DEF Frontier
    <3>10. tasks[i - Frontier] = i
      BY <3>1, <3>5, <3>8, <3>9 DEF NoGap, TasksInOrder
    <3> QED BY <3>9, <3>10
  <2> QED BY <2>1 DEF QuietMeansCaughtUp
<1> QED BY <1>1, <1>2, <1>3 DEF Lossless

-----------------------------------------------------------------------------
(* The theorems. *)

\* The invariant holds in every reachable state.
THEOREM StreamInvariant == Spec => []IInv
<1>1. Init => IInv
  BY InitIInv
<1>2. IInv /\ [Next]_vars => IInv'
  BY NextIInv
<1> QED BY <1>1, <1>2, PTL DEF Spec

\* Neither the broker's bounded queues, nor the replay that overlaps them, nor
\* lost connections, slow consumers and snapshots lose an event of the session
\* or take a message or an approval from the screen, outside the named windows
\* (stream_events, _replay, _live, EventBroker.publish; the CLI's synchronizer
\* and reducer).
THEOREM NothingIsLost == Spec => []Lossless
<1>1. IInv => Lossless
  BY LosslessHolds
<1> QED BY <1>1, StreamInvariant, PTL

-----------------------------------------------------------------------------
(* The delivery that the client promises. *)

\* A window stays hit.
LEMMA WindowsStay ==
  ASSUME [Next]_vars
  PROVE  windows \subseteq windows'
<1>1. CASE Record
  <2>1. PICK e \in Events, how \in Publishers : Emit(e, how)
    BY <1>1 DEF Record
  <2> QED BY <2>1 DEF Emit
<1>2. CASE ServerStep
  <2>1. CASE Publish
    BY <2>1 DEF Publish
  <2>2. ASSUME NEW c \in Conns, Subscribe(c) \/ ReplayPage(c) PROVE windows' = windows
    BY <2>2 DEF Subscribe, ReplayPage
  <2>3. ASSUME NEW c \in Conns, ReplaySend(c) PROVE windows' = windows
    BY <2>3 DEF ReplaySend
  <2>4. ASSUME NEW c \in Conns, Live(c) PROVE windows' = windows
    BY <2>4 DEF Live
  <2> QED BY <1>2, <2>1, <2>2, <2>3, <2>4 DEF ServerStep
<1>3. CASE ClientStep
  <2>1. ASSUME NEW c \in Conns, Connect(c) \/ OnGap(c) \/ OnClose(c)
        PROVE  windows' = windows
    BY <2>1 DEF Connect, OnGap, OnClose
  <2>2. ASSUME NEW c \in Conns, OnEvent(c) PROVE windows \subseteq windows'
    BY <2>2 DEF OnEvent
  <2>3. ASSUME NEW r \in recs, ReadRows(r) \/ ReadEvents(r) \/ EndRecovery(r)
        PROVE  windows' = windows
    BY <2>3 DEF ReadRows, ReadEvents, EndRecovery
  <2>4. ASSUME NEW r \in recs, ApplySnapshot(r) PROVE windows \subseteq windows'
    BY <2>4 DEF ApplySnapshot
  <2> QED BY <1>3, <2>1, <2>2, <2>3, <2>4 DEF ClientStep
<1>4. CASE Fault
  BY <1>4 DEF Fault, Lose, Restart, HeartbeatTimeout, ReadFails
<1>5. CASE User
  BY <1>5 DEF User, Bind, Select
<1>6. CASE UNCHANGED vars
  BY <1>6 DEF vars
<1> QED BY <1>1, <1>2, <1>3, <1>4, <1>5, <1>6 DEF Next

\* Inside the windows the client sees the oldest event it has not seen.
LEMMA OnEventSees ==
  ASSUME TypeOK, NoGap, windows = {}, windows' = {}, NEW c \in Conns, OnEvent(c)
  PROVE  Delivery!See \/ UNCHANGED <<log, cli>>
<1>1. conn[c].wire /= << >> /\ UNCHANGED log /\ cli.cursor \in Nat
  BY LogFacts DEF OnEvent, srvVars
<1>2. PICK i \in 0..MaxEvents :
        /\ i = Head(conn[c].wire).n /\ MaxEvents \in Nat
        /\ Head(conn[c].wire).t = "event" \/ i = 0
  BY <1>1, HeadFrame
<1>3. (i > cli.cursor /\ cli' = [cli EXCEPT !.cursor = i]) \/ cli' = cli
  BY <1>1, <1>2 DEF OnEvent
<1>4. CASE i > cli.cursor /\ cli' = [cli EXCEPT !.cursor = i]
  <2>1. cli'.cursor = i /\ cli.cursor < i /\ Head(conn[c].wire).t = "event"
    BY <1>1, <1>2, <1>4 DEF TypeOK
  <2>2. i \in Ours /\ \A x \in Ours : cli.cursor < x => i <= x
    BY <1>1, <1>2, <2>1, SeesNext
  <2>3. Delivery!Unseen = {x \in Ours : x > cli.cursor}
    BY DEF Delivery!Unseen, OfHome, Ours
  <2>4. i \in Delivery!Unseen /\ \A x \in Delivery!Unseen : i <= x
    BY <1>1, <1>4, <2>2, <2>3, LogFacts
  <2> QED BY <1>1, <2>1, <2>4 DEF Delivery!See
<1> QED BY <1>1, <1>3, <1>4

\* A snapshot stands for every event up to one the client has not seen.
LEMMA SnapshotResyncs ==
  ASSUME TypeOK, NoGap, windows = {}, windows' = {}, NEW r \in recs, ApplySnapshot(r)
  PROVE  Delivery!Resync \/ (log' = log /\ cli'.cursor = cli.cursor)
<1>1. PICK n \in 0..MaxEvents : n = SnapshotSequence(r)
  BY SnapshotFacts
<1>2. /\ cli' = [cli EXCEPT !.cursor = n]
      /\ n /= cli.cursor => n \in Ours /\ n > cli.cursor
  BY <1>1, Resyncs
<1>3. cli'.cursor = n /\ UNCHANGED log
  BY <1>1, <1>2 DEF TypeOK, ApplySnapshot, srvVars
<1>4. CASE n /= cli.cursor
  <2>1. n \in Delivery!Unseen
    BY <1>2, <1>4 DEF Delivery!Unseen, OfHome, Ours
  <2> QED BY <1>2, <1>3, <2>1 DEF Delivery!Resync
<1> QED BY <1>3, <1>4

\* What a step does to what the client has seen: an event is recorded, the
\* next one is seen, a snapshot stands for some, or one of the windows is hit.
LEMMA StepDelivers ==
  ASSUME IInv, [Next]_vars
  PROVE  [Delivery!Next]_(Delivery!vars)
<1>1. CASE windows' /= {}
  BY <1>1 DEF Delivery!Next, Delivery!Void
<1>2. CASE windows' = {}
  <2>1. TypeOK /\ NoGap /\ windows = {}
    <3>1. windows = {}
      BY <1>2, WindowsStay
    <3> QED BY <3>1 DEF IInv, Free
  <2>2. ASSUME log' = log, cli'.cursor = cli.cursor PROVE UNCHANGED Delivery!vars
    BY <1>2, <2>1, <2>2 DEF Delivery!vars
  <2>3. CASE Record
    <3>1. \E e \in Events : log' = Append(log, e)
      BY <2>3 DEF Record, Emit
    <3>2. UNCHANGED cli
      BY <2>3 DEF Record, Emit
    <3> QED BY <1>2, <2>1, <3>1, <3>2 DEF Delivery!Next, Delivery!Record
  <2>4. CASE ServerStep
    <3>1. log' = log /\ cli' = cli
      <4>1. CASE Publish
        BY <4>1 DEF Publish
      <4>2. ASSUME NEW c \in Conns, Subscribe(c) \/ ReplayPage(c)
            PROVE  log' = log /\ cli' = cli
        BY <4>2 DEF Subscribe, ReplayPage, srvVars
      <4>3. ASSUME NEW c \in Conns, ReplaySend(c) PROVE log' = log /\ cli' = cli
        BY <4>3 DEF ReplaySend, srvVars
      <4>4. ASSUME NEW c \in Conns, Live(c) PROVE log' = log /\ cli' = cli
        BY <4>4 DEF Live, srvVars
      <4> QED BY <2>4, <4>1, <4>2, <4>3, <4>4 DEF ServerStep
    <3>2. cli'.cursor = cli.cursor
      BY <3>1
    <3> QED BY <2>2, <3>1, <3>2
  <2>5. CASE ClientStep
    <3>1. ASSUME NEW c \in Conns, Connect(c) \/ OnGap(c) \/ OnClose(c)
          PROVE  log' = log /\ cli'.cursor = cli.cursor
      <4>1. log' = log
        BY <3>1 DEF Connect, OnGap, OnClose, srvVars
      <4>2. \/ cli' = cli \/ cli' = [cli EXCEPT !.cur = c]
            \/ cli' = [cli EXCEPT !.cur = None]
        BY <3>1 DEF Connect, OnGap, OnClose
      <4> QED BY <2>1, <4>1, <4>2 DEF TypeOK
    <3>2. ASSUME NEW c \in Conns, OnEvent(c)
          PROVE  Delivery!See \/ (log' = log /\ cli'.cursor = cli.cursor)
      BY <1>2, <2>1, <3>2, OnEventSees
    <3>3. ASSUME NEW r \in recs, ReadRows(r) \/ ReadEvents(r) \/ EndRecovery(r)
          PROVE  log' = log /\ cli'.cursor = cli.cursor
      <4>1. log' = log
        BY <3>3 DEF ReadRows, ReadEvents, EndRecovery, srvVars
      <4>2. cli' = cli \/ cli' = [cli EXCEPT !.cur = None]
        BY <3>3 DEF ReadRows, ReadEvents, EndRecovery, Recovered
      <4> QED BY <2>1, <4>1, <4>2 DEF TypeOK
    <3>4. ASSUME NEW r \in recs, ApplySnapshot(r)
          PROVE  Delivery!Resync \/ (log' = log /\ cli'.cursor = cli.cursor)
      BY <1>2, <2>1, <3>4, SnapshotResyncs
    <3> QED BY <2>2, <2>5, <3>1, <3>2, <3>3, <3>4 DEF ClientStep, Delivery!Next
  <2>6. CASE Fault
    <3>1. log' = log
      BY <2>6 DEF Fault, Lose, Restart, HeartbeatTimeout, ReadFails, srvVars
    <3>2. cli' = cli \/ cli' = [cli EXCEPT !.cur = None]
      BY <2>6 DEF Fault, Lose, Restart, HeartbeatTimeout, ReadFails, Recovered
    <3>3. cli'.cursor = cli.cursor
      BY <2>1, <3>2 DEF TypeOK
    <3> QED BY <2>2, <3>1, <3>3
  <2>7. CASE User
    <3>1. windows' /= {}
      BY <2>7 DEF User, Bind, Select
    <3> QED BY <1>2, <3>1
  <2>8. CASE UNCHANGED vars
    BY <2>2, <2>8 DEF vars
  <2> QED BY <2>3, <2>4, <2>5, <2>6, <2>7, <2>8 DEF Next
<1> QED BY <1>1, <1>2

\* The control plane's stream and the CLI's synchronizer deliver the events of
\* the session in order, each one or a snapshot in its place, until a window
\* is hit (DeliversInOrder without its liveness).
THEOREM DeliveryIsOrdered == Spec => Delivery!Ordered
<1>1. Init => Delivery!Init
  BY DEF Init, Delivery!Init
<1>2. IInv /\ [Next]_vars => [Delivery!Next]_(Delivery!vars)
  BY StepDelivers
<1> QED BY <1>1, <1>2, StreamInvariant, PTL DEF Spec, Delivery!Ordered
=============================================================================
