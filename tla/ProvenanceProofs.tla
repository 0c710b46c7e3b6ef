-------------------------- MODULE ProvenanceProofs --------------------------
(***************************************************************************)
(* Proofs about Provenance and LogPipeline, for every value of their       *)
(* constants.                                                              *)
(*                                                                         *)
(* Provenance: KnowledgeHolds and HistoryIsKept for any number of          *)
(* memories.  Between the two commits of a confirmation the state          *)
(* invariants do not hold as they stand; IInv says what the candidate      *)
(* under way still owes.  What the queries of the store return is a        *)
(* matter of finite ordered sets: the first n are at most n, and there is  *)
(* a first.                                                                *)
(*                                                                         *)
(* LogPipeline: LinesKept and SocketSeesAll.  LogInv says where each       *)
(* promised line is that the store does not hold yet: earlier on the same  *)
(* way from the source to the table.  The same facts about ordered sets    *)
(* give the sequences of a batch, the pages of a replay and the            *)
(* subscriptions a restart starts.                                         *)
(***************************************************************************)
EXTENDS Provenance, LogPipeline, FiniteSetTheorems, SequenceTheorems, WellFoundedInduction, TLAPS


-----------------------------------------------------------------------------
(* The inductive invariant. *)

\* The table holds finitely many rows.
Table == {i \in Id : mem[i] # NoRow}

\* An identity is only ever listed for its own run, and what an extraction was
\* offered the run still owns.
EvidenceKept ==
  /\ \A r \in Run, p \in Project : ev[<<r, p>>] \in {None, r}
  /\ \A r \in Run : offered[r] \subseteq owned[r]
  /\ EvidenceIsOwn

\* The extraction under way has a run, and between its two commits a candidate
\* that survived for it.
JobKnown ==
  /\ job \in [run : Run \cup {None}, pc : {"idle", "next", "insert"},
             left : 0..MaxBatch, cand : Candidate \cup {None}]
  /\ IF job.pc = "idle" THEN job = NoJob ELSE job.run \in Run
  /\ job.pc = "insert" =>
       /\ job.left > 0 /\ job.cand \in Candidate /\ Survives(job.cand, offered[job.run])
       /\ Through({"claimed"}) \/ job.cand.source \in {None, job.run}

Pending(p, f) == job.pc = "insert" /\ ProjectOf(job.run) = p /\ job.cand.fact = f

\* Between the commits the fact that is confirmed is the only one that may be
\* missing, and no active row has it.
OnlyPendingMissing ==
  /\ ~Through({"reused", "torn"}) =>
       \A l \in learned : Pending(l[1], l[2]) \/ \E i \in Active(l[1]) : mem[i].fact = l[2]
  /\ ~Through({"overflow"}) =>
       \A p \in Project, f \in Fact : Pending(p, f) => \A i \in Active(p) : mem[i].fact # f

Typed == TypeOK /\ JobKnown /\ IsFiniteSet(Table)
IInv  == Typed /\ EvidenceKept /\ OneActivePerFact /\ OnlyPendingMissing /\ ProvenanceHolds

-----------------------------------------------------------------------------
(* Orders on finite sets. *)

\* A set of numbers that is not empty has a least one.
LEMMA Least ==
  ASSUME NEW T \in SUBSET Nat, T # {}
  PROVE  \E x \in T : \A y \in T : x <= y
<1>1. PICK R : R = {ss \in Nat \X Nat : ss[1] < ss[2]}
  OBVIOUS
<1>2. IsWellFoundedOn(R, Nat)
  BY <1>1, NatLessThanWellFounded DEF OpToRel
<1>3. \A x, y \in Nat : y < x => <<y, x>> \in R
  BY <1>1
<1>4. PICK x \in T : \A y \in T : ~(<<y, x>> \in R)
  BY <1>2, WFMin
<1>5. ASSUME NEW y \in T PROVE x <= y
  <2>1. x \in Nat /\ y \in Nat
    OBVIOUS
  <2>2. ~(<<y, x>> \in R)
    BY <1>4
  <2>3. ~(y < x)
    BY <1>3, <2>1, <2>2
  <2> QED BY <2>1, <2>3
<1> QED BY <1>5

\* The members of S that come before i in R, and the first n of S.
Before(S, R, i) == {j \in S : <<j, i>> \in R}
First(S, R, n)  == {i \in S : Cardinality(Before(S, R, i)) < n}

\* R puts the members of S in one order.
Orders(R, S) ==
  /\ \A i \in S : <<i, i>> \notin R
  /\ \A i, j, k \in S : <<i, j>> \in R /\ <<j, k>> \in R => <<i, k>> \in R
  /\ \A i, j \in S : i # j => <<i, j>> \in R \/ <<j, i>> \in R

\* Who comes before another has fewer before it.
LEMMA FewerBefore ==
  ASSUME NEW S, NEW R, IsFiniteSet(S), Orders(R, S)
  PROVE  /\ \A i \in S : IsFiniteSet(Before(S, R, i)) /\ Cardinality(Before(S, R, i)) \in Nat
                         /\ Cardinality(Before(S, R, i)) < Cardinality(S)
         /\ \A i, j \in S : <<i, j>> \in R => Cardinality(Before(S, R, i)) < Cardinality(Before(S, R, j))
<1>1. ASSUME NEW A, IsFiniteSet(A), NEW B \in SUBSET A, NEW x \in A, x \notin B
      PROVE  IsFiniteSet(B) /\ Cardinality(B) \in Nat /\ Cardinality(B) < Cardinality(A)
  <2>1. IsFiniteSet(B) /\ Cardinality(B) <= Cardinality(A) /\ (Cardinality(A) = Cardinality(B) => A = B)
    BY <1>1, FS_Subset
  <2>2. Cardinality(A) \in Nat /\ Cardinality(B) \in Nat
    BY <1>1, <2>1, FS_CardinalityType
  <2> QED BY <1>1, <2>1, <2>2
<1>2. ASSUME NEW i \in S
      PROVE  /\ IsFiniteSet(Before(S, R, i)) /\ Cardinality(Before(S, R, i)) \in Nat
             /\ Cardinality(Before(S, R, i)) < Cardinality(S)
  <2>1. Before(S, R, i) \in SUBSET S /\ i \notin Before(S, R, i)
    BY DEF Before, Orders
  <2> QED BY <1>1, <2>1
<1>3. ASSUME NEW i \in S, NEW j \in S, <<i, j>> \in R
      PROVE  Cardinality(Before(S, R, i)) < Cardinality(Before(S, R, j))
  <2>1. Before(S, R, i) \in SUBSET Before(S, R, j) /\ i \in Before(S, R, j) /\ i \notin Before(S, R, i)
    BY <1>3 DEF Before, Orders
  <2> QED BY <1>1, <1>2, <2>1
<1> QED BY <1>2, <1>3

\* The first n are at most n, and all when there are no more.
LEMMA FirstAreFew ==
  ASSUME NEW S, NEW R, IsFiniteSet(S), Orders(R, S), NEW n \in Nat
  PROVE  /\ IsFiniteSet(First(S, R, n)) /\ Cardinality(First(S, R, n)) <= n
         /\ Cardinality(S) <= n => First(S, R, n) = S
<1> DEFINE F == First(S, R, n)
           place == [i \in F |-> Cardinality(Before(S, R, i))]
<1>1. F \in SUBSET S
  BY DEF First
<1>2. place \in [F -> 0..n - 1]
  BY <1>1, FewerBefore DEF First
<1>3. ASSUME NEW i \in F, NEW j \in F, place[i] = place[j]
      PROVE  i = j
  <2>1. place[i] \in Nat /\ place[j] \in Nat
    BY <1>2
  <2>2. <<i, j>> \notin R /\ <<j, i>> \notin R
    BY <1>1, <1>3, <2>1, FewerBefore
  <2> QED BY <1>1, <2>2 DEF Orders
<1>4. place \in Injection(F, 0..n - 1)
  BY <1>2, <1>3 DEF Injection, IsInjective
<1>5. IsFiniteSet(0..n - 1) /\ Cardinality(0..n - 1) = n
  BY FS_Interval
<1>6. IsFiniteSet(F) /\ Cardinality(F) <= n
  BY <1>4, <1>5, FS_Injection
<1>7. ASSUME Cardinality(S) <= n
      PROVE  F = S
  <2>1. Cardinality(S) \in Nat
    BY FS_CardinalityType
  <2> QED BY <1>7, <2>1, FewerBefore DEF First
<1> QED BY <1>6, <1>7

\* A finite set has a member that comes first, and it is among the first n.
LEMMA HasFirst ==
  ASSUME NEW S, NEW R, IsFiniteSet(S), Orders(R, S), S # {}
  PROVE  \E i \in S : /\ \A j \in S : <<j, i>> \notin R
                      /\ \A n \in Nat \ {0} : i \in First(S, R, n)
<1> DEFINE T == {Cardinality(Before(S, R, i)) : i \in S}
<1>1. T \in SUBSET Nat /\ T # {}
  BY FewerBefore
<1>2. PICK x \in T : \A y \in T : x <= y
  BY <1>1, Least
<1>3. PICK i \in S : x = Cardinality(Before(S, R, i))
  OBVIOUS
<1>4. \A j \in S : <<j, i>> \notin R
  <2> SUFFICES ASSUME NEW j \in S, <<j, i>> \in R PROVE FALSE
    OBVIOUS
  <2>1. Cardinality(Before(S, R, j)) < x /\ Cardinality(Before(S, R, j)) \in Nat /\ x \in Nat
    BY <1>3, FewerBefore
  <2>2. x <= Cardinality(Before(S, R, j))
    BY <1>2
  <2> QED BY <2>1, <2>2
<1>5. Cardinality(Before(S, R, i)) = 0
  <2>1. Before(S, R, i) = {}
    BY <1>4 DEF Before
  <2> QED BY <2>1, FS_EmptySet
<1>6. \A n \in Nat \ {0} : i \in First(S, R, n)
  BY <1>5 DEF First
<1> QED BY <1>4, <1>6

-----------------------------------------------------------------------------
(* The parts, step by step.  What an action leaves alone, its part keeps. *)

LEMMA JobNone == NoJob \in [run : Run \cup {None}, pc : {"idle", "next", "insert"},
                            left : 0..MaxBatch, cand : Candidate \cup {None}]
BY ProvenanceBounds DEF NoJob

LEMMA KeysAreKeys ==
  ASSUME NEW r \in Run
  PROVE  /\ ProjectOf(r) \in Project /\ IncidentOf(r) = r /\ r # None
         /\ KeyOf(r, ProjectOf(r)) \in Key /\ KeyOf(None, "P") \in Key
         /\ \A p \in Project : <<r, p>> \in Key /\ <<r, p>> # KeyOf(None, "P")
BY ProvenanceNone DEF ProjectOf, IncidentOf, Project, Key, KeyOf

\* Nothing listed is ever listed elsewhere.
LEMMA CreatedKeeps ==
  ASSUME TypeOK, NEW k \in Key, NEW r \in Run, ev' = Created(k, r)
  PROVE  /\ ev' \in [Key -> Run \cup {None}]
         /\ \A q \in Key : ev[q] # None => ev'[q] = ev[q]
         /\ \A q \in Key : q # k => ev'[q] = ev[q]
         /\ ev'[k] = IF ev[k] = None THEN r ELSE ev[k]
BY DEF TypeOK, Created

LEMMA PersistKeeps ==
  ASSUME TypeOK, EvidenceKept, NEW r \in Run, Persist(r)
  PROVE  TypeOK' /\ EvidenceKept' /\ \A q \in Run : owned[q] \subseteq owned'[q]
<1> DEFINE k == KeyOf(r, ProjectOf(r))
<1>1. k \in Key /\ r # None /\ IncidentOf(r) = r /\ k = <<r, ProjectOf(r)>> /\ ProjectOf(r) \in Project
  BY KeysAreKeys DEF KeyOf
<1>2. ev' = Created(k, r) /\ owned' = [owned EXCEPT ![r] = owned[r] \cup {k}]
  BY <1>1 DEF Persist
<1> HIDE DEF k
<1>3. /\ ev' \in [Key -> Run \cup {None}]
      /\ \A q \in Key : ev[q] # None => ev'[q] = ev[q]
      /\ \A q \in Key : q # k => ev'[q] = ev[q]
      /\ ev'[k] = IF ev[k] = None THEN r ELSE ev[k]
  BY <1>1, <1>2, CreatedKeeps
<1>4. ev[k] \in {None, r} /\ ev'[k] = r
  BY <1>1, <1>3 DEF EvidenceKept
<1>5. /\ owned' \in [Run -> SUBSET Key] /\ owned'[r] = owned[r] \cup {k}
      /\ \A q \in Run : q # r => owned'[q] = owned[q]
  BY <1>1, <1>2 DEF TypeOK
<1>6. TypeOK'
  BY <1>3, <1>5 DEF TypeOK, Persist, memory
<1>7. \A q \in Run, p \in Project : ev'[<<q, p>>] \in {None, q}
  <2> TAKE q \in Run, p \in Project
  <2>1. <<q, p>> \in Key
    BY KeysAreKeys
  <2>2. CASE <<q, p>> = k
    BY <1>1, <1>4, <2>2
  <2>3. CASE <<q, p>> # k
    BY <1>3, <2>1, <2>3 DEF EvidenceKept
  <2> QED BY <2>2, <2>3
<1>8. \A q \in Run : offered'[q] \subseteq owned'[q]
  BY <1>5 DEF Persist, EvidenceKept
<1>9. ASSUME NEW q \in Run, NEW j \in owned'[q]
      PROVE  j \in Key /\ ev'[j] = q
  <2>1. CASE j \in owned[q]
    BY <1>3, <2>1, KeysAreKeys DEF EvidenceKept, EvidenceIsOwn, Listed, TypeOK
  <2>2. CASE j \notin owned[q]
    BY <1>1, <1>4, <1>5, <1>9, <2>2
  <2> QED BY <2>1, <2>2
<1>10. ASSUME NEW q \in Run, ~Through({"shared"}), NEW j \in cited[q]
       PROVE  j \in Key /\ ev'[j] = q
  BY <1>3, <1>10, KeysAreKeys DEF EvidenceKept, EvidenceIsOwn, Listed, TypeOK
<1>11. EvidenceIsOwn'
  BY <1>9, <1>10, KeysAreKeys DEF EvidenceIsOwn, Listed, Persist, Through
<1> QED BY <1>5, <1>6, <1>7, <1>8, <1>11 DEF EvidenceKept

LEMMA CiteKeeps ==
  ASSUME TypeOK, EvidenceKept, NEW r \in Run, CiteLogRecord(r)
  PROVE  TypeOK' /\ EvidenceKept' /\ UNCHANGED owned
<1> DEFINE k == KeyOf(None, "P")
<1>1. /\ k \in Key /\ r # None /\ IncidentOf(r) = r
      /\ \A q \in Run, p \in Project : <<q, p>> \in Key /\ <<q, p>> # k
  BY KeysAreKeys
<1>2. /\ ev' = Created(k, r) /\ cited' = [cited EXCEPT ![r] = cited[r] \cup {k}]
      /\ UNCHANGED <<owned, offered, run, memory, crashes>>
      /\ windows \subseteq windows' /\ (ev[k] \notin {None, r} => "shared" \in windows')
  BY <1>1 DEF CiteLogRecord, CreatedFromLog
<1> HIDE DEF k
<1>3. /\ ev' \in [Key -> Run \cup {None}]
      /\ \A q \in Key : ev[q] # None => ev'[q] = ev[q]
      /\ \A q \in Key : q # k => ev'[q] = ev[q]
      /\ ev'[k] = IF ev[k] = None THEN r ELSE ev[k]
  BY <1>1, <1>2, CreatedKeeps
<1>4. /\ cited' \in [Run -> SUBSET Key] /\ cited'[r] = cited[r] \cup {k}
      /\ \A q \in Run : q # r => cited'[q] = cited[q]
  BY <1>1, <1>2 DEF TypeOK
<1>5. TypeOK'
  BY <1>2, <1>3, <1>4 DEF TypeOK, memory
<1>6. \A q \in Run, p \in Project : ev'[<<q, p>>] \in {None, q}
  BY <1>1, <1>3 DEF EvidenceKept
<1>7. ASSUME NEW q \in Run, NEW j \in owned[q]
      PROVE  j \in Key /\ ev'[j] = q
  BY <1>3, KeysAreKeys DEF EvidenceKept, EvidenceIsOwn, Listed, TypeOK
<1>8. ASSUME NEW q \in Run, ~Through({"shared"})', NEW j \in cited'[q]
      PROVE  j \in Key /\ ev'[j] = q
  <2>1. "shared" \notin windows'
    BY <1>8 DEF Through
  <2>2. ev[k] \in {None, r} /\ "shared" \notin windows
    BY <1>2, <2>1
  <2>3. ~Through({"shared"})
    BY <2>2 DEF Through
  <2>4. CASE j \in cited[q]
    BY <1>3, <2>3, <2>4, KeysAreKeys DEF EvidenceKept, EvidenceIsOwn, Listed, TypeOK
  <2>5. CASE j \notin cited[q]
    BY <1>1, <1>3, <1>4, <1>8, <2>2, <2>5
  <2> QED BY <2>4, <2>5
<1>9. EvidenceIsOwn'
  BY <1>2, <1>7, <1>8, KeysAreKeys DEF EvidenceIsOwn, Listed
<1> QED BY <1>2, <1>5, <1>6, <1>9 DEF EvidenceKept

-----------------------------------------------------------------------------
(* The store's queries. *)

\* Rows in the order that list_active gives them, as a relation.
SoonerIn(S) == {ij \in S \X S : Sooner(ij[1], ij[2])}

LEMMA ActiveIsStored ==
  ASSUME Typed, NEW p \in Project
  PROVE  /\ Active(p) \in SUBSET Id /\ Active(p) \in SUBSET Nat /\ IsFiniteSet(Active(p))
         /\ \A i \in Active(p) : mem[i] \in Row /\ mem[i].at \in Nat
<1>1. Active(p) \in SUBSET Table
  BY DEF Active, Table, NoRow
<1>2. IsFiniteSet(Active(p))
  BY <1>1, FS_Subset DEF Typed
<1>3. \A i \in Table : mem[i] \in Row
  BY DEF Typed, TypeOK, Table
<1> QED BY <1>1, <1>2, <1>3, ProvenanceBounds DEF Table, Row

LEMMA SoonerOrders ==
  ASSUME Typed, NEW S \in SUBSET Nat, \A i \in S : mem[i].at \in Nat
  PROVE  Orders(SoonerIn(S), S)
<1>1. \A i, j \in S : <<i, j>> \in SoonerIn(S)
        <=> mem[i].at > mem[j].at \/ (mem[i].at = mem[j].at /\ i < j)
  BY DEF SoonerIn, Sooner
<1>2. \A i \in S : <<i, i>> \notin SoonerIn(S)
  BY <1>1
<1>3. ASSUME NEW i \in S, NEW j \in S, NEW k \in S, <<i, j>> \in SoonerIn(S), <<j, k>> \in SoonerIn(S)
      PROVE  <<i, k>> \in SoonerIn(S)
  BY <1>1, <1>3
<1>4. ASSUME NEW i \in S, NEW j \in S, i # j
      PROVE  <<i, j>> \in SoonerIn(S) \/ <<j, i>> \in SoonerIn(S)
  BY <1>1, <1>4
<1> QED BY <1>2, <1>3, <1>4 DEF Orders

\* What list_active returns: no more than it is asked for, and all when they fit.
LEMMA NewestAreFirst ==
  ASSUME Typed, NEW p \in Project, NEW n \in Nat
  PROVE  /\ Newest(p, n) \in SUBSET Active(p) /\ IsFiniteSet(Newest(p, n))
         /\ Cardinality(Newest(p, n)) <= n
         /\ Cardinality(Active(p)) <= n => Newest(p, n) = Active(p)
<1> DEFINE A == Active(p)
           R == SoonerIn(A)
<1>1. A \in SUBSET Nat /\ IsFiniteSet(A) /\ Orders(R, A)
  BY ActiveIsStored, SoonerOrders
<1>2. \A i \in A : Before(A, R, i) = {j \in A : Sooner(j, i)}
  BY DEF Before, SoonerIn
<1>3. Newest(p, n) = First(A, R, n)
  BY <1>2 DEF Newest, First
<1>4. First(A, R, n) \in SUBSET A
  BY DEF First
<1> HIDE DEF A, R
<1>5. /\ IsFiniteSet(First(A, R, n)) /\ Cardinality(First(A, R, n)) <= n
      /\ Cardinality(A) <= n => First(A, R, n) = A
  BY <1>1, FirstAreFew
<1> QED BY <1>3, <1>4, <1>5 DEF A

\* _find_active_duplicate finds one when the search returns any.
LEMMA LatestDuplicate ==
  ASSUME Typed, NEW p \in Project, NEW f \in Fact, Duplicates(p, f) # {}
  PROVE  \E i \in Duplicates(p, f) : \A j \in Duplicates(p, f) : ~Sooner(j, i)
<1> DEFINE D == Duplicates(p, f)
<1>1. D \in SUBSET Newest(p, Rank) /\ Newest(p, Rank) \in SUBSET Active(p) /\ IsFiniteSet(Newest(p, Rank))
  BY NewestAreFirst, ProvenanceBounds DEF Duplicates
<1>2. D \in SUBSET Nat /\ IsFiniteSet(D) /\ \A i \in D : mem[i].at \in Nat
  BY <1>1, ActiveIsStored, FS_Subset
<1> HIDE DEF D
<1>3. Orders(SoonerIn(D), D)
  BY <1>2, SoonerOrders
<1>4. PICK i \in D : \A j \in D : <<j, i>> \notin SoonerIn(D)
  BY <1>2, <1>3, HasFirst DEF D
<1> QED BY <1>4 DEF D, SoonerIn

-----------------------------------------------------------------------------
(* Extractions. *)

\* The chosen duplicate is superseded, and nothing else in the table changes.
LEMMA AdmitStep ==
  ASSUME IInv, NEW c \in Candidate, Admit(c)
  PROVE  /\ job.run \in Run /\ job.pc = "next" /\ job.left > 0
         /\ ProjectOf(job.run) \in Project /\ Survives(c, offered[job.run])
         /\ UNCHANGED <<evidence, run, clock, learned, crashes>> /\ windows \subseteq windows'
         /\ job' = [job EXCEPT !.pc = "insert", !.cand = c]
         /\ c.source \notin {None, job.run} => "claimed" \in windows'
         /\ (\E i \in Active(ProjectOf(job.run)) \ Newest(ProjectOf(job.run), Rank) : mem[i].fact = c.fact)
              => "overflow" \in windows'
         /\ \/ Duplicates(ProjectOf(job.run), c.fact) = {} /\ UNCHANGED mem
            \/ \E i \in Duplicates(ProjectOf(job.run), c.fact) : mem' = Superseded(i)
<1> DEFINE p == ProjectOf(job.run)
           D == Duplicates(p, c.fact)
<1>1. job.pc = "next" /\ job.run \in Run /\ p \in Project /\ c.fact \in Fact
  BY KeysAreKeys DEF Admit, IInv, Typed, JobKnown, Candidate
<1>2. D # {} => \E i \in D : \A j \in D : ~Sooner(j, i)
  BY <1>1, LatestDuplicate DEF IInv
<1>3. mem' = IF D = {} THEN mem ELSE Superseded(CHOOSE i \in D : \A j \in D : ~Sooner(j, i))
  BY DEF Admit
<1> HIDE DEF D
<1>4. \/ D = {} /\ UNCHANGED mem
      \/ \E i \in D : mem' = Superseded(i)
  BY <1>2, <1>3
<1> QED BY <1>1, <1>4 DEF D, Admit

\* Rows in the table stay there, and superseding one changes its status alone.
LEMMA SupersededRow ==
  ASSUME Typed, NEW p \in Project, NEW x \in Active(p), mem' = Superseded(x)
  PROVE  /\ mem' \in [Id -> Row \cup {NoRow}] /\ Table' = Table
         /\ mem[x] \in Row /\ mem'[x] = [mem[x] EXCEPT !.status = "superseded"]
         /\ \A i \in Id : i # x => mem'[i] = mem[i]
         /\ \A q \in Project : Active(q)' = Active(q) \ {x}
<1>1. x \in Id /\ mem[x] \in Row /\ mem[x].status = "active"
  BY ActiveIsStored DEF Active
<1>2. /\ mem'[x] = [mem[x] EXCEPT !.status = "superseded"]
      /\ \A i \in Id : i # x => mem'[i] = mem[i]
  BY <1>1 DEF Superseded, Typed, TypeOK
<1>3. mem'[x] \in Row /\ mem'[x].status = "superseded" /\ mem[x] # NoRow /\ mem'[x] # NoRow
  BY <1>1, <1>2 DEF Row, NoRow
<1>4. mem' \in [Id -> Row \cup {NoRow}]
  BY <1>1, <1>3 DEF Superseded, Typed, TypeOK
<1>5. Table' = Table
  BY <1>2, <1>3 DEF Table
<1>6. \A q \in Project : Active(q)' = Active(q) \ {x}
  BY <1>2, <1>3 DEF Active
<1> QED BY <1>1, <1>2, <1>4, <1>5, <1>6

LEMMA AdmitTyped ==
  ASSUME IInv, NEW c \in Candidate, Admit(c)
  PROVE  /\ TypeOK' /\ JobKnown' /\ IsFiniteSet(Table)'
<1> USE DEF IInv, Typed
<1> DEFINE r == job.run
           p == ProjectOf(r)
<1>1. /\ r \in Run /\ job.pc = "next" /\ job.left > 0 /\ p \in Project /\ Survives(c, offered[r])
      /\ UNCHANGED <<evidence, run, clock, learned, crashes>> /\ windows \subseteq windows'
      /\ job' = [job EXCEPT !.pc = "insert", !.cand = c]
      /\ c.source \notin {None, job.run} => "claimed" \in windows'
      /\ \/ Duplicates(p, c.fact) = {} /\ UNCHANGED mem
         \/ \E i \in Duplicates(p, c.fact) : mem' = Superseded(i)
  BY AdmitStep
<1>2. Duplicates(p, c.fact) \in SUBSET Active(p)
  BY <1>1, NewestAreFirst, ProvenanceBounds DEF Duplicates
<1> HIDE DEF p
<1>3. mem' \in [Id -> Row \cup {NoRow}] /\ Table' = Table
  <2>1. CASE UNCHANGED mem
    BY <2>1 DEF TypeOK, Table
  <2>2. CASE \E i \in Duplicates(p, c.fact) : mem' = Superseded(i)
    BY <1>1, <1>2, <2>2, SupersededRow
  <2> QED BY <1>1, <2>1, <2>2
<1>4. job' \in [run : Run \cup {None}, pc : {"idle", "next", "insert"},
                left : 0..MaxBatch, cand : Candidate \cup {None}]
      /\ job'.run = r /\ job'.pc = "insert" /\ job'.left = job.left /\ job'.cand = c
  BY <1>1 DEF JobKnown
<1>5. TypeOK'
  BY <1>1, <1>3, <1>4 DEF TypeOK, evidence
<1>6. Through({"claimed"})' \/ c.source \in {None, r}
  BY <1>1 DEF Through
<1>7. JobKnown'
  BY <1>1, <1>4, <1>6 DEF JobKnown, evidence
<1> QED BY <1>3, <1>5, <1>7

LEMMA AdmitKeeps ==
  ASSUME IInv, NEW c \in Candidate, Admit(c)
  PROVE  OneActivePerFact' /\ OnlyPendingMissing' /\ ProvenanceHolds'
<1> USE DEF IInv, Typed
<1>0. PICK r \in Run, p \in Project : r = job.run /\ p = ProjectOf(r)
  BY AdmitStep
<1> DEFINE N == Newest(p, Rank)
<1>1. /\ r \in Run /\ job.pc = "next" /\ p \in Project /\ c.fact \in Fact
      /\ UNCHANGED <<evidence, run, clock, learned, crashes>> /\ windows \subseteq windows'
      /\ job' = [job EXCEPT !.pc = "insert", !.cand = c]
      /\ (\E i \in Active(p) \ N : mem[i].fact = c.fact) => "overflow" \in windows'
      /\ \/ Duplicates(p, c.fact) = {} /\ UNCHANGED mem
         \/ \E i \in Duplicates(p, c.fact) : mem' = Superseded(i)
  BY <1>0, AdmitStep DEF Candidate
<1>2. N \in SUBSET Active(p) /\ Duplicates(p, c.fact) = {i \in N : mem[i].fact = c.fact}
  BY <1>1, NewestAreFirst, ProvenanceBounds DEF Duplicates
<1>3. job'.run = r /\ job'.pc = "insert" /\ job'.cand = c
  BY <1>0, <1>1 DEF JobKnown
<1> HIDE DEF N
<1>4. ASSUME UNCHANGED mem, Duplicates(p, c.fact) = {}
      PROVE  OneActivePerFact' /\ OnlyPendingMissing' /\ ProvenanceHolds'
  <2>1. \A q \in Project : Active(q)' = Active(q)
    BY <1>4 DEF Active
  <2>2. OneActivePerFact'
    BY <1>1, <1>4, <2>1 DEF OneActivePerFact, Through
  <2>3. \A q, f : Pending(q, f) => FALSE
    BY <1>1 DEF Pending
  <2>4. \A q, f : Pending(q, f)' => q = p /\ f = c.fact
    BY <1>0, <1>3 DEF Pending
  <2>5. ~Through({"reused", "torn"})' =>
         \A l \in learned' : Pending(l[1], l[2])' \/ \E i \in Active(l[1])' : mem'[i].fact = l[2]
    <3> SUFFICES ASSUME ~Through({"reused", "torn"})', NEW l \in learned
                 PROVE  \E i \in Active(l[1])' : mem'[i].fact = l[2]
      BY <1>1
    <3>1. ~Through({"reused", "torn"}) /\ l[1] \in Project
      BY <1>1 DEF Through, TypeOK
    <3>2. PICK i \in Active(l[1]) : mem[i].fact = l[2]
      BY <2>3, <3>1 DEF OnlyPendingMissing
    <3> QED BY <1>4, <2>1, <3>1, <3>2
  <2>6. ~Through({"overflow"})' =>
         \A q \in Project, f \in Fact : Pending(q, f)' => \A i \in Active(q)' : mem'[i].fact # f
    <3> SUFFICES ASSUME ~Through({"overflow"})', NEW i \in Active(p), mem[i].fact = c.fact
                 PROVE  FALSE
      BY <1>1, <1>4, <2>1, <2>4
    <3>1. i \in N
      BY <1>1 DEF Through
    <3> QED BY <1>2, <1>4, <3>1
  <2>7. ProvenanceHolds'
    BY <1>1, <1>4 DEF ProvenanceHolds, Through, evidence
  <2> QED BY <2>2, <2>5, <2>6, <2>7 DEF OnlyPendingMissing
<1>5. ASSUME NEW x \in Duplicates(p, c.fact), mem' = Superseded(x)
      PROVE  OneActivePerFact' /\ OnlyPendingMissing' /\ ProvenanceHolds'
  <2>0. x \in Active(p) /\ mem[x].fact = c.fact
    BY <1>2, <1>5
  <2>1. /\ mem[x] \in Row /\ mem'[x] = [mem[x] EXCEPT !.status = "superseded"]
        /\ x \in Id /\ \A i \in Id : i # x => mem'[i] = mem[i]
        /\ \A q \in Project : Active(q)' = Active(q) \ {x}
        /\ Table' = Table
    BY <1>1, <1>5, <2>0, SupersededRow DEF Active
  <2>2. \A i \in Id : /\ mem'[i].fact = mem[i].fact /\ mem'[i].source = mem[i].source
                      /\ mem'[i].cites = mem[i].cites /\ mem'[i].project = mem[i].project
    BY <2>1 DEF Row
  <2>3. \A q \in Project : Active(q) \in SUBSET Id
    BY DEF Active
  <2>4. OneActivePerFact'
    <3> SUFFICES ASSUME ~Through({"overflow"})', NEW q \in Project, NEW i \in Active(q)', NEW j \in Active(q)',
                        mem'[i].fact = mem'[j].fact
                 PROVE  i = j
      BY DEF OneActivePerFact
    <3>1. ~Through({"overflow"})
      BY <1>1 DEF Through
    <3>2. i \in Active(q) /\ j \in Active(q) /\ mem[i].fact = mem[j].fact
      BY <2>1, <2>2, <2>3
    <3> QED BY <3>1, <3>2 DEF OneActivePerFact
  <2>5. ~Through({"reused", "torn"})' =>
         \A l \in learned' : Pending(l[1], l[2])' \/ \E i \in Active(l[1])' : mem'[i].fact = l[2]
    <3> SUFFICES ASSUME ~Through({"reused", "torn"})', NEW l \in learned, ~Pending(l[1], l[2])'
                 PROVE  \E i \in Active(l[1])' : mem'[i].fact = l[2]
      BY <1>1
    <3>1. ~Through({"reused", "torn"}) /\ l[1] \in Project
      BY <1>1 DEF Through, TypeOK
    <3>2. PICK i \in Active(l[1]) : mem[i].fact = l[2]
      BY <1>1, <3>1 DEF OnlyPendingMissing, Pending
    <3>3. l[1] # p \/ l[2] # c.fact
      BY <1>0, <1>3 DEF Pending
    <3>4. i # x
      BY <2>0, <3>2, <3>3 DEF Active
    <3> QED BY <2>1, <2>2, <2>3, <3>1, <3>2, <3>4
  <2>6. ~Through({"overflow"})' =>
         \A q \in Project, f \in Fact : Pending(q, f)' => \A i \in Active(q)' : mem'[i].fact # f
    <3> SUFFICES ASSUME ~Through({"overflow"})', NEW i \in Active(p)', mem'[i].fact = c.fact
                 PROVE  FALSE
      BY <1>0, <1>3 DEF Pending
    <3>1. i \in Active(p) /\ i # x /\ mem[i].fact = c.fact
      BY <1>1, <2>1, <2>2, <2>3
    <3>2. ~Through({"overflow"})
      BY <1>1 DEF Through
    <3> QED BY <1>1, <2>0, <3>1, <3>2 DEF OneActivePerFact
  <2>7. ProvenanceHolds'
    <3> SUFFICES ASSUME ~Through({"claimed"})', NEW i \in Id, mem'[i] # NoRow
                 PROVE  mem[i].cites \in owned[mem[i].source] /\ ProjectOf(mem[i].source) = mem[i].project
      BY <1>1, <2>2 DEF ProvenanceHolds, evidence
    <3>1. ~Through({"claimed"}) /\ mem[i] # NoRow
      BY <1>1, <2>1 DEF Through, Table
    <3> QED BY <3>1 DEF ProvenanceHolds
  <2> QED BY <2>4, <2>5, <2>6, <2>7 DEF OnlyPendingMissing
<1> QED BY <1>1, <1>4, <1>5

\* The candidate is stored under the id that the model gave it.
LEMMA UpsertStep ==
  ASSUME IInv, Upsert
  PROVE  LET c == job.cand  r == job.run IN
         /\ c \in Candidate /\ c.id \in Id /\ r \in Run /\ ProjectOf(r) \in Project
         /\ mem'[c.id] = Materialized(c, r) /\ Materialized(c, r) \in Row
         /\ mem' \in [Id -> Row \cup {NoRow}]
         /\ \A i \in Id : i # c.id => mem'[i] = mem[i]
         /\ job' = [job EXCEPT !.pc = "next", !.left = job.left - 1, !.cand = None]
         /\ learned' = learned \cup {<<ProjectOf(r), c.fact>>}
         /\ windows \subseteq windows' /\ (mem[c.id] # NoRow => "reused" \in windows')
         /\ UNCHANGED <<evidence, run, clock, crashes>>
<1> USE DEF IInv, Typed
<1> DEFINE c == job.cand
           r == job.run
           entry == Materialized(c, r)
<1>1. /\ job.pc = "insert" /\ c \in Candidate /\ r \in Run /\ ProjectOf(r) \in Project
      /\ c.cites \in Key
  BY KeysAreKeys DEF Upsert, JobKnown, TypeOK, Survives
<1>2. c.id \in Id /\ c.fact \in Fact /\ c.source \in Run \cup {None}
  BY <1>1 DEF Candidate
<1>3. entry \in Row
  BY <1>1, <1>2 DEF Materialized, Row, TypeOK
<1>4. entry.project = ProjectOf(r) /\ entry.fact = c.fact
  BY DEF Materialized
<1>5. mem' = [mem EXCEPT ![c.id] = entry]
  BY DEF Upsert
<1> HIDE DEF entry, c, r
<1>6. /\ mem'[c.id] = entry /\ mem' \in [Id -> Row \cup {NoRow}]
      /\ \A i \in Id : i # c.id => mem'[i] = mem[i]
  BY <1>2, <1>3, <1>5 DEF TypeOK
<1> QED BY <1>1, <1>2, <1>3, <1>4, <1>6 DEF Upsert, entry, c, r

LEMMA UpsertTyped ==
  ASSUME IInv, Upsert
  PROVE  TypeOK' /\ JobKnown' /\ IsFiniteSet(Table)'
<1> USE DEF IInv, Typed
<1>0. PICK c \in Candidate, r \in Run, p \in Project :
          c = job.cand /\ r = job.run /\ p = ProjectOf(r)
  BY UpsertStep
<1>1. /\ c \in Candidate /\ c.id \in Id /\ r \in Run /\ p \in Project
      /\ mem' \in [Id -> Row \cup {NoRow}]
      /\ \A i \in Id : i # c.id => mem'[i] = mem[i]
      /\ job' = [job EXCEPT !.pc = "next", !.left = job.left - 1, !.cand = None]
      /\ learned' = learned \cup {<<p, c.fact>>}
      /\ UNCHANGED <<evidence, run, clock, crashes>>
  BY <1>0, UpsertStep
<1>2. job.left - 1 \in 0..MaxBatch /\ c.fact \in Fact
  <2>1. job.left \in 0..MaxBatch /\ job.left > 0 /\ c.fact \in Fact
    BY <1>0, <1>1 DEF JobKnown, Upsert, Candidate
  <2> QED BY <2>1, ProvenanceBounds
<1>3. /\ job' \in [run : Run \cup {None}, pc : {"idle", "next", "insert"},
                   left : 0..MaxBatch, cand : Candidate \cup {None}]
      /\ job'.run = r /\ job'.pc = "next"
  BY <1>0, <1>1, <1>2 DEF JobKnown
<1>4. IsFiniteSet(Table)'
  <2>1. Table' \in SUBSET (Table \cup {c.id})
    BY <1>1 DEF Table
  <2>2. IsFiniteSet(Table \cup {c.id})
    BY FS_AddElement
  <2> QED BY <2>1, <2>2, FS_Subset
<1>5. TypeOK'
  BY <1>1, <1>2, <1>3 DEF TypeOK, evidence
<1>6. JobKnown'
  BY <1>1, <1>3 DEF JobKnown
<1> QED BY <1>4, <1>5, <1>6

LEMMA UpsertKeeps ==
  ASSUME IInv, Upsert
  PROVE  OneActivePerFact' /\ OnlyPendingMissing' /\ ProvenanceHolds'
<1> USE DEF IInv, Typed
<1>0. PICK c \in Candidate, r \in Run, p \in Project :
          c = job.cand /\ r = job.run /\ p = ProjectOf(r)
  BY UpsertStep
<1> DEFINE entry == Materialized(c, r)
<1>1. /\ c \in Candidate /\ c.id \in Id /\ r \in Run /\ p \in Project /\ c.fact \in Fact
      /\ mem'[c.id] = entry /\ entry \in Row
      /\ \A i \in Id : i # c.id => mem'[i] = mem[i]
      /\ job' = [job EXCEPT !.pc = "next", !.left = job.left - 1, !.cand = None]
      /\ learned' = learned \cup {<<p, c.fact>>}
      /\ windows \subseteq windows' /\ (mem[c.id] # NoRow => "reused" \in windows')
      /\ UNCHANGED <<evidence, run, clock, crashes>>
  BY <1>0, UpsertStep DEF Candidate
<1>2. entry.project = p /\ entry.fact = c.fact /\ entry.status = "active" /\ entry.cites = c.cites
      /\ entry.source = IF c.source = None THEN r ELSE c.source
  BY <1>0 DEF Materialized
<1>3. job.pc = "insert" /\ job'.pc = "next"
  BY <1>0, <1>1 DEF Upsert, JobKnown
<1>4. \A q, f : ~Pending(q, f)'
  BY <1>3 DEF Pending
<1>5. Pending(p, c.fact) /\ \A q, f : Pending(q, f) => q = p /\ f = c.fact
  BY <1>0, <1>3 DEF Pending
<1>6. c.cites \in offered[r] /\ (Through({"claimed"}) \/ c.source \in {None, r})
  BY <1>0, <1>3 DEF JobKnown, Survives
<1> HIDE DEF entry
<1>7. /\ \A q \in Project : \A i \in Id : i # c.id => (i \in Active(q)' <=> i \in Active(q))
      /\ \A q \in Project : c.id \in Active(q)' <=> q = p
      /\ \A q \in Project : Active(q) \in SUBSET Id /\ Active(q)' \in SUBSET Id
  BY <1>1, <1>2 DEF Active
<1>8. OneActivePerFact'
  <2> SUFFICES ASSUME ~Through({"overflow"})', NEW q \in Project, NEW i \in Active(q)', NEW j \in Active(q)',
                      mem'[i].fact = mem'[j].fact
               PROVE  i = j
    BY DEF OneActivePerFact
  <2>1. ~Through({"overflow"})
    BY <1>1 DEF Through
  <2>2. \A k \in Active(p) : mem[k].fact # c.fact
    BY <1>1, <1>5, <2>1 DEF OnlyPendingMissing
  <2>3. CASE i # c.id /\ j # c.id
    BY <1>1, <1>7, <2>1, <2>3 DEF OneActivePerFact
  <2>4. ASSUME NEW k \in Active(q)', k # c.id, c.id \in Active(q)'
        PROVE  mem'[k].fact # mem'[c.id].fact
    BY <1>1, <1>2, <1>7, <2>2, <2>4
  <2> QED BY <2>3, <2>4
<1>9. OnlyPendingMissing'
  <2> SUFFICES ASSUME ~Through({"reused", "torn"})', NEW l \in learned'
               PROVE  \E i \in Active(l[1])' : mem'[i].fact = l[2]
    BY <1>4 DEF OnlyPendingMissing
  <2>1. CASE l = <<p, c.fact>>
    <3>1. c.id \in Active(p)' /\ mem'[c.id].fact = c.fact
      BY <1>1, <1>2, <1>7
    <3> QED BY <2>1, <3>1
  <2>2. CASE l # <<p, c.fact>>
    <3>1. l \in learned /\ l[1] \in Project /\ ~Pending(l[1], l[2])
      BY <1>1, <1>5, <2>2 DEF TypeOK
    <3>2. "reused" \notin windows' /\ "torn" \notin windows'
      BY DEF Through
    <3>3. ~Through({"reused", "torn"}) /\ mem[c.id] = NoRow
      BY <1>1, <3>2 DEF Through
    <3>4. PICK i \in Active(l[1]) : mem[i].fact = l[2]
      BY <3>1, <3>3 DEF OnlyPendingMissing
    <3>5. i # c.id
      BY <3>3, <3>4 DEF Active, NoRow
    <3> QED BY <1>1, <1>7, <3>1, <3>4, <3>5
  <2> QED BY <2>1, <2>2
<1>10. ProvenanceHolds'
  <2> SUFFICES ASSUME ~Through({"claimed"})', NEW i \in Id, mem'[i] # NoRow
               PROVE  mem'[i].cites \in owned[mem'[i].source] /\ ProjectOf(mem'[i].source) = mem'[i].project
    BY <1>1 DEF ProvenanceHolds, evidence
  <2>1. ~Through({"claimed"})
    BY <1>1 DEF Through
  <2>2. CASE i # c.id
    BY <1>1, <2>1, <2>2 DEF ProvenanceHolds
  <2>3. CASE i = c.id
    BY <1>0, <1>1, <1>2, <1>6, <2>1, <2>3 DEF EvidenceKept
  <2> QED BY <2>2, <2>3
<1> QED BY <1>8, <1>9, <1>10

LEMMA EndKeeps ==
  ASSUME IInv, EndExtraction
  PROVE  Typed' /\ OneActivePerFact' /\ OnlyPendingMissing' /\ ProvenanceHolds'
<1> USE DEF IInv, Typed
<1>1. /\ job' = NoJob /\ UNCHANGED <<evidence, mem, clock, learned, crashes, windows>>
      /\ run' = [run EXCEPT ![job.run] = "extracted"]
      /\ job.pc = "next"
  BY DEF EndExtraction
<1>2. /\ job'.pc = "idle" /\ job'.run = None /\ job' = NoJob
      /\ job' \in [run : Run \cup {None}, pc : {"idle", "next", "insert"},
                   left : 0..MaxBatch, cand : Candidate \cup {None}]
  BY <1>1, JobNone DEF NoJob
<1>3. TypeOK'
  BY <1>1, <1>2 DEF TypeOK, evidence
<1>4. JobKnown'
  BY <1>2 DEF JobKnown
<1>5. \A q, f : ~Pending(q, f) /\ ~Pending(q, f)'
  BY <1>1, <1>2 DEF Pending
<1>6. Table' = Table /\ \A q \in Project : Active(q)' = Active(q)
  BY <1>1 DEF Table, Active
<1>7. OnlyPendingMissing'
  BY <1>1, <1>5, <1>6 DEF OnlyPendingMissing, Through, TypeOK
<1>8. OneActivePerFact' /\ ProvenanceHolds'
  BY <1>1, <1>6 DEF OneActivePerFact, ProvenanceHolds, Through, evidence
<1> QED BY <1>3, <1>4, <1>6, <1>7, <1>8

LEMMA CrashKeeps ==
  ASSUME IInv, Crash
  PROVE  Typed' /\ OneActivePerFact' /\ OnlyPendingMissing' /\ ProvenanceHolds'
<1> USE DEF IInv, Typed
<1>1. /\ job' = NoJob /\ UNCHANGED <<evidence, mem, clock, learned>> /\ crashes' = crashes + 1
      /\ run' = [r \in Run |-> IF run[r] = "scheduled" THEN "lost" ELSE run[r]]
      /\ windows \subseteq windows' /\ (job.pc = "insert" => "torn" \in windows')
  BY DEF Crash
<1>2. /\ job'.pc = "idle" /\ job'.run = None /\ job' = NoJob
      /\ job' \in [run : Run \cup {None}, pc : {"idle", "next", "insert"},
                   left : 0..MaxBatch, cand : Candidate \cup {None}]
  BY <1>1, JobNone DEF NoJob
<1>3. TypeOK'
  BY <1>1, <1>2 DEF TypeOK, evidence
<1>4. JobKnown'
  BY <1>2 DEF JobKnown
<1>5. \A q, f : ~Pending(q, f)'
  BY <1>2 DEF Pending
<1>6. Table' = Table /\ \A q \in Project : Active(q)' = Active(q)
  BY <1>1 DEF Table, Active
<1>7. ~Through({"reused", "torn"})' => job.pc # "insert" /\ ~Through({"reused", "torn"})
  BY <1>1 DEF Through
<1>8. OnlyPendingMissing'
  BY <1>1, <1>5, <1>6, <1>7 DEF OnlyPendingMissing, Pending, TypeOK
<1>9. OneActivePerFact' /\ ProvenanceHolds'
  BY <1>1, <1>6 DEF OneActivePerFact, ProvenanceHolds, Through, evidence
<1> QED BY <1>3, <1>4, <1>6, <1>8, <1>9

\* What leaves the table and the extraction alone keeps what is said of them.
LEMMA MemoryKept ==
  ASSUME IInv, TypeOK', UNCHANGED <<mem, job, learned>>, windows \subseteq windows',
         \A r \in Run : offered[r] \subseteq offered'[r] /\ owned[r] \subseteq owned'[r]
  PROVE  Typed' /\ OneActivePerFact' /\ OnlyPendingMissing' /\ ProvenanceHolds'
<1> USE DEF IInv, Typed
<1>1. Table' = Table /\ \A q \in Project : Active(q)' = Active(q)
  BY DEF Table, Active
<1>2. \A W : ~Through(W)' => ~Through(W)
  BY DEF Through
<1>3. ASSUME job.pc = "insert"
      PROVE  Survives(job'.cand, offered'[job'.run]) /\ (Through({"claimed"})' \/ job'.cand.source \in {None, job'.run})
  <2>1. job.run \in Run /\ Survives(job.cand, offered[job.run])
    BY <1>3 DEF JobKnown
  <2>2. Survives(job.cand, offered'[job.run])
    BY <2>1 DEF Survives
  <2>3. Through({"claimed"})' \/ job.cand.source \in {None, job.run}
    BY <1>3, <1>2 DEF JobKnown
  <2> QED BY <2>2, <2>3
<1>4. JobKnown'
  BY <1>3 DEF JobKnown
<1>5. \A q, f : Pending(q, f)' = Pending(q, f)
  BY DEF Pending
<1>6. OnlyPendingMissing'
  BY <1>1, <1>2, <1>5 DEF OnlyPendingMissing, TypeOK
<1>7. OneActivePerFact'
  BY <1>1, <1>2 DEF OneActivePerFact
<1>8. ProvenanceHolds'
  <2> SUFFICES ASSUME ~Through({"claimed"})', NEW i \in Id, mem[i] # NoRow
               PROVE  mem[i].cites \in owned'[mem[i].source] /\ ProjectOf(mem[i].source) = mem[i].project
    BY DEF ProvenanceHolds
  <2>1. mem[i].source \in Run
    BY DEF TypeOK, Row
  <2> QED BY <1>2, <2>1 DEF ProvenanceHolds
<1> QED BY <1>1, <1>4, <1>6, <1>7, <1>8

\* The steps that only move a run along.
LEMMA RunMoves ==
  ASSUME IInv, NEW r \in Run, Attach(r) \/ Complete(r) \/ ExtractFails(r)
  PROVE  IInv'
<1> USE DEF IInv, Typed
<1>1. TypeOK' /\ UNCHANGED <<ev, owned, cited, mem, job, learned, windows>>
  BY DEF TypeOK, Attach, Complete, ExtractFails, evidence, memory, EvidenceKept
<1>2. \A q \in Run : offered[q] \subseteq offered'[q] /\ offered'[q] \subseteq owned[q]
  BY DEF TypeOK, Attach, Complete, ExtractFails, evidence, EvidenceKept
<1>3. EvidenceKept'
  BY <1>1, <1>2 DEF EvidenceKept, EvidenceIsOwn, Listed, Through
<1> QED BY <1>1, <1>2, <1>3, MemoryKept

LEMMA ExtractKeeps ==
  ASSUME IInv, NEW r \in Run, Extract(r)
  PROVE  IInv'
<1> USE DEF IInv, Typed
<1>1. /\ UNCHANGED <<evidence, run, mem, learned, crashes, windows>> /\ clock' = clock + 1
      /\ job' = [run |-> r, pc |-> "next", left |-> MaxBatch, cand |-> None]
      /\ job = NoJob
  BY DEF Extract, Free, NoJob
<1>2. /\ job'.pc = "next" /\ job'.run = r
      /\ job' \in [run : Run \cup {None}, pc : {"idle", "next", "insert"},
                   left : 0..MaxBatch, cand : Candidate \cup {None}]
  BY <1>1, ProvenanceBounds
<1>3. TypeOK'
  BY <1>1, <1>2 DEF TypeOK, evidence
<1>4. JobKnown'
  BY <1>2 DEF JobKnown
<1>5. \A q, f : ~Pending(q, f) /\ ~Pending(q, f)'
  BY <1>1, <1>2 DEF Pending, NoJob
<1>6. Table' = Table /\ \A q \in Project : Active(q)' = Active(q)
  BY <1>1 DEF Table, Active
<1>7. OnlyPendingMissing'
  BY <1>1, <1>5, <1>6 DEF OnlyPendingMissing, Through, TypeOK
<1>8. OneActivePerFact' /\ ProvenanceHolds' /\ EvidenceKept'
  BY <1>1, <1>6 DEF OneActivePerFact, ProvenanceHolds, Through, evidence, EvidenceKept, EvidenceIsOwn, Listed
<1> QED BY <1>3, <1>4, <1>6, <1>7, <1>8

-----------------------------------------------------------------------------
(* The attachment. *)

\* The order of select_relevant, as a relation.
BetterIn(S, f) ==
  {ij \in S \X S : \/ mem[ij[1]].fact = f /\ mem[ij[2]].fact # f
                   \/ (mem[ij[1]].fact = f) = (mem[ij[2]].fact = f) /\ Sooner(ij[1], ij[2])}

LEMMA BetterOrders ==
  ASSUME Typed, NEW f \in Fact, NEW S \in SUBSET Nat, \A i \in S : mem[i].at \in Nat
  PROVE  Orders(BetterIn(S, f), S)
<1> DEFINE about(i) == mem[i].fact = f
<1>1. \A i, j \in S : <<i, j>> \in BetterIn(S, f)
        <=> \/ about(i) /\ ~about(j)
            \/ (about(i) <=> about(j)) /\ (mem[i].at > mem[j].at \/ (mem[i].at = mem[j].at /\ i < j))
  BY DEF BetterIn, Sooner
<1> HIDE DEF about
<1>2. \A i \in S : <<i, i>> \notin BetterIn(S, f)
  BY <1>1
<1>3. ASSUME NEW i \in S, NEW j \in S, NEW k \in S, <<i, j>> \in BetterIn(S, f), <<j, k>> \in BetterIn(S, f)
      PROVE  <<i, k>> \in BetterIn(S, f)
  BY <1>1, <1>3
<1>4. ASSUME NEW i \in S, NEW j \in S, i # j
      PROVE  <<i, j>> \in BetterIn(S, f) \/ <<j, i>> \in BetterIn(S, f)
  BY <1>1, <1>4
<1> QED BY <1>2, <1>3, <1>4 DEF Orders

\* Of the rows that are ranked the first Limit are taken, and one about the
\* symptom comes first when there is any.
LEMMA RankedAreFirst ==
  ASSUME Typed, NEW p \in Project, NEW f \in Fact
  PROVE  /\ Ranked(p, f) \in SUBSET Newest(p, Rank) /\ IsFiniteSet(Ranked(p, f))
         /\ Cardinality(Ranked(p, f)) <= Limit
         /\ (\E i \in Newest(p, Rank) : mem[i].fact = f) => \E i \in Ranked(p, f) : mem[i].fact = f
<1> DEFINE S == Newest(p, Rank)
           R == BetterIn(S, f)
<1>1. S \in SUBSET Nat /\ IsFiniteSet(S) /\ \A i \in S : mem[i].at \in Nat
  BY NewestAreFirst, ActiveIsStored, ProvenanceBounds
<1>2. Orders(R, S)
  BY <1>1, BetterOrders
<1>3. \A i, j \in S : <<j, i>> \in R
        <=> \/ mem[j].fact = f /\ mem[i].fact # f
            \/ (mem[j].fact = f) = (mem[i].fact = f) /\ Sooner(j, i)
  BY DEF BetterIn
<1>4. \A i \in S : Before(S, R, i) =
        {j \in S : \/ mem[j].fact = f /\ mem[i].fact # f
                   \/ (mem[j].fact = f) = (mem[i].fact = f) /\ Sooner(j, i)}
  BY <1>3 DEF Before
<1>5. Ranked(p, f) = First(S, R, Limit)
  BY <1>4 DEF Ranked, First
<1>6. First(S, R, Limit) \in SUBSET S
  BY DEF First
<1> HIDE DEF S, R
<1>7. IsFiniteSet(First(S, R, Limit)) /\ Cardinality(First(S, R, Limit)) <= Limit
  BY <1>1, <1>2, FirstAreFew, ProvenanceBounds
<1>8. ASSUME NEW k \in S, mem[k].fact = f
      PROVE  \E i \in First(S, R, Limit) : mem[i].fact = f
  <2>1. PICK i \in S : (\A j \in S : <<j, i>> \notin R) /\ \A n \in Nat \ {0} : i \in First(S, R, n)
    BY <1>1, <1>2, <1>8, HasFirst
  <2>2. mem[i].fact = f
    BY <1>3, <1>8, <2>1
  <2>3. i \in First(S, R, Limit)
    BY <2>1, ProvenanceBounds
  <2> QED BY <2>2, <2>3
<1> QED BY <1>5, <1>6, <1>7, <1>8 DEF S

LEMMA AttachmentFollows ==
  ASSUME Typed
  PROVE  AttachmentIsRelevant
<1> SUFFICES ASSUME NEW p \in Project, NEW f \in Fact, NEW s \in Shown(p, f)
             PROVE  LET A == Active(p)  about == {i \in A : mem[i].fact = f} IN
                    /\ s.ids \subseteq A /\ Cardinality(s.ids) <= Limit
                    /\ \/ s.how = "model" \/ about = {} \/ s.ids \cap about # {}
                       \/ Cardinality(A) > (IF s.how = "fallback" THEN Catalog ELSE Rank)
  BY KeysAreKeys DEF AttachmentIsRelevant
<1> DEFINE A == Active(p)
           about == {i \in A : mem[i].fact = f}
           catalog == Newest(p, Catalog)
           ranked == Ranked(p, f)
<1>1. Catalog \in Nat /\ Rank \in Nat /\ Limit \in Nat /\ Catalog <= Rank
  BY ProvenanceBounds
<1>2. /\ IsFiniteSet(A) /\ Cardinality(A) \in Nat
      /\ catalog \in SUBSET A /\ (Cardinality(A) <= Catalog => catalog = A)
      /\ Newest(p, Rank) \in SUBSET A /\ (Cardinality(A) <= Rank => Newest(p, Rank) = A)
  BY <1>1, ActiveIsStored, NewestAreFirst, FS_CardinalityType
<1>3. /\ ranked \in SUBSET Newest(p, Rank) /\ IsFiniteSet(ranked) /\ Cardinality(ranked) <= Limit
      /\ (\E i \in Newest(p, Rank) : mem[i].fact = f) => \E i \in ranked : mem[i].fact = f
  BY RankedAreFirst
<1>4. \/ s.how = "model" /\ s.ids \in SUBSET catalog /\ Cardinality(s.ids) <= Limit
      \/ s.how = "fallback" /\ s.ids = ranked \cap catalog
      \/ s.how = "ranked" /\ s.ids = ranked
  BY DEF Shown
<1>5. ASSUME about # {}, Cardinality(A) <= Rank
      PROVE  ranked \cap about # {}
  BY <1>2, <1>3, <1>5
<1> HIDE DEF A, about, catalog, ranked
<1>6. CASE s.how = "model" /\ s.ids \in SUBSET catalog /\ Cardinality(s.ids) <= Limit
  BY <1>2, <1>6 DEF A, about
<1>7. CASE s.how = "fallback" /\ s.ids = ranked \cap catalog
  <2>1. Cardinality(ranked \cap catalog) <= Limit
    <3>1. /\ IsFiniteSet(ranked \cap catalog)
          /\ Cardinality(ranked \cap catalog) <= Cardinality(ranked)
      BY <1>3, FS_Intersection
    <3>2. Cardinality(ranked \cap catalog) \in Nat /\ Cardinality(ranked) \in Nat
      BY <1>3, <3>1, FS_CardinalityType
    <3> QED BY <1>1, <1>3, <3>1, <3>2
  <2>2. about = {} \/ s.ids \cap about # {} \/ Cardinality(A) > Catalog
    <3>1. CASE Cardinality(A) <= Catalog
      <4>1. catalog = A /\ Cardinality(A) <= Rank
        BY <1>1, <1>2, <3>1
      <4>2. ranked \in SUBSET A
        BY <1>2, <1>3
      <4> QED BY <1>5, <1>7, <4>1, <4>2
    <3>2. CASE Cardinality(A) > Catalog
      BY <3>2
    <3> QED BY <1>1, <1>2, <3>1, <3>2
  <2> QED BY <1>2, <1>7, <2>1, <2>2 DEF A, about
<1>8. CASE s.how = "ranked" /\ s.ids = ranked
  <2>1. about = {} \/ s.ids \cap about # {} \/ Cardinality(A) > Rank
    BY <1>1, <1>2, <1>5, <1>8
  <2> QED BY <1>2, <1>3, <1>8, <2>1 DEF A, about
<1> QED BY <1>4, <1>6, <1>7, <1>8

-----------------------------------------------------------------------------
(* Theorems. *)

LEMMA InitHolds == Init => IInv
<1> SUFFICES ASSUME Init PROVE IInv
  OBVIOUS
<1>1. Table = {} /\ job.pc = "idle"
  BY DEF Init, Table, NoJob
<1>2. TypeOK
  BY ProvenanceBounds, JobNone DEF Init, TypeOK, NoJob
<1>3. Typed
  BY <1>1, <1>2, JobNone, FS_EmptySet DEF Typed, JobKnown, Init
<1>4. EvidenceKept
  BY KeysAreKeys DEF Init, EvidenceKept, EvidenceIsOwn
<1>5. \A q \in Project : Active(q) = {}
  BY DEF Init, Active, NoRow
<1>6. OneActivePerFact /\ ProvenanceHolds /\ OnlyPendingMissing
  BY <1>1, <1>5 DEF Init, OneActivePerFact, ProvenanceHolds, OnlyPendingMissing, Pending
<1> QED BY <1>3, <1>4, <1>6 DEF IInv

LEMMA StepHolds == IInv /\ [Next]_vars => IInv'
<1> SUFFICES ASSUME IInv, [Next]_vars PROVE IInv'
  OBVIOUS
<1>1. ASSUME NEW r \in Run, Persist(r) PROVE IInv'
  <2>1. TypeOK' /\ EvidenceKept' /\ \A q \in Run : owned[q] \subseteq owned'[q]
    BY <1>1, PersistKeeps DEF IInv, Typed
  <2> QED BY <1>1, <2>1, MemoryKept DEF IInv, Persist, memory
<1>2. ASSUME NEW r \in Run, CiteLogRecord(r) PROVE IInv'
  <2>1. TypeOK' /\ EvidenceKept' /\ UNCHANGED owned
    BY <1>2, CiteKeeps DEF IInv, Typed
  <2> QED BY <1>2, <2>1, MemoryKept DEF IInv, CiteLogRecord, memory
<1>3. ASSUME NEW r \in Run, Attach(r) \/ Complete(r) \/ ExtractFails(r) PROVE IInv'
  BY <1>3, RunMoves
<1>4. ASSUME NEW r \in Run, Extract(r) PROVE IInv'
  BY <1>4, ExtractKeeps
<1>5. ASSUME NEW c \in Candidate, Admit(c) PROVE IInv'
  <2>1. UNCHANGED evidence /\ windows \subseteq windows'
    BY <1>5, AdmitStep
  <2>2. EvidenceKept'
    BY <2>1 DEF IInv, EvidenceKept, EvidenceIsOwn, evidence, Listed, Through
  <2> QED BY <1>5, <2>2, AdmitTyped, AdmitKeeps DEF IInv, Typed
<1>6. CASE Upsert
  <2>1. UNCHANGED evidence /\ windows \subseteq windows'
    BY <1>6, UpsertStep
  <2>2. EvidenceKept'
    BY <2>1 DEF IInv, EvidenceKept, EvidenceIsOwn, evidence, Listed, Through
  <2> QED BY <1>6, <2>2, UpsertTyped, UpsertKeeps DEF IInv, Typed
<1>7. CASE EndExtraction \/ Crash
  <2>1. UNCHANGED evidence /\ windows \subseteq windows'
    BY <1>7 DEF EndExtraction, Crash
  <2>2. EvidenceKept'
    BY <2>1 DEF IInv, EvidenceKept, EvidenceIsOwn, evidence, Listed, Through
  <2> QED BY <1>7, <2>2, EndKeeps, CrashKeeps DEF IInv
<1>8. CASE UNCHANGED vars
  <2>1. TypeOK' /\ EvidenceKept'
    BY <1>8 DEF vars, evidence, memory, IInv, Typed, TypeOK, EvidenceKept, EvidenceIsOwn, Listed, Through
  <2> QED BY <1>8, <2>1, MemoryKept DEF vars, evidence, memory, IInv
<1> QED BY <1>1, <1>2, <1>3, <1>4, <1>5, <1>6, <1>7, <1>8 DEF Next, Record, RecordLate

\* Any number of evidence records, citations, extractions, crashes and
\* confirmations, for any bounds on batch, catalog, ranking and attachment.
LEMMA Keeps == Spec => []IInv
BY InitHolds, StepHolds, PTL DEF Spec

\* What a project knows can be trusted and found: evidence is listed under its
\* own investigation (evidence/service.py), every memory cites its own evidence
\* and each fact that was admitted stays active exactly once (_validate, _persist
\* and upsert of project_memory/), and the attachment of a fresh run is bounded
\* and never crowds out the memory that is about its symptom (select_relevant).
THEOREM KnowledgeIsSound == Spec => []KnowledgeHolds
<1>1. IInv => KnowledgeHolds
  <2> SUFFICES ASSUME IInv PROVE KnowledgeHolds
    OBVIOUS
  <2>1. TypeOK /\ EvidenceIsOwn /\ ProvenanceHolds /\ OneActivePerFact /\ AttachmentIsRelevant
    BY AttachmentFollows DEF IInv, Typed, EvidenceKept
  <2>2. KnowledgeIsKept
    BY DEF IInv, KnowledgeIsKept, OnlyPendingMissing, Pending, Free, NoJob
  <2> QED BY <2>1, <2>2 DEF KnowledgeHolds
<1> QED BY <1>1, Keeps, PTL

\* Supersession keeps the historical record and its provenance: a step changes
\* the status of a stored row at most, unless a model reuses its id
\* (ProjectMemoryStore.supersede and upsert).
THEOREM HistoryStays == Spec => HistoryIsKept
<1> DEFINE Kept == \A i \in Id : mem[i] # NoRow =>
                     \/ mem'[i] = mem[i] \/ mem'[i] = [mem[i] EXCEPT !.status = "superseded"]
                     \/ "reused" \in windows'
<1>1. IInv /\ [Next]_vars => [Kept]_vars
  <2> SUFFICES ASSUME IInv, Next PROVE Kept
    BY DEF vars
  <2>1. CASE UNCHANGED mem
    BY <2>1
  <2>2. ASSUME NEW c \in Candidate, Admit(c) PROVE Kept
    <3>1. PICK p \in Project : p = ProjectOf(job.run)
      BY <2>2, AdmitStep
    <3>2. \/ UNCHANGED mem
          \/ \E x \in Duplicates(p, c.fact) : mem' = Superseded(x)
      BY <2>2, <3>1, AdmitStep
    <3>3. Duplicates(p, c.fact) \in SUBSET Active(p)
      BY NewestAreFirst, ProvenanceBounds DEF Duplicates, IInv
    <3>4. ASSUME NEW x \in Active(p), mem' = Superseded(x) PROVE Kept
      BY <3>4, SupersededRow DEF IInv
    <3> QED BY <2>1, <3>2, <3>3, <3>4
  <2>3. CASE Upsert
    <3>1. PICK c \in Candidate : c = job.cand
      BY <2>3, UpsertStep
    <3>2. /\ \A i \in Id : i # c.id => mem'[i] = mem[i]
          /\ mem[c.id] # NoRow => "reused" \in windows'
      BY <2>3, <3>1, UpsertStep
    <3> QED BY <3>2
  <2>4. \/ UNCHANGED mem \/ Upsert \/ \E c \in Candidate : Admit(c)
    BY DEF Next, Attach, Record, RecordLate, Persist, CiteLogRecord, Complete, Extract,
           ExtractFails, EndExtraction, Crash, memory
  <2> QED BY <2>1, <2>2, <2>3, <2>4
<1> QED BY <1>1, Keeps, PTL DEF Spec, HistoryIsKept

-----------------------------------------------------------------------------
(* LogPipeline: the inductive invariant.                                  *)

LogLine == [s : Subs, off : Nat, lag : Int, gen : Nat, text : Nat]
LogKey  == Subs \X Nat \X Int \X Nat
LogRow  == [seq : Nat, line : LogLine]
SubRow  == [status : {"none", "active", "paused", "error", "deleted"}, cursor : Nat, lag : Int, from : Nat]
SubTask == [on : BOOLEAN, lines : Seq(LogLine), queue : Seq(LogLine), pos : Int, fails : Nat]
Source  == [gen : Nat, len : Nat, total : Nat, above : Seq(Nat), text : {0, 1}]
Socket  == [st : {"off", "replay", "live"}, kind : {"legacy", "product"}, pos : Nat \X Int, last : Nat,
            seen : SUBSET LogKey, q : Seq(LogLine), paused : BOOLEAN]

LogTyped ==
  /\ LogTypeOK
  /\ row \in [Subs -> SubRow] /\ task \in [Subs -> SubTask] /\ src \in [Subs -> Source]
  /\ records \in SUBSET LogRow /\ IsFiniteSet(records) /\ view \in Socket

\* A line on its way is one that its source has had.  Without rotations the texts of
\* whole lines are the first one; without blank lines no cursor lags and all lines
\* are whole.
Rotated == "rotated" \in opened
Blank == "blank" \in opened
Expected(l) == (Rotated \/ l.text # 1) /\ (Blank \/ (l.lag = 0 /\ l.text \in {0, 1}))
Own(s, l) == l.s = s /\ 1 <= l.off /\ l.off <= src[s].total /\ Expected(l)

SourceKept(s) ==
  /\ src[s].len <= src[s].total /\ src[s].total <= MaxLines[s]
  /\ Rotated \/ src[s].text = 0
  /\ Blank \/ (row[s].lag = 0 /\ \A i \in 1..src[s].len : src[s].above[i] = 0)
  /\ row[s].cursor = 0 => row[s].lag = 0
  /\ row[s].cursor <= src[s].total /\ row[s].from <= src[s].total
  /\ IF Kind[s] = "file" THEN task[s].pos = -1
     ELSE src[s].len = src[s].total /\ task[s].pos <= src[s].len /\ task[s].lines = << >>

LinesOwned(s) ==
  /\ \A p \in 1..Len(task[s].queue) : Own(s, task[s].queue[p])
  /\ \A p \in 1..Len(task[s].lines) : Own(s, task[s].lines[p])

SourcesKept == \A s \in Subs : SourceKept(s) /\ LinesOwned(s)

\* The rows of the table differ in sequence and in dedupe key.
RowsDiffer ==
  /\ \A r \in records : r.seq >= 1 /\ r.line.off >= 1 /\ Expected(r.line)
  /\ \A r, q \in records : r.seq = q.seq => r = q
  /\ \A r, q \in records : DedupeKey(r.line) = DedupeKey(q.line) => r = q

\* Line j of s is stored whole.
Has(s, j) == \E r \in records : r.line.s = s /\ r.line.off = j /\ r.line.text = 0

\* What is promised before l: the lines above it, and for the end of a line that
\* line too.
Below(j, l) == j < l.off \/ (j = l.off /\ l.text > 1)

\* What is promised below the end of each way is stored or earlier on it: below a
\* line of the queue, below a line that waits to be put, below the open stream, and
\* below the cursor.
InQueue(s, n, j) == \E i \in 1..n : task[s].queue[i].off = j /\ task[s].queue[i].text = 0
InLines(s, n, j) == \E i \in 1..n : task[s].lines[i].off = j /\ task[s].lines[i].text = 0
Gapless(s) ==
  /\ \A p \in 1..Len(task[s].queue), j \in Nat :
       row[s].from < j /\ Below(j, task[s].queue[p]) => Has(s, j) \/ InQueue(s, p - 1, j)
  /\ \A p \in 1..Len(task[s].lines), j \in Nat :
       row[s].from < j /\ Below(j, task[s].lines[p]) =>
         Has(s, j) \/ InQueue(s, Len(task[s].queue), j) \/ InLines(s, p - 1, j)
  /\ \A j \in Nat :
       row[s].from < j /\ j <= task[s].pos => Has(s, j) \/ InQueue(s, Len(task[s].queue), j)
  /\ \A j \in Nat : row[s].from < j /\ j <= row[s].cursor => Has(s, j)
NoGaps == opened \cap {"dropped", "rotated"} = {} => \A s \in Subs : Gapless(s)

\* Tasks run for active rows without a call under way.
TasksAllowed ==
  /\ \A s \in Subs : row[s].status = "none" => waiting[s] = {}
  /\ "crossed" \notin opened => \A s \in Subs : task[s].on => row[s].status = "active" /\ waiting[s] = {}

\* A replay has sent what is up to its cursor; a live socket has sent or queued all.
Mine == {r \in records : r.line.s = 1}
OfLine(T, c) == {m \in {r \in T : r.line.s = 1} : CursorOf(m.line) = c}
Reached(T, c) == Highest({q.seq : q \in OfLine(T, c)})
Reach(c) == Reached(records, c)
SocketKept ==
  /\ view.st = "replay" => view.kind = "legacy"
  /\ view.pos # <<0, 0>> => \E r \in Mine : CursorOf(r.line) = view.pos
  /\ opened \cap {"overflow", "rotated", "blank"} = {} /\ view.kind = "legacy" =>
       /\ view.st = "replay" => \A r \in Mine : r.seq <= Reach(view.pos) => DedupeKey(r.line) \in view.seen
       /\ view.st = "live" => \A r \in Mine :
            \/ DedupeKey(r.line) \in view.seen
            \/ \E i \in 1..Len(view.q) : DedupeKey(view.q[i]) = DedupeKey(r.line)

LogInv ==
  /\ LogTyped /\ SourcesKept /\ RowsDiffer /\ NoGaps /\ TasksAllowed /\ WithinCap /\ SocketKept

-----------------------------------------------------------------------------
(* Numbers, batches and the table. *)

LEMMA LogBounds ==
  /\ NSubs \in Nat \ {0} /\ MaxActive \in Nat \ {0} /\ QueueSize \in Nat \ {0} /\ BatchSize \in Nat \ {0}
  /\ PageSize \in Nat \ {0} /\ LiveSize \in Nat \ {0} /\ MaxFailures \in Nat \ {0}
  /\ MaxBlanks \in Nat /\ MaxRotations \in Nat /\ MaxFaults \in Nat /\ MaxCalls \in Nat
  /\ \A s \in Subs : MaxLines[s] \in Nat /\ Kind[s] \in {"file", "docker"}
  BY LogConstants DEF Subs

\* The highest of a finite set of numbers.
LEMMA HighestIs ==
  ASSUME NEW S \in SUBSET Nat, IsFiniteSet(S)
  PROVE  /\ Highest(S) \in Nat /\ \A y \in S : y <= Highest(S)
         /\ S # {} => Highest(S) \in S
<1>1. CASE S = {}
  BY <1>1 DEF Highest
<1>2. CASE S # {}
  <2>1. PICK R : R = {ss \in Nat \X Nat : ss[2] < ss[1]}
    OBVIOUS
  <2>2. \A i, j \in S : <<i, j>> \in R <=> j < i
    BY <2>1
  <2>3. Orders(R, S)
    BY <2>2 DEF Orders
  <2>4. PICK i \in S : \A j \in S : <<j, i>> \notin R
    BY <1>2, <2>3, HasFirst
  <2>5. ASSUME NEW j \in S PROVE j <= i
    <3>1. ~(i < j) /\ i \in Nat /\ j \in Nat
      BY <2>2, <2>4
    <3> QED BY <3>1
  <2>6. \E x \in S : \A y \in S : y <= x
    BY <2>5
  <2>7. Highest(S) \in S /\ \A y \in S : y <= Highest(S)
    BY <1>2, <2>6 DEF Highest
  <2> QED BY <2>7
<1> QED BY <1>1, <1>2

\* Counting up to i gives each member its place.
LEMMA Places ==
  ASSUME NEW S \in SUBSET Nat, IsFiniteSet(S)
  PROVE  /\ \A i \in S : Cardinality({j \in S : j <= i}) \in Nat \ {0}
         /\ \A i, k \in S : Cardinality({j \in S : j <= i}) = Cardinality({j \in S : j <= k}) => i = k
<1> DEFINE upTo(i) == {j \in S : j <= i}
<1>1. ASSUME NEW i \in S
      PROVE  IsFiniteSet(upTo(i)) /\ Cardinality(upTo(i)) \in Nat /\ upTo(i) # {}
  <2>1. upTo(i) \in SUBSET S /\ i \in upTo(i)
    OBVIOUS
  <2>2. IsFiniteSet(upTo(i))
    BY <2>1, FS_Subset
  <2> QED BY <2>1, <2>2, FS_CardinalityType
<1>2. ASSUME NEW i \in S PROVE Cardinality(upTo(i)) # 0
  BY <1>1, FS_EmptySet
<1>3. ASSUME NEW i \in S, NEW k \in S, i < k PROVE Cardinality(upTo(i)) # Cardinality(upTo(k))
  <2>1. upTo(i) \in SUBSET upTo(k) /\ k \in upTo(k) /\ k \notin upTo(i)
    <3>1. i \in Nat /\ k \in Nat
      OBVIOUS
    <3>2. ASSUME NEW j \in S, j <= i PROVE j <= k
      <4>1. j \in Nat
        OBVIOUS
      <4> QED BY <1>3, <3>1, <3>2, <4>1
    <3>3. k <= k /\ ~(k <= i)
      BY <1>3, <3>1
    <3> QED BY <3>2, <3>3
  <2>2. Cardinality(upTo(k)) = Cardinality(upTo(i)) => upTo(k) = upTo(i)
    BY <1>1, <2>1, FS_Subset
  <2> QED BY <2>1, <2>2
<1>4. ASSUME NEW i \in S, NEW k \in S, Cardinality(upTo(i)) = Cardinality(upTo(k)) PROVE i = k
  <2>1. i \in Nat /\ k \in Nat /\ ~(i < k) /\ ~(k < i)
    BY <1>3, <1>4
  <2> QED BY <2>1
<1> QED BY <1>1, <1>2, <1>4

\* A batch is the beginning of the queue.
Taken(s, n) ==
  /\ n \in 1..Len(task[s].queue)
  /\ Batch(s) \in Seq(LogLine) /\ Len(Batch(s)) = n
  /\ \A i \in 1..n : Batch(s)[i] = task[s].queue[i]
  /\ Rest(s) \in Seq(LogLine) /\ Len(Rest(s)) = Len(task[s].queue) - n
  /\ \A i \in 1..(Len(task[s].queue) - n) : Rest(s)[i] = task[s].queue[n + i]

LEMMA BatchTaken ==
  ASSUME NEW s \in Subs, task[s].queue \in Seq(LogLine), task[s].queue # << >>
  PROVE  \E n \in 1..Len(task[s].queue) : Taken(s, n)
<1> DEFINE q == task[s].queue
           n == IF Len(q) < BatchSize THEN Len(q) ELSE BatchSize
<1>1. Len(q) \in Nat \ {0} /\ BatchSize \in Nat \ {0}
  BY LogBounds, LenProperties, EmptySeq
<1>2. n \in 1..Len(q) /\ Batch(s) = SubSeq(q, 1, n)
  BY <1>1 DEF Batch
<1> HIDE DEF n
<1>3. n \in Nat /\ 1 <= n /\ n <= Len(q) /\ n - 1 + 1 = n
  BY <1>1, <1>2
<1>4. /\ Batch(s) \in Seq(LogLine) /\ Len(Batch(s)) = n
      /\ \A i \in 1..n : Batch(s)[i] = q[i]
  <2>1. /\ SubSeq(q, 1, n) \in Seq(LogLine)
        /\ Len(SubSeq(q, 1, n)) = n - 1 + 1
        /\ \A i \in 1..(n - 1 + 1) : SubSeq(q, 1, n)[i] = q[1 + i - 1]
    BY <1>1, <1>3, SubSeqProperties
  <2>2. \A i \in 1..n : 1 + i - 1 = i
    BY <1>3
  <2> QED BY <1>2, <1>3, <2>1, <2>2
<1>5. Rest(s) = SubSeq(q, n + 1, Len(q))
  BY <1>4 DEF Rest
<1>6. /\ Rest(s) \in Seq(LogLine) /\ Len(Rest(s)) = Len(q) - n
      /\ \A i \in 1..(Len(q) - n) : Rest(s)[i] = q[n + i]
  <2>1. CASE n = Len(q)
    <3>1. n + 1 > Len(q)
      BY <1>1, <2>1
    <3>2. Rest(s) = << >>
      BY <1>1, <1>3, <1>5, <3>1, SubSeqProperties
    <3> QED BY <1>1, <2>1, <3>2, EmptySeq
  <2>2. CASE n < Len(q)
    <3>1. n + 1 \in 1..Len(q) /\ n + 1 <= Len(q) + 1 /\ n + 1 \in Int /\ Len(q) \in Int
      BY <1>1, <1>3, <2>2
    <3>2. /\ Rest(s) \in Seq(LogLine)
          /\ Len(Rest(s)) = Len(q) - (n + 1) + 1
          /\ \A i \in 1..(Len(q) - (n + 1) + 1) : Rest(s)[i] = q[n + 1 + i - 1]
      BY <1>1, <1>5, <3>1, SubSeqProperties
    <3>3. Len(q) - (n + 1) + 1 = Len(q) - n /\ \A i \in 1..(Len(q) - n) : n + 1 + i - 1 = n + i
      BY <1>1, <1>3
    <3> QED BY <3>2, <3>3
  <2> QED BY <1>3, <1>1, <2>1, <2>2
<1> QED BY <1>2, <1>4, <1>6 DEF Taken

\* The latest sequence.
LEMMA LatestIs ==
  ASSUME NEW T \in SUBSET LogRow, IsFiniteSet(T)
  PROVE  /\ Highest({r.seq : r \in T}) \in Nat
         /\ \A r \in T : r.seq <= Highest({q.seq : q \in T})
         /\ T # {} => \E r \in T : r.seq = Highest({q.seq : q \in T})
<1> DEFINE S == {r.seq : r \in T}
<1>1. S \in SUBSET Nat
  BY DEF LogRow
<1>2. IsFiniteSet(S)
  <2>1. [r \in T |-> r.seq] \in Surjection(T, S)
    BY DEF Surjection
  <2> QED BY <2>1, FS_Surjection
<1>3. Highest(S) \in Nat /\ (\A y \in S : y <= Highest(S)) /\ (S # {} => Highest(S) \in S)
  BY <1>1, <1>2, HighestIs
<1>4. \A r \in T : r.seq \in S
  OBVIOUS
<1>5. T # {} => S # {}
  BY <1>4
<1>6. \A y \in S : \E r \in T : r.seq = y
  OBVIOUS
<1> QED BY <1>3, <1>4, <1>5, <1>6

\* append_batch keeps the table and adds what it does not have, behind the rest.
Appended(b, T) ==
  /\ records \subseteq T /\ T \in SUBSET LogRow /\ IsFiniteSet(T)
  /\ \A r \in T \ records : /\ r.seq > LatestSequence /\ ~Stored(r.line)
                            /\ \E i \in 1..Len(b) : r.line = b[i]
  /\ \A i \in 1..Len(b) : \E r \in T : DedupeKey(r.line) = DedupeKey(b[i])
  /\ \A r, q \in T : r.seq = q.seq => r = q
  /\ \A r, q \in T : DedupeKey(r.line) = DedupeKey(q.line) => r = q

LEMMA BatchAppended ==
  ASSUME records \in SUBSET LogRow, IsFiniteSet(records), RowsDiffer, NEW b \in Seq(LogLine)
  PROVE  Appended(b, AppendBatch(b))
<1> DEFINE N == Inserted(b)
           place(i) == Cardinality({j \in N : j <= i})
           Made(i) == [seq |-> LatestSequence + place(i), line |-> b[i]]
           New == {Made(i) : i \in N}
           T == AppendBatch(b)
<1>1. Len(b) \in Nat /\ \A i \in 1..Len(b) : b[i] \in LogLine
  BY ElementOfSeq, LenProperties
<1>2. N \in SUBSET (1..Len(b))
  BY LenProperties DEF Inserted
<1>3. N \in SUBSET Nat /\ IsFiniteSet(N)
  <2>1. IsFiniteSet(1..Len(b)) /\ 1..Len(b) \subseteq Nat
    BY <1>1, FS_Interval
  <2> QED BY <1>2, <2>1, FS_Subset
<1>4. /\ LatestSequence \in Nat /\ \A r \in records : r.seq \in Nat /\ r.seq <= LatestSequence
  BY LatestIs DEF LatestSequence, LogRow
<1>5. /\ \A i \in N : place(i) \in Nat \ {0}
      /\ \A i, k \in N : place(i) = place(k) => i = k
  BY <1>3, Places
<1>6. T = records \cup New
  BY DEF AppendBatch
<1> HIDE DEF T, N, place
<1>7. ASSUME NEW i \in N
      PROVE  /\ Made(i) \in LogRow /\ Made(i).line = b[i] /\ Made(i).seq = LatestSequence + place(i)
             /\ Made(i).seq > LatestSequence
  <2>1. place(i) \in Nat \ {0} /\ b[i] \in LogLine
    BY <1>1, <1>2, <1>5
  <2>2. LatestSequence + place(i) \in Nat /\ LatestSequence + place(i) > LatestSequence
    BY <1>4, <2>1
  <2> QED BY <2>1, <2>2 DEF LogRow
<1> HIDE DEF Made
<1>8. IsFiniteSet(New)
  <2>1. [i \in N |-> Made(i)] \in Surjection(N, New)
    BY DEF Surjection
  <2> QED BY <1>3, <2>1, FS_Surjection
<1>9. /\ records \subseteq T /\ T \in SUBSET LogRow /\ IsFiniteSet(T)
  BY <1>6, <1>7, <1>8, FS_Union
<1>10. \A i \in N : ~Stored(b[i]) /\ \A j \in 1..(i - 1) : DedupeKey(b[j]) # DedupeKey(b[i])
  BY DEF N, Inserted
<1>11. ASSUME NEW r \in T, r \notin records
       PROVE  \E i \in N : r = Made(i)
  BY <1>6, <1>11
<1>12. \A r \in T \ records : /\ r.seq > LatestSequence /\ ~Stored(r.line)
                              /\ \E i \in 1..Len(b) : r.line = b[i]
  BY <1>2, <1>7, <1>10, <1>11
<1>13. ASSUME NEW i \in 1..Len(b)
       PROVE  \E r \in T : DedupeKey(r.line) = DedupeKey(b[i])
  <2> DEFINE J == {j \in 1..Len(b) : DedupeKey(b[j]) = DedupeKey(b[i])}
  <2>1. CASE Stored(b[i])
    BY <1>9, <2>1 DEF Stored
  <2>2. CASE ~Stored(b[i])
    <3>1. J \in SUBSET Nat /\ i \in J
      BY <1>1
    <3>2. PICK j \in J : \A k \in J : j <= k
      BY <3>1, Least
    <3>3. j \in 1..Len(b) /\ DedupeKey(b[j]) = DedupeKey(b[i])
      OBVIOUS
    <3>4. ~Stored(b[j])
      BY <2>2, <3>3 DEF Stored
    <3>5. ASSUME NEW k \in 1..(j - 1) PROVE DedupeKey(b[k]) # DedupeKey(b[j])
      <4>1. k \in 1..Len(b) /\ ~(j <= k)
        BY <1>1, <3>3
      <4> QED BY <3>2, <3>3, <4>1
    <3>6. DOMAIN b = 1..Len(b)
      BY LenProperties
    <3>7. j \in N
      BY <3>3, <3>4, <3>5, <3>6 DEF N, Inserted
    <3>8. Made(j) \in T /\ Made(j).line = b[j]
      BY <1>6, <1>7, <3>7
    <3> QED BY <3>3, <3>8
  <2> QED BY <2>1, <2>2
<1>14. ASSUME NEW r \in T, NEW q \in T, r.seq = q.seq \/ DedupeKey(r.line) = DedupeKey(q.line)
       PROVE  r = q
  <2>1. CASE r \in records /\ q \in records
    BY <1>14, <2>1 DEF RowsDiffer
  <2>2. ASSUME NEW x \in records, NEW y \in T, y \notin records
        PROVE  x.seq # y.seq /\ DedupeKey(x.line) # DedupeKey(y.line)
    <3>1. x.seq <= LatestSequence /\ y.seq > LatestSequence /\ x.seq \in Nat /\ y.seq \in Nat
      BY <1>4, <1>9, <1>12, <2>2 DEF LogRow
    <3>2. x.seq # y.seq
      BY <1>4, <3>1
    <3>3. ~Stored(y.line)
      BY <1>12, <2>2
    <3> QED BY <3>2, <3>3 DEF Stored
  <2>3. CASE r \notin records /\ q \notin records
    <3>1. PICK i \in N : r = Made(i)
      BY <1>11, <2>3
    <3>2. PICK k \in N : q = Made(k)
      BY <1>11, <2>3
    <3>3. i \in Nat /\ k \in Nat /\ i \in 1..Len(b) /\ k \in 1..Len(b) /\ place(i) \in Nat /\ place(k) \in Nat
      BY <1>2, <1>3, <1>5
    <3>4. CASE r.seq = q.seq
      <4>1. LatestSequence + place(i) = LatestSequence + place(k)
        BY <1>7, <3>1, <3>2, <3>4
      <4>2. place(i) = place(k)
        BY <1>4, <3>3, <4>1
      <4> QED BY <1>5, <3>1, <3>2, <4>2
    <3>5. CASE DedupeKey(r.line) = DedupeKey(q.line)
      <4>1. DedupeKey(b[i]) = DedupeKey(b[k])
        BY <1>7, <3>1, <3>2, <3>5
      <4>2. i \notin 1..(k - 1) /\ k \notin 1..(i - 1)
        BY <1>10, <4>1
      <4>3. i = k
        BY <1>1, <3>3, <4>2
      <4> QED BY <3>1, <3>2, <4>3
    <3> QED BY <1>14, <3>4, <3>5
  <2> QED BY <1>14, <2>1, <2>2, <2>3
<1> QED BY <1>9, <1>12, <1>13, <1>14 DEF Appended, T

-----------------------------------------------------------------------------
(* What the actions do to the tasks. *)

\* A task within its bounds.
Fits(s, t) ==
  /\ t \in SubTask /\ -1 <= t.pos /\ t.pos <= MaxLines[s]
  /\ Len(t.queue) <= QueueSize /\ t.fails <= MaxFailures - 1

Others(s) == \A r \in Subs : r # s => task'[r] = task[r]

\* The way of a subscription is left as it is, but for an open stream that ends, or
\* it is dropped.
Halted(r) ==
  \/ /\ task'[r].lines = task[r].lines /\ task'[r].queue = task[r].queue
     /\ task'[r].pos \in {task[r].pos, -1}
  \/ task'[r].lines = << >> /\ task'[r].queue = << >> /\ task'[r].pos = -1

LEMMA LogTypes ==
  ASSUME LogTyped
  PROVE  /\ row \in [Subs -> SubRow] /\ src \in [Subs -> Source] /\ task \in [Subs -> SubTask]
         /\ \A s \in Subs : row[s] \in SubRow /\ src[s] \in Source /\ Fits(s, task[s])
         /\ \A s \in Subs : Len(task[s].queue) \in Nat /\ Len(task[s].lines) \in Nat
  <1>1. /\ row \in [Subs -> SubRow] /\ src \in [Subs -> Source] /\ task \in [Subs -> SubTask]
        /\ \A s \in Subs : /\ task[s].pos \in -1..MaxLines[s] /\ Len(task[s].queue) <= QueueSize
                           /\ task[s].fails \in 0..(MaxFailures - 1)
    BY DEF LogTyped, LogTypeOK
  <1>2. \A s \in Subs : MaxLines[s] \in Nat /\ MaxFailures \in Nat
    BY LogBounds
  <1>3. ASSUME NEW s \in Subs PROVE task[s] \in SubTask /\ row[s] \in SubRow /\ src[s] \in Source
    BY <1>1
  <1>4. ASSUME NEW s \in Subs PROVE Fits(s, task[s])
    BY <1>1, <1>2, <1>3, <1>4 DEF Fits
  <1>5. ASSUME NEW s \in Subs PROVE Len(task[s].queue) \in Nat /\ Len(task[s].lines) \in Nat
    <2>1. task[s].queue \in Seq(LogLine) /\ task[s].lines \in Seq(LogLine)
      BY <1>3 DEF SubTask
    <2> QED BY <2>1, LenProperties
  <1> QED BY <1>1, <1>3, <1>4, <1>5

\* One task is changed.
LEMMA TaskSet ==
  ASSUME task \in [Subs -> SubTask], \A r \in Subs : Fits(r, task[r]),
         NEW s \in Subs, NEW t, Fits(s, t), task' = [task EXCEPT ![s] = t]
  PROVE  /\ task' \in [Subs -> SubTask] /\ \A r \in Subs : Fits(r, task'[r])
         /\ task'[s] = t /\ Others(s)
<1>1. t \in SubTask
  BY DEF Fits
<1>2. /\ task' \in [Subs -> SubTask] /\ task'[s] = t
      /\ \A r \in Subs : r # s => task'[r] = task[r]
  BY <1>1
<1>3. \A r \in Subs : Fits(r, task'[r])
  BY <1>2
<1> QED BY <1>2, <1>3 DEF Others

LEMMA IdleFits ==
  ASSUME NEW s \in Subs, NEW on \in BOOLEAN
  PROVE  /\ Fits(s, [Idle EXCEPT !.on = on]) /\ Fits(s, Idle) /\ ~Idle.on
         /\ [Idle EXCEPT !.on = on].on = on
         /\ [Idle EXCEPT !.on = on].lines = << >> /\ [Idle EXCEPT !.on = on].queue = << >>
         /\ [Idle EXCEPT !.on = on].pos = -1
         /\ Idle.lines = << >> /\ Idle.queue = << >> /\ Idle.pos = -1
<1>1. << >> \in Seq(LogLine) /\ Len(<< >>) = 0
  BY EmptySeq
<1>2. MaxLines[s] \in Nat /\ MaxFailures \in Nat \ {0} /\ QueueSize \in Nat
  BY LogBounds
<1>3. -1 \in Int /\ 0 \in Nat
  OBVIOUS
<1>4. Idle \in SubTask
  BY <1>1, <1>3, ZenonT(40) DEF Idle, SubTask
<1>5. [Idle EXCEPT !.on = on] \in SubTask
  BY <1>4 DEF SubTask
<1>6. /\ Idle.lines = << >> /\ Idle.queue = << >> /\ Idle.pos = -1 /\ Idle.fails = 0 /\ ~Idle.on
  BY DEF Idle
<1>7. /\ [Idle EXCEPT !.on = on].on = on /\ [Idle EXCEPT !.on = on].fails = 0
      /\ [Idle EXCEPT !.on = on].lines = << >> /\ [Idle EXCEPT !.on = on].queue = << >>
      /\ [Idle EXCEPT !.on = on].pos = -1
  BY <1>4, <1>6 DEF SubTask
<1>8. ASSUME NEW t \in SubTask, t.queue = << >>, t.pos = -1, t.fails = 0
      PROVE  Fits(s, t)
  BY <1>1, <1>2, <1>8 DEF Fits
<1> QED BY <1>4, <1>5, <1>6, <1>7, <1>8

\* The calls, the end of a stream, and failing readers.
LEMMA CallsHalt ==
  ASSUME LogTyped, NEW s \in Subs,
         task' = Started(s) \/ task' = Stopped(s) \/ Backpressure(s) \/ ReaderFails(s)
  PROVE  /\ task' \in [Subs -> SubTask] /\ \A r \in Subs : Fits(r, task'[r]) /\ Halted(r)
         /\ Others(s)
<1>1. /\ task \in [Subs -> SubTask] /\ \A r \in Subs : Fits(r, task[r])
  BY LogTypes
<1>2. \A r \in Subs : r # s => (task'[r] = task[r] => Halted(r))
  BY DEF Halted
<1>3. ASSUME NEW t, Fits(s, t), task' = [task EXCEPT ![s] = t],
             \/ t.lines = task[s].lines /\ t.queue = task[s].queue /\ t.pos \in {task[s].pos, -1}
             \/ t.lines = << >> /\ t.queue = << >> /\ t.pos = -1
      PROVE  /\ task' \in [Subs -> SubTask] /\ \A r \in Subs : Fits(r, task'[r]) /\ Halted(r)
             /\ Others(s)
  <2>1. /\ task' \in [Subs -> SubTask] /\ \A r \in Subs : Fits(r, task'[r])
        /\ task'[s] = t /\ Others(s)
    BY <1>1, <1>3, TaskSet
  <2>2. Halted(s)
    BY <1>3, <2>1 DEF Halted
  <2> QED BY <1>2, <2>1, <2>2 DEF Others
<1>4. CASE task' = Stopped(s)
  BY <1>3, <1>4, IdleFits DEF Stopped
<1>5. CASE task' = Started(s)
  <2> DEFINE t == IF task[s].on THEN task[s] ELSE [Idle EXCEPT !.on = TRUE]
  <2>1. task' = [task EXCEPT ![s] = t]
    BY <1>5 DEF Started
  <2>2. Fits(s, t)
    BY <1>1, IdleFits
  <2>3. \/ t.lines = task[s].lines /\ t.queue = task[s].queue /\ t.pos \in {task[s].pos, -1}
        \/ t.lines = << >> /\ t.queue = << >> /\ t.pos = -1
    BY IdleFits
  <2> HIDE DEF t
  <2> QED BY <1>3, <2>1, <2>2, <2>3
<1>6. ASSUME NEW f \in 0..(MaxFailures - 1), task' = [task EXCEPT ![s].pos = -1, ![s].fails = f]
      PROVE  /\ task' \in [Subs -> SubTask] /\ \A r \in Subs : Fits(r, task'[r]) /\ Halted(r)
             /\ Others(s)
  <2> DEFINE t == [task[s] EXCEPT !.pos = -1, !.fails = f]
  <2>1. task' = [task EXCEPT ![s] = t]
    BY <1>1, <1>6
  <2>2. task[s] \in SubTask /\ MaxLines[s] \in Nat /\ MaxFailures \in Nat
    BY <1>1, LogBounds
  <2>3. /\ t \in SubTask /\ t.lines = task[s].lines /\ t.queue = task[s].queue /\ t.pos = -1
        /\ t.fails = f
    <3>1. f \in Nat /\ -1 \in Int
      BY <2>2
    <3>2. t \in SubTask
      BY <2>2, <3>1 DEF SubTask
    <3> QED BY <2>2, <3>2 DEF SubTask
  <2>4. Fits(s, t)
    BY <1>1, <1>6, <2>2, <2>3 DEF Fits
  <2> HIDE DEF t
  <2> QED BY <1>3, <2>1, <2>3, <2>4
<1>7. task[s].fails \in 0..(MaxFailures - 1) /\ task[s].fails \in Nat
  BY <1>1, LogBounds DEF Fits, SubTask
<1>8. CASE Backpressure(s)
  <2>1. task' = [task EXCEPT ![s].pos = -1]
    BY <1>8 DEF Backpressure
  <2>2. task' = [task EXCEPT ![s].pos = -1, ![s].fails = task[s].fails]
    BY <1>1, <2>1 DEF SubTask
  <2> QED BY <1>6, <1>7, <2>2
<1>9. CASE ReaderFails(s)
  <2>1. \/ task' = Reopen(s, task[s].fails)
        \/ task[s].fails + 1 < MaxFailures /\ task' = Reopen(s, task[s].fails + 1)
        \/ task' = Stopped(s)
    BY <1>9 DEF ReaderFails, TornDown
  <2>2. CASE task' = Reopen(s, task[s].fails)
    BY <1>6, <1>7, <2>2 DEF Reopen
  <2>3. CASE task[s].fails + 1 < MaxFailures /\ task' = Reopen(s, task[s].fails + 1)
    <3>1. task[s].fails + 1 \in 0..(MaxFailures - 1)
      BY <1>7, <2>3, LogBounds
    <3> QED BY <1>6, <2>3, <3>1 DEF Reopen
  <2> QED BY <1>4, <2>1, <2>2, <2>3
<1> QED BY <1>4, <1>5, <1>8, <1>9

\* A line of the source, and the end of the cursor's line.
LEMMA LineTyped ==
  ASSUME LogTyped, NEW s \in Subs, NEW i \in Nat, NEW lag \in Int
  PROVE  /\ Line(s, i, lag) \in LogLine /\ Line(s, i, lag).s = s /\ Line(s, i, lag).off = i
         /\ Line(s, i, lag).lag = lag /\ Line(s, i, lag).text = src[s].text
<1>1. src[s] \in Source
  BY LogTypes
<1>2. src[s].gen \in Nat /\ src[s].text \in Nat
  BY <1>1 DEF Source
<1> QED BY <1>2 DEF Line, LogLine

LEMMA FragmentTyped ==
  ASSUME LogTyped, NEW s \in Subs, row[s].lag > 1
  PROVE  /\ Fragment(s) \in LogLine /\ Fragment(s).s = s /\ Fragment(s).off = row[s].cursor
         /\ Fragment(s).lag = 0 /\ Fragment(s).text = row[s].lag
<1> DEFINE l == Line(s, row[s].cursor, 0)
<1>1. row[s].cursor \in Nat /\ row[s].lag \in Int /\ row[s].lag \in Nat
  <2>1. row[s] \in SubRow
    BY LogTypes
  <2> QED BY <2>1 DEF SubRow
<1>2. l \in LogLine /\ l.s = s /\ l.off = row[s].cursor /\ l.lag = 0
  BY <1>1, LineTyped
<1>3. Fragment(s) = [l EXCEPT !.text = row[s].lag]
  BY DEF Fragment
<1> HIDE DEF l
<1> QED BY <1>1, <1>2, <1>3 DEF LogLine

\* The lines of a poll: those below a place, and before them the end of the line
\* there when the cursor lags.
FullLine(s, i, l) ==
  l \in LogLine /\ l.s = s /\ l.off = i /\ l.text = src[s].text /\ (Blank \/ l.lag = 0)

LEMMA BelowTyped ==
  ASSUME LogTyped, SourcesKept, NEW s \in Subs, NEW from \in Nat, from <= src[s].len,
         NEW lag \in Int, Blank \/ lag = 0
  PROVE  /\ LinesBelow(s, from, lag) \in Seq(LogLine) /\ Len(LinesBelow(s, from, lag)) = src[s].len - from
         /\ \A i \in 1..(src[s].len - from) : FullLine(s, from + i, LinesBelow(s, from, lag)[i])
<1> DEFINE n == src[s].len - from
           lags(i) == lag + Above(s, from + i) - Above(s, from)
<1>1. src[s] \in Source /\ Len(src[s].above) = src[s].len
      /\ (Blank \/ \A i \in 1..src[s].len : src[s].above[i] = 0)
  BY LogTypes DEF LogTyped, LogTypeOK, SourcesKept, SourceKept
<1>2. src[s].len \in Nat /\ src[s].above \in Seq(Nat)
  BY <1>1 DEF Source
<1>3. \A i \in 1..src[s].len : src[s].above[i] \in Nat
  BY <1>1, <1>2, ElementOfSeq
<1>4. n \in Nat
  BY <1>2
<1>5. ASSUME NEW i \in Nat, i <= src[s].len
      PROVE  Above(s, i) \in Nat /\ (Blank \/ Above(s, i) = 0)
  <2>1. CASE i = 0
    BY <2>1 DEF Above
  <2>2. CASE i # 0
    <3>1. i \in 1..src[s].len
      BY <1>2, <1>5, <2>2
    <3> QED BY <1>1, <1>3, <2>2, <3>1 DEF Above
  <2> QED BY <2>1, <2>2
<1>6. LinesBelow(s, from, lag) = [i \in 1..n |-> Line(s, from + i, lags(i))]
  BY DEF LinesBelow
<1>7. ASSUME NEW i \in 1..n
      PROVE  FullLine(s, from + i, Line(s, from + i, lags(i)))
  <2>1. from + i \in Nat /\ from + i <= src[s].len
    BY <1>2
  <2>2. lags(i) \in Int /\ (Blank \/ lags(i) = 0)
    <3>1. /\ Above(s, from + i) \in Nat /\ (Blank \/ Above(s, from + i) = 0)
          /\ Above(s, from) \in Nat /\ (Blank \/ Above(s, from) = 0)
      BY <1>5, <2>1
    <3> QED BY <3>1
  <2>3. PICK g \in Int : g = lags(i) /\ (Blank \/ g = 0)
    BY <2>2
  <2> HIDE DEF lags
  <2>4. PICK o \in Nat : o = from + i
    BY <2>1
  <2>5. FullLine(s, o, Line(s, o, g))
    BY <2>3, LineTyped DEF FullLine
  <2> QED BY <2>3, <2>4, <2>5
<1> HIDE DEF n, lags
<1>8. LinesBelow(s, from, lag) \in Seq(LogLine) /\ Len(LinesBelow(s, from, lag)) = n
  <2>1. \A i \in 1..n : Line(s, from + i, lags(i)) \in LogLine
    BY <1>7 DEF FullLine
  <2> QED BY <1>4, <1>6, <2>1, SeqDef, LenProperties
<1>9. \A i \in 1..n : FullLine(s, from + i, LinesBelow(s, from, lag)[i])
  BY <1>6, <1>7
<1> QED BY <1>8, <1>9 DEF n

Polled(s, from, h) ==
  /\ from \in Nat /\ from <= src[s].len /\ from \in {0, row[s].cursor}
  /\ h \in {0, 1} /\ (h = 1 => from = row[s].cursor /\ row[s].lag > 1 /\ NewLines(s)[1] = Fragment(s))
  /\ NewLines(s) \in Seq(LogLine) /\ Len(NewLines(s)) = h + (src[s].len - from)
  /\ \A i \in 1..(src[s].len - from) : FullLine(s, from + i, NewLines(s)[h + i])

LEMMA LinesPolled ==
  ASSUME LogTyped, SourcesKept, NEW s \in Subs
  PROVE  \E from \in Nat, h \in {0, 1} : Polled(s, from, h)
<1>1. src[s].len \in Nat /\ row[s].cursor \in Nat /\ row[s].lag \in Int
  BY LogTypes DEF Source, SubRow
<1>2. Blank \/ row[s].lag = 0
  BY DEF SourcesKept, SourceKept
<1>3. ASSUME NEW from \in Nat, from <= src[s].len, from \in {0, row[s].cursor}, NEW lag \in Int,
             Blank \/ lag = 0, NewLines(s) = LinesBelow(s, from, lag)
      PROVE  Polled(s, from, 0)
  <2>1. /\ LinesBelow(s, from, lag) \in Seq(LogLine) /\ Len(LinesBelow(s, from, lag)) = src[s].len - from
        /\ \A i \in 1..(src[s].len - from) : FullLine(s, from + i, LinesBelow(s, from, lag)[i])
    BY <1>3, BelowTyped
  <2>2. 0 + (src[s].len - from) = src[s].len - from /\ \A i \in 1..(src[s].len - from) : 0 + i = i
    BY <1>1
  <2>3. 0 \in {0, 1} /\ 0 # 1
    OBVIOUS
  <2> QED BY <1>3, <2>1, <2>2, <2>3 DEF Polled
<1>4. CASE src[s].len < row[s].cursor
  <2>1. NewLines(s) = LinesBelow(s, 0, 0)
    BY <1>4 DEF NewLines
  <2>2. 0 \in Nat /\ 0 \in Int /\ 0 <= src[s].len
    BY <1>1
  <2> QED BY <1>3, <2>1, <2>2
<1>5. CASE ~(src[s].len < row[s].cursor) /\ ~(row[s].lag > 1)
  <2>1. NewLines(s) = LinesBelow(s, row[s].cursor, row[s].lag)
    BY <1>5 DEF NewLines
  <2>2. row[s].cursor <= src[s].len
    BY <1>1, <1>5
  <2> QED BY <1>1, <1>2, <1>3, <2>1, <2>2
<1>6. CASE ~(src[s].len < row[s].cursor) /\ row[s].lag > 1
  <2> DEFINE from == row[s].cursor
             below == LinesBelow(s, from, 0)
             n == src[s].len - from
  <2>1. from \in Nat /\ from <= src[s].len /\ n \in Nat
    BY <1>1, <1>6
  <2>2. /\ below \in Seq(LogLine) /\ Len(below) = n
        /\ \A i \in 1..n : FullLine(s, from + i, below[i])
    BY <2>1, BelowTyped
  <2>3. NewLines(s) = <<Fragment(s)>> \o below
    BY <1>6 DEF NewLines
  <2> HIDE DEF below, n
  <2>4. <<Fragment(s)>> \in Seq(LogLine) /\ Len(<<Fragment(s)>>) = 1 /\ <<Fragment(s)>>[1] = Fragment(s)
    BY <1>6, FragmentTyped
  <2>5. /\ NewLines(s) \in Seq(LogLine) /\ Len(NewLines(s)) = 1 + n
        /\ \A i \in 1..(1 + n) : NewLines(s)[i] = IF i <= 1 THEN <<Fragment(s)>>[i] ELSE below[i - 1]
    BY <2>2, <2>3, <2>4, ConcatProperties
  <2>6. NewLines(s)[1] = Fragment(s)
    <3>1. 1 \in 1..(1 + n) /\ 1 <= 1
      BY <2>1
    <3> QED BY <2>4, <2>5, <3>1
  <2>7. ASSUME NEW i \in 1..n PROVE FullLine(s, from + i, NewLines(s)[1 + i])
    <3>1. 1 + i \in 1..(1 + n) /\ ~(1 + i <= 1) /\ (1 + i) - 1 = i
      BY <2>1
    <3>2. NewLines(s)[1 + i] = below[i]
      BY <2>5, <3>1
    <3> QED BY <2>2, <3>2
  <2>8. Polled(s, row[s].cursor, 1)
    BY <1>6, <2>1, <2>5, <2>6, <2>7 DEF Polled, n
  <2> QED BY <1>1, <2>8
<1> QED BY <1>4, <1>5, <1>6

LEMMA PollSets ==
  ASSUME LogTyped, SourcesKept, NEW s \in Subs, PollFile(s)
  PROVE  /\ task' \in [Subs -> SubTask] /\ (\A r \in Subs : Fits(r, task'[r])) /\ Others(s)
         /\ task[s].lines = << >> /\ Kind[s] = "file"
         /\ task'[s].lines = NewLines(s) /\ task'[s].queue = task[s].queue
         /\ task'[s].pos = task[s].pos /\ task'[s].on = task[s].on
<1> DEFINE t == [task[s] EXCEPT !.lines = NewLines(s), !.fails = 0]
<1>1. task \in [Subs -> SubTask] /\ task[s] \in SubTask /\ \A r \in Subs : Fits(r, task[r])
  BY LogTypes
<1>2. task' = [task EXCEPT ![s] = t] /\ task[s].lines = << >> /\ Kind[s] = "file"
  BY <1>1 DEF PollFile
<1>3. NewLines(s) \in Seq(LogLine)
  BY LinesPolled DEF Polled
<1>4. 0 \in Nat /\ 0 <= MaxFailures - 1
  BY LogBounds
<1>5. /\ t \in SubTask /\ t.lines = NewLines(s) /\ t.queue = task[s].queue
      /\ t.pos = task[s].pos /\ t.fails = 0 /\ t.on = task[s].on
  BY <1>1, <1>3, <1>4 DEF SubTask
<1>6. Fits(s, t)
  BY <1>1, <1>4, <1>5 DEF Fits
<1> HIDE DEF t
<1> QED BY <1>1, <1>2, <1>5, <1>6, TaskSet

\* A line put behind the queue.
Put(s, l) ==
  /\ task'[s].queue = Append(task[s].queue, l) /\ Len(task[s].queue) \in Nat
  /\ Len(task'[s].queue) = Len(task[s].queue) + 1
  /\ \A i \in 1..Len(task[s].queue) : task'[s].queue[i] = task[s].queue[i]
  /\ task'[s].queue[Len(task[s].queue) + 1] = l

LEMMA PutSets ==
  ASSUME LogTyped, NEW s \in Subs, PutLine(s)
  PROVE  /\ task' \in [Subs -> SubTask] /\ (\A r \in Subs : Fits(r, task'[r])) /\ Others(s)
         /\ task'[s].pos = task[s].pos /\ task'[s].on = task[s].on
         /\ Len(task[s].lines) >= 1 /\ Len(task'[s].lines) = Len(task[s].lines) - 1
         /\ \A i \in 1..Len(task'[s].lines) : task'[s].lines[i] = task[s].lines[i + 1]
         /\ Put(s, task[s].lines[1])
<1> DEFINE old == task[s]
           t == [old EXCEPT !.queue = Append(old.queue, Head(old.lines)), !.lines = Tail(old.lines)]
<1>1. task \in [Subs -> SubTask] /\ old \in SubTask /\ \A r \in Subs : Fits(r, task[r])
  BY LogTypes
<1>2. task' = [task EXCEPT ![s] = t]
  BY <1>1 DEF PutLine
<1>3. old.lines \in Seq(LogLine) /\ old.queue \in Seq(LogLine) /\ old.lines # << >>
  BY <1>1 DEF PutLine, SubTask
<1>4. /\ Head(old.lines) = old.lines[1] /\ old.lines[1] \in LogLine
      /\ Tail(old.lines) \in Seq(LogLine) /\ Len(Tail(old.lines)) = Len(old.lines) - 1
      /\ Len(old.lines) \in Nat /\ Len(old.lines) >= 1
      /\ \A i \in 1..Len(Tail(old.lines)) : Tail(old.lines)[i] = old.lines[i + 1]
  BY <1>3, HeadTailProperties, ElementOfSeq, EmptySeq, LenProperties
<1>5. /\ Append(old.queue, Head(old.lines)) \in Seq(LogLine) /\ Len(old.queue) \in Nat
      /\ Len(Append(old.queue, Head(old.lines))) = Len(old.queue) + 1
      /\ \A i \in 1..Len(old.queue) : Append(old.queue, Head(old.lines))[i] = old.queue[i]
      /\ Append(old.queue, Head(old.lines))[Len(old.queue) + 1] = Head(old.lines)
  BY <1>3, <1>4, AppendProperties, LenProperties
<1>6. /\ t \in SubTask /\ t.lines = Tail(old.lines) /\ t.queue = Append(old.queue, Head(old.lines))
      /\ t.pos = old.pos /\ t.fails = old.fails /\ t.on = old.on
  BY <1>1, <1>4, <1>5 DEF SubTask
<1>7. Len(old.queue) + 1 <= QueueSize
  BY <1>5, LogBounds DEF PutLine
<1>8. Fits(s, t)
  BY <1>1, <1>5, <1>6, <1>7 DEF Fits
<1> HIDE DEF t
<1>9. /\ task' \in [Subs -> SubTask] /\ (\A r \in Subs : Fits(r, task'[r])) /\ Others(s)
      /\ task'[s] = t
  BY <1>1, <1>2, <1>8, TaskSet
<1> QED BY <1>4, <1>5, <1>6, <1>9 DEF Put

LEMMA StreamSets ==
  ASSUME LogTyped, SourcesKept, NEW s \in Subs, StreamLine(s)
  PROVE  /\ task' \in [Subs -> SubTask] /\ (\A r \in Subs : Fits(r, task'[r])) /\ Others(s)
         /\ task'[s].pos = task[s].pos + 1 /\ task'[s].on = task[s].on
         /\ task'[s].lines = task[s].lines
         /\ task[s].pos \in Nat /\ task[s].pos < src[s].len
         /\ Put(s, Line(s, task[s].pos + 1, 0))
<1> DEFINE old == task[s]
           l == Line(s, old.pos + 1, 0)
           t == [old EXCEPT !.pos = old.pos + 1, !.queue = Append(old.queue, l)]
<1>1. task \in [Subs -> SubTask] /\ old \in SubTask /\ (\A r \in Subs : Fits(r, task[r]))
      /\ src[s] \in Source
  BY LogTypes
<1>2. task' = [task EXCEPT ![s] = t]
  BY <1>1 DEF StreamLine
<1>3. src[s].len \in Nat /\ src[s].len <= MaxLines[s] /\ MaxLines[s] \in Nat
  BY <1>1, LogBounds DEF SourcesKept, SourceKept, Source
<1>4. old.pos \in Nat /\ old.pos < src[s].len
  BY <1>3 DEF StreamLine
<1>5. l \in LogLine /\ old.queue \in Seq(LogLine)
  <2>1. old.pos + 1 \in Nat
    BY <1>4
  <2> QED BY <1>1, <2>1, LineTyped DEF SubTask
<1>6. /\ Append(old.queue, l) \in Seq(LogLine) /\ Len(old.queue) \in Nat
      /\ Len(Append(old.queue, l)) = Len(old.queue) + 1
      /\ \A i \in 1..Len(old.queue) : Append(old.queue, l)[i] = old.queue[i]
      /\ Append(old.queue, l)[Len(old.queue) + 1] = l
  BY <1>5, AppendProperties, LenProperties
<1> HIDE DEF l
<1>7. /\ t \in SubTask /\ t.lines = old.lines /\ t.queue = Append(old.queue, l)
      /\ t.pos = old.pos + 1 /\ t.fails = old.fails /\ t.on = old.on
  <2>1. old.pos + 1 \in Int /\ Append(old.queue, l) \in Seq(LogLine) /\ old \in SubTask
    BY <1>1, <1>4, <1>6
  <2>2. t \in SubTask
    BY <2>1 DEF SubTask
  <2> QED BY <2>1, <2>2 DEF SubTask
<1>8. Len(old.queue) + 1 <= QueueSize
  BY <1>6, LogBounds DEF StreamLine
<1>9. Fits(s, t)
  BY <1>1, <1>3, <1>4, <1>6, <1>7, <1>8 DEF Fits
<1> HIDE DEF t
<1>10. /\ task' \in [Subs -> SubTask] /\ (\A r \in Subs : Fits(r, task'[r])) /\ Others(s)
       /\ task'[s] = t
  BY <1>1, <1>2, <1>9, TaskSet
<1> QED BY <1>4, <1>6, <1>7, <1>10 DEF Put, l

\* The writer takes a batch from the queue.
LEMMA TakeSets ==
  ASSUME LogTyped, NEW s \in Subs, task[s].queue # << >>, task' = [task EXCEPT ![s].queue = Rest(s)]
  PROVE  /\ task' \in [Subs -> SubTask] /\ (\A r \in Subs : Fits(r, task'[r])) /\ Others(s)
         /\ task'[s].pos = task[s].pos /\ task'[s].on = task[s].on
         /\ task'[s].lines = task[s].lines /\ task'[s].queue = Rest(s)
         /\ Len(task[s].queue) \in Nat /\ \E n \in 1..Len(task[s].queue) : Taken(s, n)
<1> DEFINE old == task[s]
           t == [old EXCEPT !.queue = Rest(s)]
<1>1. task \in [Subs -> SubTask] /\ old \in SubTask /\ \A r \in Subs : Fits(r, task[r])
  BY LogTypes
<1>2. task' = [task EXCEPT ![s] = t]
  BY <1>1
<1>3. old.queue \in Seq(LogLine) /\ Len(old.queue) \in Nat
  BY <1>1, LenProperties DEF SubTask
<1>4. PICK n \in 1..Len(old.queue) : Taken(s, n)
  BY <1>3, BatchTaken
<1>5. Rest(s) \in Seq(LogLine) /\ Len(Rest(s)) = Len(old.queue) - n
  BY <1>4 DEF Taken
<1>6. Len(Rest(s)) <= QueueSize
  <2>1. Len(old.queue) <= QueueSize /\ QueueSize \in Nat
    BY <1>1, LogBounds DEF Fits
  <2> QED BY <1>3, <1>4, <1>5, <2>1
<1>7. /\ t \in SubTask /\ t.lines = old.lines /\ t.queue = Rest(s)
      /\ t.pos = old.pos /\ t.fails = old.fails /\ t.on = old.on
  BY <1>1, <1>5 DEF SubTask
<1>8. Fits(s, t)
  BY <1>1, <1>6, <1>7 DEF Fits
<1> HIDE DEF t
<1>9. /\ task' \in [Subs -> SubTask] /\ (\A r \in Subs : Fits(r, task'[r])) /\ Others(s)
      /\ task'[s] = t
  BY <1>1, <1>2, <1>8, TaskSet
<1> QED BY <1>3, <1>4, <1>7, <1>9

\* A docker stream is opened at p.
LEMMA OpenSets ==
  ASSUME LogTyped, SourcesKept, NEW s \in Subs, OpenStream(s)
  PROVE  /\ task' \in [Subs -> SubTask] /\ (\A r \in Subs : Fits(r, task'[r])) /\ Others(s)
         /\ Kind[s] = "docker" /\ task'[s].on = task[s].on
         /\ task'[s].lines = task[s].lines /\ task'[s].queue = task[s].queue
         /\ task'[s].pos \in Nat /\ task'[s].pos <= src[s].len
         /\ \/ row' = row /\ task'[s].pos = row[s].cursor - 1
            \/ /\ row[s].cursor = 0 /\ row[s].from <= task'[s].pos
               /\ row' = [row EXCEPT ![s].from = task'[s].pos]
<1> DEFINE old == task[s]
<1>1. task \in [Subs -> SubTask] /\ old \in SubTask /\ (\A r \in Subs : Fits(r, task[r]))
      /\ row[s] \in SubRow /\ src[s] \in Source
  BY LogTypes
<1>2. /\ row[s].cursor \in Nat /\ row[s].from \in Nat /\ src[s].len \in Nat
      /\ src[s].len <= MaxLines[s] /\ MaxLines[s] \in Nat /\ Kind[s] = "docker"
      /\ row[s].cursor <= src[s].len
  <2>1. Kind[s] = "docker" /\ Kind[s] # "file"
    BY DEF OpenStream
  <2> QED BY <1>1, <2>1, LogBounds DEF SourcesKept, SourceKept, Source, SubRow
<1>3. ASSUME NEW p \in Nat, p <= src[s].len, task' = [task EXCEPT ![s].pos = p]
      PROVE  /\ task' \in [Subs -> SubTask] /\ (\A r \in Subs : Fits(r, task'[r])) /\ Others(s)
             /\ task'[s].on = task[s].on /\ task'[s].lines = task[s].lines
             /\ task'[s].queue = task[s].queue /\ task'[s].pos = p
  <2> DEFINE t == [old EXCEPT !.pos = p]
  <2>1. task' = [task EXCEPT ![s] = t]
    BY <1>1, <1>3
  <2>2. /\ t \in SubTask /\ t.lines = old.lines /\ t.queue = old.queue
        /\ t.pos = p /\ t.fails = old.fails /\ t.on = old.on
    <3>1. p \in Int /\ old \in SubTask
      BY <1>1
    <3>2. t \in SubTask
      BY <3>1 DEF SubTask
    <3> QED BY <3>1, <3>2 DEF SubTask
  <2>3. Fits(s, t)
    BY <1>1, <1>2, <1>3, <2>2 DEF Fits
  <2> HIDE DEF t
  <2> QED BY <1>1, <2>1, <2>2, <2>3, TaskSet
<1>4. CASE row[s].cursor > 0
  <2>1. task' = [task EXCEPT ![s].pos = row[s].cursor - 1] /\ row' = row
    BY <1>4 DEF OpenStream, Since
  <2>2. row[s].cursor - 1 \in Nat /\ row[s].cursor - 1 <= src[s].len
    BY <1>2, <1>4
  <2> QED BY <1>2, <1>3, <2>1, <2>2
<1>5. CASE ~(row[s].cursor > 0)
  <2>1. row[s].cursor = 0
    BY <1>2, <1>5
  <2>2. PICK p \in row[s].from..src[s].len :
          task' = [task EXCEPT ![s].pos = p] /\ row' = [row EXCEPT ![s].from = p]
    BY <1>5 DEF OpenStream
  <2>3. p \in Nat /\ p <= src[s].len /\ row[s].from <= p
    BY <1>2
  <2> QED BY <1>2, <1>3, <2>1, <2>2, <2>3
<1> QED BY <1>4, <1>5

\* A restart.
LEMMA RestartHalts ==
  ASSUME LogTyped, Restart
  PROVE  /\ task' \in [Subs -> SubTask] /\ \A r \in Subs : Fits(r, task'[r]) /\ Halted(r)
         /\ \A r \in Subs : task'[r].on => row[r].status = "active"
<1>1. PICK on \in [Subs -> BOOLEAN] :
        /\ task' = [r \in Subs |-> IF on[r] THEN [Idle EXCEPT !.on = TRUE] ELSE Idle]
        /\ \A r \in Subs : on[r] => row[r].status = "active"
  <2> DEFINE active == {s \in Subs : row[s].status = "active"}
             on == [r \in Subs |-> r \in active /\ Cardinality({k \in active : k < r}) < MaxActive]
  <2>1. task' = [r \in Subs |-> IF r \in active /\ Cardinality({k \in active : k < r}) < MaxActive
                                THEN [Idle EXCEPT !.on = TRUE] ELSE Idle]
    BY DEF Restart
  <2>2. on \in [Subs -> BOOLEAN]
    OBVIOUS
  <2> QED BY <2>1, <2>2
<1>2. ASSUME NEW r \in Subs
      PROVE  /\ Fits(r, task'[r]) /\ Halted(r) /\ task'[r] \in SubTask
             /\ task'[r].on => row[r].status = "active"
  <2>1. task'[r] = IF on[r] THEN [Idle EXCEPT !.on = TRUE] ELSE Idle
    BY <1>1
  <2>2. CASE on[r]
    BY <1>1, <2>1, <2>2, IdleFits DEF Halted, Fits
  <2>3. CASE ~on[r]
    BY <1>1, <2>1, <2>3, IdleFits DEF Halted, Fits
  <2> QED BY <2>2, <2>3
<1>3. task' \in [Subs -> SubTask]
  <2>1. task' = [r \in Subs |-> task'[r]]
    BY <1>1
  <2> QED BY <1>2, <2>1
<1> QED BY <1>2, <1>3

\* What the writer shows to the sockets.
Published(s, b) ==
  /\ view' \in Socket /\ Len(view'.q) <= LiveSize
  /\ view'.st = view.st /\ view'.kind = view.kind /\ view'.pos = view.pos
  /\ view'.last = view.last /\ view'.seen = view.seen
  /\ opened' \in {opened, opened \cup {"overflow"}}
  /\ "overflow" \notin opened' /\ view.st # "off" =>
       /\ \A i \in 1..Len(view.q) : \E k \in 1..Len(view'.q) : view'.q[k] = view.q[i]
       /\ view.kind = "product" \/ s = 1 =>
            \A i \in 1..Len(b) : \E k \in 1..Len(view'.q) : view'.q[k] = b[i]

LEMMA Publishes ==
  ASSUME LogTyped, NEW s \in Subs, NEW b \in Seq(LogLine), PublishLive(s, b)
  PROVE  Published(s, b)
<1>1. view \in Socket /\ view.q \in Seq(LogLine) /\ Len(view.q) \in Nat /\ Len(view.q) <= LiveSize
  <2>1. view \in Socket /\ Len(view.q) <= LiveSize
    BY DEF LogTyped, LogTypeOK
  <2>2. view.q \in Seq(LogLine)
    BY <2>1 DEF Socket
  <2> QED BY <2>1, <2>2, LenProperties
<1>2. CASE view.st = "off"
  <2>1. view' = view /\ opened' = opened
    BY <1>2 DEF PublishLive
  <2> QED BY <1>1, <1>2, <2>1 DEF Published
<1>3. CASE view.st # "off"
  <2> DEFINE all == IF view.kind = "product" \/ s = 1 THEN view.q \o b ELSE view.q
             over == Len(all) > LiveSize
             q == IF over THEN SubSeq(all, Len(all) - LiveSize + 1, Len(all)) ELSE all
  <2>1. /\ view' = [view EXCEPT !.q = q]
        /\ opened' = opened \cup (IF over THEN {"overflow"} ELSE {})
    BY <1>3 DEF PublishLive
  <2>2. /\ view.q \o b \in Seq(LogLine) /\ Len(b) \in Nat /\ Len(view.q \o b) = Len(view.q) + Len(b)
        /\ \A i \in 1..Len(view.q) + Len(b) :
             (view.q \o b)[i] = IF i <= Len(view.q) THEN view.q[i] ELSE b[i - Len(view.q)]
    BY <1>1, ConcatProperties, LenProperties
  <2>3. /\ all \in Seq(LogLine) /\ Len(all) \in Nat
        /\ \A i \in 1..Len(view.q) : i \in 1..Len(all) /\ all[i] = view.q[i]
        /\ view.kind = "product" \/ s = 1 =>
             \A i \in 1..Len(b) : Len(view.q) + i \in 1..Len(all) /\ all[Len(view.q) + i] = b[i]
    <3>1. CASE view.kind = "product" \/ s = 1
      <4>1. all = view.q \o b
        BY <3>1
      <4>2. ASSUME NEW i \in 1..Len(view.q) PROVE i \in 1..Len(all) /\ all[i] = view.q[i]
        BY <1>1, <2>2, <4>1
      <4>3. ASSUME NEW i \in 1..Len(b)
            PROVE  Len(view.q) + i \in 1..Len(all) /\ all[Len(view.q) + i] = b[i]
        <5>1. /\ Len(view.q) + i \in 1..Len(view.q) + Len(b) /\ ~(Len(view.q) + i <= Len(view.q))
              /\ (Len(view.q) + i) - Len(view.q) = i
          BY <1>1, <2>2
        <5> QED BY <2>2, <4>1, <5>1
      <4>4. all \in Seq(LogLine) /\ Len(all) \in Nat
        BY <1>1, <2>2, <4>1
      <4> QED BY <4>2, <4>3, <4>4
    <3>2. CASE ~(view.kind = "product" \/ s = 1)
      BY <1>1, <3>2
    <3> QED BY <3>1, <3>2
  <2> HIDE DEF all
  <2>4. q \in Seq(LogLine) /\ Len(q) <= LiveSize
    <3>1. LiveSize \in Nat \ {0}
      BY LogBounds
    <3>2. CASE over
      <4>1. /\ Len(all) - LiveSize + 1 \in 1..Len(all) + 1 /\ Len(all) - LiveSize + 1 \in 1..Len(all)
            /\ Len(all) \in (Len(all) - LiveSize + 1) - 1..Len(all)
        BY <2>3, <3>1, <3>2
      <4>2. /\ SubSeq(all, Len(all) - LiveSize + 1, Len(all)) \in Seq(LogLine)
            /\ Len(SubSeq(all, Len(all) - LiveSize + 1, Len(all)))
                 = Len(all) - (Len(all) - LiveSize + 1) + 1
        BY <2>3, <4>1, SubSeqProperties
      <4> QED BY <2>3, <3>1, <3>2, <4>2
    <3>3. CASE ~over
      BY <2>3, <3>1, <3>3
    <3> QED BY <3>2, <3>3
  <2>5. "overflow" \notin opened' => q = all
    BY <2>1
  <2> HIDE DEF q
  <2>6. view' \in Socket /\ view'.q = q
    <3>1. view \in Socket /\ q \in Seq(LogLine)
      BY <1>1, <2>4
    <3> QED BY <2>1, <3>1 DEF Socket
  <2>7. /\ view'.st = view.st /\ view'.kind = view.kind /\ view'.pos = view.pos
        /\ view'.last = view.last /\ view'.seen = view.seen
    BY <1>1, <2>1 DEF Socket
  <2>8. opened' \in {opened, opened \cup {"overflow"}}
    BY <2>1
  <2>9. ASSUME "overflow" \notin opened'
        PROVE  /\ \A i \in 1..Len(view.q) : \E k \in 1..Len(view'.q) : view'.q[k] = view.q[i]
               /\ view.kind = "product" \/ s = 1 =>
                    \A i \in 1..Len(b) : \E k \in 1..Len(view'.q) : view'.q[k] = b[i]
    BY <2>3, <2>5, <2>6, <2>9
  <2> QED BY <2>4, <2>6, <2>7, <2>8, <2>9 DEF Published
<1> QED BY <1>2, <1>3

\* The cursor and the promise of a row are left as they are.
RowSame(r) ==
  row'[r].cursor = row[r].cursor /\ row'[r].lag = row[r].lag /\ row'[r].from = row[r].from

\* A row gets another status.
LEMMA StatusSet ==
  ASSUME LogTyped, NEW s \in Subs, NEW st \in {"none", "active", "paused", "error", "deleted"},
         row' = [row EXCEPT ![s].status = st]
  PROVE  /\ row' \in [Subs -> SubRow] /\ (\A r \in Subs : RowSame(r)) /\ row'[s].status = st
         /\ \A r \in Subs : r # s => row'[r] = row[r]
<1> DEFINE new == [row[s] EXCEPT !.status = st]
<1>1. row \in [Subs -> SubRow] /\ row[s] \in SubRow
  BY LogTypes
<1>2. row' = [row EXCEPT ![s] = new]
  BY <1>1
<1>3. new \in SubRow /\ new.cursor = row[s].cursor /\ new.lag = row[s].lag
      /\ new.from = row[s].from /\ new.status = st
  BY <1>1 DEF SubRow
<1> HIDE DEF new
<1>4. /\ row' \in [Subs -> SubRow] /\ row'[s] = new
      /\ \A r \in Subs : r # s => row'[r] = row[r]
  BY <1>1, <1>2, <1>3
<1> QED BY <1>3, <1>4 DEF RowSame

LEMMA StatusMoved ==
  ASSUME LogTyped, NEW s \in Subs, MoveStatus(s, {"active"}, "paused")
  PROVE  /\ row' \in [Subs -> SubRow] /\ (\A r \in Subs : RowSame(r))
         /\ row'[s].status \in {row[s].status, "paused"}
         /\ \A r \in Subs : r # s => row'[r] = row[r]
<1>1. row' = [row EXCEPT ![s].status = "paused"] \/ row' = row
  BY DEF MoveStatus
<1>2. CASE row' = row
  BY <1>2, LogTypes DEF RowSame
<1> QED BY <1>1, <1>2, StatusSet

-----------------------------------------------------------------------------
(* Calls, failing readers, the end of a stream. *)

CallStep(s) ==
  \/ Create(s) \/ Pause(s) \/ Delete(s) \/ Resume(s) \/ (\E call \in {"pause", "delete"} : Marked(s, call))
  \/ ReaderFails(s) \/ Backpressure(s)

\* What such a step does to its row: it keeps it, starts it, marks it, or ends it.
RowMoved(s) ==
  /\ row' \in [Subs -> SubRow] /\ (\A r \in Subs : RowSame(r))
  /\ \A r \in Subs : r # s => row'[r] = row[r]
  /\ row[s].status # "none" => row'[s].status # "none"

LEMMA RowMoves ==
  ASSUME LogTyped, NEW s \in Subs, CallStep(s)
  PROVE  RowMoved(s)
<1>1. CASE row' = row
  BY <1>1, LogTypes DEF RowMoved, RowSame
<1>2. CASE MoveStatus(s, {"active"}, "paused")
  BY <1>2, StatusMoved DEF RowMoved
<1>3. ASSUME NEW st \in {"active", "error", "deleted"}, row' = [row EXCEPT ![s].status = st]
      PROVE  RowMoved(s)
  BY <1>3, StatusSet DEF RowMoved
<1>4. \/ row' = row \/ MoveStatus(s, {"active"}, "paused")
      \/ \E st \in {"active", "error", "deleted"} : row' = [row EXCEPT ![s].status = st]
  <2>1. CASE Create(s) \/ Resume(s)
    BY <2>1 DEF Create, CreateSubscription, Resume
  <2>2. CASE Pause(s) \/ Delete(s)
    BY <2>2 DEF Pause, Delete
  <2>3. ASSUME NEW call \in {"pause", "delete"}, Marked(s, call)
        PROVE  \/ MoveStatus(s, {"active"}, "paused")
               \/ row' = [row EXCEPT ![s].status = "deleted"]
    BY <2>3 DEF Marked
  <2>4. CASE ReaderFails(s) \/ Backpressure(s)
    BY <2>4 DEF ReaderFails, Backpressure
  <2> QED BY <2>1, <2>2, <2>3, <2>4 DEF CallStep
<1> QED BY <1>1, <1>2, <1>3, <1>4

\* What it does to the tasks.
TasksMoved(s) ==
  /\ task' \in [Subs -> SubTask] /\ (\A r \in Subs : Fits(r, task'[r]) /\ Halted(r)) /\ Others(s)
  /\ UNCHANGED <<src, records, view>>
  /\ waiting' \in [Subs -> SUBSET {"pause", "delete"}]
  /\ \A r \in Subs : r # s => waiting'[r] = waiting[r]
  /\ opened' \in SUBSET (opened \cup {"crossed", "overcap"}) /\ opened \subseteq opened'

LEMMA TasksMove ==
  ASSUME LogTyped, NEW s \in Subs, CallStep(s)
  PROVE  TasksMoved(s)
<1>1. task \in [Subs -> SubTask] /\ (\A r \in Subs : Fits(r, task[r]))
      /\ waiting \in [Subs -> SUBSET {"pause", "delete"}]
  BY LogTypes DEF LogTyped, LogTypeOK
<1>2. \/ task' = Started(s) \/ task' = Stopped(s) \/ Backpressure(s) \/ ReaderFails(s)
      \/ \E call \in {"pause", "delete"} : Marked(s, call)
  BY DEF CallStep, Create, Pause, Delete, Resume
<1>3. /\ task' \in [Subs -> SubTask] /\ (\A r \in Subs : Fits(r, task'[r]) /\ Halted(r)) /\ Others(s)
  <2>1. CASE \E call \in {"pause", "delete"} : Marked(s, call)
    <3>1. task' = task
      BY <2>1 DEF Marked
    <3> QED BY <1>1, <3>1 DEF Halted, Others
  <2> QED BY <1>2, <2>1, CallsHalt
<1>4. UNCHANGED <<src, records, view>>
  BY DEF CallStep, Create, Pause, Delete, Resume, Marked, ReaderFails, Backpressure
<1>5. \/ waiting' = waiting
      \/ \E call \in {"pause", "delete"} : \/ waiting' = [waiting EXCEPT ![s] = @ \cup {call}]
                                           \/ waiting' = [waiting EXCEPT ![s] = @ \ {call}]
  BY DEF CallStep, Create, Pause, Delete, Resume, Marked, ReaderFails, Backpressure
<1>6. /\ waiting' \in [Subs -> SUBSET {"pause", "delete"}]
      /\ \A r \in Subs : r # s => waiting'[r] = waiting[r]
  BY <1>1, <1>5
<1>7. opened' \in SUBSET (opened \cup {"crossed", "overcap"}) /\ opened \subseteq opened'
  BY DEF CallStep, Create, Pause, Delete, Resume, Marked, ReaderFails, Backpressure
<1> QED BY <1>3, <1>4, <1>6, <1>7 DEF TasksMoved

\* What runs after it, and which calls are under way.
LEMMA CallsAllowed ==
  ASSUME LogTyped, TasksAllowed, NEW s \in Subs, CallStep(s)
  PROVE  TasksAllowed'
<1> USE RowMoves, TasksMove DEF RowMoved, TasksMoved, Others
<1>1. /\ row \in [Subs -> SubRow] /\ task \in [Subs -> SubTask] /\ waiting \in [Subs -> SUBSET {"pause", "delete"}]
  BY LogTypes DEF LogTyped, LogTypeOK
<1>2. row'[s].status = "none" => waiting'[s] = {}
  <2>1. CASE row[s].status = "none"
    <3>1. waiting[s] = {}
      BY <2>1 DEF TasksAllowed
    <3>2. waiting' = waiting
      BY <2>1, <3>1 DEF CallStep, Create, Pause, Delete, Resume, Marked, ReaderFails, Backpressure, Called
    <3> QED BY <3>1, <3>2
  <2>2. CASE row[s].status # "none"
    BY <2>2
  <2> QED BY <2>1, <2>2
<1>3. ASSUME "crossed" \notin opened', task'[s].on
      PROVE  row'[s].status = "active" /\ waiting'[s] = {}
  <2>1. "crossed" \notin opened
    BY <1>3
  <2>2. task[s].on => row[s].status = "active" /\ waiting[s] = {}
    BY <2>1 DEF TasksAllowed
  <2>3. task' # Stopped(s)
    BY <1>1, <1>3, IdleFits DEF Stopped
  <2>4. CASE Create(s)
    <3>1. waiting' = waiting /\ waiting[s] = {} /\ row' = [row EXCEPT ![s].status = "active"]
      BY <2>4 DEF Create, CreateSubscription, TasksAllowed
    <3> QED BY <3>1, StatusSet
  <2>5. CASE Resume(s)
    <3>1. waiting' = waiting /\ waiting[s] = {} /\ row' = [row EXCEPT ![s].status = "active"]
      BY <1>3, <2>5 DEF Resume
    <3> QED BY <3>1, StatusSet
  <2>6. CASE \E call \in {"pause", "delete"} : Marked(s, call)
    <3>1. waiting[s] # {} /\ task' = task
      BY <2>6 DEF Marked
    <3> QED BY <1>3, <2>2, <3>1
  <2>7. CASE Backpressure(s) \/ ReaderFails(s)
    <3>1. waiting' = waiting /\ task[s].on
      BY <2>7 DEF Backpressure, ReaderFails
    <3>2. row' = row
      BY <2>3, <2>7 DEF Backpressure, ReaderFails, TornDown
    <3> QED BY <2>2, <3>1, <3>2
  <2> QED BY <2>3, <2>4, <2>5, <2>6, <2>7 DEF CallStep, Pause, Delete
<1>4. ASSUME NEW r \in Subs, r # s
      PROVE  row'[r] = row[r] /\ waiting'[r] = waiting[r] /\ task'[r] = task[r]
  BY <1>4
<1>5. "crossed" \notin opened' => "crossed" \notin opened
  OBVIOUS
<1> QED BY <1>2, <1>3, <1>4, <1>5 DEF TasksAllowed

\* The cap.
LEMMA RunningFinite ==
  /\ IsFiniteSet(Running) /\ Cardinality(Running) \in Nat
  /\ \A T \in SUBSET Running : IsFiniteSet(T) /\ Cardinality(T) \in Nat /\ Cardinality(T) <= Cardinality(Running)
<1>1. IsFiniteSet(Subs)
  BY LogBounds, FS_Interval DEF Subs
<1>2. Running \in SUBSET Subs
  BY DEF Running
<1>3. IsFiniteSet(Running)
  BY <1>1, <1>2, FS_Subset
<1>4. ASSUME NEW T \in SUBSET Running
      PROVE  IsFiniteSet(T) /\ Cardinality(T) \in Nat /\ Cardinality(T) <= Cardinality(Running)
  BY <1>3, FS_Subset, FS_CardinalityType
<1> QED BY <1>3, <1>4, FS_CardinalityType

LEMMA CallsWithinCap ==
  ASSUME LogTyped, WithinCap, NEW s \in Subs, CallStep(s)
  PROVE  WithinCap'
<1>1. TasksMoved(s)
  BY TasksMove
<1>2. task \in [Subs -> SubTask] /\ MaxActive \in Nat
  BY LogTypes, LogBounds
<1>3. "overcap" \in opened => "overcap" \in opened'
  BY <1>1 DEF TasksMoved
<1>4. CASE Running' \in SUBSET Running
  <2>1. Cardinality(Running') <= Cardinality(Running) /\ Cardinality(Running') \in Nat
        /\ Cardinality(Running) \in Nat
    BY <1>4, RunningFinite
  <2> QED BY <1>2, <1>3, <2>1 DEF WithinCap
<1>5. ASSUME Cardinality(Running) < MaxActive \/ "overcap" \in opened', Running' \in SUBSET (Running \cup {s})
      PROVE  WithinCap'
  <2> DEFINE more == Running \cup {s}
  <2>1. /\ IsFiniteSet(more) /\ Cardinality(more) \in Nat
        /\ Cardinality(more) <= Cardinality(Running) + 1
    <3>1. Cardinality(Running) \in Nat
      BY RunningFinite
    <3>2. IsFiniteSet(more) /\ (Cardinality(more) = Cardinality(Running) \/ Cardinality(more) = Cardinality(Running) + 1)
      BY RunningFinite, FS_AddElement
    <3> QED BY <3>1, <3>2
  <2>2. Cardinality(Running') <= Cardinality(more) /\ Cardinality(Running') \in Nat
    BY <1>5, <2>1, FS_Subset, FS_CardinalityType
  <2>3. Cardinality(Running) \in Nat
    BY RunningFinite
  <2> QED BY <1>2, <1>5, <2>1, <2>2, <2>3 DEF WithinCap
<1>6. CASE Create(s) \/ Resume(s)
  <2>1. Running' \in SUBSET (Running \cup {s})
    BY <1>1 DEF Running, TasksMoved, Others
  <2>2. Cardinality(Running) < MaxActive \/ "overcap" \in opened'
    BY <1>6 DEF Create, Resume, BelowCap
  <2> QED BY <1>5, <2>1, <2>2
<1>7. CASE ~(Create(s) \/ Resume(s))
  <2>1. ASSUME task'[s].on PROVE task[s].on
    <3>1. CASE task' = Stopped(s)
      BY <1>2, <2>1, <3>1, IdleFits DEF Stopped
    <3>2. CASE \E call \in {"pause", "delete"} : Marked(s, call)
      BY <2>1, <3>2 DEF Marked
    <3>3. CASE ReaderFails(s) \/ Backpressure(s)
      BY <3>3 DEF ReaderFails, Backpressure
    <3> QED BY <1>7, <3>1, <3>2, <3>3 DEF CallStep, Pause, Delete
  <2>2. Running' \in SUBSET Running
    BY <1>1, <2>1 DEF Running, TasksMoved, Others
  <2> QED BY <1>4, <2>2
<1> QED BY <1>6, <1>7

\* A restart starts the first active ones.
LEMMA RestartWithinCap ==
  ASSUME LogTyped, Restart
  PROVE  WithinCap'
<1> DEFINE active == {s \in Subs : row[s].status = "active"}
           first == {s \in active : Cardinality({r \in active : r < s}) < MaxActive}
<1>1. task' = [s \in Subs |-> IF s \in first THEN [Idle EXCEPT !.on = TRUE] ELSE Idle]
  BY DEF Restart
<1>2. PICK R : R = {ss \in Subs \X Subs : ss[1] < ss[2]}
  OBVIOUS
<1>3. \A i, j \in active : <<i, j>> \in R <=> i < j
  BY <1>2
<1>4. IsFiniteSet(active) /\ active \in SUBSET Nat
  <2>1. IsFiniteSet(Subs) /\ Subs \in SUBSET Nat
    BY LogBounds, FS_Interval DEF Subs
  <2> QED BY <2>1, FS_Subset
<1> HIDE DEF active
<1>5. Orders(R, active)
  BY <1>3, <1>4 DEF Orders
<1>6. first = First(active, R, MaxActive)
  <2>1. ASSUME NEW i \in active PROVE Before(active, R, i) = {r \in active : r < i}
    BY <1>3 DEF Before
  <2> QED BY <2>1 DEF First
<1> HIDE DEF first
<1>7. IsFiniteSet(first) /\ Cardinality(first) <= MaxActive
  <2>1. MaxActive \in Nat
    BY LogBounds
  <2> QED BY <1>4, <1>5, <1>6, <2>1, FirstAreFew
<1>8. Running' \in SUBSET first
  <2>1. ASSUME NEW s \in Subs, task'[s].on PROVE s \in first
    BY <1>1, <2>1, IdleFits
  <2> QED BY <2>1 DEF Running
<1>9. Cardinality(Running') <= Cardinality(first) /\ Cardinality(Running') \in Nat /\ Cardinality(first) \in Nat
  BY <1>7, <1>8, FS_Subset, FS_CardinalityType
<1> QED BY <1>7, <1>9, LogBounds DEF WithinCap

-----------------------------------------------------------------------------
(* Steps of the writer and of the sockets. *)

\* A batch is taken and its rows are in the table, or it is given up.
Written(s) ==
  /\ task[s].queue # << >> /\ task' = [task EXCEPT ![s].queue = Rest(s)]
  /\ records' = AppendBatch(Batch(s)) /\ PublishLive(s, Batch(s))
  /\ row' \in {row, UpsertCursor(s, Batch(s))} /\ UNCHANGED <<waiting, src>>
GivenUp(s) ==
  /\ task[s].queue # << >> /\ task' = [task EXCEPT ![s].queue = Rest(s)]
  /\ opened' \in {opened, opened \cup {"dropped"}}
  /\ "dropped" \notin opened' => Rest(s) = << >> /\ task[s].lines = << >> /\ Kind[s] = "file"
  /\ UNCHANGED <<row, waiting, src, records, view>>
SocketStep ==
  (\E kind \in {"legacy", "product"} : ViewRecords(kind)) \/ ReplayPage \/ TakeLive \/ PauseView \/ CloseView
SourceStep(s) == (\E blanks \in 0..MaxBlanks : WriteLine(s, blanks)) \/ \E text \in {0, 1} : Rotate(s, text)
ReadStep(s) == PollFile(s) \/ PutLine(s) \/ OpenStream(s) \/ StreamLine(s)

\* Every step is one of these.
LEMMA StepKinds ==
  ASSUME LogNext
  PROVE  \/ \E s \in Subs : CallStep(s) \/ SourceStep(s) \/ ReadStep(s) \/ Written(s) \/ GivenUp(s)
         \/ Restart \/ SocketStep
<1>1. ASSUME NEW s \in Subs, WriteBatch(s)
      PROVE  Written(s)
  BY <1>1 DEF WriteBatch, Written
<1>2. ASSUME NEW s \in Subs, NEW appended \in BOOLEAN, WriteFails(s, appended)
      PROVE  Written(s) \/ GivenUp(s)
  <2>1. CASE appended
    BY <1>2, <2>1 DEF WriteFails, Written
  <2>2. CASE ~appended
    BY <1>2, <2>2 DEF WriteFails, GivenUp
  <2> QED BY <2>1, <2>2
<1> QED BY <1>1, <1>2 DEF LogNext, ReaderStep, CallStep, SourceStep, ReadStep, SocketStep

\* A batch: what it takes, the table it leaves, what it shows, the cursor.
LEMMA WrittenIs ==
  ASSUME LogTyped, SourcesKept, RowsDiffer, NEW s \in Subs, Written(s)
  PROVE  /\ task' \in [Subs -> SubTask] /\ (\A r \in Subs : Fits(r, task'[r])) /\ Others(s)
         /\ task'[s].pos = task[s].pos /\ task'[s].on = task[s].on
         /\ task'[s].lines = task[s].lines /\ task'[s].queue = Rest(s)
         /\ Len(task[s].queue) \in Nat /\ \E n \in 1..Len(task[s].queue) : Taken(s, n)
         /\ Appended(Batch(s), records') /\ Published(s, Batch(s))
         /\ \A i \in 1..Len(Batch(s)) : Own(s, Batch(s)[i])
         /\ row' \in [Subs -> SubRow] /\ \A r \in Subs : r # s => row'[r] = row[r]
         /\ row'[s].from = row[s].from /\ row'[s].status = row[s].status
         /\ \/ row'[s].cursor = row[s].cursor /\ row'[s].lag = row[s].lag
            \/ row'[s].cursor = Batch(s)[Len(Batch(s))].off /\ row'[s].lag = Batch(s)[Len(Batch(s))].lag
<1>1. task' = [task EXCEPT ![s].queue = Rest(s)] /\ task[s].queue # << >>
  BY DEF Written
<1>2. /\ task' \in [Subs -> SubTask] /\ (\A r \in Subs : Fits(r, task'[r])) /\ Others(s)
      /\ task'[s].pos = task[s].pos /\ task'[s].on = task[s].on
      /\ task'[s].lines = task[s].lines /\ task'[s].queue = Rest(s)
      /\ Len(task[s].queue) \in Nat /\ \E n \in 1..Len(task[s].queue) : Taken(s, n)
  BY <1>1, TakeSets
<1>3. PICK n \in 1..Len(task[s].queue) : Taken(s, n)
  BY <1>2
<1>4. Batch(s) \in Seq(LogLine) /\ Len(Batch(s)) = n /\ n \in 1..Len(Batch(s))
  BY <1>2, <1>3 DEF Taken
<1>5. Appended(Batch(s), records')
  <2>1. records \in SUBSET LogRow /\ IsFiniteSet(records)
    BY DEF LogTyped
  <2>2. records' = AppendBatch(Batch(s))
    BY DEF Written
  <2> QED BY <1>4, <2>1, <2>2, BatchAppended
<1>6. Published(s, Batch(s))
  BY <1>4, Publishes DEF Written
<1>7. \A i \in 1..Len(Batch(s)) : Own(s, Batch(s)[i])
  <2>1. \A p \in 1..Len(task[s].queue) : Own(s, task[s].queue[p])
    BY DEF SourcesKept, LinesOwned
  <2>2. ASSUME NEW i \in 1..Len(Batch(s)) PROVE Batch(s)[i] = task[s].queue[i] /\ i \in 1..Len(task[s].queue)
    BY <1>2, <1>3, <1>4 DEF Taken
  <2> QED BY <2>1, <2>2
<1>8. /\ row' \in [Subs -> SubRow] /\ (\A r \in Subs : r # s => row'[r] = row[r])
      /\ row'[s].from = row[s].from /\ row'[s].status = row[s].status
      /\ \/ row'[s].cursor = row[s].cursor /\ row'[s].lag = row[s].lag
         \/ row'[s].cursor = Batch(s)[n].off /\ row'[s].lag = Batch(s)[n].lag
  <2>1. row \in [Subs -> SubRow] /\ row[s] \in SubRow
    BY LogTypes
  <2>2. Batch(s)[n] \in LogLine
    BY <1>4, ElementOfSeq
  <2>3. Batch(s)[n].off \in Nat /\ Batch(s)[n].lag \in Int
    BY <2>2 DEF LogLine
  <2>4. CASE row' = row
    BY <2>1, <2>4
  <2>5. CASE row' = UpsertCursor(s, Batch(s))
    <3> DEFINE off == Batch(s)[n].off
               lag == Batch(s)[n].lag
               new == [row[s] EXCEPT !.cursor = off, !.lag = lag]
    <3>1. row' = [row EXCEPT ![s] = new]
      BY <1>4, <2>1, <2>5 DEF UpsertCursor
    <3>2. off \in Nat /\ lag \in Int
      BY <2>3
    <3> HIDE DEF off, lag
    <3>3. new \in SubRow /\ new.cursor = off /\ new.lag = lag /\ new.from = row[s].from
          /\ new.status = row[s].status
      BY <2>1, <3>2 DEF SubRow
    <3> HIDE DEF new
    <3>4. row' \in [Subs -> SubRow] /\ row'[s] = new /\ \A r \in Subs : r # s => row'[r] = row[r]
      BY <2>1, <3>1, <3>3
    <3> QED BY <3>3, <3>4 DEF off, lag
  <2> QED BY <2>4, <2>5 DEF Written
<1> QED BY <1>2, <1>4, <1>5, <1>6, <1>7, <1>8

\* A batch that is given up.
LEMMA GivenUpIs ==
  ASSUME LogTyped, NEW s \in Subs, GivenUp(s)
  PROVE  /\ task' \in [Subs -> SubTask] /\ (\A r \in Subs : Fits(r, task'[r])) /\ Others(s)
         /\ task'[s].pos = task[s].pos /\ task'[s].on = task[s].on
         /\ task'[s].lines = task[s].lines /\ task'[s].queue = Rest(s)
         /\ Len(task[s].queue) \in Nat /\ \E n \in 1..Len(task[s].queue) : Taken(s, n)
  BY TakeSets DEF GivenUp

-----------------------------------------------------------------------------
(* Each part of the invariant is kept: the table, the rows, the tasks, the sockets. *)

OpenedGrows == opened \subseteq opened'

\* A line is written, or the file is rotated and the source begins again.
LEMMA SourceMoves ==
  ASSUME LogTyped, SourcesKept, NEW s \in Subs, SourceStep(s)
  PROVE  /\ src' \in [Subs -> Source] /\ (\A r \in Subs : r # s => src'[r] = src[r])
         /\ src'[s].len <= src'[s].total /\ src'[s].total <= MaxLines[s]
         /\ src[s].total <= src'[s].total /\ src'[s].gen \in 0..MaxRotations
         /\ Len(src'[s].above) = src'[s].len
         /\ Blank' \/ \A i \in 1..src'[s].len : src'[s].above[i] = 0
         /\ \/ src'[s].text = src[s].text /\ (src[s].len = src[s].total => src'[s].len = src'[s].total)
               /\ src[s].len <= src'[s].len /\ opened' \in {opened, opened \cup {"blank"}}
            \/ Kind[s] = "file" /\ opened' = opened \cup {"rotated"}
         /\ UNCHANGED <<row, task, waiting, records, view>>
<1>1. src \in [Subs -> Source] /\ src[s] \in Source /\ src[s].gen \in 0..MaxRotations
      /\ src[s].len \in Nat /\ src[s].total \in Nat /\ src[s].gen \in Nat
      /\ src[s].len <= src[s].total /\ MaxLines[s] \in Nat /\ MaxRotations \in Nat
      /\ src[s].total <= MaxLines[s] /\ src[s].above \in Seq(Nat)
  BY LogTypes, LogBounds DEF LogTyped, LogTypeOK, Source, SourcesKept, SourceKept
<1>2. /\ Len(src[s].above) = src[s].len
      /\ \A i \in 1..src[s].len : src[s].above[i] \in Nat
      /\ Blank \/ \A i \in 1..src[s].len : src[s].above[i] = 0
  <2>1. Len(src[s].above) = src[s].len /\ (Blank \/ \A i \in 1..src[s].len : src[s].above[i] = 0)
    BY DEF LogTyped, LogTypeOK, SourcesKept, SourceKept
  <2> QED BY <1>1, <2>1, ElementOfSeq
<1> DEFINE goal == /\ src' \in [Subs -> Source] /\ (\A r \in Subs : r # s => src'[r] = src[r])
                   /\ src'[s].len <= src'[s].total /\ src'[s].total <= MaxLines[s]
                   /\ src[s].total <= src'[s].total /\ src'[s].gen \in 0..MaxRotations
                   /\ Len(src'[s].above) = src'[s].len
                   /\ Blank' \/ \A i \in 1..src'[s].len : src'[s].above[i] = 0
                   /\ \/ src'[s].text = src[s].text /\ (src[s].len = src[s].total => src'[s].len = src'[s].total)
                         /\ src[s].len <= src'[s].len /\ opened' \in {opened, opened \cup {"blank"}}
                      \/ Kind[s] = "file" /\ opened' = opened \cup {"rotated"}
                   /\ UNCHANGED <<row, task, waiting, records, view>>
<1>3. ASSUME NEW blanks \in 0..MaxBlanks, WriteLine(s, blanks)
      PROVE  goal
  <2> DEFINE more == Above(s, src[s].len) + blanks
             above == Append(src[s].above, more)
             new == [src[s] EXCEPT !.len = src[s].len + 1, !.total = src[s].total + 1, !.above = above]
  <2>1. src' = [src EXCEPT ![s] = new] /\ src[s].total < MaxLines[s]
    BY <1>1, <1>3 DEF WriteLine
  <2>2. /\ src[s].len + 1 \in Nat /\ src[s].total + 1 \in Nat /\ blanks \in Nat
        /\ Above(s, src[s].len) \in Nat /\ (Blank \/ Above(s, src[s].len) = 0)
    <3>1. src[s].len # 0 => src[s].len \in 1..src[s].len
      BY <1>1
    <3>2. blanks \in Nat
      BY LogBounds
    <3> QED BY <1>1, <1>2, <3>1, <3>2 DEF Above
  <2>3. opened' = opened \cup (IF blanks > 0 THEN {"blank"} ELSE {})
    BY <1>3 DEF WriteLine
  <2>4. more \in Nat /\ (Blank' \/ (more = 0 /\ \A i \in 1..src[s].len : src[s].above[i] = 0))
    <3>1. Blank => Blank'
      BY <2>3 DEF Blank
    <3>2. CASE blanks > 0
      BY <2>2, <2>3, <3>2 DEF Blank
    <3>3. CASE ~(blanks > 0)
      <4>1. blanks = 0
        BY <2>2, <3>3
      <4> QED BY <1>2, <2>2, <3>1, <4>1
    <3> QED BY <3>2, <3>3
  <2> HIDE DEF more
  <2>5. /\ above \in Seq(Nat) /\ Len(above) = src[s].len + 1
        /\ (\A i \in 1..src[s].len : above[i] = src[s].above[i]) /\ above[src[s].len + 1] = more
    BY <1>1, <1>2, <2>4, AppendProperties
  <2> HIDE DEF above
  <2>6. /\ new \in Source /\ new.len = src[s].len + 1 /\ new.total = src[s].total + 1
        /\ new.gen = src[s].gen /\ new.text = src[s].text /\ new.above = above
    BY <1>1, <2>2, <2>5 DEF Source
  <2> HIDE DEF new
  <2>7. src' \in [Subs -> Source] /\ src'[s] = new /\ \A r \in Subs : r # s => src'[r] = src[r]
    BY <1>1, <2>1, <2>6
  <2>8. Blank' \/ \A i \in 1..src'[s].len : src'[s].above[i] = 0
    <3> SUFFICES ASSUME ~Blank', NEW i \in 1..(src[s].len + 1) PROVE above[i] = 0
      BY <2>6, <2>7
    <3>1. CASE i \in 1..src[s].len
      BY <2>4, <2>5, <3>1
    <3>2. CASE i \notin 1..src[s].len
      <4>1. i = src[s].len + 1
        BY <1>1, <3>2
      <4> QED BY <2>4, <2>5, <4>1
    <3> QED BY <3>1, <3>2
  <2>9. UNCHANGED <<row, task, waiting, records, view>>
    BY <1>3 DEF WriteLine
  <2>10. opened' \in {opened, opened \cup {"blank"}}
    BY <2>3
  <2>11. /\ src'[s].len <= src'[s].total /\ src'[s].total <= MaxLines[s]
         /\ src[s].total <= src'[s].total /\ src'[s].gen \in 0..MaxRotations
         /\ Len(src'[s].above) = src'[s].len /\ src'[s].text = src[s].text
         /\ (src[s].len = src[s].total => src'[s].len = src'[s].total)
         /\ src[s].len <= src'[s].len
    <3>1. /\ src'[s].len = src[s].len + 1 /\ src'[s].total = src[s].total + 1
          /\ src'[s].gen = src[s].gen /\ src'[s].text = src[s].text /\ src'[s].above = above
      BY <2>6, <2>7
    <3>2. Len(src'[s].above) = src'[s].len
      BY <2>5, <3>1
    <3>3. /\ src[s].len \in Nat /\ src[s].total \in Nat /\ MaxLines[s] \in Nat
          /\ src[s].len <= src[s].total /\ src[s].total < MaxLines[s] /\ src[s].gen \in 0..MaxRotations
      BY <1>1, <2>1
    <3> QED BY <3>1, <3>2, <3>3
  <2> QED BY <2>7, <2>8, <2>9, <2>10, <2>11
<1>4. ASSUME NEW text \in {0, 1}, Rotate(s, text)
      PROVE  goal
  <2> DEFINE new == [src[s] EXCEPT !.gen = src[s].gen + 1, !.len = 0, !.above = << >>, !.text = text]
  <2>1. src' = [src EXCEPT ![s] = new] /\ Kind[s] = "file" /\ opened' = opened \cup {"rotated"}
        /\ src[s].gen < MaxRotations /\ UNCHANGED <<row, task, waiting, records, view>>
    BY <1>1, <1>4 DEF Rotate
  <2>2. src[s].gen + 1 \in Nat /\ 0 \in Nat /\ << >> \in Seq(Nat) /\ Len(<< >>) = 0
    BY <1>1, EmptySeq
  <2>3. new \in Source /\ new.len = 0 /\ new.total = src[s].total /\ new.gen = src[s].gen + 1
        /\ new.above = << >>
    BY <1>1, <1>4, <2>2 DEF Source
  <2> HIDE DEF new
  <2>4. src' \in [Subs -> Source] /\ src'[s] = new /\ \A r \in Subs : r # s => src'[r] = src[r]
    BY <1>1, <2>1, <2>3
  <2>5. src'[s].len <= src'[s].total /\ src'[s].gen \in 0..MaxRotations
        /\ src'[s].total <= MaxLines[s] /\ src[s].total <= src'[s].total
    BY <1>1, <2>1, <2>3, <2>4
  <2>6. Len(src'[s].above) = src'[s].len /\ \A i \in 1..src'[s].len : src'[s].above[i] = 0
    BY <2>2, <2>3, <2>4
  <2> QED BY <2>1, <2>4, <2>5, <2>6
<1> HIDE DEF goal
<1>5. goal
  BY <1>3, <1>4 DEF SourceStep
<1> QED BY <1>5 DEF goal

\* Failures and calls are counted, up to their bounds.
Counted ==
  /\ faults' = faults \/ (faults < MaxFaults /\ faults' = faults + 1)
  /\ calls' = calls \/ (calls < MaxCalls /\ calls' = calls + 1)

LEMMA StepsCounted ==
  ASSUME LogNext
  PROVE  Counted
<1>1. ASSUME NEW s \in Subs, Create(s) \/ Pause(s) \/ Delete(s) \/ Resume(s)
      PROVE  Counted
  BY <1>1 DEF Create, Pause, Delete, Resume, Called, Counted
<1>2. ASSUME NEW s \in Subs, NEW call \in {"pause", "delete"}, Marked(s, call)
      PROVE  Counted
  BY <1>2 DEF Marked, Counted
<1>3. ASSUME NEW s \in Subs,
             \/ \E blanks \in 0..MaxBlanks : WriteLine(s, blanks)
             \/ \E text \in {0, 1} : Rotate(s, text)
             \/ ReaderFails(s)
      PROVE  Counted
  BY <1>3 DEF WriteLine, Rotate, ReaderFails, Counted
<1>4. ASSUME NEW s \in Subs, ReaderStep(s)
      PROVE  Counted
  BY <1>4 DEF ReaderStep, PollFile, PutLine, OpenStream, StreamLine, Backpressure, Counted
<1>5. ASSUME NEW s \in Subs, WriteBatch(s) \/ (\E appended \in BOOLEAN : WriteFails(s, appended))
      PROVE  Counted
  BY <1>5 DEF WriteBatch, WriteFails, Counted
<1>6. CASE Restart
  BY <1>6 DEF Restart, Counted
<1>7. CASE SocketStep
  BY <1>7 DEF SocketStep, ViewRecords, ReplayPage, TakeLive, PauseView, CloseView, Counted
<1> QED BY <1>1, <1>2, <1>3, <1>4, <1>5, <1>6, <1>7 DEF LogNext, SocketStep

\* The windows hit are never forgotten.
LEMMA WindowsGrow ==
  ASSUME LogTyped, SourcesKept, RowsDiffer, [LogNext]_logVars
  PROVE  /\ OpenedGrows /\ opened' \subseteq {"crossed", "overcap", "rotated", "dropped", "overflow", "blank"}
         /\ waiting' \in [Subs -> SUBSET {"pause", "delete"}]
         /\ faults' \in 0..MaxFaults /\ calls' \in 0..MaxCalls
<1>1. /\ opened \subseteq {"crossed", "overcap", "rotated", "dropped", "overflow", "blank"}
      /\ waiting \in [Subs -> SUBSET {"pause", "delete"}]
      /\ faults \in 0..MaxFaults /\ calls \in 0..MaxCalls
  BY DEF LogTyped, LogTypeOK
<1>2. CASE logVars' = logVars
  BY <1>1, <1>2 DEF logVars, OpenedGrows
<1>3. CASE LogNext
  <2>1. OpenedGrows /\ opened' \subseteq {"crossed", "overcap", "rotated", "dropped", "overflow", "blank"}
        /\ waiting' \in [Subs -> SUBSET {"pause", "delete"}]
    <3>1. ASSUME NEW s \in Subs, CallStep(s)
          PROVE  OpenedGrows /\ opened' \subseteq {"crossed", "overcap", "rotated", "dropped", "overflow", "blank"}
                 /\ waiting' \in [Subs -> SUBSET {"pause", "delete"}]
      BY <1>1, <3>1, TasksMove DEF TasksMoved, OpenedGrows
    <3>2. ASSUME NEW s \in Subs, SourceStep(s)
          PROVE  opened' \in {opened, opened \cup {"rotated"}, opened \cup {"blank"}} /\ waiting' = waiting
      BY <3>2, SourceMoves
    <3>3. ASSUME NEW s \in Subs, ReadStep(s)
          PROVE  opened' = opened /\ waiting' = waiting
      BY <3>3 DEF ReadStep, PollFile, PutLine, OpenStream, StreamLine
    <3>4. ASSUME NEW s \in Subs, Written(s) \/ GivenUp(s)
          PROVE  /\ opened' \in {opened, opened \cup {"overflow"}, opened \cup {"dropped"}}
                 /\ waiting' = waiting
      BY <3>4, WrittenIs DEF Published, Written, GivenUp
    <3>5. CASE Restart
      BY <1>1, <3>5 DEF Restart, OpenedGrows
    <3>6. CASE SocketStep
      BY <1>1, <3>6 DEF SocketStep, ViewRecords, ReplayPage, TakeLive, PauseView, CloseView, OpenedGrows
    <3> QED BY <1>1, <1>3, <3>1, <3>2, <3>3, <3>4, <3>5, <3>6, StepKinds DEF OpenedGrows
  <2>2. Counted
    BY <1>3, StepsCounted
  <2>3. MaxFaults \in Nat /\ MaxCalls \in Nat
    BY LogBounds
  <2> QED BY <1>1, <2>1, <2>2, <2>3 DEF Counted
<1> QED BY <1>2, <1>3

\* The sockets change nothing else.
LEMMA SocketsAlone ==
  ASSUME SocketStep
  PROVE  UNCHANGED <<row, task, waiting, src, records, faults, calls, opened>>
<1>1. ASSUME NEW kind \in {"legacy", "product"}, ViewRecords(kind)
      PROVE  UNCHANGED <<row, task, waiting, src, records, faults, calls, opened>>
  BY <1>1 DEF ViewRecords
<1>2. CASE ReplayPage
  BY <1>2 DEF ReplayPage
<1>3. CASE TakeLive
  BY <1>3 DEF TakeLive
<1>4. CASE PauseView \/ CloseView
  BY <1>4 DEF PauseView, CloseView
<1> QED BY <1>1, <1>2, <1>3, <1>4 DEF SocketStep

\* The table grows by rows behind the latest one.
TableGrown(s) ==
  \/ records' = records
  \/ Written(s) /\ Appended(Batch(s), records') /\ \A i \in 1..Len(Batch(s)) : Own(s, Batch(s)[i])

LEMMA TableGrows ==
  ASSUME LogTyped, SourcesKept, RowsDiffer, [LogNext]_logVars
  PROVE  /\ records' \in SUBSET LogRow /\ IsFiniteSet(records') /\ records \subseteq records'
         /\ \E s \in Subs : TableGrown(s)
<1>1. records \in SUBSET LogRow /\ IsFiniteSet(records)
  BY DEF LogTyped
<1>2. ASSUME NEW s \in Subs, Written(s)
      PROVE  /\ records' \in SUBSET LogRow /\ IsFiniteSet(records') /\ records \subseteq records'
             /\ TableGrown(s)
  BY <1>2, WrittenIs DEF TableGrown, Appended
<1>3. CASE ~(\E s \in Subs : Written(s))
  <2>1. ASSUME NEW s \in Subs, CallStep(s) \/ SourceStep(s) \/ ReadStep(s) \/ GivenUp(s)
        PROVE  records' = records
    BY <2>1, TasksMove, SourceMoves DEF TasksMoved, ReadStep, PollFile, PutLine, OpenStream, StreamLine, GivenUp
  <2>2. Restart \/ SocketStep \/ logVars' = logVars => records' = records
    BY SocketsAlone DEF Restart, logVars
  <2>3. LogNext \/ logVars' = logVars
    OBVIOUS
  <2>4. records' = records
    BY <1>3, <2>1, <2>2, <2>3, StepKinds
  <2>5. 1 \in Subs
    BY LogBounds DEF Subs
  <2> QED BY <1>1, <2>4, <2>5 DEF TableGrown
<1> QED BY <1>2, <1>3

LEMMA RowsStayDifferent ==
  ASSUME LogTyped, SourcesKept, RowsDiffer, [LogNext]_logVars
  PROVE  RowsDiffer'
<1>1. PICK s \in Subs : TableGrown(s)
  BY TableGrows
<1>2. \A l : Expected(l) => Expected(l)'
  BY WindowsGrow DEF OpenedGrows, Rotated, Blank, Expected
<1>3. CASE records' = records
  BY <1>2, <1>3 DEF RowsDiffer, Expected, DedupeKey
<1>4. CASE records' # records
  <2>1. Appended(Batch(s), records') /\ (\A i \in 1..Len(Batch(s)) : Own(s, Batch(s)[i]))
    BY <1>1, <1>4 DEF TableGrown
  <2>2. LatestSequence \in Nat
    BY LatestIs DEF LogTyped, LatestSequence
  <2>3. ASSUME NEW r \in records'
        PROVE  r.seq >= 1 /\ r.line.off >= 1 /\ Expected(r.line)'
    <3>1. CASE r \in records
      BY <1>2, <3>1 DEF RowsDiffer, Expected
    <3>2. CASE r \notin records
      <4>1. r \in LogRow /\ r.seq > LatestSequence
        BY <2>1, <3>2 DEF Appended
      <4>2. r.seq >= 1
        BY <2>2, <4>1 DEF LogRow
      <4>3. PICK i \in 1..Len(Batch(s)) : r.line = Batch(s)[i]
        BY <2>1, <3>2 DEF Appended
      <4>4. Own(s, r.line)
        BY <2>1, <4>3
      <4>5. Expected(r.line)'
        BY <1>2, <4>4 DEF Own, Expected
      <4> QED BY <4>1, <4>2, <4>4, <4>5 DEF Own, LogRow, LogLine
    <3> QED BY <3>1, <3>2
  <2>4. /\ \A r, q \in records' : r.seq = q.seq => r = q
        /\ \A r, q \in records' : DedupeKey(r.line) = DedupeKey(q.line) => r = q
    BY <2>1 DEF Appended
  <2> QED BY <2>3, <2>4 DEF RowsDiffer, DedupeKey, Expected
<1> QED BY <1>3, <1>4

\* Rows, sources and tasks keep their types.
LEMMA TypesKept ==
  ASSUME LogTyped, SourcesKept, RowsDiffer, [LogNext]_logVars
  PROVE  /\ task' \in [Subs -> SubTask] /\ (\A r \in Subs : Fits(r, task'[r]))
         /\ row' \in [Subs -> SubRow] /\ src' \in [Subs -> Source]
         /\ \A r \in Subs : src'[r].gen \in 0..MaxRotations /\ Len(src'[r].above) = src'[r].len
<1> DEFINE goal == /\ task' \in [Subs -> SubTask] /\ (\A r \in Subs : Fits(r, task'[r]))
                   /\ row' \in [Subs -> SubRow] /\ src' \in [Subs -> Source]
                   /\ \A r \in Subs : src'[r].gen \in 0..MaxRotations /\ Len(src'[r].above) = src'[r].len
<1>1. /\ task \in [Subs -> SubTask] /\ (\A r \in Subs : Fits(r, task[r]))
      /\ row \in [Subs -> SubRow] /\ src \in [Subs -> Source]
      /\ \A r \in Subs : src[r].gen \in 0..MaxRotations /\ Len(src[r].above) = src[r].len
  BY LogTypes DEF LogTyped, LogTypeOK
<1>2. ASSUME NEW s \in Subs, CallStep(s) PROVE goal
  BY <1>1, <1>2, TasksMove, RowMoves DEF TasksMoved, RowMoved
<1>3. ASSUME NEW s \in Subs, SourceStep(s) PROVE goal
  <2>1. \A r \in Subs : src'[r].gen \in 0..MaxRotations /\ Len(src'[r].above) = src'[r].len
    BY <1>1, <1>3, SourceMoves
  <2> QED BY <1>1, <1>3, <2>1, SourceMoves
<1>4. ASSUME NEW s \in Subs, PollFile(s) \/ PutLine(s) \/ StreamLine(s) PROVE goal
  <2>1. row' = row /\ src' = src
    BY <1>4 DEF PollFile, PutLine, StreamLine
  <2> QED BY <1>1, <1>4, <2>1, PollSets, PutSets, StreamSets
<1>5. ASSUME NEW s \in Subs, OpenStream(s) PROVE goal
  <2>1. src' = src
    BY <1>5 DEF OpenStream
  <2>2. task' \in [Subs -> SubTask] /\ (\A r \in Subs : Fits(r, task'[r])) /\ task'[s].pos \in Nat
        /\ (row' = row \/ row' = [row EXCEPT ![s].from = task'[s].pos])
    BY <1>5, OpenSets
  <2>3. row' \in [Subs -> SubRow]
    <3>1. row[s] \in SubRow
      BY <1>1
    <3>2. [row[s] EXCEPT !.from = task'[s].pos] \in SubRow
      BY <2>2, <3>1 DEF SubRow
    <3> QED BY <1>1, <2>2, <3>2
  <2> QED BY <1>1, <2>1, <2>2, <2>3
<1>6. ASSUME NEW s \in Subs, Written(s) PROVE goal
  <2>1. src' = src
    BY <1>6 DEF Written
  <2> QED BY <1>1, <1>6, <2>1, WrittenIs
<1>7. ASSUME NEW s \in Subs, GivenUp(s) PROVE goal
  <2>1. src' = src /\ row' = row
    BY <1>7 DEF GivenUp
  <2> QED BY <1>1, <1>7, <2>1, GivenUpIs
<1>8. ASSUME Restart PROVE goal
  <2>1. src' = src /\ row' = row
    BY <1>8 DEF Restart
  <2> QED BY <1>1, <1>8, <2>1, RestartHalts
<1>9. ASSUME SocketStep \/ UNCHANGED logVars PROVE goal
  <2>1. src' = src /\ row' = row /\ task' = task
    BY <1>9, SocketsAlone DEF logVars
  <2> QED BY <1>1, <2>1
<1> HIDE DEF goal
<1>10. goal
  BY <1>2, <1>3, <1>4, <1>5, <1>6, <1>7, <1>8, <1>9, StepKinds DEF ReadStep
<1> QED BY <1>10 DEF goal

\* Sources, cursors and lines under way.
LEMMA SourceSame ==
  ASSUME LogTyped, SourcesKept, NEW r \in Subs, OpenedGrows, src'[r] = src[r], RowSame(r),
         task'[r] = task[r] \/ Halted(r)
  PROVE  SourceKept(r)' /\ LinesOwned(r)'
<1>1. SourceKept(r) /\ LinesOwned(r) /\ (Rotated => Rotated') /\ (Blank => Blank')
  BY DEF SourcesKept, OpenedGrows, Rotated, Blank
<1>2. -1 <= src[r].len
  BY LogTypes DEF Source
<1>3. \A l : Own(r, l) => Own(r, l)'
  BY <1>1 DEF Own, Expected
<1>4. SourceKept(r)'
  BY <1>1, <1>2 DEF SourceKept, RowSame, Halted
<1>5. LinesOwned(r)'
  <2>1. CASE task'[r].lines = task[r].lines /\ task'[r].queue = task[r].queue
    BY <1>1, <1>3, <2>1 DEF LinesOwned
  <2>2. CASE task'[r].lines = << >> /\ task'[r].queue = << >>
    BY <2>2, EmptySeq DEF LinesOwned
  <2> QED BY <2>1, <2>2 DEF Halted
<1> QED BY <1>4, <1>5

LEMMA SourcesStay ==
  ASSUME LogTyped, SourcesKept, RowsDiffer, [LogNext]_logVars
  PROVE  SourcesKept'
<1> USE WindowsGrow
<1>1. SourcesKept'
      <=> \A r \in Subs : SourceKept(r)' /\ LinesOwned(r)'
  BY DEF SourcesKept
<1>2. ASSUME NEW r \in Subs
      PROVE  /\ SourceKept(r) /\ LinesOwned(r) /\ (Rotated => Rotated') /\ (Blank => Blank')
             /\ src[r].len \in Nat /\ src[r].total \in Nat /\ row[r].cursor \in Nat
             /\ row[r].from \in Nat /\ task[r].pos \in Int
             /\ Len(task[r].queue) \in Nat /\ Len(task[r].lines) \in Nat
             /\ MaxLines[r] \in Nat /\ Kind[r] \in {"file", "docker"}
  BY LogTypes, LogBounds DEF SourcesKept, Source, SubRow, SubTask, OpenedGrows, Rotated, Blank
<1> DEFINE keeps(r) == SourceKept(r)' /\ LinesOwned(r)'
<1>3. ASSUME NEW s \in Subs, CallStep(s), NEW r \in Subs
      PROVE  keeps(r)
  BY <1>3, TasksMove, RowMoves, SourceSame DEF TasksMoved, RowMoved
<1>4. ASSUME NEW s \in Subs, SourceStep(s), NEW r \in Subs
      PROVE  keeps(r)
  <2>1. row' = row /\ task' = task
    BY <1>4, SourceMoves
  <2>2. CASE r # s
    <3>1. src'[r] = src[r]
      BY <1>4, <2>2, SourceMoves
    <3> QED BY <2>1, <3>1, SourceSame DEF RowSame
  <2>3. CASE r = s
    <3>1. /\ src'[s].len <= src'[s].total /\ src'[s].total <= MaxLines[s]
          /\ src[s].total <= src'[s].total
          /\ Blank' \/ \A i \in 1..src'[s].len : src'[s].above[i] = 0
          /\ \/ src'[s].text = src[s].text /\ (src[s].len = src[s].total => src'[s].len = src'[s].total)
                /\ src[s].len <= src'[s].len /\ opened' \in {opened, opened \cup {"blank"}}
             \/ Kind[s] = "file" /\ opened' = opened \cup {"rotated"}
      BY <1>4, SourceMoves
    <3>2. src'[s].len \in Nat /\ src'[s].total \in Nat
      BY TypesKept DEF Source
    <3>3. ASSUME NEW l \in LogLine, Own(s, l) PROVE Own(s, l)'
      <4>1. l.off \in Nat
        BY DEF LogLine
      <4> QED BY <1>2, <3>1, <3>2, <3>3, <4>1 DEF Own, Expected
    <3>4. LinesOwned(s)'
      <4>1. task[s].queue \in Seq(LogLine) /\ task[s].lines \in Seq(LogLine)
        BY LogTypes DEF SubTask
      <4>2. /\ \A p \in 1..Len(task[s].queue) : task[s].queue[p] \in LogLine
            /\ \A p \in 1..Len(task[s].lines) : task[s].lines[p] \in LogLine
        BY <4>1, ElementOfSeq
      <4>3. LinesOwned(s)
        BY <1>2
      <4>4. /\ \A p \in 1..Len(task[s].queue) : Own(s, task[s].queue[p])'
            /\ \A p \in 1..Len(task[s].lines) : Own(s, task[s].lines[p])'
        BY <2>1, <3>3, <4>2, <4>3 DEF LinesOwned, Own, Expected
      <4> QED BY <2>1, <4>4 DEF LinesOwned
    <3>5. CASE src'[s].text = src[s].text /\ (src[s].len = src[s].total => src'[s].len = src'[s].total)
               /\ src[s].len <= src'[s].len /\ opened' \in {opened, opened \cup {"blank"}}
      <4>1. SourceKept(s)
        BY <1>2
      <4>2. SourceKept(s)'
        BY <1>2, <2>1, <3>1, <3>2, <3>5, <4>1 DEF SourceKept, Rotated
      <4> QED BY <2>3, <3>4, <4>2
    <3>6. CASE Kind[s] = "file" /\ opened' = opened \cup {"rotated"}
      <4>1. SourceKept(s)
        BY <1>2
      <4>2. SourceKept(s)'
        BY <1>2, <2>1, <3>1, <3>2, <3>6, <4>1 DEF SourceKept, Rotated
      <4> QED BY <2>3, <3>4, <4>2
    <3> QED BY <3>1, <3>5, <3>6
  <2> QED BY <2>2, <2>3
<1>5. ASSUME NEW s \in Subs, NEW r \in Subs, r # s, src' = src, Others(s), row'[r] = row[r]
      PROVE  keeps(r)
  <2>1. src'[r] = src[r] /\ task'[r] = task[r] /\ RowSame(r)
    BY <1>5 DEF Others, RowSame
  <2> QED BY <2>1, SourceSame
<1> DEFINE mine(s, l) == /\ l.s = s /\ 1 <= l.off /\ l.off <= src'[s].total
                         /\ (Rotated' \/ l.text # 1) /\ (Blank' \/ (l.lag = 0 /\ l.text \in {0, 1}))
<1>6. ASSUME NEW s \in Subs, NEW i \in Nat, i >= 1, i <= src[s].len, src' = src,
             NEW l, FullLine(s, i, l)
      PROVE  mine(s, l)
  <2>1. l.s = s /\ l.off = i /\ l.text = src[s].text /\ (Blank \/ l.lag = 0)
    BY <1>6 DEF FullLine
  <2>2. i <= src[s].total /\ (Rotated' \/ src[s].text = 0) /\ src[s].text \in {0, 1}
    BY <1>2, <1>6, LogTypes DEF SourceKept, Source
  <2> QED BY <1>2, <1>6, <2>1, <2>2
<1>7. ASSUME NEW s \in Subs, NEW l, Own(s, l), src' = src
      PROVE  mine(s, l)
  BY <1>2, <1>7 DEF Own, Expected
<1>8. ASSUME NEW s \in Subs,
             \A p \in 1..Len(task'[s].queue) : mine(s, task'[s].queue[p]),
             \A p \in 1..Len(task'[s].lines) : mine(s, task'[s].lines[p])
      PROVE  LinesOwned(s)'
  BY <1>8 DEF LinesOwned, Own, Expected
<1>9. ASSUME NEW s \in Subs, src' = src
      PROVE  /\ \A p \in 1..Len(task[s].queue) : mine(s, task[s].queue[p])
             /\ \A p \in 1..Len(task[s].lines) : mine(s, task[s].lines[p])
  <2>1. /\ \A p \in 1..Len(task[s].queue) : Own(s, task[s].queue[p])
        /\ \A p \in 1..Len(task[s].lines) : Own(s, task[s].lines[p])
    BY <1>2 DEF LinesOwned
  <2> QED BY <1>7, <1>9, <2>1
<1> HIDE DEF mine
<1>10. ASSUME NEW s \in Subs, PollFile(s), NEW r \in Subs
       PROVE  keeps(r)
  <2>1. src' = src /\ row' = row
    BY <1>10 DEF PollFile
  <2>2. /\ Others(s) /\ Kind[s] = "file" /\ task'[s].lines = NewLines(s)
        /\ task'[s].queue = task[s].queue /\ task'[s].pos = task[s].pos
    BY <1>10, PollSets
  <2>3. PICK from \in Nat, h \in {0, 1} : Polled(s, from, h)
    BY LinesPolled
  <2>4. ASSUME NEW p \in 1..Len(NewLines(s))
        PROVE  mine(s, NewLines(s)[p])
    <3>1. /\ Len(NewLines(s)) = h + (src[s].len - from) /\ from <= src[s].len
          /\ h = 1 => from = row[s].cursor /\ row[s].lag > 1 /\ NewLines(s)[1] = Fragment(s)
          /\ \A i \in 1..(src[s].len - from) : FullLine(s, from + i, NewLines(s)[h + i])
      BY <2>3 DEF Polled
    <3>2. CASE p > h
      <4> DEFINE i == p - h
      <4>1. i \in 1..(src[s].len - from) /\ h + i = p
        BY <1>2, <3>1, <3>2
      <4>2. from + i \in Nat /\ from + i >= 1 /\ from + i <= src[s].len
        BY <1>2, <3>1, <4>1
      <4>3. FullLine(s, from + i, NewLines(s)[p])
        BY <3>1, <4>1
      <4> HIDE DEF i
      <4> QED BY <1>6, <2>1, <4>2, <4>3
    <3>3. CASE ~(p > h)
      <4>1. h = 1 /\ p = 1
        BY <1>2, <3>1, <3>3
      <4>2. /\ NewLines(s)[p] = Fragment(s) /\ row[s].lag > 1
            /\ row[s].cursor <= src[s].len /\ row[s].lag \in Int
        BY <3>1, <4>1, LogTypes DEF SubRow
      <4>3. Fragment(s).s = s /\ Fragment(s).off = row[s].cursor /\ Fragment(s).lag = 0
            /\ Fragment(s).text = row[s].lag
        BY <4>2, FragmentTyped
      <4>4. row[s].lag # 0 /\ row[s].lag # 1
        BY <4>2
      <4>5. row[s].cursor # 0 /\ Blank /\ src[s].len <= src[s].total
        BY <1>2, <4>4 DEF SourceKept
      <4>6. 1 <= row[s].cursor /\ row[s].cursor <= src'[s].total
        BY <1>2, <2>1, <4>2, <4>5
      <4>7. Blank'
        BY <1>2, <4>5
      <4> QED BY <4>2, <4>3, <4>4, <4>6, <4>7 DEF mine
    <3> QED BY <3>2, <3>3
  <2>5. LinesOwned(s)'
    BY <1>8, <1>9, <2>1, <2>2, <2>4
  <2>6. SourceKept(s)'
    BY <1>2, <2>1, <2>2 DEF SourceKept
  <2> QED BY <1>5, <2>1, <2>2, <2>5, <2>6
<1>11. ASSUME NEW s \in Subs, NEW l, Put(s, l), mine(s, l), src' = src
       PROVE  \A p \in 1..Len(task'[s].queue) : mine(s, task'[s].queue[p])
  <2>1. ASSUME NEW p \in 1..Len(task'[s].queue) PROVE mine(s, task'[s].queue[p])
    <3>1. CASE p \in 1..Len(task[s].queue)
      BY <1>9, <1>11, <3>1 DEF Put
    <3>2. CASE p \notin 1..Len(task[s].queue)
      <4>1. p = Len(task[s].queue) + 1
        BY <1>11, <3>2 DEF Put
      <4> QED BY <1>11, <4>1 DEF Put
    <3> QED BY <3>1, <3>2
  <2> QED BY <2>1
<1>12. ASSUME NEW s \in Subs, PutLine(s), NEW r \in Subs
       PROVE  keeps(r)
  <2>1. src' = src /\ row' = row
    BY <1>12 DEF PutLine
  <2>2. /\ Others(s) /\ task'[s].pos = task[s].pos /\ Put(s, task[s].lines[1])
        /\ Len(task[s].lines) >= 1 /\ Len(task'[s].lines) = Len(task[s].lines) - 1
        /\ \A i \in 1..Len(task'[s].lines) : task'[s].lines[i] = task[s].lines[i + 1]
    BY <1>12, PutSets
  <2>3. 1 \in 1..Len(task[s].lines) /\ \A i \in 1..Len(task'[s].lines) : i + 1 \in 1..Len(task[s].lines)
    BY <1>2, <2>2
  <2>4. \A p \in 1..Len(task'[s].queue) : mine(s, task'[s].queue[p])
    BY <1>9, <1>11, <2>1, <2>2, <2>3
  <2>5. \A p \in 1..Len(task'[s].lines) : mine(s, task'[s].lines[p])
    BY <1>9, <2>1, <2>2, <2>3
  <2>6. Kind[s] = "file"
    <3>1. task[s].lines # << >>
      BY <1>12 DEF PutLine
    <3> QED BY <1>2, <3>1 DEF SourceKept
  <2>7. SourceKept(s)'
    BY <1>2, <2>1, <2>2, <2>6 DEF SourceKept
  <2> QED BY <1>5, <1>8, <2>1, <2>2, <2>4, <2>5, <2>7
<1>13. ASSUME NEW s \in Subs, StreamLine(s), NEW r \in Subs
       PROVE  keeps(r)
  <2>1. src' = src /\ row' = row
    BY <1>13 DEF StreamLine
  <2>2. /\ Others(s) /\ task'[s].pos = task[s].pos + 1 /\ task'[s].lines = task[s].lines
        /\ task[s].pos \in Nat /\ task[s].pos < src[s].len /\ Put(s, Line(s, task[s].pos + 1, 0))
    BY <1>13, StreamSets
  <2>3. task[s].pos + 1 \in Nat /\ task[s].pos + 1 >= 1 /\ task[s].pos + 1 <= src[s].len
    BY <1>2, <2>2
  <2>8. FullLine(s, task[s].pos + 1, Line(s, task[s].pos + 1, 0))
    BY <2>3, LineTyped DEF FullLine
  <2>4. \A p \in 1..Len(task'[s].queue) : mine(s, task'[s].queue[p])
    BY <1>6, <1>11, <2>1, <2>2, <2>3, <2>8
  <2>5. LinesOwned(s)'
    BY <1>8, <1>9, <2>1, <2>2, <2>4
  <2>6. Kind[s] # "file"
    BY <1>2, <2>2 DEF SourceKept
  <2>7. SourceKept(s)'
    BY <1>2, <2>1, <2>2, <2>3, <2>6 DEF SourceKept
  <2> QED BY <1>5, <2>1, <2>2, <2>5, <2>7
<1>14. ASSUME NEW s \in Subs, OpenStream(s), NEW r \in Subs
       PROVE  keeps(r)
  <2>1. src' = src
    BY <1>14 DEF OpenStream
  <2>2. /\ Others(s) /\ Kind[s] = "docker" /\ task'[s].lines = task[s].lines
        /\ task'[s].queue = task[s].queue /\ task'[s].pos \in Nat /\ task'[s].pos <= src[s].len
        /\ row' = row \/ row' = [row EXCEPT ![s].from = task'[s].pos]
    BY <1>14, OpenSets
  <2>3. /\ row'[s].cursor = row[s].cursor /\ row'[s].lag = row[s].lag
        /\ row'[s].from \in {row[s].from, task'[s].pos}
        /\ \A q \in Subs : q # s => row'[q] = row[q]
    <3>1. row \in [Subs -> SubRow] /\ row[s] \in SubRow
      BY LogTypes
    <3> QED BY <2>2, <3>1 DEF SubRow
  <2>4. LinesOwned(s)'
    BY <1>8, <1>9, <2>1, <2>2
  <2>5. Kind[s] # "file"
    BY <2>2
  <2>6. SourceKept(s)'
    BY <1>2, <2>1, <2>2, <2>3, <2>5 DEF SourceKept
  <2> QED BY <1>5, <2>1, <2>2, <2>3, <2>4, <2>6
<1>15. ASSUME NEW s \in Subs, NEW n \in 1..Len(task[s].queue), Taken(s, n), src' = src,
              task'[s].queue = Rest(s)
       PROVE  \A p \in 1..Len(task'[s].queue) : mine(s, task'[s].queue[p])
  <2>1. ASSUME NEW p \in 1..Len(task'[s].queue)
        PROVE  n + p \in 1..Len(task[s].queue) /\ task'[s].queue[p] = task[s].queue[n + p]
    <3>1. Len(Rest(s)) = Len(task[s].queue) - n /\ Rest(s)[p] = task[s].queue[n + p]
      BY <1>15 DEF Taken
    <3> QED BY <1>2, <1>15, <3>1
  <2> QED BY <1>9, <1>15, <2>1
<1>16. ASSUME NEW s \in Subs, Written(s), NEW r \in Subs
       PROVE  keeps(r)
  <2>1. src' = src
    BY <1>16 DEF Written
  <2>2. /\ Others(s) /\ task'[s].pos = task[s].pos /\ task'[s].lines = task[s].lines
        /\ task'[s].queue = Rest(s) /\ (\E n \in 1..Len(task[s].queue) : Taken(s, n))
        /\ (\A i \in 1..Len(Batch(s)) : Own(s, Batch(s)[i]))
        /\ (\A q \in Subs : q # s => row'[q] = row[q]) /\ row'[s].from = row[s].from
        /\ \/ row'[s].cursor = row[s].cursor /\ row'[s].lag = row[s].lag
           \/ row'[s].cursor = Batch(s)[Len(Batch(s))].off /\ row'[s].lag = Batch(s)[Len(Batch(s))].lag
    BY <1>16, WrittenIs
  <2>3. PICK n \in 1..Len(task[s].queue) : Taken(s, n)
    BY <2>2
  <2>4. LinesOwned(s)'
    BY <1>8, <1>9, <1>15, <2>1, <2>2, <2>3
  <2>5. Len(Batch(s)) \in 1..Len(Batch(s))
    BY <1>2, <2>3 DEF Taken
  <2>6. /\ row'[s].cursor <= src[s].total /\ (Blank' \/ row'[s].lag = 0)
        /\ row'[s].cursor = 0 => row'[s].lag = 0
    <3>1. Own(s, Batch(s)[Len(Batch(s))])
      BY <2>2, <2>5
    <3>2. CASE row'[s].cursor = row[s].cursor /\ row'[s].lag = row[s].lag
      BY <1>2, <3>2 DEF SourceKept
    <3>3. CASE row'[s].cursor = Batch(s)[Len(Batch(s))].off /\ row'[s].lag = Batch(s)[Len(Batch(s))].lag
      BY <1>2, <3>1, <3>3 DEF Own, Expected
    <3> QED BY <2>2, <3>2, <3>3
  <2>7. SourceKept(s)'
    BY <1>2, <2>1, <2>2, <2>6 DEF SourceKept
  <2> QED BY <1>5, <2>1, <2>2, <2>4, <2>7
<1>17. ASSUME NEW s \in Subs, GivenUp(s), NEW r \in Subs
       PROVE  keeps(r)
  <2>1. src' = src /\ row' = row
    BY <1>17 DEF GivenUp
  <2>2. /\ Others(s) /\ task'[s].pos = task[s].pos /\ task'[s].lines = task[s].lines
        /\ task'[s].queue = Rest(s) /\ \E n \in 1..Len(task[s].queue) : Taken(s, n)
    BY <1>17, GivenUpIs
  <2>3. LinesOwned(s)'
    BY <1>8, <1>9, <1>15, <2>1, <2>2
  <2>4. SourceKept(s)'
    BY <1>2, <2>1, <2>2 DEF SourceKept
  <2> QED BY <1>5, <2>1, <2>2, <2>3, <2>4
<1>18. ASSUME Restart, NEW r \in Subs
       PROVE  keeps(r)
  <2>1. src' = src /\ row' = row
    BY <1>18 DEF Restart
  <2> QED BY <1>18, <2>1, RestartHalts, SourceSame DEF RowSame
<1>19. ASSUME SocketStep \/ UNCHANGED logVars, NEW r \in Subs
       PROVE  keeps(r)
  <2>1. src' = src /\ row' = row /\ task' = task
    BY <1>19, SocketsAlone DEF logVars
  <2> QED BY <2>1, SourceSame DEF RowSame
<1> HIDE DEF keeps
<1>20. ASSUME NEW r \in Subs PROVE keeps(r)
  BY <1>3, <1>4, <1>10, <1>12, <1>13, <1>14, <1>16, <1>17, <1>18, <1>19, StepKinds DEF ReadStep
<1> QED BY <1>1, <1>20 DEF keeps

\* The last row of a page, and the keys it stands for.
LEMMA LastIs ==
  ASSUME NEW T \in SUBSET LogRow, IsFiniteSet(T), T # {}
  PROVE  LastOf(T) \in T /\ \A q \in T : q.seq <= LastOf(T).seq
<1>1. \E r \in T : \A q \in T : q.seq <= r.seq
  BY LatestIs
<1> QED BY <1>1 DEF LastOf

LEMMA KeyTyped ==
  /\ \A l \in LogLine : DedupeKey(l) \in LogKey
  /\ \A T \in SUBSET LogRow : Keys(T) \in SUBSET LogKey
<1>1. ASSUME NEW l \in LogLine PROVE DedupeKey(l) \in LogKey
  BY DEF LogLine, LogKey, DedupeKey
<1>2. ASSUME NEW T \in SUBSET LogRow PROVE Keys(T) \in SUBSET LogKey
  <2>1. \A r \in T : r.line \in LogLine
    BY DEF LogRow
  <2> QED BY <1>1, <2>1 DEF Keys
<1> QED BY <1>1, <1>2

LEMMA LatestGrows ==
  ASSUME LogTyped, SourcesKept, RowsDiffer, [LogNext]_logVars
  PROVE  LatestSequence \in Nat /\ LatestSequence' \in Nat /\ LatestSequence <= LatestSequence'
<1>1. /\ records' \in SUBSET LogRow /\ IsFiniteSet(records') /\ records \subseteq records'
      /\ records \in SUBSET LogRow /\ IsFiniteSet(records)
  BY TableGrows DEF LogTyped
<1>2. LatestSequence \in Nat /\ LatestSequence' \in Nat
  BY <1>1, LatestIs DEF LatestSequence
<1>3. CASE records = {}
  <2>1. LatestSequence = 0
    BY <1>3 DEF LatestSequence, Highest
  <2> QED BY <1>2, <2>1
<1>4. CASE records # {}
  <2>1. PICK r \in records : r.seq = LatestSequence
    BY <1>1, <1>4, LatestIs DEF LatestSequence
  <2>2. \A q \in records' : q.seq <= LatestSequence'
    BY <1>1, LatestIs DEF LatestSequence
  <2> QED BY <1>1, <1>2, <2>1, <2>2
<1> QED BY <1>3, <1>4

LEMMA NoViewTyped ==
  /\ NoView \in Socket /\ Len(NoView.q) = 0 /\ NoView.st = "off" /\ NoView.kind = "legacy"
  /\ NoView.pos = <<0, 0>> /\ NoView.last = 0 /\ NoView.seen = {} /\ NoView.q = << >>
<1>1. << >> \in Seq(LogLine) /\ Len(<< >>) = 0 /\ {} \in SUBSET LogKey /\ 0 \in Nat /\ <<0, 0>> \in Nat \X Int
  BY EmptySeq
<1>2. NoView \in Socket
  BY <1>1 DEF NoView, Socket
<1> QED BY <1>1, <1>2 DEF NoView

\* A page of a replay.
LEMMA PageIs ==
  ASSUME records \in SUBSET LogRow, IsFiniteSet(records), NEW c
  PROVE  /\ RowsAfter(c) = {r \in Mine : r.seq > Reach(c)}
         /\ RowsAfter(c) \in SUBSET LogRow /\ IsFiniteSet(RowsAfter(c)) /\ RowsAfter(c) \subseteq records
         /\ Page(RowsAfter(c)) \subseteq RowsAfter(c) /\ IsFiniteSet(Page(RowsAfter(c)))
         /\ Page(RowsAfter(c)) \in SUBSET LogRow
<1>1. RowsAfter(c) = {r \in Mine : r.seq > Reach(c)}
  BY DEF RowsAfter, Mine, Reach, Reached, OfLine
<1>2. RowsAfter(c) \subseteq records
  BY <1>1 DEF Mine
<1>3. Page(RowsAfter(c)) \subseteq RowsAfter(c)
  BY DEF Page
<1>4. IsFiniteSet(RowsAfter(c)) /\ IsFiniteSet(Page(RowsAfter(c)))
  BY <1>2, <1>3, FS_Subset
<1> QED BY <1>1, <1>2, <1>3, <1>4

\* Sockets keep their type.
SocketTyped == view \in Socket /\ Len(view.q) <= LiveSize /\ view.last \in 0..LatestSequence

LEMMA SocketsTyped ==
  ASSUME LogTyped, SourcesKept, RowsDiffer, [LogNext]_logVars
  PROVE  SocketTyped'
<1>1. /\ view \in Socket /\ Len(view.q) <= LiveSize /\ view.last \in 0..LatestSequence
      /\ records \in SUBSET LogRow /\ IsFiniteSet(records) /\ LiveSize \in Nat
  BY LogBounds DEF LogTyped, LogTypeOK
<1>2. LatestSequence \in Nat /\ LatestSequence' \in Nat /\ LatestSequence <= LatestSequence'
  BY LatestGrows
<1>3. ASSUME view' \in Socket, Len(view'.q) <= LiveSize, view'.last \in {0, view.last, LatestSequence}
      PROVE  SocketTyped'
  BY <1>1, <1>2, <1>3 DEF SocketTyped
<1>4. CASE view' = view
  BY <1>1, <1>3, <1>4
<1>5. CASE view' = NoView
  BY <1>1, <1>3, <1>5, NoViewTyped
<1>6. ASSUME NEW s \in Subs, Written(s)
      PROVE  SocketTyped'
  BY <1>3, <1>6, WrittenIs DEF Published
<1>7. view.q \in Seq(LogLine) /\ view.seen \in SUBSET LogKey /\ view.last \in Nat
  BY <1>1 DEF Socket
<1>8. ASSUME NEW kind \in {"legacy", "product"}, ViewRecords(kind)
      PROVE  SocketTyped'
  <2>1. CASE view' = [NoView EXCEPT !.st = "replay"]
    <3>1. view' \in Socket /\ view'.q = << >> /\ view'.last = 0
      BY <2>1, NoViewTyped DEF Socket
    <3> QED BY <1>1, <1>3, <3>1, EmptySeq
  <2>2. CASE view' = [NoView EXCEPT !.st = "live", !.kind = kind, !.last = Backlog(0)]
    <3>1. Backlog(0) \in {0, LatestSequence} /\ Backlog(0) \in Nat
      BY <1>2 DEF Backlog
    <3>2. view' \in Socket /\ view'.q = << >> /\ view'.last = Backlog(0)
      BY <2>2, <3>1, NoViewTyped DEF Socket
    <3> QED BY <1>1, <1>3, <3>1, <3>2, EmptySeq
  <2> QED BY <1>8, <2>1, <2>2 DEF ViewRecords
<1>9. CASE ReplayPage
  <2> DEFINE page == Page(RowsAfter(view.pos))
  <2>1. page \in SUBSET LogRow /\ IsFiniteSet(page)
    BY <1>1, PageIs
  <2>2. view' = IF page = {} THEN [view EXCEPT !.st = "live"]
                ELSE [view EXCEPT !.pos = CursorOf(LastOf(page).line), !.seen = @ \cup Keys(page)]
    BY <1>9 DEF ReplayPage
  <2>3. CASE page = {}
    <3>1. view' \in Socket /\ view'.q = view.q /\ view'.last = view.last
      BY <1>1, <2>2, <2>3 DEF Socket
    <3> QED BY <1>1, <1>3, <3>1
  <2>4. CASE page # {}
    <3> DEFINE pos == CursorOf(LastOf(page).line)
               seen == view.seen \cup Keys(page)
    <3>1. LastOf(page) \in page
      BY <2>1, <2>4, LastIs
    <3>2. pos \in Nat \X Int /\ seen \in SUBSET LogKey
      BY <1>7, <2>1, <3>1, KeyTyped DEF LogRow, LogLine, CursorOf
    <3>3. view' = [view EXCEPT !.pos = pos, !.seen = seen]
      BY <2>2, <2>4
    <3> HIDE DEF pos, seen
    <3>4. view' \in Socket /\ view'.q = view.q /\ view'.last = view.last
      BY <1>1, <3>2, <3>3 DEF Socket
    <3> QED BY <1>1, <1>3, <3>4
  <2> QED BY <2>3, <2>4
<1>10. CASE TakeLive
  <2> DEFINE seen == IF view.kind = "legacy" THEN view.seen \cup {DedupeKey(Head(view.q))} ELSE view.seen
  <2>1. view.q # << >>
    BY <1>10 DEF TakeLive
  <2>2. Head(view.q) \in LogLine /\ Tail(view.q) \in Seq(LogLine) /\ Len(Tail(view.q)) = Len(view.q) - 1
        /\ Len(view.q) \in Nat
    BY <1>7, <2>1, HeadTailProperties, LenProperties
  <2>3. seen \in SUBSET LogKey
    BY <1>7, <2>2, KeyTyped
  <2>4. ~(0 > view.last)
    BY <1>7
  <2>5. view' = [view EXCEPT !.q = Tail(view.q), !.seen = seen, !.last = view.last]
    BY <1>10, <2>4 DEF TakeLive, SequenceOf
  <2> HIDE DEF seen
  <2>6. view' \in Socket /\ view'.q = Tail(view.q) /\ view'.last = view.last
    BY <1>1, <1>7, <2>2, <2>3, <2>5 DEF Socket
  <2> QED BY <1>1, <1>3, <2>2, <2>6
<1>11. CASE PauseView
  <2> DEFINE last == IF view.paused THEN Backlog(view.last) ELSE view.last
             paused == ~view.paused
  <2>1. last \in {view.last, LatestSequence} /\ last \in Nat
    BY <1>2, <1>7 DEF Backlog
  <2>2. view' = [view EXCEPT !.paused = paused, !.last = last]
    BY <1>11 DEF PauseView
  <2>3. paused \in BOOLEAN
    OBVIOUS
  <2> HIDE DEF last, paused
  <2>4. view' \in Socket /\ view'.q = view.q /\ view'.last = last
    BY <1>1, <2>1, <2>2, <2>3 DEF Socket
  <2> QED BY <1>1, <1>3, <2>1, <2>4
<1>12. ASSUME NEW s \in Subs, CallStep(s) \/ SourceStep(s) \/ ReadStep(s) \/ GivenUp(s)
       PROVE  view' = view
  BY <1>12, TasksMove, SourceMoves DEF TasksMoved, ReadStep, PollFile, PutLine, OpenStream, StreamLine, GivenUp
<1>13. Restart \/ CloseView => view' = NoView
  BY DEF Restart, CloseView
<1>14. CASE LogNext
  BY <1>4, <1>5, <1>6, <1>8, <1>9, <1>10, <1>11, <1>12, <1>13, <1>14, StepKinds DEF SocketStep
<1>15. CASE UNCHANGED logVars
  <2>1. view' = view
    BY <1>15 DEF logVars
  <2> QED BY <1>4, <2>1
<1> QED BY <1>14, <1>15

\* So every state has its type.
LEMMA TypedStays ==
  ASSUME LogTyped, SourcesKept, RowsDiffer, [LogNext]_logVars
  PROVE  LogTyped'
<1>1. /\ task' \in [Subs -> SubTask] /\ (\A r \in Subs : Fits(r, task'[r]))
      /\ row' \in [Subs -> SubRow] /\ src' \in [Subs -> Source]
      /\ \A r \in Subs : src'[r].gen \in 0..MaxRotations /\ Len(src'[r].above) = src'[r].len
  BY TypesKept
<1>2. SourcesKept'
  BY SourcesStay
<1>3. SocketTyped' /\ view'.st \in {"off", "replay", "live"}
  BY SocketsTyped DEF SocketTyped, Socket
<1>4. /\ opened' \subseteq {"crossed", "overcap", "rotated", "dropped", "overflow", "blank"}
      /\ waiting' \in [Subs -> SUBSET {"pause", "delete"}]
      /\ faults' \in 0..MaxFaults /\ calls' \in 0..MaxCalls
  BY WindowsGrow
<1>5. records' \in SUBSET LogRow /\ IsFiniteSet(records')
  BY TableGrows
<1>6. ASSUME NEW s \in Subs
      PROVE  /\ row'[s].status \in {"none", "active", "paused", "error", "deleted"}
             /\ row'[s].cursor \in 0..MaxLines[s] /\ row'[s].from \in 0..MaxLines[s]
             /\ task'[s].on \in BOOLEAN /\ task'[s].pos \in -1..MaxLines[s]
             /\ Len(task'[s].queue) <= QueueSize /\ task'[s].fails \in 0..(MaxFailures - 1)
             /\ src'[s].len \in 0..src'[s].total /\ src'[s].gen \in 0..MaxRotations
             /\ Len(src'[s].above) = src'[s].len
  <2>1. row'[s] \in SubRow /\ src'[s] \in Source /\ task'[s] \in SubTask
    BY <1>1
  <2>2. /\ row'[s].status \in {"none", "active", "paused", "error", "deleted"}
        /\ row'[s].cursor \in Nat /\ row'[s].from \in Nat /\ task'[s].on \in BOOLEAN
        /\ task'[s].pos \in Int /\ task'[s].fails \in Nat /\ src'[s].len \in Nat /\ src'[s].total \in Nat
    BY <2>1 DEF SubRow, Source, SubTask
  <2>3. /\ -1 <= task'[s].pos /\ task'[s].pos <= MaxLines[s]
        /\ Len(task'[s].queue) <= QueueSize /\ task'[s].fails <= MaxFailures - 1
    BY <1>1 DEF Fits
  <2>4. /\ src'[s].len <= src'[s].total /\ src'[s].total <= MaxLines[s]
        /\ row'[s].cursor <= src'[s].total /\ row'[s].from <= src'[s].total
    BY <1>2 DEF SourcesKept, SourceKept
  <2>5. MaxLines[s] \in Nat /\ MaxFailures \in Nat
    BY LogBounds
  <2> QED BY <1>1, <2>2, <2>3, <2>4, <2>5
<1>7. LogTypeOK'
  BY <1>3, <1>4, <1>6 DEF LogTypeOK, SocketTyped
<1> QED BY <1>1, <1>3, <1>5, <1>7 DEF LogTyped, SocketTyped

-----------------------------------------------------------------------------
(* No gap opens below a cursor. *)

\* Nothing was dropped and no file was rotated.
Unbroken == opened \cap {"dropped", "rotated"} = {}

\* The state of one subscription's way, unprimed and primed.
LEMMA GapsTyped ==
  ASSUME LogTyped, NEW s \in Subs
  PROVE  /\ row[s].from \in Nat /\ row[s].cursor \in Nat /\ task[s].pos \in Int
         /\ Len(task[s].queue) \in Nat /\ Len(task[s].lines) \in Nat
         /\ \A p \in 1..Len(task[s].queue) : task[s].queue[p].off \in Nat
         /\ \A p \in 1..Len(task[s].lines) : task[s].lines[p].off \in Nat
<1>1. row[s] \in SubRow /\ task[s] \in SubTask
  BY LogTypes
<1>2. task[s].queue \in Seq(LogLine) /\ task[s].lines \in Seq(LogLine)
  BY <1>1 DEF SubTask
<1>3. /\ \A p \in 1..Len(task[s].queue) : task[s].queue[p] \in LogLine
      /\ \A p \in 1..Len(task[s].lines) : task[s].lines[p] \in LogLine
  BY <1>2, ElementOfSeq
<1> QED BY <1>1, <1>2, <1>3, LenProperties DEF SubRow, SubTask, LogLine

\* A subscription whose way is left as it is, or dropped.
LEMMA GaplessSame ==
  ASSUME LogTyped, NEW r \in Subs, Gapless(r), records \subseteq records', RowSame(r),
         task'[r] = task[r] \/ Halted(r)
  PROVE  Gapless(r)'
<1>1. \A j \in Nat : Has(r, j) => Has(r, j)'
  BY DEF Has
<1>2. /\ row[r].from \in Nat /\ task[r].pos \in Int
      /\ row'[r].cursor = row[r].cursor /\ row'[r].from = row[r].from
  BY GapsTyped DEF RowSame
<1>3. ASSUME task'[r].lines = task[r].lines, task'[r].queue = task[r].queue,
             task'[r].pos \in {task[r].pos, -1}
      PROVE  Gapless(r)'
  <2>1. \A n, j : (InQueue(r, n, j) => InQueue(r, n, j)') /\ (InLines(r, n, j) => InLines(r, n, j)')
    BY <1>3 DEF InQueue, InLines
  <2>2. \A j \in Nat : row[r].from < j /\ j <= task'[r].pos => j <= task[r].pos
    BY <1>2, <1>3
  <2> QED BY <1>1, <1>2, <1>3, <2>1, <2>2 DEF Gapless
<1>4. ASSUME task'[r].lines = << >>, task'[r].queue = << >>, task'[r].pos = -1
      PROVE  Gapless(r)'
  <2>1. Len(task'[r].lines) = 0 /\ Len(task'[r].queue) = 0
    BY <1>4, EmptySeq
  <2>2. \A j \in Nat : ~(row[r].from < j /\ j <= -1)
    BY <1>2
  <2>3. \A p \in 1..0 : FALSE
    OBVIOUS
  <2> QED BY <1>1, <1>2, <1>4, <2>1, <2>2, <2>3 DEF Gapless
<1> QED BY <1>3, <1>4 DEF Halted

\* A line put behind the queue, with all below it stored or in the queue.
LEMMA GaplessPut ==
  ASSUME LogTyped, NEW s \in Subs, Gapless(s), records' = records, RowSame(s), NEW l, Put(s, l),
         \A j \in Nat : row[s].from < j /\ Below(j, l) => Has(s, j) \/ InQueue(s, Len(task[s].queue), j)
  PROVE  /\ \A p \in 1..Len(task'[s].queue), j \in Nat :
              row'[s].from < j /\ Below(j, task'[s].queue[p]) => Has(s, j)' \/ InQueue(s, p - 1, j)'
         /\ \A j \in Nat : Has(s, j) \/ InQueue(s, Len(task[s].queue), j) =>
              Has(s, j)' \/ InQueue(s, Len(task[s].queue), j)'
         /\ l.text = 0 => InQueue(s, Len(task[s].queue), l.off)'
<1> DEFINE n == Len(task[s].queue)
<1>1. \A j \in Nat : Has(s, j) => Has(s, j)'
  BY DEF Has
<1>2. /\ n \in Nat /\ Len(task'[s].queue) = n + 1 /\ row'[s].from = row[s].from
      /\ (\A i \in 1..n : task'[s].queue[i] = task[s].queue[i]) /\ task'[s].queue[n + 1] = l
  BY DEF Put, RowSame
<1>3. ASSUME NEW m \in 0..n, NEW j, InQueue(s, m, j)
      PROVE  InQueue(s, m, j)'
  <2>1. PICK i \in 1..m : task[s].queue[i].off = j /\ task[s].queue[i].text = 0
    BY <1>3 DEF InQueue
  <2>2. i \in 1..n
    BY <1>2
  <2> QED BY <1>2, <2>1, <2>2 DEF InQueue
<1>4. ASSUME NEW p \in 1..Len(task'[s].queue), NEW j \in Nat, row'[s].from < j, Below(j, task'[s].queue[p])
      PROVE  Has(s, j)' \/ InQueue(s, p - 1, j)'
  <2>1. CASE p \in 1..n
    <3>1. Has(s, j) \/ InQueue(s, p - 1, j)
      BY <1>2, <1>4, <2>1 DEF Gapless
    <3>2. p - 1 \in 0..n
      BY <1>2, <2>1
    <3> QED BY <1>1, <1>3, <3>1, <3>2
  <2>2. CASE p \notin 1..n
    <3>1. p = n + 1 /\ p - 1 = n /\ n \in 0..n
      BY <1>2, <2>2
    <3>2. Has(s, j) \/ InQueue(s, n, j)
      BY <1>2, <1>4, <3>1
    <3> QED BY <1>1, <1>3, <3>1, <3>2
  <2> QED BY <2>1, <2>2
<1>5. ASSUME NEW j \in Nat, InQueue(s, n, j)
      PROVE  InQueue(s, Len(task[s].queue), j)'
  <2>1. PICK i \in 1..n : task[s].queue[i].off = j /\ task[s].queue[i].text = 0
    BY <1>5 DEF InQueue
  <2>2. i \in 1..Len(task'[s].queue)
    BY <1>2
  <2> QED BY <1>2, <2>1, <2>2 DEF InQueue
<1>6. l.text = 0 => InQueue(s, Len(task[s].queue), l.off)'
  <2>1. n + 1 \in 1..Len(task'[s].queue)
    BY <1>2
  <2> QED BY <1>2, <2>1 DEF InQueue
<1> QED BY <1>1, <1>4, <1>5, <1>6

\* A poll: what it reads begins behind the cursor, or at the first line.
LEMMA GaplessPoll ==
  ASSUME LogTyped, SourcesKept, ~Rotated, NEW s \in Subs, Gapless(s), PollFile(s)
  PROVE  Gapless(s)'
<1>1. records' = records /\ row' = row
  BY DEF PollFile
<1>2. /\ task'[s].lines = NewLines(s) /\ task'[s].queue = task[s].queue /\ task'[s].pos = task[s].pos
  BY PollSets
<1>3. PICK from \in Nat, h \in {0, 1} : Polled(s, from, h)
  BY LinesPolled
<1>4. src[s].len \in Nat /\ row[s].cursor \in Nat /\ row[s].from \in Nat /\ row[s].lag \in Int
      /\ src[s].text = 0
  BY LogTypes DEF Source, SubRow, SourcesKept, SourceKept
<1>5. \A j \in Nat : Has(s, j) => Has(s, j)'
  BY <1>1 DEF Has
<1>6. \A n, j : InQueue(s, n, j) => InQueue(s, n, j)'
  BY <1>2 DEF InQueue
<1>7. ASSUME NEW p \in 1..Len(NewLines(s)), NEW j \in Nat, row[s].from < j, Below(j, NewLines(s)[p])
      PROVE  Has(s, j)' \/ InLines(s, p - 1, j)'
  <2>1. /\ from \in {0, row[s].cursor} /\ from <= src[s].len /\ Len(NewLines(s)) = h + (src[s].len - from)
        /\ h = 1 => from = row[s].cursor /\ row[s].lag > 1 /\ NewLines(s)[1] = Fragment(s)
        /\ \A i \in 1..(src[s].len - from) :
             NewLines(s)[h + i].off = from + i /\ NewLines(s)[h + i].text = 0
    BY <1>3, <1>4 DEF Polled, FullLine
  <2>2. CASE j <= from
    <3>1. from = row[s].cursor
      BY <1>4, <1>7, <2>1, <2>2
    <3>2. Has(s, j)
      BY <1>7, <2>2, <3>1 DEF Gapless
    <3> QED BY <1>5, <3>2
  <2>3. CASE ~(j <= from)
    <3>1. p > h
      <4> SUFFICES ASSUME ~(p > h) PROVE FALSE
        OBVIOUS
      <4>1. h = 1 /\ p = 1
        BY <1>4, <2>1
      <4>2. Fragment(s).off = from
        BY <2>1, <4>1, FragmentTyped
      <4> QED BY <1>7, <2>1, <2>3, <4>1, <4>2 DEF Below
    <3>2. p - h \in 1..(src[s].len - from) /\ h + (p - h) = p
      <4>1. PICK n \in Nat : n = src[s].len - from
        BY <1>4, <2>1
      <4>2. Len(NewLines(s)) = h + n
        BY <2>1, <4>1
      <4>3. p \in 1..(h + n)
        BY <4>2
      <4>4. p - h \in 1..n /\ h + (p - h) = p
        BY <3>1, <4>3
      <4> QED BY <4>1, <4>4
    <3>3. NewLines(s)[p].off = from + (p - h) /\ NewLines(s)[p].text = 0
      BY <2>1, <3>2
    <3>4. j < from + (p - h)
      BY <1>7, <3>3 DEF Below
    <3> DEFINE i == j - from
    <3>5. i \in 1..(src[s].len - from) /\ h + i \in 1..(p - 1) /\ from + i = j
      BY <1>4, <2>1, <2>3, <3>2, <3>4
    <3>6. NewLines(s)[h + i].off = j /\ NewLines(s)[h + i].text = 0
      BY <2>1, <3>5
    <3> HIDE DEF i
    <3> QED BY <1>2, <3>5, <3>6 DEF InLines
  <2> QED BY <2>2, <2>3
<1> QED BY <1>1, <1>2, <1>5, <1>6, <1>7 DEF Gapless

\* A line of the poll is put.
LEMMA GaplessPutLine ==
  ASSUME LogTyped, SourcesKept, NEW s \in Subs, Gapless(s), PutLine(s)
  PROVE  Gapless(s)'
<1>1. records' = records /\ row' = row
  BY DEF PutLine
<1>2. /\ task'[s].pos = task[s].pos /\ Put(s, task[s].lines[1])
      /\ Len(task[s].lines) >= 1 /\ Len(task'[s].lines) = Len(task[s].lines) - 1
      /\ \A i \in 1..Len(task'[s].lines) : task'[s].lines[i] = task[s].lines[i + 1]
  BY PutSets
<1>3. Len(task[s].lines) \in Nat /\ Len(task[s].queue) \in Nat /\ row[s].from \in Nat
  BY GapsTyped
<1>4. 1 \in 1..Len(task[s].lines)
  BY <1>2, <1>3
<1>5. ASSUME NEW j \in Nat, row[s].from < j, Below(j, task[s].lines[1])
      PROVE  Has(s, j) \/ InQueue(s, Len(task[s].queue), j)
  <2>1. Has(s, j) \/ InQueue(s, Len(task[s].queue), j) \/ InLines(s, 1 - 1, j)
    BY <1>4, <1>5 DEF Gapless
  <2>2. ~InLines(s, 1 - 1, j)
    BY DEF InLines
  <2> QED BY <2>1, <2>2
<1> PICK l : l = task[s].lines[1]
  OBVIOUS
<1>6. /\ \A p \in 1..Len(task'[s].queue), j \in Nat :
           row'[s].from < j /\ Below(j, task'[s].queue[p]) => Has(s, j)' \/ InQueue(s, p - 1, j)'
      /\ \A j \in Nat : Has(s, j) \/ InQueue(s, Len(task[s].queue), j) =>
           Has(s, j)' \/ InQueue(s, Len(task[s].queue), j)'
      /\ l.text = 0 => InQueue(s, Len(task[s].queue), l.off)'
  BY <1>1, <1>2, <1>5, GaplessPut DEF RowSame
<1>7. ASSUME NEW p \in 1..Len(task'[s].lines), NEW j \in Nat, row'[s].from < j,
             Below(j, task'[s].lines[p])
      PROVE  Has(s, j)' \/ InQueue(s, Len(task[s].queue), j)' \/ InLines(s, p - 1, j)'
  <2>1. p + 1 \in 1..Len(task[s].lines) /\ Below(j, task[s].lines[p + 1])
    <3>1. task'[s].lines[p] = task[s].lines[p + 1]
      BY <1>2
    <3>2. Len(task'[s].lines) = Len(task[s].lines) - 1
      BY <1>2
    <3>3. p + 1 \in 1..Len(task[s].lines)
      BY <1>3, <3>2
    <3> QED BY <1>7, <3>1, <3>3
  <2>2. (p + 1) - 1 = p
    BY <1>7
  <2>3. Has(s, j) \/ InQueue(s, Len(task[s].queue), j) \/ InLines(s, p, j)
    BY <1>1, <1>7, <2>1, <2>2 DEF Gapless
  <2>4. CASE InLines(s, p, j)
    <3>1. PICK i \in 1..p : task[s].lines[i].off = j /\ task[s].lines[i].text = 0
      BY <2>4 DEF InLines
    <3>2. CASE i = 1
      BY <1>6, <3>1, <3>2
    <3>3. CASE i # 1
      <4>1. i - 1 \in 1..(p - 1) /\ i - 1 \in 1..Len(task'[s].lines) /\ (i - 1) + 1 = i
        <5>1. Len(task'[s].lines) = Len(task[s].lines) - 1 /\ Len(task[s].lines) \in Nat
          BY <1>2, <1>3
        <5>2. PICK n \in Nat : n = Len(task[s].lines)
          BY <5>1
        <5> QED BY <3>3, <5>1, <5>2
      <4>2. task'[s].lines[i - 1].off = j /\ task'[s].lines[i - 1].text = 0
        BY <1>2, <3>1, <4>1
      <4> QED BY <4>1, <4>2 DEF InLines
    <3> QED BY <3>2, <3>3
  <2> QED BY <1>6, <2>3, <2>4
<1>8. ASSUME NEW j \in Nat, row'[s].from < j, j <= task'[s].pos
      PROVE  Has(s, j)' \/ InQueue(s, Len(task[s].queue), j)'
  BY <1>1, <1>2, <1>6, <1>8 DEF Gapless
<1>9. ASSUME NEW j \in Nat, row'[s].from < j, j <= row'[s].cursor
      PROVE  Has(s, j)'
  <2>1. Has(s, j)
    BY <1>1, <1>9 DEF Gapless
  <2> QED BY <1>1, <2>1 DEF Has
<1> QED BY <1>6, <1>7, <1>8, <1>9 DEF Gapless

\* A line of the stream.
LEMMA GaplessStream ==
  ASSUME LogTyped, SourcesKept, ~Rotated, NEW s \in Subs, Gapless(s), StreamLine(s)
  PROVE  Gapless(s)'
<1>1. records' = records /\ row' = row
  BY DEF StreamLine
<1>2. /\ task'[s].pos = task[s].pos + 1 /\ task'[s].lines = task[s].lines /\ task[s].pos \in Nat
      /\ Put(s, Line(s, task[s].pos + 1, 0))
  BY StreamSets
<1> PICK l : l = Line(s, task[s].pos + 1, 0)
  OBVIOUS
<1>3. l.off = task[s].pos + 1 /\ l.text = 0 /\ Put(s, l)
  <2>1. task[s].pos + 1 \in Nat
    BY <1>2
  <2>2. src[s].text = 0
    BY DEF SourcesKept, SourceKept
  <2> QED BY <1>2, <2>1, <2>2, LineTyped
<1>4. task[s].lines = << >>
  <2>1. task[s].pos # -1
    BY <1>2
  <2> QED BY <2>1 DEF SourcesKept, SourceKept
<1>5. row[s].from \in Nat
  BY GapsTyped
<1>6. ASSUME NEW j \in Nat, row[s].from < j, Below(j, l)
      PROVE  Has(s, j) \/ InQueue(s, Len(task[s].queue), j)
  <2>1. j <= task[s].pos
    BY <1>2, <1>3, <1>6 DEF Below
  <2> QED BY <1>6, <2>1 DEF Gapless
<1>7. /\ \A p \in 1..Len(task'[s].queue), j \in Nat :
           row'[s].from < j /\ Below(j, task'[s].queue[p]) => Has(s, j)' \/ InQueue(s, p - 1, j)'
      /\ \A j \in Nat : Has(s, j) \/ InQueue(s, Len(task[s].queue), j) =>
           Has(s, j)' \/ InQueue(s, Len(task[s].queue), j)'
      /\ l.text = 0 => InQueue(s, Len(task[s].queue), l.off)'
  BY <1>1, <1>3, <1>6, GaplessPut DEF RowSame
<1>8. ASSUME NEW j \in Nat, row'[s].from < j, j <= task'[s].pos
      PROVE  Has(s, j)' \/ InQueue(s, Len(task[s].queue), j)'
  <2>1. j <= task[s].pos \/ j = l.off
    BY <1>2, <1>3, <1>8
  <2>2. CASE j <= task[s].pos
    <3>1. Has(s, j) \/ InQueue(s, Len(task[s].queue), j)
      BY <1>1, <1>8, <2>2 DEF Gapless
    <3> QED BY <1>7, <3>1
  <2> QED BY <1>3, <1>7, <2>1, <2>2
<1>9. ASSUME NEW j \in Nat, row'[s].from < j, j <= row'[s].cursor
      PROVE  Has(s, j)'
  <2>1. Has(s, j)
    BY <1>1, <1>9 DEF Gapless
  <2> QED BY <1>1, <2>1 DEF Has
<1>10. \A p \in 1..Len(task'[s].lines) : FALSE
  <2>1. Len(task'[s].lines) = 0
    BY <1>2, <1>4, EmptySeq
  <2> QED BY <2>1
<1> QED BY <1>7, <1>8, <1>9, <1>10 DEF Gapless

\* The stream is opened below the cursor, or where the promise begins.
LEMMA GaplessOpen ==
  ASSUME LogTyped, SourcesKept, NEW s \in Subs, Gapless(s), OpenStream(s)
  PROVE  Gapless(s)'
<1>1. records' = records
  BY DEF OpenStream
<1>2. /\ Kind[s] = "docker" /\ task'[s].lines = task[s].lines /\ task'[s].queue = task[s].queue
      /\ task'[s].pos \in Nat
      /\ \/ row' = row /\ task'[s].pos = row[s].cursor - 1
         \/ /\ row[s].cursor = 0 /\ row[s].from <= task'[s].pos
            /\ row' = [row EXCEPT ![s].from = task'[s].pos]
  BY OpenSets
<1>3. /\ row \in [Subs -> SubRow] /\ row[s] \in SubRow /\ row[s].from \in Nat /\ row[s].cursor \in Nat
      /\ Len(task[s].queue) \in Nat /\ \A p \in 1..Len(task[s].queue) : task[s].queue[p].off \in Nat
  BY LogTypes, GapsTyped
<1>4. task[s].lines = << >>
  <2>1. Kind[s] # "file"
    BY <1>2
  <2> QED BY <2>1 DEF SourcesKept, SourceKept
<1>5. \A p \in 1..Len(task'[s].lines) : FALSE
  <2>1. Len(task'[s].lines) = 0
    BY <1>2, <1>4, EmptySeq
  <2> QED BY <2>1
<1>6. \A j : (Has(s, j) => Has(s, j)') /\ \A n : InQueue(s, n, j) => InQueue(s, n, j)'
  BY <1>1, <1>2 DEF Has, InQueue
<1>7. CASE row' = row /\ task'[s].pos = row[s].cursor - 1
  <2>1. ASSUME NEW j \in Nat, row'[s].from < j, j <= task'[s].pos
        PROVE  Has(s, j)'
    <3>1. j <= row[s].cursor
      BY <1>3, <1>7, <2>1
    <3> QED BY <1>6, <1>7, <2>1, <3>1 DEF Gapless
  <2> QED BY <1>2, <1>5, <1>6, <1>7, <2>1 DEF Gapless
<1>8. CASE /\ row[s].cursor = 0 /\ row[s].from <= task'[s].pos
           /\ row' = [row EXCEPT ![s].from = task'[s].pos]
  <2>1. row'[s].from = task'[s].pos /\ row'[s].cursor = 0
    BY <1>3, <1>8 DEF SubRow
  <2>2. \A j \in Nat : row'[s].from < j => row[s].from < j
    BY <1>2, <1>3, <1>8, <2>1
  <2>3. \A j \in Nat : ~(row'[s].from < j /\ j <= task'[s].pos) /\ ~(row'[s].from < j /\ j <= row'[s].cursor)
    BY <1>2, <2>1
  <2> QED BY <1>2, <1>5, <1>6, <2>2, <2>3 DEF Gapless
<1> QED BY <1>2, <1>7, <1>8

\* A batch goes from the queue into the table.
LEMMA GaplessWritten ==
  ASSUME LogTyped, SourcesKept, RowsDiffer, ~Rotated, NEW s \in Subs, Gapless(s), Written(s)
  PROVE  Gapless(s)'
<1> DEFINE len == Len(task[s].queue)
<1>1. /\ task'[s].pos = task[s].pos /\ task'[s].lines = task[s].lines /\ task'[s].queue = Rest(s)
      /\ Appended(Batch(s), records') /\ (\A i \in 1..Len(Batch(s)) : Own(s, Batch(s)[i]))
      /\ row'[s].from = row[s].from
      /\ row'[s].cursor = row[s].cursor \/ row'[s].cursor = Batch(s)[Len(Batch(s))].off
      /\ \E n \in 1..len : Taken(s, n)
  BY WrittenIs
<1>2. PICK n \in 1..len : Taken(s, n)
  BY <1>1
<1>3. /\ Len(Batch(s)) = n /\ (\A i \in 1..n : Batch(s)[i] = task[s].queue[i])
      /\ Len(task'[s].queue) = len - n
      /\ \A i \in 1..(len - n) : task'[s].queue[i] = task[s].queue[n + i]
  BY <1>1, <1>2 DEF Taken
<1>4. /\ row[s].from \in Nat /\ row[s].cursor \in Nat /\ task[s].pos \in Int /\ len \in Nat
      /\ Len(task[s].lines) \in Nat
      /\ \A p \in 1..len : task[s].queue[p].off \in Nat
  BY GapsTyped
<1>5. \A j : Has(s, j) => Has(s, j)'
  <2>1. records \subseteq records'
    BY <1>1 DEF Appended
  <2> QED BY <2>1 DEF Has
<1>6. ASSUME NEW i \in 1..n, NEW j, task[s].queue[i].off = j, task[s].queue[i].text = 0
      PROVE  Has(s, j)'
  <2>1. Batch(s)[i].s = s /\ Batch(s)[i].off = j /\ Batch(s)[i].text = 0
    BY <1>1, <1>3, <1>6 DEF Own
  <2>2. PICK r \in records' : DedupeKey(r.line) = DedupeKey(Batch(s)[i])
    BY <1>1, <1>3 DEF Appended
  <2>3. r.line.s = s /\ r.line.off = j /\ r.line.text = 0
    BY <2>1, <2>2 DEF DedupeKey
  <2> QED BY <2>3 DEF Has
<1>7. ASSUME NEW m \in 0..(len - n), NEW j, Has(s, j) \/ InQueue(s, n + m, j)
      PROVE  Has(s, j)' \/ InQueue(s, m, j)'
  <2>1. CASE InQueue(s, n + m, j)
    <3>1. PICK i \in 1..(n + m) : task[s].queue[i].off = j /\ task[s].queue[i].text = 0
      BY <2>1 DEF InQueue
    <3>2. CASE i \in 1..n
      BY <1>6, <3>1, <3>2
    <3>3. CASE i \notin 1..n
      <4>1. i - n \in 1..m /\ i - n \in 1..(len - n) /\ n + (i - n) = i
        BY <1>4, <3>3
      <4>2. task'[s].queue[i - n].off = j /\ task'[s].queue[i - n].text = 0
        BY <1>3, <3>1, <4>1
      <4> QED BY <4>1, <4>2 DEF InQueue
    <3> QED BY <3>2, <3>3
  <2> QED BY <1>5, <1>7, <2>1
<1>8. ASSUME NEW p \in 1..Len(task'[s].queue), NEW j \in Nat, row'[s].from < j, Below(j, task'[s].queue[p])
      PROVE  Has(s, j)' \/ InQueue(s, p - 1, j)'
  <2>1. p - 1 \in 0..(len - n) /\ n + p \in 1..len /\ n + (p - 1) = (n + p) - 1 /\ p \in 1..(len - n)
    <3>1. len \in Nat /\ n \in 1..len /\ Len(task'[s].queue) = len - n
      BY <1>3, <1>4
    <3> QED BY <3>1
  <2>2. task'[s].queue[p] = task[s].queue[n + p]
    BY <1>3, <2>1
  <2>3. Has(s, j) \/ InQueue(s, (n + p) - 1, j)
    BY <1>1, <1>8, <2>1, <2>2 DEF Gapless
  <2> QED BY <1>7, <2>1, <2>3
<1> PICK m : m = len - n
  OBVIOUS
<1>9. ASSUME NEW j, Has(s, j) \/ InQueue(s, len, j)
      PROVE  Has(s, j)' \/ InQueue(s, m, j)'
  <2>1. m \in 0..(len - n) /\ n + m = len
    BY <1>4
  <2> QED BY <1>7, <1>9, <2>1
<1>10. ASSUME NEW p \in 1..Len(task'[s].lines), NEW j \in Nat, row'[s].from < j, Below(j, task'[s].lines[p])
       PROVE  Has(s, j)' \/ InQueue(s, m, j)' \/ InLines(s, p - 1, j)'
  <2>1. Has(s, j) \/ InQueue(s, len, j) \/ InLines(s, p - 1, j)
    BY <1>1, <1>10 DEF Gapless
  <2>2. InLines(s, p - 1, j) => InLines(s, p - 1, j)'
    BY <1>1 DEF InLines
  <2> QED BY <1>9, <2>1, <2>2
<1>11. ASSUME NEW j \in Nat, row'[s].from < j, j <= task'[s].pos
       PROVE  Has(s, j)' \/ InQueue(s, m, j)'
  BY <1>1, <1>9, <1>11 DEF Gapless
<1>12. ASSUME NEW j \in Nat, row'[s].from < j, j <= row'[s].cursor
       PROVE  Has(s, j)'
  <2>1. CASE row'[s].cursor = row[s].cursor
    <3>1. Has(s, j)
      BY <1>1, <1>12, <2>1 DEF Gapless
    <3> QED BY <1>5, <3>1
  <2>2. CASE row'[s].cursor = Batch(s)[n].off
    <3>1. n \in 1..n /\ n \in 1..len
      BY <1>4
    <3>2. row'[s].cursor = task[s].queue[n].off /\ task[s].queue[n].off \in Nat
      BY <1>3, <1>4, <2>2, <3>1
    <3>3. CASE j = task[s].queue[n].off /\ task[s].queue[n].text = 0
      BY <1>6, <3>1, <3>3
    <3>4. CASE ~(j = task[s].queue[n].off /\ task[s].queue[n].text = 0)
      <4>1. Below(j, task[s].queue[n])
        <5>1. task[s].queue[n].text \in Nat /\ task[s].queue[n].text # 1
          <6>1. Own(s, task[s].queue[n])
            BY <1>1, <1>3, <3>1
          <6>2. task[s].queue[n] \in LogLine
            BY <3>1, LogTypes, ElementOfSeq DEF SubTask
          <6> QED BY <6>1, <6>2 DEF Own, Expected, LogLine
        <5> QED BY <1>12, <3>2, <3>4, <5>1 DEF Below
      <4>2. Has(s, j) \/ InQueue(s, n - 1, j)
        BY <1>1, <1>12, <3>1, <4>1 DEF Gapless
      <4>3. ASSUME InQueue(s, n - 1, j) PROVE Has(s, j)'
        <5>1. PICK i \in 1..(n - 1) : task[s].queue[i].off = j /\ task[s].queue[i].text = 0
          BY <4>3 DEF InQueue
        <5>2. i \in 1..n
          OBVIOUS
        <5> QED BY <1>6, <5>1, <5>2
      <4> QED BY <1>5, <4>2, <4>3
    <3> QED BY <3>3, <3>4
  <2> QED BY <1>1, <1>3, <2>1, <2>2
<1>13. Len(task'[s].queue) = m
  BY <1>3
<1> QED BY <1>8, <1>10, <1>11, <1>12, <1>13 DEF Gapless

\* A batch that is given up with nothing behind it.
LEMMA GaplessGivenUp ==
  ASSUME LogTyped, SourcesKept, NEW s \in Subs, Gapless(s), GivenUp(s), "dropped" \notin opened'
  PROVE  Gapless(s)'
<1>1. /\ Rest(s) = << >> /\ task[s].lines = << >> /\ Kind[s] = "file"
      /\ row' = row /\ records' = records
  BY DEF GivenUp
<1>2. /\ task'[s].pos = task[s].pos /\ task'[s].lines = << >> /\ task'[s].queue = << >>
  BY <1>1, GivenUpIs
<1>3. task'[s].pos = -1
  BY <1>1, <1>2 DEF SourcesKept, SourceKept
<1> QED BY <1>1, <1>2, <1>3, GaplessSame DEF RowSame, Halted

LEMMA GapsStay ==
  ASSUME LogTyped, SourcesKept, RowsDiffer, NoGaps, [LogNext]_logVars
  PROVE  NoGaps'
<1> SUFFICES ASSUME Unbroken', NEW r \in Subs PROVE Gapless(r)'
  BY DEF NoGaps, Unbroken
<1>1. opened \subseteq opened' /\ "dropped" \notin opened' /\ "rotated" \notin opened'
  BY WindowsGrow DEF OpenedGrows, Unbroken
<1>2. Unbroken /\ ~Rotated /\ Gapless(r)
  BY <1>1 DEF NoGaps, Unbroken, Rotated
<1>3. records \subseteq records'
  BY TableGrows
<1>4. ASSUME NEW s \in Subs, r # s, Others(s), row'[r] = row[r]
      PROVE  Gapless(r)'
  BY <1>2, <1>3, <1>4, GaplessSame DEF Others, RowSame
<1>5. ASSUME NEW s \in Subs, CallStep(s)
      PROVE  Gapless(r)'
  BY <1>2, <1>3, <1>5, GaplessSame, RowMoves, TasksMove DEF RowMoved, TasksMoved
<1>6. ASSUME NEW s \in Subs, SourceStep(s)
      PROVE  Gapless(r)'
  BY <1>2, <1>3, <1>6, GaplessSame, SourceMoves DEF RowSame
<1>7. ASSUME NEW s \in Subs, PollFile(s)
      PROVE  Gapless(r)'
  <2>1. Others(s) /\ row' = row
    BY <1>7, PollSets DEF PollFile
  <2> QED BY <1>2, <1>4, <1>7, <2>1, GaplessPoll
<1>8. ASSUME NEW s \in Subs, PutLine(s)
      PROVE  Gapless(r)'
  <2>1. Others(s) /\ row' = row
    BY <1>8, PutSets DEF PutLine
  <2> QED BY <1>2, <1>4, <1>8, <2>1, GaplessPutLine
<1>9. ASSUME NEW s \in Subs, StreamLine(s)
      PROVE  Gapless(r)'
  <2>1. Others(s) /\ row' = row
    BY <1>9, StreamSets DEF StreamLine
  <2> QED BY <1>2, <1>4, <1>9, <2>1, GaplessStream
<1>10. ASSUME NEW s \in Subs, OpenStream(s)
       PROVE  Gapless(r)'
  <2>1. Others(s) /\ (row' = row \/ row' = [row EXCEPT ![s].from = task'[s].pos])
    BY <1>10, OpenSets
  <2>2. r # s => row'[r] = row[r]
    BY <2>1, LogTypes
  <2> QED BY <1>2, <1>4, <1>10, <2>1, <2>2, GaplessOpen
<1>11. ASSUME NEW s \in Subs, Written(s)
       PROVE  Gapless(r)'
  <2>1. Others(s) /\ \A q \in Subs : q # s => row'[q] = row[q]
    BY <1>11, WrittenIs
  <2> QED BY <1>2, <1>4, <1>11, <2>1, GaplessWritten
<1>12. ASSUME NEW s \in Subs, GivenUp(s)
       PROVE  Gapless(r)'
  <2>1. Others(s) /\ row' = row
    BY <1>12, GivenUpIs DEF GivenUp
  <2> QED BY <1>1, <1>2, <1>4, <1>12, <2>1, GaplessGivenUp
<1>13. ASSUME Restart
       PROVE  Gapless(r)'
  <2>1. row' = row
    BY <1>13 DEF Restart
  <2> QED BY <1>2, <1>3, <1>13, <2>1, GaplessSame, RestartHalts DEF RowSame
<1>14. ASSUME SocketStep \/ UNCHANGED logVars
       PROVE  Gapless(r)'
  <2>1. row' = row /\ task' = task
    BY <1>14, SocketsAlone DEF logVars
  <2> QED BY <1>2, <1>3, <2>1, GaplessSame DEF RowSame
<1>15. CASE LogNext
  BY <1>5, <1>6, <1>7, <1>8, <1>9, <1>10, <1>11, <1>12, <1>13, <1>14, <1>15, StepKinds DEF ReadStep
<1>16. CASE UNCHANGED logVars
  BY <1>14, <1>16
<1> QED BY <1>15, <1>16

\* The tasks that run, and how many.
LEMMA AllowedStays ==
  ASSUME LogTyped, SourcesKept, RowsDiffer, TasksAllowed, WithinCap, [LogNext]_logVars
  PROVE  TasksAllowed' /\ WithinCap'
<1>1. opened \subseteq opened'
  BY WindowsGrow DEF OpenedGrows
<1>2. ASSUME NEW s \in Subs, CallStep(s)
      PROVE  TasksAllowed' /\ WithinCap'
  BY <1>2, CallsAllowed, CallsWithinCap
<1>3. ASSUME waiting' = waiting, \A r \in Subs : row'[r].status = row[r].status /\ task'[r].on = task[r].on
      PROVE  TasksAllowed' /\ WithinCap'
  <2>1. TasksAllowed'
    BY <1>1, <1>3 DEF TasksAllowed
  <2>2. Running' = Running
    BY <1>3 DEF Running
  <2> QED BY <1>1, <2>1, <2>2 DEF WithinCap
<1>4. ASSUME NEW s \in Subs, SourceStep(s)
      PROVE  TasksAllowed' /\ WithinCap'
  BY <1>3, <1>4, SourceMoves
<1>5. ASSUME NEW s \in Subs, Others(s), task'[s].on = task[s].on, waiting' = waiting,
             \A r \in Subs : row'[r].status = row[r].status
      PROVE  TasksAllowed' /\ WithinCap'
  BY <1>3, <1>5 DEF Others
<1>6. ASSUME NEW s \in Subs, PollFile(s) \/ PutLine(s) \/ StreamLine(s)
      PROVE  TasksAllowed' /\ WithinCap'
  <2>1. row' = row /\ waiting' = waiting
    BY <1>6 DEF PollFile, PutLine, StreamLine
  <2>2. Others(s) /\ task'[s].on = task[s].on
    BY <1>6, PollSets, PutSets, StreamSets
  <2> QED BY <1>5, <2>1, <2>2
<1>7. ASSUME NEW s \in Subs, OpenStream(s)
      PROVE  TasksAllowed' /\ WithinCap'
  <2>1. waiting' = waiting
    BY <1>7 DEF OpenStream
  <2>2. /\ Others(s) /\ task'[s].on = task[s].on
        /\ row' = row \/ row' = [row EXCEPT ![s].from = task'[s].pos]
    BY <1>7, OpenSets
  <2>3. \A r \in Subs : row'[r].status = row[r].status
    BY <2>2, LogTypes DEF SubRow
  <2> QED BY <1>5, <2>1, <2>2, <2>3
<1>8. ASSUME NEW s \in Subs, Written(s)
      PROVE  TasksAllowed' /\ WithinCap'
  <2>1. waiting' = waiting
    BY <1>8 DEF Written
  <2>2. /\ Others(s) /\ task'[s].on = task[s].on /\ row'[s].status = row[s].status
        /\ \A r \in Subs : r # s => row'[r] = row[r]
    BY <1>8, WrittenIs
  <2>3. \A r \in Subs : row'[r].status = row[r].status
    BY <2>2
  <2> QED BY <1>5, <2>1, <2>2, <2>3
<1>9. ASSUME NEW s \in Subs, GivenUp(s)
      PROVE  TasksAllowed' /\ WithinCap'
  <2>1. row' = row /\ waiting' = waiting
    BY <1>9 DEF GivenUp
  <2> QED BY <1>5, <1>9, <2>1, GivenUpIs
<1>10. ASSUME Restart
       PROVE  TasksAllowed' /\ WithinCap'
  <2>1. row' = row /\ (\A r \in Subs : waiting'[r] = {}) /\ opened' = opened
    BY <1>10 DEF Restart
  <2>2. \A r \in Subs : task'[r].on => row[r].status = "active"
    BY <1>10, RestartHalts
  <2>3. TasksAllowed'
    BY <2>1, <2>2 DEF TasksAllowed
  <2> QED BY <1>10, <2>3, RestartWithinCap
<1>11. ASSUME SocketStep \/ UNCHANGED logVars
       PROVE  TasksAllowed' /\ WithinCap'
  <2>1. row' = row /\ task' = task /\ waiting' = waiting
    BY <1>11, SocketsAlone DEF logVars
  <2> QED BY <1>3, <2>1
<1>12. CASE LogNext
  BY <1>2, <1>4, <1>6, <1>7, <1>8, <1>9, <1>10, <1>11, <1>12, StepKinds DEF ReadStep
<1>13. CASE UNCHANGED logVars
  BY <1>11, <1>13
<1> QED BY <1>12, <1>13

-----------------------------------------------------------------------------
(* The legacy socket misses nothing. *)

\* How far the rows of a line go.
LEMMA ReachIn ==
  ASSUME NEW T \in SUBSET LogRow, IsFiniteSet(T), NEW c
  PROVE  /\ Reached(T, c) \in Nat
         /\ \A m \in OfLine(T, c) : m.seq <= Reached(T, c)
         /\ OfLine(T, c) = {} => Reached(T, c) = 0
         /\ OfLine(T, c) # {} => \E m \in OfLine(T, c) : m.seq = Reached(T, c)
<1>1. OfLine(T, c) \in SUBSET LogRow /\ IsFiniteSet(OfLine(T, c))
  <2>1. OfLine(T, c) \subseteq T
    BY DEF OfLine
  <2> QED BY <2>1, FS_Subset
<1>2. OfLine(T, c) = {} => Reached(T, c) = 0
  BY DEF Highest, Reached
<1> QED BY <1>1, <1>2, LatestIs DEF Reached

\* Rows of one cursor of the first subscription are one row.
LEMMA OneRow ==
  ASSUME LogTyped, RowsDiffer, ~Rotated, ~Blank, NEW m \in Mine, NEW q \in Mine,
         CursorOf(m.line) = CursorOf(q.line)
  PROVE  m = q
<1>1. m \in records /\ q \in records /\ m.line.s = 1 /\ q.line.s = 1
  BY DEF Mine
<1>2. m.line.text = 0 /\ q.line.text = 0
  BY <1>1 DEF RowsDiffer, Expected
<1>3. DedupeKey(m.line) = DedupeKey(q.line)
  BY <1>1, <1>2 DEF DedupeKey, CursorOf
<1> QED BY <1>1, <1>3 DEF RowsDiffer

\* What a replay has behind it does not change while rows are appended.
LEMMA ReachStays ==
  ASSUME LogTyped, SourcesKept, RowsDiffer, [LogNext]_logVars, ~Rotated', ~Blank', NEW c \in Nat \X Int,
         c # <<0, 0>> => \E r \in Mine : CursorOf(r.line) = c
  PROVE  \A r \in Mine' : r.seq <= Reach(c)' => r \in Mine /\ r.seq <= Reach(c)
<1> SUFFICES ASSUME NEW r \in Mine', r.seq <= Reach(c)'
             PROVE  r \in Mine /\ r.seq <= Reach(c)
  OBVIOUS
<1>1. /\ records' \in SUBSET LogRow /\ IsFiniteSet(records') /\ records \subseteq records'
      /\ records \in SUBSET LogRow /\ IsFiniteSet(records)
  BY TableGrows DEF LogTyped
<1>2. RowsDiffer' /\ LogTyped'
  BY RowsStayDifferent, TypedStays
<1>3. r \in records' /\ r.line.s = 1 /\ r.seq \in Nat /\ r.seq >= 1
  <2>1. r \in records' /\ r.line.s = 1
    BY DEF Mine
  <2>2. r.seq >= 1
    BY <1>2, <2>1 DEF RowsDiffer
  <2> QED BY <1>1, <2>1, <2>2 DEF LogRow
<1> DEFINE M == {m \in Mine' : CursorOf(m.line) = c}
<1>4. /\ Reach(c)' \in Nat /\ (M = {} => Reach(c)' = 0) /\ (M # {} => \E m \in M : m.seq = Reach(c)')
  <2>1. M = OfLine(records', c)
    BY DEF Mine, OfLine, CursorOf
  <2>2. Reach(c)' = Reached(records', c)
    BY DEF Reach
  <2> HIDE DEF M
  <2> QED BY <1>1, <2>1, <2>2, ReachIn
<1>5. M # {} /\ c # <<0, 0>>
  <2>1. M # {}
    BY <1>3, <1>4
  <2>2. \A m \in M : m.line.off >= 1 /\ c = <<m.line.off, m.line.lag>>
    BY <1>2 DEF RowsDiffer, Mine, CursorOf
  <2>3. ASSUME NEW m \in M PROVE c # <<0, 0>>
    BY <2>2
  <2> HIDE DEF M
  <2> QED BY <2>1, <2>3
<1>6. PICK a \in Mine : CursorOf(a.line) = c
  BY <1>5
<1>7. a \in M /\ a \in Mine'
  BY <1>1, <1>6 DEF Mine
<1>8. \A m \in M : m = a
  <2>1. \A m, q \in Mine' : CursorOf(m.line) = CursorOf(q.line) => m = q
    <3>1. ASSUME NEW m \in Mine', NEW q \in Mine', CursorOf(m.line) = CursorOf(q.line) PROVE m = q
      <4>1. m \in records' /\ q \in records' /\ m.line.s = 1 /\ q.line.s = 1
        BY DEF Mine
      <4>2. m.line.text = 0 /\ q.line.text = 0
        BY <1>2, <4>1 DEF RowsDiffer, Expected
      <4>3. DedupeKey(m.line) = DedupeKey(q.line)
        BY <3>1, <4>1, <4>2 DEF DedupeKey, CursorOf
      <4>4. \A x, y \in records' : DedupeKey(x.line) = DedupeKey(y.line) => x = y
        BY <1>2 DEF RowsDiffer, DedupeKey
      <4> QED BY <4>1, <4>3, <4>4
    <3> QED BY <3>1
  <2> QED BY <1>6, <1>7, <2>1
<1>9. Reach(c)' = a.seq
  BY <1>4, <1>5, <1>8
<1>10. a.seq <= Reach(c) /\ a.seq \in Nat /\ Reach(c) \in Nat
  <2>1. a \in records
    BY DEF Mine
  <2>2. a \in OfLine(records, c)
    BY <1>6, <2>1 DEF OfLine, Mine
  <2>3. Reach(c) \in Nat /\ \A m \in OfLine(records, c) : m.seq <= Reach(c)
    BY <1>1, ReachIn DEF Reach
  <2>4. a.seq \in Nat
    BY <1>1, <2>1 DEF LogRow
  <2> QED BY <1>6, <2>2, <2>3, <2>4
<1>11. r \in records
  <2> SUFFICES ASSUME r \notin records PROVE FALSE
    OBVIOUS
  <2>1. r.seq > LatestSequence
    BY <1>3, TableGrows DEF TableGrown, Appended
  <2>2. a.seq <= LatestSequence /\ LatestSequence \in Nat
    BY <1>1, <1>6, LatestIs DEF LatestSequence, Mine
  <2> QED BY <1>3, <1>9, <1>10, <2>1, <2>2
<1> QED BY <1>3, <1>9, <1>10, <1>11 DEF Mine

\* A page holds what follows the cursor up to its last row.
LEMMA PageWhole ==
  ASSUME LogTyped, RowsDiffer, NEW c, Page(RowsAfter(c)) # {}
  PROVE  LET last == LastOf(Page(RowsAfter(c)))
         IN last \in Mine /\ \A r \in Mine : r.seq <= last.seq => r.seq <= Reach(c) \/ r \in Page(RowsAfter(c))
<1> DEFINE rows == RowsAfter(c)
           upTo(r) == {q \in rows : q.seq <= r.seq}
           last == LastOf(Page(rows))
<1>1. /\ rows = {r \in Mine : r.seq > Reach(c)} /\ rows \in SUBSET LogRow /\ IsFiniteSet(rows)
      /\ Page(rows) \subseteq rows /\ IsFiniteSet(Page(rows)) /\ Page(rows) \in SUBSET LogRow
  BY PageIs DEF LogTyped
<1>2. last \in Page(rows) /\ last \in rows
  BY <1>1, LastIs
<1>3. \A r \in rows : r.seq \in Nat
  BY <1>1 DEF LogRow
<1>4. Reach(c) \in Nat
  <2>1. records \in SUBSET LogRow /\ IsFiniteSet(records)
    BY DEF LogTyped
  <2> QED BY <2>1, ReachIn DEF Reach
<1>5. Cardinality(upTo(last)) <= PageSize
  BY <1>2 DEF Page
<1> HIDE DEF last, rows
<1>6. ASSUME NEW r \in Mine, r.seq <= last.seq, ~(r.seq <= Reach(c))
      PROVE  r \in Page(rows)
  <2>1. r.seq \in Nat
    BY DEF Mine, LogTyped, LogRow
  <2>2. r \in rows
    BY <1>1, <1>4, <1>6, <2>1
  <2>3. upTo(r) \in SUBSET upTo(last) /\ upTo(last) \in SUBSET rows
    <3>1. \A q \in rows : q.seq <= r.seq => q.seq <= last.seq
      BY <1>2, <1>3, <1>6, <2>1
    <3> QED BY <3>1
  <2>4. IsFiniteSet(upTo(last))
    BY <1>1, <2>3, FS_Subset
  <2>5. /\ Cardinality(upTo(r)) <= Cardinality(upTo(last)) /\ Cardinality(upTo(r)) \in Nat
        /\ Cardinality(upTo(last)) \in Nat
    BY <2>3, <2>4, FS_Subset, FS_CardinalityType
  <2>6. Cardinality(upTo(r)) <= PageSize
    BY <1>5, <2>5, LogBounds
  <2> QED BY <2>2, <2>6 DEF Page
<1>7. last \in Mine
  BY <1>1, <1>2
<1> QED BY <1>6, <1>7 DEF last, rows

\* A page is empty only when nothing follows the cursor.
LEMMA PageEmpty ==
  ASSUME LogTyped, RowsDiffer, NEW c, Page(RowsAfter(c)) = {}
  PROVE  \A r \in Mine : r.seq <= Reach(c)
<1> DEFINE rows == RowsAfter(c)
<1>1. rows = {r \in Mine : r.seq > Reach(c)} /\ rows \in SUBSET LogRow /\ IsFiniteSet(rows)
      /\ rows \subseteq records
  BY PageIs DEF LogTyped
<1>2. \A r \in rows : r.seq \in Nat
  BY <1>1 DEF LogRow
<1>3. rows = {}
  <2> SUFFICES ASSUME rows # {} PROVE FALSE
    OBVIOUS
  <2>1. PICK R : R = {ss \in rows \X rows : ss[1].seq < ss[2].seq}
    OBVIOUS
  <2>2. \A i, j \in rows : <<i, j>> \in R <=> i.seq < j.seq
    BY <2>1
  <2>3. \A i, j \in rows : i.seq = j.seq => i = j
    BY <1>1 DEF RowsDiffer
  <2> HIDE DEF rows
  <2>4. Orders(R, rows)
    BY <1>2, <2>2, <2>3 DEF Orders
  <2>5. PICK i \in rows : /\ \A j \in rows : <<j, i>> \notin R
                          /\ \A n \in Nat \ {0} : i \in First(rows, R, n)
    BY <1>1, <2>4, HasFirst
  <2>6. {q \in rows : q.seq <= i.seq} = {i}
    <3>1. ASSUME NEW q \in rows, q.seq <= i.seq PROVE q = i
      <4>1. ~(q.seq < i.seq)
        BY <2>2, <2>5
      <4>2. q.seq = i.seq
        BY <1>2, <3>1, <4>1
      <4> QED BY <2>3, <4>2
    <3>2. i.seq <= i.seq
      BY <1>2
    <3> QED BY <3>1, <3>2
  <2>7. Cardinality({q \in rows : q.seq <= i.seq}) = 1
    BY <2>6, FS_Singleton
  <2>8. 1 <= PageSize
    BY LogBounds
  <2>9. i \in Page(rows)
    BY <2>7, <2>8 DEF Page
  <2> QED BY <2>9 DEF rows
<1>4. Reach(c) \in Nat
  <2>1. records \in SUBSET LogRow /\ IsFiniteSet(records)
    BY DEF LogTyped
  <2> QED BY <2>1, ReachIn DEF Reach
<1>5. \A r \in Mine : r.seq \in Nat
  BY DEF Mine, LogTyped, LogRow
<1> QED BY <1>1, <1>3, <1>4, <1>5

\* The socket after each kind of step.
SocketHas(r) ==
  \/ DedupeKey(r.line) \in view.seen
  \/ \E i \in 1..Len(view.q) : DedupeKey(view.q[i]) = DedupeKey(r.line)

LEMMA SocketsStay ==
  ASSUME LogTyped, SourcesKept, RowsDiffer, SocketKept, [LogNext]_logVars
  PROVE  SocketKept'
<1>1. /\ records' \in SUBSET LogRow /\ IsFiniteSet(records') /\ records \subseteq records'
      /\ records \in SUBSET LogRow /\ IsFiniteSet(records)
      /\ opened \subseteq opened'
  BY TableGrows, WindowsGrow DEF LogTyped, OpenedGrows
<1>2. RowsDiffer' /\ LogTyped'
  BY RowsStayDifferent, TypedStays
<1>3. view \in Socket /\ view.q \in Seq(LogLine) /\ view.pos \in Nat \X Int /\ Len(view.q) \in Nat
      /\ view' \in Socket
  BY <1>2, LenProperties DEF LogTyped, Socket
<1>4. ASSUME opened' \cap {"overflow", "rotated", "blank"} = {}
      PROVE  opened \cap {"overflow", "rotated", "blank"} = {} /\ ~Rotated /\ ~Rotated' /\ ~Blank /\ ~Blank'
  BY <1>1, <1>4 DEF Rotated, Blank
<1>5. Mine \subseteq Mine'
  BY <1>1 DEF Mine
<1>6. ASSUME view'.st = "off", view'.pos = <<0, 0>>
      PROVE  SocketKept'
  BY <1>6 DEF SocketKept
<1>7. PICK c \in Nat \X Int : c = view.pos
  BY <1>3
<1>8. c # <<0, 0>> => \E r \in Mine : CursorOf(r.line) = c
  BY <1>7 DEF SocketKept
\* The rows are kept or appended, and the view is left alone or shown the batch.
<1>9. ASSUME view'.st = view.st, view'.kind = view.kind, view'.pos = view.pos, view'.seen = view.seen,
             opened' \cap {"overflow", "rotated", "blank"} = {} /\ view.st = "live" /\ view.kind = "legacy" =>
               \A r \in Mine' : SocketHas(r)'
      PROVE  SocketKept'
  <2>1. view'.st = "replay" => view'.kind = "legacy"
    BY <1>9 DEF SocketKept
  <2>2. view'.pos # <<0, 0>> => \E r \in Mine' : CursorOf(r.line) = view'.pos
    BY <1>5, <1>9 DEF SocketKept
  <2>3. ASSUME opened' \cap {"overflow", "rotated", "blank"} = {}, view'.kind = "legacy", view'.st = "replay",
               NEW r \in Mine', r.seq <= Reach(view.pos)'
        PROVE  DedupeKey(r.line) \in view'.seen
    <3>1. Reach(view.pos)' = Reach(c)' /\ Reach(view.pos) = Reach(c)
      <4>1. view'.pos = c
        BY <1>7, <1>9
      <4> QED BY <1>7, <4>1 DEF Reach
    <3>2. r \in Mine /\ r.seq <= Reach(c)
      BY <1>4, <1>8, <2>3, <3>1, ReachStays
    <3>3. DedupeKey(r.line) \in view.seen
      BY <1>4, <1>9, <2>3, <3>1, <3>2 DEF SocketKept
    <3> QED BY <1>9, <3>3
  <2>4. ASSUME opened' \cap {"overflow", "rotated", "blank"} = {}, view'.kind = "legacy", view'.st = "live"
        PROVE  \A r \in Mine' : SocketHas(r)'
    BY <1>9, <2>4
  <2> QED BY <2>1, <2>2, <2>3, <2>4 DEF SocketKept, SocketHas, DedupeKey
<1>10. ASSUME view' = view, records' = records
       PROVE  SocketKept'
  BY <1>4, <1>10 DEF SocketKept, Mine, Reach, DedupeKey
<1>11. ASSUME NEW s \in Subs, Written(s)
       PROVE  SocketKept'
  <2>1. Appended(Batch(s), records') /\ Published(s, Batch(s)) /\ \A i \in 1..Len(Batch(s)) : Own(s, Batch(s)[i])
    BY <1>11, WrittenIs
  <2>2. ASSUME opened' \cap {"overflow", "rotated", "blank"} = {}, view.st = "live", view.kind = "legacy",
               NEW r \in Mine'
        PROVE  SocketHas(r)'
    <3>1. "overflow" \notin opened' /\ view.st # "off"
      BY <2>2
    <3>2. /\ \A i \in 1..Len(view.q) : \E k \in 1..Len(view'.q) : view'.q[k] = view.q[i]
          /\ s = 1 => \A i \in 1..Len(Batch(s)) : \E k \in 1..Len(view'.q) : view'.q[k] = Batch(s)[i]
          /\ view'.seen = view.seen
      BY <2>1, <3>1 DEF Published
    <3>3. r \in records' /\ r.line.s = 1
      BY DEF Mine
    <3>4. CASE r \in records
      <4>1. r \in Mine
        BY <3>3, <3>4 DEF Mine
      <4>2. SocketHas(r)
        BY <1>4, <2>2, <4>1 DEF SocketKept, SocketHas
      <4>3. CASE DedupeKey(r.line) \in view.seen
        <5>1. DedupeKey(r.line) \in view'.seen
          BY <3>2, <4>3
        <5> QED BY <5>1 DEF SocketHas, DedupeKey
      <4>4. CASE \E i \in 1..Len(view.q) : DedupeKey(view.q[i]) = DedupeKey(r.line)
        <5>1. PICK i \in 1..Len(view.q) : DedupeKey(view.q[i]) = DedupeKey(r.line)
          BY <4>4
        <5>2. PICK k \in 1..Len(view'.q) : view'.q[k] = view.q[i]
          BY <3>2
        <5>3. DedupeKey(view'.q[k]) = DedupeKey(r.line)
          BY <5>1, <5>2
        <5> QED BY <5>3 DEF SocketHas, DedupeKey
      <4> QED BY <4>2, <4>3, <4>4 DEF SocketHas
    <3>5. CASE r \notin records
      <4>1. PICK i \in 1..Len(Batch(s)) : r.line = Batch(s)[i]
        BY <2>1, <3>3, <3>5 DEF Appended
      <4>2. s = 1
        BY <2>1, <3>3, <4>1 DEF Own
      <4>3. PICK k \in 1..Len(view'.q) : view'.q[k] = r.line
        BY <3>2, <4>1, <4>2
      <4> QED BY <4>3 DEF SocketHas, DedupeKey
    <3> QED BY <3>4, <3>5
  <2>3. view'.st = view.st /\ view'.kind = view.kind /\ view'.pos = view.pos /\ view'.seen = view.seen
    BY <2>1 DEF Published
  <2> QED BY <1>9, <2>2, <2>3
<1>12. ASSUME NEW kind \in {"legacy", "product"}, ViewRecords(kind)
       PROVE  SocketKept'
  <2>1. CASE view' = [NoView EXCEPT !.st = "replay"]
    <3>1. view'.st = "replay" /\ view'.kind = "legacy" /\ view'.pos = <<0, 0>>
      BY <2>1, NoViewTyped DEF Socket
    <3>2. ASSUME NEW r \in Mine' PROVE ~(r.seq <= Reach(view.pos)')
      <4>1. r \in records' /\ r.seq >= 1 /\ r.seq \in Nat
        BY <1>1, <1>2 DEF RowsDiffer, Mine, LogRow
      <4>2. OfLine(records', <<0, 0>>) = {}
        <5>1. \A m \in records' : m.line.off >= 1
          BY <1>2 DEF RowsDiffer
        <5> QED BY <5>1 DEF OfLine, CursorOf
      <4>3. Reached(records', <<0, 0>>) = 0
        BY <1>1, <4>2, ReachIn
      <4>4. Reach(view.pos)' = 0
        BY <3>1, <4>3 DEF Reach
      <4> QED BY <4>1, <4>4
    <3> QED BY <3>1, <3>2 DEF SocketKept
  <2>2. CASE kind = "product" /\ view' = [NoView EXCEPT !.st = "live", !.kind = kind, !.last = Backlog(0)]
    <3>1. view'.st = "live" /\ view'.kind = "product" /\ view'.pos = <<0, 0>>
      BY <2>2, NoViewTyped DEF Socket
    <3> QED BY <3>1 DEF SocketKept
  <2> QED BY <1>12, <2>1, <2>2 DEF ViewRecords
<1>13. CASE ReplayPage
  <2> DEFINE page == Page(RowsAfter(view.pos))
  <2>1. records' = records /\ opened' = opened /\ Mine' = Mine
    BY <1>13 DEF ReplayPage, Mine
  <2>2. view.st = "replay" /\ view.kind = "legacy"
    BY <1>13 DEF ReplayPage, SocketKept
  <2>3. view' = IF page = {} THEN [view EXCEPT !.st = "live"]
                ELSE [view EXCEPT !.pos = CursorOf(LastOf(page).line), !.seen = @ \cup Keys(page)]
    BY <1>13 DEF ReplayPage
  <2>4. CASE page = {}
    <3>1. /\ view'.st = "live" /\ view'.kind = view.kind /\ view'.pos = view.pos /\ view'.seen = view.seen
      BY <1>3, <2>3, <2>4 DEF Socket
    <3>2. ASSUME opened' \cap {"overflow", "rotated", "blank"} = {}, NEW r \in Mine
          PROVE  DedupeKey(r.line) \in view'.seen
      <4>1. r.seq <= Reach(view.pos)
        BY <2>4, PageEmpty
      <4> QED BY <1>4, <2>2, <3>1, <3>2, <4>1 DEF SocketKept
    <3>3. view'.pos # <<0, 0>> => \E r \in Mine : CursorOf(r.line) = view'.pos
      BY <3>1 DEF SocketKept
    <3> QED BY <2>1, <3>1, <3>2, <3>3 DEF SocketKept, DedupeKey
  <2>5. CASE page # {}
    <3> DEFINE last == LastOf(page)
               pos == CursorOf(last.line)
               seen == view.seen \cup Keys(page)
    <3>1. /\ last \in Mine
          /\ \A r \in Mine : r.seq <= last.seq => r.seq <= Reach(view.pos) \/ r \in page
      BY <2>5, PageWhole
    <3>2. view' = [view EXCEPT !.pos = pos, !.seen = seen]
      BY <2>3, <2>5
    <3>3. \A r \in page : DedupeKey(r.line) \in seen
      BY DEF Keys
    <3> HIDE DEF page
    <3>4. last.line.off >= 1
      BY <3>1 DEF RowsDiffer, Mine
    <3> HIDE DEF last
    <3>5. view.seen \subseteq seen
      OBVIOUS
    <3> HIDE DEF seen
    <3>6. view'.st = "replay" /\ view'.kind = "legacy" /\ view'.pos = pos /\ view'.seen = seen
      BY <1>3, <2>2, <3>2 DEF Socket
    <3>7. ASSUME opened' \cap {"overflow", "rotated", "blank"} = {}, NEW r \in Mine, r.seq <= Reach(view.pos)'
          PROVE  DedupeKey(r.line) \in seen
      <4>1. Reach(view.pos)' = Reached(records, pos)
        BY <2>1, <3>6 DEF Reach
      <4>2. OfLine(records, pos) = {last}
        <5>1. last \in OfLine(records, pos)
          BY <3>1 DEF OfLine, Mine
        <5>2. ASSUME NEW m \in OfLine(records, pos) PROVE m = last
          <6>1. m \in Mine /\ CursorOf(m.line) = CursorOf(last.line)
            BY DEF OfLine, Mine
          <6> QED BY <1>4, <3>1, <3>7, <6>1, OneRow
        <5> QED BY <5>1, <5>2
      <4>3. Reached(records, pos) = last.seq
        BY <1>1, <4>2, ReachIn
      <4>4. r.seq <= Reach(view.pos) \/ r \in page
        BY <3>1, <3>7, <4>1, <4>3
      <4>5. CASE r.seq <= Reach(view.pos)
        BY <1>4, <2>2, <3>5, <3>7, <4>5 DEF SocketKept
      <4> QED BY <3>3, <4>4, <4>5
    <3> QED BY <2>1, <3>1, <3>6, <3>7 DEF SocketKept, DedupeKey
  <2> QED BY <2>4, <2>5
<1>14. CASE TakeLive
  <2>1. records' = records /\ opened' = opened /\ Mine' = Mine
    BY <1>14 DEF TakeLive, Mine
  <2>2. view.st = "live" /\ view.q # << >>
    BY <1>14 DEF TakeLive
  <2> DEFINE seen == IF view.kind = "legacy" THEN view.seen \cup {DedupeKey(Head(view.q))} ELSE view.seen
             new == IF view.kind = "product" /\ ~view.paused /\ SequenceOf(Head(view.q)) > view.last
                    THEN SequenceOf(Head(view.q)) ELSE view.last
  <2>3. view' = [view EXCEPT !.q = Tail(view.q), !.seen = seen, !.last = new]
    BY <1>14 DEF TakeLive
  <2>4. view.kind = "legacy" => view.seen \cup {DedupeKey(Head(view.q))} = seen
    OBVIOUS
  <2> HIDE DEF seen, new
  <2>5. /\ view'.st = view.st /\ view'.kind = view.kind /\ view'.pos = view.pos
        /\ view'.seen = seen /\ view'.q = Tail(view.q)
    BY <1>3, <2>3 DEF Socket
  <2>6. /\ Head(view.q) = view.q[1] /\ Len(Tail(view.q)) = Len(view.q) - 1
        /\ \A i \in 1..Len(Tail(view.q)) : Tail(view.q)[i] = view.q[i + 1]
    BY <1>3, <2>2, HeadTailProperties
  <2>7. ASSUME opened' \cap {"overflow", "rotated", "blank"} = {}, view.kind = "legacy", NEW r \in Mine
        PROVE  \/ DedupeKey(r.line) \in view'.seen
               \/ \E i \in 1..Len(view'.q) : DedupeKey(view'.q[i]) = DedupeKey(r.line)
    <3>1. SocketHas(r)
      BY <1>4, <2>2, <2>7 DEF SocketKept, SocketHas
    <3>2. CASE DedupeKey(r.line) \in view.seen
      BY <2>4, <2>5, <2>7, <3>2
    <3>3. ASSUME NEW i \in 1..Len(view.q), DedupeKey(view.q[i]) = DedupeKey(r.line)
          PROVE  \/ DedupeKey(r.line) \in view'.seen
                 \/ \E k \in 1..Len(view'.q) : DedupeKey(view'.q[k]) = DedupeKey(r.line)
      <4>1. CASE i = 1
        BY <2>4, <2>5, <2>6, <2>7, <3>3, <4>1
      <4>2. CASE i # 1
        <5>1. i - 1 \in 1..Len(Tail(view.q)) /\ (i - 1) + 1 = i
          BY <1>3, <2>6, <4>2
        <5>2. view'.q[i - 1] = view.q[i]
          BY <2>5, <2>6, <5>1
        <5> QED BY <2>5, <3>3, <5>1, <5>2
      <4> QED BY <4>1, <4>2
    <3> QED BY <3>1, <3>2, <3>3 DEF SocketHas
  <2> QED BY <2>1, <2>2, <2>5, <2>7 DEF SocketKept, DedupeKey
<1>15. CASE PauseView
  <2> DEFINE last == IF view.paused THEN Backlog(view.last) ELSE view.last
             paused == ~view.paused
  <2>1. records' = records /\ Mine' = Mine /\ view.kind = "product" /\ view.st = "live"
    BY <1>15 DEF PauseView, Mine
  <2>2. view' = [view EXCEPT !.paused = paused, !.last = last]
    BY <1>15 DEF PauseView
  <2> HIDE DEF last, paused
  <2>3. view'.st = view.st /\ view'.kind = view.kind /\ view'.pos = view.pos
    BY <1>3, <2>2 DEF Socket
  <2> QED BY <2>1, <2>3 DEF SocketKept
<1>16. ASSUME NEW s \in Subs, CallStep(s) \/ SourceStep(s) \/ ReadStep(s) \/ GivenUp(s)
       PROVE  view' = view /\ records' = records
  BY <1>16, TasksMove, SourceMoves DEF TasksMoved, ReadStep, PollFile, PutLine, OpenStream, StreamLine, GivenUp
<1>17. Restart \/ CloseView => view' = NoView
  BY DEF Restart, CloseView
<1>18. view' = NoView => SocketKept'
  BY <1>6, NoViewTyped
<1>19. CASE LogNext
  BY <1>10, <1>11, <1>12, <1>13, <1>14, <1>15, <1>16, <1>17, <1>18, <1>19, StepKinds DEF SocketStep
<1>20. CASE UNCHANGED logVars
  <2>1. view' = view /\ records' = records
    BY <1>20 DEF logVars
  <2> QED BY <1>10, <2>1
<1> QED BY <1>19, <1>20

-----------------------------------------------------------------------------
(* The results. *)

\* The invariant holds at the start and is kept.
LEMMA LogInvInit ==
  ASSUME LogInit
  PROVE  LogInv
<1>1. << >> \in Seq(LogLine) /\ Len(<< >>) = 0
  BY EmptySeq
<1>2. /\ \A s \in Subs : MaxLines[s] \in Nat /\ Kind[s] \in {"file", "docker"}
      /\ {MaxRotations, MaxFaults, MaxCalls, LiveSize, MaxActive} \subseteq Nat
  BY LogBounds
<1>3. /\ row \in [Subs -> SubRow] /\ task \in [Subs -> SubTask] /\ src \in [Subs -> Source]
  <2>1. row \in [Subs -> SubRow]
    BY DEF LogInit, SubRow
  <2>2. task \in [Subs -> SubTask]
    BY IdleFits DEF LogInit, Fits
  <2>3. << >> \in Seq(Nat)
    BY EmptySeq
  <2>4. [gen |-> 0, len |-> 0, total |-> 0, above |-> << >>, text |-> 0] \in Source
    BY <2>3 DEF Source
  <2>5. src \in [Subs -> Source]
    BY <2>4 DEF LogInit
  <2> QED BY <2>1, <2>2, <2>5
<1>4. /\ records = {} /\ IsFiniteSet(records) /\ LatestSequence = 0
  BY FS_EmptySet DEF LogInit, LatestSequence, Highest
<1>5. view \in Socket /\ view.st = "off" /\ view.pos = <<0, 0>> /\ view.last = 0 /\ Len(view.q) = 0
  BY NoViewTyped DEF LogInit
<1>6. ASSUME NEW s \in Subs
      PROVE  /\ row[s].status = "none" /\ row[s].cursor = 0 /\ row[s].from = 0 /\ waiting[s] = {}
             /\ row[s].lag = 0 /\ src[s].above = << >>
             /\ src[s].gen = 0 /\ src[s].len = 0 /\ src[s].total = 0 /\ src[s].text = 0
             /\ task[s] = Idle /\ Fits(s, task[s]) /\ ~task[s].on /\ task[s].lines = << >>
             /\ task[s].queue = << >> /\ task[s].pos = -1
  BY IdleFits DEF LogInit
<1>7. waiting \in [Subs -> SUBSET {"pause", "delete"}] /\ opened = {} /\ faults = 0 /\ calls = 0
  BY DEF LogInit
<1>8. LogTyped
  <2>1. ASSUME NEW s \in Subs
        PROVE  /\ row[s].status \in {"none", "active", "paused", "error", "deleted"}
               /\ row[s].cursor \in 0..MaxLines[s] /\ row[s].from \in 0..MaxLines[s]
               /\ task[s].on \in BOOLEAN /\ task[s].pos \in -1..MaxLines[s]
               /\ Len(task[s].queue) <= QueueSize /\ task[s].fails \in 0..(MaxFailures - 1)
               /\ src[s].len \in 0..src[s].total /\ src[s].gen \in 0..MaxRotations
               /\ Len(src[s].above) = src[s].len
    <3>1. task[s].on \in BOOLEAN /\ task[s].fails \in Nat /\ MaxFailures \in Nat
      BY <1>6, LogBounds DEF Fits, SubTask
    <3> QED BY <1>1, <1>2, <1>6, <3>1 DEF Fits
  <2>2. LogTypeOK
    BY <1>2, <1>4, <1>5, <1>7, <2>1 DEF LogTypeOK
  <2> QED BY <1>3, <1>4, <1>5, <2>2 DEF LogTyped
<1>9. SourcesKept
  BY <1>1, <1>2, <1>6 DEF SourcesKept, SourceKept, LinesOwned
<1>10. RowsDiffer /\ NoGaps /\ TasksAllowed
  <2>1. ASSUME NEW s \in Subs PROVE Gapless(s)
    BY <1>1, <1>6 DEF Gapless
  <2> QED BY <1>4, <1>6, <2>1 DEF RowsDiffer, NoGaps, TasksAllowed
<1>11. WithinCap
  <2>1. Running = {}
    BY <1>6 DEF Running
  <2>2. Cardinality(Running) = 0
    BY <2>1, FS_EmptySet
  <2> QED BY <1>2, <2>2 DEF WithinCap
<1>12. SocketKept
  BY <1>5 DEF SocketKept
<1> QED BY <1>8, <1>9, <1>10, <1>11, <1>12 DEF LogInv

LEMMA LogInvStays ==
  ASSUME LogInv, [LogNext]_logVars
  PROVE  LogInv'
<1>1. LogTyped /\ SourcesKept /\ RowsDiffer /\ NoGaps /\ TasksAllowed /\ WithinCap /\ SocketKept
  BY DEF LogInv
<1>2. LogTyped' /\ SourcesKept' /\ RowsDiffer'
  BY <1>1, TypedStays, SourcesStay, RowsStayDifferent
<1>3. NoGaps' /\ SocketKept'
  BY <1>1, GapsStay, SocketsStay
<1>4. TasksAllowed' /\ WithinCap'
  BY <1>1, AllowedStays
<1> QED BY <1>2, <1>3, <1>4 DEF LogInv

LEMMA LogInvHolds == LogSpec => []LogInv
<1>1. LogInit => LogInv
  BY LogInvInit
<1>2. LogInv /\ [LogNext]_logVars => LogInv'
  BY LogInvStays
<1> QED BY <1>1, <1>2, PTL DEF LogSpec

\* The invariant says that no line is lost below a cursor.
LEMMA InvKeepsLines ==
  ASSUME LogInv
  PROVE  LinesKept
<1>1. LogTyped /\ SourcesKept /\ RowsDiffer /\ NoGaps /\ TasksAllowed /\ WithinCap
  BY DEF LogInv
<1>2. NothingBehindCursor
  <2> SUFFICES ASSUME Unbroken, NEW s \in Subs, NEW i \in (row[s].from + 1)..row[s].cursor
               PROVE  Whole(s, i)
    BY DEF NothingBehindCursor, Unbroken
  <2>1. row[s].from \in Nat /\ row[s].cursor \in Nat
    BY <1>1, GapsTyped
  <2>2. i \in Nat /\ row[s].from < i /\ i <= row[s].cursor
    BY <2>1
  <2>3. Has(s, i)
    BY <1>1, <2>2 DEF NoGaps, Unbroken, Gapless
  <2>4. src[s].text = 0
    BY <1>1 DEF SourcesKept, SourceKept, Rotated, Unbroken
  <2> QED BY <2>3, <2>4 DEF Has, Whole
<1>3. StoppedMeansStopped
  BY <1>1 DEF TasksAllowed, StoppedMeansStopped
<1>4. StoredOnce
  <2> SUFFICES ASSUME ~Blank, NEW r \in records, NEW q \in records, r.line.s = q.line.s,
                      r.line.off = q.line.off, r.line.text = q.line.text
               PROVE  r = q
    BY DEF StoredOnce, Blank
  <2>1. r.line.lag = 0 /\ q.line.lag = 0
    BY <1>1 DEF RowsDiffer, Expected
  <2>2. DedupeKey(r.line) = DedupeKey(q.line)
    BY <2>1 DEF DedupeKey
  <2> QED BY <1>1, <2>2 DEF RowsDiffer
<1>5. LogTypeOK
  BY <1>1 DEF LogTyped
<1> QED BY <1>1, <1>2, <1>3, <1>4, <1>5 DEF LinesKept

\* The log store holds every promised line up to the committed cursor, through failing
\* polls, reconnects, pauses, restarts and blank lines that make the cursor lag
\* (_reader_loop, _write_batch, upsert_cursor), and once unless there were blank lines
\* (FileLogSource.stream); only active subscriptions are read and create and the restart
\* keep the cap.  The other windows are those LinesKept names.
THEOREM LinesStayKept == LogSpec => []LinesKept
<1>1. LogInv => LinesKept
  BY InvKeepsLines
<1> QED BY <1>1, LogInvHolds, PTL

\* Replay and live records meet without a gap (subscription_websocket registers its
\* queue, by subscribe_records, before it replays): a legacy socket that has taken its
\* queue has sent every stored record of its subscription, unless the queue overflowed,
\* the file was rotated or had blank lines.
THEOREM SocketMissesNothing == LogSpec => []SocketSeesAll
<1>1. LogInv => SocketSeesAll
  <2> SUFFICES ASSUME LogInv, opened \cap {"overflow", "rotated", "blank"} = {}, view.st = "live",
                      view.kind = "legacy", view.q = << >>, NEW r \in records, r.line.s = 1
               PROVE  DedupeKey(r.line) \in view.seen
    BY DEF SocketSeesAll
  <2>1. r \in Mine
    BY DEF Mine
  <2>2. ~ \E i \in 1..Len(view.q) : TRUE
    BY EmptySeq
  <2> QED BY <2>1, <2>2 DEF LogInv, SocketKept
<1> QED BY <1>1, LogInvHolds, PTL
=============================================================================
