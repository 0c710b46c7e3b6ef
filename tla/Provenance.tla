----------------------------- MODULE Provenance -----------------------------
(***************************************************************************)
(* What an investigation leaves behind: the evidence it records            *)
(* (evidence/service.py and store.py, append-only and idempotent) and the  *)
(* project memory that is extracted from it after completion and attached  *)
(* to the first request of later runs (project_memory/).                   *)
(*                                                                         *)
(* An extraction never awaits (its model call blocks the event loop), so   *)
(* no other step comes between its commits except a crash.  Contents are   *)
(* abstracted to one: what tells refs apart is whose they are.             *)
(***************************************************************************)
EXTENDS Integers, FiniteSets

CONSTANTS
  Id, Fact,     \* memory ids, which the model chooses, and facts
  MaxBatch,     \* _MAX_EXTRACT_CANDIDATES
  Limit,        \* _MAX_SELECT_LIMIT
  Catalog,      \* _MAX_CATALOG
  Rank,         \* _MAX_RANK_CANDIDATES
  MaxCrashes,
  None

ASSUME ProvenanceBounds ==
  /\ {MaxBatch, Limit, Catalog, Rank} \subseteq Nat \ {0} /\ MaxCrashes \in Nat
  /\ Id \subseteq Nat /\ Catalog <= Rank

Run == {"r1", "r2", "q1"}   \* two investigations of project P, one of Q
Project == {"P", "Q"}
ProjectOf(r)  == IF r = "q1" THEN "Q" ELSE "P"

\* _assert_run_owned_by_incident: a run records for its own investigation's
\* incident, and each investigation has one.
IncidentOf(r) == r

\* A reference without a run is no run's.
ASSUME ProvenanceNone == None \notin Run

VARIABLES
  ev,        \* evidence_refs: key -> incident_id
  owned,     \* agent run -> its evidence
  offered,   \* agent run -> the evidence that its extraction was scheduled with
  cited,     \* history: incident -> the refs it was answered with for a log record
  run,       \* the life of each parent run
  mem,       \* project_memories: id -> record
  job,       \* the extraction under way
  clock,     \* one value per extraction
  learned,   \* history: facts admitted for a project
  crashes, windows

evidence == <<ev, owned, offered, cited>>
memory   == <<mem, job, clock, learned>>
vars     == <<evidence, run, memory, crashes, windows>>

Key   == (Run \cup {None}) \X Project
NoRow == [project |-> None, fact |-> None, source |-> None, cites |-> None,
          status |-> "none", at |-> 0]
Row   == [project : Project, fact : Fact, source : Run, cites : Key,
          status : {"active", "superseded"}, at : Nat]

\* ProjectMemoryCandidate: what the model may answer.
Candidate == [id : Id, fact : Fact, kind : {"fact", "hypothesis"},
              cites : Key \cup {None}, source : Run \cup {None}]

NoJob == [run |-> None, pc |-> "idle", left |-> 0, cand |-> None]

TypeOK ==
  /\ ev \in [Key -> Run \cup {None}]
  /\ {owned, offered, cited} \subseteq [Run -> SUBSET Key]
  /\ run \in [Run -> {"new", "running", "scheduled", "extracted", "lost"}]
  /\ mem \in [Id -> Row \cup {NoRow}]
  /\ job.run \in Run \cup {None} /\ job.pc \in {"idle", "next", "insert"}
  /\ job.left \in 0..MaxBatch /\ job.cand \in Candidate \cup {None}
  /\ clock \in Nat /\ crashes \in Nat
  /\ learned \subseteq Project \X Fact

Init ==
  /\ ev = [k \in Key |-> None]
  /\ owned = [r \in Run |-> {}] /\ offered = owned /\ cited = owned
  /\ run = [r \in Run |-> "new"]
  /\ mem = [i \in Id |-> NoRow] /\ job = NoJob /\ clock = 0
  /\ learned = {} /\ crashes = 0 /\ windows = {}

Through(W) == windows \cap W # {}
Free == job = NoJob

-----------------------------------------------------------------------------
(* Evidence. *)

\* _derive_evidence_ref_id and _derive_dedupe_key.
KeyOf(r, p) == <<r, p>>

\* EvidenceStore.create: an insert that is suppressed leaves the stored row.
Created(k, incident) == [ev EXCEPT ![k] = IF @ = None THEN incident ELSE @]

\* EvidenceStore.query by incident.
Listed(incident) == {k \in Key : ev[k] = incident}

\* _persist: the row under the run's identity, and the reference that is attached
\* to the run.
Persist(r) ==
  LET k == KeyOf(r, ProjectOf(r)) IN
  /\ ev' = Created(k, IncidentOf(r))
  /\ owned' = [owned EXCEPT ![r] = @ \cup {k}]
  /\ UNCHANGED <<offered, cited, run, memory, crashes, windows>>

\* The record_* methods for what a tool of the run returned or did.
Record(r) == Free /\ run[r] = "running" /\ Persist(r)

\* A child's report, the decision on a proposal and an uncertain state are also
\* recorded when the run has ended.
RecordLate(r) == Free /\ run[r] # "new" /\ Persist(r)

\* create_from_log_record without a run: the stored row wins, whatever its incident.
CreatedFromLog(incident) == Created(KeyOf(None, "P"), incident)

\* A log record of P is cited for an incident without a run: the route, and a
\* log query with create_evidence.
CiteLogRecord(r) ==
  LET k == KeyOf(None, "P") IN
  /\ Free /\ ProjectOf(r) = "P"
  /\ ev' = CreatedFromLog(IncidentOf(r))
  /\ cited' = [cited EXCEPT ![r] = @ \cup {k}]
  /\ windows' = windows \cup (IF ev[k] \notin {None, IncidentOf(r)} THEN {"shared"} ELSE {})
  /\ UNCHANGED <<owned, offered, run, memory, crashes>>

-----------------------------------------------------------------------------
(* Project memory: the store and the admission rules. *)

Active(p) == {i \in Id : mem[i].project = p /\ mem[i].status = "active"}

Sooner(i, j) == mem[i].at > mem[j].at \/ (mem[i].at = mem[j].at /\ i < j)

\* list_active: the n confirmed last.
Newest(p, n) ==
  {i \in Active(p) : Cardinality({j \in Active(p) : Sooner(j, i)}) < n}

\* candidate_rejection, and the same rules of _validate.
Survives(c, own) == c.kind = "fact" /\ c.cites \in own

\* Mutant: the project is compared and not the fact.
AnyActive(p, f) == Newest(p, Rank)

\* _find_active_duplicate.
Duplicates(p, f) == {i \in Newest(p, Rank) : mem[i].fact = f}

\* materialize_candidate: the source is the model's when it gives one.
Materialized(c, r) ==
  [project |-> ProjectOf(r), fact |-> c.fact, cites |-> c.cites, status |-> "active",
   source |-> IF c.source = None THEN r ELSE c.source, at |-> clock]

\* The orchestrator completes the run and schedules the extraction with the
\* evidence the run has by then.
Complete(r) ==
  /\ Free /\ run[r] = "running"
  /\ run' = [run EXCEPT ![r] = "scheduled"]
  /\ offered' = [offered EXCEPT ![r] = owned[r]]
  /\ UNCHANGED <<ev, owned, cited, memory, crashes, windows>>

\* _extract: the model answers ...
Extract(r) ==
  /\ Free /\ run[r] = "scheduled"
  /\ job' = [NoJob EXCEPT !.run = r, !.pc = "next", !.left = MaxBatch]
  /\ clock' = clock + 1
  /\ UNCHANGED <<evidence, run, mem, learned, crashes, windows>>

\* ... or there is none, or the call or its parsing fails; nothing tries again.
ExtractFails(r) ==
  /\ Free /\ run[r] = "scheduled"
  /\ run' = [run EXCEPT ![r] = "extracted"]
  /\ UNCHANGED <<evidence, memory, crashes, windows>>

\* Mutant: the old row is removed.
Deleted(i) == [mem EXCEPT ![i] = NoRow]

\* ProjectMemoryStore.supersede.
Superseded(i) == [mem EXCEPT ![i].status = "superseded"]

\* extract_candidates_from_json keeps a candidate; _persist supersedes the
\* fact's active row.
Admit(c) ==
  LET p == ProjectOf(job.run)  D == Duplicates(p, c.fact) IN
  /\ job.pc = "next" /\ job.left > 0 /\ Survives(c, offered[job.run])
  /\ mem' = IF D = {} THEN mem ELSE Superseded(CHOOSE i \in D : \A j \in D : ~Sooner(j, i))
  /\ job' = [job EXCEPT !.pc = "insert", !.cand = c]
  /\ windows' = windows
       \cup (IF c.source \notin {None, job.run} THEN {"claimed"} ELSE {})
       \cup (IF \E i \in Active(p) \ Newest(p, Rank) : mem[i].fact = c.fact THEN {"overflow"} ELSE {})
  /\ UNCHANGED <<evidence, run, clock, learned, crashes>>

\* ProjectMemoryStore.upsert: INSERT OR REPLACE under the model's id.
Upsert ==
  LET c == job.cand  entry == Materialized(c, job.run) IN
  /\ job.pc = "insert"
  /\ mem' = [mem EXCEPT ![c.id] = entry]
  /\ job' = [job EXCEPT !.pc = "next", !.left = @ - 1, !.cand = None]
  /\ learned' = learned \cup {<<entry.project, entry.fact>>}
  /\ windows' = windows \cup (IF mem[c.id] # NoRow THEN {"reused"} ELSE {})
  /\ UNCHANGED <<evidence, run, clock, crashes>>

EndExtraction ==
  /\ job.pc = "next"
  /\ job' = NoJob
  /\ run' = [run EXCEPT ![job.run] = "extracted"]
  /\ UNCHANGED <<evidence, mem, clock, learned, crashes, windows>>

-----------------------------------------------------------------------------
(* The attachment of a fresh parent run. *)

\* select_relevant: by overlap with the services and the symptom, then newest.
Ranked(p, f) ==
  LET S == Newest(p, Rank)
      Better(i, j) == \/ mem[i].fact = f /\ mem[j].fact # f
                      \/ (mem[i].fact = f) = (mem[j].fact = f) /\ Sooner(i, j)
  IN {i \in S : Cardinality({j \in S : Better(j, i)}) < Limit}

\* render_relevant of the coordinator: what the model picks from the catalog,
\* or the ranked ones in the catalog when its call fails, or all the ranked.
Shown(p, f) ==
  LET catalog  == Newest(p, Catalog)
      fallback == Ranked(p, f) \cap catalog
      by(how, S) == [ids |-> S, how |-> how]
  IN {by("model", S) : S \in {T \in SUBSET catalog : T # {} /\ Cardinality(T) <= Limit}}
     \cup (IF fallback # {} THEN {by("fallback", fallback)} ELSE {})
     \cup {by("ranked", Ranked(p, f))}

\* _project_memory_attachment: only while the run has had no round.
Attach(r) ==
  /\ Free /\ run[r] = "new"
  /\ run' = [run EXCEPT ![r] = "running"]
  /\ UNCHANGED <<evidence, memory, crashes, windows>>

\* The process dies: tasks that were scheduled are gone.
Crash ==
  /\ crashes < MaxCrashes
  /\ crashes' = crashes + 1
  /\ job' = NoJob
  /\ run' = [r \in Run |-> IF run[r] = "scheduled" THEN "lost" ELSE run[r]]
  /\ windows' = windows \cup (IF job.pc = "insert" THEN {"torn"} ELSE {})
  /\ UNCHANGED <<evidence, mem, clock, learned>>

Next ==
  \/ \E r \in Run : \/ Attach(r) \/ Record(r) \/ RecordLate(r) \/ CiteLogRecord(r) \/ Complete(r)
                    \/ Extract(r) \/ ExtractFails(r)
  \/ \E c \in Candidate : Admit(c)
  \/ Upsert \/ EndExtraction \/ Crash

Spec == Init /\ [][Next]_vars

-----------------------------------------------------------------------------
(* Properties. *)

\* The evidence of a run, or cited for an incident, is listed under that
\* incident: no other run's identical output took its place.
EvidenceIsOwn ==
  \A r \in Run :
    /\ owned[r] \subseteq Listed(IncidentOf(r))
    /\ ~Through({"shared"}) => cited[r] \subseteq Listed(IncidentOf(r))

\* A project has one active memory of a fact, however often it is confirmed,
\* while it has no more active ones than the search for duplicates reads.
OneActivePerFact ==
  ~Through({"overflow"}) =>
    \A p \in Project : \A i, j \in Active(p) : mem[i].fact = mem[j].fact => i = j

\* What a project learned stays active: no later extraction, of this or of
\* another project, takes it away.  A model that reuses a memory id does, and a
\* crash between the two commits of a confirmation.
KnowledgeIsKept ==
  Free /\ ~Through({"reused", "torn"}) =>
    \A l \in learned : \E i \in Active(l[1]) : mem[i].fact = l[2]

\* Every memory cites evidence of the investigation it names as its source,
\* and that investigation is of its project, unless the model names another.
ProvenanceHolds ==
  ~Through({"claimed"}) =>
    \A i \in Id : mem[i] # NoRow =>
      mem[i].cites \in owned[mem[i].source] /\ ProjectOf(mem[i].source) = mem[i].project

\* Supersession keeps the historical record and its provenance.
HistoryIsKept ==
  [][\A i \in Id : mem[i] # NoRow =>
       \/ mem'[i] = mem[i] \/ mem'[i] = [mem[i] EXCEPT !.status = "superseded"]
       \/ "reused" \in windows']_vars

\* Whatever the symptom of a run that starts now, its first request carries at
\* most Limit memories, active ones of its own project, and one about the
\* symptom is never crowded out by newer ones while all fit what is ranked.
AttachmentIsRelevant ==
  \A r \in {q \in Run : run[q] = "new"}, f \in Fact :
    LET A == Active(ProjectOf(r))  about == {i \in A : mem[i].fact = f} IN
    \A s \in Shown(ProjectOf(r), f) :
      /\ s.ids \subseteq A /\ Cardinality(s.ids) <= Limit
      /\ \/ s.how = "model" \/ about = {} \/ s.ids \cap about # {}
         \/ Cardinality(A) > (IF s.how = "fallback" THEN Catalog ELSE Rank)

\* What a project knows can be trusted and found: evidence is listed where it
\* belongs, every memory cites its own, each fact known stays active once, and a
\* fresh run is shown the one about its symptom.
KnowledgeHolds ==
  /\ TypeOK
  /\ EvidenceIsOwn
  /\ ProvenanceHolds
  /\ OneActivePerFact
  /\ KnowledgeIsKept
  /\ AttachmentIsRelevant

=============================================================================
