----------------------------- MODULE Transcript -----------------------------
(***************************************************************************)
(* The transcript of one agent run and the context built from it:          *)
(* investigation/transcript.py, investigation/context.py, compactor.py,    *)
(* openai_compactor.py and the parts of the run loop, of the approval path *)
(* and of startup recovery that append to the transcript.                  *)
(*                                                                         *)
(* A message is its role, the tool calls it proposes (uses), the calls it  *)
(* answers (res), which of those answers are failed, uncertain or waiting  *)
(* (bad), whether it reports on a child, and its size in tokens.  Text,    *)
(* hypotheses and evidence are left out.  A message's sequence is its      *)
(* position: every writer takes the last sequence plus one.                *)
(*                                                                         *)
(* `windows' records the ways in which the code lets a property go:        *)
(*   cut        the process died between a tool use and its result         *)
(*   unsaved    the append of a result message failed and was ignored      *)
(*   siblings   compact_context was called together with other tools       *)
(*   overclaim  the compactor's memory claims more than it was shown       *)
(*   forgotten  a second summary dropped the troubles the first one kept   *)
(*   escaped    the provider failed in the retry after a reactive compact  *)
(***************************************************************************)
EXTENDS Integers, Sequences, FiniteSets

CONSTANTS
    MaxLog,          \* bound on transcript messages
    MaxRounds,       \* budget.max_rounds
    MaxReports,      \* bound on child reports delivered
    MaxResumes,      \* bound on operator resumes
    MaxProcessCrashes, \* bound on process crashes
    Tools,           \* positions of the tool requests of one turn
    Large,           \* tokens of a large tool result; small ones cost 1
    HeaderTokens,    \* system prompt, schemas, header
    MemoryTokens,    \* the memory section and the restored file pages
    ProjectTokens,   \* the project memory attachment of the first turn
    MaxInput,        \* max_input_tokens
    SemanticAt,      \* semantic_compact_at_tokens
    KeepRecent,      \* reactive_keep_recent_groups
    MaxFailures,     \* compact_max_failures
    MaxRetries,      \* _max_provider_retries
    Overclaim        \* bound on what a compactor claims beyond its request

ASSUME TranscriptAssumption ==
    /\ {MaxLog, MaxRounds, Large, HeaderTokens, MaxInput, SemanticAt,
        KeepRecent, MaxFailures} \subseteq Nat \ {0}
    /\ {MaxReports, MaxResumes, MaxProcessCrashes, MemoryTokens, ProjectTokens, Overclaim,
        MaxRetries} \subseteq Nat
    /\ 0 \notin Tools /\ Tools \subseteq Nat
    /\ SemanticAt <= MaxInput

VARIABLES
    log,       \* agent_transcript_messages of the run
    boundary,  \* through_sequence of the latest compact boundary; 0: none
    mem,       \* the latest session memory; rev 0: none
    brk,       \* agent_compaction_state: consecutive_failures, reactive_round
    rounds,    \* run.usage.rounds
    status,    \* run.status
    pc,        \* where the run's loop is
    job,       \* the compaction in flight
    req,       \* the request the provider is working on
    trouble,   \* calls whose row is failed, uncertain or waiting for approval
    retries,   \* _call_provider's count of corrected answers
    left,      \* what the bounds leave: reports, resumes, crashes
    seen,      \* history: last sequence shown to a compactor that committed
    failRow,   \* history: compactor failures since the last commit
    reacted,   \* history: reactive commits per completed-round count
    windows

transcriptVars ==
    <<log, boundary, mem, brk, rounds, status, pc, job, req, trouble, retries,
      left, seen, failRow, reacted, windows>>

NoMemory == [rev |-> 0, through |-> 0, shown |-> 0, safe |-> {}]
NoJob == [mode |-> "none", seqs |-> {}, through |-> 0]
NoRequest == [len |-> 0, seqs |-> {}, stubs |-> {}, mem |-> NoMemory, again |-> FALSE]
NoRound == -1
Windows == {"cut", "unsaved", "siblings", "overclaim", "forgotten", "escaped"}

Seqs == 1..MaxLog
CallIds == Seqs \X ({0} \cup Tools)      \* position 0: compact_context
Message == [role: {"user", "assistant"}, uses: SUBSET CallIds,
            res: SUBSET CallIds, bad: SUBSET CallIds, child: BOOLEAN,
            size: {1, Large}]

(***************************************************************************)
(* Grouping.                                                               *)
(***************************************************************************)

Text(role, child) == [role |-> role, uses |-> {}, res |-> {}, bad |-> {},
                      child |-> child, size |-> 1]
Use(ids) == [Text("assistant", FALSE) EXCEPT !.uses = ids]
Results(ids, bad, size) ==
    [Text("user", FALSE) EXCEPT !.res = ids, !.bad = bad, !.size = size]

\* A tool-use message that the next message does not answer exactly.
Unpaired(l, i) ==
    /\ l[i].uses # {}
    /\ IF i = Len(l) THEN TRUE ELSE l[i + 1].res # l[i].uses

\* group_messages raises UnpairedToolMessage.
Torn(l) == \E i \in 1..Len(l) : Unpaired(l, i)

GroupOf(l, i) ==
    IF l[i].uses # {} THEN {i, i + 1}
    ELSE IF i > 1 /\ l[IF i > 1 THEN i - 1 ELSE 1].uses # {} THEN {i - 1, i}
    ELSE {i}

Last(S) == CHOOSE x \in S : \A y \in S : y <= x

\* Mutant: messages are filtered one by one.
SplitAfter(l, after) == {i \in 1..Len(l) : i > after}

\* TranscriptService.group_messages: whole groups with a message past `after'.
After(l, after) == {i \in 1..Len(l) : Last(GroupOf(l, i)) > after}

\* _tolerant_groups forgets a trailing tool use that has no result yet.
Tolerated(l) == IF l # <<>> /\ l[Len(l)].uses # {} THEN SubSeq(l, 1, Len(l) - 1) ELSE l

(***************************************************************************)
(* Sizes and the transforms under pressure.                                *)
(***************************************************************************)

Protected(l, i) == \E j \in GroupOf(l, i) : l[j].bad # {} \/ l[j].child

\* A group that is a use with its succeeded results.
SucceededPair(l, i) == Cardinality(GroupOf(l, i)) = 2 /\ ~Protected(l, i)

\* micro_compact: succeeded, large results that are old by now are replaced by
\* a stub.  Time is not modelled: everything up to `aged' is old.
Stubbed(l, seqs, aged) == {i \in seqs : /\ SucceededPair(l, i)
                                        /\ Last(GroupOf(l, i)) <= aged
                                        /\ l[i].res # {} /\ l[i].size > 1}

Sum[S \in SUBSET Seqs] ==
    IF S = {} THEN 0
    ELSE LET i == Last(S) IN log[i].size + Sum[S \ {i}]

Tokens(seqs, stubs) == Sum[seqs \ stubs] + Cardinality(stubs)

ProjectMemory == IF rounds = 0 THEN ProjectTokens ELSE 0
RestoredFiles(m) == IF m.rev > 0 THEN MemoryTokens ELSE 0
Header(m) == HeaderTokens + ProjectMemory + RestoredFiles(m)
Estimate(m, seqs, stubs) == Header(m) + Tokens(seqs, stubs)

(***************************************************************************)
(* The deterministic compaction.                                           *)
(***************************************************************************)

\* The smallest end of a group, below every protected group, whose tail fits.
\* The allowance for the new memory replaces the one for what it restores.
Coverage(l, seqs) ==
    LET ends == {Last(GroupOf(l, i)) : i \in seqs}
        caps == {i \in seqs : Protected(l, i)}
        fits == {c \in ends : /\ \A i \in caps : c < i
                              /\ HeaderTokens + MemoryTokens
                                   + Tokens({i \in seqs : i > c}, {}) <= MaxInput}
    IN IF fits = {} THEN 0 ELSE CHOOSE c \in fits : \A d \in fits : c <= d

\* The safety_state of the fields: every call whose row is in trouble.
Fields == trouble

Memory(through) == [rev |-> mem.rev + 1, through |-> through,
                    shown |-> through, safe |-> Fields]

(***************************************************************************)
(* Steps of the loop.                                                      *)
(***************************************************************************)

TranscriptInit ==
    /\ log = <<>> /\ boundary = 0 /\ mem = NoMemory
    /\ brk = [fails |-> 0, round |-> NoRound]
    /\ rounds = 0 /\ status = "created" /\ pc = "idle"
    /\ job = NoJob /\ req = NoRequest /\ trouble = {}
    /\ retries = 0
    /\ left = [reports |-> MaxReports, resumes |-> MaxResumes, crashes |-> MaxProcessCrashes]
    /\ seen = 0 /\ failRow = 0
    /\ reacted = [r \in 0..MaxRounds |-> 0]
    /\ windows = {}

\* Every append is one row; a bound keeps the transcript finite.
Room(n) == Len(log) + n <= MaxLog

histories == <<seen, failRow, reacted>>
durable == <<log, boundary, mem, brk, trouble>>

\* _pause, _fail and the normal ends of a loop.
Park(s) == status' = s /\ pc' = "idle" /\ job' = NoJob

\* The continuation is appended only when the transcript ends with the agent.
Continuation ==
    IF log # <<>> /\ log[Len(log)].role = "assistant"
    THEN Append(log, Text("user", FALSE)) ELSE log

\* A loop starts: a new run, a run left RUNNING, or an operator's resume.
LoopStarts ==
    /\ pc = "idle" /\ Room(1)
    /\ \/ status \in {"created", "running"} /\ UNCHANGED <<log, left>>
       \/ /\ status \in {"paused", "uncertain"} /\ left.resumes > 0
          /\ log' = Continuation
          /\ left' = [left EXCEPT !.resumes = @ - 1]
    /\ status' = "running" /\ pc' = "top"
    /\ UNCHANGED <<boundary, mem, brk, rounds, job, req, trouble, retries,
                   histories, windows>>

\* _deliver_pending_child_reports, at the loop top.
DeliverReport ==
    /\ pc = "top" /\ left.reports > 0 /\ rounds > 0 /\ Room(1)
    /\ log' = Append(log, Text("user", TRUE))
    /\ left' = [left EXCEPT !.reports = @ - 1]
    /\ UNCHANGED <<boundary, mem, brk, rounds, status, pc, job, req, trouble,
                   retries, histories, windows>>

\* Appended once: a resumed run has a transcript.
InitialMessage == IF log = <<>> THEN <<Text("user", FALSE)>> ELSE log

\* The guard before a round, then the initial message.
BeginRound ==
    /\ pc = "top"
    /\ IF rounds >= MaxRounds \/ ~Room(IF log = <<>> THEN 3 ELSE 2)
       THEN Park("paused") /\ log' = log
       ELSE /\ log' = InitialMessage
            /\ pc' = "prepare" /\ UNCHANGED <<status, job>>
    /\ UNCHANGED <<boundary, mem, brk, rounds, req, trouble, retries, left,
                   histories, windows>>

\* The request goes out with these messages behind the header.
Send(m, seqs, stubs) ==
    /\ req' = [len |-> Len(log), seqs |-> seqs, stubs |-> stubs, mem |-> m,
               again |-> FALSE]
    /\ pc' = "call" /\ retries' = 0

\* The retry after a reactive compaction.
Resend(m, seqs) ==
    /\ req' = [len |-> Len(log), seqs |-> seqs, stubs |-> {}, mem |-> m, again |-> TRUE]
    /\ pc' = "call" /\ retries' = 0

\* The provider's answer, or its error, ends the call.
Received == req' = NoRequest /\ retries' = 0

BreakerOpen == brk.fails >= MaxFailures

\* What the compactor is shown, and the coverage it is asked to echo.
Ask(mode, seqs) ==
    [mode |-> mode, seqs |-> seqs, through |-> Last(seqs \cup {boundary})]

\* prepare: measure the complete tail; over the pressure threshold ask the
\* compactor, or build deterministically when it is off.
Prepare ==
    /\ pc = "prepare"
    /\ IF Torn(log) THEN Park("uncertain") /\ UNCHANGED <<req, retries>>
       ELSE IF Estimate(mem, After(log, boundary), {}) < SemanticAt
       THEN Send(mem, After(log, boundary), {}) /\ UNCHANGED <<status, job>>
       ELSE IF BreakerOpen
       THEN pc' = "build" /\ UNCHANGED <<status, job, req, retries>>
       ELSE /\ job' = Ask("auto", After(log, boundary))
            /\ pc' = "ask" /\ UNCHANGED <<status, req, retries>>
    /\ UNCHANGED <<durable, rounds, left, histories, windows>>

\* build, first commit: over budget, and something eligible to cover.
Build ==
    /\ pc = "build"
    /\ LET seqs == After(log, boundary)
           cover == Coverage(log, seqs)
       IN IF Estimate(mem, seqs, {}) <= MaxInput
          THEN Send(mem, seqs, {}) /\ UNCHANGED <<mem, job>>
          ELSE IF cover <= boundary
          THEN /\ \E aged \in 0..Len(log) :
                    Send(mem, seqs, IF mem.rev > 0 THEN Stubbed(log, seqs, aged) ELSE {})
               /\ UNCHANGED <<mem, job>>
          ELSE /\ mem' = Memory(cover)
               /\ job' = [NoJob EXCEPT !.mode = "cover", !.through = cover]
               /\ pc' = "cover" /\ UNCHANGED <<req, retries>>
    /\ UNCHANGED <<log, boundary, brk, rounds, status, trouble, left,
                   histories, windows>>

\* The tail behind a boundary, stubbed when it still does not fit.
Trimmed(seqs, aged) ==
    IF Estimate(mem, seqs, {}) > MaxInput THEN Stubbed(log, seqs, aged) ELSE {}

\* _trim_to_budget and the final materialization.
Materialize(b) == \E aged \in 0..Len(log) :
    Send(mem, After(log, b), Trimmed(After(log, b), aged))

\* build, second commit: the boundary of the memory just written.
Cover ==
    /\ pc = "cover"
    /\ boundary' = job.through
    /\ Materialize(job.through) /\ job' = NoJob
    /\ UNCHANGED <<log, mem, brk, rounds, status, trouble, left, histories,
                   windows>>

(***************************************************************************)
(* The semantic compactor: automatic, manual and reactive.                 *)
(***************************************************************************)

\* Nothing new to summarise: the prior revision is returned unchanged.
NothingNew == job.seqs = {} /\ boundary > 0 /\ mem.rev > 0

\* The calls in trouble whose results the compactor was shown.
MustPreserve(seqs) == UNION {log[i].bad : i \in seqs}

\* _require_preserved_state: those calls, and not the ones that only the prior
\* memory knows.
Preserved(safe) == MustPreserve(job.seqs) \subseteq safe

\* validate: the revision, the run and the text must fit, the boundary must
\* reach what was asked for -- and may lie beyond it.
Valid(through) == through >= job.through

\* What follows a compaction, by who asked for it.
AfterCompaction(ok) ==
    CASE job.mode = "auto" /\ ok -> pc' = "prepared" /\ job' = NoJob /\ UNCHANGED status
      [] job.mode = "auto" /\ ~ok -> pc' = "build" /\ job' = NoJob /\ UNCHANGED status
      [] job.mode = "reactive" /\ ok -> pc' = "retry" /\ job' = NoJob /\ UNCHANGED status
      [] job.mode = "reactive" /\ ~ok -> Park("paused")
      [] job.mode = "manual" ->
            /\ pc' = "compacted" /\ UNCHANGED status
            /\ job' = [NoJob EXCEPT !.mode = IF ok THEN "done" ELSE "failed"]

\* Mutant: two commits in the other order; a crash loses the memory.
CommitBoundaryFirst(m) ==
    mem' = mem /\ boundary' = m.through /\ brk' = [brk EXCEPT !.fails = 0]

\* commit_compaction: memory, boundary and the reset breaker in one commit.
Commit(m) ==
    /\ mem' = m /\ boundary' = m.through
    /\ brk' = [fails |-> 0, round |-> IF job.mode = "reactive" THEN rounds ELSE brk.round]

CompactorAnswers ==
    /\ pc = "ask" /\ ~NothingNew
    /\ \E through \in 1..(job.through + Overclaim),
          safe \in SUBSET (mem.safe \cup MustPreserve(job.seqs)) :
         /\ Valid(through) /\ Preserved(safe)
         /\ Commit([rev |-> mem.rev + 1, through |-> through, shown |-> job.through,
                    safe |-> safe])
         /\ windows' = windows
              \cup (IF through > job.through THEN {"overclaim"} ELSE {})
              \cup (IF ~(mem.safe \subseteq safe) THEN {"forgotten"} ELSE {})
    /\ seen' = Last(job.seqs \cup {seen}) /\ failRow' = 0
    /\ reacted' = IF job.mode = "reactive" THEN [reacted EXCEPT ![rounds] = @ + 1]
                  ELSE reacted
    /\ AfterCompaction(TRUE)
    /\ UNCHANGED <<log, rounds, req, trouble, retries, left>>

CompactorIdle ==
    /\ pc = "ask" /\ NothingNew
    /\ AfterCompaction(TRUE)
    /\ UNCHANGED <<durable, rounds, req, retries, left, histories, windows>>

\* One more consecutive failure, in a transaction of its own.
RecordFailure == [brk EXCEPT !.fails = @ + 1]

\* The compactor fails, or its memory drops state it had to preserve.
CompactorFails ==
    /\ pc = "ask" /\ ~NothingNew
    /\ brk' = RecordFailure /\ failRow' = failRow + 1
    /\ AfterCompaction(FALSE)
    /\ UNCHANGED <<log, boundary, mem, trouble, rounds, req, retries, left,
                   seen, reacted, windows>>

\* prepare, after a semantic compaction: what is left behind the new boundary.
Prepared ==
    /\ pc = "prepared"
    /\ Send(mem, After(log, boundary), {})
    /\ UNCHANGED <<durable, rounds, status, job, left, histories, windows>>

\* reactive_compact: the newest groups stay, everything older is summarised.
ReactiveHead(l) ==
    LET seqs == After(l, boundary)
        ends == {Last(GroupOf(l, i)) : i \in seqs}
    IN {i \in seqs : Cardinality({e \in ends : e >= i}) > KeepRecent}

ReactiveAttempted == brk.round = rounds

\* _record_reactive_attempt: nothing old enough, but the one attempt is spent.
RecordAttempt == brk' = [brk EXCEPT !.round = rounds]

\* The provider says that the prompt is too long.
PromptTooLong ==
    /\ pc = "call"
    /\ LET l == Tolerated(log)
           head == ReactiveHead(l)
       IN IF ReactiveAttempted \/ (BreakerOpen /\ head # {})
          THEN Park("paused") /\ brk' = brk
          ELSE IF head = {}
          THEN pc' = "retry" /\ RecordAttempt /\ UNCHANGED <<status, job>>
          ELSE /\ job' = Ask("reactive", head)
               /\ pc' = "ask" /\ UNCHANGED <<status, brk>>
    /\ Received
    /\ UNCHANGED <<log, boundary, mem, trouble, rounds, left, histories, windows>>

\* _materialize_after: the preserved tail behind the fresh memory, resent.
Retry ==
    /\ pc = "retry"
    /\ Resend(mem, After(Tolerated(log), boundary))
    /\ UNCHANGED <<durable, rounds, status, job, left, histories, windows>>

(***************************************************************************)
(* A turn of the agent.                                                    *)
(***************************************************************************)

\* Mutant: retries are not counted.
CorrectedForever ==
    /\ pc = "call" /\ retries' = 1 - retries
    /\ UNCHANGED <<durable, rounds, status, pc, job, req, left, histories, windows>>

\* A malformed or rejected answer: a correction is appended to the request
\* only, a bounded number of times; then the run fails.  In the retry after a
\* reactive compaction the error leaves the loop instead.
Corrected ==
    /\ pc = "call"
    /\ IF retries < MaxRetries
       THEN retries' = retries + 1 /\ UNCHANGED <<status, pc, job, req, windows>>
       ELSE /\ Park(IF req.again THEN status ELSE "failed")
            /\ windows' = IF req.again THEN windows \cup {"escaped"} ELSE windows
            /\ Received
    /\ UNCHANGED <<durable, rounds, left, histories>>

\* The answer is appended before anything is executed.
AgentAnswers ==
    /\ pc = "call"
    /\ rounds' = rounds + 1
    /\ \E asked \in SUBSET Tools, compact \in BOOLEAN :
         LET ids == {<<Len(log) + 1, k>> : k \in asked \cup (IF compact THEN {0} ELSE {})}
         IN /\ log' = Append(log, Use(ids))
            /\ IF compact
               THEN /\ pc' = "ask" /\ status' = status
                    /\ job' = Ask("manual", After(Tolerated(log'), boundary))
               ELSE IF ids # {} THEN pc' = "act" /\ UNCHANGED <<status, job>>
               ELSE \/ Park("done")
                    \/ Park("paused")
                    \/ pc' = "top" /\ UNCHANGED <<status, job>>
            /\ windows' = IF compact /\ asked # {} THEN windows \cup {"siblings"}
                          ELSE windows
    /\ Received
    /\ UNCHANGED <<boundary, mem, brk, trouble, left, histories>>

OpenUse == log[Len(log)].uses

\* _execute_tools: one block per request, the ones that never ran included.
Blocks(ids, ran) == ids

\* How a round of tools ends: which calls ran, which of those are in trouble,
\* and whether the run goes on, waits for an approval or is parked.
ToolsEnd ==
    /\ pc = "act"
    /\ \E ran, bad \in SUBSET OpenUse, size \in {1, Large}, saved \in BOOLEAN,
          next \in {"running", "waiting", "paused", "uncertain"} :
         /\ bad \subseteq ran
         /\ (ran = {} \/ ran # OpenUse) => next # "running"
         /\ next \in {"waiting", "uncertain"} => bad # {}
         /\ (bad # {} \/ ran # OpenUse) => size = 1   \* errors are short
         /\ trouble' = trouble \cup bad
         /\ log' = IF saved
                   THEN Append(log, Results(Blocks(OpenUse, ran),
                                            bad \cup (OpenUse \ ran), size))
                   ELSE log
         /\ windows' = IF saved THEN windows ELSE windows \cup {"unsaved"}
         /\ IF next = "running" THEN pc' = "top" /\ UNCHANGED <<status, job>>
            ELSE Park(next)
    /\ UNCHANGED <<boundary, mem, brk, rounds, req, retries, left, histories>>

\* _handle_manual_compact answers the compact_context call alone.
CompactResult(ok) ==
    LET id == {c \in OpenUse : c[2] = 0}
    IN Append(log, Results(id, IF ok THEN {} ELSE id, 1))

ManualCompactEnds ==
    /\ pc = "compacted"
    /\ log' = CompactResult(job.mode = "done")
    /\ pc' = "top" /\ job' = NoJob
    /\ UNCHANGED <<boundary, mem, brk, rounds, status, req, trouble, retries,
                   left, histories, windows>>

\* An approval is decided: the call runs, its final result is a new message
\* and the run goes on, or is parked when the result is uncertain; a denied call
\* is cancelled without a message.
ApprovalDecided ==
    /\ pc = "idle" /\ status = "waiting" /\ Room(1)
    /\ \E c \in trouble, bad \in BOOLEAN, ran \in BOOLEAN :
         /\ c \in log[Len(log)].bad
         /\ trouble' = IF bad /\ ran THEN trouble ELSE trouble \ {c}
         /\ log' = IF ran THEN Append(log, Results({c}, IF bad THEN {c} ELSE {}, 1))
                   ELSE log
         /\ \/ status' = "running" /\ pc' = "top"
            \/ bad /\ ran /\ status' = "uncertain" /\ pc' = "idle"
    /\ UNCHANGED <<boundary, mem, brk, rounds, job, req, retries, left,
                   histories, windows>>

(***************************************************************************)
(* Crashes and startup.                                                    *)
(***************************************************************************)

ProcessDies ==
    /\ pc # "down" /\ left.crashes > 0
    /\ pc' = "down" /\ job' = NoJob
    /\ left' = [left EXCEPT !.crashes = @ - 1]
    /\ windows' = IF Torn(log) THEN windows \cup {"cut"} ELSE windows
    /\ Received
    /\ UNCHANGED <<durable, rounds, status, histories>>

\* _validate_transcript_tails parks a RUNNING run with a torn transcript; the
\* boundary is left as it is.
ValidatedStatus == IF status = "running" /\ Torn(log) THEN "uncertain" ELSE status

Restart ==
    /\ pc = "down"
    /\ pc' = "idle" /\ status' = ValidatedStatus
    /\ UNCHANGED <<durable, rounds, job, req, retries, left, histories, windows>>

LoopStep ==
    \/ DeliverReport \/ BeginRound \/ Prepare \/ Build \/ Cover
    \/ CompactorAnswers \/ CompactorIdle \/ CompactorFails \/ Prepared
    \/ PromptTooLong \/ Retry \/ Corrected \/ AgentAnswers \/ ToolsEnd
    \/ ManualCompactEnds

TranscriptNext == LoopStarts \/ LoopStep \/ ApprovalDecided \/ ProcessDies \/ Restart

TranscriptSpec == TranscriptInit /\ [][TranscriptNext]_transcriptVars /\ WF_transcriptVars(LoopStep)

(***************************************************************************)
(* Properties.                                                             *)
(***************************************************************************)

Through(W) == windows \cap W # {}

TranscriptTypeOK ==
    /\ log \in Seq(Message) /\ Len(log) <= MaxLog
    /\ boundary \in 0..(MaxLog + Overclaim)
    /\ mem \in [rev: Nat, through: 0..(MaxLog + Overclaim),
                shown: 0..MaxLog, safe: SUBSET CallIds]
    /\ brk \in [fails: Nat, round: 0..MaxRounds \cup {NoRound}]
    /\ rounds \in 0..MaxRounds
    /\ status \in {"created", "running", "waiting", "paused", "uncertain", "failed", "done"}
    /\ pc \in {"down", "idle", "top", "prepare", "build", "cover", "ask", "prepared",
               "call", "retry", "act", "compacted"}
    /\ job.mode \in {"none", "auto", "manual", "reactive", "cover", "done", "failed"}
    /\ trouble \subseteq CallIds
    /\ retries \in 0..MaxRetries /\ windows \subseteq Windows

\* Nothing is lost: each message that existed when a request was sent is in
\* the request or was summarised by the memory in its header -- also after a
\* crash between the memory and its boundary, and after every kind of
\* compaction.  A compactor that claims messages it was not shown is the
\* exception (CompactionValidator checks the lower bound only).
NothingLost ==
    Through({"overclaim"})
    \/ \A s \in 1..req.len : s \in req.seqs \/ s <= req.mem.shown

\* A request holds a tool use and its results together or not at all, wherever
\* the boundary lies and whatever was cut, filtered or compacted.
RequestPaired ==
    \A i \in 1..req.len : log[i].uses # {} =>
        /\ i \in req.seqs <=> i + 1 \in req.seqs
        /\ log[i + 1].res = log[i].uses

\* A tool use inside the transcript is answered by the next message; what a
\* crash, an ignored append failure or a compact_context beside other tools
\* leaves behind can no longer be sent (every later build parks the run).
PairedInside ==
    Through({"cut", "unsaved", "siblings"})
    \/ \A i \in 1..(Len(log) - 1) : ~Unpaired(log, i)

\* A failed, uncertain or waiting result and a child's report leave the replayed
\* tail only when a compactor was shown them: the deterministic compaction
\* never covers a protected group.
ProtectedSurvives ==
    Through({"overclaim"})
    \/ \A i \in 1..Len(log) :
          i <= boundary /\ (log[i].bad # {} \/ log[i].child) => i <= seen

\* The agent sees every call that is in trouble, as a replayed result or in
\* the memory's safety state.
TroubleVisible ==
    Through({"overclaim", "forgotten"})
    \/ pc # "call"
    \/ \A c \in trouble : c \in req.mem.safe \/ \E i \in req.seqs : c \in log[i].bad

\* The boundary never passes the memory that stands for what it hides, and the
\* memory runs ahead of it only between the two commits of the deterministic
\* compaction or after a crash there.
BoundaryBacked ==
    /\ boundary <= mem.through
    /\ mem.through > boundary => pc = "cover" \/ left.crashes < MaxProcessCrashes

\* A run whose loop has ended is parked or finished; RUNNING without a loop is
\* what a crash leaves, or an error that escapes the retry.
StoppedIsParked ==
    Through({"escaped"}) \/ left.crashes < MaxProcessCrashes
    \/ ~(pc = "idle" /\ status = "running")

\* One reactive compaction at most between two completed rounds.
OneReactivePerRound == \A r \in 0..MaxRounds : reacted[r] <= 1

\* The breaker counts across rounds, modes, pauses and crashes: after
\* MaxFailures failures in a row only a manual request reaches the compactor.
BreakerHolds == pc = "ask" /\ job.mode # "manual" => failRow < MaxFailures

\* A compaction never gives up what an earlier one covered.  Only a memory whose
\* boundary was lost in a crash can be followed by one that covers less: the
\* boundary, which is what counts, stays behind the new one.
CoverageGrows ==
    [][/\ boundary' >= boundary
       /\ left.crashes = MaxProcessCrashes => mem'.through >= mem.through]_transcriptVars

\* Every round that was begun ends: with the next loop top, parked or down.
RoundEnds == pc = "prepare" ~> pc \in {"top", "idle", "down"}

\* The model is shown, or was given in summary, all that happened: no message
\* falls between memory and tail, and what is protected or in trouble is in one
\* of them.
NothingHidden ==
    /\ TranscriptTypeOK
    /\ NothingLost
    /\ ProtectedSurvives
    /\ TroubleVisible
    /\ BoundaryBacked

\* Tool uses and their results stay together, in what is stored and in what is
\* sent.
Paired == RequestPaired /\ PairedInside

\* Compaction makes progress and comes to an end: coverage only grows, failing
\* and reactive compactions are cut off, and every round ends with the run
\* parked or at the next loop top.
CompactionProgress ==
    /\ CoverageGrows
    /\ RoundEnds
    /\ [](BreakerHolds /\ OneReactivePerRound /\ StoppedIsParked)

=============================================================================
