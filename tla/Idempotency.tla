----------------------------- MODULE Idempotency -----------------------------
(***************************************************************************)
(* Idempotency keys of the mutating API routes: the reservation rows of    *)
(* idempotency/store.py and the wrapper execute_idempotent of              *)
(* api/idempotency.py that runs a route's action between the reservation   *)
(* and the stored answer.  A key stands for the primary key (principal,    *)
(* method, route, Idempotency-Key) and a body for the request's SHA-256.   *)
(*                                                                         *)
(* The reservation is one BEGIN IMMEDIATE transaction and the answer is    *)
(* stored by one UPDATE; the action awaits between them, so requests       *)
(* interleave there, and the process can die there.                        *)
(*                                                                         *)
(* Names that every module has are prefixed here: these keys stand beside  *)
(* the operations of Operations in one process, and in one proof module.   *)
(***************************************************************************)
EXTENDS Naturals

CONSTANTS
  Keys,         \* idempotency keys
  Bodies,       \* request hashes
  Requests,     \* HTTP requests that reach execute_idempotent
  Null,         \* the null of the optional columns
  Lease,        \* RESERVATION_LEASE_SECONDS
  FailedLease,  \* FAILED_RESERVATION_LEASE_SECONDS
  Retention,    \* COMPLETED_RETENTION_SECONDS
  MaxTime,      \* bound on the clock
  MaxKeyFaults  \* bound on failed writes after the action

ASSUME IdempotencyNone == Null \notin Keys \cup Bodies \cup Requests
ASSUME IdempotencyTimes ==
  /\ Lease \in Nat \ {0} /\ FailedLease \in Nat \ {0}
  /\ Retention \in Nat \ {0}
  /\ MaxTime \in Nat /\ MaxKeyFaults \in Nat

VARIABLES
  now,      \* datetime.now(UTC)
  row,      \* api_idempotency_keys, by key
  req,      \* each request: its input, its progress and its result
  keyFaults \* used against MaxKeyFaults

idemVars == <<now, row, req, keyFaults>>

\* answer is the request whose response_json the row holds; the response
\* carries nothing else that the properties tell apart.
NoRow == [state |-> "absent", sha |-> Null, answer |-> Null, expires |-> 0]
Row ==
  [state: {"absent", "in_progress", "completed"}, sha: Bodies \cup {Null},
   answer: Requests \cup {Null}, expires: Nat]

NewRequest ==
  [st |-> "new", key |-> Null, body |-> Null, began |-> 0, ended |-> 0,
   answer |-> Null]

Request ==
  [st: {"new", "running", "stored", "failed", "lost", "replayed", "conflict",
        "in_progress"},
   key: Keys \cup {Null}, body: Bodies \cup {Null}, began: Nat, ended: Nat,
   answer: Requests \cup {Null}]

KeyTypeOK ==
  /\ now \in Nat
  /\ row \in [Keys -> Row]
  /\ req \in [Requests -> Request]
  /\ keyFaults \in Nat

KeyInit ==
  /\ now = 0
  /\ row = [k \in Keys |-> NoRow]
  /\ req = [r \in Requests |-> NewRequest]
  /\ keyFaults = 0

-----------------------------------------------------------------------------

\* The DELETE that opens every reservation.
Expired(k) == row[k].state # "absent" /\ row[k].expires <= now
Pruned == [k \in Keys |-> IF Expired(k) THEN NoRow ELSE row[k]]

Reserved(b) ==
  [state |-> "in_progress", sha |-> b, answer |-> Null, expires |-> now + Lease]

Arrived(r, st, k, b, answer) ==
  [req EXCEPT ![r] = [st |-> st, key |-> k, body |-> b, began |-> now,
                      ended |-> now, answer |-> answer]]

\* The INSERT wins: the caller owns the key and starts the action.
Reserve(r, k, b) ==
  /\ req[r].st = "new"
  /\ Pruned[k].state = "absent"
  /\ row' = [Pruned EXCEPT ![k] = Reserved(b)]
  /\ req' = Arrived(r, "running", k, b, Null)
  /\ UNCHANGED <<now, keyFaults>>

\* Mutant: the stored hash is not compared.
SameKeyOnly(k, b) == Pruned[k].state = "completed"

\* The three answers of _existing_reservation.
SameRequest(k, b) == Pruned[k].sha = b

Replay(r, k, b) ==
  /\ req[r].st = "new"
  /\ Pruned[k].state = "completed" /\ SameRequest(k, b)
  /\ row' = Pruned
  /\ req' = Arrived(r, "replayed", k, b, Pruned[k].answer)
  /\ UNCHANGED <<now, keyFaults>>

Conflict(r, k, b) ==
  /\ req[r].st = "new"
  /\ Pruned[k].state = "completed" /\ ~SameRequest(k, b)
  /\ row' = Pruned
  /\ req' = Arrived(r, "conflict", k, b, Null)
  /\ UNCHANGED <<now, keyFaults>>

\* An unfinished reservation answers 409 before the hashes are compared.
InProgress(r, k, b) ==
  /\ req[r].st = "new"
  /\ Pruned[k].state = "in_progress"
  /\ row' = Pruned
  /\ req' = Arrived(r, "in_progress", k, b, Null)
  /\ UNCHANGED <<now, keyFaults>>

Ended(r, st) ==
  [req EXCEPT ![r] = [st |-> st, key |-> req[r].key, body |-> req[r].body,
                      began |-> req[r].began, ended |-> now,
                      answer |-> req[r].answer]]

\* Mutant: completing does not extend expires_at.
CompletedKeepsLease(k, r) ==
  [state |-> "completed", sha |-> row[k].sha, answer |-> r,
   expires |-> row[k].expires]

\* Mutant: two columns of the UPDATE are swapped.
CompletedSwapped(k, r) ==
  [state |-> "completed", sha |-> r, answer |-> row[k].sha,
   expires |-> now + Retention]

\* mark_completed: the UPDATE names the key and the state, not the owner, and
\* leaves request_sha256 as the reservation wrote it.
Completed(k, r) ==
  [state |-> "completed", sha |-> row[k].sha, answer |-> r,
   expires |-> now + Retention]

MarkCompleted(k, r) ==
  IF row[k].state = "in_progress"
    THEN [row EXCEPT ![k] = Completed(k, r)] ELSE row

\* rearm_lease: the row stays in progress and becomes reclaimable soon.
Rearmed(k) ==
  [state |-> "in_progress", sha |-> row[k].sha, answer |-> row[k].answer,
   expires |-> now + FailedLease]

RearmLease(k) ==
  IF row[k].state = "in_progress" THEN [row EXCEPT ![k] = Rearmed(k)] ELSE row

\* The action returned a 2xx.
Complete(r) ==
  /\ req[r].st = "running"
  /\ row' = MarkCompleted(req[r].key, r)
  /\ req' = Ended(r, "stored")
  /\ UNCHANGED <<now, keyFaults>>

\* The action raised, was cancelled, or returned another status.
Fail(r) ==
  /\ req[r].st = "running"
  /\ row' = RearmLease(req[r].key)
  /\ req' = Ended(r, "failed")
  /\ UNCHANGED <<now, keyFaults>>

\* The write after the action fails: service.complete raises to the client,
\* and _rearm_after_failure swallows its own failure.  The row stays.
WriteFails(r) ==
  /\ req[r].st = "running"
  /\ keyFaults < MaxKeyFaults
  /\ keyFaults' = keyFaults + 1
  /\ req' = Ended(r, "failed")
  /\ UNCHANGED <<now, row>>

\* The process dies: running actions are gone, their rows stay.
ProcessDies ==
  /\ keyFaults < MaxKeyFaults
  /\ keyFaults' = keyFaults + 1
  /\ \E r \in Requests : req[r].st = "running"
  /\ req' = [r \in Requests |->
               IF req[r].st = "running" THEN Ended(r, "lost")[r] ELSE req[r]]
  /\ UNCHANGED <<now, row>>

\* The clock.  An action is awaited without a bound, so it may outlive its lease.
Tick ==
  /\ now < MaxTime
  /\ now' = now + 1
  /\ UNCHANGED <<row, req, keyFaults>>

KeyNext ==
  \/ \E r \in Requests, k \in Keys, b \in Bodies :
        Reserve(r, k, b) \/ Replay(r, k, b) \/ Conflict(r, k, b)
          \/ InProgress(r, k, b)
  \/ \E r \in Requests : Complete(r) \/ Fail(r) \/ WriteFails(r)
  \/ ProcessDies
  \/ Tick

KeySpec == KeyInit /\ [][KeyNext]_idemVars

-----------------------------------------------------------------------------
(***************************************************************************)
(* Properties.                                                             *)
(***************************************************************************)

Running(k) == {r \in Requests : req[r].st = "running" /\ req[r].key = k}

\* The requests whose action began.
Ran == {"running", "stored", "failed", "lost"}

\* The action of r was still running when the lease of its reservation ended.
Outlived(r) ==
  /\ req[r].st \in Ran
  /\ req[r].began + Lease <= IF req[r].st = "running" THEN now ELSE req[r].ended

\* Some action of k outlived its lease.  From then on the key promises nothing
\* of what follows: another request may have taken the row, and the two
\* write the one row without a check of its owner.
Overrun(k) == \E r \in Requests : req[r].key = k /\ Outlived(r)

\* The promise of execute_idempotent ("Run action exactly once under
\* idempotency_key"), its concurrent half: two requests with one key never
\* have their actions in flight together, unless an action of that key has
\* outlived its lease.
OneRunPerKey ==
  \A k \in Keys : ~Overrun(k) => \A r, s \in Running(k) : r = s

\* A replayed response is always the stored answer of an action that ran for
\* the same key, and for the same request hash unless an action of that key has
\* outlived its lease: then the row's request_sha256 may be its successor's.
ReplayIsOwnAnswer ==
  \A r \in Requests : req[r].st = "replayed" =>
    \E s \in Requests :
      /\ req[r].answer = s
      /\ req[s].st = "stored"
      /\ req[s].key = req[r].key
      /\ req[s].body = req[r].body \/ Overrun(req[r].key)

\* The other half of exactly once: while the stored 2xx answer of a key is
\* retained, no action starts again under that key, whatever other requests
\* prune, fail or re-arm in the meantime, with the same exception.
NoRerunWhileRetained ==
  \A r, s \in Requests :
    (/\ req[s].st = "stored" /\ req[r].st \in Ran
     /\ req[r].key = req[s].key /\ r # s /\ req[s].ended <= req[r].began
     /\ ~Overrun(req[s].key))
    => req[s].ended + Retention <= req[r].began

\* "Run action exactly once under idempotency_key" (execute_idempotent): neither
\* beside nor after an action of the same key whose answer is still retained,
\* until an action of that key outlives its lease.
ExactlyOnce == OneRunPerKey /\ NoRerunWhileRetained

=============================================================================
