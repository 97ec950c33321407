---------------------------- MODULE OutboxWorker ----------------------------
(***************************************************************************)
(* The transactional outbox and its dispatchers                            *)
(* (backend/src/genesis/application/outbox.py and                          *)
(* backend/src/genesis/infrastructure/outbox_worker.py).                   *)
(*                                                                         *)
(* A domain transaction inserts its notice as a row of outbox_events.      *)
(* Worker processes run dispatch_due: one transaction claims a batch of    *)
(* due rows and leases it by moving next_attempt_at forward; the provider  *)
(* is then called outside any transaction, once per row; the outcome of    *)
(* each call is recorded in a transaction of its own, by an UPDATE that    *)
(* names the row's id and nothing else.  A worker may die between any two  *)
(* of these steps.                                                         *)
(*                                                                         *)
(* Abstractions.  Time is the set `due' of the pending rows whose          *)
(* next_attempt_at has passed, and `aged', the dispatched rows older than  *)
(* the retention window.  A claim takes as many due rows as the batch      *)
(* allows; which ones come first (ORDER BY next_attempt_at over jittered   *)
(* times) is left open.                                                    *)
(***************************************************************************)
EXTENDS Integers, FiniteSets

CONSTANTS
  Event,          \* ids of the notices
  Worker,         \* dispatcher processes
  MAX_ATTEMPTS,   \* failed calls before a row is dead-lettered
  ClaimSize,      \* rows of one claim
  MaxOverruns,    \* bounds of the model: how often a lease runs out under a live
  MaxCrashes      \* worker, and how often a worker dies

ASSUME ConstantsAssumption ==
  /\ MAX_ATTEMPTS \in Nat \ {0}
  /\ ClaimSize \in Nat \ {0}
  /\ MaxOverruns \in Nat
  /\ MaxCrashes \in Nat

VARIABLES
  row,        \* row[e]: status of e's row in outbox_events
  attempts,   \* attempts[e]: that row's attempts column
  due,        \* pending rows whose next_attempt_at has passed
  aged,       \* dispatched rows older than DISPATCHED_RETENTION_DAYS
  batch,      \* batch[w]: the rows w has claimed and not yet settled
  call,       \* call[w]: what w's current provider call came to
  accepted,   \* event ids some provider call has accepted
  failures,   \* failures[e]: failed calls for e, saturating at MAX_ATTEMPTS
  overruns,   \* leases that ran out under a live worker so far
  crashes     \* workers lost so far

vars == <<row, attempts, due, aged, batch, call, accepted, failures, overruns,
          crashes>>

Status == {"absent", "pending", "dispatched", "dead", "purged"}

\* A claimed row: its id and the attempts column as the claim read it.
Claim == [id : Event, attempts : 0 .. MAX_ATTEMPTS - 1]

NoCall == [state |-> "none"]
Call == {NoCall} \cup [state : {"ok", "failed"}, of : Claim]

TypeOK ==
  /\ row \in [Event -> Status]
  /\ attempts \in [Event -> 0 .. MAX_ATTEMPTS]
  /\ due \subseteq {e \in Event : row[e] = "pending"}
  /\ aged \subseteq {e \in Event : row[e] = "dispatched"}
  /\ batch \in [Worker -> SUBSET Claim]
  /\ call \in [Worker -> Call]
  /\ accepted \subseteq Event
  /\ failures \in [Event -> 0 .. MAX_ATTEMPTS]
  /\ overruns \in 0 .. MaxOverruns
  /\ crashes \in 0 .. MaxCrashes

Init ==
  /\ row = [e \in Event |-> "absent"]
  /\ attempts = [e \in Event |-> 0]
  /\ due = {}
  /\ aged = {}
  /\ batch = [w \in Worker |-> {}]
  /\ call = [w \in Worker |-> NoCall]
  /\ accepted = {}
  /\ failures = [e \in Event |-> 0]
  /\ overruns = 0
  /\ crashes = 0

-----------------------------------------------------------------------------
(* The writer: enqueue_event inside the caller's transaction.              *)

\* The row becomes visible, due at once, when the caller commits.
Enqueue(e) ==
  /\ row[e] = "absent"
  /\ row' = [row EXCEPT ![e] = "pending"]
  /\ due' = due \cup {e}
  /\ UNCHANGED <<attempts, aged, batch, call, accepted, failures, overruns, crashes>>

-----------------------------------------------------------------------------
(* dispatch_due.                                                           *)

\* Fault variant: the lease UPDATE is forgotten.
DueAfterLeaseNoLease(S) == due

\* The lease moves next_attempt_at of the whole claimed batch forward.
DueAfterLease(S) == due \ S

\* Phase 1, one transaction: SELECT .. FOR UPDATE SKIP LOCKED, lease, commit.
ClaimBatch(w) ==
  /\ batch[w] = {}
  /\ due # {}
  /\ \E S \in SUBSET due :
       /\ IF Cardinality(due) <= ClaimSize THEN S = due
                                           ELSE Cardinality(S) = ClaimSize
       /\ batch' = [batch EXCEPT ![w] = {[id |-> e, attempts |-> attempts[e]] : e \in S}]
       /\ due' = DueAfterLease(S)
  /\ UNCHANGED <<row, attempts, aged, call, accepted, failures, overruns, crashes>>

\* Phase 2: provider.send outside any transaction.  A call may be accepted,
\* be refused, or be accepted and still raise (a timeout on the answer).
Send(w) ==
  /\ call[w] = NoCall
  /\ \E c \in batch[w] :
       \/ /\ call' = [call EXCEPT ![w] = [state |-> "ok", of |-> c]]
          /\ accepted' = accepted \cup {c.id}
          /\ UNCHANGED failures
       \/ /\ call' = [call EXCEPT ![w] = [state |-> "failed", of |-> c]]
          /\ accepted' \in {accepted, accepted \cup {c.id}}
          /\ failures' = [failures EXCEPT ![c.id] =
                            IF @ < MAX_ATTEMPTS THEN @ + 1 ELSE @]
  /\ UNCHANGED <<row, attempts, due, aged, batch, overruns, crashes>>

\* Fault variant: a failed call does not count.
AttemptsAfterUncounted(c) == c.attempts

AttemptsAfter(c) == c.attempts + 1

\* The worker is done with the row it called the provider for.
Settle(w, c) ==
  /\ batch' = [batch EXCEPT ![w] = @ \ {c}]
  /\ call' = [call EXCEPT ![w] = NoCall]

\* Phase 3 after a call that returned.  The UPDATE finds no row if the row
\* was purged meanwhile; it refreshes dispatched_at if there is one.
RecordDispatched(w) ==
  /\ call[w].state = "ok"
  /\ LET c == call[w].of
         e == c.id
     IN  /\ Settle(w, c)
         /\ \/ /\ row[e] = "purged"
               /\ UNCHANGED <<row, attempts, due, aged>>
            \/ /\ row[e] # "purged"
               /\ row' = [row EXCEPT ![e] = "dispatched"]
               /\ attempts' = [attempts EXCEPT ![e] = AttemptsAfter(c)]
               /\ due' = due \ {e}
               /\ aged' = aged \ {e}
  /\ UNCHANGED <<accepted, failures, overruns, crashes>>

\* Fault variant: dead-lettered one retry short.
ExhaustedEarly(n) == n + 1 >= MAX_ATTEMPTS

Exhausted(n) == n >= MAX_ATTEMPTS

\* Phase 3 after a call that raised: _record_failure with the attempts count
\* of the claim, which the row may have left behind since.
RecordFailure(w) ==
  /\ call[w].state = "failed"
  /\ LET c == call[w].of
         e == c.id
         n == AttemptsAfter(c)
     IN  /\ Settle(w, c)
         /\ \/ /\ row[e] = "purged"
               /\ UNCHANGED <<row, attempts, due, aged>>
            \/ /\ row[e] # "purged"
               /\ Exhausted(n)
               /\ row' = [row EXCEPT ![e] = "dead"]
               /\ attempts' = [attempts EXCEPT ![e] = n]
               /\ due' = due \ {e}
               /\ aged' = aged \ {e}
            \/ /\ row[e] # "purged"
               /\ ~Exhausted(n)
               /\ attempts' = [attempts EXCEPT ![e] = n]
               /\ due' = due \ {e}
               /\ UNCHANGED <<row, aged>>
  /\ UNCHANGED <<accepted, failures, overruns, crashes>>

\* The process dies, or a recording transaction raises: the rest of the
\* batch is abandoned to its lease, with no attempt counted.
Crash(w) ==
  /\ batch[w] # {}
  /\ crashes < MaxCrashes
  /\ batch' = [batch EXCEPT ![w] = {}]
  /\ call' = [call EXCEPT ![w] = NoCall]
  /\ crashes' = crashes + 1
  /\ UNCHANGED <<row, attempts, due, aged, accepted, failures, overruns>>

-----------------------------------------------------------------------------
(* The clock.                                                              *)

\* Some live worker still has e in its batch.
Held(e) == \E w \in Worker : \E c \in batch[w] : c.id = e

\* next_attempt_at of a leased or backed-off row passes, under a live worker
\* too when its batch takes longer than the lease.
BecomeDue(e) ==
  /\ row[e] = "pending"
  /\ e \notin due
  /\ \/ ~Held(e) /\ UNCHANGED overruns
     \/ Held(e) /\ overruns < MaxOverruns /\ overruns' = overruns + 1
  /\ due' = due \cup {e}
  /\ UNCHANGED <<row, attempts, aged, batch, call, accepted, failures, crashes>>

\* dispatched_at falls behind the retention window.
Age(e) ==
  /\ row[e] = "dispatched"
  /\ e \notin aged
  /\ aged' = aged \cup {e}
  /\ UNCHANGED <<row, attempts, due, batch, call, accepted, failures, overruns, crashes>>

-----------------------------------------------------------------------------
(* purge_dispatched.                                                       *)

\* Fault variant: rows that still wait go too.
PurgeableAnyStatus(e) == row[e] \in {"pending", "dispatched"}

Purgeable(e) == row[e] = "dispatched" /\ e \in aged

\* One batch DELETE: rows locked by another transaction are skipped.
Purge(S) ==
  /\ S # {}
  /\ \A e \in S : Purgeable(e)
  /\ row' = [e \in Event |-> IF e \in S THEN "purged" ELSE row[e]]
  /\ aged' = aged \ S
  /\ UNCHANGED <<attempts, due, batch, call, accepted, failures, overruns, crashes>>

-----------------------------------------------------------------------------
Next ==
  \/ \E e \in Event : Enqueue(e) \/ BecomeDue(e) \/ Age(e)
  \/ \E w \in Worker : \/ ClaimBatch(w)
                       \/ Send(w)
                       \/ RecordDispatched(w)
                       \/ RecordFailure(w)
                       \/ Crash(w)
  \/ \E S \in SUBSET Event : Purge(S)

Spec == Init /\ [][Next]_vars

\* run_worker never returns: it polls every interval, finishes the batch it
\* has, and time passes.  Nothing obliges a domain change, a purge or a crash.
Fairness ==
  /\ \A w \in Worker : /\ WF_vars(ClaimBatch(w))
                       /\ WF_vars(Send(w))
                       /\ WF_vars(RecordDispatched(w))
                       /\ WF_vars(RecordFailure(w))
  /\ \A e \in Event : WF_vars(BecomeDue(e))

FairSpec == Spec /\ Fairness

-----------------------------------------------------------------------------
(* Properties.                                                             *)

\* No two dispatchers hold the same notice: a claimed row stays with its
\* worker until the worker records an outcome or dies.  (The lease plus SKIP
\* LOCKED of dispatch_due; holds until a lease runs out under a live worker.)
ClaimsDisjoint ==
  overruns = 0 =>
    \A v, w \in Worker : v # w =>
      \A c \in batch[v], d \in batch[w] : c.id # d.id

\* Every notice is delivered or dead-lettered, whatever fails: attempts are
\* counted across workers and an abandoned lease is picked up again.
EventuallySettled ==
  \A e \in Event : row[e] = "pending" ~> row[e] \in {"dispatched", "dead", "purged"}

\* At-least-once: a row says dispatched, or is deleted, only if the provider
\* has accepted the event, however stale the worker that recorded it.
AcceptedBeforeForgotten ==
  \A e \in Event : row[e] \in {"dispatched", "purged"} => e \in accepted

\* No event is given up early: a dead row has MAX_ATTEMPTS failed calls behind
\* it, even when overlapping workers count from the same claimed value.
DeadOnlyWhenExhausted ==
  \A e \in Event : row[e] = "dead" => failures[e] = MAX_ATTEMPTS

\* The outbox implements the promise made to the domain code.
Promise == INSTANCE NotificationPromise WITH
  owed      <- {e \in Event : row[e] # "absent"},
  handed    <- accepted,
  forgotten <- {e \in Event : row[e] = "purged"}

PromiseKept == Promise!Spec
=============================================================================
