----------------------------- MODULE Idempotency -----------------------------
(***************************************************************************)
(* The Idempotency-Key middleware and its retention purge                  *)
(* (backend/src/genesis/api/idempotency.py,                                *)
(* backend/src/genesis/application/idempotency_purge.py).                  *)
(*                                                                         *)
(* A mutating request claims a row of idempotency_keys in a transaction of *)
(* its own, the handler then runs and commits separately, the response     *)
(* goes out, and only afterwards is it stored in the row (or the claim     *)
(* deleted, after a 5xx).  The process may die at any point in between.    *)
(*                                                                         *)
(* Abstractions.  A storage key already folds in tenant, actor, method and *)
(* path; a hash stands for the request hash.  A response is named by the   *)
(* request that produced it.  Expiry is the flag `live' of a row; a claim  *)
(* may expire whether or not its handler still runs.  `outlived' is a      *)
(* history variable: no action depends on it but the count in `effects'.   *)
(***************************************************************************)
EXTENDS Integers, FiniteSets

CONSTANTS
  Key,              \* storage keys
  Hash,             \* request hashes
  Request,          \* mutating requests, retries by the same client included
  CommitUnknown     \* may a request fail after its domain commit took effect?

None == "none"

ASSUME ConstantsAssumption ==
  /\ CommitUnknown \in BOOLEAN
  /\ None \notin Request

VARIABLES
  ask,       \* ask[r]: the key and hash r was sent with
  pc,        \* pc[r]: how far r has come
  row,       \* row[k]: the row of k in idempotency_keys
  replay,    \* replay[r]: whose stored response r was served
  outlived,  \* requests still under way when their key's window ended
  effects    \* effects[k]: requests of k's current window that changed the domain

vars == <<ask, pc, row, replay, outlived, effects>>

NoRow == [live |-> FALSE]

Row == [hash : Hash, response : Request \cup {None}, live : BOOLEAN, by : Request]

\* running: claim committed, handler not finished.  answered / failed: the
\* handler's response (below 500 / 5xx or exception) is out, the claim row not
\* yet dealt with.  done / released: the claim row was dealt with.
PC == {"arrived", "running", "answered", "failed", "done", "released",
       "replayed", "conflict", "crashed"}

TypeOK ==
  /\ ask \in [Request -> [key : Key, hash : Hash]]
  /\ pc \in [Request -> PC]
  /\ row \in [Key -> {NoRow} \cup Row]
  /\ replay \in [Request -> Request \cup {None}]
  /\ outlived \subseteq Request
  /\ effects \in [Key -> SUBSET Request]

Init ==
  /\ ask \in [Request -> [key : Key, hash : Hash]]
  /\ pc = [r \in Request |-> "arrived"]
  /\ row = [k \in Key |-> NoRow]
  /\ replay = [r \in Request |-> None]
  /\ outlived = {}
  /\ effects = [k \in Key |-> {}]

\* The request still owns what it claimed: its handler or its recording runs.
Active(r) == pc[r] \in {"running", "answered", "failed"}

-----------------------------------------------------------------------------
(* The claim transaction: CLAIM_SQL and, on a live row, REPLAY_LOOKUP_SQL.  *)
(* ON CONFLICT DO UPDATE locks the row even where its WHERE refuses it, and *)
(* now() is fixed for the transaction: the two statements see one row.      *)

\* Fault variants: any row can be taken over; none but a missing one can.
ClaimableAlways(k) == TRUE

\* No row yet, or an expired one the takeover arm resets.
Claimable(k) == ~row[k].live

ClaimFresh(r) ==
  LET k == ask[r].key IN
  /\ pc[r] = "arrived"
  /\ Claimable(k)
  /\ row' = [row EXCEPT ![k] =
               [hash |-> ask[r].hash, response |-> None, live |-> TRUE, by |-> r]]
  /\ pc' = [pc EXCEPT ![r] = "running"]
  /\ UNCHANGED <<ask, replay, outlived, effects>>

Replayable(r, k) == row[k].hash = ask[r].hash /\ row[k].response # None

\* A live row: replay the stored response to the same request, else 409.
ClaimRefused(r) ==
  LET k == ask[r].key IN
  /\ pc[r] = "arrived"
  /\ row[k].live
  /\ \/ /\ Replayable(r, k)
        /\ pc' = [pc EXCEPT ![r] = "replayed"]
        /\ replay' = [replay EXCEPT ![r] = row[k].response]
     \/ /\ ~Replayable(r, k)
        /\ pc' = [pc EXCEPT ![r] = "conflict"]
        /\ UNCHANGED replay
  /\ UNCHANGED <<ask, row, outlived, effects>>

-----------------------------------------------------------------------------
(* The handler, in its own transaction, and its response to the client.    *)

\* A handler commits its effect and answers, refuses (4xx, no effect), or
\* fails (5xx or exception); a failure may hide a commit that took effect.
\* What an outlived handler commits belongs to the window that has ended.
Handle(r) ==
  /\ pc[r] = "running"
  /\ \E effect \in BOOLEAN, end \in {"answered", "failed"} :
       /\ end = "failed" /\ effect => CommitUnknown
       /\ pc' = [pc EXCEPT ![r] = end]
       /\ effects' = [effects EXCEPT ![ask[r].key] =
                        IF effect /\ r \notin outlived THEN @ \cup {r} ELSE @]
  /\ UNCHANGED <<ask, row, replay, outlived>>

\* The WHERE of _store and _release: same hash, no response yet.  Nothing in
\* it names the claim epoch or its expiry.
\* Fault variant: the hash is not compared.
PinnedByKey(r) == row[ask[r].key] # NoRow /\ row[ask[r].key].response = None

Pinned(r) ==
  LET k == ask[r].key IN
  row[k] # NoRow /\ row[k].hash = ask[r].hash /\ row[k].response = None

\* _store: the captured response, if the row still matches.
Store(r) ==
  /\ pc[r] = "answered"
  /\ row' = IF Pinned(r) THEN [row EXCEPT ![ask[r].key].response = r] ELSE row
  /\ pc' = [pc EXCEPT ![r] = "done"]
  /\ UNCHANGED <<ask, replay, outlived, effects>>

\* _release after a 5xx or an exception: delete the claim if it matches.
Release(r) ==
  /\ pc[r] = "failed"
  /\ row' = IF Pinned(r) THEN [row EXCEPT ![ask[r].key] = NoRow] ELSE row
  /\ pc' = [pc EXCEPT ![r] = "released"]
  /\ UNCHANGED <<ask, replay, outlived, effects>>

\* The process dies (or the task is cancelled): neither statement runs, the
\* claim stays in flight until it expires.
Crash(r) ==
  /\ Active(r)
  /\ pc' = [pc EXCEPT ![r] = "crashed"]
  /\ UNCHANGED <<ask, row, replay, outlived, effects>>

-----------------------------------------------------------------------------
(* Retention.                                                              *)

\* expires_at passes, whoever is still under way: a new window of k begins.
Expire(k) ==
  /\ row[k].live
  /\ row' = [row EXCEPT ![k].live = FALSE]
  /\ outlived' = outlived \cup {r \in Request : Active(r) /\ ask[r].key = k}
  /\ effects' = [effects EXCEPT ![k] = {}]
  /\ UNCHANGED <<ask, pc, replay>>

\* Fault variant: the purge deletes stored rows whether expired or not.
ReclaimableStored(k) == row[k] # NoRow /\ row[k].response # None

Reclaimable(k) == row[k] # NoRow /\ ~row[k].live

\* One batch DELETE of purge_expired_idempotency_keys.
Purge(K) ==
  /\ K # {}
  /\ \A k \in K : Reclaimable(k)
  /\ row' = [k \in Key |-> IF k \in K THEN NoRow ELSE row[k]]
  /\ UNCHANGED <<ask, pc, replay, outlived, effects>>

-----------------------------------------------------------------------------
Next ==
  \/ \E r \in Request : \/ ClaimFresh(r)
                        \/ ClaimRefused(r)
                        \/ Handle(r)
                        \/ Store(r)
                        \/ Release(r)
                        \/ Crash(r)
  \/ \E k \in Key : Expire(k)
  \/ \E K \in SUBSET Key : Purge(K)

Spec == Init /\ [][Next]_vars

-----------------------------------------------------------------------------
(* Properties.                                                             *)

\* A request that outlived its window failed and released: its DELETE matches
\* any unanswered claim for the same key and hash, a successor's too.
StaleRelease(a) == \E x \in outlived : pc[x] = "released" /\ ask[x] = a

\* However a client retries, within one retention window of its key the
\* domain changes at most once, except for changes whose request was told it
\* failed (the 5xx released the claim so that the client could retry), and
\* changes whose claim the release of an outlived twin may have deleted.
AtMostOneEffect ==
  \A k \in Key : \A r, s \in effects[k] :
    r # s => \/ pc[r] = "released" \/ pc[s] = "released"
             \/ StaleRelease(ask[r]) \/ StaleRelease(ask[s])

\* Across expiries, takeovers, purges and late writers a stored response
\* answers the very request that claimed the row: it is the claimant's, or
\* that of an identical request which outlived its window or lost its claim
\* to the release of one that did.  A late writer never reaches the claim of
\* another request.
ResponseOfSameRequest ==
  \A k \in Key : row[k] # NoRow /\ row[k].response # None =>
    \/ row[k].response = row[k].by
    \/ /\ ask[row[k].response] = ask[row[k].by]
       /\ row[k].response \in outlived \/ StaleRelease(ask[row[k].by])

\* What the middleware's docstring says: a writer that outlived its window
\* never writes into a successor's epoch.
ResponseOfOwnEpoch ==
  \A k \in Key : row[k] # NoRow /\ row[k].response # None =>
    row[k].response = row[k].by

\* A replay returns the answer to the very same request: same key, same hash,
\* and an answer the producer's client was given.
ReplayIsSameRequest ==
  \A r \in Request : pc[r] = "replayed" =>
    /\ replay[r] # None
    /\ ask[replay[r]] = ask[r]
    /\ pc[replay[r]] = "done"
=============================================================================
