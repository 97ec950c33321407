------------------------------ MODULE DeskProofs ------------------------------
(***************************************************************************)
(* Proofs about what stands between a person and the books: idempotency    *)
(* keys, staff, the members register and both kinds of sign-in; for any    *)
(* people, keys, requests and number of concurrent sessions.               *)
(*                                                                         *)
(* Idempotency.  The invariant says who owns a claim row.  An unfinished   *)
(* request whose window lasts owns the live row of its key, and an effect  *)
(* not reported as failed is protected by the live row of the request that *)
(* made it, unless a request for the same key and hash outlived its window *)
(* and released: that DELETE may have hit the claim of a successor.  A row *)
(* is always for what its claimant asked, so the hash pins a late writer   *)
(* to claims of its own request.                                           *)
(*                                                                         *)
(* Staff.  A change is live while its target's row is the one its caller   *)
(* read and the target is an active administrator: only a live change can  *)
(* remove one.  The target was then an administrator when the change       *)
(* began, so the change locks it; and of two live changes, the one that    *)
(* began later locks the target of the other too.  So no two live changes  *)
(* are past their locks together, and the second administrator that one of *)
(* them counted is still there when it writes.                             *)
(*                                                                         *)
(* Register.  An edit may be shown an old version and read a newer row,    *)
(* but never the other way round, and a row's version only grows; so when  *)
(* the version of an edit is that of the row, what it read is the row as   *)
(* it is.  Values are never above their row's version, so an edit really   *)
(* changes the fields it names.                                            *)
(*                                                                         *)
(* Sign-in.  What a request has read of a challenge, a code or a token     *)
(* still holds when it writes, because the row it stands on is its own; a  *)
(* logout, which owns none, revokes only rows that nobody rotates.  The    *)
(* usable token of a family is its last one, so the token a rotation       *)
(* issues is a row nobody has seen; and a family gets its first token from *)
(* a challenge that was pending, which it then is no more.                 *)
(***************************************************************************)
EXTENDS Idempotency, Staff, Register, Sessions, MemberSessions, SetLemmas, TLAPS

-----------------------------------------------------------------------------
(* Idempotency keys.                                                       *)

\* An unfinished request whose window lasts owns its claim row, unless the
\* release of an outlived twin deleted it; only such a twin answers for it.
ActiveOwns ==
  \A r \in Request : Active(r) /\ r \notin outlived =>
    \/ StaleRelease(ask[r])
    \/ /\ row[ask[r].key] \in Row
       /\ row[ask[r].key].by = r
       /\ row[ask[r].key].live
       /\ row[ask[r].key].response = None \/ row[ask[r].key].response \in outlived

\* An effect not reported as failed keeps its key claimed, in its own name,
\* until the window ends or a stale release deletes the claim.
EffectsGuarded ==
  \A k \in Key : \A r \in effects[k] :
    /\ ask[r].key = k
    /\ pc[r] \notin {"arrived", "running"}
    /\ \/ pc[r] = "released"
       \/ StaleRelease(ask[r])
       \/ row[k] \in Row /\ row[k].by = r /\ row[k].live

\* A row is for what its claimant asked.
RowOfClaimant ==
  \A k \in Key : row[k] \in Row => ask[row[k].by] = [key |-> k, hash |-> row[k].hash]

\* What is stored was answered, to what the claimant asked.
StoredIsAnswered ==
  \A k \in Key : row[k] \in Row /\ row[k].response # None =>
    /\ pc[row[k].response] = "done"
    /\ ask[row[k].response] = ask[row[k].by]

IdempotencyInv ==
  /\ TypeOK
  /\ ActiveOwns
  /\ EffectsGuarded
  /\ RowOfClaimant
  /\ StoredIsAnswered
  /\ ResponseOfSameRequest
  /\ ReplayIsSameRequest

\* The two kinds of row cannot be confused.
LEMMA RowShape ==
  /\ NoRow \notin Row
  /\ NoRow.live = FALSE
  BY DEF NoRow, Row

\* A stale release is never undone: the end of a request is final.
LEMMA StaleReleaseStays ==
  ASSUME TypeOK, ask' = ask, outlived \subseteq outlived',
         \A x \in Request : pc[x] = "released" => pc'[x] = "released"
  PROVE  \A s \in Request : StaleRelease(ask[s]) => StaleRelease(ask[s])'
  BY DEF TypeOK, StaleRelease

LEMMA IdempotencyInitInd == Init => IdempotencyInv
  BY RowShape DEF Init, IdempotencyInv, TypeOK, ActiveOwns, EffectsGuarded, RowOfClaimant,
     StoredIsAnswered, ResponseOfSameRequest, ReplayIsSameRequest, PC, Active

LEMMA ClaimFreshInd ==
  ASSUME IdempotencyInv, NEW r \in Request, ClaimFresh(r) PROVE IdempotencyInv'
<1> DEFINE k == ask[r].key
           new == [hash |-> ask[r].hash, response |-> None, live |-> TRUE, by |-> r]
<1>1. k \in Key /\ ask[r].hash \in Hash /\ new \in Row /\ ask[r] = [key |-> k, hash |-> new.hash]
  BY DEF IdempotencyInv, TypeOK, Row
<1>2. /\ pc[r] = "arrived"
      /\ ~row[k].live
      /\ row' = [row EXCEPT ![k] = new]
      /\ pc' = [pc EXCEPT ![r] = "running"]
      /\ UNCHANGED <<ask, replay, outlived, effects>>
  BY DEF ClaimFresh, Claimable
<1>3. row'[k] = new /\ \A j \in Key : j # k => row'[j] = row[j]
  BY <1>1, <1>2 DEF IdempotencyInv, TypeOK
<1>4. pc'[r] = "running" /\ \A s \in Request : s # r => pc'[s] = pc[s]
  BY <1>2 DEF IdempotencyInv, TypeOK
<1>5. /\ new.hash = ask[r].hash /\ new.response = None
      /\ new.live = TRUE /\ new.by = r
  OBVIOUS
<1> HIDE DEF new, k
<1>6. TypeOK'
  BY <1>1, <1>2 DEF IdempotencyInv, TypeOK, PC
<1>st. \A s \in Request : StaleRelease(ask[s]) => StaleRelease(ask[s])'
  BY <1>2, <1>4, StaleReleaseStays DEF IdempotencyInv
<1>7. ActiveOwns'
  <2> SUFFICES ASSUME NEW s \in Request, Active(s)', s \notin outlived, ~StaleRelease(ask[s])'
               PROVE  /\ row'[ask[s].key] \in Row /\ row'[ask[s].key].by = s
                      /\ row'[ask[s].key].live
                      /\ row'[ask[s].key].response = None \/ row'[ask[s].key].response \in outlived
    BY <1>2 DEF ActiveOwns
  <2>1. CASE s = r
    BY <1>1, <1>3, <1>5, <2>1 DEF k
  <2>2. CASE s # r
    <3>1. Active(s) /\ ask[s].key \in Key
      BY <1>4, <2>2 DEF Active, IdempotencyInv, TypeOK
    <3>2. /\ row[ask[s].key] \in Row /\ row[ask[s].key].by = s /\ row[ask[s].key].live
          /\ row[ask[s].key].response = None \/ row[ask[s].key].response \in outlived
      BY <1>st, <3>1 DEF IdempotencyInv, ActiveOwns
    <3> QED BY <1>2, <1>3, <3>1, <3>2
  <2> QED BY <2>1, <2>2
<1>8. EffectsGuarded'
  <2> SUFFICES ASSUME NEW j \in Key, NEW s \in effects[j]
               PROVE  /\ ask[s].key = j
                      /\ pc'[s] \notin {"arrived", "running"}
                      /\ \/ pc'[s] = "released"
                         \/ StaleRelease(ask[s])'
                         \/ row'[j] \in Row /\ row'[j].by = s /\ row'[j].live
    BY <1>2 DEF EffectsGuarded
  <2>1. s \in Request /\ s # r
    BY <1>2 DEF IdempotencyInv, TypeOK, EffectsGuarded
  <2>2. pc'[s] = pc[s]
    BY <1>4, <2>1
  <2> QED BY <1>2, <1>3, <1>st, <2>1, <2>2 DEF IdempotencyInv, EffectsGuarded
<1>9. RowOfClaimant'
  BY <1>1, <1>2, <1>3, <1>5 DEF IdempotencyInv, TypeOK, RowOfClaimant
<1>10. StoredIsAnswered'
  BY <1>1, <1>2, <1>3, <1>4, <1>5 DEF IdempotencyInv, TypeOK, StoredIsAnswered, Row
<1>11. ResponseOfSameRequest'
  BY <1>1, <1>2, <1>3, <1>5, <1>st DEF IdempotencyInv, TypeOK, ResponseOfSameRequest, Row
<1>12. ReplayIsSameRequest'
  BY <1>2, <1>4 DEF IdempotencyInv, TypeOK, ReplayIsSameRequest
<1> QED BY <1>6, <1>7, <1>8, <1>9, <1>10, <1>11, <1>12 DEF IdempotencyInv

\* A step of one request that touches no row keeps what is said of rows.
LEMMA RowsUntouched ==
  ASSUME IdempotencyInv, UNCHANGED <<ask, row, outlived>>,
         \A s \in Request : pc[s] \in {"released", "done"} => pc'[s] = pc[s]
  PROVE  RowOfClaimant' /\ StoredIsAnswered' /\ ResponseOfSameRequest'
<1>1. \A s \in Request : StaleRelease(ask[s]) => StaleRelease(ask[s])'
  BY StaleReleaseStays DEF IdempotencyInv
<1>2. RowOfClaimant'
  BY DEF IdempotencyInv, RowOfClaimant
<1>3. StoredIsAnswered'
  BY DEF IdempotencyInv, TypeOK, StoredIsAnswered, Row
<1>4. ResponseOfSameRequest'
  BY <1>1 DEF IdempotencyInv, TypeOK, ResponseOfSameRequest, Row
<1> QED BY <1>2, <1>3, <1>4

LEMMA ClaimRefusedInd ==
  ASSUME IdempotencyInv, NEW r \in Request, ClaimRefused(r) PROVE IdempotencyInv'
<1> DEFINE k == ask[r].key
<1>1. k \in Key /\ row[k] \in Row
  BY RowShape DEF IdempotencyInv, TypeOK, ClaimRefused
<1>2. UNCHANGED <<ask, row, outlived, effects>> /\ pc[r] = "arrived"
  BY DEF ClaimRefused
<1>3. PICK end \in {"replayed", "conflict"} : pc' = [pc EXCEPT ![r] = end]
  BY DEF ClaimRefused
<1>4. pc'[r] = end /\ \A s \in Request : s # r => pc'[s] = pc[s]
  BY <1>3 DEF IdempotencyInv, TypeOK
<1>5. \A s \in Request : StaleRelease(ask[s]) => StaleRelease(ask[s])'
  BY <1>2, <1>4, StaleReleaseStays DEF IdempotencyInv
<1>6. TypeOK'
  BY <1>1, <1>2, <1>3 DEF IdempotencyInv, TypeOK, PC, ClaimRefused, Row
<1>7. ActiveOwns'
  BY <1>2, <1>4, <1>5 DEF IdempotencyInv, ActiveOwns, Active
<1>8. EffectsGuarded'
  BY <1>2, <1>4, <1>5 DEF IdempotencyInv, TypeOK, EffectsGuarded
<1>9. RowOfClaimant' /\ StoredIsAnswered' /\ ResponseOfSameRequest'
  BY <1>2, <1>4, RowsUntouched
<1>10. ReplayIsSameRequest'
  <2>1. CASE Replayable(r, k) /\ pc' = [pc EXCEPT ![r] = "replayed"]
           /\ replay' = [replay EXCEPT ![r] = row[k].response]
    <3>1. row[k].response # None /\ row[k].hash = ask[r].hash
      BY <2>1 DEF Replayable
    <3>2. /\ row[k].response \in Request /\ pc[row[k].response] = "done"
          /\ ask[row[k].response] = [key |-> k, hash |-> row[k].hash]
      BY <1>1, <3>1 DEF IdempotencyInv, StoredIsAnswered, RowOfClaimant, Row
    <3>3. ask[row[k].response] = ask[r]
      BY <3>1, <3>2 DEF IdempotencyInv, TypeOK
    <3>4. \A s \in Request : replay'[s] = IF s = r THEN row[k].response ELSE replay[s]
      BY <2>1 DEF IdempotencyInv, TypeOK
    <3> HIDE DEF k
    <3> QED BY <1>2, <1>4, <3>1, <3>2, <3>3, <3>4 DEF IdempotencyInv, TypeOK, ReplayIsSameRequest
  <2>2. CASE pc' = [pc EXCEPT ![r] = "conflict"] /\ UNCHANGED replay
    <3>1. pc'[r] = "conflict"
      BY <2>2 DEF IdempotencyInv, TypeOK
    <3> QED BY <1>2, <1>4, <2>2, <3>1 DEF IdempotencyInv, TypeOK, ReplayIsSameRequest
  <2> QED BY <2>1, <2>2 DEF ClaimRefused
<1> QED BY <1>6, <1>7, <1>8, <1>9, <1>10 DEF IdempotencyInv

LEMMA HandleInd ==
  ASSUME IdempotencyInv, NEW r \in Request, Handle(r) PROVE IdempotencyInv'
<1> DEFINE k == ask[r].key
<1>1. PICK effect \in BOOLEAN, end \in {"answered", "failed"} :
        /\ pc' = [pc EXCEPT ![r] = end]
        /\ effects' = [effects EXCEPT ![k] =
                         IF effect /\ r \notin outlived THEN @ \cup {r} ELSE @]
  BY DEF Handle
<1>2. pc[r] = "running" /\ UNCHANGED <<ask, row, replay, outlived>> /\ k \in Key
  BY DEF Handle, IdempotencyInv, TypeOK
<1>3. pc'[r] = end /\ \A s \in Request : s # r => pc'[s] = pc[s]
  BY <1>1 DEF IdempotencyInv, TypeOK
<1>st. \A s \in Request : StaleRelease(ask[s]) => StaleRelease(ask[s])'
  BY <1>2, <1>3, StaleReleaseStays DEF IdempotencyInv
<1>4. r \notin outlived /\ ~StaleRelease(ask[r]) =>
        row[k] \in Row /\ row[k].by = r /\ row[k].live
  BY <1>2 DEF IdempotencyInv, ActiveOwns, Active
<1> HIDE DEF k
<1>5. \A j \in Key : \A s \in effects'[j] :
        s \in effects[j] \/ (j = k /\ s = r /\ r \notin outlived)
  BY <1>1, <1>2 DEF IdempotencyInv, TypeOK
<1>6. TypeOK'
  BY <1>1, <1>2 DEF IdempotencyInv, TypeOK, PC
<1>7. ActiveOwns'
  BY <1>2, <1>3, <1>st DEF IdempotencyInv, ActiveOwns, Active
<1>8. RowOfClaimant' /\ StoredIsAnswered' /\ ResponseOfSameRequest'
  BY <1>2, <1>3, RowsUntouched
<1>9. ReplayIsSameRequest'
  BY <1>2, <1>3 DEF IdempotencyInv, TypeOK, ReplayIsSameRequest
<1>10. EffectsGuarded'
  <2> SUFFICES ASSUME NEW j \in Key, NEW s \in effects'[j]
               PROVE  /\ ask[s].key = j
                      /\ pc'[s] \notin {"arrived", "running"}
                      /\ \/ pc'[s] = "released"
                         \/ StaleRelease(ask[s])'
                         \/ row[j] \in Row /\ row[j].by = s /\ row[j].live
    BY <1>2 DEF EffectsGuarded
  <2>1. CASE s \in effects[j]
    <3>1. s \in Request /\ s # r
      BY <1>2, <2>1 DEF IdempotencyInv, TypeOK, EffectsGuarded
    <3> QED BY <1>3, <1>st, <2>1, <3>1 DEF IdempotencyInv, EffectsGuarded
  <2>2. CASE j = k /\ s = r /\ r \notin outlived
    BY <1>3, <1>4, <1>st, <2>2 DEF k
  <2> QED BY <1>5, <2>1, <2>2
<1> QED BY <1>6, <1>7, <1>8, <1>9, <1>10 DEF IdempotencyInv

\* A recording leaves everything as it is unless its row still matches; then
\* the row was claimed for the same request, by itself or in its stead.
LEMMA PinnedOwner ==
  ASSUME IdempotencyInv, NEW r \in Request, Active(r), Pinned(r)
  PROVE  /\ row[ask[r].key] \in Row
         /\ ask[row[ask[r].key].by] = ask[r]
         /\ row[ask[r].key].by = r \/ r \in outlived \/ StaleRelease(ask[r])
<1>1. ask[r].key \in Key /\ ask[r] = [key |-> ask[r].key, hash |-> ask[r].hash]
  BY DEF IdempotencyInv, TypeOK
<1>2. row[ask[r].key] \in Row /\ row[ask[r].key].hash = ask[r].hash
  BY <1>1 DEF IdempotencyInv, TypeOK, Pinned
<1>3. ask[row[ask[r].key].by] = ask[r]
  BY <1>1, <1>2 DEF IdempotencyInv, RowOfClaimant
<1>4. row[ask[r].key].by = r \/ r \in outlived \/ StaleRelease(ask[r])
  BY DEF IdempotencyInv, ActiveOwns
<1> QED BY <1>2, <1>3, <1>4

LEMMA StoreInd ==
  ASSUME IdempotencyInv, NEW r \in Request, Store(r) PROVE IdempotencyInv'
<1> DEFINE k == ask[r].key
<1>1. k \in Key /\ pc[r] = "answered" /\ Active(r) /\ UNCHANGED <<ask, replay, outlived, effects>>
  BY DEF Store, IdempotencyInv, TypeOK, Active
<1>2. pc' = [pc EXCEPT ![r] = "done"] /\ pc'[r] = "done"
      /\ \A s \in Request : s # r => pc'[s] = pc[s]
  BY DEF Store, IdempotencyInv, TypeOK
<1>st. \A s \in Request : StaleRelease(ask[s]) => StaleRelease(ask[s])'
  BY <1>1, <1>2, StaleReleaseStays DEF IdempotencyInv
<1>3. ReplayIsSameRequest'
  BY <1>1, <1>2 DEF IdempotencyInv, TypeOK, ReplayIsSameRequest
<1>4. CASE ~Pinned(r)
  <2>1. row' = row
    BY <1>4 DEF Store
  <2>2. TypeOK'
    BY <1>1, <1>2, <2>1 DEF IdempotencyInv, TypeOK, PC
  <2>3. ActiveOwns'
    BY <1>1, <1>2, <1>st, <2>1 DEF IdempotencyInv, ActiveOwns, Active
  <2>4. EffectsGuarded'
    BY <1>1, <1>2, <1>st, <2>1 DEF IdempotencyInv, TypeOK, EffectsGuarded
  <2>5. RowOfClaimant' /\ StoredIsAnswered' /\ ResponseOfSameRequest'
    BY <1>1, <1>2, <2>1, RowsUntouched
  <2> QED BY <1>3, <2>2, <2>3, <2>4, <2>5 DEF IdempotencyInv
<1>5. CASE Pinned(r)
  <2>1. /\ row[k] \in Row /\ ask[row[k].by] = ask[r] /\ row[k].response = None
        /\ row[k].by = r \/ r \in outlived \/ StaleRelease(ask[r])
    BY <1>1, <1>5, PinnedOwner DEF Pinned
  <2>2. row' = [row EXCEPT ![k].response = r]
    BY <1>5 DEF Store
  <2> HIDE DEF k
  <2>3. /\ row'[k] \in Row /\ row'[k].by = row[k].by /\ row'[k].live = row[k].live
        /\ row'[k].hash = row[k].hash /\ row'[k].response = r
        /\ \A j \in Key : j # k => row'[j] = row[j]
    BY <1>1, <2>1, <2>2 DEF IdempotencyInv, TypeOK, Row
  <2>4. TypeOK'
    BY <1>1, <1>2, <2>2, <2>3 DEF IdempotencyInv, TypeOK, PC
  <2>5. ActiveOwns'
    <3> SUFFICES ASSUME NEW s \in Request, Active(s)', s \notin outlived, ~StaleRelease(ask[s])'
                 PROVE  /\ row'[ask[s].key] \in Row /\ row'[ask[s].key].by = s
                        /\ row'[ask[s].key].live
                        /\ \/ row'[ask[s].key].response = None
                           \/ row'[ask[s].key].response \in outlived
      BY <1>1 DEF ActiveOwns
    <3>1. s # r /\ Active(s) /\ ask[s].key \in Key /\ ~StaleRelease(ask[s])
      BY <1>2, <1>st DEF Active, IdempotencyInv, TypeOK
    <3>2. /\ row[ask[s].key] \in Row /\ row[ask[s].key].by = s /\ row[ask[s].key].live
          /\ row[ask[s].key].response = None \/ row[ask[s].key].response \in outlived
      BY <3>1 DEF IdempotencyInv, ActiveOwns
    <3>3. CASE ask[s].key = k
      <4>1. ask[s] = ask[r] /\ row[k].by # r
        BY <2>1, <3>1, <3>2, <3>3
      <4>2. r \in outlived
        BY <2>1, <3>1, <4>1
      <4> QED BY <2>3, <3>2, <3>3, <4>2
    <3>4. CASE ask[s].key # k
      BY <2>3, <3>1, <3>2, <3>4
    <3> QED BY <3>3, <3>4
  <2>6. EffectsGuarded'
    <3> SUFFICES ASSUME NEW j \in Key, NEW s \in effects[j]
                 PROVE  /\ ask[s].key = j
                        /\ pc'[s] \notin {"arrived", "running"}
                        /\ \/ pc'[s] = "released"
                           \/ StaleRelease(ask[s])'
                           \/ row'[j] \in Row /\ row'[j].by = s /\ row'[j].live
      BY <1>1 DEF EffectsGuarded
    <3>1. s \in Request /\ ask[s].key = j /\ pc[s] \notin {"arrived", "running"}
          /\ \/ pc[s] = "released" \/ StaleRelease(ask[s])
             \/ row[j] \in Row /\ row[j].by = s /\ row[j].live
      BY DEF IdempotencyInv, TypeOK, EffectsGuarded
    <3>2. row[j] \in Row => row'[j] \in Row /\ row'[j].by = row[j].by /\ row'[j].live = row[j].live
      BY <2>3
    <3>3. pc'[s] \notin {"arrived", "running"} /\ (pc[s] = "released" => pc'[s] = "released")
      BY <1>1, <1>2, <3>1
    <3> QED BY <1>st, <3>1, <3>2, <3>3
  <2>7. RowOfClaimant'
    BY <1>1, <2>1, <2>3 DEF IdempotencyInv, TypeOK, RowOfClaimant
  <2>8. StoredIsAnswered'
    <3> SUFFICES ASSUME NEW j \in Key, row'[j] \in Row, row'[j].response # None
                 PROVE  /\ pc'[row'[j].response] = "done"
                        /\ ask[row'[j].response] = ask[row'[j].by]
      BY <1>1 DEF StoredIsAnswered
    <3>1. CASE j = k
      BY <1>2, <2>1, <2>3, <3>1
    <3>2. CASE j # k
      BY <1>1, <1>2, <2>3, <3>2 DEF IdempotencyInv, TypeOK, StoredIsAnswered, Row
    <3> QED BY <3>1, <3>2
  <2>9. ResponseOfSameRequest'
    <3> SUFFICES ASSUME NEW j \in Key, row'[j] # NoRow, row'[j].response # None,
                        row'[j].response # row'[j].by
                 PROVE  /\ ask[row'[j].response] = ask[row'[j].by]
                        /\ row'[j].response \in outlived \/ StaleRelease(ask[row[j].by])'
      BY <1>1 DEF ResponseOfSameRequest
    <3>1. CASE j = k
      <4>1. r \in outlived \/ StaleRelease(ask[r])'
        BY <1>st, <2>1, <2>3, <3>1
      <4>2. ask[row'[j].by] = ask[r] /\ row'[j].response = r
        BY <2>1, <2>3, <3>1
      <4>3. StaleRelease(ask[row[j].by])' <=> StaleRelease(ask[r])'
        BY <1>1, <4>2 DEF StaleRelease
      <4> QED BY <4>1, <4>2, <4>3
    <3>2. CASE j # k
      <4>1. row'[j] = row[j] /\ row[j] \in Row
        BY <2>3, <3>2 DEF IdempotencyInv, TypeOK
      <4>2. row[j].by \in Request
        BY <4>1 DEF Row
      <4>3. /\ ask[row[j].response] = ask[row[j].by]
            /\ row[j].response \in outlived \/ StaleRelease(ask[row[j].by])
        BY <4>1 DEF IdempotencyInv, ResponseOfSameRequest
      <4>4. StaleRelease(ask[row[j].by]) => StaleRelease(ask[row[j].by])'
        BY <1>1, <1>st, <4>1, <4>2 DEF StaleRelease
      <4> QED BY <4>1, <4>3, <4>4
    <3> QED BY <3>1, <3>2
  <2> QED BY <1>3, <2>4, <2>5, <2>6, <2>7, <2>8, <2>9 DEF IdempotencyInv
<1> QED BY <1>4, <1>5

LEMMA ReleaseInd ==
  ASSUME IdempotencyInv, NEW r \in Request, Release(r) PROVE IdempotencyInv'
<1> DEFINE k == ask[r].key
<1>1. k \in Key /\ pc[r] = "failed" /\ Active(r) /\ UNCHANGED <<ask, replay, outlived, effects>>
  BY DEF Release, IdempotencyInv, TypeOK, Active
<1>2. pc' = [pc EXCEPT ![r] = "released"] /\ pc'[r] = "released"
      /\ \A s \in Request : s # r => pc'[s] = pc[s]
  BY DEF Release, IdempotencyInv, TypeOK
<1>st. \A s \in Request : StaleRelease(ask[s]) => StaleRelease(ask[s])'
  BY <1>1, <1>2, StaleReleaseStays DEF IdempotencyInv
<1>3. ReplayIsSameRequest'
  BY <1>1, <1>2 DEF IdempotencyInv, TypeOK, ReplayIsSameRequest
<1>4. CASE ~Pinned(r)
  <2>1. row' = row
    BY <1>4 DEF Release
  <2>2. TypeOK'
    BY <1>1, <1>2, <2>1 DEF IdempotencyInv, TypeOK, PC
  <2>3. ActiveOwns'
    BY <1>1, <1>2, <1>st, <2>1 DEF IdempotencyInv, ActiveOwns, Active
  <2>4. EffectsGuarded'
    BY <1>1, <1>2, <1>st, <2>1 DEF IdempotencyInv, TypeOK, EffectsGuarded
  <2>5. RowOfClaimant' /\ StoredIsAnswered' /\ ResponseOfSameRequest'
    BY <1>1, <1>2, <2>1, RowsUntouched
  <2> QED BY <1>3, <2>2, <2>3, <2>4, <2>5 DEF IdempotencyInv
<1>5. CASE Pinned(r)
  <2>1. /\ row[k] \in Row /\ ask[row[k].by] = ask[r]
        /\ row[k].by = r \/ r \in outlived \/ StaleRelease(ask[r])
    BY <1>1, <1>5, PinnedOwner
  <2>2. row' = [row EXCEPT ![k] = NoRow]
    BY <1>5 DEF Release
  <2>3. row'[k] = NoRow /\ \A j \in Key : j # k => row'[j] = row[j]
    BY <1>1, <2>2 DEF IdempotencyInv, TypeOK
  <2>4. r \in outlived => StaleRelease(ask[r])'
    BY <1>1, <1>2 DEF StaleRelease
  \* Whoever owned the deleted claim is the releaser or has lost it to a twin.
  <2>5. \A s \in Request : row[k].by = s => s = r \/ StaleRelease(ask[s])'
    <3> SUFFICES ASSUME NEW s \in Request, row[k].by = s, s # r PROVE StaleRelease(ask[s])'
      OBVIOUS
    <3>1. ask[s] = ask[r] /\ (r \in outlived \/ StaleRelease(ask[r]))
      BY <2>1
    <3>2. StaleRelease(ask[r])'
      BY <1>st, <2>4, <3>1
    <3> QED BY <1>1, <3>1, <3>2 DEF StaleRelease
  <2> HIDE DEF k
  <2>6. TypeOK'
    BY <1>1, <1>2, <2>2 DEF IdempotencyInv, TypeOK, PC
  <2>7. ActiveOwns'
    <3> SUFFICES ASSUME NEW s \in Request, Active(s)', s \notin outlived, ~StaleRelease(ask[s])'
                 PROVE  /\ row'[ask[s].key] \in Row /\ row'[ask[s].key].by = s
                        /\ row'[ask[s].key].live
                        /\ \/ row'[ask[s].key].response = None
                           \/ row'[ask[s].key].response \in outlived
      BY <1>1 DEF ActiveOwns
    <3>1. s # r /\ Active(s) /\ ask[s].key \in Key /\ ~StaleRelease(ask[s])
      BY <1>2, <1>st DEF Active, IdempotencyInv, TypeOK
    <3>2. /\ row[ask[s].key] \in Row /\ row[ask[s].key].by = s /\ row[ask[s].key].live
          /\ row[ask[s].key].response = None \/ row[ask[s].key].response \in outlived
      BY <3>1 DEF IdempotencyInv, ActiveOwns
    <3>3. ask[s].key # k
      <4>1. ask[s].key = k => row[k].by = s
        BY <3>2
      <4> QED BY <1>1, <2>5, <3>1, <4>1
    <3> QED BY <2>3, <3>1, <3>2, <3>3
  <2>8. EffectsGuarded'
    <3> SUFFICES ASSUME NEW j \in Key, NEW s \in effects[j]
                 PROVE  /\ ask[s].key = j
                        /\ pc'[s] \notin {"arrived", "running"}
                        /\ \/ pc'[s] = "released"
                           \/ StaleRelease(ask[s])'
                           \/ row'[j] \in Row /\ row'[j].by = s /\ row'[j].live
      BY <1>1 DEF EffectsGuarded
    <3>1. s \in Request /\ ask[s].key = j /\ pc[s] \notin {"arrived", "running"}
          /\ \/ pc[s] = "released" \/ StaleRelease(ask[s])
             \/ row[j] \in Row /\ row[j].by = s /\ row[j].live
      BY DEF IdempotencyInv, TypeOK, EffectsGuarded
    <3>2. pc'[s] \notin {"arrived", "running"} /\ (pc[s] = "released" => pc'[s] = "released")
      BY <1>1, <1>2, <3>1
    <3>3. CASE j = k /\ row[k].by = s
      <4>1. s = r \/ StaleRelease(ask[s])'
        BY <2>5, <3>1, <3>3
      <4> QED BY <1>2, <3>1, <3>2, <4>1
    <3>4. CASE j # k \/ row[k].by # s
      BY <1>st, <2>3, <3>1, <3>2, <3>4
    <3> QED BY <3>3, <3>4
  <2>9. RowOfClaimant'
    BY <1>1, <2>3, RowShape DEF IdempotencyInv, TypeOK, RowOfClaimant
  <2>10. StoredIsAnswered'
    BY <1>1, <1>2, <2>3, RowShape DEF IdempotencyInv, TypeOK, StoredIsAnswered, Row
  <2>11. ResponseOfSameRequest'
    <3> SUFFICES ASSUME NEW j \in Key, row'[j] # NoRow, row'[j].response # None,
                        row'[j].response # row'[j].by
                 PROVE  /\ ask[row'[j].response] = ask[row'[j].by]
                        /\ row'[j].response \in outlived \/ StaleRelease(ask[row[j].by])'
      BY <1>1 DEF ResponseOfSameRequest
    <3>1. row'[j] = row[j] /\ row[j] \in Row
      BY <2>3 DEF IdempotencyInv, TypeOK
    <3>2. row[j].by \in Request
      BY <3>1 DEF Row
    <3>3. /\ ask[row[j].response] = ask[row[j].by]
          /\ row[j].response \in outlived \/ StaleRelease(ask[row[j].by])
      BY <3>1 DEF IdempotencyInv, ResponseOfSameRequest
    <3>4. StaleRelease(ask[row[j].by]) => StaleRelease(ask[row[j].by])'
      BY <1>1, <1>st, <3>1, <3>2 DEF StaleRelease
    <3> QED BY <3>1, <3>3, <3>4
  <2> QED BY <1>3, <2>6, <2>7, <2>8, <2>9, <2>10, <2>11 DEF IdempotencyInv
<1> QED BY <1>4, <1>5

LEMMA CrashInd ==
  ASSUME IdempotencyInv, NEW r \in Request, Crash(r) PROVE IdempotencyInv'
<1>1. Active(r) /\ pc' = [pc EXCEPT ![r] = "crashed"]
      /\ UNCHANGED <<ask, row, replay, outlived, effects>>
  BY DEF Crash
<1>2. pc'[r] = "crashed" /\ \A s \in Request : s # r => pc'[s] = pc[s]
  BY <1>1 DEF IdempotencyInv, TypeOK
<1>3. \A s \in Request : pc[s] \in {"released", "done"} => pc'[s] = pc[s]
  BY <1>1, <1>2 DEF Active
<1>4. \A s \in Request : StaleRelease(ask[s]) => StaleRelease(ask[s])'
  BY <1>1, <1>3, StaleReleaseStays DEF IdempotencyInv
<1>5. RowOfClaimant' /\ StoredIsAnswered' /\ ResponseOfSameRequest'
  BY <1>1, <1>3, RowsUntouched
<1>6. TypeOK'
  BY <1>1 DEF IdempotencyInv, TypeOK, PC
<1>7. ActiveOwns'
  BY <1>1, <1>2, <1>4 DEF IdempotencyInv, ActiveOwns, Active
<1>8. EffectsGuarded'
  BY <1>1, <1>2, <1>3, <1>4 DEF IdempotencyInv, TypeOK, EffectsGuarded
<1>9. ReplayIsSameRequest'
  BY <1>1, <1>2 DEF IdempotencyInv, TypeOK, ReplayIsSameRequest, Active
<1> QED BY <1>5, <1>6, <1>7, <1>8, <1>9 DEF IdempotencyInv

LEMMA ExpireInd ==
  ASSUME IdempotencyInv, NEW k \in Key, Expire(k) PROVE IdempotencyInv'
<1>1. /\ row[k] \in Row
      /\ row' = [row EXCEPT ![k].live = FALSE]
      /\ outlived' = outlived \cup {r \in Request : Active(r) /\ ask[r].key = k}
      /\ effects' = [effects EXCEPT ![k] = {}]
      /\ UNCHANGED <<ask, pc, replay>>
  BY RowShape DEF Expire, IdempotencyInv, TypeOK
<1>2. /\ row'[k] \in Row /\ row'[k].hash = row[k].hash /\ row'[k].by = row[k].by
      /\ row'[k].response = row[k].response
      /\ \A j \in Key : j # k => row'[j] = row[j]
  BY <1>1 DEF IdempotencyInv, TypeOK, Row
<1>3. effects'[k] = {} /\ \A j \in Key : j # k => effects'[j] = effects[j]
  BY <1>1 DEF IdempotencyInv, TypeOK
<1>st. \A s \in Request : StaleRelease(ask[s]) => StaleRelease(ask[s])'
  BY <1>1, StaleReleaseStays DEF IdempotencyInv
<1>4. TypeOK'
  BY <1>1, <1>2 DEF IdempotencyInv, TypeOK
<1>5. ActiveOwns'
  <2> SUFFICES ASSUME NEW s \in Request, Active(s), s \notin outlived', ~StaleRelease(ask[s])'
               PROVE  /\ row'[ask[s].key] \in Row /\ row'[ask[s].key].by = s
                      /\ row'[ask[s].key].live
                      /\ \/ row'[ask[s].key].response = None
                         \/ row'[ask[s].key].response \in outlived'
    BY <1>1 DEF ActiveOwns, Active
  <2>1. ask[s].key # k /\ s \notin outlived /\ ask[s].key \in Key /\ outlived \subseteq outlived'
    BY <1>1 DEF IdempotencyInv, TypeOK
  <2> QED BY <1>2, <1>st, <2>1 DEF IdempotencyInv, ActiveOwns
<1>6. EffectsGuarded'
  BY <1>1, <1>2, <1>3, <1>st DEF IdempotencyInv, TypeOK, EffectsGuarded
<1>7. RowOfClaimant'
  BY <1>1, <1>2 DEF IdempotencyInv, TypeOK, RowOfClaimant
<1>8. StoredIsAnswered'
  BY <1>1, <1>2 DEF IdempotencyInv, TypeOK, StoredIsAnswered
<1>9. ReplayIsSameRequest'
  BY <1>1 DEF IdempotencyInv, TypeOK, ReplayIsSameRequest
<1>10. ResponseOfSameRequest'
  <2> SUFFICES ASSUME NEW j \in Key, row'[j] # NoRow, row'[j].response # None,
                      row'[j].response # row'[j].by
               PROVE  /\ ask[row'[j].response] = ask[row'[j].by]
                      /\ row'[j].response \in outlived' \/ StaleRelease(ask[row[j].by])'
    BY <1>1 DEF ResponseOfSameRequest
  <2>1. row[j] \in Row /\ row'[j].response = row[j].response /\ row'[j].by = row[j].by
    BY <1>1, <1>2 DEF IdempotencyInv, TypeOK
  <2>2. row[j].by \in Request /\ row[j] # NoRow
    BY <2>1, RowShape DEF Row
  <2>3. /\ ask[row[j].response] = ask[row[j].by]
        /\ row[j].response \in outlived \/ StaleRelease(ask[row[j].by])
    BY <2>1, <2>2 DEF IdempotencyInv, ResponseOfSameRequest
  <2>4. StaleRelease(ask[row[j].by]) => StaleRelease(ask[row[j].by])'
    BY <1>1, <1>st, <2>1, <2>2 DEF StaleRelease
  <2> QED BY <1>1, <2>1, <2>3, <2>4
<1> QED BY <1>4, <1>5, <1>6, <1>7, <1>8, <1>9, <1>10 DEF IdempotencyInv

LEMMA PurgeInd ==
  ASSUME IdempotencyInv, NEW K \in SUBSET Key, Purge(K) PROVE IdempotencyInv'
<1>1. /\ \A k \in K : ~row[k].live
      /\ row' = [k \in Key |-> IF k \in K THEN NoRow ELSE row[k]]
      /\ UNCHANGED <<ask, pc, replay, outlived, effects>>
  BY DEF Purge, Reclaimable
<1>2. \A s \in Request : StaleRelease(ask[s]) => StaleRelease(ask[s])'
  BY <1>1, StaleReleaseStays DEF IdempotencyInv
<1>3. TypeOK'
  BY <1>1 DEF IdempotencyInv, TypeOK
<1>4. ActiveOwns'
  BY <1>1, <1>2 DEF IdempotencyInv, TypeOK, ActiveOwns, Active
<1>5. EffectsGuarded'
  BY <1>1, <1>2 DEF IdempotencyInv, TypeOK, EffectsGuarded
<1>6. RowOfClaimant' /\ StoredIsAnswered'
  BY <1>1, RowShape DEF IdempotencyInv, TypeOK, RowOfClaimant, StoredIsAnswered
<1>7. ResponseOfSameRequest'
  BY <1>1 DEF IdempotencyInv, ResponseOfSameRequest, StaleRelease
<1>8. ReplayIsSameRequest'
  BY <1>1 DEF IdempotencyInv, TypeOK, ReplayIsSameRequest
<1> QED BY <1>3, <1>4, <1>5, <1>6, <1>7, <1>8 DEF IdempotencyInv

LEMMA IdempotencyNextInd ==
  ASSUME IdempotencyInv, [Next]_vars PROVE IdempotencyInv'
<1>1. CASE UNCHANGED vars
  BY <1>1 DEF vars, IdempotencyInv, TypeOK, ActiveOwns, Active, EffectsGuarded, RowOfClaimant,
     StoredIsAnswered, ResponseOfSameRequest, ReplayIsSameRequest, StaleRelease
<1> QED BY <1>1, ClaimFreshInd, ClaimRefusedInd, HandleInd, StoreInd, ReleaseInd, CrashInd,
     ExpireInd, PurgeInd DEF Next

\* The ownership invariant, for any number of concurrent retries and with
\* claims expiring whenever they like.
THEOREM IdempotencyInvHolds == Spec => []IdempotencyInv
<1>1. IdempotencyInv /\ [Next]_vars => IdempotencyInv'
  BY IdempotencyNextInd
<1> QED BY IdempotencyInitInd, <1>1, PTL DEF Spec

\* However a client retries, and however late a handler ends, one window of a
\* key sees at most one domain change, besides changes reported as failures
\* and changes whose claim an outlived twin released.
THEOREM OneEffect == Spec => []AtMostOneEffect
<1>1. IdempotencyInv => AtMostOneEffect
  BY DEF IdempotencyInv, TypeOK, EffectsGuarded, AtMostOneEffect
<1> QED BY IdempotencyInvHolds, <1>1, PTL

\* _store never writes the answer to one request into the claim of another,
\* whatever windows have ended meanwhile (the pin on the request hash).
THEOREM SameRequestStored == Spec => []ResponseOfSameRequest
<1>1. IdempotencyInv => ResponseOfSameRequest
  BY DEF IdempotencyInv
<1> QED BY IdempotencyInvHolds, <1>1, PTL

\* A replay is the answer to the same request, already given to its client.
THEOREM SameRequestReplayed == Spec => []ReplayIsSameRequest
<1>1. IdempotencyInv => ReplayIsSameRequest
  BY DEF IdempotencyInv
<1> QED BY IdempotencyInvHolds, <1>1, PTL
-----------------------------------------------------------------------------
(* Staff.                                                                  *)

StaffRow == [exists : BOOLEAN, role : {"admin", "other"},
             status : {"active", "suspended"}, version : Nat]

Begun(s) == change[s].step # "idle"

StaffTyped ==
  /\ user \in [User -> StaffRow]
  /\ DOMAIN change = AdminSession
  /\ \A s \in AdminSession :
       /\ change[s].step \in {"idle", "lock", "check", "write"}
       /\ change[s].step = "idle" => change[s] = NoChange
       /\ Begun(s) => /\ change[s].target \in User
                      /\ change[s].to \in {"active", "suspended", "admin", "other"}
                      /\ change[s].version \in Nat

\* The target exists, and its row only moves on from what the caller read.
TargetRead ==
  \A s \in AdminSession : Begun(s) =>
    /\ user[change[s].target].exists
    /\ change[s].version <= user[change[s].target].version

LocksExclude ==
  \A s, t \in AdminSession : s # t => change[s].held \intersect change[t].held = {}

LiveChange(s) ==
  /\ Begun(s)
  /\ change[s].version = user[change[s].target].version
  /\ change[s].target \in ActiveAdmins

\* What a change holds or has still to lock.
ToHold(s) == change[s].queue \union change[s].held

LiveTargetsLocked ==
  \A s, t \in AdminSession : LiveChange(s) /\ LiveChange(t) =>
    \/ change[s].target \in ToHold(t)
    \/ change[t].target \in ToHold(s)

PastLocks ==
  \A s \in AdminSession : change[s].step \in {"check", "write"} =>
    change[s].queue = {} /\ change[s].target \in change[s].held

\* A live change about to remove its target has another administrator.
AnotherLeft ==
  \A s \in AdminSession :
    change[s].step = "write" /\ LiveChange(s) /\ change[s].to \in {"suspended", "other"} =>
      \E v \in ActiveAdmins : v # change[s].target

StaffInv ==
  /\ StaffTyped /\ TargetRead
  /\ LocksExclude /\ LiveTargetsLocked /\ PastLocks
  /\ AnotherLeft /\ AdminRemains

LEMMA StaffInitInd == StaffInit => StaffInv
<1> SUFFICES ASSUME StaffInit PROVE StaffInv
  OBVIOUS
<1>1. \A s \in AdminSession : change[s] = NoChange /\ change[s].step = "idle" /\ change[s].held = {}
  BY DEF StaffInit, NoChange
<1>2. StaffTyped /\ TargetRead
  BY <1>1 DEF StaffInit, StaffTyped, StaffRow, Begun, TargetRead
<1>3. LocksExclude /\ LiveTargetsLocked /\ PastLocks /\ AnotherLeft
  BY <1>1 DEF LocksExclude, LiveTargetsLocked, LiveChange, Begun, PastLocks, AnotherLeft
<1>4. AdminRemains
  BY StaffAssumption DEF StaffInit, AdminRemains, ActiveAdmins
<1> QED BY <1>2, <1>3, <1>4 DEF StaffInv

\* More than one administrator means another than any given one.
LEMMA TwoAdmins ==
  ASSUME Cardinality(ActiveAdmins) > 1, NEW u PROVE \E v \in ActiveAdmins : v # u
<1> SUFFICES ASSUME ActiveAdmins \subseteq {u} PROVE FALSE
  OBVIOUS
<1>1. CASE ActiveAdmins = {}
  BY <1>1, FS_EmptySet
<1>2. CASE ActiveAdmins = {u}
  BY <1>2, FS_Singleton
<1> QED BY <1>1, <1>2
-----------------------------------------------------------------------------
(* Steps that change a row.                                                *)

RowChanges(u, entry) ==
  /\ user' = [user EXCEPT ![u] = entry]
  /\ entry \in StaffRow /\ entry.exists
  /\ user[u].exists => entry.version = user[u].version + 1

\* A change that is live afterwards was live before, and its target is not
\* the row that changed.
LEMMA LiveBefore ==
  ASSUME StaffInv, NEW u \in User, NEW entry, RowChanges(u, entry),
         NEW s \in AdminSession, change'[s] = change[s], LiveChange(s)'
  PROVE  LiveChange(s) /\ change[s].target # u
<1>1. /\ change[s].target \in User /\ change[s].version \in Nat /\ Begun(s)
      /\ user[change[s].target].exists
      /\ change[s].version <= user[change[s].target].version
      /\ change[s].version = user'[change[s].target].version
      /\ change[s].target \in ActiveAdmins'
  BY DEF StaffInv, StaffTyped, TargetRead, LiveChange, Begun
<1>2. change[s].target # u
  BY <1>1 DEF RowChanges, StaffInv, StaffTyped, StaffRow
<1>3. user'[change[s].target] = user[change[s].target]
  BY <1>1, <1>2 DEF RowChanges, StaffInv, StaffTyped
<1>4. change[s].target \in ActiveAdmins
  BY <1>1, <1>3 DEF ActiveAdmins
<1> QED BY <1>1, <1>2, <1>3, <1>4 DEF LiveChange

\* Every change in progress keeps what it read and locked, but for those that
\* end with the step.
LEMMA RowInd ==
  ASSUME StaffInv, NEW u \in User, NEW entry, RowChanges(u, entry),
         DOMAIN change' = AdminSession,
         \A s \in AdminSession : change'[s] = change[s] \/ change'[s] = NoChange,
         AnotherLeft', AdminRemains'
  PROVE  StaffInv'
<1>1. \A s \in AdminSession : change'[s] = NoChange => change'[s].step = "idle" /\ change'[s].held = {}
  BY DEF NoChange
<1>2. StaffTyped'
  BY <1>1 DEF StaffInv, StaffTyped, RowChanges, Begun
<1>3. TargetRead'
  <2> SUFFICES ASSUME NEW s \in AdminSession, Begun(s)'
               PROVE  user'[change'[s].target].exists /\ change'[s].version <= user'[change'[s].target].version
    BY DEF TargetRead
  <2>1. change'[s] = change[s] /\ Begun(s)
    BY <1>1 DEF Begun
  <2>2. change[s].target \in User /\ change[s].version \in Nat
        /\ user[change[s].target].exists /\ change[s].version <= user[change[s].target].version
    BY <2>1 DEF StaffInv, StaffTyped, TargetRead
  <2>3. CASE change[s].target = u
    BY <2>1, <2>2, <2>3 DEF RowChanges, StaffInv, StaffTyped, StaffRow
  <2>4. CASE change[s].target # u
    BY <2>1, <2>2, <2>4 DEF RowChanges, StaffInv, StaffTyped
  <2> QED BY <2>3, <2>4
<1>4. LocksExclude'
  BY <1>1 DEF StaffInv, LocksExclude
<1>5. PastLocks'
  BY <1>1 DEF StaffInv, PastLocks
<1>6. LiveTargetsLocked'
  <2> SUFFICES ASSUME NEW s \in AdminSession, NEW t \in AdminSession, LiveChange(s)', LiveChange(t)'
               PROVE  change'[s].target \in ToHold(t)' \/ change'[t].target \in ToHold(s)'
    BY DEF LiveTargetsLocked
  <2>1. change'[s] = change[s] /\ change'[t] = change[t]
    BY <1>1 DEF LiveChange, Begun
  <2>2. LiveChange(s) /\ LiveChange(t)
    BY <2>1, LiveBefore
  <2> QED BY <2>1, <2>2 DEF StaffInv, LiveTargetsLocked, ToHold
<1> QED BY <1>2, <1>3, <1>4, <1>5, <1>6 DEF StaffInv

\* A step that removes no administrator.
LEMMA GrowInd ==
  ASSUME StaffInv, NEW u \in User, NEW entry, RowChanges(u, entry), UNCHANGED change,
         u \in ActiveAdmins => u \in ActiveAdmins'
  PROVE  StaffInv'
<1>1. ActiveAdmins \subseteq ActiveAdmins'
  BY DEF RowChanges, StaffInv, StaffTyped, ActiveAdmins
<1>2. AdminRemains'
  BY <1>1 DEF StaffInv, AdminRemains
<1>3. AnotherLeft'
  <2> SUFFICES ASSUME NEW s \in AdminSession, change[s].step = "write", LiveChange(s)',
                      change[s].to \in {"suspended", "other"}
               PROVE  \E v \in ActiveAdmins' : v # change[s].target
    BY DEF AnotherLeft
  <2>1. LiveChange(s)
    BY LiveBefore
  <2> QED BY <1>1, <2>1 DEF StaffInv, AnotherLeft
<1>4. DOMAIN change = AdminSession
  BY DEF StaffInv, StaffTyped
<1> QED BY <1>2, <1>3, <1>4, RowInd

\* Two live changes are never both past their locks.
LEMMA OnePastLocks ==
  ASSUME StaffInv, NEW s \in AdminSession, NEW t \in AdminSession,
         change[s].step = "write", change[t].step = "write", LiveChange(s), LiveChange(t)
  PROVE  s = t
<1>1. change[s].target \in change[s].held /\ change[t].target \in change[t].held
      /\ change[s].queue = {} /\ change[t].queue = {}
  BY DEF StaffInv, PastLocks
<1>2. change[s].target \in change[t].held \/ change[t].target \in change[s].held
  BY <1>1 DEF StaffInv, LiveTargetsLocked, ToHold
<1> QED BY <1>1, <1>2 DEF StaffInv, LocksExclude

LEMMA CreateInd ==
  ASSUME StaffInv, NEW u \in User, NEW role \in {"admin", "other"}, CreateUser(u, role)
  PROVE  StaffInv'
<1> DEFINE entry == [exists |-> TRUE, role |-> role, status |-> "active", version |-> 1]
<1>1. RowChanges(u, entry) /\ UNCHANGED change /\ u \notin ActiveAdmins
  BY DEF CreateUser, RowChanges, StaffRow, ActiveAdmins
<1> QED BY <1>1, GrowInd

LEMMA UpdateInd ==
  ASSUME StaffInv, NEW u \in User, UpdateUser(u) PROVE StaffInv'
<1> DEFINE entry == Revised(u, user[u].role, user[u].status)
<1>1. RowChanges(u, entry) /\ UNCHANGED change
  BY DEF UpdateUser, RowChanges, Revised, StaffRow, StaffInv, StaffTyped
<1>2. user'[u].exists /\ user'[u].role = user[u].role /\ user'[u].status = user[u].status
  BY <1>1 DEF RowChanges, Revised, StaffInv, StaffTyped, StaffRow
<1>3. u \in ActiveAdmins => u \in ActiveAdmins'
  BY <1>2 DEF ActiveAdmins
<1> QED BY <1>1, <1>3, GrowInd

-----------------------------------------------------------------------------
(* Steps of a change that leave the rows alone.                            *)

LEMMA EndInd ==
  ASSUME StaffInv, UNCHANGED user, NEW s \in AdminSession,
         change' = [change EXCEPT ![s] = NoChange]
  PROVE  StaffInv'
<1>1. /\ DOMAIN change' = AdminSession
      /\ change'[s].step = "idle" /\ change'[s].held = {} /\ change'[s] = NoChange
      /\ \A t \in AdminSession \ {s} : change'[t] = change[t]
  BY DEF StaffInv, StaffTyped, NoChange
<1>2. StaffTyped' /\ TargetRead'
  BY <1>1 DEF StaffInv, StaffTyped, TargetRead, Begun
<1>3. LocksExclude' /\ PastLocks'
  BY <1>1 DEF StaffInv, LocksExclude, PastLocks
<1>4. \A t \in AdminSession : LiveChange(t)' => t # s /\ LiveChange(t)
  BY <1>1 DEF LiveChange, Begun, ActiveAdmins
<1>5. LiveTargetsLocked'
  BY <1>1, <1>4 DEF StaffInv, LiveTargetsLocked, ToHold
<1>6. AnotherLeft' /\ AdminRemains'
  BY <1>1, <1>4 DEF StaffInv, AnotherLeft, AdminRemains, ActiveAdmins
<1> QED BY <1>2, <1>3, <1>5, <1>6 DEF StaffInv

\* A change that comes further gives up nothing it is to hold.
LEMMA FurtherInd ==
  ASSUME StaffInv, UNCHANGED user, NEW s \in AdminSession, Begun(s),
         NEW step \in {"lock", "check", "write"}, NEW queue, NEW held,
         change' = [change EXCEPT ![s] = Further(change[s], step, queue, held)],
         ToHold(s) \subseteq queue \union held,
         \A t \in AdminSession \ {s} : held \intersect change[t].held = {},
         step \in {"check", "write"} => queue = {} /\ change[s].target \in held,
         step = "write" /\ LiveChange(s) /\ change[s].to \in {"suspended", "other"} =>
           \E v \in ActiveAdmins : v # change[s].target
  PROVE  StaffInv'
<1>1. /\ DOMAIN change' = AdminSession
      /\ \A t \in AdminSession \ {s} : change'[t] = change[t]
      /\ change'[s].step = step /\ change'[s].queue = queue /\ change'[s].held = held
      /\ change'[s].target = change[s].target /\ change'[s].to = change[s].to
      /\ change'[s].version = change[s].version
  BY DEF StaffInv, StaffTyped, Further
<1>2. StaffTyped' /\ TargetRead'
  BY <1>1 DEF StaffInv, StaffTyped, TargetRead, Begun
<1>3. LocksExclude' /\ PastLocks'
  BY <1>1 DEF StaffInv, LocksExclude, PastLocks
<1>4. ActiveAdmins' = ActiveAdmins
  BY DEF ActiveAdmins
<1>5. \A t \in AdminSession : LiveChange(t)' => LiveChange(t)
  BY <1>1, <1>4 DEF LiveChange, Begun
<1>6. \A t \in AdminSession : ToHold(t) \subseteq ToHold(t)' /\ change'[t].target = change[t].target
  BY <1>1 DEF ToHold
<1>7. LiveTargetsLocked'
  BY <1>5, <1>6 DEF StaffInv, LiveTargetsLocked
<1>8. AnotherLeft' /\ AdminRemains'
  BY <1>1, <1>4, <1>5 DEF StaffInv, AnotherLeft, AdminRemains
<1> QED BY <1>2, <1>3, <1>7, <1>8 DEF StaffInv

\* The new change is to lock every administrator there is: its own target if
\* that is one, and the targets of the live changes before it.
LEMMA BeginChangeInd ==
  ASSUME StaffInv, NEW s \in AdminSession, NEW actor \in User, NEW target \in User,
         NEW to \in {"active", "suspended", "admin", "other"}, BeginChange(s, actor, target, to)
  PROVE  StaffInv'
<1>1. /\ UNCHANGED user /\ change[s] = NoChange /\ user[target].exists
      /\ DOMAIN change' = AdminSession
      /\ \A t \in AdminSession \ {s} : change'[t] = change[t]
      /\ change'[s].step = "lock" /\ change'[s].target = target /\ change'[s].to = to
      /\ change'[s].version = user[target].version
      /\ change'[s].queue = ActiveAdmins /\ change'[s].held = {}
  BY DEF BeginChange, AdminSet, StaffInv, StaffTyped
<1>2. user[target].version \in Nat
  BY DEF StaffInv, StaffTyped, StaffRow
<1>3. StaffTyped' /\ TargetRead'
  BY <1>1, <1>2 DEF StaffInv, StaffTyped, TargetRead, Begun
<1>4. LocksExclude' /\ PastLocks'
  BY <1>1 DEF StaffInv, LocksExclude, PastLocks
<1>5. ActiveAdmins' = ActiveAdmins
  BY <1>1 DEF ActiveAdmins
<1>6. \A t \in AdminSession \ {s} : LiveChange(t)' => LiveChange(t)
  BY <1>1, <1>5 DEF LiveChange, Begun
<1>7. LiveTargetsLocked'
  <2> SUFFICES ASSUME NEW t \in AdminSession, NEW v \in AdminSession, LiveChange(t)', LiveChange(v)'
               PROVE  change'[t].target \in ToHold(v)' \/ change'[v].target \in ToHold(t)'
    BY DEF LiveTargetsLocked
  <2>1. change'[t].target \in ActiveAdmins /\ change'[v].target \in ActiveAdmins
    BY <1>5 DEF LiveChange
  <2>2. CASE t = s \/ v = s
    BY <1>1, <2>1, <2>2 DEF ToHold
  <2>3. CASE t # s /\ v # s
    BY <1>1, <1>6, <2>3 DEF StaffInv, LiveTargetsLocked, ToHold
  <2> QED BY <2>2, <2>3
<1>8. AnotherLeft' /\ AdminRemains'
  BY <1>1, <1>5, <1>6 DEF StaffInv, AnotherLeft, AdminRemains
<1> QED BY <1>3, <1>4, <1>7, <1>8 DEF StaffInv

LEMMA LockAdminInd ==
  ASSUME StaffInv, NEW s \in AdminSession, LockNextAdmin(s) PROVE StaffInv'
<1> DEFINE u == Min(change[s].queue)
           queue == change[s].queue \ {u}
           held == change[s].held \union {u}
<1>1. Begun(s) /\ UNCHANGED user /\ change' = [change EXCEPT ![s] = Further(change[s], "lock", queue, held)]
  BY DEF LockNextAdmin, Begun, StaffInv, StaffTyped
<1>2. \A t \in AdminSession \ {s} : held \intersect change[t].held = {}
  BY DEF LockNextAdmin, HeldByOther, StaffInv, LocksExclude
<1>3. ToHold(s) \subseteq queue \union held
  BY DEF ToHold
<1> HIDE DEF u, queue, held
<1> QED BY <1>1, <1>2, <1>3, FurtherInd

LEMMA LockRowInd ==
  ASSUME StaffInv, NEW s \in AdminSession, LockUserRow(s) PROVE StaffInv'
<1> DEFINE held == change[s].held \union {change[s].target}
<1>1. Begun(s) /\ UNCHANGED user /\ change' = [change EXCEPT ![s] = Further(change[s], "check", {}, held)]
  BY DEF LockUserRow, Begun, StaffInv, StaffTyped
<1>2. \A t \in AdminSession \ {s} : held \intersect change[t].held = {}
  BY DEF LockUserRow, HeldByOther, StaffInv, LocksExclude
<1>3. ToHold(s) \subseteq {} \union held /\ change[s].target \in held
  BY DEF ToHold, LockUserRow
<1> HIDE DEF held
<1> QED BY <1>1, <1>2, <1>3, FurtherInd

LEMMA CheckInd ==
  ASSUME StaffInv, NEW s \in AdminSession, CheckChange(s) PROVE StaffInv'
<1>1. CASE Permitted(change[s]) /\ AdminLeft(change[s])
  <2> DEFINE queue == change[s].queue
             held == change[s].held
  <2>1. queue = {} /\ change[s].target \in held
    BY DEF CheckChange, StaffInv, PastLocks
  <2>2. Begun(s) /\ UNCHANGED user
        /\ change' = [change EXCEPT ![s] = Further(change[s], "write", queue, held)]
    BY <1>1, <2>1 DEF CheckChange, Begun, StaffInv, StaffTyped
  <2>3. \A t \in AdminSession \ {s} : held \intersect change[t].held = {}
    BY DEF StaffInv, LocksExclude
  <2>4. ToHold(s) \subseteq queue \union held
    BY DEF ToHold
  <2>5. ASSUME LiveChange(s), change[s].to \in {"suspended", "other"}
        PROVE  \E v \in ActiveAdmins : v # change[s].target
    <3>1. Reduces(change[s])
      BY <2>5 DEF LiveChange, ActiveAdmins, Reduces
    <3>2. Cardinality(ActiveAdmins) > 1
      BY <1>1, <3>1 DEF AdminLeft
    <3> QED BY <3>2, TwoAdmins
  <2> HIDE DEF queue, held
  <2> QED BY <2>1, <2>2, <2>3, <2>4, <2>5, FurtherInd
<1>2. CASE ~(Permitted(change[s]) /\ AdminLeft(change[s]))
  <2>1. UNCHANGED user /\ change' = [change EXCEPT ![s] = NoChange]
    BY <1>2 DEF CheckChange, StaffInv, StaffTyped
  <2> QED BY <2>1, EndInd
<1> QED BY <1>1, <1>2

\* The write: a live change that removes its target is the only one past its
\* locks, and another administrator was counted.
LEMMA WriteChangeInd ==
  ASSUME StaffInv, NEW s \in AdminSession, WriteChange(s) PROVE StaffInv'
<1> DEFINE c == change[s]
           entry == IF c.to \in {"active", "suspended"}
                  THEN Revised(c.target, user[c.target].role, c.to)
                  ELSE Revised(c.target, c.to, user[c.target].status)
<1>1. c.step = "write" /\ change' = [change EXCEPT ![s] = NoChange]
  BY DEF WriteChange
<1>2. /\ Begun(s) /\ c.target \in User /\ c.to \in {"active", "suspended", "admin", "other"}
      /\ user[c.target] \in StaffRow /\ user[c.target].exists
  BY <1>1 DEF StaffInv, StaffTyped, TargetRead, Begun
<1>3. /\ DOMAIN change' = AdminSession
      /\ change'[s] = NoChange /\ change'[s].step = "idle"
      /\ \A t \in AdminSession \ {s} : change'[t] = change[t]
  BY <1>1 DEF StaffInv, StaffTyped, NoChange
<1>4. CASE user[c.target].version # c.version
  <2>1. UNCHANGED user
    BY <1>4 DEF WriteChange
  <2> QED BY <1>1, <2>1, EndInd
<1>5. CASE user[c.target].version = c.version
  <2>1. user' = [user EXCEPT ![c.target] = entry]
    BY <1>5 DEF WriteChange
  <2>2. /\ entry \in StaffRow /\ entry.exists /\ entry.version = user[c.target].version + 1
        /\ entry.role = user[c.target].role \/ entry.status = user[c.target].status
    BY <1>2 DEF StaffRow, Revised
  <2>3. RowChanges(c.target, entry)
    BY <2>1, <2>2 DEF RowChanges
  <2> HIDE DEF entry
  <2>4. \A u \in User : u # c.target => (u \in ActiveAdmins <=> u \in ActiveAdmins')
    BY <2>1 DEF ActiveAdmins, StaffInv, StaffTyped
  <2>5. \A t \in AdminSession : LiveChange(t)' =>
          t # s /\ LiveChange(t) /\ change[t].target # c.target /\ change'[t] = change[t]
    <3>1. ASSUME NEW t \in AdminSession, LiveChange(t)' PROVE t # s /\ change'[t] = change[t]
      BY <1>3, <3>1 DEF LiveChange, Begun
    <3> QED BY <1>2, <2>3, <3>1, LiveBefore
  <2>6. CASE c.target \in ActiveAdmins /\ c.target \notin ActiveAdmins'
    <3>1. LiveChange(s)
      BY <1>2, <1>5, <2>6 DEF LiveChange
    <3>2. c.to \in {"suspended", "other"}
      BY <1>2, <2>1, <2>6 DEF entry, Revised, ActiveAdmins, StaffInv, StaffTyped, StaffRow
    <3>3. PICK v \in ActiveAdmins : v # c.target
      BY <1>1, <3>1, <3>2 DEF StaffInv, AnotherLeft
    <3>4. AdminRemains'
      BY <2>4, <3>3 DEF AdminRemains, ActiveAdmins
    <3>5. AnotherLeft'
      BY <1>1, <2>5, <3>1, OnePastLocks DEF AnotherLeft
    <3> QED BY <1>2, <1>3, <2>3, <3>4, <3>5, RowInd
  <2>7. CASE c.target \in ActiveAdmins => c.target \in ActiveAdmins'
    <3>1. ActiveAdmins \subseteq ActiveAdmins'
      BY <2>4, <2>7 DEF ActiveAdmins
    <3>2. AdminRemains'
      BY <3>1 DEF StaffInv, AdminRemains
    <3>3. AnotherLeft'
      BY <2>5, <3>1 DEF StaffInv, AnotherLeft
    <3> QED BY <1>2, <1>3, <2>3, <3>2, <3>3, RowInd
  <2> QED BY <2>6, <2>7
<1> QED BY <1>4, <1>5

LEMMA FailsInd ==
  ASSUME StaffInv, NEW s \in AdminSession, ChangeFails(s) PROVE StaffInv'
  BY EndInd DEF ChangeFails

-----------------------------------------------------------------------------

LEMMA StaffStutterInd == StaffInv /\ UNCHANGED staffVars => StaffInv'
  BY DEF staffVars, StaffInv, StaffTyped, TargetRead, LocksExclude, LiveTargetsLocked, PastLocks,
     AnotherLeft, AdminRemains, LiveChange, Begun, ToHold, ActiveAdmins

LEMMA StaffNextInd == StaffInv /\ [StaffNext]_staffVars => StaffInv'
<1> SUFFICES ASSUME StaffInv, [StaffNext]_staffVars PROVE StaffInv'
  OBVIOUS
<1> QED
  BY StaffStutterInd, CreateInd, UpdateInd, BeginChangeInd, LockAdminInd, LockRowInd, CheckInd, WriteChangeInd,
     FailsInd, Zenon DEF StaffNext

\* A tenant is never left without an active administrator, for any users and
\* any number of sessions that suspend, demote, grant and reinstate at once.
THEOREM AdministratorRemains == StaffSpec => []AdminRemains
<1>1. StaffInv => AdminRemains
  BY DEF StaffInv
<1> QED BY StaffInitInd, StaffNextInd, <1>1, PTL DEF StaffSpec

-----------------------------------------------------------------------------
(* The register.                                                           *)

Columns(kind) ==
  CASE kind = "member" -> {"name", "payout", "status"}
    [] kind = "profile" -> {"category", "particulars", "consent"}
    [] kind = "document" -> {"status", "expires"}

\* Statuses are words, all other values numbers up to the row's version.
RowTyped(kind, entry) ==
  \/ entry = NoFile
  \/ /\ entry.version \in Nat \ {0}
     /\ DOMAIN entry.val = Columns(kind)
     /\ \A f \in Columns(kind) \ {"status"} : entry.val[f] \in 0..entry.version

FileTyped ==
  /\ lastNo \in 0..MaxMembers
  /\ DOMAIN file = 1..MaxMembers
  /\ \A m \in 1..MaxMembers : DOMAIN file[m] = File /\ \A kind \in File : RowTyped(kind, file[m][kind])
  /\ DOMAIN edit = Clerk

NoneFiledYet == \A m \in 1..MaxMembers, kind \in File : m > lastNo => file[m][kind] = NoFile

\* What an edit with the row's version has read is the row.
EditReads(e) ==
  /\ e.member \in 1..MaxMembers /\ e.kind \in File /\ e.given \subseteq NamedBy(e.kind)
  /\ e.version \in Nat
  /\ LET entry == file[e.member][e.kind] IN
     /\ entry # NoFile /\ e.version <= entry.version
     /\ e.version = entry.version => e.read = entry.val
  /\ "status" \in e.given => <<e.read.status, e.to>> \in DocumentMoves

EditsRead == \A k \in Clerk : edit[k] = NoEdit \/ EditReads(edit[k])

RegisterInv == FileTyped /\ NoneFiledYet /\ EditsRead

LEMMA RegisterInitInd == RegisterInit => RegisterInv
  BY RegisterAssumption DEF RegisterInit, RegisterInv, FileTyped, RowTyped, NoneFiledYet, EditsRead

-----------------------------------------------------------------------------

\* A row that changes, or comes to be; edits of a row that changed are stale.
RowWritten(m, kind, entry) ==
  /\ file' = [file EXCEPT ![m] = [@ EXCEPT ![kind] = entry]]
  /\ RowTyped(kind, entry) /\ entry # NoFile
  /\ file[m][kind] # NoFile => entry.version > file[m][kind].version

LEMMA Written ==
  ASSUME RegisterInv, NEW m \in 1..MaxMembers, NEW kind \in File, NEW entry, RowWritten(m, kind, entry)
  PROVE  /\ DOMAIN file' = 1..MaxMembers
         /\ \A n \in 1..MaxMembers : DOMAIN file'[n] = File
         /\ \A n \in 1..MaxMembers, other \in File :
              file'[n][other] = IF n = m /\ other = kind THEN entry ELSE file[n][other]
  BY DEF RegisterInv, FileTyped, RowWritten

LEMMA RowWriteInd ==
  ASSUME RegisterInv, NEW m \in 1..MaxMembers, NEW kind \in File, NEW entry, RowWritten(m, kind, entry),
         lastNo' \in 0..MaxMembers, lastNo' >= lastNo, m <= lastNo', DOMAIN edit' = Clerk,
         \A k \in Clerk : edit'[k] = edit[k] \/ edit'[k] = NoEdit
  PROVE  RegisterInv'
<1>1. FileTyped'
  BY Written DEF RegisterInv, FileTyped, RowWritten
<1>2. NoneFiledYet'
  BY Written DEF RegisterInv, NoneFiledYet, FileTyped
<1>3. EditsRead'
  <2> SUFFICES ASSUME NEW k \in Clerk, edit'[k] # NoEdit PROVE EditReads(edit[k])'
    BY DEF EditsRead
  <2> DEFINE e == edit[k]
  <2>1. edit'[k] = e /\ EditReads(e)
    BY DEF RegisterInv, EditsRead
  <2>2. e.member \in 1..MaxMembers /\ e.kind \in File /\ e.version \in Nat
        /\ file[e.member][e.kind] # NoFile /\ e.version <= file[e.member][e.kind].version
    BY <2>1 DEF EditReads
  <2>3. file[e.member][e.kind].version \in Nat
    BY <2>2 DEF RegisterInv, FileTyped, RowTyped
  <2>4. entry.version \in Nat
    BY DEF RowWritten, RowTyped
  <2>5. CASE e.member = m /\ e.kind = kind
    <3>1. file'[e.member][e.kind] = entry
      BY <2>2, <2>5, Written
    <3> HIDE DEF e
    <3>2. entry.version > file[m][kind].version /\ entry # NoFile
      BY <2>2, <2>5 DEF RowWritten
    <3>3. e.version < entry.version
      BY <2>2, <2>3, <2>4, <2>5, <3>2
    <3> QED BY <2>1, <2>2, <2>4, <3>1, <3>2, <3>3 DEF EditReads
  <2>6. CASE ~(e.member = m /\ e.kind = kind)
    <3>1. file'[e.member][e.kind] = file[e.member][e.kind]
      BY <2>2, <2>6, Written
    <3> HIDE DEF e
    <3> QED BY <2>1, <3>1 DEF EditReads
  <2> QED BY <2>5, <2>6
<1> QED BY <1>1, <1>2, <1>3 DEF RegisterInv

\* Steps on the rows alone: one row, no edit.
LEMMA CreateMemberInd == ASSUME RegisterInv, CreateMember PROVE RegisterInv'
<1> DEFINE m == lastNo + 1
           entry == [version |-> 1, val |-> [name |-> 1, payout |-> 1, status |-> "active"]]
<1>1. m \in 1..MaxMembers /\ lastNo' = m /\ lastNo' \in 0..MaxMembers /\ lastNo' >= lastNo
  BY RegisterAssumption DEF CreateMember, RegisterInv, FileTyped
<1>2. file[m]["member"] = NoFile /\ "member" \in File
  BY <1>1 DEF RegisterInv, NoneFiledYet, FileTyped, File
<1>3. RowTyped("member", entry) /\ entry # NoFile
  BY DEF RowTyped, Columns, NoFile
<1>4. RowWritten(m, "member", entry)
  BY <1>2, <1>3 DEF CreateMember, Filed, RowWritten
<1>5. DOMAIN edit' = Clerk /\ \A k \in Clerk : edit'[k] = edit[k]
  BY DEF CreateMember, RegisterInv, FileTyped
<1> HIDE DEF m, entry
<1> QED BY <1>1, <1>2, <1>4, <1>5, RowWriteInd

LEMMA CreateProfileInd ==
  ASSUME RegisterInv, NEW m \in 1..MaxMembers, NEW consent \in BOOLEAN, CreateProfile(m, consent)
  PROVE  RegisterInv'
<1> DEFINE entry == [version |-> 1, val |-> [category |-> 1, particulars |-> 1,
                                           consent |-> IF consent THEN 1 ELSE NotCaptured]]
<1>1. RowTyped("profile", entry) /\ entry # NoFile
  BY DEF RowTyped, Columns, NoFile, NotCaptured
<1>2. RowWritten(m, "profile", entry) /\ "profile" \in File
  BY <1>1 DEF CreateProfile, Filed, RowWritten, File
<1>3. m <= lastNo
  BY DEF CreateProfile, RegisterInv, NoneFiledYet, FileTyped, File
<1>4. /\ DOMAIN edit' = Clerk /\ \A k \in Clerk : edit'[k] = edit[k]
      /\ lastNo' = lastNo /\ lastNo \in 0..MaxMembers
  BY DEF CreateProfile, RegisterInv, FileTyped
<1> HIDE DEF entry
<1> QED BY <1>2, <1>3, <1>4, RowWriteInd

LEMMA CreateDocumentInd ==
  ASSUME RegisterInv, NEW m \in 1..MaxMembers, CreateDocument(m) PROVE RegisterInv'
<1> DEFINE entry == [version |-> 1, val |-> [status |-> "pending", expires |-> 1]]
<1>1. RowTyped("document", entry) /\ entry # NoFile
  BY DEF RowTyped, Columns, NoFile
<1>2. RowWritten(m, "document", entry) /\ "document" \in File
  BY <1>1 DEF CreateDocument, Filed, RowWritten, File
<1>3. m <= lastNo
  BY DEF CreateDocument, RegisterInv, NoneFiledYet, FileTyped, File
<1>4. /\ DOMAIN edit' = Clerk /\ \A k \in Clerk : edit'[k] = edit[k]
      /\ lastNo' = lastNo /\ lastNo \in 0..MaxMembers
  BY DEF CreateDocument, RegisterInv, FileTyped
<1> HIDE DEF entry
<1> QED BY <1>2, <1>3, <1>4, RowWriteInd

LEMMA StatusInd ==
  ASSUME RegisterInv, NEW m \in 1..MaxMembers, NEW to \in {"active", "arrears"}, ChangeMemberStatus(m, to)
  PROVE  RegisterInv'
<1> DEFINE old == file[m]["member"]
           entry == [version |-> old.version + 1, val |-> [old.val EXCEPT !.status = to]]
<1>1. /\ old # NoFile /\ old.version \in Nat \ {0} /\ DOMAIN old.val = Columns("member")
      /\ \A f \in Columns("member") \ {"status"} : old.val[f] \in 0..old.version
      /\ "member" \in File
  BY DEF ChangeMemberStatus, RegisterInv, FileTyped, RowTyped, File
<1>2. RowTyped("member", entry) /\ entry # NoFile /\ entry.version > old.version
  BY <1>1 DEF RowTyped, Columns, NoFile
<1>3. RowWritten(m, "member", entry)
  BY <1>2 DEF ChangeMemberStatus, RowWritten
<1>4. m <= lastNo
  BY <1>1 DEF RegisterInv, NoneFiledYet, FileTyped
<1>5. /\ DOMAIN edit' = Clerk /\ \A k \in Clerk : edit'[k] = edit[k]
      /\ lastNo' = lastNo /\ lastNo \in 0..MaxMembers
  BY DEF ChangeMemberStatus, RegisterInv, FileTyped
<1> HIDE DEF old, entry
<1> QED BY <1>1, <1>3, <1>4, <1>5, RowWriteInd

-----------------------------------------------------------------------------
(* Edits.                                                                  *)

LEMMA BeginEditInd ==
  ASSUME RegisterInv, NEW k \in Clerk, NEW m \in 1..MaxMembers, NEW kind \in File,
         NEW v \in 1..MaxRowVersion, NEW given \in SUBSET NamedBy(kind), NEW to,
         BeginEdit(k, m, kind, given, to, v)
  PROVE  RegisterInv'
<1> DEFINE e == [member |-> m, kind |-> kind, given |-> given, to |-> to, version |-> v,
                 read |-> file[m][kind].val]
<1>1. EditReads(e)
  BY RegisterAssumption DEF BeginEdit, Editable, EditReads
<1>2. edit' = [edit EXCEPT ![k] = e] /\ UNCHANGED <<lastNo, file>>
  BY DEF BeginEdit
<1> HIDE DEF e
<1>3. FileTyped' /\ NoneFiledYet'
  BY <1>2 DEF RegisterInv, FileTyped, NoneFiledYet
<1>4. EditsRead'
  BY <1>1, <1>2 DEF RegisterInv, FileTyped, EditsRead, EditReads
<1> QED BY <1>3, <1>4 DEF RegisterInv

\* The row an edit writes: with its version still that of the row, every
\* column it does not name is as it was.
LEMMA EditedRow ==
  ASSUME RegisterInv, NEW e, EditReads(e), UnchangedSince(e, file[e.member][e.kind])
  PROVE  LET before == file[e.member][e.kind]
             after == Edited(e, before) IN
         /\ RowTyped(e.kind, after) /\ after # NoFile /\ after.version > before.version
         /\ DOMAIN before.val = Columns(e.kind)
         /\ \A f \in Columns(e.kind) :
              /\ f \notin e.given => after.val[f] = before.val[f]
              /\ f \in e.given /\ f # "status" => after.val[f] # before.val[f]
              /\ f \in e.given /\ f = "status" => after.val[f] = e.to
<1> DEFINE before == file[e.member][e.kind]
           after == Edited(e, before)
<1>1. /\ e.member \in 1..MaxMembers /\ e.kind \in File /\ before # NoFile
      /\ e.read = before.val
  BY DEF EditReads, UnchangedSince
<1>2. RowTyped(e.kind, before)
  BY <1>1 DEF RegisterInv, FileTyped
<1>3. /\ before.version \in Nat \ {0} /\ DOMAIN before.val = Columns(e.kind)
      /\ \A f \in Columns(e.kind) \ {"status"} : before.val[f] \in 0..before.version
  BY <1>1, <1>2 DEF RowTyped
<1> HIDE DEF before
<1>4. /\ after.version = before.version + 1 /\ DOMAIN after.val = Columns(e.kind)
      /\ \A f \in Columns(e.kind) : after.val[f] =
           IF f \in e.given THEN ValueGiven(e, f, before.version + 1) ELSE before.val[f]
  BY <1>1, <1>3 DEF Edited, Kept
<1> HIDE DEF after
<1>5. RowTyped(e.kind, after) /\ after # NoFile /\ after.version > before.version
  BY <1>3, <1>4 DEF RowTyped, ValueGiven, NoFile
<1>6. ASSUME NEW f \in Columns(e.kind)
      PROVE  /\ f \notin e.given => after.val[f] = before.val[f]
             /\ f \in e.given /\ f # "status" => after.val[f] # before.val[f]
             /\ f \in e.given /\ f = "status" => after.val[f] = e.to
  BY <1>3, <1>4 DEF ValueGiven
<1> QED BY <1>3, <1>5, <1>6 DEF before, after

LEMMA FinishInd ==
  ASSUME RegisterInv, NEW k \in Clerk, FinishEdit(k) PROVE RegisterInv'
<1> DEFINE e == edit[k]
           before == file[e.member][e.kind]
<1>1. /\ edit' = [edit EXCEPT ![k] = NoEdit] /\ lastNo' = lastNo /\ lastNo \in 0..MaxMembers
      /\ DOMAIN edit' = Clerk /\ \A c \in Clerk : edit'[c] = edit[c] \/ edit'[c] = NoEdit
  BY DEF FinishEdit, RegisterInv, FileTyped
<1>2. EditReads(e)
  BY DEF FinishEdit, RegisterInv, EditsRead
<1>3. e.member \in 1..MaxMembers /\ e.kind \in File /\ before # NoFile
  BY <1>2 DEF EditReads
<1>4. CASE UnchangedSince(e, before) /\ ConsentKept(e, before)
  <2> DEFINE after == Edited(e, before)
  <2>1. RowTyped(e.kind, after) /\ after # NoFile /\ after.version > before.version
    BY <1>2, <1>4, EditedRow
  <2>2. file' = [file EXCEPT ![e.member] = [@ EXCEPT ![e.kind] = after]]
    BY <1>4 DEF FinishEdit
  <2>3. e.member <= lastNo
    BY <1>1, <1>3 DEF RegisterInv, NoneFiledYet
  <2> HIDE DEF after
  <2>4. RowWritten(e.member, e.kind, after)
    BY <2>1, <2>2 DEF RowWritten
  <2> HIDE DEF e
  <2> QED BY <1>1, <1>3, <2>3, <2>4, RowWriteInd
<1>5. CASE ~(UnchangedSince(e, before) /\ ConsentKept(e, before))
  <2>1. UNCHANGED file
    BY <1>5 DEF FinishEdit
  <2>2. FileTyped' /\ NoneFiledYet'
    BY <1>1, <2>1 DEF RegisterInv, FileTyped, NoneFiledYet
  <2>3. EditsRead'
    BY <1>1, <2>1 DEF RegisterInv, EditsRead, EditReads
  <2> QED BY <2>2, <2>3 DEF RegisterInv
<1> QED BY <1>4, <1>5

LEMMA RegisterNextInd == RegisterInv /\ [RegisterNext]_registerVars => RegisterInv'
<1> SUFFICES ASSUME RegisterInv, [RegisterNext]_registerVars PROVE RegisterInv'
  OBVIOUS
<1>1. CASE UNCHANGED registerVars
  BY <1>1 DEF registerVars, RegisterInv, FileTyped, NoneFiledYet, EditsRead, EditReads
<1>2. ASSUME NEW k \in Clerk, NEW m \in 1..MaxMembers, NEW kind \in File, NEW v \in 1..MaxRowVersion,
             NEW given \in (SUBSET NamedBy(kind)) \ {{}}, NEW to, BeginEdit(k, m, kind, given, to, v)
      PROVE  RegisterInv'
  BY <1>2, BeginEditInd
<1> HIDE DEF RegisterInv
<1> QED
  BY <1>1, <1>2, CreateMemberInd, CreateProfileInd, CreateDocumentInd, StatusInd, FinishInd,
     Zenon DEF RegisterNext

-----------------------------------------------------------------------------

LEMMA UntouchedStep ==
  ASSUME NEW m, NEW kind, file'[m][kind] = file[m][kind] PROVE RowStep(m, kind)
  BY DEF RowStep

\* A new row takes the place of none.
LEMMA FiledStep ==
  ASSUME RegisterInv, NEW n \in 1..MaxMembers, NEW other \in File, NEW val, Filed(n, other, val),
         file[n][other] = NoFile, NEW m \in 1..lastNo, NEW kind \in File
  PROVE  RowStep(m, kind)
<1>1. m \in 1..MaxMembers
  BY RegisterAssumption DEF RegisterInv, FileTyped
<1>2. CASE file[m][kind] = NoFile
  BY <1>2 DEF RowStep
<1>3. CASE file[m][kind] # NoFile
  <2>1. file'[m][kind] = file[m][kind]
    BY <1>1, <1>3 DEF Filed, RegisterInv, FileTyped
  <2> QED BY <2>1, UntouchedStep
<1> QED BY <1>2, <1>3

LEMMA StatusStep ==
  ASSUME RegisterInv, NEW n \in 1..MaxMembers, NEW to \in {"active", "arrears"}, ChangeMemberStatus(n, to),
         NEW m \in 1..lastNo, NEW kind \in File
  PROVE  RowStep(m, kind)
<1> DEFINE before == file[n]["member"]
           after == [version |-> before.version + 1, val |-> [before.val EXCEPT !.status = to]]
<1>1. /\ file' = [file EXCEPT ![n] = [@ EXCEPT !["member"] = after]]
      /\ before # NoFile /\ <<before.val.status, to>> \in StatusMoves
  BY DEF ChangeMemberStatus
<1>2. m \in 1..MaxMembers /\ "member" \in File
  BY RegisterAssumption DEF RegisterInv, FileTyped, File
<1>3. CASE m = n /\ kind = "member"
  <2>1. file'[m][kind] = after
    BY <1>1, <1>2, <1>3 DEF RegisterInv, FileTyped
  <2>2. DOMAIN before.val = {"name", "payout", "status"}
    BY <1>1, <1>2 DEF RegisterInv, FileTyped, RowTyped, Columns
  <2>3. before.val["status"] # to
    BY <1>1 DEF StatusMoves
  <2>4. {f \in DOMAIN before.val : after.val[f] # before.val[f]} = {"status"}
    BY <2>2, <2>3
  <2> HIDE DEF after
  <2> QED BY <1>3, <2>1, <2>4 DEF RowStep
<1>4. CASE ~(m = n /\ kind = "member")
  <2>1. file'[m][kind] = file[m][kind]
    BY <1>1, <1>2, <1>4 DEF RegisterInv, FileTyped
  <2> QED BY <2>1, UntouchedStep
<1> QED BY <1>3, <1>4

\* The end of an edit changes exactly what the request named.
LEMMA FinishStep ==
  ASSUME RegisterInv, NEW k \in Clerk, FinishEdit(k), NEW m \in 1..lastNo, NEW kind \in File
  PROVE  RowStep(m, kind)
<1> DEFINE e == edit[k]
           before == file[e.member][e.kind]
           after == Edited(e, before)
<1>1. EditReads(e)
  BY DEF FinishEdit, RegisterInv, EditsRead
<1>2. m \in 1..MaxMembers /\ e.member \in 1..MaxMembers /\ e.kind \in File
  BY <1>1, RegisterAssumption DEF RegisterInv, FileTyped, EditReads
<1>3. CASE e.member = m /\ e.kind = kind /\ UnchangedSince(e, before) /\ ConsentKept(e, before)
  <2>1. file'[m][kind] = after
    BY <1>2, <1>3 DEF FinishEdit, RegisterInv, FileTyped
  <2>2. /\ e.given \subseteq NamedBy(kind) /\ before.val = e.read
        /\ "status" \in e.given => <<e.read.status, e.to>> \in DocumentMoves
    BY <1>1, <1>3 DEF EditReads, UnchangedSince
  <2>3. /\ DOMAIN before.val = Columns(kind)
        /\ \A f \in Columns(kind) :
             /\ f \notin e.given => after.val[f] = before.val[f]
             /\ f \in e.given /\ f # "status" => after.val[f] # before.val[f]
             /\ f \in e.given /\ f = "status" => after.val[f] = e.to
    BY <1>1, <1>3, EditedRow
  <2> HIDE DEF e, before, after
  <2>4. e.given \subseteq Columns(kind)
    BY <2>2 DEF NamedBy, Columns, File
  <2>5. "status" \in e.given => before.val["status"] # e.to
    BY <2>2 DEF DocumentMoves
  <2>6. {f \in DOMAIN before.val : after.val[f] # before.val[f]} = e.given
    BY <2>3, <2>4, <2>5
  <2>7. before = file[m][kind] /\ edit[k].member = m /\ edit[k].kind = kind /\ e = edit[k]
    BY <1>3 DEF e, before
  <2>8. "status" \in e.given /\ kind = "document" =>
          <<before.val.status, after.val.status>> \in DocumentMoves
    BY <2>2, <2>3, <2>4
  <2>9. "consent" \in e.given => before.val.consent = NotCaptured
    BY <1>3 DEF ConsentKept
  <2> QED BY <2>1, <2>6, <2>7, <2>8, <2>9 DEF RowStep
<1>4. CASE ~(e.member = m /\ e.kind = kind /\ UnchangedSince(e, before) /\ ConsentKept(e, before))
  <2>1. file'[m][kind] = file[m][kind]
    BY <1>2, <1>4 DEF FinishEdit, RegisterInv, FileTyped
  <2> QED BY <2>1, UntouchedStep
<1> QED BY <1>3, <1>4

LEMMA NextStep ==
  RegisterInv /\ [RegisterNext]_registerVars => \A m \in 1..lastNo, kind \in File : RowStep(m, kind)
<1> SUFFICES ASSUME RegisterInv, [RegisterNext]_registerVars, NEW m \in 1..lastNo, NEW kind \in File
             PROVE  RowStep(m, kind)
  OBVIOUS
<1>1. CASE UNCHANGED registerVars
  BY <1>1, UntouchedStep DEF registerVars
<1>2. CASE CreateMember
  <2>1. lastNo + 1 \in 1..MaxMembers /\ file[lastNo + 1]["member"] = NoFile /\ "member" \in File
    BY <1>2, RegisterAssumption DEF CreateMember, RegisterInv, FileTyped, NoneFiledYet, File
  <2> QED BY <1>2, <2>1, FiledStep DEF CreateMember
<1>3. ASSUME NEW n \in 1..MaxMembers, NEW consent \in BOOLEAN, CreateProfile(n, consent)
      PROVE  RowStep(m, kind)
  BY <1>3, FiledStep DEF CreateProfile, File
<1>4. ASSUME NEW n \in 1..MaxMembers, CreateDocument(n) PROVE RowStep(m, kind)
  BY <1>4, FiledStep DEF CreateDocument, File
<1>5. ASSUME NEW k \in Clerk, NEW n \in 1..MaxMembers, NEW other \in File, NEW v \in 1..MaxRowVersion,
             NEW given \in (SUBSET NamedBy(other)) \ {{}}, NEW to, BeginEdit(k, n, other, given, to, v)
      PROVE  RowStep(m, kind)
  BY <1>5, UntouchedStep DEF BeginEdit
<1> HIDE DEF RegisterInv
<1> QED
  BY <1>1, <1>2, <1>3, <1>4, <1>5, StatusStep, FinishStep, Zenon DEF RegisterNext

\* Whatever edits overlap, a write changes what its request named and keeps
\* the rest, documents follow their life-cycle and consents stay as captured.
THEOREM OverlappingEditsUndoNothing == RegisterSpec => EditsUndoNothing
  BY RegisterInitInd, RegisterNextInd, NextStep, PTL DEF RegisterSpec, EditsUndoNothing

-----------------------------------------------------------------------------
(* Sessions of staff.                                                      *)

TokenStatus == {"none", "active", "rotated", "revoked"}

SessionsTyped ==
  /\ challenge \in [Challenge -> [status : {"none", "pending", "consumed"}, attempts : Nat]]
  /\ token \in [Challenge -> [Generation -> TokenStatus]]
  /\ families \in [Challenge -> {0, 1}]
  /\ ended \subseteq Challenge
  /\ DOMAIN request = SignIn

\* What a request under way has read is still so when it writes: the user's
\* row is its own, or the token's is.
RequestReads(t) ==
  /\ t.step = "verify" => /\ t.challenge \in Challenge
                          /\ t.seen = challenge[t.challenge] /\ t.seen.status # "none"
  /\ t.step = "rotate" => /\ t.family \in Challenge /\ t.gen \in Generation
                          /\ t.seen = token[t.family][t.gen] /\ t.seen # "none"
  /\ t.step = "logout" => /\ t.family \in Challenge /\ t.rows \subseteq Generation
                          /\ \A g \in t.rows : token[t.family][g] # "none"

UserRowExclusive ==
  \A p, q \in SignIn : request[p].step \in HoldsUser /\ request[q].step \in HoldsUser => p = q

\* A family begins when its challenge is consumed; until then it has no token.
FamilyBegins(c) ==
  /\ challenge[c].status # "consumed" => families[c] = 0
  /\ families[c] = 0 => c \notin ended /\ \A g \in Generation : token[c][g] = "none"

\* The usable token of a family is its last one, and an ended family has none.
UsableIsLast(c) ==
  \A g \in Generation : token[c][g] = "active" =>
    /\ c \notin ended
    /\ \A h \in Generation : /\ token[c][h] = "active" => h = g
                             /\ h > g => token[c][h] = "none"

SessionsInv ==
  /\ SessionsTyped
  /\ \A p \in SignIn : RequestReads(request[p])
  /\ UserRowExclusive
  /\ \A c \in Challenge : FamilyBegins(c) /\ UsableIsLast(c)

LEMMA SessionsInitInd == SessionsInit => SessionsInv
  BY DEF SessionsInit, SessionsInv, SessionsTyped, RequestReads, UserRowExclusive, FamilyBegins,
     UsableIsLast, TokenStatus, NoRequest, HoldsUser

LEMMA NoRequestReads == RequestReads(NoRequest) /\ NoRequest.step \notin HoldsUser
  BY DEF RequestReads, NoRequest, HoldsUser

\* A request that only reads: it takes the user's row only when that is free.
LEMMA ReadOnlyInd ==
  ASSUME SessionsInv, NEW p \in SignIn, NEW t, request' = [request EXCEPT ![p] = t],
         RequestReads(t), t.step \in HoldsUser => UserRowFree,
         UNCHANGED <<challenge, token, families, ended>>
  PROVE  SessionsInv'
<1>1. SessionsTyped'
  BY DEF SessionsInv, SessionsTyped
<1>2. \A c \in Challenge : FamilyBegins(c)' /\ UsableIsLast(c)'
  BY DEF SessionsInv, FamilyBegins, UsableIsLast
<1>3. \A q \in SignIn : request'[q] = IF q = p THEN t ELSE request[q]
  BY DEF SessionsInv, SessionsTyped
<1>4. ASSUME NEW q \in SignIn PROVE RequestReads(request[q])'
  <2>1. PICK u : u = request'[q]
    OBVIOUS
  <2>2. RequestReads(u)
    BY <1>3, <2>1 DEF SessionsInv
  <2>3. RequestReads(u)'
    BY <2>2 DEF RequestReads
  <2> QED BY <2>1, <2>3 DEF RequestReads
<1>5. UserRowExclusive'
  BY <1>3 DEF SessionsInv, UserRowExclusive, UserRowFree
<1> QED BY <1>1, <1>2, <1>4, <1>5 DEF SessionsInv

\* A write keeps every token issued, and what others hold the row of.
LEMMA WriteKeepsReads ==
  ASSUME SessionsInv, SessionsTyped', \A c \in Challenge : FamilyBegins(c)' /\ UsableIsLast(c)',
         \A q \in SignIn : request'[q] \in {request[q], NoRequest},
         \A c \in Challenge, g \in Generation : token[c][g] # "none" => token'[c][g] # "none",
         \A q \in SignIn : request'[q] = request[q] =>
           /\ request[q].step = "verify" => challenge'[request[q].challenge] = challenge[request[q].challenge]
           /\ request[q].step = "rotate" =>
                token'[request[q].family][request[q].gen] = token[request[q].family][request[q].gen]
  PROVE  SessionsInv'
<1>1. ASSUME NEW q \in SignIn PROVE RequestReads(request[q])'
  <2>1. CASE request'[q] = NoRequest
    BY <2>1 DEF RequestReads, NoRequest
  <2>2. CASE request'[q] = request[q]
    <3>1. RequestReads(request[q])
      BY DEF SessionsInv
    <3> QED BY <2>2, <3>1 DEF RequestReads
  <2> QED BY <2>1, <2>2
<1>2. UserRowExclusive'
  BY NoRequestReads DEF SessionsInv, UserRowExclusive
<1> QED BY <1>1, <1>2 DEF SessionsInv

LEMMA IssuedNumbers ==
  /\ Issued \in SUBSET Nat /\ IsFiniteSet(Issued) /\ Issued \subseteq Challenge
  /\ Challenge \ Issued \in SUBSET Nat
<1>1. Issued \subseteq Challenge
  BY DEF Issued
<1> QED BY <1>1, SessionsAssumption, FS_Subset

LEMMA IssueChallengeInd == ASSUME SessionsInv, NEW p \in SignIn, IssueChallenge(p) PROVE SessionsInv'
<1> DEFINE n == Min(Challenge \ Issued)
<1>1. n \in Challenge /\ n \notin Issued
  <2>1. Challenge \ Issued # {}
    BY IssuedNumbers DEF IssueChallenge
  <2> QED BY <2>1, IssuedNumbers, LeastElement
<1>2. /\ challenge' = [challenge EXCEPT ![n].status = "pending"]
      /\ request' = [request EXCEPT ![p] = NoRequest]
      /\ UNCHANGED <<token, families, ended>>
  BY DEF IssueChallenge
<1> HIDE DEF n
<1>3. /\ \A c \in Challenge : c # n => challenge'[c] = challenge[c]
      /\ challenge'[n].status = "pending" /\ challenge[n].status = "none"
      /\ SessionsTyped'
  BY <1>1, <1>2 DEF SessionsInv, SessionsTyped, Issued
<1>4. \A c \in Challenge : FamilyBegins(c)' /\ UsableIsLast(c)'
  BY <1>2, <1>3 DEF SessionsInv, FamilyBegins, UsableIsLast
<1>5. ASSUME NEW q \in SignIn, request[q].step = "verify"
      PROVE  challenge'[request[q].challenge] = challenge[request[q].challenge]
  <2>1. request[q].challenge \in Challenge /\ challenge[request[q].challenge].status # "none"
    BY <1>5 DEF SessionsInv, RequestReads
  <2> QED BY <1>3, <2>1
<1>6. \A q \in SignIn : request'[q] \in {request[q], NoRequest}
  BY <1>2 DEF SessionsInv, SessionsTyped
<1> QED BY <1>2, <1>3, <1>4, <1>5, <1>6, WriteKeepsReads

LEMMA BeginVerifyInd == ASSUME SessionsInv, NEW p \in SignIn, BeginVerify(p) PROVE SessionsInv'
<1> DEFINE t == [step |-> "verify", challenge |-> Max(Issued), seen |-> challenge[Max(Issued)]]
<1>1. Max(Issued) \in Issued
  BY IssuedNumbers, GreatestElement DEF BeginVerify
<1>2. RequestReads(t)
  BY <1>1 DEF RequestReads, Issued
<1>3. request' = [request EXCEPT ![p] = t] /\ UserRowFree /\ UNCHANGED <<challenge, token, families, ended>>
  BY DEF BeginVerify
<1> HIDE DEF t
<1> QED BY <1>2, <1>3, ReadOnlyInd

\* A match consumes the challenge that was read pending and begins its family.
LEMMA FinishVerifyInd ==
  ASSUME SessionsInv, NEW p \in SignIn, NEW outcome, FinishVerify(p, outcome) PROVE SessionsInv'
<1> DEFINE c == request[p].challenge
           ok == Acceptable(request[p].seen)
           OthersKeep == \A q \in SignIn : request'[q] = request[q] =>
             /\ request[q].step = "verify" =>
                  challenge'[request[q].challenge] = challenge[request[q].challenge]
             /\ request[q].step = "rotate" =>
                  token'[request[q].family][request[q].gen] = token[request[q].family][request[q].gen]
<1>1. request[p].step = "verify" /\ c \in Challenge /\ request[p].seen = challenge[c]
  BY DEF FinishVerify, SessionsInv, RequestReads
<1>2. /\ request' = [request EXCEPT ![p] = NoRequest] /\ ended' = ended
      /\ challenge' = CASE ok /\ outcome = "match" -> [challenge EXCEPT ![c].status = "consumed"]
                        [] ok /\ outcome = "mismatch" -> [challenge EXCEPT ![c].attempts = @ + 1]
                        [] OTHER -> challenge
      /\ IF ok /\ outcome = "match"
         THEN token' = [token EXCEPT ![c][1] = "active"] /\ families' = [families EXCEPT ![c] = @ + 1]
         ELSE UNCHANGED <<token, families>>
  BY DEF FinishVerify
<1>3. \A q \in SignIn : /\ request'[q] \in {request[q], NoRequest}
                        /\ request'[q] = request[q] => request[q].step \notin HoldsUser
  <2>1. \A q \in SignIn : request'[q] = IF q = p THEN NoRequest ELSE request[q]
    BY <1>2 DEF SessionsInv, SessionsTyped
  <2> QED BY <1>1, <2>1, NoRequestReads DEF SessionsInv, UserRowExclusive, HoldsUser
<1>4. OthersKeep
  BY <1>3 DEF HoldsUser
<1>5. CASE ok /\ outcome = "match"
  <2> DEFINE entry == [challenge[c] EXCEPT !.status = "consumed"]
             tok == [token[c] EXCEPT ![1] = "active"]
  <2>1. /\ challenge' = [challenge EXCEPT ![c] = entry]
        /\ token' = [token EXCEPT ![c] = tok] /\ families' = [families EXCEPT ![c] = families[c] + 1]
    BY <1>2, <1>5
  <2>2. families[c] = 0 /\ c \notin ended /\ \A g \in Generation : token[c][g] = "none"
    BY <1>1, <1>5 DEF Acceptable, SessionsInv, FamilyBegins
  <2>3. 1 \in Generation /\ Generation \subseteq Nat /\ \A g \in Generation : g >= 1
    BY SessionsAssumption DEF Generation
  <2>4. /\ entry \in [status : {"none", "pending", "consumed"}, attempts : Nat] /\ entry.status = "consumed"
        /\ tok \in [Generation -> TokenStatus] /\ \A g \in Generation : tok[g] = IF g = 1 THEN "active" ELSE "none"
    BY <1>1, <2>2, <2>3 DEF SessionsInv, SessionsTyped, TokenStatus
  <2> HIDE DEF entry, tok, c, ok, OthersKeep
  <2>5. SessionsTyped'
    BY <1>1, <1>2, <2>1, <2>2, <2>4 DEF SessionsInv, SessionsTyped
  <2>6. ASSUME NEW d \in Challenge
        PROVE  /\ d = c => challenge'[d] = entry /\ token'[d] = tok /\ families'[d] = 1
               /\ d # c => challenge'[d] = challenge[d] /\ token'[d] = token[d] /\ families'[d] = families[d]
    BY <1>1, <2>1, <2>2 DEF SessionsInv, SessionsTyped
  <2>7. ASSUME NEW d \in Challenge PROVE FamilyBegins(d)' /\ UsableIsLast(d)'
    <3>1. CASE d = c
      <4>1. challenge'[d].status = "consumed" /\ token'[d] = tok /\ families'[d] = 1 /\ d \notin ended'
        BY <1>2, <2>2, <2>4, <2>6, <3>1
      <4>2. FamilyBegins(d)'
        BY <4>1 DEF FamilyBegins
      <4>3. UsableIsLast(d)'
        BY <2>3, <2>4, <4>1 DEF UsableIsLast
      <4> QED BY <4>2, <4>3
    <3>2. CASE d # c
      BY <1>2, <2>6, <3>2 DEF SessionsInv, FamilyBegins, UsableIsLast
    <3> QED BY <3>1, <3>2
  <2>8. \A d \in Challenge, g \in Generation : token[d][g] # "none" => token'[d][g] # "none"
    BY <2>2, <2>6
  <2> QED BY <1>3, <1>4, <2>5, <2>7, <2>8, WriteKeepsReads DEF OthersKeep
<1>6. CASE ~(ok /\ outcome = "match")
  <2>1. challenge' \in {challenge, [challenge EXCEPT ![c].attempts = @ + 1]}
    BY <1>2, <1>6
  <2>2. UNCHANGED <<token, families, ended>>
    BY <1>2, <1>6
  <2> HIDE DEF c, ok, OthersKeep
  <2>3. SessionsTyped' /\ \A d \in Challenge : challenge'[d].status = challenge[d].status
    BY <1>1, <1>2, <2>1, <2>2 DEF SessionsInv, SessionsTyped
  <2>4. \A d \in Challenge : FamilyBegins(d)' /\ UsableIsLast(d)'
    BY <2>2, <2>3 DEF SessionsInv, FamilyBegins, UsableIsLast
  <2> QED BY <1>3, <1>4, <2>2, <2>3, <2>4, WriteKeepsReads DEF OthersKeep
<1> QED BY <1>5, <1>6

LEMMA BeginRotateInd ==
  ASSUME SessionsInv, NEW p \in SignIn, NEW c \in Challenge, NEW g \in Generation, BeginRotate(p, c, g)
  PROVE  SessionsInv'
<1> DEFINE t == [step |-> "rotate", family |-> c, gen |-> g, seen |-> token[c][g]]
<1>1. RequestReads(t)
  BY DEF RequestReads, BeginRotate
<1>2. request' = [request EXCEPT ![p] = t] /\ UserRowFree /\ UNCHANGED <<challenge, token, families, ended>>
  BY DEF BeginRotate
<1> HIDE DEF t
<1> QED BY <1>1, <1>2, ReadOnlyInd

\* Revoking rows that were issued takes nothing a family relies on.
LEMMA RevokedKeeps ==
  ASSUME SessionsInv, NEW c \in Challenge, NEW rows \in SUBSET Generation,
         \A g \in rows : token[c][g] # "none"
  PROVE  /\ Revoked(c, rows) \in [Generation -> TokenStatus]
         /\ \A g \in Generation : /\ Revoked(c, rows)[g] = "active" => token[c][g] = "active" /\ g \notin rows
                                  /\ Revoked(c, rows)[g] = "none" <=> token[c][g] = "none"
  BY DEF Revoked, SessionsInv, SessionsTyped, TokenStatus

\* Some families lose usable tokens, and with their last one may be ended.
LEMMA TokensRevoked ==
  ASSUME SessionsInv, token' \in [Challenge -> [Generation -> TokenStatus]], families' = families,
         ended' \subseteq Challenge,
         \A c \in Challenge : challenge'[c].status # "consumed" => challenge[c].status # "consumed",
         \A c \in Challenge, g \in Generation :
           /\ token'[c][g] = "active" => token[c][g] = "active"
           /\ token'[c][g] = "none" <=> token[c][g] = "none",
         \A c \in ended' \ ended : families[c] # 0 /\ \A g \in Generation : token'[c][g] # "active"
  PROVE  \A c \in Challenge : FamilyBegins(c)' /\ UsableIsLast(c)'
<1> SUFFICES ASSUME NEW c \in Challenge PROVE FamilyBegins(c)' /\ UsableIsLast(c)'
  OBVIOUS
<1>1. FamilyBegins(c) /\ UsableIsLast(c)
  BY DEF SessionsInv
<1>2. FamilyBegins(c)'
  BY <1>1 DEF FamilyBegins
<1>3. UsableIsLast(c)'
  BY <1>1 DEF UsableIsLast
<1> QED BY <1>2, <1>3

LEMMA RotateTokenInd == ASSUME SessionsInv, NEW p \in SignIn, RotateToken(p) PROVE SessionsInv'
<1> DEFINE c == request[p].family
           g == request[p].gen
           tok == [token[c] EXCEPT ![g] = "rotated", ![g + 1] = "active"]
<1>1. request[p].step = "rotate" /\ c \in Challenge /\ g \in Generation /\ token[c][g] = "active"
  BY DEF RotateToken, SessionsInv, RequestReads
<1>2. /\ token' = [token EXCEPT ![c] = tok] /\ request' = [request EXCEPT ![p] = NoRequest]
      /\ UNCHANGED <<challenge, families, ended>> /\ g < MaxGeneration
  BY DEF RotateToken
<1>3. g \in Nat /\ g + 1 \in Generation /\ Generation \subseteq Nat /\ g # g + 1 /\ g + 1 > g
  BY <1>1, <1>2, SessionsAssumption DEF Generation
<1>4. /\ tok \in [Generation -> TokenStatus]
      /\ \A h \in Generation : tok[h] = IF h = g + 1 THEN "active" ELSE IF h = g THEN "rotated" ELSE token[c][h]
  BY <1>1, <1>3 DEF SessionsInv, SessionsTyped, TokenStatus
<1> HIDE DEF c, g, tok
<1>5. /\ c \notin ended
      /\ \A h \in Generation : /\ token[c][h] = "active" => h = g
                               /\ h > g => token[c][h] = "none"
  BY <1>1 DEF SessionsInv, UsableIsLast
<1>6. token'[c] = tok /\ \A d \in Challenge : d # c => token'[d] = token[d]
  BY <1>1, <1>2 DEF SessionsInv, SessionsTyped
<1>7. SessionsTyped'
  BY <1>1, <1>2, <1>4 DEF SessionsInv, SessionsTyped
<1>8. ASSUME NEW d \in Challenge PROVE FamilyBegins(d)' /\ UsableIsLast(d)'
  <2>1. CASE d = c
    <3>1. families[c] # 0 /\ FamilyBegins(c)
      BY <1>1 DEF SessionsInv, FamilyBegins
    <3>2. FamilyBegins(d)'
      BY <1>2, <2>1, <3>1 DEF FamilyBegins
    <3>3. ASSUME NEW h \in Generation, tok[h] = "active"
          PROVE  h = g + 1
      BY <1>4, <1>5, <3>3
    <3>4. ASSUME NEW h \in Generation, h > g + 1 PROVE tok[h] = "none"
      <4>1. h \in Nat /\ h > g /\ h # g /\ h # g + 1
        BY <1>3, <3>4
      <4> QED BY <1>4, <1>5, <4>1
    <3>5. UsableIsLast(d)'
      BY <1>2, <1>5, <1>6, <2>1, <3>3, <3>4 DEF UsableIsLast
    <3> QED BY <3>2, <3>5
  <2>2. CASE d # c
    BY <1>2, <1>6, <2>2 DEF SessionsInv, FamilyBegins, UsableIsLast
  <2> QED BY <2>1, <2>2
<1>9. \A d \in Challenge, h \in Generation : token[d][h] # "none" => token'[d][h] # "none"
  BY <1>4, <1>6
<1>10. \A q \in SignIn : /\ request'[q] \in {request[q], NoRequest}
                         /\ request'[q] = request[q] => request[q].step \notin HoldsUser
  <2>1. \A q \in SignIn : request'[q] = IF q = p THEN NoRequest ELSE request[q]
    BY <1>2 DEF SessionsInv, SessionsTyped
  <2> QED BY <1>1, <2>1, NoRequestReads DEF SessionsInv, UserRowExclusive, HoldsUser
<1> QED BY <1>7, <1>8, <1>9, <1>10, WriteKeepsReads DEF HoldsUser

LEMMA RefuseRotationInd == ASSUME SessionsInv, NEW p \in SignIn, RefuseRotation(p) PROVE SessionsInv'
<1> DEFINE c == request[p].family
           tok == Revoked(c, LiveRows(c))
<1>1. request[p].step = "rotate" /\ c \in Challenge /\ request[p].gen \in Generation
      /\ token[c][request[p].gen] # "none"
  BY DEF RefuseRotation, SessionsInv, RequestReads
<1>2. /\ token' = [token EXCEPT ![c] = tok] /\ ended' = ended \union {c}
      /\ request' = [request EXCEPT ![p] = NoRequest] /\ UNCHANGED <<challenge, families>>
  BY DEF RefuseRotation
<1>3. families[c] # 0
  BY <1>1 DEF SessionsInv, FamilyBegins
<1>4. /\ LiveRows(c) \in SUBSET Generation /\ \A g \in LiveRows(c) : token[c][g] # "none"
      /\ \A g \in Generation : token[c][g] = "active" => g \in LiveRows(c)
  BY DEF LiveRows
<1>5. /\ tok \in [Generation -> TokenStatus]
      /\ \A g \in Generation : tok[g] # "active" /\ (tok[g] = "none" <=> token[c][g] = "none")
  BY <1>1, <1>4, RevokedKeeps
<1> HIDE DEF tok, c
<1>6. token'[c] = tok /\ \A d \in Challenge : d # c => token'[d] = token[d]
  BY <1>1, <1>2 DEF SessionsInv, SessionsTyped
<1>7. SessionsTyped'
  BY <1>1, <1>2, <1>5 DEF SessionsInv, SessionsTyped
<1>8. \A d \in Challenge : FamilyBegins(d)' /\ UsableIsLast(d)'
  <2>1. /\ token' \in [Challenge -> [Generation -> TokenStatus]] /\ families' = families /\ ended' \subseteq Challenge
        /\ \A d \in Challenge : challenge'[d].status # "consumed" => challenge[d].status # "consumed"
    BY <1>2, <1>7 DEF SessionsTyped
  <2>2. \A d \in Challenge, g \in Generation :
          /\ token'[d][g] = "active" => token[d][g] = "active"
          /\ token'[d][g] = "none" <=> token[d][g] = "none"
    BY <1>5, <1>6
  <2>3. \A d \in ended' \ ended : families[d] # 0 /\ \A g \in Generation : token'[d][g] # "active"
    BY <1>2, <1>3, <1>5, <1>6
  <2> QED BY <2>1, <2>2, <2>3, TokensRevoked
<1>9. \A d \in Challenge, g \in Generation : token[d][g] # "none" => token'[d][g] # "none"
  BY <1>5, <1>6
<1>10. \A q \in SignIn : /\ request'[q] \in {request[q], NoRequest}
                         /\ request'[q] = request[q] => request[q].step \notin HoldsUser
  <2>1. \A q \in SignIn : request'[q] = IF q = p THEN NoRequest ELSE request[q]
    BY <1>2 DEF SessionsInv, SessionsTyped
  <2> QED BY <1>1, <2>1, NoRequestReads DEF SessionsInv, UserRowExclusive, HoldsUser
<1> QED BY <1>7, <1>8, <1>9, <1>10, WriteKeepsReads DEF HoldsUser

LEMMA BeginLogoutInd ==
  ASSUME SessionsInv, NEW p \in SignIn, NEW c \in Challenge, BeginLogout(p, c) PROVE SessionsInv'
<1> DEFINE t == [step |-> "logout", family |-> c, rows |-> LiveRows(c)]
<1>1. RequestReads(t) /\ t.step \notin HoldsUser
  BY DEF RequestReads, LiveRows, HoldsUser
<1>2. request' = [request EXCEPT ![p] = t] /\ UNCHANGED <<challenge, token, families, ended>>
  BY DEF BeginLogout
<1> HIDE DEF t
<1> QED BY <1>1, <1>2, ReadOnlyInd

\* A logout revokes rows nobody rotates; the row a rotation made since stays.
LEMMA FinishLogoutInd == ASSUME SessionsInv, NEW p \in SignIn, FinishLogout(p) PROVE SessionsInv'
<1> DEFINE c == request[p].family
           rows == request[p].rows
           tok == Revoked(c, rows)
<1>1. request[p].step = "logout" /\ c \in Challenge /\ rows \in SUBSET Generation
      /\ \A g \in rows : token[c][g] # "none"
  BY DEF FinishLogout, SessionsInv, RequestReads
<1>2. /\ \A g \in rows : TokenRowFree(c, g)
      /\ token' = [token EXCEPT ![c] = tok]
      /\ request' = [request EXCEPT ![p] = NoRequest] /\ UNCHANGED <<challenge, families, ended>>
  BY DEF FinishLogout
<1>3. /\ tok \in [Generation -> TokenStatus]
      /\ \A g \in Generation : /\ tok[g] = "active" => token[c][g] = "active"
                               /\ tok[g] = "none" <=> token[c][g] = "none"
                               /\ g \notin rows => tok[g] = token[c][g]
  <2>1. \A g \in Generation : g \notin rows => tok[g] = token[c][g]
    BY DEF Revoked
  <2> QED BY <1>1, <2>1, RevokedKeeps
<1> HIDE DEF tok, c, rows
<1>4. token'[c] = tok /\ \A d \in Challenge : d # c => token'[d] = token[d]
  BY <1>1, <1>2 DEF SessionsInv, SessionsTyped
<1>5. SessionsTyped'
  BY <1>1, <1>2, <1>3 DEF SessionsInv, SessionsTyped
<1>6. \A d \in Challenge : FamilyBegins(d)' /\ UsableIsLast(d)'
  <2>1. /\ token' \in [Challenge -> [Generation -> TokenStatus]] /\ families' = families /\ ended' \subseteq Challenge
        /\ \A d \in Challenge : challenge'[d].status # "consumed" => challenge[d].status # "consumed"
    BY <1>2, <1>5 DEF SessionsTyped
  <2>2. \A d \in Challenge, g \in Generation :
          /\ token'[d][g] = "active" => token[d][g] = "active"
          /\ token'[d][g] = "none" <=> token[d][g] = "none"
    BY <1>3, <1>4
  <2> QED BY <1>2, <2>1, <2>2, TokensRevoked
<1>7. \A d \in Challenge, g \in Generation : token[d][g] # "none" => token'[d][g] # "none"
  BY <1>3, <1>4
<1>8. \A q \in SignIn : request'[q] \in {request[q], NoRequest}
  BY <1>2 DEF SessionsInv, SessionsTyped
<1>9. ASSUME NEW q \in SignIn, request[q].step = "rotate"
      PROVE  token'[request[q].family][request[q].gen] = token[request[q].family][request[q].gen]
  <2>1. request[q].family \in Challenge /\ request[q].gen \in Generation
    BY <1>9 DEF SessionsInv, RequestReads
  <2>2. CASE request[q].family = c
    <3>1. request[q].gen \notin rows
      BY <1>2, <1>9, <2>2 DEF TokenRowFree
    <3> QED BY <1>3, <1>4, <2>1, <2>2, <3>1
  <2>3. CASE request[q].family # c
    BY <1>4, <2>1, <2>3
  <2> QED BY <2>2, <2>3
<1> QED BY <1>2, <1>5, <1>6, <1>7, <1>8, <1>9, WriteKeepsReads

\* Voiding a user's credentials, with no request holding the user's row.
LEMMA VoidCredentialsInd ==
  ASSUME SessionsInv, VoidCredentials, UserRowFree, UNCHANGED <<families, request>> PROVE SessionsInv'
<1>1. \A c \in Challenge :
        /\ LiveRows(c) \in SUBSET Generation /\ \A g \in LiveRows(c) : token[c][g] # "none"
        /\ \A g \in Generation : token[c][g] = "active" => g \in LiveRows(c)
  BY DEF LiveRows
<1>2. \A c \in Challenge :
        /\ token'[c] = Revoked(c, LiveRows(c))
        /\ token'[c] \in [Generation -> TokenStatus]
        /\ \A g \in Generation : token'[c][g] # "active" /\ (token'[c][g] = "none" <=> token[c][g] = "none")
  <2>1. \A c \in Challenge : token'[c] = Revoked(c, LiveRows(c))
    BY DEF VoidCredentials
  <2> QED BY <1>1, <2>1, RevokedKeeps
<1>3. token' \in [Challenge -> [Generation -> TokenStatus]]
  BY <1>2 DEF VoidCredentials
<1>4. /\ challenge' \in [Challenge -> [status : {"none", "pending", "consumed"}, attempts : Nat]]
      /\ \A c \in Challenge : challenge'[c].status # "consumed" => challenge[c].status # "consumed"
  BY DEF VoidCredentials, SessionsInv, SessionsTyped
<1>5. ended' = ended \union {c \in Challenge : families[c] > 0}
  BY DEF VoidCredentials
<1>6. SessionsTyped'
  BY <1>3, <1>4, <1>5 DEF SessionsInv, SessionsTyped
<1>7. \A c \in Challenge : FamilyBegins(c)' /\ UsableIsLast(c)'
  <2>1. \A c \in ended' \ ended : families[c] # 0 /\ \A g \in Generation : token'[c][g] # "active"
    BY <1>2, <1>5 DEF SessionsInv, SessionsTyped
  <2>2. \A c \in Challenge, g \in Generation :
          /\ token'[c][g] = "active" => token[c][g] = "active"
          /\ token'[c][g] = "none" <=> token[c][g] = "none"
    BY <1>2
  <2>3. ended' \subseteq Challenge /\ families' = families
    BY <1>6 DEF SessionsTyped
  <2> QED BY <1>3, <1>4, <2>1, <2>2, <2>3, TokensRevoked
<1>8. \A q \in SignIn : request[q].step # "verify" /\ request[q].step # "rotate"
  BY DEF UserRowFree, HoldsUser
<1> QED BY <1>2, <1>6, <1>7, <1>8, WriteKeepsReads

LEMMA InvalidateOtpInd == ASSUME SessionsInv, InvalidateOtp PROVE SessionsInv'
<1>1. /\ challenge' \in [Challenge -> [status : {"none", "pending", "consumed"}, attempts : Nat]]
      /\ \A c \in Challenge : challenge'[c].status # "consumed" => challenge[c].status # "consumed"
  BY DEF InvalidateOtp, SessionsInv, SessionsTyped
<1>2. UNCHANGED <<token, families, ended, request>>
  BY DEF InvalidateOtp
<1>3. SessionsTyped'
  BY <1>1, <1>2 DEF SessionsInv, SessionsTyped
<1>4. \A c \in Challenge : FamilyBegins(c)' /\ UsableIsLast(c)'
  BY <1>1, <1>2 DEF SessionsInv, FamilyBegins, UsableIsLast
<1>5. \A q \in SignIn : request[q].step # "verify" /\ request[q].step # "rotate"
  BY DEF InvalidateOtp, UserRowFree, HoldsUser
<1> QED BY <1>2, <1>3, <1>4, <1>5, WriteKeepsReads

LEMMA SessionsNextInd == SessionsInv /\ [SessionsNext]_sessionVars => SessionsInv'
<1> SUFFICES ASSUME SessionsInv, [SessionsNext]_sessionVars PROVE SessionsInv'
  OBVIOUS
<1>1. ASSUME NEW p \in SignIn, LookUpUser(p) PROVE SessionsInv'
  <2>1. RequestReads([step |-> "issue"]) /\ "issue" \notin HoldsUser
    BY DEF RequestReads, HoldsUser
  <2> QED BY <1>1, <2>1, ReadOnlyInd DEF LookUpUser
<1>2. ASSUME NEW p \in SignIn, RequestDies(p) PROVE SessionsInv'
  BY <1>2, NoRequestReads, ReadOnlyInd DEF RequestDies
<1>3. CASE SuspendUser
  BY <1>3, VoidCredentialsInd DEF SuspendUser
<1>4. CASE ReenrolOtp
  BY <1>4, VoidCredentialsInd DEF ReenrolOtp
<1>5. ASSUME UNCHANGED <<challenge, token, families, ended, request>> PROVE SessionsInv'
  BY <1>5 DEF SessionsInv, SessionsTyped, RequestReads, UserRowExclusive, FamilyBegins, UsableIsLast
<1>6. CASE ReactivateUser
  BY <1>5, <1>6 DEF ReactivateUser
<1>7. CASE UNCHANGED sessionVars
  BY <1>5, <1>7 DEF sessionVars
<1> HIDE DEF SessionsInv
<1> QED
  BY <1>1, <1>2, <1>3, <1>4, <1>6, <1>7, IssueChallengeInd, BeginVerifyInd, FinishVerifyInd, BeginRotateInd,
     RotateTokenInd, RefuseRotationInd, BeginLogoutInd, FinishLogoutInd, InvalidateOtpInd, Zenon
     DEF SessionsNext

\* For any challenges, generations and number of concurrent requests: a
\* challenge begins one family at most, a family has one usable token at most,
\* and one that was ended never gets another.
THEOREM LineageIsOne == SessionsSpec => []OneLineage
<1>1. SessionsInv => OneLineage
  <2> SUFFICES ASSUME SessionsInv, NEW c \in Challenge
               PROVE  /\ families[c] <= 1
                      /\ Cardinality({g \in Generation : token[c][g] = "active"}) <= 1
                      /\ c \in ended => \A g \in Generation : token[c][g] # "active"
    BY DEF OneLineage
  <2>1. families[c] <= 1
    BY DEF SessionsInv, SessionsTyped
  <2>2. Cardinality({g \in Generation : token[c][g] = "active"}) <= 1
    BY AtMostOneElement DEF SessionsInv, UsableIsLast
  <2> QED BY <2>1, <2>2 DEF SessionsInv, UsableIsLast
<1> QED BY SessionsInitInd, SessionsNextInd, <1>1, PTL DEF SessionsSpec

-----------------------------------------------------------------------------
(* Sessions of members.                                                    *)

CodeRow == [link : Link, status : {"pending", "consumed"}, tries : Nat]

PortalTyped ==
  /\ DOMAIN link = Link /\ DOMAIN call = Caller
  /\ code \in [Code -> CodeRow \union {NoCode}]
  /\ DOMAIN session = Code
  /\ mtoken \in [Code -> [TokenNo -> TokenStatus]]

\* What a call under way relies on.
CallReads(t) ==
  /\ t.step \in {"send", "entered", "found", "judging"} => t.link \in Link
  /\ t.step \in {"found", "judging"} => t.code \in Code /\ code[t.code] # NoCode /\ code[t.code].link = t.link
  /\ t.step = "judging" => t.seen = code[t.code]
  /\ t.step \in {"peeked", "rotating"} =>
       t.family \in Code /\ t.gen \in TokenNo /\ mtoken[t.family][t.gen] # "none"
  /\ t.step = "rotating" => t.seen = mtoken[t.family][t.gen]
  /\ t.step = "revoking" => /\ t.family \in Code /\ t.rows \subseteq TokenNo
                            /\ \A g \in t.rows : mtoken[t.family][g] # "none"

\* One call judges a code at a time; a token being rotated is held by one.
RowsExclusive ==
  \A p, q \in Caller : p # q =>
    /\ ~(call[p].step = "judging" /\ call[q].step = "judging" /\ call[p].code = call[q].code)
    /\ ~(call[p].step = "rotating" /\ call[q].step \in HoldsToken
           /\ call[p].family = call[q].family /\ call[p].gen = call[q].gen)

\* A code that is not consumed has opened no session and has no token.
SessionOpens(c) ==
  /\ session[c] = <<>> \/ (code[c].status = "consumed" /\ session[c] = <<code[c].link>>)
  /\ session[c] = <<>> => \A g \in TokenNo : mtoken[c][g] = "none"

LastIsUsable(c) ==
  \A g \in TokenNo : mtoken[c][g] = "active" =>
    \A h \in TokenNo : /\ mtoken[c][h] = "active" => h = g
                       /\ h > g => mtoken[c][h] = "none"

PortalInv ==
  /\ PortalTyped
  /\ \A p \in Caller : CallReads(call[p])
  /\ RowsExclusive
  /\ \A c \in Code : SessionOpens(c) /\ LastIsUsable(c)

LEMMA PortalInitInd == MemberSessionsInit => PortalInv
  BY DEF MemberSessionsInit, PortalInv, PortalTyped, CallReads, RowsExclusive, SessionOpens, LastIsUsable,
     TokenStatus, NoCall, HoldsToken

LEMMA NoCallReads == CallReads(NoCall) /\ NoCall.step \notin {"judging", "rotating", "revoking"}
  BY DEF CallReads, NoCall

\* A call that only reads: it takes a row only from nobody.
LEMMA CallInd ==
  ASSUME PortalInv, NEW p \in Caller, NEW t, Step(p, t), CallReads(t),
         t.step = "judging" => CodeFree(t.code),
         t.step = "rotating" => MTokenFree(p, t.family, t.gen),
         t.step = "revoking" =>
           t.gen \notin TokenNo \/ (call[p].step = "rotating" /\ call[p].family = t.family /\ call[p].gen = t.gen),
         UNCHANGED <<code, session, mtoken>>, DOMAIN link' = Link
  PROVE  PortalInv'
<1>1. PortalTyped'
  BY DEF PortalInv, PortalTyped, Step
<1>2. \A c \in Code : SessionOpens(c)' /\ LastIsUsable(c)'
  BY DEF PortalInv, SessionOpens, LastIsUsable
<1>3. \A q \in Caller : call'[q] = IF q = p THEN t ELSE call[q]
  BY DEF PortalInv, PortalTyped, Step
<1>4. \A q \in Caller : CallReads(call[q])'
  <2>1. \A u : CallReads(u) <=> CallReads(u)'
    BY DEF CallReads
  <2>2. ASSUME NEW q \in Caller PROVE CallReads(call[q])'
    <3>1. PICK u : u = call'[q]
      OBVIOUS
    <3>2. CallReads(u)
      BY <1>3, <3>1 DEF PortalInv
    <3>3. CallReads(u)'
      BY <2>1, <3>2
    <3> QED BY <3>1, <3>3 DEF CallReads
  <2> QED BY <2>2
<1>5. RowsExclusive'
  <2>1. ASSUME NEW q \in Caller, NEW r \in Caller, q # r
        PROVE  ~(call'[q].step = "judging" /\ call'[r].step = "judging" /\ call'[q].code = call'[r].code)
    BY <1>3, <2>1 DEF PortalInv, RowsExclusive, CodeFree
  <2>2. ASSUME NEW q \in Caller, NEW r \in Caller, q # r, call'[q].step = "rotating",
               call'[r].step \in HoldsToken, call'[q].family = call'[r].family, call'[q].gen = call'[r].gen
        PROVE  FALSE
    <3>1. CASE q = p
      BY <1>3, <2>2, <3>1 DEF MTokenFree
    <3>2. CASE r = p /\ t.step = "rotating"
      BY <1>3, <2>2, <3>2 DEF MTokenFree, HoldsToken
    <3>3. CASE r = p /\ t.step = "revoking"
      <4>1. call[q].gen \in TokenNo /\ call'[q] = call[q] /\ call'[r] = t
        BY <1>3, <2>2, <3>3 DEF PortalInv, CallReads
      <4> QED BY <2>2, <3>3, <4>1 DEF PortalInv, RowsExclusive, HoldsToken
    <3>4. CASE q # p /\ r # p
      BY <1>3, <2>2, <3>4 DEF PortalInv, RowsExclusive
    <3> QED BY <1>3, <2>2, <3>1, <3>2, <3>3, <3>4 DEF HoldsToken
  <2> QED BY <2>1, <2>2 DEF RowsExclusive
<1> QED BY <1>1, <1>2, <1>4, <1>5 DEF PortalInv

\* A write ends its call; it keeps whom a code is for, every token issued and
\* the rows that others hold.
LEMMA CallWrites ==
  ASSUME PortalInv, NEW p \in Caller, Done(p), PortalTyped',
         \A c \in Code : SessionOpens(c)' /\ LastIsUsable(c)',
         \A c \in Code : code[c] # NoCode => code'[c] # NoCode /\ code'[c].link = code[c].link,
         \A c \in Code, g \in TokenNo : mtoken[c][g] # "none" => mtoken'[c][g] # "none",
         \A q \in Caller : q # p =>
           /\ call[q].step = "judging" => code'[call[q].code] = code[call[q].code]
           /\ call[q].step = "rotating" =>
                mtoken'[call[q].family][call[q].gen] = mtoken[call[q].family][call[q].gen]
  PROVE  PortalInv'
<1>1. \A q \in Caller : call'[q] = IF q = p THEN NoCall ELSE call[q]
  BY DEF PortalInv, PortalTyped, Step, Done
<1>2. ASSUME NEW q \in Caller PROVE CallReads(call[q])'
  <2>1. CASE q = p
    BY <1>1, <2>1 DEF CallReads, NoCall
  <2>2. CASE q # p
    <3>1. CallReads(call[q]) /\ call'[q] = call[q]
      BY <1>1, <2>2 DEF PortalInv
    <3> QED BY <2>2, <3>1 DEF CallReads
  <2> QED BY <2>1, <2>2
<1>3. RowsExclusive'
  BY <1>1, NoCallReads DEF PortalInv, RowsExclusive, HoldsToken
<1> QED BY <1>2, <1>3 DEF PortalInv

LEMMA SendCodeInd == ASSUME PortalInv, NEW p \in Caller, SendCode(p) PROVE PortalInv'
<1> DEFINE n == Min(Unused(code))
           entry == [link |-> call[p].link, status |-> "pending", tries |-> 0]
<1>1. Unused(code) \in SUBSET Nat /\ Unused(code) # {} /\ Unused(code) \subseteq Code
  BY MemberSessionsAssumption DEF SendCode, Unused, PortalInv, PortalTyped
<1>2. n \in Code /\ code[n].status = "none"
  <2>1. n \in Unused(code)
    BY <1>1, LeastElement
  <2> QED BY <1>1, <2>1 DEF Unused
<1>3. entry \in CodeRow
  BY DEF SendCode, PortalInv, CallReads, CodeRow
<1>4. code' = [code EXCEPT ![n] = entry] /\ Done(p) /\ UNCHANGED <<link, session, mtoken>>
  BY DEF SendCode
<1> HIDE DEF n, entry
<1>5. code[n] = NoCode
  BY <1>2 DEF PortalInv, PortalTyped, CodeRow
<1>6. code'[n] = entry /\ \A c \in Code : c # n => code'[c] = code[c]
  BY <1>2, <1>4 DEF PortalInv, PortalTyped
<1>7. PortalTyped'
  BY <1>3, <1>4 DEF PortalInv, PortalTyped, Done, Step
<1>8. ASSUME NEW c \in Code PROVE SessionOpens(c)' /\ LastIsUsable(c)'
  <2>1. SessionOpens(c) /\ LastIsUsable(c)
    BY DEF PortalInv
  <2>2. c = n => session[c] = <<>>
    BY <1>2, <2>1 DEF SessionOpens
  <2> QED BY <1>4, <1>6, <2>1, <2>2 DEF SessionOpens, LastIsUsable
<1>9. \A c \in Code : code[c] # NoCode => code'[c] # NoCode /\ code'[c].link = code[c].link
  BY <1>5, <1>6
<1>10. \A q \in Caller : call[q].step = "judging" => code'[call[q].code] = code[call[q].code]
  BY <1>5, <1>6 DEF PortalInv, CallReads
<1> QED BY <1>4, <1>7, <1>8, <1>9, <1>10, CallWrites

LEMMA FindCodeInd == ASSUME PortalInv, NEW p \in Caller, FindCode(p) PROVE PortalInv'
<1> DEFINE n == Max(CodesOf(call[p].link))
           t == [step |-> "found", link |-> call[p].link, code |-> n]
<1>1. /\ CodesOf(call[p].link) \in SUBSET Nat /\ CodesOf(call[p].link) \subseteq Code
      /\ CodesOf(call[p].link) # {} /\ IsFiniteSet(CodesOf(call[p].link))
  <2>1. CodesOf(call[p].link) \subseteq Code
    BY DEF CodesOf
  <2> QED BY <2>1, MemberSessionsAssumption, FS_Subset DEF FindCode
<1>2. n \in CodesOf(call[p].link)
  BY <1>1, GreatestElement
<1>3. n \in Code /\ code[n] # NoCode /\ code[n].link = call[p].link /\ call[p].link \in Link
  BY <1>2 DEF CodesOf, Unused, NoCode, FindCode, PortalInv, PortalTyped, CallReads
<1> HIDE DEF n
<1>4. CallReads(t) /\ t.step = "found"
  BY <1>3 DEF CallReads
<1>5. Step(p, t) /\ UNCHANGED <<link, code, session, mtoken>>
  BY DEF FindCode, n
<1>6. DOMAIN link' = Link
  BY <1>5 DEF PortalInv, PortalTyped
<1> HIDE DEF t
<1> QED BY <1>4, <1>5, <1>6, CallInd

LEMMA LockCodeInd == ASSUME PortalInv, NEW p \in Caller, LockCode(p) PROVE PortalInv'
<1> DEFINE t == [step |-> "judging", link |-> call[p].link, code |-> call[p].code, seen |-> code[call[p].code]]
<1>1. call[p].step = "found" /\ CallReads(call[p])
  BY DEF LockCode, PortalInv
<1>2. CallReads(t) /\ t.step = "judging" /\ CodeFree(t.code)
  BY <1>1 DEF CallReads, LockCode
<1>3. Step(p, t) /\ UNCHANGED <<link, code, session, mtoken>> /\ DOMAIN link' = Link
  BY DEF LockCode, PortalInv, PortalTyped
<1> HIDE DEF t
<1> QED BY <1>2, <1>3, CallInd

\* The accepted code was read pending, so it has opened nothing yet.
LEMMA AcceptCodeInd == ASSUME PortalInv, NEW p \in Caller, AcceptCode(p) PROVE PortalInv'
<1> DEFINE c == call[p].code
           entry == [code[c] EXCEPT !.status = "consumed"]
           tok == [mtoken[c] EXCEPT ![1] = "active"]
           opened == Append(session[c], call[p].link)
<1>1. /\ call[p].step = "judging" /\ c \in Code /\ code[c] # NoCode /\ code[c].link = call[p].link
      /\ code[c].status = "pending" /\ call[p].link \in Link
  BY DEF AcceptCode, Usable, PortalInv, CallReads
<1>2. /\ code' = [code EXCEPT ![c] = entry] /\ session' = [session EXCEPT ![c] = opened]
      /\ mtoken' = [mtoken EXCEPT ![c] = tok] /\ Done(p) /\ link' = link
  BY DEF AcceptCode
<1>3. session[c] = <<>> /\ \A g \in TokenNo : mtoken[c][g] = "none"
  BY <1>1 DEF PortalInv, SessionOpens
<1>4. opened = <<call[p].link>>
  BY <1>3
<1>5. 1 \in TokenNo /\ TokenNo \subseteq Nat /\ \A g \in TokenNo : g >= 1
  BY MemberSessionsAssumption DEF TokenNo
<1>6. /\ entry \in CodeRow /\ entry # NoCode /\ entry.status = "consumed" /\ entry.link = call[p].link
      /\ tok \in [TokenNo -> TokenStatus] /\ \A g \in TokenNo : tok[g] = IF g = 1 THEN "active" ELSE "none"
  <2>1. code[c] \in CodeRow /\ mtoken[c] \in [TokenNo -> TokenStatus]
    BY <1>1 DEF PortalInv, PortalTyped
  <2>2. entry \in CodeRow /\ entry.status = "consumed" /\ entry.link = call[p].link
    BY <1>1, <2>1 DEF CodeRow
  <2> QED BY <1>3, <1>5, <2>1, <2>2 DEF TokenStatus, NoCode
<1> HIDE DEF c, entry, tok, opened
<1>7. ASSUME NEW d \in Code
      PROVE  /\ d = c => code'[d] = entry /\ session'[d] = opened /\ mtoken'[d] = tok
             /\ d # c => code'[d] = code[d] /\ session'[d] = session[d] /\ mtoken'[d] = mtoken[d]
  BY <1>1, <1>2 DEF PortalInv, PortalTyped
<1>8. PortalTyped'
  BY <1>1, <1>2, <1>6 DEF PortalInv, PortalTyped, Done, Step
<1>9. ASSUME NEW d \in Code PROVE SessionOpens(d)' /\ LastIsUsable(d)'
  <2>1. CASE d = c
    <3>1. /\ code'[d].status = "consumed" /\ session'[d] = <<code'[d].link>> /\ session'[d] # <<>>
          /\ mtoken'[d] = tok
      BY <1>4, <1>6, <1>7, <2>1
    <3>2. SessionOpens(d)'
      BY <3>1 DEF SessionOpens
    <3>3. LastIsUsable(d)'
      BY <1>5, <1>6, <3>1 DEF LastIsUsable
    <3> QED BY <3>2, <3>3
  <2>2. CASE d # c
    BY <1>7, <2>2 DEF PortalInv, SessionOpens, LastIsUsable
  <2> QED BY <2>1, <2>2
<1>10. \A d \in Code : code[d] # NoCode => code'[d] # NoCode /\ code'[d].link = code[d].link
  BY <1>1, <1>6, <1>7
<1>11. \A d \in Code, g \in TokenNo : mtoken[d][g] # "none" => mtoken'[d][g] # "none"
  BY <1>3, <1>7
<1>12. ASSUME NEW q \in Caller, q # p
       PROVE  /\ call[q].step = "judging" => code'[call[q].code] = code[call[q].code]
              /\ call[q].step = "rotating" =>
                   mtoken'[call[q].family][call[q].gen] = mtoken[call[q].family][call[q].gen]
  <2>1. CASE call[q].step = "judging"
    <3>1. call[q].code \in Code /\ call[q].code # c
      BY <1>1, <1>12, <2>1 DEF PortalInv, CallReads, RowsExclusive, c
    <3> QED BY <1>7, <2>1, <3>1
  <2>2. CASE call[q].step = "rotating"
    <3>1. call[q].family \in Code /\ call[q].gen \in TokenNo /\ mtoken[call[q].family][call[q].gen] # "none"
      BY <2>2 DEF PortalInv, CallReads
    <3>2. call[q].family # c
      BY <1>3, <3>1
    <3> QED BY <1>7, <2>2, <3>1, <3>2
  <2> QED BY <2>1, <2>2
<1> QED BY <1>2, <1>8, <1>9, <1>10, <1>11, <1>12, CallWrites

LEMMA RefuseCodeInd ==
  ASSUME PortalInv, NEW p \in Caller, NEW wrong \in BOOLEAN, RefuseCode(p, wrong) PROVE PortalInv'
<1> DEFINE c == call[p].code
           entry == [code[c] EXCEPT !.tries = @ + 1]
<1>1. call[p].step = "judging" /\ c \in Code /\ code[c] \in CodeRow
  BY DEF RefuseCode, PortalInv, PortalTyped, CallReads
<1>2. code' \in {code, [code EXCEPT ![c] = entry]} /\ Done(p) /\ UNCHANGED <<link, session, mtoken>>
  BY DEF RefuseCode
<1>3. entry \in CodeRow /\ entry.link = code[c].link /\ entry.status = code[c].status /\ entry # NoCode
  <2>1. entry \in CodeRow /\ entry.link = code[c].link /\ entry.status = code[c].status
    BY <1>1 DEF CodeRow
  <2> QED BY <2>1 DEF CodeRow, NoCode
<1> HIDE DEF c, entry
<1>4. /\ \A d \in Code : d # c => code'[d] = code[d]
      /\ code'[c] \in {code[c], entry}
  BY <1>1, <1>2 DEF PortalInv, PortalTyped
<1>5. PortalTyped'
  BY <1>2, <1>3 DEF PortalInv, PortalTyped, Done, Step
<1>6. \A d \in Code : code'[d].link = code[d].link /\ code'[d].status = code[d].status
                      /\ (code[d] # NoCode => code'[d] # NoCode)
  BY <1>1, <1>3, <1>4
<1>7. \A d \in Code : SessionOpens(d)' /\ LastIsUsable(d)'
  BY <1>2, <1>6 DEF PortalInv, SessionOpens, LastIsUsable
<1>8. \A q \in Caller : q # p /\ call[q].step = "judging" => code'[call[q].code] = code[call[q].code]
  BY <1>1, <1>4 DEF PortalInv, CallReads, RowsExclusive, c
<1> QED BY <1>2, <1>5, <1>6, <1>7, <1>8, CallWrites

LEMMA LockTokenInd == ASSUME PortalInv, NEW p \in Caller, LockToken(p) PROVE PortalInv'
<1> DEFINE t == [step |-> "rotating", family |-> call[p].family, gen |-> call[p].gen,
                 seen |-> mtoken[call[p].family][call[p].gen]]
<1>1. call[p].step = "peeked" /\ CallReads(call[p]) /\ MTokenFree(p, t.family, t.gen)
  BY DEF LockToken, PortalInv
<1>2. CallReads(t) /\ t.step = "rotating"
  BY <1>1 DEF CallReads
<1>3. Step(p, t) /\ UNCHANGED <<link, code, session, mtoken>> /\ DOMAIN link' = Link
  BY DEF LockToken, PortalInv, PortalTyped
<1> HIDE DEF t
<1> QED BY <1>1, <1>2, <1>3, CallInd

\* The usable token is the last, so the one issued after it takes no row that
\* anybody was shown.
LEMMA IssueNextInd == ASSUME PortalInv, NEW p \in Caller, IssueNext(p) PROVE PortalInv'
<1> DEFINE c == call[p].family
           g == call[p].gen
           tok == [mtoken[c] EXCEPT ![g] = "rotated", ![g + 1] = "active"]
<1>1. call[p].step = "rotating" /\ c \in Code /\ g \in TokenNo /\ mtoken[c][g] = "active"
  BY DEF IssueNext, PortalInv, CallReads
<1>2. mtoken' = [mtoken EXCEPT ![c] = tok] /\ Done(p) /\ UNCHANGED <<link, code, session>> /\ g < MaxTokens
  BY DEF IssueNext
<1>3. g \in Nat /\ g + 1 \in TokenNo /\ TokenNo \subseteq Nat /\ g # g + 1 /\ g + 1 > g
  BY <1>1, <1>2, MemberSessionsAssumption DEF TokenNo
<1>4. /\ tok \in [TokenNo -> TokenStatus]
      /\ \A h \in TokenNo : tok[h] = IF h = g + 1 THEN "active" ELSE IF h = g THEN "rotated" ELSE mtoken[c][h]
  BY <1>1, <1>3 DEF PortalInv, PortalTyped, TokenStatus
<1> HIDE DEF tok
<1>5. \A h \in TokenNo : /\ mtoken[c][h] = "active" => h = g
                         /\ h > g => mtoken[c][h] = "none"
  BY <1>1 DEF PortalInv, LastIsUsable
<1>6. mtoken'[c] = tok /\ \A d \in Code : d # c => mtoken'[d] = mtoken[d]
  BY <1>1, <1>2 DEF PortalInv, PortalTyped
<1>7. PortalTyped'
  BY <1>1, <1>2, <1>4 DEF PortalInv, PortalTyped, Done, Step
<1>8. ASSUME NEW q \in Caller, q # p, call[q].step = "rotating"
      PROVE  mtoken'[call[q].family][call[q].gen] = mtoken[call[q].family][call[q].gen]
  <2>1. call[q].family \in Code /\ call[q].gen \in TokenNo /\ mtoken[call[q].family][call[q].gen] # "none"
    BY <1>8 DEF PortalInv, CallReads
  <2>2. CASE call[q].family = c
    <3>1. call[q].gen # g
      BY <1>1, <1>8, <2>2 DEF PortalInv, RowsExclusive, HoldsToken
    <3>2. call[q].gen # g + 1
      BY <1>3, <1>5, <2>1, <2>2
    <3> QED BY <1>4, <1>6, <2>1, <2>2, <3>1, <3>2
  <2>3. CASE call[q].family # c
    BY <1>6, <2>1, <2>3
  <2> QED BY <2>2, <2>3
<1> HIDE DEF c, g
<1>9. ASSUME NEW d \in Code PROVE SessionOpens(d)' /\ LastIsUsable(d)'
  <2>1. CASE d = c
    <3>1. session[d] # <<>> /\ SessionOpens(d)
      BY <1>1, <2>1 DEF PortalInv, SessionOpens
    <3>2. SessionOpens(d)'
      BY <1>2, <3>1 DEF SessionOpens
    <3>3. ASSUME NEW h \in TokenNo, tok[h] = "active" PROVE h = g + 1
      BY <1>4, <1>5, <3>3
    <3>4. ASSUME NEW h \in TokenNo, h > g + 1 PROVE tok[h] = "none"
      <4>1. h \in Nat /\ h > g /\ h # g /\ h # g + 1
        BY <1>3, <3>4
      <4> QED BY <1>4, <1>5, <4>1
    <3>5. LastIsUsable(d)'
      BY <1>6, <2>1, <3>3, <3>4 DEF LastIsUsable
    <3> QED BY <3>2, <3>5
  <2>2. CASE d # c
    BY <1>2, <1>6, <2>2 DEF PortalInv, SessionOpens, LastIsUsable
  <2> QED BY <2>1, <2>2
<1>10. \A d \in Code, h \in TokenNo : mtoken[d][h] # "none" => mtoken'[d][h] # "none"
  BY <1>4, <1>6
<1> QED BY <1>2, <1>7, <1>8, <1>9, <1>10, CallWrites

LEMMA RefuseTokenInd == ASSUME PortalInv, NEW p \in Caller, RefuseToken(p) PROVE PortalInv'
<1> DEFINE t == [step |-> "revoking", family |-> call[p].family, gen |-> call[p].gen,
                 rows |-> Unrevoked(call[p].family)]
<1>1. call[p].step = "rotating" /\ CallReads(call[p])
  BY DEF RefuseToken, PortalInv
<1>2. CallReads(t) /\ t.step = "revoking" /\ t.family = call[p].family /\ t.gen = call[p].gen
  BY <1>1 DEF CallReads, Unrevoked
<1>3. Step(p, t) /\ UNCHANGED <<link, code, session, mtoken>> /\ DOMAIN link' = Link
  BY DEF RefuseToken, PortalInv, PortalTyped
<1> HIDE DEF t
<1> QED BY <1>1, <1>2, <1>3, CallInd

LEMMA LeaveSessionInd ==
  ASSUME PortalInv, NEW p \in Caller, NEW c \in Code, LeaveSession(p, c) PROVE PortalInv'
<1> DEFINE t == [step |-> "revoking", family |-> c, gen |-> 0, rows |-> Unrevoked(c)]
<1>1. CallReads(t) /\ t.step = "revoking" /\ t.gen \notin TokenNo
  BY MemberSessionsAssumption DEF CallReads, Unrevoked, TokenNo
<1>2. Step(p, t) /\ UNCHANGED <<link, code, session, mtoken>> /\ DOMAIN link' = Link
  BY DEF LeaveSession, PortalInv, PortalTyped
<1> HIDE DEF t
<1> QED BY <1>1, <1>2, CallInd

LEMMA RevokeFamilyInd == ASSUME PortalInv, NEW p \in Caller, RevokeFamily(p) PROVE PortalInv'
<1> DEFINE c == call[p].family
           rows == call[p].rows
           tok == [g \in TokenNo |-> IF g \in rows THEN "revoked" ELSE mtoken[c][g]]
<1>1. /\ call[p].step = "revoking" /\ c \in Code /\ rows \subseteq TokenNo
      /\ \A g \in rows : mtoken[c][g] # "none"
  BY DEF RevokeFamily, PortalInv, CallReads
<1>2. /\ \A g \in rows : MTokenFree(p, c, g)
      /\ mtoken' = [mtoken EXCEPT ![c] = tok] /\ Done(p) /\ UNCHANGED <<link, code, session>>
  BY DEF RevokeFamily
<1>3. /\ tok \in [TokenNo -> TokenStatus]
      /\ \A g \in TokenNo : /\ tok[g] = "active" => mtoken[c][g] = "active"
                            /\ tok[g] = "none" <=> mtoken[c][g] = "none"
                            /\ g \notin rows => tok[g] = mtoken[c][g]
  BY <1>1 DEF PortalInv, PortalTyped, TokenStatus
<1> HIDE DEF c, rows, tok
<1>4. mtoken'[c] = tok /\ \A d \in Code : d # c => mtoken'[d] = mtoken[d]
  BY <1>1, <1>2 DEF PortalInv, PortalTyped
<1>5. PortalTyped'
  BY <1>1, <1>2, <1>3 DEF PortalInv, PortalTyped, Done, Step
<1>6. \A d \in Code, g \in TokenNo : /\ mtoken'[d][g] = "active" => mtoken[d][g] = "active"
                                     /\ mtoken'[d][g] = "none" <=> mtoken[d][g] = "none"
  BY <1>3, <1>4
<1>7. \A d \in Code : SessionOpens(d)' /\ LastIsUsable(d)'
  BY <1>2, <1>6 DEF PortalInv, SessionOpens, LastIsUsable
<1>8. ASSUME NEW q \in Caller, q # p, call[q].step = "rotating"
      PROVE  mtoken'[call[q].family][call[q].gen] = mtoken[call[q].family][call[q].gen]
  <2>1. call[q].family \in Code /\ call[q].gen \in TokenNo
    BY <1>8 DEF PortalInv, CallReads
  <2>2. CASE call[q].family = c
    <3>1. call[q].gen \notin rows
      BY <1>2, <1>8, <2>2 DEF MTokenFree, HoldsToken
    <3> QED BY <1>3, <1>4, <2>1, <2>2, <3>1
  <2>3. CASE call[q].family # c
    BY <1>4, <2>1, <2>3
  <2> QED BY <2>2, <2>3
<1> QED BY <1>2, <1>5, <1>6, <1>7, <1>8, CallWrites

LEMMA PortalStutter ==
  ASSUME PortalInv, UNCHANGED <<code, session, mtoken, call>>, DOMAIN link' = Link PROVE PortalInv'
  BY DEF PortalInv, PortalTyped, CallReads, RowsExclusive, SessionOpens, LastIsUsable

LEMMA PortalNextInd == PortalInv /\ [MemberSessionsNext]_memberSessionVars => PortalInv'
<1> SUFFICES ASSUME PortalInv, [MemberSessionsNext]_memberSessionVars PROVE PortalInv'
  OBVIOUS
<1>1. DOMAIN link = Link
  BY DEF PortalInv, PortalTyped
<1>2. ASSUME NEW h \in Holder, NEW e \in Login, CreateLink(h, e) PROVE PortalInv'
  BY <1>1, <1>2, PortalStutter DEF CreateLink
<1>3. ASSUME NEW l \in Link, RevokeLink(l) PROVE PortalInv'
  BY <1>1, <1>3, PortalStutter DEF RevokeLink
<1>4. ASSUME NEW h \in Holder, ExitMember(h) PROVE PortalInv'
  BY <1>1, <1>4, PortalStutter DEF ExitMember
<1>5. ASSUME NEW p \in Caller, NEW e \in Login, AskForCode(p, e) PROVE PortalInv'
  <2>1. PICK l \in Link : Step(p, [step |-> "send", link |-> l])
    BY <1>5 DEF AskForCode, LiveLinks, ActiveLinks
  <2>2. CallReads([step |-> "send", link |-> l])
    BY DEF CallReads
  <2>3. UNCHANGED <<link, code, session, mtoken>>
    BY <1>5 DEF AskForCode
  <2> QED BY <1>1, <2>1, <2>2, <2>3, CallInd
<1>6. ASSUME NEW p \in Caller, NEW e \in Login, EnterCode(p, e) PROVE PortalInv'
  <2>1. PICK l \in Link : Step(p, [step |-> "entered", link |-> l])
    BY <1>6 DEF EnterCode, LiveLinks, ActiveLinks
  <2>2. CallReads([step |-> "entered", link |-> l])
    BY DEF CallReads
  <2>3. UNCHANGED <<link, code, session, mtoken>>
    BY <1>6 DEF EnterCode
  <2> QED BY <1>1, <2>1, <2>2, <2>3, CallInd
<1>7. ASSUME NEW p \in Caller, NEW c \in Code, NEW g \in TokenNo, PresentToken(p, c, g) PROVE PortalInv'
  <2>1. CallReads([step |-> "peeked", family |-> c, gen |-> g])
    BY <1>7 DEF CallReads, PresentToken
  <2>2. Step(p, [step |-> "peeked", family |-> c, gen |-> g]) /\ UNCHANGED <<link, code, session, mtoken>>
    BY <1>7 DEF PresentToken
  <2> QED BY <1>1, <2>1, <2>2, CallInd
<1>8. ASSUME NEW p \in Caller, CallDies(p) PROVE PortalInv'
  BY <1>1, <1>8, NoCallReads, CallInd DEF CallDies, Done
<1>9. CASE UNCHANGED memberSessionVars
  BY <1>1, <1>9, PortalStutter DEF memberSessionVars
<1> HIDE DEF PortalInv
<1> QED
  BY <1>2, <1>3, <1>4, <1>5, <1>6, <1>7, <1>8, <1>9, SendCodeInd, FindCodeInd, LockCodeInd, AcceptCodeInd,
     RefuseCodeInd, LockTokenInd, IssueNextInd, RefuseTokenInd, RevokeFamilyInd, LeaveSessionInd, Zenon
     DEF MemberSessionsNext

\* For any members, e-mails, codes and concurrent requests: a code opens one
\* session at most, that of the link it was sent to, and a session has one
\* usable token at most.
THEOREM OneSessionOneHolder == MemberSessionsSpec => []OneHolderPerSession
<1>1. PortalInv => OneHolderPerSession
  <2> SUFFICES ASSUME PortalInv, NEW c \in Code
               PROVE  /\ session[c] # <<>> => session[c] = <<code[c].link>>
                      /\ Cardinality({g \in TokenNo : mtoken[c][g] = "active"}) <= 1
    BY DEF OneHolderPerSession
  <2>1. session[c] # <<>> => session[c] = <<code[c].link>>
    BY DEF PortalInv, SessionOpens
  <2>2. Cardinality({g \in TokenNo : mtoken[c][g] = "active"}) <= 1
    BY AtMostOneElement DEF PortalInv, LastIsUsable
  <2> QED BY <2>1, <2>2
<1> QED BY PortalInitInd, PortalNextInd, <1>1, PTL DEF MemberSessionsSpec

=============================================================================
