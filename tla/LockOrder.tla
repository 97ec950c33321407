------------------------------ MODULE LockOrder ------------------------------
(***************************************************************************)
(* The order in which the money and credit handlers lock rows              *)
(* (backend/src/genesis/application/transactions.py, member_exits.py,      *)
(* guarantees.py, loan_applications.py, ledger.py, loans.py,               *)
(* corrections.py, dividends.py and deposit_interest.py; the convention is *)
(* docs/diagrams/lock-order.md).                                           *)
(*                                                                         *)
(* A call is one database transaction.  It asks for its locks one after    *)
(* the other, waits for each, and keeps all of them until it commits or    *)
(* rolls back.  Besides the SELECT .. FOR UPDATE and FOR SHARE of the      *)
(* source, an UPDATE locks the row it changes, and an INSERT of a row with *)
(* a member_id locks that member FOR KEY SHARE (the foreign keys of        *)
(* migration 0001).                                                        *)
(*                                                                         *)
(* Abstractions.  A member has one row in each table, the guarantees       *)
(* behind its borrowing are one row, and a workflow row (exit, transfer,   *)
(* write-off) is one per member it is about.  Handlers that wait while     *)
(* holding nothing, or hold but never wait (votes, consent, close_period,  *)
(* the arrears and dormancy scans), cannot be part of a deadlock and are   *)
(* left out; so is the period barrier, which every posting shares and only *)
(* close_period takes exclusively (a posting queued behind a waiting close *)
(* is let through by the server's deadlock detector).                      *)
(***************************************************************************)
EXTENDS Integers, Sequences

CONSTANTS
  Session,      \* concurrent database sessions
  LastMember,   \* members are 1 .. LastMember, in the order of their ids
  Handlers,     \* the handlers that run
  Apart         \* pairs {g, h} of handlers taken never to overlap

MemberId == 1 .. LastMember
NoCall == "none"

ASSUME LockAssumption ==
  /\ LastMember \in Nat
  /\ NoCall \notin Handlers

VARIABLES
  call,   \* call[s]: the handler session s runs, with its members
  todo,   \* todo[s]: the locks and checks it has yet to go through
  held,   \* held[s]: the locks it has
  open    \* members with an application in _OPEN_STAGES

lockVars == <<call, todo, held, open>>

-----------------------------------------------------------------------------
(* Locks.                                                                  *)

Mode == {"key share", "share", "write", "update"}

\* PostgreSQL's row-lock conflicts ("write" is FOR NO KEY UPDATE).  The
\* exclusive advisory lock of a prefix is an "update".
ConflictsWith ==
  [ m \in Mode |->
      CASE m = "key share" -> {"update"}
        [] m = "share"     -> {"write", "update"}
        [] m = "write"     -> {"share", "write", "update"}
        [] m = "update"    -> Mode ]

Lock(table, key, mode) == [table |-> table, key |-> key, mode |-> mode]
Clash(a, b) ==
  /\ a.table = b.table
  /\ a.key = b.key
  /\ a.mode \in ConflictsWith[b.mode]

\* Checks between two locks: the call ends with an error unless they hold.
IfOpen(m) == Lock("check", m, "open")
IfNoneOpen(m) == Lock("check", m, "none open")

-----------------------------------------------------------------------------
(* What each handler asks for, in its order.                               *)

\* ledger._post: the advisory lock of the prefix, INSERT INTO transactions.
Post(prefix, m) == <<Lock("ref", prefix, "update"), Lock("members", m, "key share")>>

\* transactions.py; share top-ups and fees lock like a withdrawal.
Deposit(m)    == <<Lock("members", m, "update"), Lock("deposit", m, "update")>> \o Post("MP-", m)
Withdrawal(m) == <<Lock("members", m, "share"), Lock("deposit", m, "update")>> \o Post("WD-", m)

\* Fault variant: _lock_member in shared mode.
ComputeUnderLocksShared(m) == <<Lock("members", m, "share"), Lock("deposit", m, "update"),
                                Lock("shares", m, "update"), IfNoneOpen(m),
                                Lock("loans", m, "update")>>

\* _lock_member and _compute_under_locks: an open application is an error.
ComputeUnderLocks(m) == <<Lock("members", m, "update"), Lock("deposit", m, "update"),
                          Lock("shares", m, "update"), IfNoneOpen(m),
                          Lock("loans", m, "update")>>

\* member_exits.post_settlement; request_exit takes its middle part alone.
Settlement(m) == <<Lock("member_exits", m, "update")>> \o ComputeUnderLocks(m)
                 \o Post("WD-", m) \o <<Lock("guarantees", m, "write")>>

\* create_application; the caller's row is opened at commit.
Application(m) == <<Lock("members", m, "share")>>

\* Stage changes to rejected, and the pledges they release.
Rejection(b) == <<Lock("applications", b, "update"), IfOpen(b),
                  Lock("guarantees", b, "write")>>

\* guarantees.py: capacity of guarantor g, then the INSERT INTO guarantees.
Pledge(b, g) == <<Lock("deposit", g, "update"), Lock("members", g, "key share"),
                  Lock("members", b, "key share")>>
PledgeGuarantee(b, g) == <<Lock("applications", b, "update"), IfOpen(b),
                           Lock("members", g, "share")>> \o Pledge(b, g)
Substitution(b, g) == <<Lock("applications", b, "update"), Lock("loans", b, "update"),
                        Lock("guarantees", b, "update"), Lock("members", g, "share")>>
                      \o Pledge(b, g)

\* release_guarantee before the loan, with the cover guard's deposit lock; and
\* of a guarantee not yet consented to when the loan was paid out (an active one
\* is a 409).
Release(b) == <<Lock("applications", b, "update"), Lock("guarantees", b, "update"),
                IfOpen(b), Lock("deposit", b, "update")>>
LoanRelease(b) == <<Lock("applications", b, "update"), Lock("loans", b, "update"),
                    Lock("guarantees", b, "update")>>

\* ledger.disburse_loan: deposit, INSERT INTO loans, link, posting.
Disbursement(b) == <<Lock("applications", b, "update"), IfOpen(b),
                     Lock("deposit", b, "update"), Lock("members", b, "key share"),
                     Lock("guarantees", b, "write")>> \o Post("LN-", b)

\* loans.record_repayment of a loan it pays off.
Repayment(b) == <<Lock("loans", b, "update")>> \o Post("RP-", b)
                \o <<Lock("guarantees", b, "write")>>

\* corrections.py
Adjustment(b) == <<Lock("transactions", b, "update"), Lock("members", b, "share"),
                   Lock("loans", b, "update")>> \o Post("RP-", b)
WriteOff(b)   == <<Lock("loan_write_offs", b, "update"), Lock("loans", b, "update")>>
                 \o Post("WO-", b)
Receipt(b)    == <<Lock("loan_write_offs", b, "update"), Lock("members", b, "share"),
                   Lock("loans", b, "update")>> \o Post("RC-", b)
                 \o <<Lock("guarantees", b, "write")>>

\* Fault variant: the two members are locked as the caller names them.
InIdOrderUnsorted(a, b) == <<a, b>>

\* sorted((from_member_id, to_member_id))
InIdOrder(a, b) == IF a < b THEN <<a, b>> ELSE <<b, a>>

\* dividends.approve_share_transfer; two postings, one per member.
Transfer(a, b) ==
  LET pair == InIdOrder(a, b)
      Each(table) == [i \in 1 .. 2 |-> Lock(table, pair[i], "update")]
  IN  <<Lock("share_transfers", a, "update")>> \o Each("members") \o Each("shares")
      \o Post("ST-", a) \o Post("ST-", b)

\* _distribute_one under a member row the batch scan holds, and the posting
\* of one account the interest scan holds.
DistributeOne(m) == <<Lock("deposit", m, "update"), Lock("shares", m, "update")>> \o Post("DV-", m)
InterestOne(m) == Post("INT-", m)

\* The members of a batch, one after the other in one transaction.
Batch(one, S) ==
  LET upTo[m \in 0 .. LastMember] ==
        IF m = 0 THEN <<>> ELSE upTo[m - 1] \o (IF m \in S THEN one[m] ELSE <<>>)
  IN  upTo[LastMember]

\* A handler of two members, and of one.
ScriptOfTwo(h, a, b) ==
  CASE h = "transfer"   -> Transfer(a, b)
    [] h = "pledge"     -> PledgeGuarantee(a, b)
    [] h = "substitute" -> Substitution(a, b)
    [] OTHER -> <<>>

ScriptOfOne(h, m) ==
  CASE h = "deposit"  -> Deposit(m)
    [] h = "withdraw" -> Withdrawal(m)
    [] h = "settle"   -> Settlement(m)
    [] h = "create"   -> Application(m)
    [] h = "reject"   -> Rejection(m)
    [] h = "release"  -> Release(m)
    [] h = "releaseLoan" -> LoanRelease(m)
    [] h = "disburse" -> Disbursement(m)
    [] h = "repay"    -> Repayment(m)
    [] h = "adjust"   -> Adjustment(m)
    [] h = "writeOff" -> WriteOff(m)
    [] h = "receipt"  -> Receipt(m)
    [] OTHER -> <<>>

-----------------------------------------------------------------------------
(* Sessions.                                                               *)

AtRest(s) == call[s] = [handler |-> NoCall, of |-> 0]

Waiting(s) == todo[s] # <<>> /\ Head(todo[s]).table # "check"

\* The sessions s waits for.
Blockers(s) ==
  {r \in Session \ {s} : Waiting(s) /\ \E l \in held[r] : Clash(l, Head(todo[s]))}

MayRun(h) ==
  /\ h \in Handlers
  /\ \A s \in Session : {h, call[s].handler} \notin Apart

BeginCall(s, h, m, script, locks) ==
  /\ MayRun(h)
  /\ script # <<>>
  /\ call' = [call EXCEPT ![s] = [handler |-> h, of |-> m]]
  /\ todo' = [todo EXCEPT ![s] = script]
  /\ held' = [held EXCEPT ![s] = locks]
  /\ UNCHANGED open

Start(s) ==
  /\ AtRest(s)
  /\ \E h \in Handlers, m \in MemberId :
       \/ BeginCall(s, h, m, ScriptOfOne(h, m), {})
       \/ \E n \in MemberId \ {m} : BeginCall(s, h, m, ScriptOfTwo(h, m, n), {})

\* The rows of a table a FOR UPDATE SKIP LOCKED scan gets: those nobody has
\* locked, as many as the batch takes.
ScanGets(table, S) ==
  \A m \in S, r \in Session : \A l \in held[r] : ~Clash(l, Lock(table, m, "update"))
ScanLocks(table, S) == {Lock(table, m, "update") : m \in S}

Distribute(s) ==
  /\ AtRest(s)
  /\ \E S \in SUBSET MemberId :
       /\ ScanGets("members", S)
       /\ BeginCall(s, "distribute", 0, Batch([m \in MemberId |-> DistributeOne(m)], S),
                    ScanLocks("members", S))

AccrueInterest(s) ==
  /\ AtRest(s)
  /\ \E S \in SUBSET MemberId :
       /\ ScanGets("deposit", S)
       /\ BeginCall(s, "interest", 0, Batch([m \in MemberId |-> InterestOne(m)], S),
                    ScanLocks("deposit", S))

Acquire(s) ==
  /\ Waiting(s)
  /\ Blockers(s) = {}
  /\ held' = [held EXCEPT ![s] = @ \cup {Head(todo[s])}]
  /\ todo' = [todo EXCEPT ![s] = Tail(@)]
  /\ UNCHANGED <<call, open>>

CheckHolds(check) == (check.mode = "open") <=> (check.key \in open)

PassCheck(s) ==
  /\ ~AtRest(s) /\ todo[s] # <<>> /\ ~Waiting(s)
  /\ CheckHolds(Head(todo[s]))
  /\ todo' = [todo EXCEPT ![s] = Tail(@)]
  /\ UNCHANGED <<call, held, open>>

End(s) ==
  /\ call' = [call EXCEPT ![s] = [handler |-> NoCall, of |-> 0]]
  /\ todo' = [todo EXCEPT ![s] = <<>>]
  /\ held' = [held EXCEPT ![s] = {}]

\* A check fails, a later error, or the connection goes away.
AbortCall(s) ==
  /\ ~AtRest(s)
  /\ End(s)
  /\ UNCHANGED open

CommitCall(s) ==
  /\ ~AtRest(s)
  /\ todo[s] = <<>>
  /\ End(s)
  /\ open' = CASE call[s].handler = "create" -> open \cup {call[s].of}
               [] call[s].handler \in {"disburse", "reject"} -> open \ {call[s].of}
               [] OTHER -> open

LockInit ==
  /\ call = [s \in Session |-> [handler |-> NoCall, of |-> 0]]
  /\ todo = [s \in Session |-> <<>>]
  /\ held = [s \in Session |-> {}]
  /\ open = {}

LockNext ==
  \E s \in Session :
    \/ Start(s)
    \/ Distribute(s)
    \/ AccrueInterest(s)
    \/ Acquire(s)
    \/ PassCheck(s)
    \/ AbortCall(s)
    \/ CommitCall(s)

LockSpec == LockInit /\ [][LockNext]_lockVars

-----------------------------------------------------------------------------
(* Properties.                                                             *)

\* The pairs of handlers that can wait for each other for ever, because one of
\* them reaches a member only through a foreign key: most of them alone,
\* transfer with interest or repay through a third call, transfer with writeOff
\* through two more.
Crossing ==
  {{"disburse", h} : h \in {"deposit", "settle", "distribute"}}
  \cup {{"interest", h} : h \in {"deposit", "settle", "distribute", "transfer"}}
  \cup {{"settle", h} : h \in {"repay", "writeOff", "substitute"}}
  \cup {{"transfer", h} : h \in {"pledge", "substitute", "repay", "writeOff"}}

\* A settlement past its check is still right about it when it commits: the
\* member lock keeps create_application out from the check to the commit.
NoneOpenAtSettlement ==
  \A s \in Session : \A m \in MemberId :
    /\ call[s] = [handler |-> "settle", of |-> m]
    /\ Lock("shares", m, "update") \in held[s]
    /\ ~\E i \in DOMAIN todo[s] : todo[s][i] = IfNoneOpen(m)
    => m \notin open

\* No deadlock: in every set of sessions one waits for nobody of the set,
\* whatever the handlers and their members (the claim of lock-order.md).
NoDeadlock ==
  \A S \in (SUBSET Session) \ {{}} :
    \E s \in S : Blockers(s) \cap S = {}
=============================================================================
