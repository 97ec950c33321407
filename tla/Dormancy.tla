------------------------------ MODULE Dormancy ------------------------------
(***************************************************************************)
(* The nightly dormancy job (application/dormancy, domain/members,         *)
(* infrastructure/dormancy_worker in backend/src/genesis) beside the       *)
(* transactions that keep a member active or reactivate her.               *)
(*                                                                         *)
(* A batch is a transaction of two steps: the scan's snapshot, then the    *)
(* row locks with the transitions and the commit.  A locked row is skipped *)
(* and one that changed since the snapshot is judged again; a member who   *)
(* made a transaction is not such a row unless her status changed.  A      *)
(* handler locks the member row, reads her status, and commits later.      *)
(*                                                                         *)
(* Abstractions.  Dates are days of a short calendar; a member's ledger is *)
(* the last day of her own transactions.                                   *)
(***************************************************************************)
EXTENDS Integers, FiniteSets, FiniteSetsExt

CONSTANTS
  Saver,           \* members, as numbers in id order
  DormancyWorker,  \* runs: the nightly cycle, an officer's request
  ScanSize,        \* members per batch
  Window,          \* the days a configured dormancy period may have
  FirstDay, LastDay \* bounds of the calendar

ASSUME DormancyAssumption ==
  /\ Saver \subseteq Nat /\ IsFiniteSet(Saver)
  /\ ScanSize \in Nat \ {0} /\ Window \subseteq Nat \ {0}
  /\ FirstDay \in Nat /\ LastDay \in Nat

VARIABLES
  day,
  window,        \* the configured period, 0 while there is none
  standing,      \* standing[m]: "active", "arrears" or "dormant"
  joined,        \* joined[m]: day of admission
  activeOn,      \* activeOn[m]: day of the last member-initiated transaction
  handler,       \* handler[m]: the money transaction that holds m's row
  night          \* night[w]: the run of worker w

dormancyVars == <<day, window, standing, joined, activeOn, handler, night>>

NoHandler == [kind |-> "none"]
NoNight == [step |-> "idle"]

DormancyInit ==
  /\ day = FirstDay
  /\ window = 0
  /\ standing = [m \in Saver |-> "active"]
  /\ joined = [m \in Saver |-> 0]
  /\ activeOn = [m \in Saver |-> 0]
  /\ handler = [m \in Saver |-> NoHandler]
  /\ night = [w \in DormancyWorker |-> NoNight]

-----------------------------------------------------------------------------
(* Around the job.                                                         *)

ConfigureWindow(n) ==
  /\ window # n
  /\ window' = n
  /\ UNCHANGED <<day, standing, joined, activeOn, handler, night>>

NextDay ==
  /\ day < LastDay
  /\ day' = day + 1
  /\ UNCHANGED <<window, standing, joined, activeOn, handler, night>>

\* An officer flags arrears, or lifts them.
FlagArrears(m) ==
  /\ handler[m] = NoHandler
  /\ standing[m] \in {"active", "arrears"}
  /\ standing' = [standing EXCEPT ![m] = IF @ = "active" THEN "arrears" ELSE "active"]
  /\ UNCHANGED <<day, window, joined, activeOn, handler, night>>

\* Fees and other system postings are no activity of the member's.
MemberInitiated == {"deposit", "repayment", "withdrawal"}
Kinds == MemberInitiated \union {"fee"}

\* Only an active member may withdraw.
BeginTransaction(m, kind) ==
  /\ handler[m] = NoHandler
  /\ kind = "withdrawal" => standing[m] = "active"
  /\ handler' = [handler EXCEPT ![m] = [kind |-> kind, saw |-> standing[m]]]
  /\ UNCHANGED <<day, window, standing, joined, activeOn, night>>

Reactivated(h, now) == IF h.kind = "deposit" /\ h.saw = "dormant" THEN "active" ELSE now

CommitTransaction(m) ==
  /\ handler[m] # NoHandler
  /\ activeOn' = [activeOn EXCEPT ![m] =
       IF handler[m].kind \in MemberInitiated THEN day ELSE @]
  /\ standing' = [standing EXCEPT ![m] = Reactivated(handler[m], @)]
  /\ handler' = [handler EXCEPT ![m] = NoHandler]
  /\ UNCHANGED <<day, window, joined, night>>

-----------------------------------------------------------------------------
(* The job.                                                                *)

\* Without a usable period the run is refused.
StartNight(w) ==
  /\ night[w] = NoNight
  /\ window # 0
  /\ night' = [night EXCEPT ![w] = [step |-> "scan", cutoff |-> day - window, after |-> 0]]
  /\ UNCHANGED <<day, window, standing, joined, activeOn, handler>>

\* Fault variant: activity on the cutoff day counts as outside the window.
QuietOnCutoff(m, cutoff) == joined[m] < cutoff /\ activeOn[m] <= cutoff
Quiet(m, cutoff) == joined[m] < cutoff /\ activeOn[m] < cutoff

Dormable(w) ==
  {m \in Saver : standing[m] = "active" /\ Quiet(m, night[w].cutoff) /\ m > night[w].after}

\* The scan reads each member's last activity for the audit row.
DormancyScan(w) ==
  /\ night[w].step = "scan"
  /\ night' = [night EXCEPT ![w] =
       [step |-> "mark", cutoff |-> @.cutoff, after |-> @.after,
        found |-> {[member |-> m, last |-> activeOn[m]] : m \in Dormable(w)}]]
  /\ UNCHANGED <<day, window, standing, joined, activeOn, handler>>

Leading(S) == {m \in S : Cardinality({n \in S : n < m}) < ScanSize}

MarkDormant(w) ==
  /\ night[w].step = "mark"
  /\ LET rows == Leading({row.member : row \in
                      {r \in night[w].found : handler[r.member] = NoHandler /\ standing[r.member] = "active"}})
     IN
     /\ standing' = [m \in Saver |-> IF m \in rows THEN "dormant" ELSE standing[m]]
     /\ night' = [night EXCEPT ![w] =
          IF Cardinality(rows) < ScanSize THEN NoNight
          ELSE [step |-> "scan", cutoff |-> @.cutoff, after |-> Max(rows)]]
  /\ UNCHANGED <<day, window, joined, activeOn, handler>>

\* The worker dies; its open batch rolls back.
NightDies(w) ==
  /\ night[w] # NoNight
  /\ night' = [night EXCEPT ![w] = NoNight]
  /\ UNCHANGED <<day, window, standing, joined, activeOn, handler>>

DormancyNext ==
  \/ \E n \in Window : ConfigureWindow(n)
  \/ NextDay
  \/ \E m \in Saver : FlagArrears(m) \/ CommitTransaction(m)
  \/ \E m \in Saver, kind \in Kinds : BeginTransaction(m, kind)
  \/ \E w \in DormancyWorker : StartNight(w) \/ DormancyScan(w) \/ MarkDormant(w) \/ NightDies(w)

DormancySpec == DormancyInit /\ [][DormancyNext]_dormancyVars

-----------------------------------------------------------------------------

(* A member marked dormant with a transaction of her own in the period of *)
(* the run committed it after the scan had read her ledger, never before.  *)
(* A deposit that finds her dormant makes her active again.                *)
DormancyFollowsLedger ==
  [][\A m \in Saver :
       /\ \A w \in DormancyWorker :
            MarkDormant(w) /\ standing[m] # standing'[m] /\ activeOn[m] >= night[w].cutoff
              => [member |-> m, last |-> activeOn[m]] \notin night[w].found
       /\ handler[m] # NoHandler /\ handler'[m] = NoHandler /\ handler[m].kind = "deposit"
            => standing'[m] # "dormant"]_dormancyVars

(* Whichever of a transaction and the job comes first, a member with a     *)
(* transaction of her own in the period of the run is not left dormant by  *)
(* it (application/dormancy: "never Active silently overwritten").         *)
DepositKeepsActive ==
  [][\A m \in Saver, w \in DormancyWorker :
       MarkDormant(w) /\ standing[m] = "active" /\ standing'[m] = "dormant"
         => activeOn[m] < night[w].cutoff]_dormancyVars

=============================================================================
