------------------------------- MODULE Recovery -------------------------------
(***************************************************************************)
(* Recovery cases (application/recovery, domain/recovery in                *)
(* backend/src/genesis): staff open a case on a non-performing loan, work  *)
(* it from screens that may be stale, pause it or close it as              *)
(* restructured; the close pass at the end of an arrears run closes the    *)
(* cases whose loan is cured or written off.                               *)
(*                                                                         *)
(* A staff action is one transaction that locks the case row first.  A     *)
(* batch of the close pass is two steps: the statement's snapshot, then    *)
(* the row locks (a case held elsewhere is skipped, a case that changed    *)
(* since is judged again by its own columns, the joined loan is not) with  *)
(* the closes and the commit.                                              *)
(*                                                                         *)
(* Abstractions.  fact[l] is all that cases read of a loan; repayments,    *)
(* arrears runs, adjustments and write-offs change it.  Texts are left     *)
(* out, notes are counted, and the keyset of the pass is one batch.        *)
(***************************************************************************)
EXTENDS Naturals, FiniteSets

CONSTANTS
  RecoveryLoan,
  Case,            \* case ids, used once each
  Officer,         \* staff whose role holds loan_book:view, and the auditors
  Auditor,         \* staff with an assurance role
  MaxNotes,        \* bound on the notes of a case
  MaxVersion       \* bound on the versions of a case

ASSUME RecoveryAssumption ==
  Auditor \subseteq Officer /\ MaxNotes \in Nat /\ MaxVersion \in Nat

Pause == {"irrecoverable_pending_write_off", "disputed"}
Live == {"open"} \union Pause
Terminal == {"closed_cured", "closed_written_off", "closed_restructured"}
StaffTargets == {"open"} \union Pause \union {"closed_restructured"}
Unassigned == "unassigned"

VARIABLES
  fact,      \* fact[l]: "performing" or "npl" while active, "closed", "written_off"
  case,      \* recovery_cases; none is NoCase
  screen,    \* screen[u]: what officer u last read of a case
  pass       \* cases a batch of the close pass saw, with the outcome it saw

recoveryVars == <<fact, case, screen, pass>>

NoCase == [status |-> "none"]
NoScreen == [id |-> "none"]
IdlePass == [running |-> FALSE, seen |-> {}, outcome |-> {}]

RecoveryInit ==
  /\ fact = [l \in RecoveryLoan |-> "npl"]
  /\ case = [c \in Case |-> NoCase]
  /\ screen = [u \in Officer |-> NoScreen]
  /\ pass = IdlePass

\* domain/recovery: any live case may close, a pause may only resume or close.
MayMove(from, to) ==
  \/ from = "open" /\ to \in Pause \union Terminal
  \/ from \in Pause /\ to \in {"open"} \union Terminal

-----------------------------------------------------------------------------

\* Everything else in the system; an adjustment may reopen a closed loan.
LoanMoves ==
  {<<"npl", "performing">>, <<"performing", "npl">>, <<"npl", "closed">>,
   <<"npl", "written_off">>, <<"closed", "performing">>}
LoanChanges(l, to) ==
  /\ <<fact[l], to>> \in LoanMoves
  /\ fact' = [fact EXCEPT ![l] = to]
  /\ UNCHANGED <<case, screen, pass>>

Blocking == Live

OpenRecoveryCase(c, l) ==
  /\ case[c] = NoCase
  /\ fact[l] = "npl"
  /\ ~\E d \in Case : case[d].status \in Blocking /\ case[d].loan = l
  /\ case' = [case EXCEPT ![c] =
       [status |-> "open", loan |-> l, assignee |-> Unassigned, version |-> 1,
        notes |-> 0, outcomeNotes |-> 0]]
  /\ UNCHANGED <<fact, screen, pass>>

GetRecoveryCase(u, c) ==
  /\ case[c] # NoCase
  /\ screen' = [screen EXCEPT ![u] =
       [id |-> c, status |-> case[c].status, assignee |-> case[c].assignee, version |-> case[c].version]]
  /\ UNCHANGED <<fact, case, pass>>

\* The screen's version is the row's.
Fresh(u, c) == screen[u] # NoScreen /\ screen[u].id = c /\ screen[u].version = case[c].version

Assigned(row, to) == [row EXCEPT !.assignee = to, !.version = @ + 1]

AssignRecoveryCase(u, c, to) ==
  /\ case[c].status = "open" /\ Fresh(u, c) /\ case[c].version < MaxVersion
  /\ to \in Officer \ Auditor
  /\ case' = [case EXCEPT ![c] = Assigned(@, to)]
  /\ UNCHANGED <<fact, screen, pass>>

\* Closing as restructured writes its outcome note in the same transaction.
SetCaseDisposition(u, c, to) ==
  LET restructured == to = "closed_restructured" IN
  /\ to \in StaffTargets
  /\ Fresh(u, c) /\ case[c].version < MaxVersion
  /\ MayMove(case[c].status, to)
  /\ restructured => case[c].outcomeNotes = 0
  /\ case' = [case EXCEPT ![c].status = to, ![c].version = @ + 1,
                          ![c].outcomeNotes = IF restructured THEN @ + 1 ELSE @]
  /\ UNCHANGED <<fact, screen, pass>>

AddRecoveryNote(c) ==
  /\ case[c].status \in Live /\ case[c].notes < MaxNotes
  /\ case' = [case EXCEPT ![c].notes = @ + 1]
  /\ UNCHANGED <<fact, screen, pass>>

AddOutcomeNote(c) ==
  /\ case[c].status \in Terminal /\ case[c].outcomeNotes = 0
  /\ case' = [case EXCEPT ![c].outcomeNotes = 1]
  /\ UNCHANGED <<fact, screen, pass>>

-----------------------------------------------------------------------------
(* The close pass.                                                         *)

Outcome(f) == IF f = "written_off" THEN "closed_written_off" ELSE "closed_cured"
Closable(c) == case[c].status \in Live /\ fact[case[c].loan] # "npl"

CloseScan ==
  /\ ~pass.running
  /\ \E c \in Case : Closable(c)
  /\ LET seen == {c \in Case : Closable(c)} IN
     pass' = [running |-> TRUE, seen |-> seen,
              outcome |-> {<<c, Outcome(fact[case[c].loan])>> : c \in seen}]
  /\ UNCHANGED <<fact, case, screen>>

\* Fault variant: the row lock does not judge a changed case again.
StillLiveTrusted(c) == TRUE
StillLive(c) == case[c].status \in Live

\* free: the cases no other session holds a lock on.
CloseBatch(free) ==
  /\ pass.running
  /\ LET closed == {c \in pass.seen \intersect free : StillLive(c)} IN
     case' = [c \in Case |->
       IF c \in closed
       THEN [case[c] EXCEPT !.version = @ + 1,
                            !.status = CHOOSE o \in Terminal : <<c, o>> \in pass.outcome]
       ELSE case[c]]
  /\ pass' = IdlePass
  /\ UNCHANGED <<fact, screen>>

RecoveryNext ==
  \/ \E l \in RecoveryLoan, to \in {"performing", "npl", "closed", "written_off"} : LoanChanges(l, to)
  \/ \E c \in Case, l \in RecoveryLoan : OpenRecoveryCase(c, l)
  \/ \E u \in Officer, c \in Case : GetRecoveryCase(u, c)
  \/ \E u, to \in Officer, c \in Case : AssignRecoveryCase(u, c, to)
  \/ \E u \in Officer, c \in Case, to \in StaffTargets : SetCaseDisposition(u, c, to)
  \/ \E c \in Case : AddRecoveryNote(c) \/ AddOutcomeNote(c)
  \/ CloseScan
  \/ \E free \in SUBSET Case : CloseBatch(free)

RecoverySpec == RecoveryInit /\ [][RecoveryNext]_recoveryVars

-----------------------------------------------------------------------------

(* A closed case stays as it was closed, whatever the close pass and other *)
(* officers were about to do to it: status, assignee and working notes are *)
(* frozen, and it gets at most one outcome note.                           *)
ClosedCaseIsFinal ==
  [][\A c \in Case : case[c].status \in Terminal =>
       case'[c] = case[c] \/ (case[c].outcomeNotes = 0 /\ case'[c] = [case[c] EXCEPT !.outcomeNotes = 1])
    ]_recoveryVars

=============================================================================
