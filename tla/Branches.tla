------------------------------ MODULE Branches ------------------------------
(***************************************************************************)
(* The branch registry (application/branches in backend/src/genesis):      *)
(* branches are created and renamed, people assign users and members to    *)
(* them, and a backfill run turns the legacy branch text of users into     *)
(* branches and links, batch by batch.                                     *)
(*                                                                         *)
(* No handler locks a row before it writes.  An assignment is two steps:   *)
(* the unlocked reads, then the UPDATE guarded by the caller's version.  A *)
(* batch is three: the scan, the claim of the branch names (an uncommitted *)
(* branch is invisible, but its name makes others wait), and the links     *)
(* with the commit.                                                        *)
(*                                                                         *)
(* Abstractions.  Users and members are one table of targets: a target     *)
(* without legacy text is a member or a user never given one.  Texts are   *)
(* trimmed; everything an edit writes besides the text is left out.        *)
(***************************************************************************)
EXTENDS Integers, FiniteSets, FiniteSetsExt

CONSTANTS
  BranchId,        \* ids, as numbers above Unlinked; each is used once
  BranchName,
  LegacyName,      \* the names in the texts that users have to begin with
  Target,          \* rows of users and members, as numbers in id order
  Assigner,        \* concurrent assignments
  Filler,          \* backfill runs
  LinkBatch,       \* batch_size
  MaxTargetVersion, MaxBranchVersion   \* bounds on the edits of a row

ASSUME BranchesAssumption ==
  /\ BranchId \subseteq Nat \ {0} /\ Target \subseteq Nat \ {0}
  /\ LegacyName \subseteq BranchName
  /\ IsFiniteSet(BranchId) /\ IsFiniteSet(Target)
  /\ LinkBatch \in Nat \ {0}
  /\ MaxTargetVersion \in Nat /\ MaxBranchVersion \in Nat

NoText == "blank"
Unlinked == 0
Committed == "committed"

VARIABLES
  branch,      \* branch[b]: NoBranch, or [name, version, by] with by the run that has not committed it
  target,      \* target[t]: [text, branch, version]
  assigning,   \* assigning[k]: what assigner k has read
  fill         \* fill[f]: the state of a run

branchesVars == <<branch, target, assigning, fill>>

NoBranch == [name |-> NoText]
NotAssigning == [target |-> 0]
\* due: the targets to link that the run was started for (no code reads it).
NoFill == [step |-> "idle", after |-> 0, rows |-> {}, due |-> {}]

BranchesInit ==
  /\ branch = [b \in BranchId |-> NoBranch]
  /\ \E text \in [Target -> LegacyName \union {NoText}] :
       target = [t \in Target |-> [text |-> text[t], branch |-> Unlinked, version |-> 1]]
  /\ assigning = [k \in Assigner |-> NotAssigning]
  /\ fill = [f \in Filler |-> NoFill]

Rows == {b \in BranchId : branch[b] # NoBranch}
Exists(b) == b \in Rows /\ branch[b].by = Committed
NameTaken(n) == \E b \in Rows : branch[b].name = n
NameHeld(n) == \E b \in Rows : branch[b].name = n /\ branch[b].by # Committed
NextId == Min(BranchId \ Rows)

-----------------------------------------------------------------------------

\* A taken name is refused; a name inserted by an open transaction is waited for.
CreateBranch(n) ==
  /\ ~NameTaken(n) /\ Rows # BranchId
  /\ branch' = [branch EXCEPT ![NextId] = [name |-> n, version |-> 1, by |-> Committed]]
  /\ UNCHANGED <<target, assigning, fill>>

UpdateBranch(b, n) ==
  /\ Exists(b) /\ branch[b].version < MaxBranchVersion
  /\ ~NameTaken(n)
  /\ branch' = [branch EXCEPT ![b].name = n, ![b].version = @ + 1]
  /\ UNCHANGED <<target, assigning, fill>>

\* A profile edit (update_user, update_member): the text is set, or kept.
EditTarget(t, text) ==
  /\ target[t].version < MaxTargetVersion
  /\ target' = [target EXCEPT ![t].text = text, ![t].version = @ + 1]
  /\ fill' = IF text = target[t].text THEN fill
             ELSE [f \in Filler |-> [fill[f] EXCEPT !.due = @ \ {t}]]
  /\ UNCHANGED <<branch, assigning>>

\* The caller's version; one that is stale already is refused in any case.
BeginAssign(k, t, b) ==
  /\ assigning[k] = NotAssigning
  /\ Exists(b) /\ target[t].branch # b
  /\ target[t].version < MaxTargetVersion
  /\ assigning' = [assigning EXCEPT ![k] = [target |-> t, branch |-> b, version |-> target[t].version]]
  /\ UNCHANGED <<branch, target, fill>>

FinishAssign(k) ==
  /\ assigning[k] # NotAssigning
  /\ LET a == assigning[k] IN
     target' = IF target[a.target].version # a.version THEN target
               ELSE [target EXCEPT ![a.target].branch = a.branch, ![a.target].version = @ + 1]
  /\ assigning' = [assigning EXCEPT ![k] = NotAssigning]
  /\ UNCHANGED <<branch, fill>>

-----------------------------------------------------------------------------
(* The backfill.                                                           *)

Due == {t \in Target : target[t].text # NoText /\ target[t].branch = Unlinked}

LeastOf(T) == {t \in T : Cardinality({u \in T : u < t}) < LinkBatch}
ScannedRows(after) == {<<t, target[t].text>> : t \in LeastOf({t \in Due : t > after})}

StartFill(f) ==
  /\ fill[f].step = "idle"
  /\ fill' = [fill EXCEPT ![f] = [step |-> "claim", after |-> 0, rows |-> ScannedRows(0), due |-> Due]]
  /\ UNCHANGED <<branch, target, assigning>>

ScanDue(f) ==
  /\ fill[f].step = "scan"
  /\ fill' = [fill EXCEPT ![f] = [@ EXCEPT !.step = "claim", !.rows = ScannedRows(fill[f].after)]]
  /\ UNCHANGED <<branch, target, assigning>>

NamesOf(rows) == {r[2] : r \in rows}

\* One branch per name: a new row where the name is free.
ClaimNames(f) ==
  /\ fill[f].step = "claim"
  /\ \A n \in NamesOf(fill[f].rows) : ~NameHeld(n)
  /\ LET new == {n \in NamesOf(fill[f].rows) : ~NameTaken(n)}
         free == BranchId \ Rows IN
     /\ Cardinality(new) <= Cardinality(free)
     /\ \E put \in [new -> free] :
          /\ \A m, n \in new : put[m] = put[n] => m = n
          /\ branch' = [b \in BranchId |->
               IF \E n \in new : put[n] = b
               THEN [name |-> CHOOSE n \in new : put[n] = b, version |-> 1, by |-> f]
               ELSE branch[b]]
          /\ fill' = [fill EXCEPT ![f].step = "link",
               ![f].rows = {<<r[1], r[2], IF r[2] \in new THEN put[r[2]]
                                          ELSE CHOOSE b \in Rows : branch[b].name = r[2]>> : r \in @}]
  /\ UNCHANGED <<target, assigning>>

\* Fault variant: the link trusts the scan.
StillDueTrusted(t, text) == target[t].text = text
StillDue(t, text) == target[t].text = text /\ target[t].branch = Unlinked

\* The runner goes on after a full batch.
MoreToScan(rows) == Cardinality(rows) >= LinkBatch

LinkTargets(f) ==
  /\ fill[f].step = "link"
  /\ LET rows == fill[f].rows
         linked == {r \in rows : StillDue(r[1], r[2])} IN
     /\ target' = [t \in Target |->
          IF \E r \in linked : r[1] = t
          THEN [target[t] EXCEPT !.branch = (CHOOSE r \in linked : r[1] = t)[3], !.version = @ + 1]
          ELSE target[t]]
     /\ branch' = [b \in BranchId |->
          IF b \in Rows /\ branch[b].by = f THEN [branch[b] EXCEPT !.by = Committed] ELSE branch[b]]
     /\ fill' = [fill EXCEPT ![f] =
          IF MoreToScan(rows)
          THEN [@ EXCEPT !.step = "scan", !.after = Max({r[1] : r \in rows}), !.rows = {}]
          ELSE [NoFill EXCEPT !.step = "done"]]
  /\ UNCHANGED assigning

\* An error (a branch renamed between the refused insert and its lookup, a
\* deadlock between two runs) or a lost connection ends the run; its open batch is rolled back.
FillFails(f) ==
  /\ fill[f].step \in {"scan", "claim", "link"}
  /\ branch' = [b \in BranchId |-> IF b \in Rows /\ branch[b].by = f THEN NoBranch ELSE branch[b]]
  /\ fill' = [fill EXCEPT ![f] = NoFill]
  /\ UNCHANGED <<target, assigning>>

BranchesNext ==
  \/ \E n \in BranchName : CreateBranch(n)
  \/ \E b \in BranchId, n \in BranchName : UpdateBranch(b, n)
  \/ \E t \in Target, text \in BranchName \union {NoText} : EditTarget(t, text)
  \/ \E k \in Assigner, t \in Target, b \in BranchId : BeginAssign(k, t, b)
  \/ \E k \in Assigner : FinishAssign(k)
  \/ \E f \in Filler : StartFill(f) \/ ScanDue(f) \/ ClaimNames(f) \/ LinkTargets(f) \/ FillFails(f)

BranchesSpec == BranchesInit /\ [][BranchesNext]_branchesVars

-----------------------------------------------------------------------------

(* However assignments, edits, renames and overlapping runs interleave, a  *)
(* link that exists is only replaced by a person's assignment, and a run   *)
(* that ends normally leaves none of the targets it was started for        *)
(* unlinked (one whose text was edited meanwhile is the next run's).       *)
BackfillLinksTheUnlinked ==
  [][/\ \A t \in Target : target[t].branch # Unlinked /\ target'[t].branch # target[t].branch =>
          \E k \in Assigner : assigning[k].target = t /\ assigning[k].branch = target'[t].branch
     /\ \A f \in Filler : fill[f].step # "done" /\ fill'[f].step = "done" =>
          \A t \in fill[f].due : target'[t].branch # Unlinked]_branchesVars

=============================================================================
