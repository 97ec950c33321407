------------------------------ MODULE Register ------------------------------
(***************************************************************************)
(* The members register and the KYC file (application/members and          *)
(* application/member_kyc in backend/src/genesis): members are created     *)
(* with dense numbers, each gets a profile and a checklist of documents,   *)
(* and clerks edit these rows at the same time.                            *)
(*                                                                         *)
(* An edit names some fields.  The handler reads the row without a lock,   *)
(* keeps the values it read for the fields not named, and writes all of    *)
(* them back in one UPDATE guarded by the version the caller was shown.    *)
(* That is two steps; creations and status changes are one.                *)
(*                                                                         *)
(* Abstractions.  A value is the version of the row that first carried it, *)
(* so no two edits write the same value; a date of consent likewise.  The  *)
(* checks of a payload's shape are left out.  One document stands for the  *)
(* checklist, whose rows never meet.                                       *)
(***************************************************************************)
EXTENDS Naturals, FiniteSets

CONSTANTS
  Clerk,           \* concurrent requests
  MaxMembers,      \* bound on the members created
  MaxRowVersion    \* bound on the edits of a row

ASSUME RegisterAssumption == MaxMembers \in Nat /\ MaxRowVersion \in Nat

File == {"member", "profile", "document"}
NamedBy(kind) ==   \* the fields a request may give
  CASE kind = "member" -> {"name", "payout"}
    [] kind = "profile" -> {"category", "particulars", "consent"}
    [] kind = "document" -> {"status", "expires"}

VARIABLES
  lastNo,    \* txn_ref_sequences: the last member number taken
  file,      \* file[m][kind]: NoFile, or [version, val]
  edit       \* edit[k]: the edit in progress

registerVars == <<lastNo, file, edit>>

NoFile == [version |-> 0]
NoEdit == [member |-> 0]
NotCaptured == 0

RegisterInit ==
  /\ lastNo = 0
  /\ file = [m \in 1..MaxMembers |-> [kind \in File |-> NoFile]]
  /\ edit = [k \in Clerk |-> NoEdit]

\* domain/member_kyc: verified is terminal.
DocumentMoves ==
  {<<"pending", "received">>, <<"received", "verified">>, <<"received", "rejected">>,
   <<"rejected", "received">>}
\* domain/members, as far as staff may move a member.
StatusMoves == {<<"active", "arrears">>, <<"arrears", "active">>}

-----------------------------------------------------------------------------

Filed(m, kind, val) ==
  file' = [file EXCEPT ![m] = [@ EXCEPT ![kind] = [version |-> 1, val |-> val]]]

\* Creators wait for each other on the sequence until they commit.
CreateMember ==
  /\ lastNo < MaxMembers
  /\ lastNo' = lastNo + 1
  /\ Filed(lastNo', "member", [name |-> 1, payout |-> 1, status |-> "active"])
  /\ UNCHANGED edit

CreateProfile(m, consent) ==
  /\ file[m]["member"] # NoFile /\ file[m]["profile"] = NoFile
  /\ Filed(m, "profile", [category |-> 1, particulars |-> 1,
                          consent |-> IF consent THEN 1 ELSE NotCaptured])
  /\ UNCHANGED <<lastNo, edit>>

CreateDocument(m) ==
  /\ file[m]["member"] # NoFile /\ file[m]["document"] = NoFile
  /\ Filed(m, "document", [status |-> "pending", expires |-> 1])
  /\ UNCHANGED <<lastNo, edit>>

\* Behind the row's lock; exit and dormancy have their own writers.
ChangeMemberStatus(m, to) ==
  LET row == file[m]["member"] IN
  /\ row # NoFile /\ row.version < MaxRowVersion
  /\ <<row.val.status, to>> \in StatusMoves
  /\ file' = [file EXCEPT ![m] = [@ EXCEPT !["member"] =
       [version |-> row.version + 1, val |-> [row.val EXCEPT !.status = to]]]]
  /\ UNCHANGED <<lastNo, edit>>

-----------------------------------------------------------------------------

\* What the handler refuses on reading the row.
Editable(row, given, to) ==
  /\ "consent" \in given => row.val.consent = NotCaptured
  /\ "status" \in given => <<row.val.status, to>> \in DocumentMoves

\* v: the version the caller was last shown; to: the status it asks for.
BeginEdit(k, m, kind, given, to, v) ==
  LET row == file[m][kind] IN
  /\ edit[k] = NoEdit /\ row # NoFile
  /\ v <= row.version /\ v < MaxRowVersion
  /\ Editable(row, given, to)
  /\ edit' = [edit EXCEPT ![k] =
       [member |-> m, kind |-> kind, given |-> given, to |-> to, version |-> v, read |-> row.val]]
  /\ UNCHANGED <<lastNo, file>>

ValueGiven(e, field, version) == IF field = "status" THEN e.to ELSE version

\* Columns the UPDATE leaves alone keep the row's value: the status of a
\* member, a consent that is not granted.
Kept(e, field, row) ==
  IF field \in NamedBy(e.kind) \ {"consent"} THEN e.read[field] ELSE row.val[field]

Edited(e, row) ==
  [version |-> row.version + 1,
   val |-> [field \in DOMAIN row.val |->
     IF field \in e.given THEN ValueGiven(e, field, row.version + 1) ELSE Kept(e, field, row)]]

\* Fault variant: the UPDATE does not compare versions.
UnchangedSinceUnchecked(e, row) == TRUE
UnchangedSince(e, row) == row.version = e.version

\* The trigger of migration 0018 refuses to change a captured consent.
ConsentKept(e, row) == "consent" \in e.given => row.val.consent = NotCaptured

FinishEdit(k) ==
  LET e == edit[k]
      row == file[e.member][e.kind] IN
  /\ e # NoEdit
  /\ file' = IF UnchangedSince(e, row) /\ ConsentKept(e, row)
             THEN [file EXCEPT ![e.member] = [@ EXCEPT ![e.kind] = Edited(e, row)]]
             ELSE file
  /\ edit' = [edit EXCEPT ![k] = NoEdit]
  /\ UNCHANGED lastNo

RegisterNext ==
  \/ CreateMember
  \/ \E m \in 1..MaxMembers, consent \in BOOLEAN : CreateProfile(m, consent)
  \/ \E m \in 1..MaxMembers : CreateDocument(m)
  \/ \E m \in 1..MaxMembers, to \in {"active", "arrears"} : ChangeMemberStatus(m, to)
  \/ \E k \in Clerk, m \in 1..MaxMembers, kind \in File, v \in 1..MaxRowVersion :
       \E given \in (SUBSET NamedBy(kind)) \ {{}},
          to \in IF kind = "document" THEN {"received", "verified", "rejected"} ELSE {"kept"} :
         /\ "status" \notin given => to \in {"kept", "received"}
         /\ BeginEdit(k, m, kind, given, to, v)
  \/ \E k \in Clerk : FinishEdit(k)

RegisterSpec == RegisterInit /\ [][RegisterNext]_registerVars

-----------------------------------------------------------------------------

(* What a step may do to a row that is on file.                            *)
RowStep(m, kind) ==
  LET before == file[m][kind]
      after == file'[m][kind]
      changed == {f \in DOMAIN before.val : after.val[f] # before.val[f]} IN
  before # NoFile /\ after # before =>
    /\ \/ kind = "member" /\ changed = {"status"}
       \/ \E k \in Clerk : edit[k].member = m /\ edit[k].kind = kind /\ changed = edit[k].given
    /\ kind = "document" /\ "status" \in changed =>
         <<before.val.status, after.val.status>> \in DocumentMoves
    /\ "consent" \in changed => before.val.consent = NotCaptured

(* Of two edits of a row that overlap, the one that writes last undoes     *)
(* nothing: a step changes only the fields its request named, a document   *)
(* follows its life-cycle and a captured consent is never recaptured.      *)
EditsUndoNothing == [][\A m \in 1..lastNo, kind \in File : RowStep(m, kind)]_registerVars

=============================================================================
