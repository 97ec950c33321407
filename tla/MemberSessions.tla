--------------------------- MODULE MemberSessions ---------------------------
(***************************************************************************)
(* Sign-in of members (application/member_auth and member_identity in      *)
(* backend/src/genesis).  Officers link an e-mail to a member and revoke   *)
(* the link, behind the member's row; members ask for codes, open sessions *)
(* and rotate their tokens.                                                *)
(*                                                                         *)
(* No request locks the link: it is looked up first, then the code or the  *)
(* token is locked alone, and a link revoked in between is noticed only by *)
(* the next request.  An UPDATE sees the tokens its snapshot holds.        *)
(*                                                                         *)
(* Abstractions.  A family is named by the code that opened it, a token by *)
(* its generation.  Of a member's status only "exited" matters here; the   *)
(* order in which one UPDATE reaches its rows is left out.                 *)
(***************************************************************************)
EXTENDS Integers, Sequences, FiniteSets, FiniteSetsExt

CONSTANTS
  Holder,      \* members
  Login,       \* e-mails
  Link,        \* member_credentials, as numbers in order of creation
  Code,        \* otp_challenges, likewise
  Caller,      \* concurrent requests of members
  MaxTries,    \* wrong answers a code takes
  MaxTokens    \* bound: tokens of a family

ASSUME MemberSessionsAssumption ==
  /\ Link \subseteq Nat \ {0} /\ IsFiniteSet(Link)
  /\ Code \subseteq Nat \ {0} /\ IsFiniteSet(Code)
  /\ MaxTries \in Nat \ {0} /\ MaxTokens \in Nat \ {0}

VARIABLES
  exited,    \* members whose exit was settled
  link,      \* link[l]: [holder, login, status]
  code,      \* code[c]: [link, status, tries]
  session,   \* session[c]: the links code c opened sessions for, in order
  mtoken,    \* mtoken[c][g]: status of generation g of family c
  call       \* call[p]: the transaction of request p

memberSessionVars == <<exited, link, code, session, mtoken, call>>

TokenNo == 1..MaxTokens
NoLink == [status |-> "none"]
NoCode == [status |-> "none"]
NoCall == [step |-> "idle"]

MemberSessionsInit ==
  /\ exited = {}
  /\ link = [l \in Link |-> NoLink]
  /\ code = [c \in Code |-> NoCode]
  /\ session = [c \in Code |-> <<>>]
  /\ mtoken = [c \in Code |-> [g \in TokenNo |-> "none"]]
  /\ call = [p \in Caller |-> NoCall]

ActiveLinks == {l \in Link : link[l].status = "active"}
LiveLinks == {l \in ActiveLinks : link[l].holder \notin exited}
Unused(rows) == {i \in DOMAIN rows : rows[i].status = "none"}

-----------------------------------------------------------------------------
(* The link.  An administrator's transaction holds the member's row from   *)
(* its first read to its commit, and an INSERT of an e-mail waits for one  *)
(* of the same e-mail under way.                                           *)

\* One active link per member and, by the INSERT's conflict clause, per e-mail.
Linkable(h, e) == \A l \in ActiveLinks : link[l].login # e /\ link[l].holder # h

CreateLink(h, e) ==
  /\ h \notin exited /\ Linkable(h, e) /\ Unused(link) # {}
  /\ link' = [link EXCEPT ![Min(Unused(link))] = [holder |-> h, login |-> e, status |-> "active"]]
  /\ UNCHANGED <<exited, code, session, mtoken, call>>

\* Rows are kept; sessions and codes are not touched.
RevokeLink(l) ==
  /\ l \in ActiveLinks
  /\ link' = [link EXCEPT ![l].status = "revoked"]
  /\ UNCHANGED <<exited, code, session, mtoken, call>>

ExitMember(h) ==
  /\ h \notin exited
  /\ exited' = exited \union {h}
  /\ UNCHANGED <<link, code, session, mtoken, call>>

-----------------------------------------------------------------------------
(* A call that holds a link it looked up does one statement a step.        *)

Step(p, c) == call' = [call EXCEPT ![p] = c]
Done(p) == Step(p, NoCall)

\* request_member_otp
AskForCode(p, e) ==
  /\ call[p] = NoCall
  /\ \E l \in LiveLinks : link[l].login = e /\ Step(p, [step |-> "send", link |-> l])
  /\ UNCHANGED <<exited, link, code, session, mtoken>>

SendCode(p) ==
  /\ call[p].step = "send" /\ Unused(code) # {}
  /\ code' = [code EXCEPT ![Min(Unused(code))] =
       [link |-> call[p].link, status |-> "pending", tries |-> 0]]
  /\ Done(p)
  /\ UNCHANGED <<exited, link, session, mtoken>>

\* verify_member_otp
EnterCode(p, e) ==
  /\ call[p] = NoCall
  /\ \E l \in LiveLinks : link[l].login = e /\ Step(p, [step |-> "entered", link |-> l])
  /\ UNCHANGED <<exited, link, code, session, mtoken>>

CodesOf(l) == {c \in Code \ Unused(code) : code[c].link = l}

FindCode(p) ==
  /\ call[p].step = "entered" /\ CodesOf(call[p].link) # {}
  /\ Step(p, [step |-> "found", link |-> call[p].link, code |-> Max(CodesOf(call[p].link))])
  /\ UNCHANGED <<exited, link, code, session, mtoken>>

\* Fault variant: the newest code is read without FOR UPDATE.
CodeFreeUnlocked(c) == TRUE
CodeFree(c) == ~ \E p \in Caller : call[p].step = "judging" /\ call[p].code = c

LockCode(p) ==
  /\ call[p].step = "found" /\ CodeFree(call[p].code)
  /\ Step(p, [step |-> "judging", link |-> call[p].link, code |-> call[p].code,
              seen |-> code[call[p].code]])
  /\ UNCHANGED <<exited, link, code, session, mtoken>>

Usable(seen) == seen.status = "pending" /\ seen.tries < MaxTries

\* The right code is consumed and opens a session.
AcceptCode(p) ==
  /\ call[p].step = "judging" /\ Usable(call[p].seen)
  /\ LET c == call[p].code IN
     /\ code' = [code EXCEPT ![c].status = "consumed"]
     /\ session' = [session EXCEPT ![c] = Append(@, call[p].link)]
     /\ mtoken' = [mtoken EXCEPT ![c][1] = "active"]
  /\ Done(p)
  /\ UNCHANGED <<exited, link>>

\* A wrong one counts, and the count commits; a spent, an exhausted or an
\* expired one is refused without a trace.
RefuseCode(p, wrong) ==
  /\ call[p].step = "judging"
  /\ wrong => Usable(call[p].seen)
  /\ code' = IF wrong THEN [code EXCEPT ![call[p].code].tries = @ + 1] ELSE code
  /\ Done(p)
  /\ UNCHANGED <<exited, link, session, mtoken>>

-----------------------------------------------------------------------------
(* rotate_member_refresh_token.                                            *)

SessionLive(c) == session[c] # <<>> /\ session[c][1] \in LiveLinks

PresentToken(p, c, g) ==
  /\ call[p] = NoCall
  /\ mtoken[c][g] # "none" /\ SessionLive(c)
  /\ Step(p, [step |-> "peeked", family |-> c, gen |-> g])
  /\ UNCHANGED <<exited, link, code, session, mtoken>>

HoldsToken == {"rotating", "revoking"}
MTokenFree(p, c, g) ==
  ~ \E q \in Caller \ {p} : /\ call[q].step \in HoldsToken
                            /\ call[q].family = c /\ call[q].gen = g

LockToken(p) ==
  LET c == call[p].family
      g == call[p].gen IN
  /\ call[p].step = "peeked" /\ MTokenFree(p, c, g)
  /\ Step(p, [step |-> "rotating", family |-> c, gen |-> g, seen |-> mtoken[c][g]])
  /\ UNCHANGED <<exited, link, code, session, mtoken>>

IssueNext(p) ==
  /\ call[p].step = "rotating" /\ call[p].seen = "active"
  /\ call[p].gen < MaxTokens
  /\ mtoken' = [mtoken EXCEPT ![call[p].family] =
       [@ EXCEPT ![call[p].gen] = "rotated", ![call[p].gen + 1] = "active"]]
  /\ Done(p)
  /\ UNCHANGED <<exited, link, code, session>>

Unrevoked(c) == {g \in TokenNo : mtoken[c][g] \in {"active", "rotated"}}

\* A spent or an expired token: the UPDATE of the family takes its snapshot ...
RefuseToken(p) ==
  /\ call[p].step = "rotating"
  /\ Step(p, [step |-> "revoking", family |-> call[p].family, gen |-> call[p].gen,
              rows |-> Unrevoked(call[p].family)])
  /\ UNCHANGED <<exited, link, code, session, mtoken>>

\* ... as does the UPDATE of a logout, which holds no row of its own.
LeaveSession(p, c) ==
  /\ call[p] = NoCall /\ Unrevoked(c) # {}
  /\ Step(p, [step |-> "revoking", family |-> c, gen |-> 0, rows |-> Unrevoked(c)])
  /\ UNCHANGED <<exited, link, code, session, mtoken>>

\* ... and waits for the rows it saw; a row inserted since is not among them.
RevokeFamily(p) ==
  LET c == call[p].family IN
  /\ call[p].step = "revoking"
  /\ \A g \in call[p].rows : MTokenFree(p, c, g)
  /\ mtoken' = [mtoken EXCEPT ![c] =
       [g \in TokenNo |-> IF g \in call[p].rows THEN "revoked" ELSE mtoken[c][g]]]
  /\ Done(p)
  /\ UNCHANGED <<exited, link, code, session>>

\* Refused for want of a row or a live link, disconnected, or chosen as the
\* victim of a deadlock.
CallDies(p) ==
  /\ call[p] # NoCall
  /\ Done(p)
  /\ UNCHANGED <<exited, link, code, session, mtoken>>

MemberSessionsNext ==
  \/ \E h \in Holder, e \in Login : CreateLink(h, e)
  \/ \E l \in Link : RevokeLink(l)
  \/ \E h \in Holder : ExitMember(h)
  \/ \E p \in Caller, e \in Login : AskForCode(p, e) \/ EnterCode(p, e)
  \/ \E p \in Caller : \/ SendCode(p) \/ FindCode(p) \/ LockCode(p) \/ AcceptCode(p)
                       \/ LockToken(p) \/ IssueNext(p) \/ RefuseToken(p)
                       \/ RevokeFamily(p) \/ CallDies(p)
  \/ \E p \in Caller, wrong \in BOOLEAN : RefuseCode(p, wrong)
  \/ \E p \in Caller, c \in Code : LeaveSession(p, c)
  \/ \E p \in Caller, c \in Code, g \in TokenNo : PresentToken(p, c, g)

MemberSessionsSpec == MemberSessionsInit /\ [][MemberSessionsNext]_memberSessionVars

-----------------------------------------------------------------------------

(* A code opens one session at most, and that of the link it was sent to,  *)
(* although the e-mail may pass to another member while it is being        *)
(* entered.  A session has one usable token at most, whichever tokens are  *)
(* presented and revoked at the same time.                                 *)
OneHolderPerSession ==
  \A c \in Code :
    /\ session[c] # <<>> => session[c] = <<code[c].link>>
    /\ Cardinality({g \in TokenNo : mtoken[c][g] = "active"}) <= 1

=============================================================================
