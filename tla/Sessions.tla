------------------------------ MODULE Sessions ------------------------------
(***************************************************************************)
(* Staff sign-in and refresh-token families (application/auth, domain/otp  *)
(* and the credential writes of application/users in backend/src/genesis). *)
(*                                                                         *)
(* Verification, rotation, suspension and re-enrolment lock the user row   *)
(* first and commit in a later step; asking for a code and signing out do  *)
(* not lock it.  An UPDATE sees the tokens its snapshot holds and waits    *)
(* for a row lock.  A refusal commits too: attempts and revocations stay.  *)
(*                                                                         *)
(* Abstractions.  One user; a family is named by the challenge that began  *)
(* it and its tokens by their generation.  Access tokens, the delivery of  *)
(* codes and the identifier's classification are left out.                 *)
(***************************************************************************)
EXTENDS Integers, FiniteSets, FiniteSetsExt

CONSTANTS
  Challenge,      \* one-time-code challenges, as numbers in order of creation
  SignIn,        \* concurrent requests
  MaxAttempts,    \* wrong codes a challenge takes
  MaxGeneration   \* bound: tokens of a family

ASSUME SessionsAssumption ==
  /\ Challenge \subseteq Nat \ {0} /\ IsFiniteSet(Challenge)
  /\ MaxAttempts \in Nat \ {0} /\ MaxGeneration \in Nat \ {0}

VARIABLES
  enabled,     \* the user's status is active
  challenge,   \* challenge[c]: [status, attempts]
  token,       \* token[c][g]: status of generation g of family c
  families,    \* families[c]: how many families challenge c began
  ended,       \* families revoked under the user's lock
  request      \* request[p]: the transaction of request p

sessionVars == <<enabled, challenge, token, families, ended, request>>

Generation == 1..MaxGeneration
NoRequest == [step |-> "idle"]

SessionsInit ==
  /\ enabled = TRUE
  /\ challenge = [c \in Challenge |-> [status |-> "none", attempts |-> 0]]
  /\ token = [c \in Challenge |-> [g \in Generation |-> "none"]]
  /\ families = [c \in Challenge |-> 0]
  /\ ended = {}
  /\ request = [p \in SignIn |-> NoRequest]

HoldsUser == {"verify", "rotate"}

\* Fault variant: the user row is not locked.
UserRowFreeUnlocked == TRUE
UserRowFree == \A p \in SignIn : request[p].step \notin HoldsUser

\* A rotation also holds its token's row.
TokenRowFree(c, g) ==
  ~ \E p \in SignIn : request[p].step = "rotate" /\ request[p].family = c /\ request[p].gen = g

Issued == {c \in Challenge : challenge[c].status # "none"}
LiveRows(c) == {g \in Generation : token[c][g] \in {"active", "rotated"}}
Revoked(c, rows) == [g \in Generation |-> IF g \in rows THEN "revoked" ELSE token[c][g]]

-----------------------------------------------------------------------------

\* request_otp: the user is read without a lock, the challenge inserted
\* by a later statement.
LookUpUser(p) ==
  /\ request[p] = NoRequest /\ enabled
  /\ request' = [request EXCEPT ![p] = [step |-> "issue"]]
  /\ UNCHANGED <<enabled, challenge, token, families, ended>>

IssueChallenge(p) ==
  /\ request[p].step = "issue" /\ Issued # Challenge
  /\ challenge' = [challenge EXCEPT ![Min(Challenge \ Issued)].status = "pending"]
  /\ request' = [request EXCEPT ![p] = NoRequest]
  /\ UNCHANGED <<enabled, token, families, ended>>

\* verify_otp: the newest challenge under the user's lock.
BeginVerify(p) ==
  /\ request[p] = NoRequest
  /\ UserRowFree /\ Issued # {}
  /\ request' = [request EXCEPT ![p] =
       [step |-> "verify", challenge |-> Max(Issued), seen |-> challenge[Max(Issued)]]]
  /\ UNCHANGED <<enabled, challenge, token, families, ended>>

Acceptable(ch) == ch.status = "pending" /\ ch.attempts < MaxAttempts

\* domain/otp.evaluate_challenge: consumed, locked or expired challenges are
\* refused without a trace, a mismatch counts, a match consumes.
FinishVerify(p, outcome) ==
  /\ request[p].step = "verify"
  /\ LET c == request[p].challenge
         ok == Acceptable(request[p].seen)
     IN
     /\ challenge' = CASE ok /\ outcome = "match" -> [challenge EXCEPT ![c].status = "consumed"]
                       [] ok /\ outcome = "mismatch" -> [challenge EXCEPT ![c].attempts = @ + 1]
                       [] OTHER -> challenge
     /\ IF ok /\ outcome = "match"
        THEN /\ token' = [token EXCEPT ![c][1] = "active"]
             /\ families' = [families EXCEPT ![c] = @ + 1]
        ELSE UNCHANGED <<token, families>>
  /\ request' = [request EXCEPT ![p] = NoRequest]
  /\ UNCHANGED <<enabled, ended>>

\* rotate_refresh_token: the token is looked up unlocked, then the user row
\* and the token row are locked and the token is read again.
BeginRotate(p, c, g) ==
  /\ request[p] = NoRequest
  /\ token[c][g] # "none"
  /\ UserRowFree /\ TokenRowFree(c, g)
  /\ request' = [request EXCEPT ![p] =
       [step |-> "rotate", family |-> c, gen |-> g, seen |-> token[c][g]]]
  /\ UNCHANGED <<enabled, challenge, token, families, ended>>

RotateToken(p) ==
  /\ request[p].step = "rotate" /\ request[p].seen = "active"
  /\ request[p].gen < MaxGeneration
  /\ token' = [token EXCEPT ![request[p].family] =
       [@ EXCEPT ![request[p].gen] = "rotated", ![request[p].gen + 1] = "active"]]
  /\ request' = [request EXCEPT ![p] = NoRequest]
  /\ UNCHANGED <<enabled, challenge, families, ended>>

\* A spent or an expired token ends its whole family.
RefuseRotation(p) ==
  /\ request[p].step = "rotate"
  /\ LET c == request[p].family IN
     /\ token' = [token EXCEPT ![c] = Revoked(c, LiveRows(c))]
     /\ ended' = ended \union {c}
  /\ request' = [request EXCEPT ![p] = NoRequest]
  /\ UNCHANGED <<enabled, challenge, families>>

\* revoke_refresh_token: no lock on the user; the rows its snapshot saw.
BeginLogout(p, c) ==
  /\ request[p] = NoRequest /\ LiveRows(c) # {}
  /\ request' = [request EXCEPT ![p] = [step |-> "logout", family |-> c, rows |-> LiveRows(c)]]
  /\ UNCHANGED <<enabled, challenge, token, families, ended>>

FinishLogout(p) ==
  /\ request[p].step = "logout"
  /\ \A g \in request[p].rows : TokenRowFree(request[p].family, g)
  /\ token' = [token EXCEPT ![request[p].family] = Revoked(request[p].family, request[p].rows)]
  /\ request' = [request EXCEPT ![p] = NoRequest]
  /\ UNCHANGED <<enabled, challenge, families, ended>>

\* The credential writes of suspension, an e-mail change and re-enrolment:
\* pending challenges are voided and every family is revoked.
VoidCredentials ==
  /\ challenge' = [c \in Challenge |->
       IF challenge[c].status = "pending" THEN [challenge[c] EXCEPT !.status = "consumed"]
       ELSE challenge[c]]
  /\ token' = [c \in Challenge |-> Revoked(c, LiveRows(c))]
  /\ ended' = ended \union {c \in Challenge : families[c] > 0}

TokenRowsFree == \A c \in Challenge, g \in Generation : TokenRowFree(c, g)

SuspendUser ==
  /\ enabled /\ UserRowFree /\ TokenRowsFree
  /\ enabled' = FALSE
  /\ VoidCredentials
  /\ UNCHANGED <<families, request>>

ReenrolOtp ==
  /\ UserRowFree /\ TokenRowsFree
  /\ VoidCredentials
  /\ UNCHANGED <<enabled, families, request>>

InvalidateOtp ==
  /\ UserRowFree
  /\ challenge' = [c \in Challenge |->
       IF challenge[c].status = "pending" THEN [challenge[c] EXCEPT !.status = "consumed"]
       ELSE challenge[c]]
  /\ UNCHANGED <<enabled, token, families, ended, request>>

ReactivateUser ==
  /\ ~enabled /\ UserRowFree
  /\ enabled' = TRUE
  /\ UNCHANGED <<challenge, token, families, ended, request>>

RequestDies(p) ==
  /\ request[p] # NoRequest
  /\ request' = [request EXCEPT ![p] = NoRequest]
  /\ UNCHANGED <<enabled, challenge, token, families, ended>>

SessionsNext ==
  \/ \E p \in SignIn : \/ LookUpUser(p) \/ IssueChallenge(p) \/ BeginVerify(p)
                        \/ RotateToken(p) \/ RefuseRotation(p)
                        \/ FinishLogout(p) \/ RequestDies(p)
  \/ \E p \in SignIn, outcome \in {"match", "mismatch", "expired"} : FinishVerify(p, outcome)
  \/ \E p \in SignIn, c \in Challenge : BeginLogout(p, c)
  \/ \E p \in SignIn, c \in Challenge, g \in Generation : BeginRotate(p, c, g)
  \/ SuspendUser \/ ReactivateUser \/ ReenrolOtp \/ InvalidateOtp

SessionsSpec == SessionsInit /\ [][SessionsNext]_sessionVars

-----------------------------------------------------------------------------

(* A challenge begins one session at most; a family has one usable token   *)
(* at most; and one revoked for reuse, expiry, suspension or re-enrolment  *)
(* never gets a usable token again, whatever rotation was under way.       *)
OneLineage ==
  \A c \in Challenge :
    /\ families[c] <= 1
    /\ Cardinality({g \in Generation : token[c][g] = "active"}) <= 1
    /\ c \in ended => \A g \in Generation : token[c][g] # "active"

=============================================================================
