------------------------------- MODULE Staff -------------------------------
(***************************************************************************)
(* Staff administration (application/users and domain/users in             *)
(* backend/src/genesis): status and role changes by concurrent sessions    *)
(* and the guard that keeps a tenant administered.                         *)
(*                                                                         *)
(* A change locks the rows of the active administrators, one by one in id  *)
(* order, as the snapshot of its statement lists them; then the target's;  *)
(* then reads and writes statement by statement under READ COMMITTED.  A   *)
(* listed row that changed meanwhile is locked all the same.               *)
(*                                                                         *)
(* Abstractions.  Two roles: System Admin and any other.  Sign-in tokens   *)
(* are module Sessions; names, e-mail and telephone are left out.          *)
(***************************************************************************)
EXTENDS Integers, FiniteSets, FiniteSetsExt

CONSTANTS
  User,           \* users, as numbers in id order
  FirstAdmins,    \* the administrators of a new tenant
  AdminSession,   \* concurrent requests
  MaxUserVersion  \* bound: changes per user

ASSUME StaffAssumption ==
  /\ User \subseteq Nat \ {0} /\ IsFiniteSet(User)
  /\ FirstAdmins \subseteq User /\ FirstAdmins # {}
  /\ MaxUserVersion \in Nat \ {0}

VARIABLES
  user,     \* user[u]: [exists, role, status, version]
  change    \* change[s]: the transaction of session s

staffVars == <<user, change>>

NoChange == [step |-> "idle", held |-> {}]

StaffInit ==
  /\ user = [u \in User |->
       [exists |-> u \in FirstAdmins, role |-> "admin", status |-> "active", version |-> 1]]
  /\ change = [s \in AdminSession |-> NoChange]

ActiveAdmins ==
  {u \in User : user[u].exists /\ user[u].role = "admin" /\ user[u].status = "active"}

\* A changed row, and a transaction that has come further.
Revised(u, role, status) ==
  [exists |-> TRUE, role |-> role, status |-> status, version |-> user[u].version + 1]
Further(c, step, queue, held) ==
  [step |-> step, actor |-> c.actor, target |-> c.target, to |-> c.to,
   version |-> c.version, queue |-> queue, held |-> held]

HeldByOther(s, u) == \E t \in AdminSession \ {s} : u \in change[t].held

-----------------------------------------------------------------------------

CreateUser(u, role) ==
  /\ ~user[u].exists
  /\ user' = [user EXCEPT ![u] = [exists |-> TRUE, role |-> role, status |-> "active", version |-> 1]]
  /\ UNCHANGED change

\* A profile edit: the version predicate alone, behind the row's lock.
UpdateUser(u) ==
  /\ user[u].exists /\ user[u].version < MaxUserVersion
  /\ \A s \in AdminSession : u \notin change[s].held
  /\ user' = [user EXCEPT ![u] = Revised(u, user[u].role, user[u].status)]
  /\ UNCHANGED change

\* Fault variant: no lock on the set of administrators.
AdminSetUnlocked == {}
AdminSet == ActiveAdmins

\* change_user_status (to a status) or assign_role (to a role); nobody
\* changes himself.  The version is the one the caller read.
BeginChange(s, actor, target, to) ==
  /\ change[s] = NoChange
  /\ actor # target /\ user[actor].exists /\ user[target].exists
  /\ change' = [change EXCEPT ![s] =
       [step |-> "lock", actor |-> actor, target |-> target, to |-> to,
        version |-> user[target].version, queue |-> AdminSet, held |-> {}]]
  /\ UNCHANGED user

LockNextAdmin(s) ==
  /\ change[s].step = "lock" /\ change[s].queue # {}
  /\ LET u == Min(change[s].queue) IN
     /\ ~HeldByOther(s, u)
     /\ change' = [change EXCEPT ![s] = Further(@, "lock", @.queue \ {u}, @.held \union {u})]
  /\ UNCHANGED user

LockUserRow(s) ==
  /\ change[s].step = "lock" /\ change[s].queue = {}
  /\ ~HeldByOther(s, change[s].target)
  /\ change' = [change EXCEPT ![s] = Further(@, "check", {}, @.held \union {@.target})]
  /\ UNCHANGED user

Reduces(c) ==
  /\ c.to \in {"suspended", "other"}
  /\ user[c.target].role = "admin"
  /\ c.to = "other" => user[c.target].status = "active"

AdminLeft(c) == Reduces(c) => Cardinality(ActiveAdmins) > 1

Permitted(c) ==
  IF c.to \in {"active", "suspended"}
  THEN user[c.target].status # c.to
  ELSE /\ "admin" \in {c.to, user[c.target].role} => user[c.actor].role = "admin"
       /\ user[c.target].role # c.to

CheckChange(s) ==
  /\ change[s].step = "check"
  /\ change' = [change EXCEPT ![s] =
       IF Permitted(@) /\ AdminLeft(@) THEN Further(@, "write", {}, @.held) ELSE NoChange]
  /\ UNCHANGED user

\* A stale version is refused.
WriteChange(s) ==
  /\ change[s].step = "write"
  /\ LET c == change[s]
         row == user[c.target]
     IN user' = IF row.version # c.version THEN user
                ELSE [user EXCEPT ![c.target] =
                        IF c.to \in {"active", "suspended"}
                        THEN Revised(c.target, row.role, c.to)
                        ELSE Revised(c.target, c.to, row.status)]
  /\ change' = [change EXCEPT ![s] = NoChange]

\* A lost connection, or the victim of a deadlock: the locks go.
ChangeFails(s) ==
  /\ change[s] # NoChange
  /\ change' = [change EXCEPT ![s] = NoChange]
  /\ UNCHANGED user

StaffNext ==
  \/ \E u \in User, role \in {"admin", "other"} : CreateUser(u, role)
  \/ \E u \in User : UpdateUser(u)
  \/ \E s \in AdminSession, actor, target \in User, to \in {"active", "suspended", "admin", "other"} :
       user[target].version < MaxUserVersion /\ BeginChange(s, actor, target, to)
  \/ \E s \in AdminSession :
       LockNextAdmin(s) \/ LockUserRow(s) \/ CheckChange(s) \/ WriteChange(s) \/ ChangeFails(s)

StaffSpec == StaffInit /\ [][StaffNext]_staffVars

-----------------------------------------------------------------------------

(* However suspensions, demotions, grants and reinstatements of several    *)
(* sessions interleave, somebody who can administer the tenant is left.    *)
AdminRemains == ActiveAdmins # {}

=============================================================================
