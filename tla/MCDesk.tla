------------------------------- MODULE MCDesk --------------------------------
(* The components of the desk side by side, one in each behaviour.         *)
EXTENDS Recovery, Staff, Idempotency, Register, Branches, MemberSessions

CONSTANT Parts   \* the components of the run
VARIABLE part
deskVars == <<recoveryVars, staffVars, vars, registerVars, branchesVars,
              memberSessionVars, part>>

DeskInit ==
  /\ part \in Parts
  /\ RecoveryInit /\ StaffInit /\ RegisterInit /\ MemberSessionsInit
  /\ BranchesInit /\ (part # "branches" => \A t \in Target : target[t].text = NoText)
  /\ Init
  /\ part # "idempotency" => ask = [r \in Request |-> CHOOSE a \in [key : Key, hash : Hash] : TRUE]

DeskNext ==
  \/ /\ part = "recovery" /\ RecoveryNext
     /\ UNCHANGED <<staffVars, vars, registerVars, branchesVars, memberSessionVars,
                    part>>
  \/ /\ part = "staff" /\ StaffNext
     /\ UNCHANGED <<recoveryVars, vars, registerVars, branchesVars,
                    memberSessionVars, part>>
  \/ /\ part = "idempotency" /\ Next
     /\ UNCHANGED <<recoveryVars, staffVars, registerVars, branchesVars,
                    memberSessionVars, part>>
  \/ /\ part = "register" /\ RegisterNext
     /\ UNCHANGED <<recoveryVars, staffVars, vars, branchesVars, memberSessionVars,
                    part>>
  \/ /\ part = "branches" /\ BranchesNext
     /\ UNCHANGED <<recoveryVars, staffVars, vars, registerVars, memberSessionVars,
                    part>>
  \/ /\ part = "portal" /\ MemberSessionsNext
     /\ UNCHANGED <<recoveryVars, staffVars, vars, registerVars, branchesVars,
                    part>>

DeskSpec == DeskInit /\ [][DeskNext]_deskVars
=============================================================================
