------------------------------ MODULE MCBooks ------------------------------
(* Instances of Books for TLC: two members, two officers.                  *)
EXTENDS Books, TLC

CONSTANTS m1, m2, u1, u2, t1, t2, x1

MCMember == {m1, m2}
MCBorrower == {m1}
MCOwing == {m1}
MCPledged == (m1 :> 0) @@ (m2 :> 1)
MCUser == {u1, u2}
MCAssurance == {}
MCChannel == {"mpesa"}
MCAmount == {1}
MCExitFee == {0, 1}
MCTransfer == {t1, t2}
MCExit == {x1}

Symmetry == Permutations(MCUser) \union Permutations(MCTransfer)
=============================================================================
