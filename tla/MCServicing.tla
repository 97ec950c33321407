---------------------------- MODULE MCServicing ----------------------------
(* Instances of Servicing for TLC. *)
EXTENDS Servicing, TLC

CONSTANTS u1, u2, j1

MCDue == <<1, 2>>
MCPart == <<1, 1>>
MCUser == {u1, u2}
MCJob == {j1}

SymmetryUser == Permutations(MCUser)
=============================================================================
