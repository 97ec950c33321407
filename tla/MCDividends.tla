---------------------------- MODULE MCDividends ----------------------------
(* Instances of Dividends for TLC: two members.                            *)
EXTENDS Dividends, TLC

CONSTANTS d1, d2, u1, u2, r1, r2

MCDeclaration == {d1, d2}
MCUser == {u1, u2}
MCRun == {r1, r2}
MCShareDays == <<100, 100>>
MCDepositDays == <<0, 100>>
\* The first has no deposit account to retain a payout on.
MCPayout == <<"deposits", "default">>
MCAccounts == <<{"share"}, {"share", "deposit"}>>
MCRate == {[dividend |-> 1, rebate |-> 2]}

Symmetry == Permutations(MCDeclaration) \union Permutations(MCUser) \union Permutations(MCRun)
=============================================================================
