---------------------------- MODULE MCLockOrder ----------------------------
(* Instances of LockOrder for TLC. *)
EXTENDS LockOrder, TLC

CONSTANTS s1, s2, s3

MCSession2 == {s1, s2}
MCSession3 == {s1, s2, s3}

AllHandlers ==
  {"deposit", "withdraw", "settle", "create", "reject", "release", "releaseLoan", "pledge",
   "substitute", "disburse", "repay", "adjust", "writeOff", "receipt", "transfer",
   "distribute", "interest"}

MCDisburseDeposit == {"create", "disburse", "deposit"}

MCNone == {}

Symmetry2 == Permutations(MCSession2)
Symmetry3 == Permutations(MCSession3)
=============================================================================
