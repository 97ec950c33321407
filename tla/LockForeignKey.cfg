CONSTANTS
  s1 = s1
  s2 = s2
  s3 = s3
  Session <- MCSession2
  LastMember = 2
  Handlers <- MCDisburseDeposit
  Apart <- MCNone
SPECIFICATION LockSpec
INVARIANTS
  NoDeadlock
SYMMETRY Symmetry2
