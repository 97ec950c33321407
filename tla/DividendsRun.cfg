CONSTANTS
  d1 = d1
  d2 = d2
  u1 = u1
  u2 = u2
  r1 = r1
  r2 = r2
  Members = 2
  Declaration <- MCDeclaration
  User <- MCUser
  Quorum = 1
  Run <- MCRun
  BatchSize = 1
  YearDays = 1
  ShareDays <- MCShareDays
  DepositDays <- MCDepositDays
  Interest = 50
  Rate <- MCRate
  Payout <- MCPayout
  AccountsOf <- MCAccounts
SPECIFICATION Spec
INVARIANTS
  YearPaidOnce
  DistributedReconciles
SYMMETRY Symmetry
CHECK_DEADLOCK FALSE
