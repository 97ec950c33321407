CONSTANTS
  u1 = u1
  u2 = u2
  j1 = j1
  Installments = 2
  Due <- MCDue
  PrincipalDue <- MCPart
  InterestDue <- MCPart
  User <- MCUser
  Quorum = 1
  Job <- MCJob
  GraceDays = 0
  NplDays = 0
  PenaltyDivisor = 4
  LastDay = 2
  MaxRepayments = 2
SPECIFICATION Spec
INVARIANTS
  InterestNeverOvercharged
SYMMETRY SymmetryUser
CHECK_DEADLOCK FALSE
