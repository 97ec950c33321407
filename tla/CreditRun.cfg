CONSTANTS
  u1 = u1
  u2 = u2
  j1 = j1
  b = b
  m = m
  n = n
  a1 = a1
  g1 = g1
  g2 = g2
  Session <- MCSession
  Member <- MCMember
  Application <- MCApplication
  Borrower <- MCBorrower
  Requested <- MCRequested
  Guarantee <- MCGuarantee
  MaxBalance = 2
  Installments = 2
  Due <- MCDue
  PrincipalDue <- MCPart
  InterestDue <- MCPart
  User <- MCUser
  Quorum = 1
  Job <- MCJob
  GraceDays = 0
  NplDays = 0
  PenaltyDivisor = 4
  LastDay = 2
  MaxRepayments = 2
SPECIFICATION CreditSpec
INVARIANTS
  GuaranteesAreCovered
  EndedDischargesAll
  LoanGuaranteesConsented
  ExitedIsClear
  BooksReconcile
  CashBacksSchedule
  PrepaymentLeavesInterest
  DischargedMeansSettled
  ClaimIsWhatWasOwed
PROPERTIES
  CollateralNeverShrinks
  CoveredWhenDisbursed
SYMMETRY Symmetry
CHECK_DEADLOCK FALSE
