CONSTANTS
  s1 = s1
  s2 = s2
  s3 = s3
  Session <- MCSession3
  LastMember = 2
  Handlers <- AllHandlers
  Apart <- Crossing
  a1 = a1
  Txn <- MCTxn
  Holder <- MCHolder
  Prefix <- MCPrefix
  LastMonth = 4
  LegacyClosed <- MCLegacy
SPECIFICATION LedgerSpec
INVARIANTS
  NoneOpenAtSettlement
  NoDeadlock
  RefsDense
  ReversedOnce
  TrialBalanceExact
  OpeningExactInOrder
PROPERTIES
  ClosedMonthsFrozen
SYMMETRY Symmetry3
CHECK_DEADLOCK FALSE
