CONSTANTS
  m1 = m1
  m2 = m2
  u1 = u1
  u2 = u2
  t1 = t1
  t2 = t2
  x1 = x1
  Member <- MCMember
  Borrower <- MCBorrower
  Pledged <- MCPledged
  User <- MCUser
  Assurance <- MCAssurance
  Quorum = 1
  Channel <- MCChannel
  Amount <- MCAmount
  ExitFee <- MCExitFee
  RegistrationFee = 1
  Opening = 1
  Owing <- MCOwing
  Transfer <- MCTransfer
  Exit <- MCExit
  MaxPostings = 2
SPECIFICATION Spec
INVARIANTS
  BooksAgree
  SettledAsVoted
SYMMETRY Symmetry
CHECK_DEADLOCK FALSE
