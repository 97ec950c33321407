SPECIFICATION WorkersSpec
CONSTANTS
  Parts = {"interest"}
  Saver = {1, 2}
  DormancyWorker = {w1}
  ScanSize = 1
  Window = {2}
  FirstDay = 2
  LastDay = 5
  SavingsAccount = {1, 2}
  Earning = {1}
  OpenedAtStart = {1}
  InterestRunner = {r1, r2}
  AccrualBatch = 1
  Rate = {4}
  LastQuarter = 3
  Borrowed = {b1}
  Installments = 2
  LateAfter = 0
  MaxUndone = 2
  FinalMonth = 4
  Export = {1, 2}
  Renderer = {e1, e2}
  ReportRow = {1, 2, 3}
  RowCap = 2
  BatchSize = 1
  MaxEdits = 1
  MaxDeaths = 1
  Challenge = {1, 2}
  SignIn = {p1, p2}
  MaxAttempts = 1
  MaxGeneration = 3
INVARIANT
  NoQuarterAbandoned
CHECK_DEADLOCK FALSE
