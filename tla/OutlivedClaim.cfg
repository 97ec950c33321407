SPECIFICATION DeskSpec
CONSTANTS
  Parts = {"idempotency"}
  RecoveryLoan = {l1}
  Case = {c1, c2}
  Officer = {o1, o2}
  Auditor = {o2}
  MaxNotes = 1
  MaxVersion = 3
  User = {1, 2, 3}
  FirstAdmins = {1, 2}
  AdminSession = {s1, s2}
  MaxUserVersion = 2
  Key = {k1}
  Hash = {h1, h2}
  Request = {r1, r2, r3}
  CommitUnknown = TRUE
  Clerk = {k1, k2}
  MaxMembers = 1
  MaxRowVersion = 2
  BranchId = {1, 2}
  BranchName = {"hq", "thika"}
  LegacyName = {"hq"}
  Target = {1, 2}
  Assigner = {k1}
  Filler = {f1, f2}
  LinkBatch = 1
  MaxTargetVersion = 2
  MaxBranchVersion = 2
  Holder = {h1, h2}
  Login = {a1}
  Link = {1, 2}
  Code = {1, 2}
  Caller = {p1, p2}
  MaxTries = 1
  MaxTokens = 2
INVARIANT
  ResponseOfOwnEpoch
CHECK_DEADLOCK FALSE
