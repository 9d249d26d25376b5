SPECIFICATION SysSpec
CONSTANTS
  Actions = {a1}
  Sessions = {s1}
  Clients = {c1}
  Bodies = {b1}
  Policies = {"safe", "unsafe"}
  Deadline = 2
  ClaimTtl = 1
  MaxTime = 2
  MaxVersion = 4
  NoClient = NoClient
  NoResponse = NoResponse
  NoAnswer = NoAnswer
  Concurrency = 2
  PageLimit = 1
  MaxLosses = 2
INVARIANTS UnsafeExecutedOnce CommitImpliesAccepted OneAuthoritativeExecution
