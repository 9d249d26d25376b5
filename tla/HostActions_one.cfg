SPECIFICATION Spec
CONSTANTS
  Actions = {a1}
  Sessions = {s1}
  Clients = {c1, c2}
  Bodies = {b1}
  Policies = {"safe", "unsafe"}
  Deadline = 2
  ClaimTtl = 1
  MaxTime = 3
  MaxVersion = 5
  NoClient = NoClient
  NoResponse = NoResponse
  NoAnswer = NoAnswer
INVARIANTS AnswerAgreesWithRow UnsafeGrantedOnce ClaimIsFenced
PROPERTIES EveryRequestReturns ToolCallSpec
