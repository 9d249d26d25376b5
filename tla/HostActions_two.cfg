SPECIFICATION Spec
CONSTANTS
  Actions = {a1, a2}
  Sessions = {s1, s2}
  Clients = {c1, c2}
  Bodies = {b1}
  Policies = {"unsafe"}
  Deadline = 1
  ClaimTtl = 1
  MaxTime = 1
  MaxVersion = 2
  NoClient = NoClient
  NoResponse = NoResponse
  NoAnswer = NoAnswer
SYMMETRY Symmetry
INVARIANTS WaitersMatchLiveRows LogIsGapless LiveRowsFollowSession
