---------------------------- MODULE HostToolCall -----------------------------
(****************************************************************************)
(* What the Host Action channel promises the agent, without rows, claims,   *)
(* clocks or controllers: a tool call is opened once, is handed to a        *)
(* desktop some number of times (once at most if it must not be replayed),  *)
(* and ends once, either with a reply from a desktop it was handed to or    *)
(* cancelled.  One step may move several calls: a session's end cancels all *)
(* of its calls, and a claim starts with a sweep.                           *)
(****************************************************************************)
CONSTANTS Calls, Replies, NoReply

VARIABLES
  call,     \* "none", "open", "succeeded", "failed" or "cancelled"
  replayable,
  handed,   \* the hand-outs of each call so far
  reply

vars == <<call, replayable, handed, reply>>

Init ==
  /\ call = [c \in Calls |-> "none"]
  /\ replayable \in [Calls -> BOOLEAN]
  /\ handed = [c \in Calls |-> {}]
  /\ reply = [c \in Calls |-> NoReply]

Same(c) == /\ call'[c] = call[c] /\ replayable'[c] = replayable[c]
           /\ handed'[c] = handed[c] /\ reply'[c] = reply[c]

Open(c) ==
  /\ call[c] = "none" /\ call'[c] = "open"
  /\ handed'[c] = handed[c] /\ reply'[c] = reply[c]

HandOut(c) ==
  /\ call[c] = "open" /\ call'[c] = "open"
  /\ replayable[c] \/ handed[c] = {}
  /\ \E h \in handed'[c] : h \notin handed[c] /\ handed'[c] = handed[c] \cup {h}
  /\ replayable'[c] = replayable[c] /\ reply'[c] = reply[c]

Finish(c) ==
  /\ call[c] = "open" /\ call'[c] \in {"succeeded", "failed"}
  /\ handed[c] # {}
  /\ reply'[c] \in Replies
  /\ replayable'[c] = replayable[c] /\ handed'[c] = handed[c]

Cancel(c) ==
  /\ call[c] = "open" /\ call'[c] = "cancelled"
  /\ replayable'[c] = replayable[c] /\ handed'[c] = handed[c] /\ reply'[c] = reply[c]

Move(c) == Open(c) \/ HandOut(c) \/ Finish(c) \/ Cancel(c) \/ Same(c)

Next == \A c \in Calls : Move(c)

Spec == Init /\ [][Next]_vars
=============================================================================
