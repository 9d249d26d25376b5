------------------------------ MODULE TurnQueue ------------------------------
(****************************************************************************)
(* The turns of one session on a node and the messages that wait for them   *)
(* (packages/runtime/src/session/session-runtime.ts, queued-controls.ts,    *)
(* input-admission.ts).                                                     *)
(*                                                                          *)
(* An action is what runs between two awaits, with the microtasks that      *)
(* follow it: the settling of an admission is part of the step that decides *)
(* it, and a Stop whose turns have ended settles before anything else.      *)
(* What the code does in one stretch is composed from operators on the      *)
(* record `now` of status, queue, rows and turns.                           *)
(****************************************************************************)
EXTENDS Integers, FiniteSets, Sequences

CONSTANTS
  Msgs,         \* messages, one client id each
  Wakes,        \* those that are hidden wakes: no row, sent once
  NoMsg,
  Harnesses,    \* what may run the session: "claude", "codex", "other" (no steering)
  MaxRestarts,  \* bound: restarts of the node
  MaxResends    \* bound: resends of failed messages

ASSUME WakesAreMessages == Wakes \subseteq Msgs /\ NoMsg \notin Msgs
ASSUME HarnessesAreKnown == Harnesses \subseteq {"claude", "codex", "other"}
ASSUME BoundsAreNumbers == MaxRestarts \in Nat /\ MaxResends \in Nat

VARIABLES
  harness,    \* session.harnessId
  status,     \* session.status; "ended" is a closed session
  queue,      \* turnQueues: the FIFO, in memory
  row,        \* the user rows of the durable transcript
  turn,       \* sessionTurns, activeTurnCounts and aborts, by message
  steer,      \* queueAdmissions: the promotion that waits for its admission
  stop,       \* interrupts: a Stop and the turns it captured
  ambient,    \* ambientTurns: the harness streams a message of its own
  disposing,
  sent,       \* wakes the node has taken
  handed,     \* how often the agent was given the message
  restarts,
  resends

vars == <<harness, status, queue, row, turn, steer, stop, ambient, disposing,
          sent, handed, restarts, resends>>

NoRow    == [known |-> FALSE, queued |-> FALSE, composer |-> FALSE, failed |-> FALSE]
NoTurn   == [pc |-> "none", kind |-> "plain", aborted |-> FALSE]
NoSteer  == [msg |-> NoMsg, index |-> 0]
NoStop   == [pc |-> "none", waits |-> {}, overtaken |-> FALSE]

Over == {"ended", "interrupted", "error"}

Waiting(q) == {q[i] : i \in DOMAIN q}
Running(t) == {m \in Msgs : t[m].pc # "none"}

----------------------------------------------------------------------------
(* Steps of the code, on [status, queue, row, turn].                        *)

now == [status |-> status, queue |-> queue, row |-> row, turn |-> turn]

Becomes(n) == /\ status' = n.status
              /\ queue' = n.queue
              /\ row' = n.row
              /\ turn' = n.turn

\* markSendFailed of every message of S that has a row.
MarkFailed(n, S) ==
  [n EXCEPT !.row = [m \in Msgs |->
     IF m \in S /\ n.row[m].known
     THEN [known |-> TRUE, queued |-> FALSE, composer |-> FALSE, failed |-> TRUE]
     ELSE n.row[m]]]

\* consumeComposerQueued: only a card of the composer is taken off the queue.
Consumed(n, m) ==
  [n EXCEPT !.row[m] = IF @.composer THEN [@ EXCEPT !.queued = FALSE, !.composer = FALSE] ELSE @]

\* beginTurn.  A promotion clears its row when the agent takes the input.
Begun(n, m, kind) ==
  [n EXCEPT !.status = "streaming",
            !.turn[m] = [pc |-> "sent", kind |-> kind, aborted |-> FALSE],
            !.row[m] = IF kind = "steer" THEN @ ELSE [@ EXCEPT !.queued = FALSE, !.composer = FALSE]]

BegunHead(n) == Begun([n EXCEPT !.queue = Tail(@)], Head(n.queue), "plain")

\* enqueueTurn.
Enqueued(n, m) ==
  [n EXCEPT !.queue = Append(@, m), !.row[m].queued = n.row[m].known]

\* appendUserMessage: a new row, a composer card when it waits; a failed row is
\* only no longer failed.
Accepted(n, m, parks) ==
  [n EXCEPT !.row[m] = IF @.known THEN [@ EXCEPT !.failed = FALSE]
                       ELSE [known |-> TRUE, queued |-> parks, composer |-> parks, failed |-> FALSE]]

Without(q, i)   == SubSeq(q, 1, i - 1) \o SubSeq(q, i + 1, Len(q))
With(q, i, m)   == SubSeq(q, 1, i - 1) \o <<m>> \o SubSeq(q, i, Len(q))
Smaller(i, j)   == IF i < j THEN i ELSE j

----------------------------------------------------------------------------
Init ==
  /\ harness \in Harnesses
  /\ status = "idle"
  /\ queue = <<>>
  /\ row = [m \in Msgs |-> NoRow]
  /\ turn = [m \in Msgs |-> NoTurn]
  /\ steer = NoSteer
  /\ stop = NoStop
  /\ ambient = FALSE
  /\ disposing = FALSE
  /\ sent = {}
  /\ handed = [m \in Msgs |-> 0]
  /\ restarts = 0
  /\ resends = 0

\* The captured turns of a Stop have ended: its continuation runs next.
StopIsDue == stop.pc = "joining" /\ stop.waits = {}

Open == ~disposing /\ stop.pc = "none" /\ status # "ended"

----------------------------------------------------------------------------
(* Sends.                                                                   *)

\* The promotion of the message at i: off the queue, into a turn of its own.
Promoted(n, i) == Begun([n EXCEPT !.queue = Without(@, i)], n.queue[i], "steer")

Admits(m, i) == [msg |-> m, index |-> i]

\* A send whose id is taken and did not fail is held: it changes nothing.
Send(m) ==
  /\ ~StopIsDue /\ Open
  /\ m \notin Wakes
  /\ ~row[m].known \/ row[m].failed
  /\ resends' = resends + (IF row[m].failed THEN 1 ELSE 0)
  /\ resends' <= MaxResends
  /\ IF status # "streaming"
     THEN Becomes(Begun(Accepted(now, m, FALSE), m, "plain")) /\ UNCHANGED steer
     ELSE LET waiting == Enqueued(Accepted(now, m, TRUE), m) IN
       \/ Becomes(waiting) /\ UNCHANGED steer
       \/ /\ harness = "claude" /\ steer = NoSteer  \* "now": promoted at once
          /\ Becomes(Promoted(waiting, Len(waiting.queue)))
          /\ steer' = Admits(m, Len(waiting.queue))
       \/ /\ harness = "codex"                      \* turnKind "steer"
          /\ Becomes(Begun(Accepted(now, m, FALSE), m, "inject"))
          /\ UNCHANGED steer
  /\ UNCHANGED <<harness, stop, ambient, disposing, sent, handed, restarts>>

\* A hidden wake joins a live Claude turn; elsewhere it waits like a send.
SendWake(m) ==
  /\ ~StopIsDue /\ Open
  /\ m \in Wakes \ sent
  /\ sent' = sent \cup {m}
  /\ Becomes(IF status # "streaming" THEN Begun(now, m, "plain")
             ELSE IF harness = "claude" THEN Begun(now, m, "inject")
             ELSE Enqueued(now, m))
  /\ UNCHANGED <<harness, steer, stop, ambient, disposing, handed, restarts, resends>>

\* session.steer of a queued card; Stop and shutdown are not asked about.
\* Bound: one promotion overtakes a Stop.
Steer(i) ==
  /\ ~StopIsDue /\ ~stop.overtaken
  /\ harness \in {"claude", "codex"} /\ status = "streaming" /\ steer = NoSteer
  /\ queue[i] \notin Wakes
  /\ Becomes(Promoted(now, i))
  /\ steer' = Admits(queue[i], i)
  /\ stop' = [stop EXCEPT !.overtaken = stop.pc # "none"]
  /\ UNCHANGED <<harness, ambient, disposing, sent, handed, restarts, resends>>

\* session.dequeue of a queued card: the row goes with it.
Dequeue(i) ==
  /\ ~StopIsDue
  /\ status # "ended" /\ queue[i] \notin Wakes
  /\ Becomes([now EXCEPT !.queue = Without(@, i), !.row[queue[i]] = NoRow])
  /\ UNCHANGED <<harness, steer, stop, ambient, disposing, sent, handed, restarts, resends>>

----------------------------------------------------------------------------
(* Turns.                                                                   *)

Hand(m) == handed' = [handed EXCEPT ![m] = @ + 1]

\* onInputAccepted, or the first output: the agent has the message.
InputAccepted(m) ==
  /\ ~StopIsDue
  /\ turn[m].pc = "sent"
  /\ LET begun == [now EXCEPT !.turn[m].pc = "started"] IN
     Becomes(IF turn[m].kind = "steer" THEN Consumed(begun, m) ELSE begun)
  /\ steer' = IF steer.msg = m THEN NoSteer ELSE steer
  /\ Hand(m)
  /\ UNCHANGED <<harness, stop, ambient, disposing, sent, restarts, resends>>

Others(m) == Running(turn) \ {m}

\* The runner returned: what runTurn makes of the session.
Judged(m) ==
  [now EXCEPT !.status =
     CASE status = "ended"   -> "ended"
       [] status # "ended" /\ turn[m].aborted
                             -> IF Others(m) = {} THEN "interrupted" ELSE @
       [] OTHER              -> IF Others(m) # {} \/ queue # <<>> \/ ambient
                                THEN "streaming" ELSE "idle"]

\* Mutant: a turn that fails after its input was taken fails its message too.
RefusedAnyway(m) == turn[m].kind = "steer" \/ row[m].known

\* The runner threw.  A message the agent never had carries the failure itself;
\* a refused promotion is put back by its caller.
Refused(m) == turn[m].pc = "sent" /\ (turn[m].kind = "steer" \/ row[m].known)

JudgedFailed(m) ==
  CASE status = "ended" \/ turn[m].aborted -> Judged(m)
    [] status # "ended" /\ ~turn[m].aborted /\ Refused(m)
         -> MarkFailed([now EXCEPT !.status = IF Others(m) # {} THEN @
                                              ELSE IF queue = <<>> THEN "idle" ELSE "streaming"],
                       IF turn[m].kind = "steer" THEN {} ELSE {m})
    [] OTHER -> [now EXCEPT !.status = IF Others(m) = {} THEN "error" ELSE @]

\* Mutant: a peer that still runs does not hold the queue back.
FinishedEagerly(n, m) ==
  LET over == [n EXCEPT !.turn[m] = NoTurn] IN
  CASE n.status \in {"idle", "streaming"} /\ steer = NoSteer ->
         IF n.queue # <<>> THEN BegunHead(over) ELSE [over EXCEPT !.status = "idle"]
    [] n.status \in Over ->
         [(IF n.status = "ended" THEN over ELSE MarkFailed(over, Waiting(n.queue)))
            EXCEPT !.queue = <<>>]
    [] OTHER -> over

\* Mutant: what a stopped turn leaves in the queue is dropped without a word.
FinishedSilently(n, m) ==
  LET over == [n EXCEPT !.turn[m] = NoTurn] IN
  CASE n.status \in {"idle", "streaming"} /\ Others(m) = {} /\ steer = NoSteer ->
         IF n.queue # <<>> THEN BegunHead(over) ELSE [over EXCEPT !.status = "idle"]
    [] n.status \in Over -> [over EXCEPT !.queue = <<>>]
    [] OTHER -> over

\* Mutant: a turn that ends while a promotion waits drains nothing, and neither
\* does the end of the promotion.
SettledNever(n) == n

\* settled: the end of a promotion drains what its turn could not.
Settled(n) ==
  IF n.status \in {"idle", "streaming"} /\ Running(n.turn) = {} /\ ~ambient /\ n.queue # <<>>
  THEN BegunHead(n) ELSE n

\* The end of runTurn: the count goes down, then the queue is drained, dropped
\* or left to the turns that remain and to a promotion under way.
Finished(n, m) ==
  LET over == [n EXCEPT !.turn[m] = NoTurn] IN
  CASE n.status \in {"idle", "streaming"} /\ Others(m) = {} /\ steer = NoSteer ->
         IF n.queue # <<>> THEN BegunHead(over) ELSE [over EXCEPT !.status = "idle"]
    [] n.status \in Over ->
         [(IF n.status = "ended" THEN over ELSE MarkFailed(over, Waiting(n.queue)))
            EXCEPT !.queue = <<>>]
    [] OTHER -> over

\* The catch of a refused promotion: back to its place in the queue, or given
\* up.  The code puts it into the array it was taken from: that is the queue
\* unless the queue was dropped meanwhile, which takes a closed session or two
\* promotions that overtake one Stop.
PutBack(n, m) ==
  IF n.status \in Over THEN MarkFailed(n, {m})
  ELSE [n EXCEPT !.queue = With(@, Smaller(steer.index, Len(@) + 1), m)]

\* The turn is over; a promotion that waited for its input settles with it.
TurnOver(m) ==
  /\ stop' = [stop EXCEPT !.waits = @ \ {m}]
  /\ steer' = IF steer.msg = m THEN NoSteer ELSE steer
  /\ UNCHANGED <<harness, ambient, disposing, sent, restarts, resends>>

\* The runner returned; an input nobody had reported as taken was taken.
TurnEnds(m) ==
  /\ ~StopIsDue
  /\ turn[m].pc # "none"
  /\ TurnOver(m)
  /\ IF turn[m].pc = "sent" THEN Hand(m) ELSE UNCHANGED handed
  /\ IF steer.msg = m
     THEN Becomes(Settled(Finished(Consumed(Judged(m), m), m)))
     ELSE Becomes(Finished(Judged(m), m))

\* The runner threw, or ended without the input it was to admit.
TurnFails(m) ==
  /\ ~StopIsDue
  /\ turn[m].pc # "none"
  /\ TurnOver(m)
  /\ UNCHANGED handed
  /\ IF steer.msg = m
     THEN Becomes(Settled(PutBack(Finished(JudgedFailed(m), m), m)))
     ELSE Becomes(Finished(JudgedFailed(m), m))

----------------------------------------------------------------------------
(* Stop, close, the harness on its own, the node.                           *)

Aborted(t) == [m \in Msgs |-> IF t[m].pc = "none" THEN t[m] ELSE [t[m] EXCEPT !.aborted = TRUE]]

\* A repeated Stop joins the first.  With no turn of ours the harness is asked.
Interrupt ==
  /\ stop.pc = "none" /\ status # "ended"
  /\ stop' = [pc |-> IF Running(turn) = {} THEN "asking" ELSE "joining", waits |-> Running(turn),
              overtaken |-> FALSE]
  /\ turn' = Aborted(turn)
  /\ UNCHANGED <<harness, status, queue, row, steer, ambient, disposing, sent, handed, restarts, resends>>

StopSettles ==
  /\ stop.pc = "asking" \/ StopIsDue
  /\ stop' = NoStop
  /\ status' = IF status = "streaming" THEN "interrupted" ELSE status
  /\ UNCHANGED <<harness, queue, row, turn, steer, ambient, disposing, sent, handed, restarts, resends>>

Close ==
  /\ ~StopIsDue
  /\ status # "ended"
  /\ status' = "ended"
  /\ turn' = Aborted(turn)
  /\ ambient' = FALSE
  /\ UNCHANGED <<harness, queue, row, steer, stop, disposing, sent, handed, restarts, resends>>

\* message_start of a message that no turn of ours asked for.
AmbientStarts ==
  /\ ~StopIsDue
  /\ status # "ended" /\ ~disposing /\ ~ambient
  /\ ambient' = TRUE
  /\ status' = "streaming"
  /\ UNCHANGED <<harness, queue, row, turn, steer, stop, disposing, sent, handed, restarts, resends>>

\* message_complete, message_error, message_interrupted.
AmbientEnds ==
  /\ ~StopIsDue
  /\ ambient /\ ~disposing
  /\ ambient' = FALSE
  /\ \E how \in {"idle", "error", "interrupted"} :
       status' = IF Running(turn) = {} THEN how ELSE status
  /\ UNCHANGED <<harness, queue, row, turn, steer, stop, disposing, sent, handed, restarts, resends>>

\* Shutdown aborts what runs, and again what began since.
Dispose ==
  /\ ~StopIsDue
  /\ ~disposing \/ turn # Aborted(turn)
  /\ disposing' = TRUE
  /\ turn' = Aborted(turn)
  /\ UNCHANGED <<harness, status, queue, row, steer, stop, ambient, sent, handed, restarts, resends>>

\* The process ends, after a shutdown or without; reconcileAfterRestart.
Restart ==
  /\ restarts < MaxRestarts
  /\ restarts' = restarts + 1
  /\ Becomes([MarkFailed(now, {m \in Msgs : row[m].queued})
                EXCEPT !.status = IF @ = "streaming" THEN "interrupted" ELSE @,
                       !.queue = <<>>,
                       !.turn = [m \in Msgs |-> NoTurn]])
  /\ steer' = NoSteer
  /\ stop' = NoStop
  /\ ambient' = FALSE
  /\ disposing' = FALSE
  /\ UNCHANGED <<harness, sent, handed, resends>>

----------------------------------------------------------------------------
Next ==
  \/ \E m \in Msgs : Send(m) \/ SendWake(m) \/ InputAccepted(m) \/ TurnEnds(m) \/ TurnFails(m)
  \/ \E i \in DOMAIN queue : Steer(i) \/ Dequeue(i)
  \/ Interrupt \/ StopSettles \/ Close \/ AmbientStarts \/ AmbientEnds \/ Dispose \/ Restart

\* The runner of a turn returns or throws in the end, and a promise continues.
Fairness == /\ \A m \in Msgs : []<>(turn[m].pc = "none")
            /\ WF_vars(StopSettles)

Spec == Init /\ [][Next]_vars /\ Fairness

----------------------------------------------------------------------------
TypeOK ==
  /\ harness \in Harnesses
  /\ status \in {"idle", "streaming"} \cup Over
  /\ queue \in Seq(Msgs)
  /\ row \in [Msgs -> [known : BOOLEAN, queued : BOOLEAN, composer : BOOLEAN, failed : BOOLEAN]]
  /\ turn \in [Msgs -> [pc : {"none", "sent", "started"}, kind : {"plain", "steer", "inject"},
                        aborted : BOOLEAN]]
  /\ steer \in [msg : Msgs \cup {NoMsg}, index : Nat]
  /\ stop \in [pc : {"none", "asking", "joining"}, waits : SUBSET Msgs, overtaken : BOOLEAN]
  /\ ambient \in BOOLEAN
  /\ disposing \in BOOLEAN
  /\ sent \subseteq Wakes
  /\ handed \in [Msgs -> Nat]
  /\ restarts \in Nat
  /\ resends \in Nat

\* A session that says it streams has somebody who will end that: were it
\* streaming with nothing under way, every later send would be queued behind
\* nothing and the session would hang.
StreamingIsAlive ==
  status = "streaming" => Running(turn) # {} \/ ambient

\* What waits in the queue begins when nothing else runs: neither the turn it
\* was sent behind, nor a steered one, nor one that an earlier end of a turn or
\* of a promotion has already begun.
QueueRunsAlone ==
  [][\A m \in Waiting(queue) :
       turn'[m].pc = "sent" /\ turn'[m].kind = "plain" => Running(turn') = {m}]_vars

\* The queue is in memory and its rows are durable: a waiting message has a row
\* that says so, once, and a row that says so belongs to a message that waits,
\* is being steered or has reached the agent.  A row without its message would
\* neither run nor fail; a message without its mark would be lost by a restart.
RowsMatchQueue ==
  /\ Cardinality(Waiting(queue)) = Len(queue)
  /\ status # "ended" => \A m \in Msgs \ Wakes :
       /\ m \in Waiting(queue) => row[m].queued /\ ~row[m].failed /\ turn[m].pc = "none"
       /\ row[m].queued => m \in Waiting(queue) \/ steer.msg = m \/ handed[m] > 0

\* Within one life of the node a message is given to the agent once, whoever
\* sends it again, steers it, puts it back or resends it.
HandedOnce == \A m \in Msgs : handed[m] <= 1 + restarts

\* What waits behind a turn does not wait for ever: it runs, or its user takes
\* it out of the queue, or it is marked failed.  Sends are bounded, so the queue
\* empties, unless the harness meanwhile begins a message of its own, whose end
\* drains nothing.
WaitingEnds ==
  (queue # <<>> /\ Running(turn) # {}) ~> (queue = <<>> \/ ambient)

\* session-runtime.ts:1216-1218: "a Resend of a message this node already took
\* (queued, running or answered) is held here. Only a message that never
\* reached the agent runs again."
OnlyUndeliveredRunsAgain == \A m \in Msgs : handed[m] <= 1
====
