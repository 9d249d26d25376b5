-------------------------- MODULE HostActionSystem ---------------------------
(****************************************************************************)
(* The node's Host Action channel composed with one consumer loop per       *)
(* controller, apps/desktop/src/main/environment/remote-host-action-        *)
(* consumer.ts: it polls for changes, schedules what is pending, claims,    *)
(* executes and responds.  A call to the node is three steps (the desktop   *)
(* sends, the node handles, the desktop goes on), so the loop, the          *)
(* executions and the node interleave; a reply may be lost.                 *)
(****************************************************************************)
EXTENDS HostActions

CONSTANTS
  Concurrency,  \* executions a consumer runs at once
  PageLimit,    \* changes a poll returns at most
  MaxLosses     \* bound: lost calls and dropped connections

ASSUME LimitsArePositive == Concurrency \in Nat \ {0} /\ PageLimit \in Nat \ {0}

VARIABLES
  consumer,   \* per client: cursor, known, queue, slot, inflight
  reply,      \* per client: the poll answer on its way
  executions, \* per action: times an executor was started on it, anywhere
  committed,  \* onResponded ran, with the response it was told about
  losses

desktopVars == <<consumer, reply, executions, committed, losses>>
sysVars == <<vars, desktopVars>>

Snapshot == -1      \* cursor = null
NoReply == [entries |-> <<>>, cursor |-> Snapshot]

\* The highest of some positions, 0 of none.
Highest(S) == CHOOSE m \in S \cup {0} : \A p \in S : p <= m

Idle == [phase |-> "idle", action |-> NoAnswer, version |-> 0, token |-> 0,
         aborted |-> FALSE, response |-> NoResponse]

Slots == 1..Concurrency

\* A job's call is with the node, or answered, in the phases named after it.

Fresh == [ cursor |-> Snapshot, known |-> {}, queue |-> <<>>,
           slot |-> [i \in Slots |-> Idle], inflight |-> [a \in Actions |-> 0] ]

-----------------------------------------------------------------------------
(* The consumer's own bookkeeping, as functions of its state k.              *)

\* The scheduled function starts: inflight is overwritten, the claim is sent.
Begin(k, i, task) ==
  [k EXCEPT !.slot[i] = [Idle EXCEPT !.phase = "claiming", !.action = task.action,
                                     !.version = task.version],
            !.inflight[task.action] = i]

ScheduleIfNeeded(k, task) ==
  IF task.action \in k.known THEN k
  ELSE LET added == [k EXCEPT !.known = @ \cup {task.action}]
           free  == {i \in Slots : k.slot[i].phase = "idle"}
       IN  IF free = {} THEN [added EXCEPT !.queue = Append(@, task)]
           ELSE Begin(added, CHOOSE i \in free : TRUE, task)

\* A terminal change: abort what inflight holds, forget the action.
DropTerminal(k, a) ==
  LET i == k.inflight[a]
      aborted == IF i = 0 THEN k ELSE [k EXCEPT !.slot[i].aborted = TRUE]
  IN  [aborted EXCEPT !.inflight[a] = 0, !.known = @ \ {a}]

\* The loop's body on one change (or one snapshot row, never terminal).
Consume(k, e) ==
  CASE e.state = "pending" -> ScheduleIfNeeded(k, [action |-> e.action, version |-> e.version])
    [] e.state \in Terminal -> DropTerminal(k, e.action)
    [] OTHER -> k

\* The whole answer, change by change in the order of their positions.
Consumed(k, entries) ==
  LET after[n \in 0..Highest(DOMAIN entries)] ==
        IF n = 0 THEN k
        ELSE IF n \in DOMAIN entries THEN Consume(after[n - 1], entries[n]) ELSE after[n - 1]
  IN  after[Highest(DOMAIN entries)]

\* finally: inflight.delete by action id, then the scheduler starts the next one.
EndJob(k, i) ==
  LET freed == [k EXCEPT !.inflight[k.slot[i].action] = 0, !.slot[i] = Idle] IN
  IF k.queue = <<>> THEN freed
  ELSE Begin([freed EXCEPT !.queue = Tail(@)], i, Head(k.queue))

Forget(k, a) == [k EXCEPT !.known = @ \ {a}]

SetConsumer(c, k) == consumer' = [consumer EXCEPT ![c] = k]

Job(c, i) == consumer[c].slot[i]

\* The claim token a job holds, as the node would recognise it.
GrantOf(c, i) == [action |-> Job(c, i).action, token |-> Job(c, i).token, client |-> c]

-----------------------------------------------------------------------------
(* Polling.                                                                  *)

\* listOutstanding over the given rows, oldest first by id order.
Outstanding(c, rows) ==
  LET ids == SetToSeq({a \in Actions : Live(rows[a]) /\ rows[a].controller = c})
  IN  [i \in DOMAIN ids |-> Entry(ids[i], rows[ids[i]])]

\* listChangesAfter: the first PageLimit positions past the cursor addressed to c.
Unread(c, after, log) == {p \in after + 1..Len(log) : log[p].controller = c}

Page(c, after, log) ==
  {p \in Unread(c, after, log) :
     Cardinality({q \in Unread(c, after, log) : q < p}) < PageLimit}

Answer(c, rows, log) ==
  LET after == consumer[c].cursor
      page  == Page(c, after, log)
  IN  IF after = Snapshot
      THEN [entries |-> Outstanding(c, rows), cursor |-> Len(log)]
      ELSE IF page = {} THEN [entries |-> <<>>, cursor |-> Len(log)]
      ELSE [entries |-> [p \in page |-> log[p]], cursor |-> Highest(page)]

\* A poll answered at once: sweep, then read.
PollNow(c) ==
  /\ reply[c] = NoReply
  /\ Reconcile
  /\ reply' = [reply EXCEPT ![c] = Answer(c, row', changes')]
  /\ UNCHANGED <<consumer, executions, committed, losses>>

\* A long poll woken by a change or by its timer: it reads without a sweep.
PollAfterWait(c) ==
  /\ serving
  /\ reply[c] = NoReply
  /\ consumer[c].cursor # Snapshot
  /\ reply' = [reply EXCEPT ![c] = Answer(c, row, changes)]
  /\ UNCHANGED <<vars, consumer, executions, committed, losses>>

PollReceived(c) ==
  /\ reply[c] # NoReply
  /\ SetConsumer(c, [Consumed(consumer[c], reply[c].entries) EXCEPT !.cursor = reply[c].cursor])
  /\ reply' = [reply EXCEPT ![c] = NoReply]
  /\ UNCHANGED <<vars, executions, committed, losses>>

\* timeout, closed or transport error: back to a snapshot, with nothing known.
PollLost(c) ==
  /\ losses < MaxLosses
  /\ losses' = losses + 1
  /\ SetConsumer(c, [consumer[c] EXCEPT !.cursor = Snapshot, !.known = {}])
  /\ reply' = [reply EXCEPT ![c] = NoReply]
  /\ UNCHANGED <<vars, executions, committed>>

-----------------------------------------------------------------------------
(* One scheduled job: claim, execute, respond.                               *)

SetPhase(c, i, phase) == [consumer[c] EXCEPT !.slot[i].phase = phase]

ClaimHandled(c, i) ==
  LET j == Job(c, i) IN
  /\ j.phase = "claiming"
  /\ \/ /\ Claim(c, j.action, j.version)
        /\ SetConsumer(c, [SetPhase(c, i, "granted") EXCEPT !.slot[i].token = row'[j.action].token])
     \/ /\ ~MayClaim(c, j.action, j.version)
        /\ Reconcile
        /\ SetConsumer(c, SetPhase(c, i, "refused"))
  /\ UNCHANGED <<reply, executions, committed, losses>>

\* The executor is started, or an abort that came first ends the job.
ClaimGranted(c, i) ==
  LET j == Job(c, i) IN
  /\ j.phase = "granted"
  /\ IF j.aborted
     THEN SetConsumer(c, EndJob(consumer[c], i)) /\ UNCHANGED executions
     ELSE /\ SetConsumer(c, SetPhase(c, i, "running"))
          /\ executions' = [executions EXCEPT ![j.action] = @ + 1]
  /\ UNCHANGED <<vars, reply, committed, losses>>

ClaimRefused(c, i) ==
  /\ Job(c, i).phase = "refused"
  /\ SetConsumer(c, EndJob(Forget(consumer[c], Job(c, i).action), i))
  /\ UNCHANGED <<vars, reply, executions, committed, losses>>

\* The reply is lost or times out; the node may have handled the call.
ClaimLost(c, i) ==
  /\ Job(c, i).phase \in {"claiming", "granted", "refused"}
  /\ losses < MaxLosses
  /\ losses' = losses + 1
  /\ SetConsumer(c, EndJob(Forget(consumer[c], Job(c, i).action), i))
  /\ UNCHANGED <<vars, reply, executions, committed>>

\* A long tool keeps its claim alive (host-action-executor.ts, host-action-sync.ts).
Renew(c, i) ==
  /\ Job(c, i).phase = "running"
  /\ RenewClaim(GrantOf(c, i))
  /\ UNCHANGED desktopVars

\* Mutant: the executor commits its own effects before the node has answered.
ExecutorDoneCommits(c, i) ==
  /\ Job(c, i).phase = "running"
  /\ \E response \in Responses :
       /\ SetConsumer(c, [SetPhase(c, i, "responding") EXCEPT !.slot[i].response = response])
       /\ committed' = committed \cup {[action |-> Job(c, i).action, response |-> response]}
  /\ UNCHANGED <<vars, reply, executions, losses>>

\* The executor returned or threw.
ExecutorDone(c, i) ==
  /\ Job(c, i).phase = "running"
  /\ IF Job(c, i).aborted
     THEN SetConsumer(c, EndJob(consumer[c], i))
     ELSE \E response \in Responses :
            SetConsumer(c, [SetPhase(c, i, "responding") EXCEPT !.slot[i].response = response])
  /\ UNCHANGED <<vars, reply, executions, committed, losses>>

RespondHandled(c, i) ==
  LET j == Job(c, i) IN
  /\ j.phase = "responding"
  /\ \/ /\ Respond(GrantOf(c, i), j.response) \/ RespondAgain(GrantOf(c, i), j.response)
        /\ SetConsumer(c, SetPhase(c, i, "accepted"))
     \/ /\ serving
        /\ ~MayRespond(GrantOf(c, i)) /\ ~IsReceipt(GrantOf(c, i), j.response)
        /\ SetConsumer(c, SetPhase(c, i, "rejected"))
        /\ UNCHANGED vars
  /\ UNCHANGED <<reply, executions, committed, losses>>

\* onResponded: effects that must wait for the node, such as a mailbox read mark.
ResponseAccepted(c, i) ==
  LET j == Job(c, i) IN
  /\ j.phase = "accepted"
  /\ committed' = committed \cup {[action |-> j.action, response |-> j.response]}
  /\ SetConsumer(c, EndJob(consumer[c], i))
  /\ UNCHANGED <<vars, reply, executions, losses>>

\* conflict, failed_precondition or forbidden: known is dropped too.
ResponseRejected(c, i) ==
  /\ Job(c, i).phase = "rejected"
  /\ SetConsumer(c, EndJob(Forget(consumer[c], Job(c, i).action), i))
  /\ UNCHANGED <<vars, reply, executions, committed, losses>>

\* A transport error carries none of those codes: known keeps the action.
ResponseLost(c, i) ==
  /\ Job(c, i).phase \in {"responding", "accepted", "rejected"}
  /\ losses < MaxLosses
  /\ losses' = losses + 1
  /\ SetConsumer(c, EndJob(consumer[c], i))
  /\ UNCHANGED <<vars, reply, executions, committed>>

-----------------------------------------------------------------------------
(* Connections.                                                              *)

\* startHostActionConsumer (environment-host.ts:3813): stop() aborts what runs and
\* a new consumer starts on the new client; the old one's calls die with its
\* connection.
Reconnect(c) ==
  /\ losses < MaxLosses
  /\ losses' = losses + 1
  /\ SetConsumer(c, Fresh)
  /\ reply' = [reply EXCEPT ![c] = NoReply]
  /\ UNCHANGED <<vars, executions, committed>>

\* The node restarts: every connection to it is replaced.
NodeRestart ==
  /\ losses < MaxLosses
  /\ losses' = losses + 1
  /\ Restart
  /\ consumer' = [c \in Clients |-> Fresh]
  /\ reply' = [c \in Clients |-> NoReply]
  /\ UNCHANGED <<executions, committed>>

SysInit ==
  /\ Init
  /\ consumer = [c \in Clients |-> Fresh]
  /\ reply = [c \in Clients |-> NoReply]
  /\ executions = [a \in Actions |-> 0]
  /\ committed = {}
  /\ losses = 0

NodeStep == (CallStep \/ SessionStep \/ Reconcile \/ CancelWaiting \/ Tick) /\ UNCHANGED desktopVars

LoopStep(c) == PollNow(c) \/ PollAfterWait(c) \/ PollReceived(c) \/ PollLost(c) \/ Reconnect(c)

JobStep(c, i) ==
  \/ ClaimHandled(c, i) \/ ClaimGranted(c, i) \/ ClaimRefused(c, i) \/ ClaimLost(c, i)
  \/ Renew(c, i) \/ ExecutorDone(c, i)
  \/ RespondHandled(c, i) \/ ResponseAccepted(c, i) \/ ResponseRejected(c, i) \/ ResponseLost(c, i)

SysNext ==
  \/ NodeStep
  \/ NodeRestart
  \/ \E c \in Clients : LoopStep(c) \/ \E i \in Slots : JobStep(c, i)

SysSpec == SysInit /\ [][SysNext]_sysVars

-----------------------------------------------------------------------------
(* Properties.                                                               *)

Phases == {"idle", "claiming", "granted", "refused", "running", "responding", "accepted", "rejected"}

Jobs == [ phase : Phases, action : Actions \cup {NoAnswer}, version : Nat, token : Nat,
          aborted : BOOLEAN, response : Responses \cup {NoResponse} ]

Loops == [ cursor : Nat \cup {Snapshot}, known : SUBSET Actions,
           queue : Seq([action : Actions, version : Nat]),
           slot : [Slots -> Jobs], inflight : [Actions -> Slots \cup {0}] ]

\* The desktops' variables keep their shape; a busy slot works on an action, and
\* an answer on its way holds changes at positions of the log.
SysTypeOK ==
  /\ consumer \in [Clients -> Loops]
  /\ \A c \in Clients, i \in Slots : Job(c, i).phase # "idle" => Job(c, i).action \in Actions
  /\ reply \in [Clients -> {reply[c] : c \in Clients}]
  /\ \A c \in Clients :
       /\ reply[c].cursor \in Nat \cup {Snapshot}
       /\ IsFiniteSet(DOMAIN reply[c].entries) /\ DOMAIN reply[c].entries \subseteq Nat
       /\ \A p \in DOMAIN reply[c].entries : reply[c].entries[p] \in Changes
  /\ executions \in [Actions -> Nat]
  /\ committed \subseteq [action : Actions, response : Responses]
  /\ losses \in Nat

\* An action that must not be replayed is executed at most once, through lost
\* replies, reconnects, rebinds and node restarts.
UnsafeExecutedOnce ==
  \A a \in Actions : row[a].policy = "unsafe" => executions[a] <= 1

\* onResponded (remote-host-action-consumer.ts:38-42) runs only for a response
\* the node durably accepted, and the session's answer is that very response.
CommitImpliesAccepted ==
  \A d \in committed :
    /\ row[d.action].state = d.response.outcome
    /\ row[d.action].response = d.response

\* Of the executions of one action, at most one can still get its response in
\* as new: a slow execution cannot overtake the claim that replaced its own.
OneAuthoritativeExecution ==
  \A c, d \in Clients : \A i, j \in Slots :
    /\ Job(c, i).phase \in {"running", "responding"} /\ Job(d, j).phase \in {"running", "responding"}
    /\ MayRespond(GrantOf(c, i)) /\ MayRespond(GrantOf(d, j))
    /\ Job(c, i).action = Job(d, j).action
    => c = d /\ i = j
=============================================================================
