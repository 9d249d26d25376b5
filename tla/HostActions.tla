----------------------------- MODULE HostActions -----------------------------
(****************************************************************************)
(* The node side of the Host Action channel: the durable rows and change    *)
(* log of packages/runtime/src/session/host-action-store.ts, and the live   *)
(* waiters of host-action-channel.ts.  A session asks its controller (a     *)
(* paired desktop) to run a tool; the controller claims the action, runs it *)
(* and responds; the tool call gets exactly one terminal answer.            *)
(*                                                                          *)
(* A store method is one SQLite transaction and a channel method runs to    *)
(* its end without yielding, so each is one action here.  A refused call    *)
(* changes nothing beyond the sweep it may have begun with, which is        *)
(* Reconcile.  Time is counted in ticks of an unspecified length.           *)
(****************************************************************************)
EXTENDS Integers, Sequences, FiniteSets, SequencesExt

CONSTANTS
  Actions,      \* action ids
  Sessions,     \* sessions served by the node
  Clients,      \* controller client sessions (paired desktops)
  Bodies,       \* distinguishable response bodies
  Policies,     \* replay policies of the tools in use
  Deadline,     \* deadlineMs of a request
  ClaimTtl,     \* claimTtlMs and the ttl asked by a renewal
  MaxTime,      \* bound: last tick
  MaxVersion,   \* bound: renewals and rebinds stop at this row version
  NoClient, NoResponse, NoAnswer

ASSUME FiniteActions == IsFiniteSet(Actions)
ASSUME SomeSession == Sessions # {}
ASSUME DurationsAreNat == Deadline \in Nat /\ ClaimTtl \in Nat
ASSUME BoundsAreNat == MaxTime \in Nat /\ MaxVersion \in Nat
ASSUME PoliciesAreKnown == Policies \subseteq {"safe", "unsafe"}
ASSUME NullsAreNew == NoClient \notin Clients

VARIABLES
  now,        \* Date.now()
  row,        \* table host_actions
  changes,    \* table host_action_changes; the sequence number is the position
  session,    \* what the channel reads of a session (HostActionSessionView)
  waiting,    \* keys of the channel's waiters map
  answer,     \* what the promise of request() resolved with
  serving,    \* the host takes requests and its database is open
  grants      \* claim tokens handed out, each with the client that got it

rowVars == <<row, changes>>
waiterVars == <<waiting, answer>>
vars == <<now, row, changes, session, waiting, answer, serving, grants>>

Outcomes  == {"succeeded", "failed"}
Terminal  == Outcomes \cup {"cancelled"}
States    == {"absent", "pending", "claimed"} \cup Terminal
Responses == [outcome : Outcomes, body : Bodies]
Answers   == [state : Terminal, response : Responses \cup {NoResponse}]

Rows ==
  [ state : States, version : Nat, session : Sessions,
    controller : Clients \cup {NoClient}, policy : {"safe", "unsafe"}, deadline : Nat,
    token : Nat, claimExpires : Nat, response : Responses \cup {NoResponse} ]

Changes == [ action : Actions, controller : Clients \cup {NoClient},
             state : States, version : Nat ]

\* "none": capability version below 1; "other": granted, but not for the tool's group.
SessionViews == [ controller : Clients \cup {NoClient}, grant : {"none", "other", "full"},
                  closed : BOOLEAN, streaming : BOOLEAN ]

Grants == [action : Actions, token : Nat, client : Clients]

Live(r) == r.state \in {"pending", "claimed"}

-----------------------------------------------------------------------------
(* Row updates.  Every UPDATE bumps the version.  A claim token is known by   *)
(* the version its claim produced, which no other claim of the action shares. *)

Updated(r, state, controller, token, claimExpires) ==
  [ state |-> state, version |-> r.version + 1, session |-> r.session,
    controller |-> controller, policy |-> r.policy, deadline |-> r.deadline,
    token |-> token, claimExpires |-> claimExpires, response |-> r.response ]

Cancelled(r) == Updated(r, "cancelled", r.controller, 0, 0)

BackToPending(r, c) == Updated(r, "pending", c, 0, 0)

Claimed(r) == Updated(r, "claimed", r.controller, r.version + 1, now + ClaimTtl)

Renewed(r) ==
  LET until == now + ClaimTtl
  IN  Updated(r, "claimed", r.controller, r.token, IF until < r.deadline THEN until ELSE r.deadline)

\* Mutant: respond forgets response_payload_hash and the result.
FinishedWithoutResponse(r, response) == Updated(r, response.outcome, r.controller, 0, 0)

Finished(r, response) ==
  [Updated(r, response.outcome, r.controller, 0, 0) EXCEPT !.response = response]

Expired(r) == r.state = "claimed" /\ r.claimExpires <= now

\* Mutant: the UPDATE matches state = 'pending' only.
CancelPendingOnly(S) ==
  [a \in Actions |-> IF a \in S /\ row[a].state = "pending" THEN Cancelled(row[a]) ELSE row[a]]

CancelRows(S) ==
  [a \in Actions |-> IF a \in S /\ Live(row[a]) THEN Cancelled(row[a]) ELSE row[a]]

\* Mutant: an expired claim is requeued whatever its replay policy.
SweptRowRequeuesUnsafe(r) ==
  IF ~Live(r) THEN r
  ELSE IF r.deadline <= now THEN Cancelled(r)
  ELSE IF Expired(r) THEN BackToPending(r, r.controller) ELSE r

\* reconcileExpired: the deadline first, then the claim's own expiry.
SweptRow(r) ==
  IF ~Live(r) THEN r
  ELSE IF r.deadline <= now THEN Cancelled(r)
  ELSE IF ~Expired(r) THEN r
  ELSE IF r.policy = "safe" THEN BackToPending(r, r.controller)
  ELSE Cancelled(r)

Sweep == [a \in Actions |-> SweptRow(row[a])]

\* Mutant: a rebind keeps the claim of the former controller.
ReboundKeepsClaim(r, s, c) ==
  IF ~Live(r) \/ r.session # s \/ r.controller = c THEN r
  ELSE Updated(r, r.state, c, r.token, r.claimExpires)

\* Mutant: the SELECT of a rebind forgets session_id.
ReboundEverySession(r, s, c) ==
  IF ~Live(r) \/ r.controller = c THEN r
  ELSE IF r.state = "claimed" /\ r.policy = "unsafe" THEN Cancelled(r)
  ELSE BackToPending(r, c)

\* rebindSessionController: rows already addressed to c stay as they are.
ReboundRow(r, s, c) ==
  IF ~Live(r) \/ r.session # s \/ r.controller = c THEN r
  ELSE IF r.state = "claimed" /\ r.policy = "unsafe" THEN Cancelled(r)
  ELSE BackToPending(r, c)

Rebound(s, c) == [a \in Actions |-> ReboundRow(row[a], s, c)]

-----------------------------------------------------------------------------
(* Writing back: insertChange logs every row an UPDATE touched, addressed to *)
(* the row's controller after the update; settle resolves the waiters of the *)
(* rows that reached a terminal state.                                       *)

Entry(a, r) == [action |-> a, controller |-> r.controller, state |-> r.state,
                version |-> r.version]

\* Mutant: one change per transaction.
LogFirstOnly(old, new) ==
  LET ids == SetToSeq({a \in Actions : new[a] # old[a]})
  IN  IF ids = <<>> THEN <<>> ELSE <<Entry(ids[1], new[ids[1]])>>

Log(old, new) ==
  LET ids == SetToSeq({a \in Actions : new[a] # old[a]})
  IN  [i \in 1..Len(ids) |-> Entry(ids[i], new[ids[i]])]

Store(new) ==
  /\ row' = new
  /\ changes' = changes \o Log(row, new)

AnswerOf(r) == [state |-> r.state, response |-> r.response]

\* Mutant: reconcileExpiry settles every changed row, requeued ones too.
EndedOrRequeued(new) == {a \in Actions : Live(row[a]) /\ new[a] # row[a]}

\* Mutant: a transaction that ends several rows settles one waiter.
EndedFirstOnly(new) ==
  LET ids == SetToSeq({a \in Actions : Live(row[a]) /\ ~Live(new[a])})
  IN  IF ids = <<>> THEN {} ELSE {ids[1]}

Ended(new) == {a \in Actions : Live(row[a]) /\ ~Live(new[a])}

Settle(S, new) ==
  /\ answer' = [a \in Actions |-> IF a \in S \cap waiting THEN AnswerOf(new[a]) ELSE answer[a]]
  /\ waiting' = waiting \ S

SessionActions(s) == {a \in Actions : row[a].session = s}

\* cancelForSession and cancelAction: the channel's private cancel().
CancelAll(S) ==
  /\ Store(CancelRows(S))
  /\ Settle(Ended(CancelRows(S)), CancelRows(S))

-----------------------------------------------------------------------------
(* The tool call's side.                                                     *)

\* The guards of request() in their order; the waiter is registered in the same step.
Request(a, s, policy) ==
  /\ serving
  /\ session[s].controller # NoClient
  /\ session[s].grant = "full"
  /\ ~session[s].closed
  /\ row[a].state = "absent"
  /\ now + Deadline <= MaxTime
  /\ Store([row EXCEPT ![a] =
       [ state |-> "pending", version |-> 1, session |-> s,
         controller |-> session[s].controller, policy |-> policy,
         deadline |-> now + Deadline, token |-> 0, claimExpires |-> 0,
         response |-> NoResponse ]])
  /\ waiting' = waiting \cup {a}
  /\ UNCHANGED <<now, session, answer, serving, grants>>

\* The waiter's own timer, armed for the deadline.
WaiterTimeout(a) ==
  /\ a \in waiting
  /\ row[a].deadline <= now
  /\ CancelAll({a})
  /\ UNCHANGED <<now, session, serving, grants>>

\* The call's AbortSignal, or a turn signal found aborted when the request came in.
AbortCall(a) ==
  /\ a \in waiting
  /\ CancelAll({a})
  /\ UNCHANGED <<now, session, serving, grants>>

-----------------------------------------------------------------------------
(* The controller's side.                                                    *)

\* Versions at which a pending change was addressed to client c.
Offered(c, a) ==
  {e.version : e \in {f \in Range(changes) :
                        f.action = a /\ f.controller = c /\ f.state = "pending"}}

\* The 2 s timer, and the sweep that opens every poll and every claim.
Reconcile ==
  /\ serving
  /\ Store(Sweep)
  /\ Settle(Ended(Sweep), Sweep)
  /\ UNCHANGED <<now, session, serving, grants>>

\* The checks of the channel, then the store's compare-and-set on the swept row.
MayClaim(c, a, v) ==
  LET r == Sweep[a] IN
  /\ r.state # "absent"
  /\ r.controller = c
  /\ session[r.session].controller = c
  /\ session[r.session].grant = "full"
  /\ ~session[r.session].closed
  /\ session[r.session].streaming
  /\ r.state = "pending"
  /\ r.version = v
  /\ r.deadline > now

Claim(c, a, v) ==
  /\ serving
  /\ v \in Offered(c, a)
  /\ MayClaim(c, a, v)
  /\ LET claimed == [Sweep EXCEPT ![a] = Claimed(@)] IN
       /\ row' = claimed
       /\ changes' = changes \o Log(row, Sweep) \o Log(Sweep, claimed)
       /\ Settle(Ended(Sweep), Sweep)
       /\ grants' = grants \cup {[action |-> a, token |-> claimed[a].token, client |-> c]}
  /\ UNCHANGED <<now, session, serving>>

MayRenew(g) ==
  LET r == row[g.action] IN
  /\ r.controller = g.client
  /\ r.state = "claimed"
  /\ r.token = g.token
  /\ r.deadline > now
  /\ r.claimExpires > now

RenewClaim(g) ==
  /\ serving
  /\ row[g.action].version < MaxVersion
  /\ MayRenew(g)
  /\ Store([row EXCEPT ![g.action] = Renewed(@)])
  /\ UNCHANGED <<now, session, waiting, answer, serving, grants>>

\* Mutant: respond does not compare the claim token.
MayRespondWithAnyToken(g) ==
  row[g.action].controller = g.client /\ row[g.action].state = "claimed"

\* No check of the claim's expiry or of the deadline: only the sweep ends a claim.
MayRespond(g) ==
  LET r == row[g.action] IN
  /\ r.controller = g.client
  /\ r.state = "claimed"
  /\ r.token = g.token

Respond(g, response) ==
  /\ serving
  /\ MayRespond(g)
  /\ LET new == [row EXCEPT ![g.action] = Finished(@, response)] IN
       Store(new) /\ Settle({g.action}, new)
  /\ UNCHANGED <<now, session, serving, grants>>

\* A repeated identical payload is a receipt, whatever token comes with it.
IsReceipt(g, response) ==
  LET r == row[g.action] IN
  /\ r.controller = g.client
  /\ r.state \in Outcomes
  /\ r.response = response

RespondAgain(g, response) ==
  /\ serving
  /\ IsReceipt(g, response)
  /\ Settle({g.action}, row)
  /\ UNCHANGED <<now, row, changes, session, serving, grants>>

-----------------------------------------------------------------------------
(* The session and the host.                                                 *)

\* The view of the session that its host gives the channel says "streaming".
StartTurn(s) ==
  /\ serving
  /\ ~session[s].closed /\ ~session[s].streaming
  /\ session' = [session EXCEPT ![s].streaming = TRUE]
  /\ UNCHANGED <<now, row, changes, waiting, answer, serving, grants>>

\* The last of the session's turns settles (on a node, session-runtime.ts:1979,
\* where a queued turn keeps the status streaming).
EndTurn(s) ==
  /\ serving
  /\ session[s].streaming
  /\ \E next \in BOOLEAN : session' = [session EXCEPT ![s].streaming = next]
  /\ CancelAll(SessionActions(s))
  /\ UNCHANGED <<now, serving, grants>>

\* The turn stays live until its runner returns; a request made meanwhile finds
\* its signal aborted and is taken back by AbortCall (session-runtime.ts:2193).
Interrupt(s) ==
  /\ serving
  /\ CancelAll(SessionActions(s))
  /\ UNCHANGED <<now, session, serving, grants>>

\* The session is closed (session-runtime.ts:2032-2050).
Close(s) ==
  /\ serving
  /\ ~session[s].closed
  /\ session' = [session EXCEPT ![s].closed = TRUE, ![s].streaming = FALSE]
  /\ CancelAll(SessionActions(s))
  /\ UNCHANGED <<now, serving, grants>>

\* Another client session acquired control of the session (the caller, with the
\* controller and the grant it records: session-runtime.ts:708-746).
Rebind(s, c) ==
  /\ serving
  /\ ~session[s].closed
  /\ session[s].controller # c
  /\ \A a \in SessionActions(s) : Live(row[a]) => row[a].version < MaxVersion
  /\ session' = [session EXCEPT ![s].controller = c,
                                ![s].grant = IF @ = "none" THEN "full" ELSE @]
  /\ Store(Rebound(s, c))
  /\ Settle(Ended(Rebound(s, c)), Rebound(s, c))
  /\ UNCHANGED <<now, serving, grants>>

\* The controllers became unreachable: cancel what live waiters are blocked on.
CancelWaiting ==
  /\ serving
  /\ CancelAll(waiting)
  /\ UNCHANGED <<now, session, serving, grants>>

\* shutdown(): the same, but the database may already be closed, and then the
\* waiters are answered with the rows left as they are.
Shutdown ==
  /\ serving
  /\ serving' = FALSE
  /\ \/ Store(CancelRows(waiting))
     \/ UNCHANGED rowVars
  /\ answer' = [a \in Actions |-> IF a \in waiting THEN AnswerOf(Cancelled(row[a])) ELSE answer[a]]
  /\ waiting' = {}
  /\ UNCHANGED <<now, session, grants>>

\* A crash or an exit, and the next boot: promises die with the process, the
\* store cancels what was left, sessions come back idle.
Restart ==
  /\ serving' = TRUE
  /\ Store(CancelRows(Actions))
  /\ waiting' = {}
  /\ session' = [s \in Sessions |-> [session[s] EXCEPT !.streaming = FALSE]]
  /\ UNCHANGED <<now, answer, grants>>

Tick ==
  /\ now < MaxTime
  /\ now' = now + 1
  /\ UNCHANGED <<row, changes, session, waiting, answer, serving, grants>>

-----------------------------------------------------------------------------

AbsentRow ==
  [ state |-> "absent", version |-> 0, session |-> CHOOSE s \in Sessions : TRUE,
    controller |-> NoClient, policy |-> "safe", deadline |-> 0, token |-> 0,
    claimExpires |-> 0, response |-> NoResponse ]

\* create(): a session without a controller has no capability.
Init ==
  /\ now = 0
  /\ row = [a \in Actions |-> AbsentRow]
  /\ changes = <<>>
  /\ session \in [Sessions -> {v \in SessionViews :
                    /\ ~v.closed /\ ~v.streaming
                    /\ v.controller = NoClient => v.grant = "none"}]
  /\ waiting = {}
  /\ answer = [a \in Actions |-> NoAnswer]
  /\ serving = TRUE
  /\ grants = {}

CallStep == \E a \in Actions :
  \/ \E s \in Sessions, policy \in Policies : Request(a, s, policy)
  \/ WaiterTimeout(a)
  \/ AbortCall(a)

ControllerStep ==
  \/ \E c \in Clients, a \in Actions : \E v \in Offered(c, a) : Claim(c, a, v)
  \/ \E g \in grants : RenewClaim(g)
  \/ \E g \in grants, response \in Responses : Respond(g, response) \/ RespondAgain(g, response)

SessionStep == \E s \in Sessions :
  \/ StartTurn(s)
  \/ EndTurn(s)
  \/ Interrupt(s)
  \/ Close(s)
  \/ \E c \in Clients : Rebind(s, c)

HostStep == Reconcile \/ CancelWaiting \/ Shutdown \/ Restart \/ Tick

Next == CallStep \/ ControllerStep \/ SessionStep \/ HostStep

\* Only the clock and each waiter's own timer are assumed to run.
Fairness == WF_vars(Tick) /\ \A a \in Actions : WF_vars(WaiterTimeout(a))

Spec == Init /\ [][Next]_vars /\ Fairness

-----------------------------------------------------------------------------
(* Properties.                                                               *)

\* Every variable has the shape its table or map has in the code.
TypeOK ==
  /\ now \in Nat
  /\ row \in [Actions -> Rows]
  /\ changes \in Seq(Changes)
  /\ session \in [Sessions -> SessionViews]
  /\ waiting \subseteq Actions
  /\ answer \in [Actions -> Answers \cup {NoAnswer}]
  /\ serving \in BOOLEAN
  /\ grants \subseteq Grants

\* No tool call hangs and none is abandoned: while the host serves, the live
\* rows are exactly those a waiter of request() is blocked on, so each path that
\* ends a row also settles its waiter, and none settles a row that goes on.
WaitersMatchLiveRows == serving => waiting = {a \in Actions : Live(row[a])}

\* The answer the agent got is the outcome the durable row holds; the only
\* difference allowed is a shutdown that could no longer write the row, whose
\* call got "cancelled" and whose row can then become nothing but cancelled.
AnswerAgreesWithRow ==
  \A a \in Actions : answer[a] # NoAnswer =>
    \/ ~Live(row[a]) /\ row[a].state # "absent" /\ answer[a] = AnswerOf(row[a])
    \/ ~serving /\ Live(row[a]) /\ answer[a] = [state |-> "cancelled", response |-> NoResponse]

\* host-action-store.ts:9-11: an action that is not replayable is handed out at
\* most once in its life, over expiries, rebinds, restarts and retries.
UnsafeGrantedOnce ==
  \A g, h \in grants : g.action = h.action /\ row[g.action].policy = "unsafe" => g = h

\* A live claim belongs to the newest grant, made to the client that is still
\* the action's controller; older tokens and former controllers are fenced off.
ClaimIsFenced ==
  \A a \in Actions :
    /\ row[a].state = "claimed" =>
         [action |-> a, token |-> row[a].token, client |-> row[a].controller] \in grants
    /\ \A g \in grants : g.action = a =>
         g.token <= row[a].version /\ (row[a].state = "claimed" => g.token <= row[a].token)

\* Where a change log tells of action a.
Told(a, log) == {p \in DOMAIN log : log[p].action = a}

\* The change log of an action is gapless: its versions run from 1 to the row's
\* in the order of the log, and the last entry describes the row, so a poller
\* that reads it misses no transition.
LogIsGapless ==
  \A a \in Actions :
    /\ {changes[p].version : p \in Told(a, changes)} = 1..row[a].version
    /\ \A p, q \in Told(a, changes) : p < q => changes[p].version < changes[q].version
    /\ \A p \in Told(a, changes) :
         changes[p].version = row[a].version => changes[p] = Entry(a, row[a])

\* A live action belongs to its session as it is now: addressed to its current
\* controller, never left behind by a close, and claimed only while a turn runs.
LiveRowsFollowSession ==
  \A a \in Actions : Live(row[a]) =>
    LET s == session[row[a].session] IN
    /\ row[a].controller = s.controller
    /\ ~s.closed
    /\ row[a].state = "claimed" => s.streaming

\* request() always comes back: a waiter is eventually settled or dies with the process.
EveryRequestReturns == \A a \in Actions : a \in waiting ~> a \notin waiting

-----------------------------------------------------------------------------
(* What the channel promises, seen through its rows and claims.              *)

PhaseOf(r) == IF r.state = "absent" THEN "none" ELSE IF Live(r) THEN "open" ELSE r.state

ToolCall == INSTANCE HostToolCall WITH
  Calls      <- Actions,
  Replies    <- Responses,
  NoReply    <- NoResponse,
  call       <- [a \in Actions |-> PhaseOf(row[a])],
  replayable <- [a \in Actions |-> row[a].policy = "safe"],
  handed     <- [a \in Actions |-> {g \in grants : g.action = a}],
  reply      <- [a \in Actions |-> row[a].response]

\* The rows, claims, sweeps and rebinds implement the tool call the agent sees.
ToolCallSpec == ToolCall!Spec

=============================================================================
