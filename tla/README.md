# SuperOne: models, checks and proofs

SuperOne runs coding agents. A session lives on one machine (a desktop, or a
headless node) and is watched and driven from others (desktops, phones, a web
view). This directory holds TLA+ models of the parts where machines, processes
and callbacks have to agree: what was executed, who may drive a session, whether
a connection is alive, which notification was delivered, which event a chat has
seen. TLC checks the models on small instances; TLAPS proves the most important
safety properties for every instance. `PROJECT.json` lists components, runs,
theorems, hazards and, for each definition, the lines it models.

To run one check and one proof:

    tlc -workers 2 -config ControlLease_desktop.cfg MCControlLease
    tlapm ControlLeaseProofs.tla

Paths below are relative to the repository.

## 1. The system

A TypeScript monorepo: `apps/desktop` (Electron), `apps/cli` (the headless
node), `apps/relay` (Cloudflare Durable Objects), `apps/mobile`, `apps/web`;
`packages/runtime` is the node's core, shared by desktop and CLI, and
`packages/shared` the protocol and the client state machines. A node serves
JSON-RPC and pushed streams over a WebSocket, directly or through the relay.
Everything runs on JavaScript event loops: code between two awaits is atomic
inside one process, and nothing is atomic across processes.

| Component | State it keeps | Operations | Speaks to | What is hard | What makes it correct | Module |
|---|---|---|---|---|---|---|
| Host Action channel (`host-action-store.ts`, `host-action-channel.ts`) | rows and change log in SQLite; waiters of tool calls in memory | request, claim, renew, respond, cancel, expire, rebind, end of turn or session, shutdown, restart | agent's tool call (promise), consumers (RPC), sessions | expiry against a late answer; repeated answers; restarts; one transaction ending many rows | one answer per call and it is the row's; unsafe work handed out once; claims fenced | `HostActions`, abstractly `HostToolCall` |
| Host Action consumer (`remote-host-action-consumer.ts`) | cursor, known set, queue, inflight map | poll, schedule, claim, execute, respond | the channel, executors | lost replies, reconnects, requeues while running | unsafe work runs once; nothing is committed that was not accepted | `HostActionSystem` |
| Control leases (`packages/runtime/src/lease`, `session-lease.ts`, admission in `desktop-session-host.ts`) | one row per resource, expiry timers, take-back flag, epoch | acquire, extend, take over, renew, release, revoke, take back, reclaim, expire, restart, fenced mutation | every client that drives a session, observers | proofs outlive take-overs and restarts; a mutation waits between check and effect | one driver; fences never reopen; writes land in grant order | `ControlLease` |
| Connection supervision (`connection-supervisor-core.ts`, `environment-connectivity-monitor.ts`, health check of `node-connection-manager.ts`) | state, attempt, generation, two timers, wake slot | dial, backoff, probe, route switch, wake, disconnect, block, retry, dispose | RPC client, OS events, user | late dials, wakes that overlap, silent deaths of sockets | the state tells the truth; it recovers; terminal blocks stay | `ConnectionSupervisor` |
| Collaboration wake queue (`wake-queue.ts`, `continuation.ts`, `collaboration-wakes.ts`) | queue and pause tables, three in-memory sets, timer | enqueue, flush, admit, confirm, submit, pause, migrate, recover | producers, harnesses | crash between two writes of a handoff; replaced sessions | no input twice; budget and pause survive crashes | `CollaborationWakeQueue` |
| Event log, ring, stream, feed (`event-log.ts`, `streaming-ring.ts`, `event-stream.ts`, `wire-outbox.ts`, `remote-session-feed.ts`, reader in `remote-environment-gateway.ts`) | durable log, streaming ring with floors, per-stream buffer and versions, reader's cursor, follower's barrier | append, evict, retire, subscribe, flush, hold, degrade, drain, receive, follow, resync, restart | session runtime, every follower | streaming events are not stored; versions start over; overload; drops in the middle of a catch-up | a follower shows the session once nothing is under way; order; nothing stranded | `SessionFeed` |
| Session file deliveries (`db-session-deliveries.ts`, `delivery-holders.ts`, `zone-delivery.ts`, `artifact-registry.ts`, `artifact-transfer-service.ts`) | one row per file: phase, outcome, holder, epoch, attempts; the holders at work, in memory | reserve, seal, abandon, claim, advance, release, fail, retry, push, upload, wake, drop | the tool call that makes files, the transfer worker, the node's zone, the mirror | claims from dead holders; readings that are stale when used; a final put that may have landed | one attempt sends the final put; a writer keeps its row; no complete file is dropped by mistake, each is carried | `SessionDeliveries` |
| Node session runtime (`session-runtime.ts`, `queued-controls.ts`, `input-admission.ts`) | sessions, turns, the queue in memory, the rows of the transcript on disk | send, queue, steer, dequeue, interrupt, close, shutdown, restart | harness, event log, leases | a turn that ends while a message is promoted; a Stop beside sends and steers; a queue in memory with durable marks | a message is handed over once; queue and rows agree; the queue runs alone and drains | `TurnQueue`; the turn's start and end as the channel sees them are in `HostActions` |
| Topic hub (`topic-hub.ts`) | routes, interests | subscribe, publish, snapshot | streams | changes against a topic set being replaced | every interested connection hears a change | planned |
| Collaboration mailbox (`collaboration/store.ts`, `mailbox.ts`) | messages, grants, acks | send, deliver, acknowledge | wake queue | acknowledgement against redelivery | no message lost or shown twice | planned |
| Auth (`auth-service.ts`) | refresh token families | pair, refresh, revoke | clients | a refresh whose reply was lost | grace allows the retry, reuse revokes | planned |
| Drafts, scheduled sends, task notifications, transcript window | small tables and queues | edit, arm, fire; take, requeue; page, fold | renderer, sessions | late results against newer state | no lost update, no double send | planned |
| Node connection manager, RPC client, environment host, RPC dispatch | wiring | | | | their decisions are in the models they drive | as inputs |
| Relay, terminals, automations, harness adapters, file and git services, views and apps | | | | I/O, calendars, wire formats, rendering | | not modelled |

`PROJECT.json` repeats the list with status and reasons.

## 2. The modules

### HostActions and HostToolCall

An agent's tool call on a node may need its controller's desktop (a browser, a
dialog). `request` inserts a row and blocks on a waiter; a controller claims the
row, runs it and responds. `HostActions` has the table as `row`, the change log
as `changes`, the waiters' map as `waiting`, the resolved promises as `answer`,
what the channel reads of sessions as `session`, and every claim token ever
handed out as `grants` (the clients' side). A store method is one SQLite
transaction, so it is one action, with the settling of waiters its callers do
in the same synchronous stretch. A refused call changes nothing beyond the
sweep it may have begun with; the sweep alone is `Reconcile`. A shutdown has
two outcomes, because the database may already be closed. `AnswerOf` is
`toTerminal`: what the row turns into for the agent.

`HostToolCall` is the abstract specification: opened once, handed out (once at
most if it must not be replayed), ended once, with a reply of somebody it was
handed to or cancelled. `ToolCallSpec` in `HostActions` is the refinement; a
step may move several calls, as one transaction does.

### HostActionSystem

`HostActions` composed with one consumer loop per client. A call to the node is
three steps (sent, handled, the loop goes on), so the loop, its executions and
the node interleave; the reply may be lost at either end, the connection
replaced, the node restarted. `consumer[c]` is the loop's `cursor`, `known`,
`queue`, `slot` (a running `runOne`) and `inflight`. What an executor does is
external: it ends with some response, and it runs on when aborted, as an
executor that ignores its signal does. The run has one consumer; an action
that a rebind moves from one desktop to another is checked in the node's own
runs, where its two controllers may do anything at any time.

### ControlLease

One row per resource, as in `control_leases`, every proof a client was ever
given (`proofs`), the armed expiry (`timer`), what observers last heard (`seen`),
the desktop user's take-back (`released`), and mutations between their check and
their effect (`pending`, `writer`). `AcquireControl` is the RPC handler with the
host's admission and the rebind, `Acquired` the service's method: extend for the
same holder and delegate, take over what yields, a new generation otherwise. A
handler that awaits between its check and its effect is `BeginMutation` and
`FinishMutation`, the second of which checks again, as the code does. A restart
changes the epoch and leaves rows and proofs behind.

### ConnectionSupervisor

One supervised connection: the core's fields, the dials under way with their
generations, the socket (`link`: none, open, dead without an event), where the
wake loop awaits (`wake`), the host's own loop that passes OS events on (`host`).
An action runs to the next await; continuations of the wake loop are microtasks,
so nothing else happens while one is queued (`Settled`). What the network does
to a dial, a probe or a route switch is a choice.

### CollaborationWakeQueue

The queue's two tables, its in-memory sets and its timer; `call[n]` is where the
admission of a wake stands. Code between awaits is atomic, except in the handoff:
its two row updates and the submission follow one another without a yield, but
the process may die between any two, so they are separate actions and only a
crash comes between them (`Quiet`). `handed` counts what the harness got and
`tries` the attempts begun; both are history. Confirmation comes right before
the submission in every backend. Sends go to the session that continues the one
addressed (`Migrate`). Recipients are sessions of this machine; a remote child
is deduplicated by its node under the notification's id and is not modelled.

### SessionFeed

From the node's append to the chat on another desktop. `hist` lists every event
in the order the node made them, with kind, version, epoch and durable sequence;
an event is its index. The node: `head`, `ver`, `ring`, `floor`. The stream of
the connection: what it has heard and not sent (`live`), its scheduled flush
(`due`: the microtask or the batch timer), congestion and the dropped streaming
events (`degraded`). `net` holds frames on the wire and in the reader's buffer.
The reader: its cursor. The follower: the version it starts above, the events
held until that is known, what its chat shows (`known`), and whether it has been
told to read again.

One session is modelled. "foreign" events stand for the durable events of all
others, which move the sequence and cut pages; `Evict` stands for their
streaming events, which push ours out of the ring. A page of a catch-up holds
one durable event, the finest cut a lost connection can make; a frame is
received as a whole, as the reader's buffer does. RPC replies may overtake
stream frames, as the outbox's control lane lets them: a barrier's snapshot
arrives at any time after it was read. A snapshot shows the durable events and
the streaming ones that still say something.

Two cases are marked in `lost` and left out of `FollowerIsCurrent`, because the
code accepts them: a subscription whose cursor has no version of the session
gets what the ring still holds and is not told of what was evicted, and a
re-read that fails with its connection is not asked for again.

### SessionDeliveries

A file an agent's tool makes on the desktop is owed to the node that runs the
session. `row` is its record, whose every write is one statement and moves the
epoch; `alive` are the holders at work (`live` of `delivery-holders.ts`, gone
with the process); a handle is a holder and an epoch, and `Owned` is the
condition every write carries. Four parties work on the rows: the producers
(`Reserve`, `Seal`, `Publish`, ...), the tool call that pushes what its reply
names (`call`, with what it holds and the one reading of the record it decides
from), up to two instances of the transfer worker (a connection may be replaced
while the old loop still awaits the node), and `NodeTakes`, the node, at any
time after a final put went out, also after the sender has died. `put` keeps
that history. A pass reads the rows once and goes from one to the next, without
an await where it can: `turn` says whose stretch it is.

Left out: times and offsets (a backoff may have passed at any moment, a put is a
part or the final one); a microtask between two statements is merged into the
stretch; a crash between two statements of one stretch (each leaves a row that
another path also leaves); a claim that fails after its token was minted; passes
that change nothing; a push that goes on behind the deadline of its reply, whose
handle is refused from then on; a failing database other than where `Fault` is
named. Holder tokens are numbered per file.

### TurnQueue

The turns of one session and what waits for them. `queue` is the FIFO, in memory;
`row` the marks of the durable user rows; `turn` the runs under way with their
kind (begun in the ordinary way, a promotion of a queued message, or an
injection into a running turn); `steer` the promotion that waits for the agent
to take its input; `stop` a Stop with the turns it captured; `ambient` a message
the harness began by itself. What the code does in one stretch is composed of
operators on the record `now` of status, queue, rows and turns (`Begun`,
`Enqueued`, `Finished`, `Settled`, ...), as the handlers call one another.
`handed` counts how often the agent was given a message and is history.

Three kinds of harness: Claude (a send may be promoted at once, a wake joins the
live turn), Codex (a send may be injected), and the others, which do not steer:
Cursor's sends are no composer cards, and what OpenCode steers natively is not
modelled. One promotion may overtake a Stop; two that do can bring back an array
of the queue that a drop has left behind (section 6), so `stop.overtaken` bounds
them to one.

## 3. Runs

The bounds are the smallest at which every action and every disjunct of every
next-state relation fires and each property can be broken by a plausible slip in
the code; each property of a passing run has such a mutant, defined beside the
definition it changes and marked "Mutant".

| Run | Instance | Shows |
|---|---|---|
| `host_actions` | 1 action, 1 session, 2 controllers, safe and unsafe; deadline 2, claim TTL 1, 3 ticks, 5 row versions | the answer is the row's (`AnswerAgreesWithRow`), unsafe work is handed out once, claims are fenced, every request returns, the rows implement `HostToolCall` |
| `host_actions_two` | 2 actions, 2 sessions, 2 controllers | transactions that end or move several rows: each waiter settled, each change logged, other sessions untouched |
| `host_consumer` | 1 action, 1 consumer with 2 slots, pages of 1 change, 2 losses | through lost replies, reconnects and restarts: unsafe work runs once, nothing committed that was not accepted, one authoritative execution |
| `control_lease` | a desktop host: window, phone, controller desktop, relayed phone; 1 session, TTL 2, 4 ticks, 3 grants, 1 restart | one driver, fences that stay shut, writes in grant order, take-back, observers, announced expiry |
| `supervisor` | every failure kind, 2 faults, 2 OS events, 1 press of Connect, ladder of 2 steps | state, dials, timers and socket agree; blocks stay; flaps keep the ladder; recovery, dead sockets noticed, wakes taken up |
| `wake_queue` | 2 notifications, 2 sessions one of which may continue the other, 3 attempts, 2 crashes or shutdowns | no replay, budget, durable pause, no delayed wake forgotten |
| `session_feed` | 3 events of any kinds, 1 restart, 1 dropped connection, evictions and congestion at any time | a follower is current once nothing is under way; order on the wire; nothing stranded |
| `session_feed_restart` | as `session_feed`, smaller | the first disagreement of section 6 |
| `session_deliveries` | 2 files, 1 loop, 1 fault, 1 attempt | readings of one file grow stale while another is awaited: one final put, a writer keeps its row, no complete file abandoned by mistake |
| `session_deliveries_live` | 1 file, also an attachment original, 2 loops, 2 faults, 2 attempts, 1 resync of the offset | the node's copy counts only when there is one; a complete file is delivered or visibly given up |
| `turn_queue` | 2 messages and 1 wake, all harnesses, 1 restart, 1 resend | a session that streams is alive; rows and queue agree; one hand-over per life of the node; the queue runs alone and empties |
| `turn_queue_resend` | 2 messages, Claude, 1 restart, 2 resends | the second disagreement of section 6 |

Why the bounds suffice for what they are used for. Two claims in a row need one
expiry, so three ticks hold a claim, its expiry, another claim and the deadline.
Five versions hold create, claim, requeue, claim, end. Two losses hold a lost
reply and the restart that follows it. Three grants hold a grant, the one that
takes it over and the return of the first; four ticks let the first expire and
be renewed. Two faults hold the loss of a connection and the failure of the next
dial. Two stops hold a crash in a handoff and another in its recovery. Three
events hold one that is let go, one that is committed or restarted over and one
that comes after; the larger feeds of four events without a restart were also
explored in full without finding a violation, but take too long to keep as runs.
Of deliveries, two files are what a stale reading needs and two loops what a
replaced connection needs; both at once, with liveness, are too many states for
a run. Three messages are one that runs, one that is promoted and one that waits
behind both; the proofs of section 5 cover any number. Data has as few values as
tell states apart: one response body, one tool per replay policy.

Deadlock is checked except in `supervisor`, where a connection that has been
disposed of really stops, in the runs of `SessionDeliveries`, where every file
is settled in the end, and in those of `TurnQueue`, where a closed session
whose turns have ended does nothing any more.

Symmetry is used only in runs of safety properties (`host_actions_two`,
`wake_queue`, `session_deliveries`).

## 4. Fairness

Liveness is stated under what the runtime guarantees and no more.

- `HostActions`: the clock runs, and each waiter's own `setTimeout` fires (WF of
  `Tick` and `WaiterTimeout`). No controller is assumed to answer: every request
  returns because its deadline does.
- `ControlLease`: the clock and the expiry timer (WF of `Tick`, `ExpiryFires`).
  No client is assumed to do anything.
- `ConnectionSupervisor`: the wake loop's continuations run (WF of `DrainWake`);
  dials, probes, timers and the host's loop are strongly fair, because each
  awaited call has a deadline and each timer fires, while other events of the
  loop may disable them for a moment; the heartbeat ends a dead socket. Nothing
  is assumed of the OS, the user or an open socket.
- `SessionDeliveries` (`FairSpec`): the connection comes back and its worker runs
  its passes, the node answers what it is asked and takes what was sent, a
  cancelled push ends, the tool returns or throws. Faults are bounded and no
  fault is assumed to happen.
- `TurnQueue`: every run of the harness returns or throws in the end
  (`[]<>(turn[m].pc = "none")`), and the continuation of a Stop runs (WF of
  `StopSettles`). The first is an assumption on agents and those who answer
  them: a turn may wait for an approval, and ends with its answer or with a Stop.
  It is what the queue itself waits for; no send, steer or Stop is assumed.
- The other modules state safety only, and no fairness. For `SessionFeed` and
  `CollaborationWakeQueue` "nothing is forgotten" is the invariant that something
  which will act is scheduled (`NothingIsStranded`, `RetriesAreScheduled`). The
  latter excepts a deferral, which schedules nothing (wake-queue.ts:227): such a
  wake waits for the next event of its session.

## 5. Proofs

The theorems hold for any values of the constants that meet the modules' named
assumptions: finite sets of actions, positive durations and bounds, frontends
that are told apart by holder and delegate.

`HostActionsProofs`
- `TypeCorrect`. Lemmas type each helper: a transaction's log entries, updated
  rows, settled answers.
- `UnsafeOnce`, `ClaimsFenced`, for any number of actions, sessions and clients.
  `UnsafeGrantedOnce` is not inductive: it does not say that a pending unsafe row
  has never been granted. `ClaimInv(a)` does: tokens never exceed the row's
  version, a claimed row's token is the newest grant and belongs to its
  controller, an unsafe row that is pending or absent has no grants, and if
  claimed or ended has one at most. Every action is first
  shown to change a row by one of a few moves (`RowMove`); the moves preserve
  `ClaimInv`.
- `ChannelImplementsToolCall`, the refinement: each move of a row is a step of
  `HostToolCall` for that call or a stutter. An ended row never moves again, and
  that an unsafe one is handed out from "new" only is `ClaimInv` once more.
- `WaitersAreLiveRows`, `AnswersAgree`, from `WaiterInv(a)`: what is blocked, what
  was resolved and the row belong together, with one exception spelled out, a
  call resolved by a shutdown that could no longer write. `WaiterMove` lists what
  a step may do to a row and its waiter as one.
- `RowsFollowSession` (`FollowsSession(a)`) and `LogGapless` (`Gapless`: an action's
  entries in the log are the versions from 1 to the row's, in order, the last one
  describing the row; a transaction appends one version to each row it writes).

`HostActionSystemProofs`
- `NodeUnderneath`: under any number of loops every node step is a step of the
  channel alone, with arguments the channel allows. What is proved of
  `HostActions` therefore holds of the composition; `SystemImplementsToolCall` and
  `SystemAnswersAgree` state it for the refinement and for the agent's answers.
- `ExecutedOnce`, `CommitsAccepted`, `OneAuthority` and `SysTypeCorrect`. `SysInv`
  says that every job between its claim and its end holds a grant (`JobInv`), no
  two the same (`Apart`), and that an unsafe action that was started has no job
  about to start it (`ExecInv`); with `ClaimInv` below it, one grant is one
  execution. `JobsMove` is what a step may do to the jobs: carry them, forget
  them, or move one of them on. The page a poll consumes is a recursive function
  over the entries; that it exists is shown by its restrictions, and what holds of
  every stage by the least stage at which it would not.

`ControlLeaseProofs`
- `TypeCorrect`, `GrantsOrdered`, `SingleDriver`, `FenceNeverReopens`,
  `OrderedWrites`, from one inductive invariant, `FenceInv`: ids and epochs of
  rows do not run ahead; a proof is no newer than its resource's row and agrees
  with it when it has its id; generations grow with ids in an epoch. One driver
  follows because two valid proofs have the row's id. The fence never reopens
  because a step either leaves the row alone, ends it, or gives it a new id, and
  an expired row is never extended.
- `ObserversKnow` and `TakeBackHolds`: a lease that is live after a step was left as
  it was, renewed with its timer, or acquired with its announcement (`LeftLive`,
  `RenewedLive`, `AcquiredLive`), and acquired against a take-back only by the
  desktop itself.

`ConnectionSupervisorProofs`
- `TypeCorrect`, `StateTrue`, `TerminalStays`, `FlapsKeep`, for any kinds of
  failure, any ladder and any number of faults, edges and retries. `TypeOK` has
  the fact the rest needs: every dial, stable timer and awaited wake is of a
  generation given out before, so a new generation makes all of them stale at
  once. With it `StateIsTrue` is inductive. Each action is one of eight moves of
  the machine (`MachineMove`); the action properties are read off the moves.

`CollaborationWakeQueueProofs`
- `TypeCorrect`, `InvHolds`, and from it `NeverReplayed`, `BudgetKept`,
  `PausesLast`, `OneByOne`. `RowInv(n)` says of each wake how its row, the
  admission under way and what the harness got go together: the row is written
  ahead of the call, and the harness has nothing before "submitted". `PauseInv`
  says that what pauses a session in memory only is a handoff past its receipt.
- `RetriesCome`: `RetriesAreScheduled` is inductive on top of `Inv`. A step that
  takes a due wake away, or moves it to another session, leaves something
  scheduled.

`SessionFeedProofs`
- `NothingStranded`: what was heard and not sent has a flush due or waits for the
  drain of a congested stream.
- `TypeCorrect` and `FramesInOrder`, for any number of events, pages, drops and
  restarts. `HistInv`: versions rise within a process, sequences over all of
  them, and no counter runs ahead. `Ordered` follows an event from the node to
  the cursor: what the cursor has not passed is news to it (`CursorInv`); a frame
  rises, holds only news, everything it names is older than what follows its
  sequence, and frames follow one another (`WireInv`); what the stream has heard
  and not sent is above all that is on the wire (`LiveInv`). `CatchUpIs` says what
  the pages of a subscription hold and which durable events they leave out: none.
- `FollowerCurrent`. `FollowerIsCurrent` speaks of a moment when nothing is under
  way, and says nothing of the moments before. `Followed` does: each event the
  chat should show and neither shows nor holds is `Ahead`, that is, the cursor has
  not passed it, no frame passes it without bringing it or naming a gap, and while a
  stream is open something is going to bring it: a frame, the buffer, or a
  degraded stream's reset. When nothing is under way none of these is left, so
  nothing is missing. It speaks of barriers of the running process
  (`BaseEp = epoch`), as the property does; the first disagreement of section 6 is
  what happens with the others.

`TurnQueueProofs`
- `TypeCorrect`, `StreamingAlive`, `QueueAlone`, `OneHandOver`, `RowsAndQueue`,
  for any messages, wakes and harnesses and any number of resends and restarts.
  None of the properties is inductive. `IInv` is the type, `Sound` of the record
  `now`, and three facts about steering, streaming and ambient turns. `Sound` has
  three parts. `TakenIsOnRecord`: what waits, runs or was handed over in this
  life of the node is on record, so a repeated send is held. `OnePlace`: nothing
  waits twice, waits while it runs, or waits or is about to be handed over once
  it was. `RowsAreMarked`: a row is marked as queued while its message waits or
  is being promoted, with one message exempt, the one whose step is under way.
- The code is a composition of steps on `now`, and so is the proof: a lemma per
  operator says what `Sound` becomes (`BegunIsSound`, `PutBackIsSound`, ...), an
  action's lemma chains them, and `GoodIs` turns the result into `IInv'`.
- `QueueAlone` is an action property: it follows from the same lemmas, since
  only the end of the last turn begins a message of the queue.

`SessionDeliveriesProofs`
- `TypeCorrect`, `FinalOnce`, `WriterKeeps`, `CopyIsReal`, `FileKept`, for any
  files, worker loops, retries, resyncs and faults. `IInv` puts epoch fencing in
  one formula per party. `Fits` relates a row to the puts of its file: before
  "committing" none has gone out, past it the node has one. `WriterInv` says that
  a reserved row is still at epoch 0 with its writer's token, `HeldInv` and
  `AttInv` that no other handle has that token, so no step of anybody else can
  own or claim the row. `TodoInv` says that what was read of a row is the row or
  has an older epoch, so a claim is always made on the row as it is.
- `Goes(f)` is what a step may do to a file; `Same`, `Rewrites` and `Allowed` are
  the three ways of meeting it, and every action is shown to be one of them.
  `GoodIs` turns that into `IInv'`; `CompleteFileIsKept` is the `Keeps` of `Goes`.

Every safety property that a passing run checks has its theorem. The other theorems
are the types, `GrantsOrdered` and `OneByOne`, which no run asks, and `NodeUnderneath`.

Only model-checked: liveness (`EveryRequestReturns`, `ExpiryIsAnnounced`,
`Recovers`, `DeadLinkIsNoticed`, `WakesAreDrained`, `CompleteFileIsCarried`,
`WaitingEnds`), which needs ENABLED and is out of the prover's reach. What is proved
of their safety side is that the thing which acts next is scheduled
(`RetriesCome`, `NothingStranded`, the timers of `ObserversKnow` and `StateTrue`).
The two runs of section 6 that end in a violation have no theorem.

## 6. Disagreements

Where the code and what is said of it part. Two are runs whose property states
the words and whose counterexample is what the code does.

1. `session_feed_restart`. A follower's barrier is a version without an epoch.
   After a node restart versions count on from the durable maximum, so a
   follower that joined while a message streamed drops new events, also durable
   ones, until the version passes its barrier; a re-read keeps the barrier
   (remote-session-feed.ts:226, event-log.ts:159, against
   remote-session-feed.ts:69-71).
2. `turn_queue_resend`. A message that failed and is sent again is marked as
   queued without becoming a composer card; when it is then steered, nothing
   takes the mark off although the agent has it, so a restart marks it failed
   and the next Resend runs it a second time (session-runtime.ts:1600, 1653,
   450, against 1216-1218).

Others were found with the same models, by TLC or by reading, and are kept as
text. The models contain all but the last two behaviours, and the properties
hold with them.

- A safe action requeued while its first execution still runs is never
  scheduled again, although nothing was lost: `scheduleIfNeeded` ignores it
  because it is known, and the change is not read twice
  (remote-host-action-consumer.ts:244 against the comments at 197, 290). The
  call waits for its deadline.
- After a failed poll the loop restarts from a snapshot of outstanding actions;
  a cancellation it missed never aborts the running execution (216 against 196).
  Its result is refused.
- One pending wake reason, overwritten by the latest whatever it is: an offline
  edge is lost behind a probe and the supervisor goes on dialing
  (connection-supervisor-core.ts:167 against 165).
- A route check that began on a connection since lost tears down the working one
  that replaced it (289, against docs/architecture/remote-node-service.md:745).
- A message that waits behind an ambient turn is not drained by its end
  (session-runtime.ts:1748) but by the next send and turn: `WaitingEnds` excepts
  it.
- A steer during a Stop that asks the harness is neither captured nor aborted by
  it; the Stop then says "interrupted" while the turn runs, and the next send
  begins a second one beside it (against session-runtime.ts:1271).
- A message taken out of the queue during a promotion shifts the place a refused
  promotion returns to.
- Two promotions that overtake one Stop: the second end puts its message into an
  array the drop has detached, whose rows were marked failed
  (outside the bound of `Steer`).
- A late refusal of OpenCode's own steer does the same (not modelled).

## 7. Not modelled, and why

- Within modelled components: a rebind that throws after its lease was granted;
  remote recipients of wakes; session removal and pruning of the log; the read
  model's reduction and checkpoints; observers of the session list, native topic
  followers, delivery policies and the renderer's merge of a snapshot with the
  events that arrive while it is read; route choice and token refresh inside a
  dial; executors.
- Whole components: those marked planned, next section. Relay, terminals and
  automations keep little shared state. Harness adapters translate wire formats.
  File and git services are I/O. Views render.

## 8. Plan

The order is by what would hurt most if wrong.

1. `TokenRefresh`: client and auth service with lost replies.
2. `TopicHub`, `Mailbox`, then the task notification queue, scheduled sends,
   drafts and the transcript window.
3. `TurnQueue` composed with `HostActions` through the session it reads, and
   OpenCode's own steering.
4. Proofs: that the follower of `SessionFeed` implements an abstract chat (events
   appear once, in order, and the durable ones are never withdrawn); that mutations
   of `ControlLease` implement a log written by one driver at a time; the theorem
   of each new module.

A run answers one question; when a module is added, runs that ask the least
(type invariants of compositions, the smaller disagreements once settled in the
code) make room for its own.
