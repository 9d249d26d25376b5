------------------------- MODULE ConnectionSupervisor -------------------------
(****************************************************************************)
(* One supervised connection of a desktop to a node: the retry state        *)
(* machine of packages/shared/src/environment/connection-supervisor-core.ts *)
(* with the dial and health check that apps/desktop/src/main/environment    *)
(* gives it (node-connection-manager.ts) and the loop that brings it the    *)
(* lifecycle events of the operating system (environment-host.ts).          *)
(* One JavaScript thread: an action runs to its next await; continuations   *)
(* of the wake loop (pc "next") run before any other event.                 *)
(****************************************************************************)
EXTENDS Integers

CONSTANTS
  Failures,      \* kinds of failure a dial may meet
  AttemptCap,    \* attempts from which the backoff no longer grows
  MaxFaults,     \* bound: failed dials, lost or dead links, refused probes, route switches
  MaxOsEvents,   \* bound: network edges and resumes
  MaxRetries     \* bound: presses of Connect

Recoverable == {"protocol_incompatible"}
Terminal == {"auth", "revoked", "identity_conflict"}
Reasons == {"app-resume", "network-online", "network-offline", "health-probe"}
None == "none"

ASSUME FailureKinds == Failures \subseteq {"transient"} \cup Recoverable \cup Terminal
ASSUME Bounds == {AttemptCap, MaxFaults, MaxOsEvents, MaxRetries} \subseteq Nat

VARIABLES
  state,       \* SupervisorState; "connecting" and "disconnected" never outlast a step
  attempt,     \* failures since the ladder was reset
  generation,  \* the live dial, or the last; bumped by an offline edge too
  blockReason,
  timer,       \* the backoff timer is armed
  stable,      \* generation whose stable timer is armed, 0 if none
  disposed,
  wake,        \* drainWake: where it is, and the generation it awaits
  pendingWake, \* the latest reason not yet taken up
  dials,       \* generations of the connect() calls under way
  link,        \* the socket: none, open, or dead with no event of it
  host,        \* drainWakeDesiredConnections: idle, awaiting wake(), or going on; its pending reason
  network,     \* what the operating system last reported
  heard,       \* the network edge the supervisor last took up
  faults, osEvents, retries

supervisorVars == <<state, attempt, generation, blockReason, timer, stable, disposed>>
wakeVars == <<wake, pendingWake>>
worldVars == <<network, faults, osEvents, retries>>
vars == <<supervisorVars, wakeVars, dials, link, host, heard, worldVars>>

Idle == [pc |-> "idle", gen |-> 0]
NextWake == [pc |-> "next", gen |-> 0]
IdleHost == [pc |-> "idle", pending |-> None]

\* No continuation is queued: another event may be handled.
Settled == wake.pc # "next"

Fault == faults < MaxFaults /\ faults' = faults + 1

-----------------------------------------------------------------------------
(* Dials.                                                                    *)

\* runConnect up to the await of connect().
BeginDial ==
  /\ timer' = FALSE
  /\ stable' = 0
  /\ generation' = generation + 1
  /\ state' = "synchronizing"
  /\ dials' = dials \cup {generation + 1}

\* Mutant: the retry is not scheduled.
BackoffUnarmed ==
  /\ attempt' = IF attempt < AttemptCap THEN attempt + 1 ELSE attempt
  /\ state' = "backoff"
  /\ timer' = FALSE

\* scheduleBackoff.
Backoff ==
  /\ attempt' = IF attempt < AttemptCap THEN attempt + 1 ELSE attempt
  /\ state' = "backoff"
  /\ timer' = TRUE

\* The wake loop goes on when the dial it awaits has ended.
Awaited(g) == wake' = IF wake = [pc |-> "dialing", gen |-> g] THEN NextWake ELSE wake

Start ==
  /\ Settled
  /\ ~disposed /\ state = "available"
  /\ BeginDial
  /\ UNCHANGED <<attempt, blockReason, disposed, wakeVars, link, host, heard, worldVars>>

\* Mutant: connecting ends the backoff ladder.
DialLandsResetting(g) ==
  /\ Settled
  /\ g \in dials
  /\ network = "up"
  /\ dials' = dials \ {g}
  /\ Awaited(g)
  /\ IF disposed \/ g # generation
     THEN UNCHANGED <<state, timer, stable, link, attempt>>
     ELSE state' = "connected" /\ timer' = FALSE /\ stable' = g /\ link' = "open" /\ attempt' = 0
  /\ UNCHANGED <<generation, blockReason, disposed, pendingWake, host, heard, worldVars>>

\* connect() resolved; a dial that was superseded changes nothing.
DialLands(g) ==
  /\ Settled
  /\ g \in dials
  /\ network = "up"
  /\ dials' = dials \ {g}
  /\ Awaited(g)
  /\ IF disposed \/ g # generation
     THEN UNCHANGED <<state, timer, stable, link>>
     ELSE state' = "connected" /\ timer' = FALSE /\ stable' = g /\ link' = "open"
  /\ UNCHANGED <<attempt, generation, blockReason, disposed, pendingWake, host, heard, worldVars>>

\* connect() rejected: back off, or block until the user repairs the pairing.
DialFails(g, kind) ==
  /\ Settled
  /\ g \in dials
  /\ Fault
  /\ dials' = dials \ {g}
  /\ Awaited(g)
  /\ CASE disposed \/ g # generation \/ state = "offline" ->
            UNCHANGED <<state, attempt, timer, stable, blockReason>>
       [] ~(disposed \/ g # generation \/ state = "offline") /\ kind = "transient" ->
            Backoff /\ UNCHANGED <<stable, blockReason>>
       [] OTHER ->
            /\ state' = "blocked" /\ blockReason' = kind
            /\ timer' = FALSE /\ stable' = 0
            /\ UNCHANGED attempt
  /\ UNCHANGED <<generation, disposed, pendingWake, link, host, heard, network, osEvents, retries>>

BackoffTimer ==
  /\ Settled
  /\ timer
  /\ IF disposed \/ state \in {"blocked", "synchronizing", "connected"}
     THEN timer' = FALSE /\ UNCHANGED <<state, generation, stable, dials>>
     ELSE BeginDial
  /\ UNCHANGED <<attempt, blockReason, disposed, wakeVars, link, host, heard, worldVars>>

\* 30 s after a dial landed.
StableTimer ==
  /\ Settled
  /\ stable # 0
  /\ stable' = 0
  /\ attempt' = IF generation = stable /\ state = "connected" THEN 0 ELSE attempt
  /\ UNCHANGED <<state, generation, blockReason, timer, disposed, wakeVars, dials, link, host, heard, worldVars>>

-----------------------------------------------------------------------------
(* The socket.                                                               *)

\* The peer is gone and nothing says so.
LinkDies ==
  /\ Settled
  /\ link = "open" /\ Fault
  /\ link' = "dead"
  /\ UNCHANGED <<supervisorVars, wakeVars, dials, host, heard, network, osEvents, retries>>

\* Mutant: no heartbeat, so only a close event ends a socket.
LinkLostOnClose ==
  /\ Settled
  /\ ~disposed
  /\ link = "open" /\ Fault
  /\ link' = "none"
  /\ IF state = "connected" THEN stable' = 0 /\ Backoff ELSE UNCHANGED <<state, attempt, timer, stable>>
  /\ wake' = IF wake.pc = "health" THEN NextWake ELSE wake
  /\ UNCHANGED <<generation, blockReason, disposed, pendingWake, dials, host, heard, network, osEvents, retries>>

\* Mutant: the calls pending on a socket that closes are left pending.
LinkLostLeavesCall ==
  /\ Settled
  /\ ~disposed
  /\ \/ link = "open" /\ Fault
     \/ link = "dead" /\ UNCHANGED faults
  /\ link' = "none"
  /\ IF state = "connected" THEN stable' = 0 /\ Backoff ELSE UNCHANGED <<state, attempt, timer, stable>>
  /\ UNCHANGED <<generation, blockReason, disposed, wakeVars, dials, host, heard, network, osEvents, retries>>

\* The socket closed, missed its pongs, or let a call time out: notifyDisconnected.
LinkLost ==
  /\ Settled
  /\ ~disposed
  /\ \/ link = "open" /\ Fault
     \/ link = "dead" /\ UNCHANGED faults
  /\ link' = "none"
  /\ IF state = "connected" THEN stable' = 0 /\ Backoff ELSE UNCHANGED <<state, attempt, timer, stable>>
  /\ wake' = IF wake.pc = "health" THEN NextWake ELSE wake
  /\ UNCHANGED <<generation, blockReason, disposed, pendingWake, dials, host, heard, network, osEvents, retries>>

-----------------------------------------------------------------------------
(* The wake loop.                                                            *)

\* Mutant: the offline edge leaves the generation to the dial under way.
OfflineLeavesDial ==
  IF state \in {"available", "blocked"}
  THEN UNCHANGED <<state, generation, timer, stable, link>>
  ELSE /\ state' = "offline"
       /\ timer' = FALSE /\ stable' = 0 /\ link' = "none"
       /\ UNCHANGED generation

\* doWake of "network-offline".
Offline ==
  IF state \in {"available", "blocked"}
  THEN UNCHANGED <<state, generation, timer, stable, link>>
  ELSE /\ state' = "offline" /\ generation' = generation + 1
       /\ timer' = FALSE /\ stable' = 0 /\ link' = "none"

\* One round of drainWake, up to the next await of doWake.
DrainWake ==
  /\ ~Settled
  /\ pendingWake' = None
  /\ heard' = CASE ~disposed /\ pendingWake = "network-offline" -> "down"
                [] ~disposed /\ pendingWake = "network-online" -> "up"
                [] OTHER -> heard
  /\ host' = IF (disposed \/ pendingWake = None) /\ host.pc = "waiting"
             THEN [host EXCEPT !.pc = "ready"] ELSE host
  /\ CASE disposed \/ pendingWake = None ->
            wake' = Idle /\ UNCHANGED <<state, generation, timer, stable, dials, link>>
       [] ~disposed /\ pendingWake = "network-offline" ->
            wake' = NextWake /\ Offline /\ UNCHANGED dials
       [] ~disposed /\ pendingWake \in Reasons \ {"network-offline"} /\ state = "connected" ->
            /\ wake' = [pc |-> "health", gen |-> generation]
            /\ UNCHANGED <<state, generation, timer, stable, dials, link>>
       [] ~disposed /\ pendingWake \in Reasons \ {"network-offline"} /\ state \in {"blocked", "synchronizing"} ->
            wake' = NextWake /\ UNCHANGED <<state, generation, timer, stable, dials, link>>
       [] OTHER ->
            /\ wake' = [pc |-> "dialing", gen |-> generation + 1]
            /\ BeginDial
            /\ UNCHANGED link
  /\ UNCHANGED <<attempt, blockReason, disposed, worldVars>>

\* A probe failed on a connection: drop the socket and dial again at once.
TearDown ==
  /\ link' = "none"
  /\ BeginDial
  /\ wake' = [pc |-> "dialing", gen |-> generation + 1]

\* The node answered the health check, and no better route is known.
HealthOk ==
  /\ Settled
  /\ wake.pc = "health" /\ link = "open"
  /\ wake' = NextWake
  /\ UNCHANGED <<supervisorVars, pendingWake, dials, link, host, heard, worldVars>>

\* The node answered that it is not well.
HealthRefused ==
  /\ Settled
  /\ wake.pc = "health" /\ link = "open" /\ Fault
  /\ IF disposed THEN wake' = NextWake /\ UNCHANGED <<state, generation, timer, stable, dials, link>>
                 ELSE TearDown
  /\ UNCHANGED <<attempt, blockReason, disposed, pendingWake, host, heard, network, osEvents, retries>>

\* The node is well and a better route is known: it is tried on a second socket.
RouteFound ==
  /\ Settled
  /\ wake.pc = "health" /\ link = "open"
  /\ wake' = [wake EXCEPT !.pc = "verifying"]
  /\ UNCHANGED <<supervisorVars, pendingWake, dials, link, host, heard, worldVars>>

\* The better route carried a connection or did not; the probe of a generation
\* that is over reports failure.
RouteVerified(proved) ==
  /\ Settled
  /\ wake.pc = "verifying"
  /\ IF proved THEN Fault ELSE UNCHANGED faults
  /\ IF disposed \/ state # "connected" \/ (wake.gen = generation /\ ~proved)
     THEN wake' = NextWake /\ UNCHANGED <<state, generation, timer, stable, dials, link>>
     ELSE TearDown
  /\ UNCHANGED <<attempt, blockReason, disposed, pendingWake, host, heard, network, osEvents, retries>>

\* wake(): single-flight, the latest reason is kept.
Wake(reason) ==
  IF disposed \/ state = "blocked"
  THEN UNCHANGED wakeVars
  ELSE pendingWake' = reason /\ wake' = IF wake.pc = "idle" THEN NextWake ELSE wake

\* The 30 s interval while connected, or a LAN announcement of the node.
HealthTimer ==
  /\ Settled
  /\ ~disposed /\ state \notin {"available", "blocked"}
  /\ Wake("health-probe")
  /\ UNCHANGED <<supervisorVars, dials, link, host, heard, worldVars>>

-----------------------------------------------------------------------------
(* The operating system and the user.                                        *)

\* The host awaits the wake it asks for, unless wake() returns at once.
HostAwaits == [pc |-> IF disposed \/ state = "blocked" THEN "ready" ELSE "waiting", pending |-> None]

\* What the monitor calls, wakeDesiredConnections (environment-host.ts:3031): also
\* single-flight with the latest reason kept.
HostWakes(reason) ==
  IF host.pc = "idle"
  THEN host' = HostAwaits /\ Wake(reason)
  ELSE host' = [host EXCEPT !.pending = reason] /\ UNCHANGED wakeVars

\* The wake it awaited is over, and so are those of the other connections; the
\* loop takes its next reason (environment-host.ts:3046).
HostDrains ==
  /\ Settled
  /\ host.pc = "ready"
  /\ IF host.pending = None
     THEN host' = IdleHost /\ UNCHANGED wakeVars
     ELSE host' = HostAwaits /\ Wake(host.pending)
  /\ UNCHANGED <<supervisorVars, dials, link, heard, worldVars>>

OsEvent(reason) ==
  /\ Settled
  /\ state # "available"
  /\ osEvents < MaxOsEvents /\ osEvents' = osEvents + 1
  /\ \/ reason = "network-offline" /\ network = "up" /\ network' = "down"
     \/ reason = "network-online" /\ network = "down" /\ network' = "up"
     \/ reason = "app-resume" /\ UNCHANGED network
  /\ HostWakes(reason)
  /\ UNCHANGED <<supervisorVars, dials, link, heard, faults, retries>>

\* Mutant: Connect clears every block.
RetryClearsAnyBlock(unblock) ==
  /\ Settled
  /\ retries < MaxRetries /\ retries' = retries + 1
  /\ ~disposed /\ state \in {"blocked", "backoff", "offline"}
  /\ state = "blocked" => unblock
  /\ attempt' = 0
  /\ blockReason' = None
  /\ BeginDial
  /\ UNCHANGED <<disposed, wakeVars, link, host, heard, network, faults, osEvents>>

\* retryNow, where it does anything: unblock is the Connect button.
RetryNow(unblock) ==
  /\ Settled
  /\ retries < MaxRetries /\ retries' = retries + 1
  /\ ~disposed /\ state \in {"blocked", "backoff", "offline"}
  /\ state = "blocked" => unblock /\ blockReason \in Recoverable
  /\ attempt' = 0
  /\ blockReason' = None
  /\ BeginDial
  /\ UNCHANGED <<disposed, wakeVars, link, host, heard, network, faults, osEvents>>

\* disconnect: the supervisor is disposed of and the socket closed.
Dispose ==
  /\ Settled
  /\ ~disposed
  /\ disposed' = TRUE
  /\ timer' = FALSE /\ stable' = 0 /\ link' = "none"
  /\ wake' = IF wake.pc = "health" THEN NextWake ELSE wake
  /\ UNCHANGED <<state, attempt, generation, blockReason, pendingWake, dials, host, heard, worldVars>>

-----------------------------------------------------------------------------

Init ==
  /\ state = "available"
  /\ attempt = 0 /\ generation = 0
  /\ blockReason = None
  /\ timer = FALSE /\ stable = 0 /\ disposed = FALSE
  /\ wake = Idle /\ pendingWake = None
  /\ dials = {} /\ link = "none"
  /\ host = IdleHost
  /\ network = "up" /\ heard = "up"
  /\ faults = 0 /\ osEvents = 0 /\ retries = 0

DialStep == \E g \in dials : DialLands(g) \/ \E kind \in Failures : DialFails(g, kind)

ProbeStep == HealthOk \/ HealthRefused \/ RouteFound \/ \E proved \in BOOLEAN : RouteVerified(proved)

Next ==
  \/ Start \/ DialStep \/ BackoffTimer \/ StableTimer
  \/ LinkDies \/ LinkLost
  \/ DrainWake \/ ProbeStep \/ HealthTimer
  \/ HostDrains \/ (\E reason \in Reasons : OsEvent(reason))
  \/ (\E unblock \in BOOLEAN : RetryNow(unblock))
  \/ Dispose

\* Timers fire, every call that is awaited has a deadline, and the event loop
\* gets to each of them between others (hence SF).  Nothing is assumed of the
\* operating system, the user, or a socket that is open.
Fairness ==
  /\ WF_vars(DrainWake) /\ SF_vars(Start) /\ SF_vars(DialStep) /\ SF_vars(BackoffTimer)
  /\ SF_vars(ProbeStep) /\ SF_vars(HostDrains) /\ SF_vars(LinkLost /\ link = "dead")

Spec == Init /\ [][Next]_vars /\ Fairness

-----------------------------------------------------------------------------
(* Properties.                                                               *)

TypeOK ==
  /\ state \in {"available", "synchronizing", "connected", "backoff", "blocked", "offline"}
  /\ attempt \in 0..AttemptCap
  /\ generation \in Nat /\ stable \in 0..generation
  /\ blockReason \in Failures \cup {None}
  /\ {timer, disposed} \subseteq BOOLEAN
  /\ wake \in [pc : {"idle", "next", "health", "verifying", "dialing"}, gen : 0..generation]
  /\ pendingWake \in Reasons \cup {None}
  /\ dials \subseteq 1..generation
  /\ link \in {"none", "open", "dead"}
  /\ host \in [pc : {"idle", "waiting", "ready"}, pending : Reasons \cup {None}]
  /\ {network, heard} \subseteq {"up", "down"}

\* The one field that every await leaves to be judged later agrees with the
\* dials, the timer and the socket. A dial of the current generation is under way
\* exactly while "synchronizing": none outlives an offline edge or a block, and
\* the state never waits for a dial nobody makes. The backoff timer runs exactly
\* in backoff: a failed connection is retried, and nothing dials on its own while
\* offline, blocked or connected. "connected" is said of a socket that exists,
\* and a socket exists only then.
StateIsTrue ==
  ~disposed =>
    /\ generation \in dials <=> state = "synchronizing"
    /\ timer <=> state = "backoff"
    /\ state = "connected" <=> link # "none"

\* A block on the credential or the identity of the node is ended by nothing
\* but a new pairing: no wake, late dial, timer or Connect leaves it.
TerminalBlocksStay ==
  [][state = "blocked" /\ blockReason \in Terminal => state' = "blocked" /\ blockReason' = blockReason]_vars

\* connection-supervisor-core.ts:328: connecting again does not reset the
\* ladder; a lasting connection or the user does.
FlapsKeepTheLadder ==
  [][attempt' < attempt => (state = "connected" /\ stable = generation) \/ \E u \in BOOLEAN : RetryNow(u)]_vars

\* The connection comes back by itself after any faults, edges and wakes,
\* unless it is blocked, disposed of, or the network is down.
Recovers == <>[](state \in {"connected", "blocked"} \/ disposed \/ network = "down")

\* A socket that died silently is noticed.
DeadLinkIsNoticed == link = "dead" ~> link # "dead"

\* A wake reason is taken up, however long the wake under way lasts (with the
\* network down, dials end by the faults that the bound counts).
WakesAreDrained == pendingWake # None ~> pendingWake = None \/ disposed \/ network = "down"
=============================================================================
