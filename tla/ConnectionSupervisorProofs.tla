---------------------- MODULE ConnectionSupervisorProofs ----------------------
(****************************************************************************)
(* Theorems of ConnectionSupervisor, for any kinds of failure, any length   *)
(* of the ladder and any number of faults, edges, wakes and retries: the    *)
(* types, the truth of `state`, terminal blocks that stay and a ladder that *)
(* flapping does not reset.  The truth of `state` is inductive on top of    *)
(* the types: every dial is of a generation that was already given out, so  *)
(* a bumped generation makes all of them stale at once.                     *)
(****************************************************************************)
EXTENDS ConnectionSupervisor, TLAPS

Inv == TypeOK /\ StateIsTrue

-----------------------------------------------------------------------------
(* Types.                                                                    *)

WakePcs == {"idle", "next", "health", "verifying", "dialing"}

\* The state machine part of the types, which most actions move as one.
MachineTypes ==
  /\ state \in {"available", "synchronizing", "connected", "backoff", "blocked", "offline"}
  /\ attempt \in 0..AttemptCap
  /\ generation \in Nat /\ stable \in 0..generation
  /\ blockReason \in Failures \cup {None}
  /\ timer \in BOOLEAN /\ disposed \in BOOLEAN
  /\ dials \subseteq 1..generation
  /\ link \in {"none", "open", "dead"}

LoopTypes ==
  /\ wake \in [pc : WakePcs, gen : 0..generation]
  /\ pendingWake \in Reasons \cup {None}
  /\ host \in [pc : {"idle", "waiting", "ready"}, pending : Reasons \cup {None}]
  /\ network \in {"up", "down"} /\ heard \in {"up", "down"}

\* The two parts are the type invariant.
LEMMA TypesInTwo == TypeOK <=> MachineTypes /\ LoopTypes
BY DEF TypeOK, MachineTypes, LoopTypes, WakePcs

\* A new dial is of a generation given out now, and supersedes the others.
LEMMA DialBegins ==
  ASSUME MachineTypes, BeginDial, UNCHANGED disposed,
         attempt' \in 0..AttemptCap, blockReason' \in Failures \cup {None},
         link' \in {"none", "open", "dead"}
  PROVE  /\ MachineTypes'
         /\ generation' = generation + 1 /\ generation' \in dials'
         /\ state' = "synchronizing" /\ ~timer'
<1>1. generation \in Nat /\ dials \subseteq 1..generation
  BY DEF MachineTypes
<1>2. /\ generation' = generation + 1 /\ state' = "synchronizing" /\ timer' = FALSE /\ stable' = 0
      /\ dials' = dials \cup {generation + 1}
  BY DEF BeginDial
<1>3. generation' \in Nat /\ stable' \in 0..generation' /\ dials' \subseteq 1..generation'
  BY <1>1, <1>2
<1> QED BY <1>2, <1>3 DEF MachineTypes

\* One more failure is still on the ladder.
LEMMA LadderType ==
  ASSUME MachineTypes
  PROVE  (IF attempt < AttemptCap THEN attempt + 1 ELSE attempt) \in 0..AttemptCap
BY Bounds DEF MachineTypes

\* The wake loop's record is typed whatever it goes on with.
LEMMA WakeTypes ==
  ASSUME NEW g \in Nat, NEW w \in [pc : WakePcs, gen : 0..g], NEW h \in Nat, g <= h
  PROVE  /\ w \in [pc : WakePcs, gen : 0..h]
         /\ Idle \in [pc : WakePcs, gen : 0..h] /\ NextWake \in [pc : WakePcs, gen : 0..h]
         /\ \A pc \in WakePcs : [w EXCEPT !.pc = pc] \in [pc : WakePcs, gen : 0..h]
         /\ \A pc \in WakePcs, k \in 0..h : [pc |-> pc, gen |-> k] \in [pc : WakePcs, gen : 0..h]
BY DEF Idle, NextWake, WakePcs

\* wake() and the host's own loop keep their variables typed.
LEMMA LoopMoves ==
  ASSUME MachineTypes, LoopTypes, UNCHANGED generation, NEW reason \in Reasons
  PROVE  /\ Wake(reason) => /\ wake' \in [pc : WakePcs, gen : 0..generation']
                            /\ pendingWake' \in Reasons \cup {None}
         /\ HostWakes(reason) =>
              /\ wake' \in [pc : WakePcs, gen : 0..generation']
              /\ pendingWake' \in Reasons \cup {None}
              /\ host' \in [pc : {"idle", "waiting", "ready"}, pending : Reasons \cup {None}]
         /\ HostAwaits \in [pc : {"idle", "waiting", "ready"}, pending : Reasons \cup {None}]
<1>1. /\ NextWake \in [pc : WakePcs, gen : 0..generation]
      /\ wake \in [pc : WakePcs, gen : 0..generation]
  BY WakeTypes DEF MachineTypes, LoopTypes
<1>2. ASSUME Wake(reason)
      PROVE  wake' \in [pc : WakePcs, gen : 0..generation'] /\ pendingWake' \in Reasons \cup {None}
  BY <1>1, <1>2 DEF Wake, wakeVars, LoopTypes
<1>3. HostAwaits \in [pc : {"idle", "waiting", "ready"}, pending : Reasons \cup {None}]
  BY DEF HostAwaits
<1>4. ASSUME HostWakes(reason)
      PROVE  /\ wake' \in [pc : WakePcs, gen : 0..generation']
             /\ pendingWake' \in Reasons \cup {None}
             /\ host' \in [pc : {"idle", "waiting", "ready"}, pending : Reasons \cup {None}]
  BY <1>1, <1>2, <1>3, <1>4 DEF HostWakes, wakeVars, LoopTypes
<1> QED BY <1>2, <1>3, <1>4

-----------------------------------------------------------------------------
(* The steps, first as moves of the state machine.                           *)

\* Nothing that StateIsTrue speaks of changes, except that stale dials may end.
Untouched ==
  /\ UNCHANGED <<state, generation, timer, link, blockReason>> /\ disposed' = disposed
  /\ dials' \subseteq dials /\ (~disposed /\ generation \in dials => generation \in dials')

\* A dial begins where none is under way and no socket is left.
Redialed ==
  /\ BeginDial /\ UNCHANGED disposed /\ ~disposed /\ link' = "none"

Landed ==
  /\ ~disposed /\ UNCHANGED <<disposed, generation, blockReason>>
  /\ dials' = dials \ {generation} /\ generation \in dials
  /\ state' = "connected" /\ ~timer' /\ timer' \in BOOLEAN /\ link' = "open"

\* The dial failed or the socket was lost.
BackedOff ==
  /\ ~disposed /\ UNCHANGED <<disposed, generation, blockReason>>
  /\ state \in {"synchronizing", "connected"}
  /\ dials' = dials \ {generation}
  /\ state' = "backoff" /\ timer' = TRUE /\ link' = "none"

WasBlocked ==
  /\ ~disposed /\ UNCHANGED <<disposed, generation>>
  /\ state = "synchronizing"
  /\ dials' = dials \ {generation}
  /\ state' = "blocked" /\ timer' = FALSE /\ link' = "none"

WentOffline ==
  /\ ~disposed /\ UNCHANGED <<disposed, blockReason, dials>>
  /\ state \notin {"available", "blocked"}
  /\ generation' = generation + 1
  /\ state' = "offline" /\ timer' = FALSE /\ link' = "none"

WasDisposed == disposed' = TRUE /\ UNCHANGED <<state, generation, blockReason>>

\* A socket that is open dies silently.
WentSilent ==
  /\ UNCHANGED <<state, generation, timer, blockReason, disposed, dials>>
  /\ link # "none" /\ link' # "none"

MachineMove ==
  \/ Untouched \/ Landed \/ BackedOff \/ WasBlocked \/ WentOffline \/ WasDisposed \/ WentSilent
  \/ Redialed /\ (state = "blocked" => blockReason \in Recoverable)

\* What every action does to the machine, given the invariant, with the types it leaves.
LEMMA StepsAreMoves ==
  ASSUME Inv, [Next]_vars
  PROVE  MachineMove
<1>0. /\ MachineTypes /\ LoopTypes /\ StateIsTrue
      /\ state \in {"available", "synchronizing", "connected", "backoff", "blocked", "offline"}
      /\ disposed \in BOOLEAN /\ timer \in BOOLEAN /\ link \in {"none", "open", "dead"}
  BY TypesInTwo DEF Inv, MachineTypes
<1>1. CASE Start
  BY <1>0, <1>1 DEF Start, StateIsTrue, MachineMove, Redialed
<1>2. ASSUME NEW g \in dials, DialLands(g) PROVE MachineMove
  BY <1>0, <1>2 DEF DialLands, MachineMove, Untouched, Landed
<1>3. ASSUME NEW g \in dials, NEW kind \in Failures, DialFails(g, kind) PROVE MachineMove
  <2>1. CASE disposed \/ g # generation
    BY <1>3, <2>1 DEF DialFails, MachineMove, Untouched
  <2>2. CASE ~disposed /\ g = generation
    <3>1. state = "synchronizing" /\ link = "none" /\ dials' = dials \ {generation}
      BY <1>0, <1>3, <2>2 DEF StateIsTrue, DialFails
    <3>2. CASE kind = "transient"
      <4>1. Backoff /\ UNCHANGED <<stable, blockReason, generation, disposed, link>>
        BY <1>3, <2>2, <3>1, <3>2 DEF DialFails
      <4> QED BY <2>2, <3>1, <4>1 DEF Backoff, MachineMove, BackedOff
    <3>3. CASE kind # "transient"
      <4>1. state' = "blocked" /\ timer' = FALSE /\ UNCHANGED <<generation, disposed, link>>
        BY <1>3, <2>2, <3>1, <3>3 DEF DialFails
      <4> QED BY <2>2, <3>1, <4>1 DEF MachineMove, WasBlocked
    <3> QED BY <3>2, <3>3
  <2> QED BY <1>0, <2>1, <2>2
<1>4. CASE BackoffTimer
  BY <1>0, <1>4 DEF BackoffTimer, StateIsTrue, MachineMove, Redialed, WasDisposed
<1>5. CASE StableTimer
  BY <1>5 DEF StableTimer, MachineMove, Untouched
<1>6. CASE LinkDies
  BY <1>6 DEF LinkDies, supervisorVars, MachineMove, WentSilent
<1>7. CASE LinkLost
  <2>1. state = "connected" /\ ~disposed /\ generation \notin dials
    BY <1>0, <1>7 DEF LinkLost, StateIsTrue
  <2>2. dials' = dials \ {generation}
    BY <1>7, <2>1 DEF LinkLost
  <2> QED BY <1>7, <2>1, <2>2 DEF LinkLost, Backoff, MachineMove, BackedOff
<1>8. CASE DrainWake
  <2>1. UNCHANGED <<blockReason, disposed>>
    BY <1>8 DEF DrainWake
  <2>2. CASE disposed \/ pendingWake = None
    <3>1. UNCHANGED <<state, generation, timer, stable, dials, link>>
      BY <1>8, <2>2 DEF DrainWake, Reasons, None
    <3> QED BY <2>1, <3>1 DEF MachineMove, Untouched
  <2>3. CASE ~disposed /\ pendingWake = "network-offline"
    <3>1. Offline /\ UNCHANGED dials
      BY <1>8, <2>3 DEF DrainWake, None
    <3> QED BY <2>1, <2>3, <3>1 DEF Offline, MachineMove, Untouched, WentOffline
  <2>4. CASE ~disposed /\ pendingWake \in Reasons \ {"network-offline"}
    <3>0. pendingWake # None
      BY <2>4 DEF Reasons, None
    <3>1. CASE state \in {"connected", "blocked", "synchronizing"}
      BY <1>8, <2>1, <2>4, <3>0, <3>1 DEF DrainWake, MachineMove, Untouched
    <3>2. CASE state \notin {"connected", "blocked", "synchronizing"}
      <4>1. BeginDial /\ UNCHANGED link
        BY <1>8, <2>4, <3>0, <3>2 DEF DrainWake
      <4> QED BY <1>0, <2>1, <2>4, <3>2, <4>1 DEF StateIsTrue, MachineMove, Redialed
    <3> QED BY <3>1, <3>2
  <2>5. pendingWake \in Reasons \cup {None}
    BY <1>0 DEF LoopTypes
  <2> QED BY <1>0, <2>2, <2>3, <2>4, <2>5
<1>9. CASE HealthOk
  BY <1>9 DEF HealthOk, supervisorVars, MachineMove, Untouched
<1>10. CASE HealthRefused
  BY <1>0, <1>10 DEF HealthRefused, TearDown, StateIsTrue, MachineMove, Untouched, Redialed
<1>11. CASE RouteFound
  BY <1>11 DEF RouteFound, supervisorVars, MachineMove, Untouched
<1>12. ASSUME NEW proved \in BOOLEAN, RouteVerified(proved) PROVE MachineMove
  <2>1. UNCHANGED <<disposed, blockReason>>
    BY <1>12 DEF RouteVerified
  <2>2. CASE UNCHANGED <<state, generation, timer, stable, dials, link>>
    BY <2>1, <2>2 DEF MachineMove, Untouched
  <2>3. CASE ~disposed /\ state = "connected" /\ TearDown
    BY <2>1, <2>3 DEF TearDown, MachineMove, Redialed
  <2> QED BY <1>0, <1>12, <2>2, <2>3 DEF RouteVerified
<1>13. CASE HealthTimer \/ HostDrains
  BY <1>13 DEF HealthTimer, HostDrains, supervisorVars, MachineMove, Untouched
<1>14. ASSUME NEW reason \in Reasons, OsEvent(reason) PROVE MachineMove
  BY <1>14 DEF OsEvent, supervisorVars, MachineMove, Untouched
<1>15. ASSUME NEW unblock \in BOOLEAN, RetryNow(unblock) PROVE MachineMove
  BY <1>0, <1>15 DEF RetryNow, StateIsTrue, MachineMove, Redialed
<1>16. CASE Dispose
  BY <1>16 DEF Dispose, MachineMove, WasDisposed
<1>17. CASE UNCHANGED vars
  BY <1>17 DEF vars, supervisorVars, MachineMove, Untouched
<1> QED
  BY <1>1, <1>2, <1>3, <1>4, <1>5, <1>6, <1>7, <1>8, <1>9, <1>10, <1>11, <1>12, <1>13, <1>14,
     <1>15, <1>16, <1>17
  DEF Next, DialStep, ProbeStep

\* Every move keeps `state` true.
LEMMA TruthStep ==
  ASSUME Inv, MachineMove
  PROVE  StateIsTrue'
<1>0. /\ MachineTypes /\ StateIsTrue /\ generation \in Nat /\ dials \subseteq 1..generation
      /\ disposed \in BOOLEAN
  BY TypesInTwo DEF Inv, MachineTypes
<1>1. CASE Untouched
  BY <1>0, <1>1 DEF Untouched, StateIsTrue
<1>2. CASE Landed
  BY <1>0, <1>2 DEF Landed, StateIsTrue
<1>3. CASE BackedOff
  BY <1>0, <1>3 DEF BackedOff, StateIsTrue
<1>4. CASE WasBlocked
  BY <1>0, <1>4 DEF WasBlocked, StateIsTrue
<1>5. CASE WentOffline
  <2>1. generation + 1 \notin dials
    BY <1>0
  <2> QED BY <1>5, <2>1 DEF WentOffline, StateIsTrue
<1>6. CASE WasDisposed
  BY <1>6 DEF WasDisposed, StateIsTrue
<1>7. CASE WentSilent
  BY <1>0, <1>7 DEF WentSilent, StateIsTrue
<1>8. CASE Redialed
  BY <1>0, <1>8 DEF Redialed, BeginDial, StateIsTrue
<1> QED BY <1>1, <1>2, <1>3, <1>4, <1>5, <1>6, <1>7, <1>8 DEF MachineMove

-----------------------------------------------------------------------------
(* Types of every step.                                                      *)

\* Steps that leave the machine alone, but for stale dials that end.
LEMMA MachineFramed ==
  ASSUME MachineTypes, UNCHANGED <<state, attempt, generation, blockReason, disposed>>,
         timer' \in BOOLEAN, stable' \in 0..generation, dials' \subseteq dials,
         link' \in {"none", "open", "dead"}
  PROVE  MachineTypes'
BY DEF MachineTypes

\* The loops keep their types when the generation does not go back.
LEMMA LoopFramed ==
  ASSUME MachineTypes, LoopTypes, generation' \in {generation, generation + 1},
         UNCHANGED <<pendingWake, host, network, heard>>,
         \/ wake' = wake \/ wake' = NextWake \/ wake' = Idle
         \/ wake' = [pc |-> "dialing", gen |-> generation']
         \/ \E pc \in WakePcs : wake' = [wake EXCEPT !.pc = pc]
  PROVE  LoopTypes'
<1> DEFINE h == generation'
<1>1. generation \in Nat /\ h \in Nat /\ generation <= h
  BY DEF MachineTypes
<1>2. wake \in [pc : WakePcs, gen : 0..generation] /\ h \in 0..h /\ "dialing" \in WakePcs
  BY <1>1 DEF LoopTypes, WakePcs
<1>3. wake' \in [pc : WakePcs, gen : 0..h]
  BY <1>1, <1>2, WakeTypes
<1> QED BY <1>3 DEF LoopTypes

\* A dial that ended or changed nothing but the ladder, the state and the timers.
LEMMA TypeStep ==
  ASSUME TypeOK, [Next]_vars
  PROVE  TypeOK'
<1>0. /\ MachineTypes /\ LoopTypes /\ generation \in Nat
      /\ stable \in 0..generation /\ 0 \in 0..generation /\ timer \in BOOLEAN
      /\ attempt \in 0..AttemptCap /\ 0 \in 0..AttemptCap
      /\ link \in {"none", "open", "dead"} /\ dials \subseteq 1..generation
      /\ blockReason \in Failures \cup {None}
  BY TypesInTwo, Bounds DEF MachineTypes
<1> SUFFICES MachineTypes' /\ LoopTypes'
  BY DEF TypeOK, MachineTypes, LoopTypes, WakePcs
<1>1. CASE Start
  BY <1>0, <1>1, DialBegins, LoopFramed DEF Start, BeginDial, wakeVars, worldVars
<1>2. ASSUME NEW g \in dials, DialLands(g) PROVE MachineTypes' /\ LoopTypes'
  <2>1. LoopTypes'
    BY <1>0, <1>2, LoopFramed DEF DialLands, Awaited, worldVars
  <2>2. MachineTypes'
    <3>1. /\ state' \in {state, "connected"} /\ timer' \in {timer, FALSE} /\ stable' \in {stable, g}
          /\ link' \in {link, "open"} /\ dials' \subseteq dials
          /\ UNCHANGED <<attempt, generation, blockReason, disposed>>
      BY <1>2 DEF DialLands
    <3>2. g \in 0..generation
      BY <1>0
    <3> QED BY <1>0, <3>1, <3>2 DEF MachineTypes
  <2> QED BY <2>1, <2>2
<1>3. ASSUME NEW g \in dials, NEW kind \in Failures, DialFails(g, kind)
      PROVE  MachineTypes' /\ LoopTypes'
  <2>1. LoopTypes'
    BY <1>0, <1>3, LoopFramed DEF DialFails, Awaited
  <2>2. /\ state' \in {state, "backoff", "blocked"} /\ attempt' \in 0..AttemptCap
        /\ timer' \in BOOLEAN /\ stable' \in 0..generation /\ blockReason' \in Failures \cup {None}
    BY <1>0, <1>3, LadderType DEF DialFails, Backoff
  <2> QED BY <1>0, <1>3, <2>1, <2>2 DEF DialFails, MachineTypes
<1>4. CASE BackoffTimer
  <2>1. LoopTypes'
    BY <1>0, <1>4, LoopFramed DEF BackoffTimer, BeginDial, wakeVars, worldVars
  <2>2. MachineTypes'
    BY <1>0, <1>4, DialBegins, MachineFramed DEF BackoffTimer
  <2> QED BY <2>1, <2>2
<1>5. CASE StableTimer
  <2>1. LoopTypes'
    BY <1>0, <1>5, LoopFramed DEF StableTimer, wakeVars, worldVars
  <2>2. MachineTypes'
    BY <1>0, <1>5 DEF StableTimer, MachineTypes
  <2> QED BY <2>1, <2>2
<1>6. CASE LinkDies
  BY <1>0, <1>6, LoopFramed, MachineFramed DEF LinkDies, supervisorVars, wakeVars
<1>7. CASE LinkLost
  <2>1. LoopTypes'
    BY <1>0, <1>7, LoopFramed DEF LinkLost
  <2>2. /\ state' \in {state, "backoff"} /\ attempt' \in 0..AttemptCap
        /\ timer' \in BOOLEAN /\ stable' \in 0..generation
    BY <1>0, <1>7, LadderType DEF LinkLost, Backoff
  <2> QED BY <1>0, <1>7, <2>1, <2>2 DEF LinkLost, MachineTypes
<1>8. CASE DrainWake
  <2>1. /\ host' \in [pc : {"idle", "waiting", "ready"}, pending : Reasons \cup {None}]
        /\ heard' \in {"up", "down"} /\ network' \in {"up", "down"}
        /\ pendingWake' \in Reasons \cup {None} /\ pendingWake \in Reasons \cup {None}
        /\ UNCHANGED <<attempt, blockReason, disposed>>
    BY <1>0, <1>8 DEF DrainWake, LoopTypes, worldVars
  <2>2. ASSUME generation' \in {generation, generation + 1},
               \/ wake' = NextWake \/ wake' = Idle
               \/ wake' \in {[pc |-> "dialing", gen |-> generation'], [pc |-> "health", gen |-> generation']}
        PROVE  LoopTypes'
    <3>1. wake \in [pc : WakePcs, gen : 0..generation] /\ generation' \in Nat /\ generation <= generation'
      BY <1>0, <2>2 DEF LoopTypes
    <3>2. wake' \in [pc : WakePcs, gen : 0..generation']
      <4>1. generation' \in 0..generation' /\ "dialing" \in WakePcs /\ "health" \in WakePcs
        BY <3>1 DEF WakePcs
      <4> QED BY <1>0, <2>2, <3>1, <4>1, WakeTypes
    <3> QED BY <2>1, <3>2 DEF LoopTypes
  <2>3. CASE disposed \/ pendingWake = None
    <3>1. wake' = Idle /\ UNCHANGED <<state, generation, timer, stable, dials, link>>
      BY <1>8, <2>3 DEF DrainWake, Reasons, None
    <3> QED BY <1>0, <2>1, <2>2, <3>1, MachineFramed
  <2>4. CASE ~disposed /\ pendingWake = "network-offline"
    <3>1. wake' = NextWake /\ Offline /\ UNCHANGED dials
      BY <1>8, <2>4 DEF DrainWake, None
    <3>2. /\ generation' \in {generation, generation + 1} /\ state' \in {state, "offline"}
          /\ timer' \in {timer, FALSE} /\ stable' \in {stable, 0} /\ link' \in {link, "none"}
      BY <3>1 DEF Offline
    <3>3. stable' \in 0..generation' /\ dials' \subseteq 1..generation' /\ generation' \in Nat
      BY <1>0, <3>1, <3>2
    <3>4. MachineTypes'
      BY <1>0, <2>1, <3>1, <3>2, <3>3 DEF MachineTypes
    <3> QED BY <2>2, <3>1, <3>2, <3>4
  <2>5. CASE ~disposed /\ pendingWake \in Reasons \ {"network-offline"}
    <3>0. pendingWake # None
      BY <2>5 DEF Reasons, None
    <3>1. CASE state = "connected"
      <4>1. wake' = [pc |-> "health", gen |-> generation] /\ UNCHANGED <<state, generation, timer, stable, dials, link>>
        BY <1>8, <2>5, <3>0, <3>1 DEF DrainWake
      <4> QED BY <1>0, <2>1, <2>2, <4>1, MachineFramed
    <3>2. CASE state \in {"blocked", "synchronizing"}
      <4>1. wake' = NextWake /\ UNCHANGED <<state, generation, timer, stable, dials, link>>
        BY <1>8, <2>5, <3>0, <3>2 DEF DrainWake
      <4> QED BY <1>0, <2>1, <2>2, <4>1, MachineFramed
    <3>3. CASE state \notin {"connected", "blocked", "synchronizing"}
      <4>1. BeginDial /\ UNCHANGED link /\ wake' = [pc |-> "dialing", gen |-> generation + 1]
        BY <1>8, <2>5, <3>0, <3>3 DEF DrainWake
      <4>2. generation' = generation + 1
        BY <4>1 DEF BeginDial
      <4>3. MachineTypes'
        BY <1>0, <2>1, <4>1, DialBegins
      <4> QED BY <2>2, <4>1, <4>2, <4>3
    <3> QED BY <3>1, <3>2, <3>3
  <2> QED BY <2>1, <2>3, <2>4, <2>5
<1>9. CASE HealthOk
  BY <1>0, <1>9, LoopFramed, MachineFramed DEF HealthOk, supervisorVars, worldVars
<1>10. ASSUME TearDown, UNCHANGED <<attempt, blockReason, disposed, pendingWake, host, heard, network>>
       PROVE  MachineTypes' /\ LoopTypes'
  <2>1. BeginDial /\ link' = "none" /\ generation' = generation + 1
        /\ wake' = [pc |-> "dialing", gen |-> generation']
    BY <1>10 DEF TearDown, BeginDial
  <2> QED BY <1>0, <1>10, <2>1, DialBegins, LoopFramed
<1>11. CASE HealthRefused
  BY <1>0, <1>10, <1>11, LoopFramed, MachineFramed DEF HealthRefused
<1>12. CASE RouteFound
  <2>1. "verifying" \in WakePcs
    BY DEF WakePcs
  <2> QED BY <1>0, <1>12, <2>1, LoopFramed, MachineFramed DEF RouteFound, supervisorVars, worldVars
<1>13. ASSUME NEW proved \in BOOLEAN, RouteVerified(proved) PROVE MachineTypes' /\ LoopTypes'
  <2>1. UNCHANGED <<attempt, blockReason, disposed, pendingWake, host, heard, network>>
    BY <1>13 DEF RouteVerified
  <2>2. CASE TearDown
    BY <1>10, <2>1, <2>2
  <2>3. CASE wake' = NextWake /\ UNCHANGED <<state, generation, timer, stable, dials, link>>
    BY <1>0, <2>1, <2>3, LoopFramed, MachineFramed
  <2> QED BY <1>13, <2>2, <2>3 DEF RouteVerified
<1>14. CASE HealthTimer
  <2>1. "health-probe" \in Reasons
    BY DEF Reasons
  <2> QED
    BY <1>0, <1>14, <2>1, LoopMoves, MachineFramed DEF HealthTimer, supervisorVars, worldVars, LoopTypes
<1>15. CASE HostDrains
  <2>1. UNCHANGED <<supervisorVars, dials, link, heard, worldVars>>
    BY <1>15 DEF HostDrains
  <2>2. MachineTypes' /\ generation' = generation
    BY <1>0, <2>1, MachineFramed DEF supervisorVars
  <2>3. CASE host.pending = None
    <3>1. host' = IdleHost /\ UNCHANGED wakeVars
      BY <1>15, <2>3 DEF HostDrains
    <3> QED BY <1>0, <2>1, <2>2, <3>1 DEF IdleHost, LoopTypes, wakeVars, worldVars
  <2>4. CASE host.pending # None
    <3>1. host.pending \in Reasons
      BY <1>0, <2>4 DEF LoopTypes
    <3>2. host' = HostAwaits /\ Wake(host.pending)
      BY <1>15, <2>4 DEF HostDrains
    <3> QED BY <1>0, <2>1, <2>2, <3>1, <3>2, LoopMoves DEF LoopTypes, worldVars
  <2> QED BY <2>3, <2>4
<1>16. ASSUME NEW reason \in Reasons, OsEvent(reason) PROVE MachineTypes' /\ LoopTypes'
  <2>1. UNCHANGED <<supervisorVars, dials, link, heard>> /\ HostWakes(reason) /\ network' \in {"up", "down"}
    BY <1>0, <1>16 DEF OsEvent, LoopTypes
  <2>2. MachineTypes' /\ generation' = generation
    BY <1>0, <2>1, MachineFramed DEF supervisorVars
  <2> QED BY <1>0, <2>1, <2>2, LoopMoves DEF LoopTypes
<1>17. ASSUME NEW unblock \in BOOLEAN, RetryNow(unblock) PROVE MachineTypes' /\ LoopTypes'
  <2>1. BeginDial /\ attempt' = 0 /\ blockReason' = None
        /\ UNCHANGED <<disposed, wake, pendingWake, link, host, heard, network>>
    BY <1>17 DEF RetryNow, wakeVars
  <2>2. generation' = generation + 1
    BY <2>1 DEF BeginDial
  <2> QED BY <1>0, <2>1, <2>2, DialBegins, LoopFramed
<1>18. CASE Dispose
  <2>1. LoopTypes'
    BY <1>0, <1>18, LoopFramed DEF Dispose, worldVars
  <2>2. MachineTypes'
    BY <1>0, <1>18 DEF Dispose, MachineTypes
  <2> QED BY <2>1, <2>2
<1>19. CASE UNCHANGED vars
  BY <1>0, <1>19, LoopFramed, MachineFramed DEF vars, supervisorVars, wakeVars, worldVars
<1> QED
  BY <1>1, <1>2, <1>3, <1>4, <1>5, <1>6, <1>7, <1>8, <1>9, <1>11, <1>12, <1>13, <1>14,
     <1>15, <1>16, <1>17, <1>18, <1>19
  DEF Next, DialStep, ProbeStep

-----------------------------------------------------------------------------
(* Theorems.                                                                 *)

\* The invariant holds of a connection that was not started.
LEMMA InvInit == Init => Inv
<1> SUFFICES ASSUME Init PROVE TypeOK /\ StateIsTrue
  BY DEF Inv
<1>1. StateIsTrue
  BY DEF Init, StateIsTrue
<1>2. MachineTypes
  <2>1. AttemptCap \in Nat /\ 0 \in 0..AttemptCap /\ 0 \in 0..0
    BY Bounds
  <2>2. attempt \in 0..AttemptCap /\ generation \in Nat /\ stable \in 0..generation
    BY <2>1 DEF Init
  <2>3. dials \subseteq 1..generation /\ timer \in BOOLEAN /\ disposed \in BOOLEAN
    BY DEF Init
  <2>4. state = "available" /\ blockReason = None /\ link = "none"
    BY DEF Init
  <2> QED BY <2>2, <2>3, <2>4 DEF MachineTypes
<1>3. LoopTypes
  BY DEF Init, LoopTypes, Idle, IdleHost, WakePcs
<1> QED BY <1>1, <1>2, <1>3, TypesInTwo

\* And survives every step.
LEMMA InvStep == Inv /\ [Next]_vars => Inv'
BY TypeStep, StepsAreMoves, TruthStep DEF Inv

\* The state machine, the loops and the dials keep their shape: above all, every
\* dial, stable timer and awaited wake is of a generation given out before.
THEOREM TypeCorrect == Spec => []TypeOK
<1>1. Inv => TypeOK
  BY DEF Inv
<1> QED BY <1>1, InvInit, InvStep, PTL DEF Spec

\* `state` agrees with the dials, the timer and the socket after every step,
\* however dials, faults, edges, probes and retries interleave.
THEOREM StateTrue == Spec => []StateIsTrue
<1>1. Inv => StateIsTrue
  BY DEF Inv
<1> QED BY <1>1, InvInit, InvStep, PTL DEF Spec

\* A block on the credential or the identity of the node is left by nothing:
\* no wake, late dial, timer or press of Connect ends it.
THEOREM TerminalStays == Spec => TerminalBlocksStay
<1>1. Inv /\ [Next]_vars
        => [state = "blocked" /\ blockReason \in Terminal
              => state' = "blocked" /\ blockReason' = blockReason]_vars
  <2> SUFFICES ASSUME Inv, [Next]_vars, state = "blocked", blockReason \in Terminal
               PROVE  state' = "blocked" /\ blockReason' = blockReason
    OBVIOUS
  <2>1. MachineMove
    BY StepsAreMoves
  <2>2. blockReason \notin Recoverable
    BY DEF Terminal, Recoverable
  <2>3. ~Landed
    BY DEF Inv, Landed, StateIsTrue
  <2>4. ~BackedOff /\ ~WasBlocked /\ ~WentOffline
    BY DEF BackedOff, WasBlocked, WentOffline
  <2> QED BY <2>1, <2>2, <2>3, <2>4 DEF MachineMove, Untouched, WasDisposed, WentSilent
<1> QED BY <1>1, InvInit, InvStep, PTL DEF Spec, TerminalBlocksStay

\* connection-supervisor-core.ts:328: only a connection that lasted, or the
\* user, puts the ladder back to its first step.
THEOREM FlapsKeep == Spec => FlapsKeepTheLadder
<1>1. Inv /\ [Next]_vars
        => [attempt' < attempt => \/ state = "connected" /\ stable = generation
                                 \/ \E u \in BOOLEAN : RetryNow(u)]_vars
  <2> SUFFICES ASSUME Inv, [Next]_vars, attempt' < attempt, ~\E u \in BOOLEAN : RetryNow(u)
               PROVE  state = "connected" /\ stable = generation
    OBVIOUS
  <2>1. attempt \in Nat
    BY Bounds DEF Inv, TypeOK
  <2>2. attempt' # attempt /\ ~Backoff
    BY <2>1 DEF Backoff
  <2>3. StableTimer
    BY <2>2
    DEF Next, DialStep, ProbeStep, Start, DialLands, DialFails, BackoffTimer, LinkDies, LinkLost, DrainWake,
        HealthOk, HealthRefused, RouteFound, RouteVerified, HealthTimer, HostDrains, OsEvent, Dispose,
        supervisorVars, vars
  <2> QED BY <2>2, <2>3 DEF StableTimer
<1> QED BY <1>1, InvInit, InvStep, PTL DEF Spec, FlapsKeepTheLadder
===============================================================================
