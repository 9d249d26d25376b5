----------------------------- MODULE ControlLease -----------------------------
(****************************************************************************)
(* Who drives a session or a terminal: packages/runtime/src/lease, the RPC  *)
(* handlers that grant and check control, and the admission a desktop host  *)
(* adds for controller desktops (apps/desktop/src/main/node-host and        *)
(* session/session-lease.ts).  A lease row is fenced by its id, generation, *)
(* epoch (the life of the host process) and expiry.  Every method is        *)
(* synchronous, so each is one action; a mutation that awaits is two.       *)
(****************************************************************************)
EXTENDS Integers, FiniteSets

CONSTANTS
  Resources,   \* sessions and terminals of the host
  Frontends,   \* who may ask: windows, phones, controller desktops, phones these relay
  DesktopHost, \* the host is a desktop with windows (TRUE) or a headless node
  Ttl,         \* ttlMs asked by every client
  MaxTime,     \* bound: last tick
  MaxGrants,   \* bound: leases granted
  MaxEpoch     \* bound: host starts

\* LeaseYield: a lease is taken over by nobody, by its holder's other delegates, by anyone.
None == 0
ToHolder == 1
ToAny == 2

\* The holder of the host's own windows and phones.
Desk == "desktop"
Kinds == {"window", "phone", "controller", "relayed"}

ASSUME FrontendsAreActors ==
  /\ Frontends \subseteq [holder : STRING, delegate : STRING, yields : {None, ToHolder, ToAny}, kind : Kinds]
  /\ \A f \in Frontends : f.holder = Desk <=> f.kind \in {"window", "phone"}
  /\ \A f \in Frontends : f.kind \in {"window", "phone"} => DesktopHost
  /\ \A f, g \in Frontends : f.holder = g.holder /\ f.delegate = g.delegate => f = g
ASSUME BoundsArePositive ==
  DesktopHost \in BOOLEAN /\ {Ttl, MaxGrants, MaxEpoch} \subseteq Nat \ {0} /\ MaxTime \in Nat

VARIABLES
  now,       \* Date.now()
  epoch,     \* leaseEpoch; a new one per process
  row,       \* table control_leases
  granted,   \* leases granted so far; the next one's id
  proofs,    \* grants handed out: what a client sends back with each call
  timer,     \* expirations: when the expiry of a resource is announced (0: none)
  seen,      \* lease id of the last onChange notification (0: null)
  released,  \* row.controller.released: the desktop's user took the session back
  pending,   \* mutations past their first check, awaiting
  writer     \* the proof of the last mutation that took effect

vars == <<now, epoch, row, granted, proofs, timer, seen, released, pending, writer>>

leaseVars == <<row, granted, proofs, timer, seen>>
writeVars == <<pending, writer>>

Ids == 0..MaxGrants
Holders == {f.holder : f \in Frontends} \cup {"nobody"}
Delegates == {f.delegate : f \in Frontends} \cup {"nobody"}
Rows == [ id : Ids, holder : Holders, delegate : Delegates, generation : Nat, expires : Nat,
          epoch : Nat, yields : {None, ToHolder, ToAny} ]
Proofs == [ resource : Resources, frontend : Frontends, id : Ids, generation : Nat, epoch : Nat ]

NoRow == [ id |-> 0, holder |-> "nobody", delegate |-> "nobody", generation |-> 0, expires |-> 0,
           epoch |-> 0, yields |-> None ]

IsController(f) == f.kind \in {"controller", "relayed"}
\* bindControlActor: windows and phones act through an actor that also fences the delegate.
Bound(f) == ~IsController(f)

Live(r) == row[r].epoch = epoch /\ row[r].expires > now

-----------------------------------------------------------------------------
(* Proofs.                                                                   *)

\* assertValid; the conditions of renew and release on the row a proof names are the same.
Valid(p) ==
  LET l == row[p.resource] IN
  /\ l.epoch = epoch
  /\ l.id = p.id /\ l.generation = p.generation
  /\ l.holder = p.frontend.holder
  /\ Bound(p.frontend) => l.delegate = p.frontend.delegate
  /\ l.expires > now

ProofOf(r, f, l) ==
  [resource |-> r, frontend |-> f, id |-> l.id, generation |-> l.generation, epoch |-> l.epoch]

-----------------------------------------------------------------------------
(* Writing the row, with the expiry timer and the notification that follow.  *)

\* A new lease: the generation goes on within an epoch.
Grant(r, f) ==
  [ id |-> granted + 1, holder |-> f.holder, delegate |-> f.delegate,
    generation |-> IF row[r].epoch = epoch THEN row[r].generation + 1 ELSE 1,
    expires |-> now + Ttl, epoch |-> epoch, yields |-> f.yields ]

\* Mutant: any frontend of the holder extends the lease, whatever its delegate.
ExtendsHolder(r, f) == Live(r) /\ row[r].holder = f.holder

\* Mutant: the same frontend's lease goes on although it ran out.
ExtendsExpired(r, f) == row[r].epoch = epoch /\ row[r].holder = f.holder /\ row[r].delegate = f.delegate

\* The same frontend asks again: its lease goes on under the same id.
Extends(r, f) == Live(r) /\ row[r].holder = f.holder /\ row[r].delegate = f.delegate

Extended(r, f) ==
  [ id |-> row[r].id, holder |-> f.holder, delegate |-> f.delegate,
    generation |-> row[r].generation, expires |-> now + Ttl, epoch |-> epoch, yields |-> f.yields ]

\* The refusals of acquire.
MayAcquire(r, f) ==
  \/ ~Live(r)
  \/ row[r].yields = ToAny
  \/ row[r].holder = f.holder /\ (row[r].delegate = f.delegate \/ row[r].yields >= ToHolder)

\* Mutant: the expiry of a new grant is not watched.
AcquiredUnwatched(r, f) ==
  /\ MayAcquire(r, f)
  /\ now + Ttl <= MaxTime
  /\ IF Extends(r, f)
     THEN /\ row' = [row EXCEPT ![r] = Extended(r, f)]
          /\ UNCHANGED <<granted, seen>>
     ELSE /\ granted < MaxGrants
          /\ row' = [row EXCEPT ![r] = Grant(r, f)]
          /\ granted' = granted + 1
          /\ seen' = [seen EXCEPT ![r] = granted + 1]
  /\ UNCHANGED timer
  /\ proofs' = proofs \cup {ProofOf(r, f, row'[r])}

\* acquire, by a client that gets the answer.
Acquired(r, f) ==
  /\ MayAcquire(r, f)
  /\ now + Ttl <= MaxTime
  /\ IF Extends(r, f)
     THEN /\ row' = [row EXCEPT ![r] = Extended(r, f)]
          /\ UNCHANGED <<granted, seen>>
     ELSE /\ granted < MaxGrants
          /\ row' = [row EXCEPT ![r] = Grant(r, f)]
          /\ granted' = granted + 1
          /\ seen' = [seen EXCEPT ![r] = granted + 1]
  /\ timer' = [timer EXCEPT ![r] = now + Ttl]
  /\ proofs' = proofs \cup {ProofOf(r, f, row'[r])}

\* revoke on each of R: the row stays, expired.
Revoked(R) == [r \in Resources |-> IF r \in R THEN [row[r] EXCEPT !.expires = 0] ELSE row[r]]

RevokeAll(R) ==
  /\ row' = Revoked(R)
  /\ timer' = [r \in Resources |-> IF r \in R THEN 0 ELSE timer[r]]
  /\ seen' = [r \in Resources |-> IF r \in R THEN 0 ELSE seen[r]]
  /\ UNCHANGED <<granted, proofs>>

-----------------------------------------------------------------------------
(* Clients.                                                                  *)

\* admitControl: what a desktop host asks of a controller before the lease is tried.
Admitted(r, f, reclaim) ==
  DesktopHost /\ IsController(f) =>
    /\ released[r] => reclaim
    /\ Live(r) /\ row[r].holder # f.holder =>
         /\ row[r].holder = Desk
         /\ \E w \in Frontends : w.kind = "window" /\ w.delegate = row[r].delegate
         /\ reclaim \/ f.kind = "relayed"

\* session.acquireControl (rpc-dispatch.ts:1919-1959: admission, grant, then the
\* reclaim lands), or a window's first mutation (session-lease.ts:113-118).
AcquireControl(f, r, reclaim) ==
  /\ reclaim => f.kind = "controller"
  /\ Admitted(r, f, reclaim)
  /\ Acquired(r, f)
  /\ released' = [released EXCEPT ![r] = @ /\ ~IsController(f)]
  /\ UNCHANGED <<now, epoch, pending, writer>>

\* Landing the reclaim failed: the grant just made is revoked and the call fails
\* (rpc-dispatch.ts:1939-1945).
AcquireRolledBack(f, r) ==
  /\ DesktopHost /\ f.kind = "controller" /\ released[r]
  /\ Admitted(r, f, TRUE)
  /\ MayAcquire(r, f)
  /\ ~Extends(r, f)
  /\ granted < MaxGrants
  /\ row' = [row EXCEPT ![r] = [Grant(r, f) EXCEPT !.expires = 0]]
  /\ granted' = granted + 1
  /\ timer' = [timer EXCEPT ![r] = 0]
  /\ seen' = [seen EXCEPT ![r] = 0]
  /\ UNCHANGED <<now, epoch, proofs, released, pending, writer>>

\* renewControl, or the 20 s timer of a voice call.
RenewControl(p) ==
  /\ Valid(p)
  /\ now + Ttl <= MaxTime
  /\ row' = [row EXCEPT ![p.resource].expires = now + Ttl]
  /\ timer' = [timer EXCEPT ![p.resource] = now + Ttl]
  /\ UNCHANGED <<now, epoch, granted, proofs, seen, released, pending, writer>>

\* releaseControl of the protocol, a phone that disconnects, the end of session.close.
ReleaseLease(p) ==
  /\ Valid(p)
  /\ RevokeAll({p.resource})
  /\ UNCHANGED <<now, epoch, released, pending, writer>>

\* A mutation with no wait between its check and its effect (assertMutation of a
\* desktop session, the checked handlers of rpc-dispatch.ts on a node).
Mutate(p) ==
  /\ Valid(p)
  /\ writer' = [writer EXCEPT ![p.resource] = p.id]
  /\ UNCHANGED <<now, epoch, leaseVars, released, pending>>

\* setCwd, fork, steer, a backend call: the first check, then a wait (Git, a
\* harness); the proof is kept (on a node: rpc-dispatch.ts:1518-1524).
BeginMutation(p) ==
  /\ Valid(p)
  /\ pending' = pending \cup {p}
  /\ UNCHANGED <<now, epoch, leaseVars, released, writer>>

\* Mutant: no second check after the wait.
FinishMutationUnchecked(p) ==
  /\ p \in pending
  /\ pending' = pending \ {p}
  /\ writer' = [writer EXCEPT ![p.resource] = p.id]
  /\ UNCHANGED <<now, epoch, leaseVars, released>>

\* "The lease may have moved" (rpc-dispatch.ts:1532): the check is repeated
\* before the effect.
FinishMutation(p) ==
  /\ p \in pending
  /\ pending' = pending \ {p}
  /\ writer' = IF Valid(p) THEN [writer EXCEPT ![p.resource] = p.id] ELSE writer
  /\ UNCHANGED <<now, epoch, leaseVars, released>>

-----------------------------------------------------------------------------
(* The host.                                                                 *)

\* A terminal exited, a session was disposed of.
Revoke(r) ==
  /\ RevokeAll({r})
  /\ UNCHANGED <<now, epoch, released, pending, writer>>

\* The client session of a holder lost access.
RevokeHolder(h) ==
  /\ RevokeAll({r \in Resources : Live(r) /\ row[r].holder = h})
  /\ UNCHANGED <<now, epoch, released, pending, writer>>

\* Mutant: the claim is marked, the lease is left to run out.
TakeFromControllerKeepsLease(r) ==
  /\ DesktopHost /\ ~released[r]
  /\ released' = [released EXCEPT ![r] = TRUE]
  /\ UNCHANGED <<now, epoch, leaseVars, pending, writer>>

\* releaseControl of the desktop host: its user takes the session from its controller.
TakeFromController(r) ==
  /\ DesktopHost /\ ~released[r]
  /\ released' = [released EXCEPT ![r] = TRUE]
  /\ RevokeAll({r})
  /\ UNCHANGED <<now, epoch, pending, writer>>

\* Mutant: the expiry timer is taken for due from the start.
ExpiryFiresEarly(r) ==
  /\ timer[r] # 0
  /\ timer' = [timer EXCEPT ![r] = 0]
  /\ seen' = [seen EXCEPT ![r] = 0]
  /\ UNCHANGED <<now, epoch, row, granted, proofs, released, pending, writer>>

\* watchExpiry's timer: observers hear of a lease nobody ended.
ExpiryFires(r) ==
  /\ timer[r] # 0 /\ timer[r] <= now
  /\ timer' = [timer EXCEPT ![r] = 0]
  /\ seen' = [seen EXCEPT ![r] = 0]
  /\ UNCHANGED <<now, epoch, row, granted, proofs, released, pending, writer>>

\* A new process: a new epoch, no timers, no calls under way; the table stays.
Restart ==
  /\ epoch < MaxEpoch
  /\ epoch' = epoch + 1
  /\ timer' = [r \in Resources |-> 0]
  /\ seen' = [r \in Resources |-> 0]
  /\ pending' = {}
  /\ UNCHANGED <<now, row, granted, proofs, released, writer>>

Tick ==
  /\ now < MaxTime
  /\ now' = now + 1
  /\ UNCHANGED <<epoch, leaseVars, released, writeVars>>

-----------------------------------------------------------------------------

Init ==
  /\ now = 0
  /\ epoch = 1
  /\ row = [r \in Resources |-> NoRow]
  /\ granted = 0
  /\ proofs = {}
  /\ timer = [r \in Resources |-> 0]
  /\ seen = [r \in Resources |-> 0]
  /\ released = [r \in Resources |-> FALSE]
  /\ pending = {}
  /\ writer = [r \in Resources |-> 0]

ClientStep ==
  \/ \E f \in Frontends, r \in Resources :
       (\E reclaim \in BOOLEAN : AcquireControl(f, r, reclaim)) \/ AcquireRolledBack(f, r)
  \/ \E p \in proofs :
       RenewControl(p) \/ ReleaseLease(p) \/ Mutate(p) \/ BeginMutation(p) \/ FinishMutation(p)

HostStep ==
  \/ \E r \in Resources : Revoke(r) \/ TakeFromController(r) \/ ExpiryFires(r)
  \/ \E f \in Frontends : RevokeHolder(f.holder)
  \/ Restart
  \/ Tick

Next == ClientStep \/ HostStep

\* Node's own timers run; nothing is assumed of clients.
Fairness == WF_vars(Tick) /\ \A r \in Resources : WF_vars(ExpiryFires(r))

Spec == Init /\ [][Next]_vars /\ Fairness

-----------------------------------------------------------------------------
(* Properties.                                                               *)

TypeOK ==
  /\ now \in Nat /\ epoch \in Nat
  /\ row \in [Resources -> Rows]
  /\ granted \in Ids
  /\ proofs \subseteq Proofs
  /\ timer \in [Resources -> Nat]
  /\ seen \in [Resources -> Ids]
  /\ released \in [Resources -> BOOLEAN]
  /\ pending \subseteq Proofs
  /\ writer \in [Resources -> Ids]

\* Two frontends never both pass the check on one resource, not even two
\* delegates of one holder, whose proofs the unbound check tells apart by id only.
OneDriver ==
  \A p, q \in proofs :
    p.resource = q.resource /\ Valid(p) /\ Valid(q) => p.frontend = q.frontend

\* control-lease.ts:258-262: the generations of a resource grow with each grant
\* of an epoch, over releases, revocations and take-overs.
GenerationsGrow ==
  \A p, q \in proofs :
    p.resource = q.resource /\ p.epoch = q.epoch /\ p.id < q.id => p.generation < q.generation

\* Once a proof fails its check it fails for ever: no renewal, new grant,
\* restart or passing time lets a fenced client write again.
FencedForever == [][\A p \in proofs : ~Valid(p) => ~Valid(p)']_vars

\* The effect of a mutation, however long it waited, never lands after one
\* made under a later grant of the same resource.
WritesInGrantOrder == [][\A r \in Resources : writer'[r] >= writer[r]]_vars

\* While a session the user took back is not reclaimed, no controller drives
\* it: what is live on it belongs to the desktop's own windows and phones.
TakenBackStaysBack ==
  \A r \in Resources : released[r] /\ Live(r) => row[r].holder = Desk

\* Observers know the live lease, and its expiry is armed for its present end.
ObserversKnowTheLease ==
  \A r \in Resources : Live(r) => seen[r] = row[r].id /\ timer[r] = row[r].expires

\* A lease that ran out is announced, although nobody calls the service.
ExpiryIsAnnounced ==
  \A r \in Resources : seen[r] # 0 /\ ~Live(r) ~> seen[r] = 0 \/ Live(r)
=============================================================================
