------------------------------ MODULE SessionFeed ------------------------------
(***************************************************************************)
(* How a session's events reach a chat on another machine.  The node keeps *)
(* durable events in its log and streaming events (text deltas) in a ring  *)
(* that holds them only until their message is committed.  One event       *)
(* stream per connection sends both, in order; the desktop's reader        *)
(* resubscribes from its cursor after a drop; a follower joins the feed at *)
(* the version of a snapshot and applies the events above it.              *)
(*                                                                         *)
(* One session is modelled; "foreign" stands for the durable events of the *)
(* others, and Evict for their streaming events, which share the ring.  An *)
(* event is its index in hist, the order in which the node made them.  A   *)
(* version of 0 is the absence of one.                                     *)
(***************************************************************************)
EXTENDS Naturals, FiniteSets, Sequences, SequencesExt

CONSTANTS MaxEvents,    \* bound on the events the node makes
          MaxRestarts,  \* bound on the node's restarts
          MaxDrops      \* bound on the connections lost without one

ASSUME BoundsAssumption == {MaxEvents, MaxRestarts, MaxDrops} \subseteq Nat

Kinds == {"stream", "plain", "commit", "foreign"}

VARIABLES
  hist,       \* every event, with its kind, version, epoch and durable sequence
  head,       \* the last durable sequence of the node
  epoch,      \* which process of the node runs
  ver,        \* the session's version in that process
  ring,       \* the streaming events it still holds
  floor,      \* the highest version the ring has let go
  open,       \* a stream is attached
  topic,      \* its topics include the session
  sSeq,       \* the durable sequence it has sent up to
  sVer,       \* the version of the session it has sent up to
  live,       \* events it has heard and not sent
  due,        \* a flush of them is scheduled
  congested,  \* the connection's outbox is behind
  degraded,   \* streaming events of the session were dropped from live
  up,         \* the connection
  net,        \* frames on the wire and in the reader's buffer
  started,    \* the feed reads the stream
  cSeq, cEp, cVer,   \* the reader's cursor: sequence, epoch, version
  fol,        \* the follower: "none", "joining" (barrier not read), "on"
  from,       \* the version it starts above
  held,       \* events that wait for that version
  snap,       \* the barrier's snapshot on its way
  reread,     \* it was told to read the snapshot again
  fromEp,     \* the epoch of its barrier; the code keeps none
  known,      \* the events its chat shows, by snapshot or by delivery
  lost,       \* it missed events for a reason the code does not repair
  drops       \* connections lost so far

node     == <<hist, head, epoch, ver, ring, floor>>
stream   == <<open, topic, sSeq, sVer, live, due, congested, degraded>>
cursor   == <<started, cSeq, cEp, cVer>>
follower == <<fol, from, held, snap, reread, fromEp, known, lost>>
vars     == <<node, stream, up, net, cursor, follower, drops>>

NoSnap == [ver |-> 0, ep |-> 0, shows |-> {}]

Events      == 1..Len(hist)
Durable(u)  == hist[u].kind # "stream"
Session(u)  == hist[u].kind # "foreign"
Highest(v, S) == CHOOSE m \in {v} \cup S : \A k \in {v} \cup S : k <= m
Versions(S) == {hist[u].ver : u \in {w \in S : Session(w)}}

\* The numbers of S, the lowest first.
Ascending(S) == [i \in 1..Cardinality(S) |-> CHOOSE u \in S : Cardinality({w \in S : w <= u}) = i]

\* The elements of a sequence at the positions ps, and those that are in D.
Picked(s, ps) == LET at == Ascending(ps) IN [k \in DOMAIN at |-> s[at[k]]]
Only(s, D) == Picked(s, {i \in DOMAIN s : s[i] \in D})

\* Mutant: a page's streaming events are put behind its durable ones.
InOrderUnmerged(S) == Ascending({u \in S : Durable(u)}) \o Ascending({u \in S : ~Durable(u)})

\* `byPosition`: the order in which things happened.
InOrder(S) == Ascending(S)

\* Streaming events that still say something: of this process, and of a
\* message no later event has committed.
Streaming == {u \in Events : /\ ~Durable(u) /\ hist[u].ep = epoch
                             /\ \A w \in Events : w > u => hist[w].kind # "commit"}

\* What a snapshot shows, and what a chat that is up to date shows.
Shown == {u \in Events : Session(u) /\ Durable(u)} \cup Streaming

--------------------------------------------------------------------------------
(* The node: the log, the ring, the open stream.                            *)

\* The stream's listener: hold the event while the connection is congested,
\* dropping the session's streaming events when the budget is spent, or have
\* it flushed (at once or after the batch delay).
Hears(u) ==
  IF ~open THEN UNCHANGED stream
  ELSE IF ~congested
  THEN /\ live' = Append(live, u)
       /\ due' = TRUE
       /\ UNCHANGED <<open, topic, sSeq, sVer, congested, degraded>>
  ELSE /\ UNCHANGED <<open, topic, sSeq, sVer, due, congested>>
       /\ IF hist'[u].kind = "stream" /\ degraded THEN UNCHANGED <<live, degraded>>
          ELSE \/ live' = Append(live, u) /\ UNCHANGED degraded
               \/ LET l    == Append(live, u)
                      drop == {w \in ToSet(l) : topic /\ hist'[w].kind = "stream"}
                  IN /\ live' = Only(l, ToSet(l) \ drop)
                     /\ degraded' = (degraded \/ drop # {})

\* The floor once the ring has let some events go.
LetGo(us) == Highest(floor, Versions(us))

\* The node makes an event: a streaming one goes to the ring, a durable one
\* to the log; a commit retires the ring's events of its message.
MakeEvent(kind) ==
  LET u == Len(hist) + 1
      v == IF kind = "foreign" THEN 0 ELSE ver + 1
      s == IF kind = "stream" THEN head ELSE head + 1
  IN /\ Len(hist) < MaxEvents
     /\ hist' = Append(hist, [kind |-> kind, ver |-> v, ep |-> epoch, seq |-> s])
     /\ head' = s
     /\ ver' = IF kind = "foreign" THEN ver ELSE v
     /\ ring' = CASE kind = "stream" -> ring \cup {u}
                  [] kind = "commit" -> {}
                  [] OTHER           -> ring
     /\ floor' = IF kind = "commit" THEN LetGo(ring) ELSE floor
     /\ Hears(u)
     /\ UNCHANGED <<epoch, up, net, cursor, follower, drops>>

\* Streaming events of other sessions push the oldest one out of the ring.
Evict ==
  /\ ring # {}
  /\ LET u == CHOOSE w \in ring : \A x \in ring : w <= x
     IN ring' = ring \ {u} /\ floor' = LetGo({u})
  /\ UNCHANGED <<hist, head, epoch, ver, stream, up, net, cursor, follower, drops>>

\* What `flush` sends: of the waiting events those the reader has not had,
\* and of them those its topics include; a session whose streaming events
\* were dropped is named, and its version forgotten.
SendLive ==
  LET v0    == IF degraded THEN 0 ELSE sVer
      taken == {u \in ToSet(live) : IF Session(u) THEN hist[u].ver > v0 ELSE hist[u].seq > sSeq}
      sent  == Only(live, {u \in taken : Session(u) => topic})
  IN /\ sVer' = Highest(v0, Versions(taken))
     /\ sSeq' = Highest(sSeq, {hist[u].seq : u \in {w \in ToSet(live) : Durable(w)}})
     /\ net' = IF sent = <<>> /\ ~degraded THEN net
               ELSE Append(net, [events |-> sent, seq |-> sSeq', ep |-> epoch, gone |-> degraded])
     /\ live' = <<>>
     /\ degraded' = FALSE
     /\ due' = FALSE

\* The scheduled flush; it leaves everything to the drain while congested.
Flush ==
  /\ due
  /\ IF congested THEN due' = FALSE /\ UNCHANGED <<live, degraded, sVer, sSeq, net>> ELSE SendLive
  /\ UNCHANGED <<node, open, topic, congested, up, cursor, follower, drops>>

Congest ==
  /\ open /\ ~congested
  /\ congested' = TRUE
  /\ UNCHANGED <<node, open, topic, sSeq, sVer, live, due, degraded, up, net, cursor, follower, drops>>

\* Mutant: a drain forgets the sessions it has only to name.
WaitingEvents == live # <<>>

\* Whether a drain has something to send.
Waiting == live # <<>> \/ degraded

\* The outbox has emptied: what was held goes out, unless a flush is scheduled.
Drain ==
  /\ congested
  /\ congested' = FALSE
  /\ IF Waiting
     THEN SendLive \/ (due /\ UNCHANGED <<live, due, degraded, sVer, sSeq, net>>)
     ELSE UNCHANGED <<live, due, degraded, sVer, sSeq, net>>
  /\ UNCHANGED <<node, open, topic, up, cursor, follower, drops>>

--------------------------------------------------------------------------------
(* The reader: one subscription after another, from its cursor.              *)

\* The feed starts after the node's head.
Start ==
  /\ up /\ ~started
  /\ started' = TRUE
  /\ cSeq' = head
  /\ UNCHANGED <<node, stream, up, net, cEp, cVer, follower, drops>>

\* Mutant: the last event the ring let go counts as still there.
TooOldByOne(v) == v + 1 < floor

\* Whether the ring lacks something above v that it once held.
TooOld(v) == v < floor

\* The version of the session that the cursor has, in this process.
KnownVer == IF cEp = epoch THEN cVer ELSE 0

\* Some of what came after it is gone: the session is to be read again.
MustResnap == IF cEp = epoch THEN cVer # 0 /\ TooOld(cVer) ELSE cVer # 0

\* The durable events after the cursor, and what of the ring belongs to them.
LogAfter == {u \in Events : Durable(u) /\ hist[u].seq > cSeq}

RingAfter == IF MustResnap THEN {}
             ELSE IF KnownVer # 0 THEN {u \in ring : hist[u].ver > KnownVer}
             ELSE {u \in ring : hist[u].seq >= cSeq}

\* Those of them that the reader still needs.
Taken == {u \in {w \in LogAfter : MustResnap => ~Session(w)} \cup RingAfter :
            Session(u) => hist[u].ver > KnownVer}

\* The frames of a catch-up, page by page; an empty one is not sent.  A page
\* holds one durable event here, the finest cut a lost connection can make.
CatchUp(sent, gone) ==
  LET pages   == InOrder(LogAfter)
      n       == Len(pages)
      page(i) == {u \in sent : (i > 1 => u > pages[i - 1]) /\ (i <= n => u <= pages[i])}
      frames  == [i \in 1..(n + 1) |->
                   [events |-> InOrder(page(i)),
                    seq    |-> IF n = 0 THEN cSeq ELSE hist[pages[IF i <= n THEN i ELSE n]].seq,
                    ep     |-> epoch,
                    gone   |-> gone /\ i = 1]]
  IN Picked(frames, {i \in 1..(n + 1) : page(i) # {} \/ frames[i].gone})

\* `openEventStream` on the reader's cursor: catch up from the log and the
\* ring in the order things happened, or name the session when its streaming
\* events are gone.
Subscribe ==
  /\ up /\ started /\ ~open /\ net = <<>>
  /\ LET wanted == fol # "none" IN
     /\ net' = CatchUp({u \in Taken : Session(u) => wanted}, MustResnap /\ wanted)
     /\ topic' = wanted
     /\ sVer' = IF MustResnap THEN 0 ELSE Highest(KnownVer, Versions(Taken))
     /\ sSeq' = head
     /\ lost' = (lost \/ (/\ wanted /\ KnownVer = 0 /\ ~MustResnap
                          /\ ~(Streaming \subseteq ring \cup known \cup snap.shows)))
  /\ open' = TRUE
  /\ UNCHANGED <<node, live, due, congested, degraded, up, cursor, fol, from, held, snap,
                 reread, fromEp, known, drops>>

\* What an event does to the follower: kept until its barrier is known,
\* applied above it, dropped below.
Deliver(us) ==
  /\ held'  = IF fol = "joining" THEN held \cup us ELSE held
  /\ known' = IF fol = "on" THEN known \cup {u \in us : hist[u].ver > from} ELSE known

\* One frame: the cursor moves with it, a named session is read again, its
\* events go to the follower.  A read cannot be asked of a lost connection.
Receive ==
  /\ net # <<>>
  /\ LET f    == Head(net)
         base == IF f.ep = cEp THEN cVer ELSE 0
         us   == {u \in ToSet(f.events) : Session(u)}
         told == f.gone /\ fol # "none"
     IN /\ cEp' = f.ep
        /\ cSeq' = f.seq
        /\ cVer' = IF us = {} THEN base ELSE hist[CHOOSE u \in us : \A w \in us : w <= u].ver
        /\ Deliver(us)
        /\ reread' = (reread \/ (told /\ up))
        /\ lost' = (lost \/ (told /\ ~up))
  /\ net' = Tail(net)
  /\ UNCHANGED <<node, stream, up, started, fol, from, snap, fromEp, drops>>

--------------------------------------------------------------------------------
(* The follower.                                                             *)

Follow ==
  /\ started /\ fol = "none"
  /\ fol' = "joining"
  /\ UNCHANGED <<node, stream, up, net, cursor, from, held, snap, reread, fromEp, known, lost, drops>>

\* The feed tells the running stream which sessions it wants.
UpdateTopics ==
  /\ open /\ topic # (fol # "none")
  /\ topic' = (fol # "none")
  /\ UNCHANGED <<node, open, sSeq, sVer, live, due, congested, degraded, up, net, cursor,
                 follower, drops>>

\* The node reads the barrier's snapshot, after the topic if a stream is open.
\* The reply may overtake frames that were sent before it.
ReadBarrier ==
  /\ fol = "joining" /\ snap = NoSnap
  /\ up /\ (open => topic)
  /\ snap' = [ver |-> ver, ep |-> epoch, shows |-> Shown]
  /\ UNCHANGED <<node, stream, up, net, cursor, fol, from, held, reread, fromEp, known, lost, drops>>

BarrierArrives ==
  /\ snap # NoSnap
  /\ fol' = "on"
  /\ from' = snap.ver
  /\ fromEp' = snap.ep
  /\ known' = snap.shows \cup {u \in held : hist[u].ver > snap.ver}
  /\ held' = {}
  /\ snap' = NoSnap
  /\ UNCHANGED <<node, stream, up, net, cursor, reread, lost, drops>>

\* A session the stream named is read again; its follower stays as it is.
ReadAgain ==
  /\ reread /\ fol = "on" /\ up
  /\ known' = known \cup Shown
  /\ reread' = FALSE
  /\ lost' = FALSE
  /\ UNCHANGED <<node, stream, up, net, cursor, fol, from, held, snap, fromEp, drops>>

\* The follower as it is when nobody follows.
NoFollower == [fol |-> "none", from |-> 0, held |-> {}, snap |-> NoSnap, reread |-> FALSE,
               fromEp |-> 0, known |-> {}, lost |-> FALSE]

Become(f) ==
  /\ fol' = f.fol /\ from' = f.from /\ held' = f.held /\ snap' = f.snap
  /\ reread' = f.reread /\ fromEp' = f.fromEp /\ known' = f.known /\ lost' = f.lost

Unfollow ==
  /\ fol = "on"
  /\ Become(NoFollower)
  /\ UNCHANGED <<node, stream, up, net, cursor, drops>>

--------------------------------------------------------------------------------
(* The connection and the node's process.                                    *)

\* The stream ends with its socket; frames that had arrived are still read.
\* A barrier on its way fails its follow, a read on its way is not repeated.
LinkEnds ==
  /\ up' = FALSE
  /\ open' = FALSE /\ topic' = FALSE /\ sSeq' = 0 /\ sVer' = 0
  /\ live' = <<>> /\ due' = FALSE /\ congested' = FALSE /\ degraded' = FALSE
  /\ \E k \in 0..Len(net) : net' = SubSeq(net, 1, k)
  /\ \/ fol = "joining" /\ Become(NoFollower)
     \/ /\ snap = NoSnap
        /\ reread' = FALSE
        /\ lost' = (lost \/ reread)
        /\ UNCHANGED <<fol, from, held, snap, fromEp, known>>
  /\ UNCHANGED cursor

Drop ==
  /\ up /\ drops < MaxDrops
  /\ drops' = drops + 1
  /\ LinkEnds
  /\ UNCHANGED node

\* A new process: a new epoch, an empty ring, and the session's version from
\* its durable events.
Restart ==
  /\ epoch <= MaxRestarts
  /\ epoch' = epoch + 1
  /\ ring' = {} /\ floor' = 0
  /\ ver' = Highest(0, Versions({u \in Events : Durable(u)}))
  /\ LinkEnds
  /\ UNCHANGED <<hist, head, drops>>

Reconnect ==
  /\ ~up
  /\ up' = TRUE
  /\ UNCHANGED <<node, stream, net, cursor, follower, drops>>

--------------------------------------------------------------------------------

Init ==
  /\ hist = <<>> /\ head = 0 /\ epoch = 1 /\ ver = 0 /\ ring = {} /\ floor = 0
  /\ open = FALSE /\ topic = FALSE /\ sSeq = 0 /\ sVer = 0 /\ live = <<>>
  /\ due = FALSE /\ congested = FALSE /\ degraded = FALSE
  /\ up = TRUE /\ net = <<>>
  /\ started = FALSE /\ cSeq = 0 /\ cEp = 0 /\ cVer = 0
  /\ fol = "none" /\ from = 0 /\ held = {} /\ snap = NoSnap
  /\ reread = FALSE /\ fromEp = 0 /\ known = {} /\ lost = FALSE
  /\ drops = 0

Next ==
  \/ \E kind \in Kinds : MakeEvent(kind)
  \/ Evict \/ Flush \/ Congest \/ Drain
  \/ Start \/ Subscribe \/ Receive
  \/ Follow \/ UpdateTopics \/ ReadBarrier \/ BarrierArrives \/ ReadAgain \/ Unfollow
  \/ Drop \/ Restart \/ Reconnect

Spec == Init /\ [][Next]_vars

--------------------------------------------------------------------------------

\* Every variable keeps its shape.
TypeOK ==
  /\ hist \in Seq([kind : Kinds, ver : Nat, ep : Nat, seq : Nat])
  /\ {head, epoch, ver, floor, sSeq, sVer, cSeq, cEp, cVer, from, fromEp, drops} \subseteq Nat
  /\ {open, topic, due, congested, degraded, up, started, reread, lost} \subseteq BOOLEAN
  /\ live \in Seq(Events)
  /\ net \in Seq([events : Seq(Events), seq : Nat, ep : Nat, gone : BOOLEAN])
  /\ fol \in {"none", "joining", "on"}
  /\ snap \in [ver : Nat, ep : Nat, shows : SUBSET Events]
  /\ ring \cup held \cup known \subseteq Events

\* Nothing is under way between the node and the chat.
Quiet == /\ up /\ open /\ topic /\ fol = "on"
         /\ net = <<>> /\ live = <<>> /\ ~degraded /\ ~reread

\* A follower whose barrier is of the running process, and that lost nothing to
\* an eviction it could not be told of or to a read that failed, shows every
\* event of the session once nothing is under way: whatever was dropped with
\* a connection, degraded, evicted or committed away in between was caught up
\* or read again (RemoteSessionFeed, openEventStream, subscribeEvents).
FollowerIsCurrent == Quiet /\ ~lost /\ fromEp = epoch => Shown \subseteq known

\* The class comment of RemoteSessionFeed, that a follower gets the events
\* above its barrier "so nothing is missed", also when the node has restarted.
RestartIsSurvived == Quiet /\ ~lost => Shown \subseteq known

\* What is on its way to the reader is in the order the node made it, nothing
\* of it twice, and none of it had the reader's cursor: a subscription resumes
\* exactly where the last one's frames end.
FramesAreInOrder ==
  \A i, j \in DOMAIN net : \A k \in DOMAIN net[i].events, l \in DOMAIN net[j].events :
    LET u == net[i].events[k]
        w == net[j].events[l]
    IN /\ i < j \/ (i = j /\ k < l) => u < w
       /\ Durable(u) => hist[u].seq > cSeq
       /\ Session(u) /\ hist[u].ep = cEp => hist[u].ver > cVer

\* What the stream has heard and not sent has something that will send it: a
\* scheduled flush, or the drain of a congested connection (`flush` gives up on
\* a congested connection and clears its own timer, `onDrain` skips a stream
\* that is flushing; between them no event may be left behind).
NothingIsStranded == live # <<>> \/ degraded => due \/ congested
================================================================================
