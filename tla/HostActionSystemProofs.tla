------------------------ MODULE HostActionSystemProofs ------------------------
(****************************************************************************)
(* Theorems about HostActionSystem for any number of actions, clients,      *)
(* executions at once, losses and reconnects: the composition is a run of   *)
(* the channel, so what is proved of the channel holds in it, and an action *)
(* that must not be replayed is executed once, only accepted responses are  *)
(* committed, and one execution of an action is authoritative.              *)
(****************************************************************************)
EXTENDS HostActionSystem, HostActionsProofs, WellFoundedInduction

-----------------------------------------------------------------------------
(* Numbers.                                                                  *)

\* A set of naturals has a least element.
LEMMA LeastNatural ==
  ASSUME NEW S, S \subseteq Nat, S # {}
  PROVE  \E m \in S : \A n \in S : m <= n
<1>1. PICK m \in S : \A n \in S : <<n, m>> \notin OpToRel(<, Nat)
  BY NatLessThanWellFounded, WFMin
<1>2. \A n \in S : ~(n < m)
  BY <1>1 DEF OpToRel
<1> QED BY <1>2

\* A finite set of naturals has a highest element.
LEMMA HighestExists ==
  ASSUME NEW S, S \subseteq Nat, IsFiniteSet(S), S # {}
  PROVE  \E m \in S : \A n \in S : n <= m
<1> DEFINE Topless(T) == T \subseteq Nat /\ IsFiniteSet(T) /\ T # {} /\ ~\E m \in T : \A n \in T : n <= m
           Sizes == {k \in Nat : \E T : Topless(T) /\ Cardinality(T) = k}
<1> SUFFICES ASSUME Topless(S) PROVE FALSE
  OBVIOUS
<1>1. Cardinality(S) \in Sizes
  BY FS_CardinalityType
<1>2. PICK k \in Sizes : \A j \in Sizes : k <= j
  BY <1>1, LeastNatural
<1>3. PICK T : Topless(T) /\ Cardinality(T) = k
  OBVIOUS
<1>4. PICK x \in T : TRUE
  BY <1>3
<1>5. IsFiniteSet(T \ {x}) /\ Cardinality(T \ {x}) = k - 1
  BY <1>3, <1>4, FS_RemoveElement
<1>6. k - 1 \in Nat
  BY <1>5, FS_CardinalityType
<1>7. ~Topless(T \ {x})
  <2> SUFFICES ASSUME Topless(T \ {x}) PROVE FALSE
    OBVIOUS
  <2> HIDE DEF Topless
  <2>1. k - 1 \in Sizes
    BY <1>5, <1>6
  <2> QED BY <1>2, <1>6, <2>1
<1>8. x \in Nat /\ T \ {x} \subseteq Nat
  BY <1>3, <1>4
<1>9. CASE T \ {x} = {}
  BY <1>3, <1>8, <1>9
<1>10. CASE T \ {x} # {}
  <2>1. PICK m \in T \ {x} : \A n \in T \ {x} : n <= m
    BY <1>5, <1>7, <1>8, <1>10
  <2>2. CASE x <= m
    BY <1>3, <2>1, <2>2
  <2>3. CASE ~(x <= m)
    BY <1>3, <1>8, <2>1, <2>3
  <2> QED BY <2>2, <2>3
<1> QED BY <1>9, <1>10

\* `Highest` of a finite set of positions is one of them, or 0.
LEMMA HighestIs ==
  ASSUME NEW S, S \subseteq Nat, IsFiniteSet(S)
  PROVE  Highest(S) \in S \cup {0} /\ Highest(S) \in Nat /\ \A p \in S : p <= Highest(S)
<1>1. \E m \in S \cup {0} : \A p \in S : p <= m
  <2>1. CASE S = {}
    BY <2>1
  <2>2. CASE S # {}
    <3>1. \E m \in S : \A p \in S : p <= m
      BY <2>2, HighestExists
    <3> QED BY <3>1
  <2> QED BY <2>1, <2>2
<1>2. Highest(S) \in S \cup {0} /\ \A p \in S : p <= Highest(S)
  <2> DEFINE Top(m) == \A p \in S : p <= m
  <2>1. \E m \in S \cup {0} : Top(m)
    BY <1>1
  <2>2. Highest(S) = CHOOSE m \in S \cup {0} : Top(m)
    BY DEF Highest
  <2> HIDE DEF Top
  <2>3. Highest(S) \in S \cup {0} /\ Top(Highest(S))
    BY <2>1, <2>2
  <2> QED BY <2>3 DEF Top
<1>3. Highest(S) \in Nat
  <2>1. \A m \in S \cup {0} : m \in Nat
    OBVIOUS
  <2> QED BY <1>2, <2>1, Zenon
<1> QED BY <1>2, <1>3
-----------------------------------------------------------------------------
(* The consumer's bookkeeping.  Whatever it does, a job that may hold a claim *)
(* is left as it is or ends: new work starts with a claim to ask for.        *)

Tasks == [action : Actions, version : Nat]

\* A loop's state with busy slots that work on an action.
Sound(k) == k \in Loops /\ \A i \in Slots : k.slot[i].phase # "idle" => k.slot[i].action \in Actions

\* Phases in which a job has no claim it could use.
Free == {"idle", "claiming", "refused", "rejected"}

SameJob(j, n) == /\ n.phase = j.phase /\ n.action = j.action /\ n.token = j.token
                 /\ n.response = j.response

Carries(k, m) == \A i \in Slots : m.slot[i].phase \in Free \/ SameJob(k.slot[i], m.slot[i])

\* What is carried twice is carried.
LEMMA CarriesOn ==
  ASSUME NEW k, NEW m, NEW n, Carries(k, m), Carries(m, n)
  PROVE  Carries(k, n)
BY DEF Carries, SameJob

Reslotted(k, slot, inflight) == [k EXCEPT !.slot = slot, !.inflight = inflight]

\* A loop's state with other slots ...
LEMMA WithSlots ==
  ASSUME NEW k \in Loops, NEW slot \in [Slots -> Jobs], NEW inflight \in [Actions -> Slots \cup {0}]
  PROVE  LET m == Reslotted(k, slot, inflight)
         IN  m \in Loops /\ m.slot = slot /\ m.queue = k.queue
BY DEF Loops, Reslotted

\* ... with another queue.
LEMMA WithQueue ==
  ASSUME NEW k \in Loops, NEW queue \in Seq(Tasks), NEW m, m = [k EXCEPT !.queue = queue]
  PROVE  m \in Loops /\ m.slot = k.slot /\ m.inflight = k.inflight
BY DEF Loops, Tasks

\* ... with other known actions.
LEMMA WithKnown ==
  ASSUME NEW k \in Loops, NEW known, known \subseteq Actions, NEW m, m = [k EXCEPT !.known = known]
  PROVE  m \in Loops /\ m.slot = k.slot /\ m.inflight = k.inflight /\ m.queue = k.queue
BY DEF Loops

\* What a loop's state holds.
LEMMA LoopHas ==
  ASSUME NEW k \in Loops
  PROVE  /\ k.slot \in [Slots -> Jobs] /\ k.inflight \in [Actions -> Slots \cup {0}]
         /\ k.queue \in Seq(Tasks) /\ k.known \subseteq Actions
BY DEF Loops, Tasks

\* Slots left alone are carried.
LEMMA SlotsCarried ==
  ASSUME NEW k, NEW m, m.slot = k.slot
  PROVE  Carries(k, m) /\ (Sound(k) /\ m \in Loops => Sound(m))
BY DEF Carries, SameJob, Sound

\* A slot that starts a task waits for the answer to its claim.
LEMMA BeginIs ==
  ASSUME NEW k, Sound(k), NEW i \in Slots, NEW task \in Tasks
  PROVE  Sound(Begin(k, i, task)) /\ Carries(k, Begin(k, i, task))
<1>0. k \in Loops /\ k.slot \in [Slots -> Jobs] /\ k.inflight \in [Actions -> Slots \cup {0}]
  BY LoopHas DEF Sound
<1>1. PICK job : job = [Idle EXCEPT !.phase = "claiming", !.action = task.action, !.version = task.version]
  OBVIOUS
<1>2. job \in Jobs /\ job.phase = "claiming" /\ job.action \in Actions
  BY <1>1 DEF Idle, Jobs, Phases, Tasks
<1>3. PICK slot : slot = [k.slot EXCEPT ![i] = job]
  OBVIOUS
<1>4. PICK inflight : inflight = [k.inflight EXCEPT ![task.action] = i]
  OBVIOUS
<1>5. slot \in [Slots -> Jobs] /\ inflight \in [Actions -> Slots \cup {0}]
  BY <1>0, <1>2, <1>3, <1>4 DEF Tasks
<1>6. \A j \in Slots : slot[j] = IF j = i THEN job ELSE k.slot[j]
  BY <1>0, <1>3
<1>7. Begin(k, i, task) = Reslotted(k, slot, inflight)
  BY <1>0, <1>1, <1>3, <1>4, Zenon DEF Begin, Reslotted
<1>8. Begin(k, i, task) \in Loops /\ Begin(k, i, task).slot = slot
  BY <1>0, <1>5, <1>7, WithSlots
<1>9. Sound(Begin(k, i, task))
  BY <1>2, <1>6, <1>8 DEF Sound
<1>10. Carries(k, Begin(k, i, task))
  BY <1>2, <1>6, <1>8 DEF Carries, SameJob, Free
<1> QED BY <1>9, <1>10

\* Scheduling what is pending.
LEMMA ScheduleIs ==
  ASSUME NEW k, Sound(k), NEW task \in Tasks
  PROVE  Sound(ScheduleIfNeeded(k, task)) /\ Carries(k, ScheduleIfNeeded(k, task))
<1>0. k \in Loops /\ k.queue \in Seq(Tasks) /\ k.known \cup {task.action} \subseteq Actions
  BY LoopHas DEF Sound, Tasks
<1>1. PICK added : added = [k EXCEPT !.known = k.known \cup {task.action}]
  OBVIOUS
<1>2. added \in Loops /\ added.slot = k.slot /\ added.queue = k.queue
  BY <1>0, <1>1, WithKnown
<1>3. Sound(added) /\ Carries(k, added)
  BY <1>2, SlotsCarried
<1>4. CASE task.action \in k.known
  <2>1. ScheduleIfNeeded(k, task) = k
    BY <1>4 DEF ScheduleIfNeeded
  <2> QED BY <2>1, SlotsCarried
<1>5. CASE task.action \notin k.known /\ {i \in Slots : k.slot[i].phase = "idle"} = {}
  <2>1. PICK queue : queue = Append(added.queue, task)
    OBVIOUS
  <2>2. queue \in Seq(Tasks)
    BY <1>0, <1>2, <2>1
  <2>3. ScheduleIfNeeded(k, task) = [added EXCEPT !.queue = queue]
    BY <1>1, <1>5, <2>1, Zenon DEF ScheduleIfNeeded
  <2>4. ScheduleIfNeeded(k, task) \in Loops /\ ScheduleIfNeeded(k, task).slot = added.slot
    BY <1>2, <2>2, <2>3, WithQueue
  <2> QED BY <1>2, <2>4, SlotsCarried
<1>6. CASE task.action \notin k.known /\ {i \in Slots : k.slot[i].phase = "idle"} # {}
  <2>1. PICK i : i = CHOOSE f \in {f \in Slots : k.slot[f].phase = "idle"} : TRUE
    OBVIOUS
  <2>2. i \in Slots
    BY <1>6, <2>1
  <2>3. ScheduleIfNeeded(k, task) = Begin(added, i, task)
    BY <1>1, <1>6, <2>1, Zenon DEF ScheduleIfNeeded
  <2> QED BY <1>3, <2>2, <2>3, BeginIs, CarriesOn
<1> QED BY <1>4, <1>5, <1>6

Remade(k, slot, inflight, known) == [k EXCEPT !.slot = slot, !.inflight = inflight, !.known = known]

\* A loop's state with other slots and actions known.
LEMMA WithSlotsKnown ==
  ASSUME NEW k \in Loops, NEW slot \in [Slots -> Jobs], NEW inflight \in [Actions -> Slots \cup {0}],
         NEW known, known \subseteq Actions
  PROVE  Remade(k, slot, inflight, known) \in Loops /\ Remade(k, slot, inflight, known).slot = slot
BY DEF Loops, Remade

\* A terminal change marks a job as aborted and forgets the action.
LEMMA DropIs ==
  ASSUME NEW k, Sound(k), NEW a \in Actions
  PROVE  Sound(DropTerminal(k, a)) /\ Carries(k, DropTerminal(k, a))
<1> DEFINE i == k.inflight[a]
<1>0. /\ k \in Loops /\ k.slot \in [Slots -> Jobs] /\ k.inflight \in [Actions -> Slots \cup {0}]
      /\ k.known \ {a} \subseteq Actions
  BY LoopHas DEF Sound
<1>1. PICK slot : slot = IF i = 0 THEN k.slot ELSE [k.slot EXCEPT ![i].aborted = TRUE]
  OBVIOUS
<1>2. PICK inflight : inflight = [k.inflight EXCEPT ![a] = 0]
  OBVIOUS
<1>3. i \in Slots \cup {0} /\ inflight \in [Actions -> Slots \cup {0}]
  BY <1>0, <1>2
<1>4. /\ slot \in [Slots -> Jobs]
      /\ \A j \in Slots : SameJob(k.slot[j], slot[j])
  <2>1. CASE i = 0
    BY <1>0, <1>1, <2>1 DEF SameJob
  <2>2. CASE i # 0
    <3>1. slot = [k.slot EXCEPT ![i].aborted = TRUE]
      BY <1>1, <2>2
    <3>2. [k.slot[i] EXCEPT !.aborted = TRUE] \in Jobs
      BY <1>0, <1>3, <2>2 DEF Jobs
    <3>3. \A j \in Slots : slot[j] = IF j = i THEN [k.slot[i] EXCEPT !.aborted = TRUE] ELSE k.slot[j]
      BY <1>0, <3>1
    <3>4. slot \in [Slots -> Jobs]
      BY <1>0, <3>1, <3>2
    <3>5. SameJob(k.slot[i], [k.slot[i] EXCEPT !.aborted = TRUE])
      BY <1>0, <1>3, <2>2 DEF SameJob, Jobs
    <3> QED BY <3>3, <3>4, <3>5 DEF SameJob
  <2> QED BY <2>1, <2>2
<1>5. DropTerminal(k, a) = Remade(k, slot, inflight, k.known \ {a})
  <2>1. CASE i = 0
    BY <1>0, <1>1, <1>2, <2>1 DEF DropTerminal, Remade, Loops
  <2>2. CASE i # 0
    BY <1>0, <1>1, <1>2, <2>2 DEF DropTerminal, Remade, Loops
  <2> QED BY <2>1, <2>2
<1>6. DropTerminal(k, a) \in Loops /\ DropTerminal(k, a).slot = slot
  BY <1>0, <1>3, <1>4, <1>5, WithSlotsKnown
<1>7. Sound(DropTerminal(k, a))
  BY <1>4, <1>6 DEF Sound, SameJob
<1>8. Carries(k, DropTerminal(k, a))
  BY <1>4, <1>6 DEF Carries
<1> QED BY <1>7, <1>8

\* One change of an answer.
LEMMA ConsumeIs ==
  ASSUME NEW k, Sound(k), NEW e \in Changes
  PROVE  Sound(Consume(k, e)) /\ Carries(k, Consume(k, e))
<1>1. CASE e.state = "pending"
  <2>1. PICK task : task = [action |-> e.action, version |-> e.version]
    OBVIOUS
  <2>2. task \in Tasks
    BY <2>1 DEF Tasks, Changes
  <2>3. Consume(k, e) = ScheduleIfNeeded(k, task)
    BY <1>1, <2>1, Zenon DEF Consume, Terminal, Outcomes
  <2> QED BY <2>2, <2>3, ScheduleIs
<1>2. CASE e.state \in Terminal
  <2>1. e.state # "pending" /\ e.action \in Actions
    BY <1>2 DEF Terminal, Outcomes, Changes
  <2>2. Consume(k, e) = DropTerminal(k, e.action)
    BY <1>2, <2>1 DEF Consume
  <2> QED BY <2>1, <2>2, DropIs
<1>3. CASE e.state # "pending" /\ e.state \notin Terminal
  <2>1. Consume(k, e) = k
    BY <1>3 DEF Consume
  <2> QED BY <2>1, SlotsCarried
<1> QED BY <1>1, <1>2, <1>3

\* The scheduler frees a slot and starts the next task in it.
LEMMA EndJobIs ==
  ASSUME NEW k, Sound(k), NEW i \in Slots, k.slot[i].action \in Actions
  PROVE  Sound(EndJob(k, i)) /\ Carries(k, EndJob(k, i))
<1>0. /\ k \in Loops /\ k.slot \in [Slots -> Jobs] /\ k.inflight \in [Actions -> Slots \cup {0}]
      /\ k.queue \in Seq(Tasks)
  BY LoopHas DEF Sound
<1>1. PICK slot : slot = [k.slot EXCEPT ![i] = Idle]
  OBVIOUS
<1>2. PICK inflight : inflight = [k.inflight EXCEPT ![k.slot[i].action] = 0]
  OBVIOUS
<1>3. Idle \in Jobs /\ Idle.phase = "idle"
  BY DEF Idle, Jobs, Phases
<1>4. slot \in [Slots -> Jobs] /\ inflight \in [Actions -> Slots \cup {0}]
  BY <1>0, <1>1, <1>2, <1>3
<1>5. \A j \in Slots : slot[j] = IF j = i THEN Idle ELSE k.slot[j]
  BY <1>0, <1>1
<1>6. PICK freed : freed = Reslotted(k, slot, inflight)
  OBVIOUS
<1>7. freed \in Loops /\ freed.slot = slot /\ freed.queue = k.queue
  BY <1>0, <1>4, <1>6, WithSlots
<1>8. Sound(freed)
  BY <1>3, <1>5, <1>7 DEF Sound
<1>9. Carries(k, freed)
  BY <1>3, <1>5, <1>7 DEF Carries, SameJob, Free
<1>10. freed = [k EXCEPT !.inflight[k.slot[i].action] = 0, !.slot[i] = Idle]
  BY <1>0, <1>1, <1>2, <1>6 DEF Reslotted, Loops
<1>11. CASE k.queue = <<>>
  BY <1>8, <1>9, <1>10, <1>11 DEF EndJob
<1>12. CASE k.queue # <<>>
  <2>1. PICK queue : queue = Tail(freed.queue)
    OBVIOUS
  <2>2. queue \in Seq(Tasks) /\ Head(k.queue) \in Tasks
    BY <1>0, <1>7, <1>12, <2>1
  <2>3. PICK next : next = [freed EXCEPT !.queue = queue]
    OBVIOUS
  <2>4. Sound(next) /\ Carries(freed, next)
    BY <1>7, <1>8, <2>2, <2>3, WithQueue, SlotsCarried
  <2>5. EndJob(k, i) = Begin(next, i, Head(k.queue))
    BY <1>10, <1>12, <2>1, <2>3, Zenon DEF EndJob
  <2>6. Sound(EndJob(k, i)) /\ Carries(next, EndJob(k, i))
    BY <2>2, <2>4, <2>5, BeginIs
  <2>7. Carries(k, next)
    BY <1>9, <2>4, CarriesOn
  <2> QED BY <2>6, <2>7, CarriesOn
<1> QED BY <1>11, <1>12

\* An action is forgotten.
LEMMA ForgetIs ==
  ASSUME NEW k, Sound(k), NEW a
  PROVE  Sound(Forget(k, a)) /\ Carries(k, Forget(k, a)) /\ Forget(k, a).slot = k.slot
<1>0. k \in Loops /\ k.known \ {a} \subseteq Actions
  BY LoopHas DEF Sound
<1>1. PICK m : m = [k EXCEPT !.known = k.known \ {a}]
  OBVIOUS
<1>2. m \in Loops /\ m.slot = k.slot
  BY <1>0, <1>1, WithKnown
<1>3. Forget(k, a) = m
  BY <1>1, Zenon DEF Forget
<1> QED BY <1>2, <1>3, SlotsCarried

\* A new consumer.
LEMMA FreshIs == Sound(Fresh) /\ \A k : Carries(k, Fresh)
<1>1. Idle \in Jobs /\ Idle.phase = "idle"
  BY DEF Idle, Jobs, Phases
<1>2. <<>> \in Seq(Tasks)
  OBVIOUS
<1> QED BY <1>1, <1>2 DEF Sound, Fresh, Loops, Tasks, Carries, Free

\* A whole answer, however long: by induction over its positions, which needs
\* that the recursive function of `Consumed` exists.
LEMMA ConsumedIs ==
  ASSUME NEW k, Sound(k), NEW entries, DOMAIN entries \subseteq Nat, IsFiniteSet(DOMAIN entries),
         \A p \in DOMAIN entries : entries[p] \in Changes
  PROVE  Sound(Consumed(k, entries)) /\ Carries(k, Consumed(k, entries))
<1> DEFINE top == Highest(DOMAIN entries)
           Go(v, n) == IF n \in DOMAIN entries THEN Consume(v, entries[n]) ELSE v
           Good(v) == Sound(v) /\ Carries(k, v)
           Body(f, n) == IF n = 0 THEN k ELSE Go(f[n - 1], n)
           Runs(f, m) == f = [n \in 0..m |-> Body(f, n)]
<1>1. top \in Nat
  BY HighestIs
<1>2. Good(k)
  BY SlotsCarried
<1>3. ASSUME NEW v, NEW n, Good(v) PROVE Good(Go(v, n))
  <2>1. CASE n \in DOMAIN entries
    <3>1. Sound(Consume(v, entries[n])) /\ Carries(v, Consume(v, entries[n]))
      BY <1>3, <2>1, ConsumeIs
    <3> QED BY <1>3, <2>1, <3>1, CarriesOn
  <2>2. CASE n \notin DOMAIN entries
    BY <1>3, <2>2
  <2> QED BY <2>1, <2>2
<1>4. Consumed(k, entries) = (CHOOSE f : Runs(f, top))[top]
  BY DEF Consumed
<1> HIDE DEF top, Go, Good
<1>5. \A m \in Nat : \E f : Runs(f, m)
  <2> DEFINE Bad == {m \in Nat : ~\E f : Runs(f, m)}
  <2> SUFFICES ASSUME Bad # {} PROVE FALSE
    OBVIOUS
  <2>1. PICK m \in Bad : \A n \in Bad : m <= n
    BY LeastNatural
  <2>2. CASE m = 0
    <3>1. PICK f : f = [n \in 0..0 |-> k]
      OBVIOUS
    <3>2. Runs(f, 0)
      BY <3>1
    <3> QED BY <2>1, <2>2, <3>2
  <2>3. CASE m # 0
    <3>1. m - 1 \in Nat /\ m - 1 \notin Bad
      BY <2>1, <2>3
    <3>2. PICK f : Runs(f, m - 1)
      BY <3>1
    <3>3. PICK g : g = [n \in 0..m |-> IF n = m THEN Go(f[m - 1], m) ELSE f[n]]
      OBVIOUS
    <3>4. \A n \in 0..(m - 1) : f[n] = Body(f, n)
      BY <3>2
    <3>5. \A n \in 0..m : g[n] = Body(g, n)
      <4> SUFFICES ASSUME NEW n \in 0..m PROVE g[n] = Body(g, n)
        OBVIOUS
      <4>1. CASE n = m
        <5>1. g[m] = Go(f[m - 1], m) /\ g[m - 1] = f[m - 1]
          BY <2>3, <3>1, <3>3
        <5> QED BY <2>3, <4>1, <5>1
      <4>2. CASE n = 0
        <5>1. g[0] = f[0] /\ f[0] = k
          BY <2>3, <3>1, <3>3, <3>4
        <5> QED BY <4>2, <5>1
      <4>3. CASE n # m /\ n # 0
        <5>1. n \in 0..(m - 1) /\ n - 1 \in 0..m /\ n - 1 # m
          BY <2>1, <4>3
        <5>2. g[n] = f[n] /\ g[n - 1] = f[n - 1]
          BY <3>3, <5>1
        <5> QED BY <3>4, <4>3, <5>1, <5>2
      <4> QED BY <4>1, <4>2, <4>3
    <3>6. Runs(g, m)
      BY <3>3, <3>5
    <3> QED BY <2>1, <3>6
  <2> QED BY <2>2, <2>3
<1>6. PICK after : after = CHOOSE f : Runs(f, top)
  OBVIOUS
<1>7. Runs(after, top)
  BY <1>1, <1>5, <1>6
<1>8. \A n \in 0..top : after[n] = Body(after, n)
  BY <1>7
<1>9. \A n \in 0..top : Good(after[n])
  <2> DEFINE Bad == {n \in 0..top : ~Good(after[n])}
  <2> SUFFICES ASSUME Bad # {} PROVE FALSE
    OBVIOUS
  <2>0. Bad \subseteq Nat
    BY <1>1
  <2>1. PICK m \in Bad : \A n \in Bad : m <= n
    BY <2>0, LeastNatural
  <2>2. m # 0
    BY <1>1, <1>2, <1>8
  <2>3. m - 1 \in 0..top /\ m - 1 \notin Bad
    BY <1>1, <2>1, <2>2
  <2>4. after[m] = Go(after[m - 1], m)
    BY <1>8, <2>2
  <2> QED BY <1>3, <2>3, <2>4
<1>10. Consumed(k, entries) = after[top]
  BY <1>4, <1>6
<1> QED BY <1>1, <1>9, <1>10 DEF Good

-----------------------------------------------------------------------------
(* The invariant.  Each job that may use a claim holds a grant of its own, so *)
(* the grants, of which an unsafe action has one at most, bound executions.  *)

Busy == {"granted", "running", "responding", "accepted"}

\* A row that has an outcome has the response that says so.
Answered(a) ==
  row[a].state \in Outcomes => row[a].response \in Responses /\ row[a].response.outcome = row[a].state

JobInv(c, i) ==
  /\ Job(c, i).phase \in Busy => GrantOf(c, i) \in grants
  /\ Job(c, i).phase \in {"responding", "accepted"} => Job(c, i).response \in Responses
  /\ Job(c, i).phase = "accepted" =>
       /\ row[Job(c, i).action].state = Job(c, i).response.outcome
       /\ row[Job(c, i).action].response = Job(c, i).response

\* No two jobs hold the same grant.
Apart ==
  \A c, d \in Clients : \A i, j \in Slots :
    Job(c, i).phase \in Busy /\ Job(d, j).phase \in Busy /\ GrantOf(c, i) = GrantOf(d, j)
      => c = d /\ i = j

\* An execution was granted; of an unsafe action there was one at most, and
\* after it no job is about to start another.
ExecInv(a) ==
  /\ executions[a] # 0 => GrantsOf(a) # {}
  /\ row[a].policy = "unsafe" => executions[a] <= 1
  /\ row[a].policy = "unsafe" /\ executions[a] # 0 =>
       \A c \in Clients, i \in Slots : Job(c, i).phase = "granted" => Job(c, i).action # a

NodeInv == TypeOK /\ (\A a \in Actions : ClaimInv(a)) /\ (\A a \in Actions : Answered(a))

JobsInv == \A c \in Clients, i \in Slots : JobInv(c, i)

ExecsInv == \A a \in Actions : ExecInv(a)

SysInv == NodeInv /\ SysTypeOK /\ JobsInv /\ Apart /\ ExecsInv /\ CommitImpliesAccepted

\* What the node leaves alone in any step: grants, the outcome of an action
\* that has one, the policy of an action that was ever granted.
NodeKeeps ==
  /\ grants \subseteq grants'
  /\ \A a \in Actions :
       /\ row[a].state \in Outcomes => row'[a] = row[a]
       /\ GrantsOf(a) # {} => row'[a].policy = row[a].policy /\ GrantsOf(a)' # {}

\* Steps of the channel keep that.
LEMMA NodeStepKeeps ==
  ASSUME NodeInv, [Next]_vars
  PROVE  NodeInv' /\ NodeKeeps
<1>1. TypeOK' /\ (\A a \in Actions : ClaimInv(a))'
  BY TypeStep, ClaimStep DEF NodeInv
<1>2. \A a \in Actions : RowMove(a)
  BY StepsAreMoves DEF NodeInv
<1>3. ASSUME NEW a \in Actions PROVE Answered(a)'
  BY <1>2, <1>3
  DEF NodeInv, Answered, RowMove, Kept, Opened, WasCancelled, WasRequeued, WasRenewed, WasHandedOut,
      WasFinished, Outcomes
<1>4. ASSUME NEW a \in Actions
      PROVE  /\ row[a].state \in Outcomes => row'[a] = row[a]
             /\ GrantsOf(a) # {} => row'[a].policy = row[a].policy
             /\ GrantsOf(a) \subseteq GrantsOf(a)'
  BY <1>2, <1>4
  DEF NodeInv, ClaimInv, RowMove, Kept, Opened, WasCancelled, WasRequeued, WasRenewed, WasHandedOut,
      WasFinished, Written, Live, Outcomes
<1>5. grants \subseteq grants'
  <2> SUFFICES ASSUME NEW g \in grants PROVE g \in grants'
    OBVIOUS
  <2>1. g.action \in Actions /\ g \in GrantsOf(g.action)
    BY DEF NodeInv, TypeOK, Grants, GrantsOf
  <2>2. g \in GrantsOf(g.action)'
    BY <1>4, <2>1
  <2> QED BY <2>2 DEF GrantsOf
<1> QED BY <1>1, <1>3, <1>4, <1>5 DEF NodeInv, NodeKeeps

-----------------------------------------------------------------------------
(* What a step does to the jobs: all but one are carried, and that one makes *)
(* one of four moves.                                                        *)

Others(c, i) ==
  \A d \in Clients, j \in Slots :
    d # c \/ j # i => Job(d, j)'.phase \in Free \/ SameJob(Job(d, j), Job(d, j)')

AllCarried ==
  \A d \in Clients, j \in Slots : Job(d, j)'.phase \in Free \/ SameJob(Job(d, j), Job(d, j)')

GetsClaim(c, i) ==
  /\ Others(c, i) /\ Job(c, i)'.phase = "granted"
  /\ GrantOf(c, i)' \in grants' \ grants
  /\ executions' = executions

Starts(c, i) ==
  /\ Others(c, i) /\ Job(c, i).phase = "granted" /\ Job(c, i)'.phase = "running"
  /\ Job(c, i)'.action = Job(c, i).action /\ Job(c, i)'.token = Job(c, i).token
  /\ executions' = [executions EXCEPT ![Job(c, i).action] = @ + 1]

IsDone(c, i) ==
  /\ Others(c, i) /\ Job(c, i).phase = "running" /\ Job(c, i)'.phase = "responding"
  /\ Job(c, i)'.action = Job(c, i).action /\ Job(c, i)'.token = Job(c, i).token
  /\ Job(c, i)'.response \in Responses
  /\ executions' = executions

IsAccepted(c, i) ==
  /\ Others(c, i) /\ Job(c, i).phase = "responding" /\ Job(c, i)'.phase = "accepted"
  /\ Job(c, i)'.action = Job(c, i).action /\ Job(c, i)'.token = Job(c, i).token
  /\ Job(c, i)'.response = Job(c, i).response
  /\ row'[Job(c, i).action].state = Job(c, i).response.outcome
  /\ row'[Job(c, i).action].response = Job(c, i).response
  /\ executions' = executions

JobsMove ==
  \/ AllCarried /\ executions' = executions
  \/ \E c \in Clients, i \in Slots : GetsClaim(c, i) \/ Starts(c, i) \/ IsDone(c, i) \/ IsAccepted(c, i)

\* A job that is carried keeps its part of the invariant.
LEMMA CarriedJob ==
  ASSUME NodeInv, NodeKeeps, SysTypeOK, SysTypeOK', NEW c \in Clients, NEW i \in Slots, JobInv(c, i),
         Job(c, i)'.phase \in Free \/ SameJob(Job(c, i), Job(c, i)')
  PROVE  JobInv(c, i)'
<1>1. CASE Job(c, i)'.phase \in Free
  BY <1>1 DEF JobInv, Busy, Free
<1>2. CASE SameJob(Job(c, i), Job(c, i)')
  <2>1. GrantOf(c, i)' = GrantOf(c, i)
    BY <1>2 DEF SameJob, GrantOf
  <2>2. Job(c, i)'.phase = Job(c, i).phase /\ Job(c, i)'.response = Job(c, i).response
        /\ Job(c, i)'.action = Job(c, i).action
    BY <1>2 DEF SameJob
  <2>3. Job(c, i).phase \in Busy => GrantOf(c, i)' \in grants'
    BY <2>1 DEF JobInv, NodeKeeps
  <2>4. Job(c, i).phase = "accepted" => row'[Job(c, i).action] = row[Job(c, i).action]
    <3> SUFFICES ASSUME Job(c, i).phase = "accepted"
                 PROVE  row'[Job(c, i).action] = row[Job(c, i).action]
      OBVIOUS
    <3>1. Job(c, i).action \in Actions
      BY DEF SysTypeOK
    <3>2. row[Job(c, i).action].state \in Outcomes
      BY DEF JobInv, Responses
    <3> QED BY <3>1, <3>2 DEF NodeKeeps
  <2> QED BY <2>2, <2>3, <2>4 DEF JobInv
<1> QED BY <1>1, <1>2

\* Every job keeps its part.
LEMMA JobsKeep ==
  ASSUME NodeInv, NodeKeeps, SysTypeOK, SysTypeOK', JobsInv, JobsMove
  PROVE  JobsInv'
<1> SUFFICES ASSUME NEW d \in Clients, NEW j \in Slots PROVE JobInv(d, j)'
  BY DEF JobsInv
<1>0. JobInv(d, j)
  BY DEF JobsInv
<1>1. CASE Job(d, j)'.phase \in Free \/ SameJob(Job(d, j), Job(d, j)')
  BY <1>0, <1>1, CarriedJob
<1>2. CASE GetsClaim(d, j)
  BY <1>2 DEF GetsClaim, JobInv
<1>3. CASE Starts(d, j)
  <2>1. GrantOf(d, j)' = GrantOf(d, j)
    BY <1>3 DEF Starts, GrantOf
  <2> QED BY <1>0, <1>3, <2>1 DEF Starts, JobInv, Busy, NodeKeeps
<1>4. CASE IsDone(d, j)
  <2>1. GrantOf(d, j)' = GrantOf(d, j)
    BY <1>4 DEF IsDone, GrantOf
  <2> QED BY <1>0, <1>4, <2>1 DEF IsDone, JobInv, Busy, NodeKeeps
<1>5. CASE IsAccepted(d, j)
  <2>1. GrantOf(d, j)' = GrantOf(d, j)
    BY <1>5 DEF IsAccepted, GrantOf
  <2> QED BY <1>0, <1>5, <2>1 DEF IsAccepted, JobInv, Busy, NodeKeeps
<1> QED
  BY <1>1, <1>2, <1>3, <1>4, <1>5
  DEF JobsMove, AllCarried, Others, GetsClaim, Starts, IsDone, IsAccepted

\* A busy job had its grant before, or was just given a new one.
LEMMA BusyHad ==
  ASSUME JobsMove, NEW d \in Clients, NEW j \in Slots, Job(d, j)'.phase \in Busy
  PROVE  GetsClaim(d, j) \/ (Job(d, j).phase \in Busy /\ GrantOf(d, j)' = GrantOf(d, j))
<1>1. CASE Job(d, j)'.phase \in Free
  BY <1>1 DEF Busy, Free
<1>2. CASE SameJob(Job(d, j), Job(d, j)')
  BY <1>2 DEF SameJob, GrantOf
<1>3. CASE Starts(d, j)
  BY <1>3 DEF Starts, GrantOf, Busy
<1>4. CASE IsDone(d, j)
  BY <1>4 DEF IsDone, GrantOf, Busy
<1>5. CASE IsAccepted(d, j)
  BY <1>5 DEF IsAccepted, GrantOf, Busy
<1> QED
  BY <1>1, <1>2, <1>3, <1>4, <1>5
  DEF JobsMove, AllCarried, Others, GetsClaim, Starts, IsDone, IsAccepted

\* Jobs stay apart: a new grant is nobody else's.
LEMMA ApartKeeps ==
  ASSUME JobsInv, Apart, JobsMove
  PROVE  Apart'
<1> SUFFICES ASSUME NEW c \in Clients, NEW d \in Clients, NEW i \in Slots, NEW j \in Slots,
                    Job(c, i)'.phase \in Busy, Job(d, j)'.phase \in Busy,
                    GrantOf(c, i)' = GrantOf(d, j)'
             PROVE  c = d /\ i = j
  BY DEF Apart
<1>1. CASE GetsClaim(c, i) /\ GetsClaim(d, j)
  <2> SUFFICES ASSUME c # d \/ i # j PROVE FALSE
    OBVIOUS
  <2>1. Job(d, j)'.phase \in Free \/ SameJob(Job(d, j), Job(d, j)')
    BY <1>1 DEF GetsClaim, Others
  <2>2. SameJob(Job(d, j), Job(d, j)')
    BY <2>1 DEF Busy, Free
  <2>3. Job(d, j).phase \in Busy /\ GrantOf(d, j)' = GrantOf(d, j)
    BY <2>2 DEF SameJob, GrantOf
  <2>4. GrantOf(d, j) \in grants
    BY <2>3 DEF JobsInv, JobInv
  <2> QED BY <1>1, <2>3, <2>4 DEF GetsClaim
<1>2. CASE GetsClaim(c, i) /\ ~GetsClaim(d, j)
  <2>1. Job(d, j).phase \in Busy /\ GrantOf(d, j)' = GrantOf(d, j)
    BY <1>2, BusyHad
  <2>2. GrantOf(d, j) \in grants
    BY <2>1 DEF JobsInv, JobInv
  <2> QED BY <1>2, <2>1, <2>2 DEF GetsClaim
<1>3. CASE ~GetsClaim(c, i) /\ GetsClaim(d, j)
  <2>1. Job(c, i).phase \in Busy /\ GrantOf(c, i)' = GrantOf(c, i)
    BY <1>3, BusyHad
  <2>2. GrantOf(c, i) \in grants
    BY <2>1 DEF JobsInv, JobInv
  <2> QED BY <1>3, <2>1, <2>2 DEF GetsClaim
<1>4. CASE ~GetsClaim(c, i) /\ ~GetsClaim(d, j)
  <2>1. Job(c, i).phase \in Busy /\ GrantOf(c, i)' = GrantOf(c, i)
    BY <1>4, BusyHad
  <2>2. Job(d, j).phase \in Busy /\ GrantOf(d, j)' = GrantOf(d, j)
    BY <1>4, BusyHad
  <2> QED BY <2>1, <2>2 DEF Apart
<1> QED BY <1>1, <1>2, <1>3, <1>4

\* Executions stay within the grants.  An unsafe action that was started has
\* its one grant already, so no other job is granted it, then or later.
LEMMA ExecsKeep ==
  ASSUME NodeInv, NodeInv', NodeKeeps, SysTypeOK, SysTypeOK', JobsInv, Apart, ExecsInv, JobsMove
  PROVE  ExecsInv'
<1> SUFFICES ASSUME NEW a \in Actions PROVE ExecInv(a)'
  BY DEF ExecsInv
<1>0. ExecInv(a) /\ executions \in [Actions -> Nat] /\ executions'[a] \in Nat
  BY DEF ExecsInv, SysTypeOK
<1>1. \A g, h \in GrantsOf(a)' : row'[a].policy = "unsafe" => g = h
  BY DEF NodeInv, ClaimInv
<1>2. executions[a] # 0 => row'[a].policy = row[a].policy /\ GrantsOf(a)' # {}
  BY <1>0 DEF ExecInv, NodeKeeps
\* A job granted the action after the step was granted it before, or only now.
<1>3. ASSUME NEW d \in Clients, NEW j \in Slots, Job(d, j)'.phase = "granted", Job(d, j)'.action = a
      PROVE  GetsClaim(d, j) \/ (Job(d, j).phase = "granted" /\ Job(d, j).action = a)
  BY <1>3 DEF JobsMove, AllCarried, Others, GetsClaim, Starts, IsDone, IsAccepted, SameJob, Free
\* An unsafe action that was executed is not granted anew.
<1>4. ASSUME NEW d \in Clients, NEW j \in Slots, GetsClaim(d, j), Job(d, j)'.action = a,
             row'[a].policy = "unsafe", executions[a] # 0
      PROVE  FALSE
  <2>1. GrantOf(d, j)' \in GrantsOf(a)' /\ GrantOf(d, j)' \notin grants
    BY <1>4 DEF GetsClaim, GrantsOf, GrantOf
  <2>2. PICK g \in GrantsOf(a) : TRUE
    BY <1>0, <1>4 DEF ExecInv
  <2>3. g \in grants /\ g \in GrantsOf(a)'
    BY <2>2 DEF GrantsOf, NodeKeeps
  <2> QED BY <1>1, <1>4, <2>1, <2>3
<1>5. CASE executions' = executions
  <2>1. ASSUME row'[a].policy = "unsafe", executions[a] # 0, NEW d \in Clients, NEW j \in Slots,
               Job(d, j)'.phase = "granted", Job(d, j)'.action = a
        PROVE  FALSE
    <3>1. ~(Job(d, j).phase = "granted" /\ Job(d, j).action = a)
      BY <1>0, <1>2, <2>1 DEF ExecInv
    <3> QED BY <1>3, <1>4, <2>1, <3>1
  <2>2. executions[a] # 0 => GrantsOf(a)' # {}
    BY <1>2
  <2>3. row'[a].policy = "unsafe" => executions[a] <= 1
    BY <1>0, <1>2 DEF ExecInv
  <2> QED BY <1>5, <2>1, <2>2, <2>3 DEF ExecInv
<1>6. ASSUME NEW c \in Clients, NEW i \in Slots, Starts(c, i) PROVE ExecInv(a)'
  <2>1. Job(c, i).action \in Actions /\ Job(c, i).phase \in Busy /\ GrantOf(c, i) \in grants
    BY <1>6 DEF Starts, Busy, SysTypeOK, JobsInv, JobInv
  <2>2. CASE Job(c, i).action # a
    <3>1. executions'[a] = executions[a]
      BY <1>0, <1>6, <2>2 DEF Starts
    <3>2. ASSUME row'[a].policy = "unsafe", executions[a] # 0, NEW d \in Clients, NEW j \in Slots,
                 Job(d, j)'.phase = "granted", Job(d, j)'.action = a
          PROVE  FALSE
      <4>1. ~(Job(d, j).phase = "granted" /\ Job(d, j).action = a)
        BY <1>0, <1>2, <3>2 DEF ExecInv
      <4> QED BY <1>3, <1>4, <3>2, <4>1
    <3> QED BY <1>0, <1>2, <3>1, <3>2 DEF ExecInv
  <2>3. CASE Job(c, i).action = a
    <3>1. executions'[a] = executions[a] + 1
      BY <1>0, <1>6, <2>3 DEF Starts
    <3>2. GrantOf(c, i) \in GrantsOf(a) /\ GrantOf(c, i) \in GrantsOf(a)'
      BY <2>1, <2>3 DEF GrantsOf, GrantOf, NodeKeeps
    <3>3. row'[a].policy = row[a].policy
      BY <3>2 DEF NodeKeeps
    <3>4. row[a].policy = "unsafe" => executions[a] = 0
      BY <1>0, <1>6, <2>3 DEF ExecInv, Starts
    <3>5. ASSUME row'[a].policy = "unsafe", NEW d \in Clients, NEW j \in Slots,
                 Job(d, j)'.phase = "granted", Job(d, j)'.action = a
          PROVE  FALSE
      <4>1. d # c \/ j # i
        BY <1>6, <3>5 DEF Starts
      <4>2. Job(d, j).phase = "granted" /\ Job(d, j).action = a
        BY <1>6, <3>5, <4>1 DEF Starts, Others, SameJob, Free
      <4>3. GrantOf(d, j) \in GrantsOf(a) /\ Job(d, j).phase \in Busy
        BY <4>2 DEF JobsInv, JobInv, Busy, GrantsOf, GrantOf
      <4>4. GrantOf(d, j) = GrantOf(c, i)
        BY <3>2, <3>3, <3>5, <4>3 DEF NodeInv, ClaimInv
      <4> QED BY <2>1, <4>1, <4>3, <4>4 DEF Apart
    <3> QED BY <1>0, <3>1, <3>2, <3>3, <3>4, <3>5 DEF ExecInv
  <2> QED BY <2>2, <2>3
<1> QED BY <1>5, <1>6 DEF JobsMove, GetsClaim, IsDone, IsAccepted

\* What is committed stays the answer of its action.
LEMMA CommitsKeep ==
  ASSUME NodeKeeps, SysTypeOK, SysTypeOK', JobsInv, CommitImpliesAccepted,
         \A d \in committed' :
           \/ d \in committed
           \/ \E c \in Clients, i \in Slots :
                /\ Job(c, i).phase = "accepted"
                /\ d = [action |-> Job(c, i).action, response |-> Job(c, i).response]
  PROVE  CommitImpliesAccepted'
<1> SUFFICES ASSUME NEW d \in committed'
             PROVE  row'[d.action].state = d.response.outcome /\ row'[d.action].response = d.response
  BY DEF CommitImpliesAccepted
<1>1. d.action \in Actions /\ d.response.outcome \in Outcomes
  BY DEF SysTypeOK, Responses
<1>2. row[d.action].state = d.response.outcome /\ row[d.action].response = d.response
  <2>1. CASE d \in committed
    BY <2>1 DEF CommitImpliesAccepted
  <2>2. ASSUME NEW c \in Clients, NEW i \in Slots, Job(c, i).phase = "accepted",
               d = [action |-> Job(c, i).action, response |-> Job(c, i).response]
        PROVE  row[d.action].state = d.response.outcome /\ row[d.action].response = d.response
    BY <2>2 DEF JobsInv, JobInv
  <2> QED BY <2>1, <2>2
<1> QED BY <1>1, <1>2 DEF NodeKeeps

-----------------------------------------------------------------------------
(* The desktop's variables as one step writes them.                          *)

GoodReply(r) ==
  /\ r.cursor \in Nat \cup {Snapshot}
  /\ IsFiniteSet(DOMAIN r.entries) /\ DOMAIN r.entries \subseteq Nat
  /\ \A p \in DOMAIN r.entries : r.entries[p] \in Changes

LoopsSound == consumer \in [Clients -> Loops] /\ \A c \in Clients : Sound(consumer[c])

RepliesGood == reply \in [Clients -> {reply[c] : c \in Clients}] /\ \A c \in Clients : GoodReply(reply[c])

CountsTyped ==
  /\ executions \in [Actions -> Nat]
  /\ committed \subseteq [action : Actions, response : Responses]
  /\ losses \in Nat

\* The types, by party.
LEMMA TypesByParty == SysTypeOK <=> LoopsSound /\ RepliesGood /\ CountsTyped
BY DEF SysTypeOK, LoopsSound, RepliesGood, CountsTyped, GoodReply, Sound, Job

\* One consumer is written.
LEMMA ConsumerSet ==
  ASSUME LoopsSound, NEW c \in Clients, NEW k, Sound(k), SetConsumer(c, k)
  PROVE  /\ LoopsSound'
         /\ \A i \in Slots : Job(c, i)' = k.slot[i]
         /\ \A d \in Clients, i \in Slots : d # c => Job(d, i)' = Job(d, i)
<1>1. consumer' = [consumer EXCEPT ![c] = k] /\ k \in Loops
  BY DEF SetConsumer, Sound
<1>2. consumer' \in [Clients -> Loops]
  BY <1>1 DEF LoopsSound
<1>3. \A d \in Clients : consumer'[d] = IF d = c THEN k ELSE consumer[d]
  BY <1>1 DEF LoopsSound
<1> QED BY <1>2, <1>3 DEF LoopsSound, Job

\* A consumer whose jobs are all carried.
LEMMA ConsumerCarries ==
  ASSUME LoopsSound, NEW c \in Clients, NEW k, Sound(k), SetConsumer(c, k), Carries(consumer[c], k)
  PROVE  LoopsSound' /\ AllCarried
<1>1. /\ LoopsSound' /\ \A i \in Slots : Job(c, i)' = k.slot[i]
      /\ \A d \in Clients, i \in Slots : d # c => Job(d, i)' = Job(d, i)
  BY ConsumerSet
<1>2. \A i \in Slots : Job(c, i)'.phase \in Free \/ SameJob(Job(c, i), Job(c, i)')
  BY <1>1 DEF Carries, Job
<1>3. \A d \in Clients, i \in Slots : d # c => SameJob(Job(d, i), Job(d, i)')
  BY <1>1 DEF SameJob
<1> QED BY <1>1, <1>2, <1>3 DEF AllCarried

WithJob(k, i, job) == [k EXCEPT !.slot = [k.slot EXCEPT ![i] = job]]

\* A loop's state with another job in one slot.
LEMMA WithJobIs ==
  ASSUME NEW k, Sound(k), NEW i \in Slots, NEW job \in Jobs, job.action \in Actions
  PROVE  /\ Sound(WithJob(k, i, job))
         /\ \A j \in Slots : WithJob(k, i, job).slot[j] = IF j = i THEN job ELSE k.slot[j]
<1>0. k \in Loops /\ k.slot \in [Slots -> Jobs]
  BY LoopHas DEF Sound
<1>1. PICK slot : slot = [k.slot EXCEPT ![i] = job]
  OBVIOUS
<1>2. slot \in [Slots -> Jobs] /\ \A j \in Slots : slot[j] = IF j = i THEN job ELSE k.slot[j]
  BY <1>0, <1>1
<1>3. WithJob(k, i, job) \in Loops /\ WithJob(k, i, job).slot = slot
  BY <1>0, <1>1, <1>2 DEF WithJob, Loops
<1> QED BY <1>2, <1>3 DEF Sound

\* A job that goes on, seen in the consumer's state.
LEMMA JobSet ==
  ASSUME LoopsSound, NEW c \in Clients, NEW i \in Slots, NEW job \in Jobs, job.action \in Actions,
         SetConsumer(c, WithJob(consumer[c], i, job))
  PROVE  LoopsSound' /\ Others(c, i) /\ Job(c, i)' = job
<1> DEFINE k == WithJob(consumer[c], i, job)
<1>1. Sound(k) /\ \A j \in Slots : k.slot[j] = IF j = i THEN job ELSE Job(c, j)
  BY WithJobIs DEF LoopsSound, Job
<1> HIDE DEF k
<1>2. SetConsumer(c, k)
  BY DEF k
<1>3. /\ LoopsSound' /\ \A j \in Slots : Job(c, j)' = k.slot[j]
      /\ \A d \in Clients, j \in Slots : d # c => Job(d, j)' = Job(d, j)
  BY <1>1, <1>2, ConsumerSet
<1> QED BY <1>1, <1>3 DEF Others, SameJob

\* What a consumer's slots hold.
LEMMA JobType ==
  ASSUME LoopsSound, NEW c \in Clients, NEW i \in Slots
  PROVE  Job(c, i) \in Jobs /\ (Job(c, i).phase # "idle" => Job(c, i).action \in Actions)
BY LoopHas DEF LoopsSound, Sound, Job

\* One answer is written.
LEMMA ReplySet ==
  ASSUME RepliesGood, NEW c \in Clients, NEW r, GoodReply(r), reply' = [reply EXCEPT ![c] = r]
  PROVE  RepliesGood'
<1>1. \A d \in Clients : reply'[d] = IF d = c THEN r ELSE reply[d]
  BY DEF RepliesGood
<1>2. reply' \in [Clients -> {reply'[d] : d \in Clients}]
  BY <1>1 DEF RepliesGood
<1> QED BY <1>1, <1>2 DEF RepliesGood

\* No answer is a good one.
LEMMA NoReplyGood == GoodReply(NoReply)
BY FS_EmptySet DEF GoodReply, NoReply

\* What a poll answers with: the outstanding rows or a page of the log.
LEMMA AnswerGood ==
  ASSUME LoopsSound, NEW c \in Clients, NEW rows \in [Actions -> Rows], NEW log \in Seq(Changes)
  PROVE  GoodReply(Answer(c, rows, log))
<1> DEFINE after == consumer[c].cursor
           page == Page(c, after, log)
           ids == SetToSeq({a \in Actions : Live(rows[a]) /\ rows[a].controller = c})
<1>1. Len(log) \in Nat
  OBVIOUS
<1>2. ids \in Seq(Actions)
  <2>1. IsFiniteSet({a \in Actions : Live(rows[a]) /\ rows[a].controller = c})
    BY FiniteActions, FS_Subset
  <2>2. ids \in Seq({a \in Actions : Live(rows[a]) /\ rows[a].controller = c})
    BY <2>1, SetToSeqType
  <2> HIDE DEF ids
  <2> QED BY <2>2
<1>3. CASE after = Snapshot
  <2>1. Answer(c, rows, log) = [entries |-> [i \in DOMAIN ids |-> Entry(ids[i], rows[ids[i]])],
                                cursor |-> Len(log)]
    BY <1>3 DEF Answer, Outstanding
  <2> HIDE DEF ids
  <2>2. DOMAIN ids \subseteq Nat /\ IsFiniteSet(DOMAIN ids) /\ \A i \in DOMAIN ids : ids[i] \in Actions
    <3>1. Len(ids) \in Nat /\ DOMAIN ids = 1..Len(ids)
      BY <1>2
    <3>2. IsFiniteSet(1..Len(ids))
      BY <3>1, FS_Interval
    <3> QED BY <1>2, <3>1, <3>2
  <2>3. \A i \in DOMAIN ids : Entry(ids[i], rows[ids[i]]) \in Changes
    BY <2>2 DEF Entry, Changes, Rows
  <2> QED BY <1>1, <2>1, <2>2, <2>3 DEF GoodReply
<1>4. CASE after # Snapshot /\ page = {}
  <2>1. Answer(c, rows, log) = [entries |-> <<>>, cursor |-> Len(log)]
    BY <1>4 DEF Answer
  <2> QED BY <1>1, <2>1, FS_EmptySet DEF GoodReply
<1>5. CASE after # Snapshot /\ page # {}
  <2>1. Answer(c, rows, log) = [entries |-> [p \in page |-> log[p]], cursor |-> Highest(page)]
    BY <1>5 DEF Answer
  <2>2. page \subseteq 1..Len(log)
    <3>1. after \in Nat
      BY <1>5 DEF LoopsSound, Loops
    <3> HIDE DEF after
    <3>2. after + 1..Len(log) \subseteq 1..Len(log)
      BY <1>1, <3>1
    <3> QED BY <3>2 DEF Page, Unread, after
  <2> HIDE DEF page
  <2>3. page \subseteq Nat /\ IsFiniteSet(page) /\ \A p \in page : log[p] \in Changes
    <3>1. IsFiniteSet(1..Len(log))
      BY <1>1, FS_Interval
    <3>2. IsFiniteSet(page)
      BY <2>2, <3>1, FS_Subset
    <3> QED BY <2>2, <3>2
  <2>4. Highest(page) \in Nat
    BY <2>3, HighestIs
  <2>5. PICK entries : entries = [p \in page |-> log[p]]
    OBVIOUS
  <2>6. DOMAIN entries = page /\ \A p \in page : entries[p] \in Changes
    BY <2>3, <2>5
  <2>7. Answer(c, rows, log).entries = entries /\ Answer(c, rows, log).cursor = Highest(page)
    BY <2>1, <2>5
  <2> QED BY <2>3, <2>4, <2>6, <2>7 DEF GoodReply
<1> QED BY <1>3, <1>4, <1>5

-----------------------------------------------------------------------------
(* Steps of the composition.                                                 *)

CommitsOnlyAccepted ==
  \A d \in committed' :
    \/ d \in committed
    \/ \E c \in Clients, i \in Slots :
         /\ Job(c, i).phase = "accepted"
         /\ d = [action |-> Job(c, i).action, response |-> Job(c, i).response]

\* What every step of the composition is: a step of the channel (or none), and
\* a move of the jobs.
SysMove == [Next]_vars /\ SysTypeOK' /\ JobsMove /\ CommitsOnlyAccepted

\* The types after a step, by party.
LEMMA TypesNext ==
  ASSUME LoopsSound', RepliesGood', CountsTyped'
  PROVE  SysTypeOK'
BY DEF SysTypeOK, LoopsSound, RepliesGood, CountsTyped, GoodReply, Sound, Job

\* A step that leaves the desktops' jobs and books alone.
LEMMA NothingMoves ==
  ASSUME SysInv, [Next]_vars, UNCHANGED <<consumer, executions, committed>>, RepliesGood', losses' \in Nat
  PROVE  SysMove
<1>1. LoopsSound /\ CountsTyped
  BY TypesByParty DEF SysInv
<1>2. LoopsSound' /\ CountsTyped'
  BY <1>1 DEF LoopsSound, CountsTyped, Sound
<1>3. AllCarried
  BY DEF AllCarried, SameJob, Job
<1>4. SysTypeOK'
  BY <1>2, TypesNext
<1>5. JobsMove /\ CommitsOnlyAccepted
  BY <1>3 DEF JobsMove, CommitsOnlyAccepted
<1> QED BY <1>4, <1>5 DEF SysMove

\* A step in which a consumer carries its jobs, and only what a job had accepted
\* is committed.
LEMMA OneCarriesOn ==
  ASSUME SysInv, [Next]_vars, NEW c \in Clients, NEW k, Sound(k), SetConsumer(c, k),
         Carries(consumer[c], k), RepliesGood', CountsTyped', executions' = executions, CommitsOnlyAccepted
  PROVE  SysMove
<1>1. LoopsSound
  BY TypesByParty DEF SysInv
<1>2. LoopsSound' /\ AllCarried
  BY <1>1, ConsumerCarries
<1>3. SysTypeOK'
  BY <1>2, TypesNext
<1> QED BY <1>2, <1>3 DEF SysMove, JobsMove

\* A step in which a consumer carries its jobs, and nothing is committed.
LEMMA OneCarries ==
  ASSUME SysInv, [Next]_vars, NEW c \in Clients, NEW k, Sound(k), SetConsumer(c, k),
         Carries(consumer[c], k), RepliesGood', UNCHANGED <<executions, committed>>, losses' \in Nat
  PROVE  SysMove
<1>1. CountsTyped
  BY TypesByParty DEF SysInv
<1>2. CountsTyped'
  BY <1>1 DEF CountsTyped
<1>3. CommitsOnlyAccepted
  BY DEF CommitsOnlyAccepted
<1> QED BY <1>2, <1>3, OneCarriesOn

\* The answers on their way stay good when the step leaves them alone.
LEMMA RepliesKept ==
  ASSUME RepliesGood, reply' = reply
  PROVE  RepliesGood'
BY DEF RepliesGood, GoodReply

\* A step in which one job moves.
LEMMA OneMoves ==
  ASSUME SysInv, [Next]_vars, LoopsSound', UNCHANGED <<reply, committed, losses>>,
         executions' \in [Actions -> Nat], NEW c \in Clients, NEW i \in Slots,
         GetsClaim(c, i) \/ Starts(c, i) \/ IsDone(c, i) \/ IsAccepted(c, i)
  PROVE  SysMove
<1>1. RepliesGood /\ CountsTyped
  BY TypesByParty DEF SysInv
<1>2. RepliesGood' /\ CountsTyped'
  BY <1>1, RepliesKept DEF CountsTyped
<1>3. SysTypeOK'
  BY <1>2, TypesNext
<1>4. JobsMove /\ CommitsOnlyAccepted
  BY DEF JobsMove, CommitsOnlyAccepted
<1> QED BY <1>3, <1>4 DEF SysMove

\* Steps of a consumer's poll loop.
LEMMA LoopStepIs ==
  ASSUME SysInv, NEW c \in Clients, LoopStep(c)
  PROVE  SysMove
<1>0. LoopsSound /\ RepliesGood /\ Sound(consumer[c]) /\ TypeOK /\ losses \in Nat
  BY TypesByParty DEF SysInv, NodeInv, LoopsSound, CountsTyped
<1>1. CASE PollNow(c)
  <2>1. [Next]_vars
    BY <1>1 DEF PollNow, Next, HostStep
  <2>2. row' \in [Actions -> Rows] /\ changes' \in Seq(Changes)
    BY <1>0, <2>1, TypeStep DEF TypeOK
  <2>3. GoodReply(Answer(c, row', changes'))
    BY <1>0, <2>2, AnswerGood
  <2>4. RepliesGood'
    BY <1>0, <1>1, <2>3, ReplySet DEF PollNow
  <2> QED BY <1>0, <1>1, <2>1, <2>4, NothingMoves DEF PollNow
<1>2. CASE PollAfterWait(c)
  <2>1. GoodReply(Answer(c, row, changes))
    BY <1>0, AnswerGood DEF TypeOK
  <2>2. RepliesGood'
    BY <1>0, <1>2, <2>1, ReplySet DEF PollAfterWait
  <2> QED BY <1>0, <1>2, <2>2, NothingMoves DEF PollAfterWait
<1>3. CASE PollReceived(c)
  <2>1. PICK k : k = Consumed(consumer[c], reply[c].entries)
    OBVIOUS
  <2>2. GoodReply(reply[c])
    BY <1>0 DEF RepliesGood
  <2>3. Sound(k) /\ Carries(consumer[c], k)
    BY <1>0, <2>1, <2>2, ConsumedIs DEF GoodReply
  <2>4. PICK m : m = [k EXCEPT !.cursor = reply[c].cursor]
    OBVIOUS
  <2>5. m \in Loops /\ m.slot = k.slot
    BY <2>2, <2>3, <2>4 DEF Sound, Loops, GoodReply
  <2>6. Sound(m) /\ Carries(consumer[c], m)
    BY <2>3, <2>5, SlotsCarried, CarriesOn
  <2>7. SetConsumer(c, m) /\ UNCHANGED <<vars, executions, committed, losses>>
    BY <1>3, <2>1, <2>4 DEF PollReceived
  <2>8. RepliesGood'
    BY <1>0, <1>3, NoReplyGood, ReplySet DEF PollReceived
  <2> QED BY <1>0, <2>6, <2>7, <2>8, OneCarries
<1>4. CASE PollLost(c)
  <2>1. PICK m : m = [consumer[c] EXCEPT !.cursor = Snapshot, !.known = {}]
    OBVIOUS
  <2>2. m \in Loops /\ m.slot = consumer[c].slot
    BY <1>0, <2>1 DEF Sound, Loops
  <2>3. Sound(m) /\ Carries(consumer[c], m)
    BY <1>0, <2>2, SlotsCarried
  <2>4. SetConsumer(c, m) /\ UNCHANGED <<vars, executions, committed>> /\ losses' \in Nat
    BY <1>0, <1>4, <2>1 DEF PollLost
  <2>5. RepliesGood'
    BY <1>0, <1>4, NoReplyGood, ReplySet DEF PollLost
  <2> QED BY <2>3, <2>4, <2>5, OneCarries
<1>5. CASE Reconnect(c)
  <2>1. SetConsumer(c, Fresh) /\ UNCHANGED <<vars, executions, committed>> /\ losses' \in Nat
    BY <1>0, <1>5 DEF Reconnect
  <2>2. RepliesGood'
    BY <1>0, <1>5, NoReplyGood, ReplySet DEF Reconnect
  <2> QED BY <2>1, <2>2, FreshIs, OneCarries
<1> QED BY <1>1, <1>2, <1>3, <1>4, <1>5 DEF LoopStep
\* A job that ends, with the action forgotten or not.
LEMMA JobEnds ==
  ASSUME SysInv, NEW c \in Clients, NEW i \in Slots, Job(c, i).phase # "idle"
  PROVE  /\ Sound(EndJob(consumer[c], i)) /\ Carries(consumer[c], EndJob(consumer[c], i))
         /\ Sound(EndJob(Forget(consumer[c], Job(c, i).action), i))
         /\ Carries(consumer[c], EndJob(Forget(consumer[c], Job(c, i).action), i))
<1>1. Sound(consumer[c]) /\ Job(c, i).action \in Actions
  BY TypesByParty, JobType DEF SysInv, LoopsSound
<1>2. PICK f : f = Forget(consumer[c], Job(c, i).action)
  OBVIOUS
<1>3. Sound(f) /\ Carries(consumer[c], f) /\ f.slot = consumer[c].slot
  BY <1>1, <1>2, ForgetIs
<1>4. f.slot[i].action \in Actions /\ consumer[c].slot[i].action \in Actions
  BY <1>1, <1>3 DEF Job
<1>5. Sound(EndJob(consumer[c], i)) /\ Carries(consumer[c], EndJob(consumer[c], i))
  BY <1>1, <1>4, EndJobIs
<1>6. Sound(EndJob(f, i)) /\ Carries(f, EndJob(f, i))
  BY <1>3, <1>4, EndJobIs
<1>7. Carries(consumer[c], EndJob(f, i))
  BY <1>3, <1>6, CarriesOn
<1> QED BY <1>2, <1>5, <1>6, <1>7

\* Steps that end a job, with no step of the channel.
LEMMA EndStepIs ==
  ASSUME SysInv, NEW c \in Clients, NEW i \in Slots,
         \/ ClaimGranted(c, i) /\ Job(c, i).aborted
         \/ ClaimRefused(c, i) \/ ClaimLost(c, i)
         \/ ExecutorDone(c, i) /\ Job(c, i).aborted
         \/ ResponseRejected(c, i) \/ ResponseLost(c, i)
  PROVE  SysMove
<1>0. RepliesGood /\ losses \in Nat
  BY TypesByParty DEF SysInv, CountsTyped
<1>1. Job(c, i).phase # "idle"
  BY DEF ClaimGranted, ClaimRefused, ClaimLost, ExecutorDone, ResponseRejected, ResponseLost
<1>2. PICK k : k = EndJob(consumer[c], i)
  OBVIOUS
<1>3. PICK m : m = EndJob(Forget(consumer[c], Job(c, i).action), i)
  OBVIOUS
<1>4. /\ UNCHANGED <<vars, reply, executions, committed>>
      /\ losses' = losses \/ losses' = losses + 1
      /\ SetConsumer(c, k) \/ SetConsumer(c, m)
  BY <1>2, <1>3 DEF ClaimGranted, ClaimRefused, ClaimLost, ExecutorDone, ResponseRejected, ResponseLost
<1>5. Sound(k) /\ Carries(consumer[c], k) /\ Sound(m) /\ Carries(consumer[c], m)
  BY <1>1, <1>2, <1>3, JobEnds
<1>6. RepliesGood' /\ losses' \in Nat
  BY <1>0, <1>4, RepliesKept
<1> QED BY <1>4, <1>5, <1>6, OneCarries

\* An accepted response is committed, and its job ends.
LEMMA ResponseAcceptedIs ==
  ASSUME SysInv, NEW c \in Clients, NEW i \in Slots, ResponseAccepted(c, i)
  PROVE  SysMove
<1>0. RepliesGood /\ CountsTyped
  BY TypesByParty DEF SysInv
<1>1. Job(c, i).phase = "accepted" /\ Job(c, i).action \in Actions /\ Job(c, i).response \in Responses
  BY DEF ResponseAccepted, SysInv, SysTypeOK, JobsInv, JobInv
<1>2. PICK k : k = EndJob(consumer[c], i)
  OBVIOUS
<1>3. Sound(k) /\ Carries(consumer[c], k)
  BY <1>1, <1>2, JobEnds
<1>4. PICK d : d = [action |-> Job(c, i).action, response |-> Job(c, i).response]
  OBVIOUS
<1>5. SetConsumer(c, k) /\ committed' = committed \cup {d} /\ UNCHANGED <<vars, reply, executions, losses>>
  BY <1>2, <1>4 DEF ResponseAccepted
<1>6. RepliesGood'
  BY <1>0, <1>5, RepliesKept
<1>7. d \in [action : Actions, response : Responses]
  BY <1>1, <1>4
<1>8. CountsTyped'
  BY <1>0, <1>5, <1>7 DEF CountsTyped
<1>9. CommitsOnlyAccepted
  BY <1>1, <1>4, <1>5 DEF CommitsOnlyAccepted
<1> QED BY <1>3, <1>5, <1>6, <1>8, <1>9, OneCarriesOn

\* A job in another phase, which may also hold another token or response.
NewJob(job, phase, token, response) ==
  [job EXCEPT !.phase = phase, !.token = token, !.response = response]

\* Such a job is written: what holds then.
LEMMA PhaseStep ==
  ASSUME LoopsSound, NEW c \in Clients, NEW i \in Slots, NEW phase \in Phases, Job(c, i).action \in Actions,
         NEW token \in Nat, NEW response \in Responses \cup {NoResponse},
         SetConsumer(c, WithJob(consumer[c], i, NewJob(Job(c, i), phase, token, response)))
  PROVE  /\ LoopsSound' /\ Others(c, i)
         /\ Job(c, i)'.phase = phase /\ Job(c, i)'.action = Job(c, i).action
         /\ Job(c, i)'.token = token /\ Job(c, i)'.response = response
<1>1. Job(c, i) \in Jobs
  BY JobType
<1>2. PICK job : job = NewJob(Job(c, i), phase, token, response)
  OBVIOUS
<1>3. /\ job \in Jobs /\ job.phase = phase /\ job.action = Job(c, i).action
      /\ job.token = token /\ job.response = response
  BY <1>1, <1>2 DEF Jobs, NewJob
<1>4. LoopsSound' /\ Others(c, i) /\ Job(c, i)' = job
  BY <1>2, <1>3, JobSet
<1> QED BY <1>3, <1>4

\* The three ways the code writes a phase.
WithToken(c, i, phase, token) == [SetPhase(c, i, phase) EXCEPT !.slot[i].token = token]

WithResponse(c, i, phase, response) == [SetPhase(c, i, phase) EXCEPT !.slot[i].response = response]

\* A phase alone.
LEMMA PhaseMerely ==
  ASSUME LoopsSound, NEW c \in Clients, NEW i \in Slots, NEW phase \in Phases, Job(c, i).action \in Actions
  PROVE  SetPhase(c, i, phase) = WithJob(consumer[c], i, NewJob(Job(c, i), phase, Job(c, i).token, Job(c, i).response))
<1>1. consumer[c] \in Loops /\ consumer[c].slot \in [Slots -> Jobs] /\ Job(c, i) \in Jobs
  BY LoopHas, JobType DEF LoopsSound, Sound
<1> QED BY <1>1 DEF SetPhase, WithJob, NewJob, Job, Loops, Jobs

\* A phase with a token.
LEMMA TokenWritten ==
  ASSUME LoopsSound, NEW c \in Clients, NEW i \in Slots, NEW phase \in Phases, Job(c, i).action \in Actions,
         NEW token \in Nat
  PROVE  WithToken(c, i, phase, token) = WithJob(consumer[c], i, NewJob(Job(c, i), phase, token, Job(c, i).response))
<1>1. consumer[c] \in Loops /\ consumer[c].slot \in [Slots -> Jobs] /\ Job(c, i) \in Jobs
  BY LoopHas, JobType DEF LoopsSound, Sound
<1> QED BY <1>1 DEF WithToken, SetPhase, WithJob, NewJob, Job, Loops, Jobs

\* A phase with a response.
LEMMA ResponseWritten ==
  ASSUME LoopsSound, NEW c \in Clients, NEW i \in Slots, NEW phase \in Phases, Job(c, i).action \in Actions,
         NEW response \in Responses
  PROVE  WithResponse(c, i, phase, response) = WithJob(consumer[c], i, NewJob(Job(c, i), phase, Job(c, i).token, response))
<1>1. consumer[c] \in Loops /\ consumer[c].slot \in [Slots -> Jobs] /\ Job(c, i) \in Jobs
  BY LoopHas, JobType DEF LoopsSound, Sound
<1> QED BY <1>1 DEF WithResponse, SetPhase, WithJob, NewJob, Job, Loops, Jobs

\* A job moves to another phase with nothing else of it changed.
LEMMA PhaseOnly ==
  ASSUME SysInv, NEW c \in Clients, NEW i \in Slots, NEW phase \in Phases, Job(c, i).phase # "idle",
         SetConsumer(c, SetPhase(c, i, phase))
  PROVE  /\ LoopsSound' /\ Others(c, i)
         /\ Job(c, i)'.phase = phase /\ Job(c, i)'.action = Job(c, i).action
         /\ Job(c, i)'.token = Job(c, i).token /\ Job(c, i)'.response = Job(c, i).response
<1>1. LoopsSound
  BY TypesByParty DEF SysInv
<1>2. Job(c, i) \in Jobs /\ Job(c, i).action \in Actions
  BY <1>1, JobType
<1>3. Job(c, i).token \in Nat /\ Job(c, i).response \in Responses \cup {NoResponse}
  BY <1>2 DEF Jobs
<1>4. SetPhase(c, i, phase) = WithJob(consumer[c], i,
        NewJob(Job(c, i), phase, Job(c, i).token, Job(c, i).response))
  BY <1>1, <1>2, PhaseMerely
<1>5. SetConsumer(c, WithJob(consumer[c], i, NewJob(Job(c, i), phase, Job(c, i).token, Job(c, i).response)))
  BY <1>4
<1> QED BY <1>1, <1>2, <1>3, <1>5, PhaseStep

\* The node hands the action out: under a token no earlier grant has.
LEMMA ClaimIsNew ==
  ASSUME NodeInv, NEW c \in Clients, NEW a \in Actions, NEW v, Claim(c, a, v)
  PROVE  /\ [Next]_vars
         /\ [action |-> a, token |-> row'[a].token, client |-> c] \in grants' \ grants
         /\ row'[a].token \in Nat
<1>1. [Next]_vars
  BY DEF Claim, Next, ControllerStep
<1>2. row' = [Sweep EXCEPT ![a] = Claimed(@)]
      /\ grants' = grants \cup {[action |-> a, token |-> row'[a].token, client |-> c]}
  BY DEF Claim
<1>3. row[a] \in Rows /\ row[a].version \in Nat
  BY DEF NodeInv, TypeOK, Rows
<1>4. row'[a].token = SweptRow(row[a]).version + 1
  BY <1>2 DEF Sweep, Claimed, Updated
<1>5. SweptRow(row[a]).version \in Nat /\ SweptRow(row[a]).version >= row[a].version
  BY <1>3 DEF SweptRow, Cancelled, BackToPending, Updated
<1>6. \A g \in grants : g.action = a => g.token \in Nat /\ g.token <= row[a].version
  BY DEF NodeInv, ClaimInv, GrantsOf, TypeOK, Grants
<1>7. [action |-> a, token |-> row'[a].token, client |-> c] \notin grants
  <2> SUFFICES ASSUME [action |-> a, token |-> row'[a].token, client |-> c] \in grants PROVE FALSE
    OBVIOUS
  <2>1. row'[a].token <= row[a].version
    BY <1>6
  <2> QED BY <1>3, <1>4, <1>5, <2>1
<1> QED BY <1>1, <1>2, <1>4, <1>5, <1>7

\* The node handles a claim.
LEMMA ClaimHandledIs ==
  ASSUME SysInv, NEW c \in Clients, NEW i \in Slots, ClaimHandled(c, i)
  PROVE  SysMove
<1>0. LoopsSound /\ RepliesGood /\ CountsTyped /\ NodeInv
  BY TypesByParty DEF SysInv
<1>1. Job(c, i).phase = "claiming" /\ UNCHANGED <<reply, executions, committed, losses>>
  BY DEF ClaimHandled
<1>2. Job(c, i) \in Jobs /\ Job(c, i).action \in Actions /\ Job(c, i).response \in Responses \cup {NoResponse}
  BY <1>0, <1>1, JobType DEF Jobs
<1>3. RepliesGood' /\ losses' \in Nat /\ executions' \in [Actions -> Nat]
  BY <1>0, <1>1, RepliesKept DEF CountsTyped
<1>4. CASE /\ Claim(c, Job(c, i).action, Job(c, i).version)
           /\ SetConsumer(c, [SetPhase(c, i, "granted") EXCEPT
                                !.slot[i].token = row'[Job(c, i).action].token])
  <2>1. PICK token : token = row'[Job(c, i).action].token
    OBVIOUS
  <2>2. /\ [Next]_vars /\ token \in Nat
        /\ [action |-> Job(c, i).action, token |-> token, client |-> c] \in grants' \ grants
    BY <1>0, <1>2, <1>4, <2>1, ClaimIsNew
  <2>3. SetConsumer(c, WithToken(c, i, "granted", token))
    BY <1>4, <2>1 DEF WithToken
  <2>4. "granted" \in Phases
    BY DEF Phases
  <2>5. WithToken(c, i, "granted", token) =
          WithJob(consumer[c], i, NewJob(Job(c, i), "granted", token, Job(c, i).response))
    BY <1>0, <1>2, <2>2, <2>4, TokenWritten
  <2>6. SetConsumer(c, WithJob(consumer[c], i, NewJob(Job(c, i), "granted", token, Job(c, i).response)))
    BY <2>3, <2>5
  <2>7. /\ LoopsSound' /\ Others(c, i) /\ Job(c, i)'.phase = "granted"
        /\ Job(c, i)'.action = Job(c, i).action /\ Job(c, i)'.token = token
    BY <1>0, <1>2, <2>2, <2>4, <2>6, PhaseStep
  <2>8. GrantOf(c, i)' = [action |-> Job(c, i).action, token |-> token, client |-> c]
    BY <2>7 DEF GrantOf
  <2>9. GetsClaim(c, i)
    BY <1>1, <2>2, <2>7, <2>8 DEF GetsClaim
  <2> QED BY <1>1, <1>3, <2>2, <2>7, <2>9, OneMoves
<1>5. CASE Reconcile /\ SetConsumer(c, SetPhase(c, i, "refused"))
  <2>1. [Next]_vars
    BY <1>5 DEF Next, HostStep
  <2>2. "refused" \in Phases /\ "refused" \in Free
    BY DEF Phases, Free
  <2>3. LoopsSound' /\ Others(c, i) /\ Job(c, i)'.phase = "refused"
    BY <1>1, <1>5, <2>2, PhaseOnly
  <2>4. AllCarried
    BY <2>2, <2>3 DEF AllCarried, Others
  <2>5. SysTypeOK'
    BY <1>0, <1>1, <1>3, <2>3, TypesNext DEF CountsTyped
  <2>6. JobsMove /\ CommitsOnlyAccepted
    BY <1>1, <2>4 DEF JobsMove, CommitsOnlyAccepted
  <2> QED BY <2>1, <2>5, <2>6 DEF SysMove
<1> QED BY <1>4, <1>5 DEF ClaimHandled

\* An execution starts.
LEMMA ExecutionStarts ==
  ASSUME SysInv, NEW c \in Clients, NEW i \in Slots, ClaimGranted(c, i), ~Job(c, i).aborted
  PROVE  SysMove
<1>0. CountsTyped
  BY TypesByParty DEF SysInv
<1>1. /\ Job(c, i).phase = "granted" /\ SetConsumer(c, SetPhase(c, i, "running"))
      /\ executions' = [executions EXCEPT ![Job(c, i).action] = @ + 1]
      /\ UNCHANGED <<vars, reply, committed, losses>>
  BY DEF ClaimGranted
<1>2. /\ LoopsSound' /\ Others(c, i) /\ Job(c, i)'.phase = "running"
      /\ Job(c, i)'.action = Job(c, i).action /\ Job(c, i)'.token = Job(c, i).token
  BY <1>1, PhaseOnly DEF Phases
<1>3. Starts(c, i)
  BY <1>1, <1>2 DEF Starts
<1>4. executions' \in [Actions -> Nat]
  <2>1. executions \in [Actions -> Nat]
    BY <1>0 DEF CountsTyped
  <2>2. PICK a \in Actions : a = Job(c, i).action
    BY <1>1, TypesByParty, JobType DEF SysInv
  <2>3. executions' = [executions EXCEPT ![a] = executions[a] + 1]
    BY <1>1, <2>2
  <2>4. executions[a] + 1 \in Nat
    BY <2>1
  <2>5. \A b \in Actions : executions'[b] \in Nat
    BY <2>1, <2>3, <2>4
  <2> QED BY <2>1, <2>3, <2>5
<1>5. [Next]_vars /\ UNCHANGED <<reply, committed, losses>>
  BY <1>1
<1> QED BY <1>2, <1>3, <1>4, <1>5, OneMoves

\* An executor returned.
LEMMA ExecutorDoneIs ==
  ASSUME SysInv, NEW c \in Clients, NEW i \in Slots, ExecutorDone(c, i), ~Job(c, i).aborted
  PROVE  SysMove
<1>0. LoopsSound /\ CountsTyped
  BY TypesByParty DEF SysInv
<1>1. PICK response \in Responses : SetConsumer(c, WithResponse(c, i, "responding", response))
  BY DEF ExecutorDone, WithResponse
<1>2. Job(c, i).phase = "running" /\ UNCHANGED <<vars, reply, executions, committed, losses>>
  BY DEF ExecutorDone
<1>3. Job(c, i) \in Jobs /\ Job(c, i).action \in Actions /\ Job(c, i).token \in Nat
  BY <1>0, <1>2, JobType DEF Jobs
<1>4. "responding" \in Phases
  BY DEF Phases
<1>5. WithResponse(c, i, "responding", response) =
        WithJob(consumer[c], i, NewJob(Job(c, i), "responding", Job(c, i).token, response))
  BY <1>0, <1>3, <1>4, ResponseWritten
<1>6. SetConsumer(c, WithJob(consumer[c], i, NewJob(Job(c, i), "responding", Job(c, i).token, response)))
  BY <1>1, <1>5
<1>7. /\ LoopsSound' /\ Others(c, i) /\ Job(c, i)'.phase = "responding"
      /\ Job(c, i)'.action = Job(c, i).action /\ Job(c, i)'.token = Job(c, i).token
      /\ Job(c, i)'.response = response
  BY <1>0, <1>3, <1>4, <1>6, PhaseStep
<1>8. IsDone(c, i)
  BY <1>2, <1>7 DEF IsDone
<1>9. executions' \in [Actions -> Nat]
  BY <1>0, <1>2 DEF CountsTyped
<1> QED BY <1>2, <1>7, <1>8, <1>9, OneMoves

\* The node answers a response.
LEMMA RespondHandledIs ==
  ASSUME SysInv, NEW c \in Clients, NEW i \in Slots, RespondHandled(c, i)
  PROVE  SysMove
<1>0. LoopsSound /\ RepliesGood /\ CountsTyped /\ NodeInv /\ JobsInv
  BY TypesByParty DEF SysInv
<1>1. Job(c, i).phase = "responding" /\ UNCHANGED <<reply, executions, committed, losses>>
  BY DEF RespondHandled
<1>2. /\ Job(c, i).action \in Actions /\ Job(c, i).response \in Responses
      /\ GrantOf(c, i) \in grants /\ GrantOf(c, i).action = Job(c, i).action
  BY <1>0, <1>1, JobType DEF JobsInv, JobInv, Busy, GrantOf
<1>3. RepliesGood' /\ executions' \in [Actions -> Nat]
  BY <1>0, <1>1, RepliesKept DEF CountsTyped
<1>4. CASE /\ Respond(GrantOf(c, i), Job(c, i).response) \/ RespondAgain(GrantOf(c, i), Job(c, i).response)
           /\ SetConsumer(c, SetPhase(c, i, "accepted"))
  <2>1. [Next]_vars
    BY <1>2, <1>4 DEF Next, ControllerStep
  <2>2. /\ LoopsSound' /\ Others(c, i) /\ Job(c, i)'.phase = "accepted"
        /\ Job(c, i)'.action = Job(c, i).action /\ Job(c, i)'.token = Job(c, i).token
        /\ Job(c, i)'.response = Job(c, i).response
    BY <1>1, <1>4, PhaseOnly DEF Phases
  <2>3. /\ row'[Job(c, i).action].state = Job(c, i).response.outcome
        /\ row'[Job(c, i).action].response = Job(c, i).response
    <3>1. row[Job(c, i).action] \in Rows /\ row \in [Actions -> Rows]
      BY <1>0, <1>2 DEF NodeInv, TypeOK
    <3>2. CASE Respond(GrantOf(c, i), Job(c, i).response)
      <4>1. row' = [row EXCEPT ![Job(c, i).action] = Finished(@, Job(c, i).response)]
        BY <1>2, <3>2 DEF Respond, Store
      <4> QED BY <1>2, <3>1, <4>1 DEF Finished, Updated
    <3>3. CASE RespondAgain(GrantOf(c, i), Job(c, i).response)
      BY <1>0, <1>2, <3>3 DEF RespondAgain, IsReceipt, NodeInv, Answered
    <3> QED BY <1>4, <3>2, <3>3
  <2>4. IsAccepted(c, i)
    BY <1>1, <2>2, <2>3 DEF IsAccepted
  <2> QED BY <1>1, <1>3, <2>1, <2>2, <2>4, OneMoves
<1>5. CASE UNCHANGED vars /\ SetConsumer(c, SetPhase(c, i, "rejected"))
  <2>1. "rejected" \in Phases /\ "rejected" \in Free
    BY DEF Phases, Free
  <2>2. LoopsSound' /\ Others(c, i) /\ Job(c, i)'.phase = "rejected"
    BY <1>1, <1>5, <2>1, PhaseOnly
  <2>3. AllCarried
    BY <2>1, <2>2 DEF AllCarried, Others
  <2>4. SysTypeOK'
    BY <1>0, <1>1, <1>3, <2>2, TypesNext DEF CountsTyped
  <2>5. JobsMove /\ CommitsOnlyAccepted
    BY <1>1, <2>3 DEF JobsMove, CommitsOnlyAccepted
  <2> QED BY <1>5, <2>4, <2>5 DEF SysMove
<1> QED BY <1>4, <1>5 DEF RespondHandled

\* Steps of a job.
LEMMA JobStepIs ==
  ASSUME SysInv, NEW c \in Clients, NEW i \in Slots, JobStep(c, i)
  PROVE  SysMove
<1>1. CASE Renew(c, i)
  <2>1. RepliesGood /\ CountsTyped
    BY TypesByParty DEF SysInv
  <2>2. GrantOf(c, i) \in grants
    BY <1>1 DEF Renew, SysInv, JobsInv, JobInv, Busy
  <2>3. [Next]_vars /\ UNCHANGED desktopVars
    BY <1>1, <2>2 DEF Renew, Next, ControllerStep
  <2>4. RepliesGood' /\ losses' \in Nat
    BY <2>1, <2>3, RepliesKept DEF desktopVars, CountsTyped
  <2> QED BY <2>3, <2>4, NothingMoves DEF desktopVars
<1> QED
  BY <1>1, ClaimHandledIs, ExecutionStarts, ExecutorDoneIs, RespondHandledIs, ResponseAcceptedIs, EndStepIs
  DEF JobStep

\* The node restarts with fresh consumers.
LEMMA NodeRestartIs ==
  ASSUME SysInv, NodeRestart
  PROVE  SysMove
<1>0. CountsTyped
  BY TypesByParty DEF SysInv
<1>1. /\ Restart /\ losses' = losses + 1 /\ UNCHANGED <<executions, committed>>
      /\ consumer' = [c \in Clients |-> Fresh] /\ reply' = [c \in Clients |-> NoReply]
  BY DEF NodeRestart
<1>2. [Next]_vars
  BY <1>1 DEF Next, HostStep
<1>3. LoopsSound' /\ AllCarried
  <2>1. Sound(Fresh) /\ Fresh \in Loops
    BY FreshIs DEF Sound
  <2>2. \A i \in Slots : Fresh.slot[i].phase \in Free
    BY DEF Fresh, Idle, Free
  <2>3. \A c \in Clients : consumer'[c] = Fresh
    BY <1>1
  <2>4. consumer' \in [Clients -> Loops]
    BY <1>1, <2>1
  <2> QED BY <2>1, <2>2, <2>3, <2>4 DEF LoopsSound, AllCarried, Job
<1>4. RepliesGood'
  BY <1>1, NoReplyGood DEF RepliesGood
<1>5. CountsTyped'
  BY <1>0, <1>1 DEF CountsTyped
<1>6. SysTypeOK'
  BY <1>3, <1>4, <1>5, TypesNext
<1>7. JobsMove /\ CommitsOnlyAccepted
  BY <1>1, <1>3 DEF JobsMove, CommitsOnlyAccepted
<1> QED BY <1>2, <1>6, <1>7 DEF SysMove

\* Every step, or none.
LEMMA StepsAreSysMoves ==
  ASSUME SysInv, [SysNext]_sysVars
  PROVE  SysMove
<1>0. RepliesGood /\ CountsTyped
  BY TypesByParty DEF SysInv
<1>1. ASSUME [Next]_vars, UNCHANGED desktopVars PROVE SysMove
  <2>1. RepliesGood' /\ losses' \in Nat
    BY <1>0, <1>1, RepliesKept DEF desktopVars, CountsTyped
  <2> QED BY <1>1, <2>1, NothingMoves DEF desktopVars
<1>2. CASE NodeStep
  BY <1>1, <1>2 DEF NodeStep, Next, HostStep
<1>3. CASE UNCHANGED sysVars
  BY <1>1, <1>3 DEF sysVars
<1> QED BY <1>2, <1>3, NodeRestartIs, LoopStepIs, JobStepIs DEF SysNext

\* The invariant at first.
LEMMA SysInitHolds ==
  ASSUME SysInit
  PROVE  Init /\ SysInv
<1>1. Init
  BY DEF SysInit
<1>2. NodeInv
  BY <1>1, InitType, ClaimInit DEF NodeInv, Init, Answered, AbsentRow, Outcomes
<1>3. \A c \in Clients : consumer[c] = Fresh
  BY DEF SysInit
<1>4. \A c \in Clients, i \in Slots : Job(c, i).phase = "idle"
  BY <1>3 DEF Job, Fresh, Idle
<1>5. SysTypeOK
  <2>1. Sound(Fresh) /\ Fresh \in Loops
    BY FreshIs DEF Sound
  <2>2. LoopsSound
    BY <1>3, <2>1 DEF SysInit, LoopsSound
  <2>3. RepliesGood
    BY NoReplyGood DEF SysInit, RepliesGood
  <2>4. CountsTyped
    BY DEF SysInit, CountsTyped
  <2> QED BY <2>2, <2>3, <2>4, TypesByParty
<1>6. JobsInv /\ Apart
  BY <1>4 DEF JobsInv, JobInv, Apart, Busy
<1>7. ExecsInv
  BY <1>4 DEF SysInit, ExecsInv, ExecInv
<1>8. CommitImpliesAccepted
  BY DEF SysInit, CommitImpliesAccepted
<1> QED BY <1>1, <1>2, <1>5, <1>6, <1>7, <1>8 DEF SysInv

\* The invariant after a step, which is a step of the channel or none.
LEMMA SysStepKeeps ==
  ASSUME SysInv, [SysNext]_sysVars
  PROVE  SysInv' /\ [Next]_vars
<1>1. SysMove
  BY StepsAreSysMoves
<1>2. NodeInv' /\ NodeKeeps
  BY <1>1, NodeStepKeeps DEF SysMove, SysInv
<1>3. JobsInv'
  BY <1>1, <1>2, JobsKeep DEF SysMove, SysInv
<1>4. Apart'
  BY <1>1, ApartKeeps DEF SysMove, SysInv
<1>5. ExecsInv'
  BY <1>1, <1>2, ExecsKeep DEF SysMove, SysInv
<1>6. CommitImpliesAccepted'
  BY <1>1, <1>2, CommitsKeep DEF SysMove, SysInv, CommitsOnlyAccepted
<1> QED BY <1>1, <1>2, <1>3, <1>4, <1>5, <1>6 DEF SysMove, SysInv

\* The invariant holds throughout.
LEMMA SysInvariant == SysSpec => []SysInv
BY SysInitHolds, SysStepKeeps, PTL DEF SysSpec

-----------------------------------------------------------------------------
(* What the composition promises.                                            *)

\* Under every controller's loop the node runs only steps of its own channel:
\* a desktop claims what it was offered and renews or answers with a claim it
\* was given, so all that is proved of the channel holds of the composition.
THEOREM NodeUnderneath == SysSpec => Init /\ [][Next]_vars
<1>1. SysInit => Init /\ SysInv
  BY SysInitHolds
<1>2. SysInv /\ [SysNext]_sysVars => SysInv' /\ [Next]_vars
  BY SysStepKeeps
<1> QED BY <1>1, <1>2, PTL DEF SysSpec

\* The consumers' state keeps its shape through every page, loss and reconnect.
THEOREM SysTypeCorrect == SysSpec => []SysTypeOK
<1>1. SysInv => SysTypeOK
  BY DEF SysInv
<1> QED BY <1>1, SysInvariant, PTL

\* An action that must not be replayed is executed once at most, on whichever
\* desktop, for any number of desktops, slots, losses and restarts.
THEOREM ExecutedOnce == SysSpec => []UnsafeExecutedOnce
<1>1. SysInv => UnsafeExecutedOnce
  BY DEF SysInv, ExecsInv, ExecInv, UnsafeExecutedOnce
<1> QED BY <1>1, SysInvariant, PTL

\* onResponded runs only for the very response the node holds, now and later.
THEOREM CommitsAccepted == SysSpec => []CommitImpliesAccepted
<1>1. SysInv => CommitImpliesAccepted
  BY DEF SysInv
<1> QED BY <1>1, SysInvariant, PTL

\* Of all executions of an action in progress, one at most can still answer it.
THEOREM OneAuthority == SysSpec => []OneAuthoritativeExecution
<1>1. SysInv => OneAuthoritativeExecution
  <2> SUFFICES ASSUME SysInv, NEW c \in Clients, NEW d \in Clients, NEW i \in Slots, NEW j \in Slots,
                      Job(c, i).phase \in {"running", "responding"},
                      Job(d, j).phase \in {"running", "responding"},
                      MayRespond(GrantOf(c, i)), MayRespond(GrantOf(d, j)),
                      Job(c, i).action = Job(d, j).action
               PROVE  c = d /\ i = j
    BY DEF OneAuthoritativeExecution
  <2>1. GrantOf(c, i) = GrantOf(d, j)
    BY DEF MayRespond, GrantOf
  <2> QED BY <2>1 DEF SysInv, Apart, Busy
<1> QED BY <1>1, SysInvariant, PTL

\* Whatever the desktops' loops do, a tool call of the composition is the abstract
\* one: opened once, handed out at most once if it must not be replayed, and
\* ended once, by an answer of a desktop it was handed to or by a cancellation.
THEOREM SystemImplementsToolCall == SysSpec => ToolCallSpec
<1>1. Init => ToolCall!Init
  BY DEF Init, AbsentRow, PhaseOf, ToolCall!Init
<1>2. SysInv => TypeOK /\ \A a \in Actions : ClaimInv(a)
  BY DEF SysInv, NodeInv
<1>3. TypeOK /\ TypeOK' /\ (\A a \in Actions : ClaimInv(a)) /\ [Next]_vars
        => [ToolCall!Next]_ToolCall!vars
  BY StepsAreMoves, MoveIsCallMove DEF ToolCall!Next
<1> QED
  BY <1>1, <1>2, <1>3, NodeUnderneath, SysInvariant, PTL DEF ToolCallSpec, ToolCall!Spec

\* The agent of the composition is told what its row says, and waits exactly
\* while the row is live, whatever the desktops lose, repeat or start anew.
THEOREM SystemAnswersAgree == SysSpec => [](AnswerAgreesWithRow /\ WaitersMatchLiveRows)
<1>1. Init => \A a \in Actions : WaiterInv(a)
  BY DEF Init, WaiterInv, AbsentRow, Live
<1>2. SysInv => TypeOK /\ \A a \in Actions : ClaimInv(a)
  BY DEF SysInv, NodeInv
<1>3. /\ TypeOK /\ TypeOK' /\ (\A a \in Actions : ClaimInv(a))
      /\ (\A a \in Actions : WaiterInv(a)) /\ [Next]_vars
      => (\A a \in Actions : WaiterInv(a))'
  BY StepsAreWaiterMoves, WaiterInvStep
<1>4. TypeOK /\ (\A a \in Actions : WaiterInv(a)) => AnswerAgreesWithRow /\ WaitersMatchLiveRows
  BY DEF WaiterInv, AnswerAgreesWithRow, WaitersMatchLiveRows, TypeOK
<1> QED BY <1>1, <1>2, <1>3, <1>4, NodeUnderneath, SysInvariant, PTL

=============================================================================
