--------------------------- MODULE TurnQueueProofs ---------------------------
(* Theorems about TurnQueue for every value of its constants.               *)
EXTENDS TurnQueue, FiniteSetTheorems, TLAPS

----------------------------------------------------------------------------
(* The queue as a sequence.                                                 *)

\* No message waits twice.
Distinct(q) == \A i, j \in DOMAIN q : q[i] = q[j] => i = j

LEMMA AppendWaits ==
  ASSUME NEW q \in Seq(Msgs), NEW m \in Msgs
  PROVE  /\ Append(q, m) \in Seq(Msgs)
         /\ Waiting(Append(q, m)) = Waiting(q) \cup {m}
         /\ Distinct(q) /\ m \notin Waiting(q) => Distinct(Append(q, m))
<1>1. /\ Append(q, m) \in Seq(Msgs)
      /\ Len(Append(q, m)) = Len(q) + 1
      /\ DOMAIN Append(q, m) = 1..Len(q) + 1
      /\ DOMAIN q = 1..Len(q)
      /\ Len(q) \in Nat
  OBVIOUS
<1>2. \A i \in 1..Len(q) : Append(q, m)[i] = q[i]
  OBVIOUS
<1>3. Append(q, m)[Len(q) + 1] = m
  OBVIOUS
<1>4. Waiting(Append(q, m)) = Waiting(q) \cup {m}
  BY <1>1, <1>2, <1>3 DEF Waiting
<1>5. Distinct(q) /\ m \notin Waiting(q) => Distinct(Append(q, m))
  BY <1>1, <1>2, <1>3 DEF Distinct, Waiting
<1> QED BY <1>1, <1>4, <1>5

LEMMA TailWaits ==
  ASSUME NEW q \in Seq(Msgs), q # <<>>
  PROVE  /\ Head(q) \in Msgs
         /\ Tail(q) \in Seq(Msgs)
         /\ Waiting(q) = Waiting(Tail(q)) \cup {Head(q)}
         /\ Distinct(q) => Distinct(Tail(q)) /\ Head(q) \notin Waiting(Tail(q))
<1>1. /\ Head(q) = q[1] /\ Head(q) \in Msgs
      /\ Tail(q) \in Seq(Msgs)
      /\ Len(q) \in Nat \ {0}
      /\ DOMAIN q = 1..Len(q)
      /\ DOMAIN Tail(q) = 1..Len(q) - 1
  OBVIOUS
<1>2. \A i \in 1..Len(q) - 1 : Tail(q)[i] = q[i + 1]
  OBVIOUS
<1>3. \A j \in 1..Len(q) : j = 1 \/ (j - 1 \in 1..Len(q) - 1 /\ Tail(q)[j - 1] = q[j])
  BY <1>1, <1>2
<1>4. Waiting(q) = Waiting(Tail(q)) \cup {Head(q)}
  <2>1. Waiting(q) \subseteq Waiting(Tail(q)) \cup {Head(q)}
    BY <1>1, <1>3 DEF Waiting
  <2>2. Waiting(Tail(q)) \cup {Head(q)} \subseteq Waiting(q)
    BY <1>1, <1>2 DEF Waiting
  <2> QED BY <2>1, <2>2
<1>5. Distinct(q) => Distinct(Tail(q)) /\ Head(q) \notin Waiting(Tail(q))
  BY <1>1, <1>2 DEF Distinct, Waiting
<1> QED BY <1>1, <1>4, <1>5

LEMMA Concatenation ==
  ASSUME NEW a \in Seq(Msgs), NEW b \in Seq(Msgs)
  PROVE  /\ a \o b \in Seq(Msgs)
         /\ Len(a \o b) = Len(a) + Len(b)
         /\ DOMAIN (a \o b) = 1..Len(a) + Len(b)
         /\ \A k \in 1..Len(a) : (a \o b)[k] = a[k]
         /\ \A k \in Len(a) + 1..Len(a) + Len(b) : (a \o b)[k] = b[k - Len(a)]
  OBVIOUS

LEMMA WithoutWaits ==
  ASSUME NEW q \in Seq(Msgs), NEW i \in DOMAIN q
  PROVE  /\ q[i] \in Msgs
         /\ Without(q, i) \in Seq(Msgs)
         /\ Waiting(q) = Waiting(Without(q, i)) \cup {q[i]}
         /\ Distinct(q) => Distinct(Without(q, i)) /\ q[i] \notin Waiting(Without(q, i))
<1> DEFINE a == SubSeq(q, 1, i - 1)
           b == SubSeq(q, i + 1, Len(q))
           w == a \o b
<1>1. Len(q) \in Nat /\ DOMAIN q = 1..Len(q) /\ i \in 1..Len(q) /\ q[i] \in Msgs
  OBVIOUS
<1>2. a \in Seq(Msgs) /\ Len(a) = i - 1 /\ \A k \in 1..i - 1 : a[k] = q[k]
  BY <1>1
<1>3. b \in Seq(Msgs) /\ Len(b) = Len(q) - i /\ \A k \in 1..Len(q) - i : b[k] = q[k + i]
  BY <1>1
<1> HIDE DEF a, b
<1>4. w \in Seq(Msgs) /\ Len(w) = Len(q) - 1 /\ DOMAIN w = 1..Len(q) - 1
  <2>1. w \in Seq(Msgs) /\ Len(w) = Len(a) + Len(b)
    BY <1>2, <1>3, Concatenation
  <2>2. Len(w) = Len(q) - 1
    BY <2>1, <1>1, <1>2, <1>3
  <2> QED BY <2>1, <2>2
<1>5. \A k \in 1..Len(q) - 1 : w[k] = IF k < i THEN q[k] ELSE q[k + 1]
  <2> TAKE k \in 1..Len(q) - 1
  <2>1. CASE k < i
    BY <2>1, <1>1, <1>2, <1>3
  <2>2. CASE ~(k < i)
    <3>1. k - (i - 1) \in 1..Len(q) - i /\ k \in Len(a) + 1..Len(a) + Len(b)
      BY <2>2, <1>1, <1>2, <1>3
    <3>4. w[k] = b[k - Len(a)]
      BY <3>1, <1>2, <1>3, Concatenation
    <3>2. b[k - (i - 1)] = q[(k - (i - 1)) + i]
      BY <3>1, <1>3
    <3>3. (k - (i - 1)) + i = k + 1
      BY <1>1
    <3> QED BY <2>2, <3>2, <3>3, <3>4, <1>2
  <2> QED BY <2>1, <2>2
<1> HIDE DEF w
<1>6. Waiting(q) = Waiting(w) \cup {q[i]}
  <2>1. Waiting(w) \cup {q[i]} \subseteq Waiting(q)
    BY <1>1, <1>4, <1>5 DEF Waiting
  <2>2. ASSUME NEW j \in 1..Len(q), j # i PROVE q[j] \in Waiting(w)
    <3>1. CASE j < i
      BY <3>1, <1>1, <1>4, <1>5 DEF Waiting
    <3>2. CASE j > i
      <4>1. j - 1 \in 1..Len(q) - 1 /\ ~(j - 1 < i) /\ (j - 1) + 1 = j
        BY <3>2, <1>1
      <4>2. w[j - 1] = q[j]
        BY <4>1, <1>5
      <4> QED BY <4>1, <4>2, <1>4 DEF Waiting
    <3> QED BY <2>2, <1>1, <3>1, <3>2
  <2> QED BY <2>1, <2>2, <1>1 DEF Waiting
<1>7. ASSUME Distinct(q) PROVE Distinct(w) /\ q[i] \notin Waiting(w)
  <2>1. \A k \in 1..Len(q) - 1 : w[k] # q[i]
    BY <1>7, <1>1, <1>5 DEF Distinct
  <2>2. \A j, k \in 1..Len(q) - 1 : w[j] = w[k] => j = k
    BY <1>7, <1>1, <1>5 DEF Distinct
  <2> QED BY <2>1, <2>2, <1>4 DEF Distinct, Waiting
<1>8. w = Without(q, i)
  BY DEF w, a, b, Without
<1> QED BY <1>1, <1>4, <1>6, <1>7, <1>8

LEMMA WithWaits ==
  ASSUME NEW q \in Seq(Msgs), NEW m \in Msgs, NEW i \in 1..Len(q) + 1
  PROVE  /\ With(q, i, m) \in Seq(Msgs)
         /\ With(q, i, m) # <<>>
         /\ Waiting(With(q, i, m)) = Waiting(q) \cup {m}
         /\ Distinct(q) /\ m \notin Waiting(q) => Distinct(With(q, i, m))
<1> DEFINE a == SubSeq(q, 1, i - 1)
           b == SubSeq(q, i, Len(q))
           w == a \o <<m>> \o b
<1>1. Len(q) \in Nat /\ DOMAIN q = 1..Len(q)
  OBVIOUS
<1>2. a \in Seq(Msgs) /\ Len(a) = i - 1 /\ \A k \in 1..i - 1 : a[k] = q[k]
  BY <1>1
<1>3. b \in Seq(Msgs) /\ Len(b) = Len(q) - i + 1
      /\ \A k \in 1..Len(q) - i + 1 : b[k] = q[k + i - 1]
  BY <1>1
<1> HIDE DEF a, b
<1>4. w \in Seq(Msgs) /\ Len(w) = Len(q) + 1 /\ DOMAIN w = 1..Len(q) + 1
  <2>1. w \in Seq(Msgs) /\ Len(w) = Len(a) + 1 + Len(b)
    BY <1>2, <1>3
  <2>2. Len(w) = Len(q) + 1
    BY <2>1, <1>1, <1>2, <1>3
  <2> QED BY <2>1, <2>2
<1>5. \A k \in 1..Len(q) + 1 :
        w[k] = IF k < i THEN q[k] ELSE IF k = i THEN m ELSE q[k - 1]
  <2> DEFINE c == a \o <<m>>
  <2>1. c \in Seq(Msgs) /\ Len(c) = i /\ c[i] = m /\ \A k \in 1..i - 1 : c[k] = q[k]
    BY <1>1, <1>2
  <2>2. w = c \o b
    OBVIOUS
  <2> HIDE DEF c, w
  <2> TAKE k \in 1..Len(q) + 1
  <2>3. CASE k <= i
    <3>1. w[k] = c[k]
      BY <2>1, <2>2, <2>3, <1>1, <1>3
    <3> QED BY <3>1, <2>1, <2>3, <1>1
  <2>4. CASE k > i
    <3>1. w[k] = b[k - i] /\ k - i \in 1..Len(q) - i + 1
      BY <2>1, <2>2, <2>4, <1>1, <1>3
    <3>2. b[k - i] = q[(k - i) + i - 1]
      BY <3>1, <1>3
    <3>3. (k - i) + i - 1 = k - 1
      BY <1>1
    <3> QED BY <2>4, <3>1, <3>2, <3>3
  <2> QED BY <2>3, <2>4, <1>1
<1> HIDE DEF w
<1>6. Waiting(w) = Waiting(q) \cup {m}
  <2>1. ASSUME NEW k \in 1..Len(q) + 1 PROVE w[k] \in Waiting(q) \cup {m}
    <3>1. CASE k < i
      <4>1. k \in 1..Len(q)
        BY <3>1, <1>1
      <4> QED BY <3>1, <4>1, <1>1, <1>5 DEF Waiting
    <3>2. CASE k = i
      BY <3>2, <1>5
    <3>3. CASE k > i
      <4>1. k - 1 \in 1..Len(q) /\ ~(k < i) /\ k # i
        BY <3>3, <1>1
      <4> QED BY <4>1, <1>1, <1>5 DEF Waiting
    <3> QED BY <1>1, <3>1, <3>2, <3>3
  <2>2. m \in Waiting(w)
    BY <1>1, <1>4, <1>5 DEF Waiting
  <2>3. ASSUME NEW j \in 1..Len(q) PROVE q[j] \in Waiting(w)
    <3>1. CASE j < i
      BY <3>1, <1>1, <1>4, <1>5 DEF Waiting
    <3>2. CASE j >= i
      <4>1. j + 1 \in 1..Len(q) + 1 /\ ~(j + 1 < i) /\ j + 1 # i /\ (j + 1) - 1 = j
        BY <3>2, <1>1
      <4>2. w[j + 1] = q[j]
        BY <4>1, <1>5
      <4> QED BY <4>1, <4>2, <1>4 DEF Waiting
    <3> QED BY <1>1, <3>1, <3>2
  <2> QED BY <2>1, <2>2, <2>3, <1>1, <1>4 DEF Waiting
<1>7. ASSUME Distinct(q), m \notin Waiting(q) PROVE Distinct(w)
  <2>1. \A k \in 1..Len(q) : q[k] # m
    BY <1>7, <1>1 DEF Waiting
  <2>2. ASSUME NEW j \in 1..Len(q) + 1, NEW k \in 1..Len(q) + 1, w[j] = w[k]
        PROVE  j = k
    <3> DEFINE old(x) == IF x < i THEN x ELSE x - 1
    <3>1. \A x \in 1..Len(q) + 1 : x # i => old(x) \in 1..Len(q) /\ w[x] = q[old(x)]
      BY <1>1, <1>5
    <3>2. \A x \in 1..Len(q) + 1 : x # i => w[x] # m
      BY <3>1, <2>1
    <3>3. w[i] = m
      BY <1>1, <1>5
    <3>4. CASE j = i \/ k = i
      BY <2>2, <3>2, <3>3, <3>4
    <3>5. CASE j # i /\ k # i
      <4>1. old(j) = old(k)
        BY <2>2, <3>1, <3>5, <1>1, <1>7 DEF Distinct
      <4> QED BY <4>1, <3>5, <1>1
    <3> QED BY <3>4, <3>5
  <2> QED BY <2>2, <1>4 DEF Distinct
<1>8. w = With(q, i, m)
  BY DEF w, a, b, With
<1>9. w # <<>>
  BY <1>1, <1>4
<1> QED BY <1>4, <1>6, <1>7, <1>8, <1>9

LEMMA EmptyWaits == <<>> \in Seq(Msgs) /\ Waiting(<<>>) = {} /\ Distinct(<<>>)
  BY DEF Waiting, Distinct

\* A queue has as many messages as places when no message waits twice.
LEMMA DistinctCounts ==
  ASSUME NEW q \in Seq(Msgs), Distinct(q)
  PROVE  Cardinality(Waiting(q)) = Len(q)
<1>1. Len(q) \in Nat /\ DOMAIN q = 1..Len(q) /\ q \in [1..Len(q) -> Waiting(q)]
  BY DEF Waiting
<1>2. q \in Bijection(1..Len(q), Waiting(q))
  BY <1>1 DEF Distinct, Waiting, Bijection, Injection, IsInjective, Surjection
<1>3. IsFiniteSet(1..Len(q)) /\ Cardinality(1..Len(q)) = Len(q)
  BY <1>1, FS_Interval
<1> QED BY <1>2, <1>3, FS_Bijection DEF ExistsBijection

----------------------------------------------------------------------------
(* The invariant, on a record n of status, queue, rows and turns, the       *)
(* message p that a promotion waits for, one message x whose row may be     *)
(* about to change, what was handed over, the wakes taken and the restarts. *)

Statuses == {"idle", "streaming"} \cup Over
Cells    == [known : BOOLEAN, queued : BOOLEAN, composer : BOOLEAN, failed : BOOLEAN]
Kinds    == {"plain", "steer", "inject"}
Turns    == [pc : {"none", "sent", "started"}, kind : Kinds, aborted : BOOLEAN]
Nows     == [status : Statuses, queue : Seq(Msgs), row : [Msgs -> Cells],
             turn : [Msgs -> Turns]]

\* The node has the message: it waits, runs, or was handed over in this life.
Taken(n, h, r, m) == m \in Waiting(n.queue) \/ n.turn[m].pc # "none" \/ h[m] > r

\* A send of the message is held.
OnRecord(n, s, m) ==
  IF m \in Wakes THEN m \in s ELSE n.row[m].known /\ ~n.row[m].failed

TakenIsOnRecord(n, h, s, r) ==
  \A m \in Msgs : Taken(n, h, r, m) => OnRecord(n, s, m)

\* A message waits in one place, or runs, and is handed over after that.
OnePlace(n, h, r) ==
  /\ Distinct(n.queue)
  /\ \A m \in Waiting(n.queue) : n.turn[m].pc = "none"
  /\ \A m \in Msgs : /\ h[m] <= r + 1
                     /\ h[m] > r => m \notin Waiting(n.queue) /\ n.turn[m].pc # "sent"

Pending(n, p, m) == m \in Waiting(n.queue) \/ p = m

\* The marks of the rows, while the session lives.
RowsAreMarked(n, p, x, h) ==
  /\ \A m \in Msgs : n.row[m].queued => n.row[m].known
  /\ n.status # "ended" =>
       \A m \in Msgs \ Wakes : m # x => /\ Pending(n, p, m) => n.row[m].queued
                                        /\ n.row[m].queued => Pending(n, p, m) \/ h[m] > 0

Sound(n, p, x, h, s, r) ==
  /\ n \in Nows
  /\ h \in [Msgs -> Nat] /\ r \in Nat
  /\ TakenIsOnRecord(n, h, s, r)
  /\ OnePlace(n, h, r)
  /\ RowsAreMarked(n, p, x, h)

\* A promotion under way has a turn whose input is not taken yet.
SteerIsSent ==
  \/ steer = NoSteer
  \/ /\ steer.msg \in Msgs \ Wakes
     /\ steer.index \in Nat \ {0}
     /\ turn[steer.msg].pc = "sent" /\ turn[steer.msg].kind = "steer"

\* A closed session hears nothing of its harness.
AmbientIsOpen == ambient => status # "ended"

IInv == /\ TypeOK
        /\ Sound(now, steer.msg, NoMsg, handed, sent, restarts)
        /\ SteerIsSent
        /\ StreamingIsAlive
        /\ AmbientIsOpen

----------------------------------------------------------------------------
(* What the steps of the code make of the record.                           *)

\* A row taken off the queue.
LEMMA UnqueuedIs ==
  ASSUME NEW r \in Cells
  PROVE  LET u == [r EXCEPT !.queued = FALSE, !.composer = FALSE] IN
         u \in Cells /\ u.known = r.known /\ u.failed = r.failed /\ ~u.queued
  BY DEF Cells

LEMMA BegunIs ==
  ASSUME NEW n \in Nows, NEW m \in Msgs, NEW kind \in Kinds,
         NEW b, b = Begun(n, m, kind)
  PROVE  /\ b \in Nows
         /\ b.status = "streaming" /\ b.queue = n.queue
         /\ b.turn = [n.turn EXCEPT ![m] = [pc |-> "sent", kind |-> kind, aborted |-> FALSE]]
         /\ \A x \in Msgs : /\ b.row[x].known = n.row[x].known
                            /\ b.row[x].failed = n.row[x].failed
                            /\ b.row[x].queued <=> n.row[x].queued /\ (x # m \/ kind = "steer")
<1> DEFINE u == [n.row[m] EXCEPT !.queued = FALSE, !.composer = FALSE]
           t == [pc |-> "sent", kind |-> kind, aborted |-> FALSE]
           cell == IF kind = "steer" THEN n.row[m] ELSE u
<1>1. /\ n.row[m] \in Cells /\ n.row \in [Msgs -> Cells]
      /\ n.turn \in [Msgs -> Turns] /\ n.queue \in Seq(Msgs)
  BY DEF Nows
<1>2. u \in Cells /\ u.known = n.row[m].known /\ u.failed = n.row[m].failed /\ ~u.queued
  BY <1>1, UnqueuedIs
<1>3. t \in Turns
  BY DEF Turns
<1>4. Begun(n, m, kind) = [n EXCEPT !.status = "streaming", !.turn = [n.turn EXCEPT ![m] = t],
                                    !.row = [n.row EXCEPT ![m] = cell]]
  BY <1>1 DEF Begun, Nows
<1> HIDE DEF u, t
<1>5. Begun(n, m, kind) = [status |-> "streaming", queue |-> n.queue,
                           row |-> [n.row EXCEPT ![m] = cell],
                           turn |-> [n.turn EXCEPT ![m] = t]]
  BY <1>4 DEF Nows
<1>6. [n.turn EXCEPT ![m] = t] \in [Msgs -> Turns]
  BY <1>1, <1>3
<1>7. [n.row EXCEPT ![m] = cell] \in [Msgs -> Cells]
  BY <1>1, <1>2
<1>8. Begun(n, m, kind) \in Nows
  BY <1>5, <1>6, <1>7, <1>1 DEF Nows, Statuses
<1>9. \A x \in Msgs : b.row[x] = IF x = m THEN cell ELSE n.row[x]
  BY <1>1, <1>5
<1> QED BY <1>1, <1>2, <1>5, <1>8, <1>9 DEF t, Cells

LEMMA QueueIs ==
  ASSUME NEW n \in Nows, NEW q \in Seq(Msgs)
  PROVE  LET b == [n EXCEPT !.queue = q] IN
         b \in Nows /\ b.status = n.status /\ b.queue = q /\ b.row = n.row /\ b.turn = n.turn
  BY DEF Nows

LEMMA TurnIs ==
  ASSUME NEW n \in Nows, NEW m \in Msgs, NEW t \in Turns
  PROVE  LET b == [n EXCEPT !.turn[m] = t] IN
         /\ b \in Nows
         /\ b.status = n.status /\ b.queue = n.queue /\ b.row = n.row
         /\ b.turn = [n.turn EXCEPT ![m] = t]
  BY DEF Nows

\* The rows of b are those of n, but the messages of S are marked failed.
FailedRows(b, n, S) ==
  \A y \in Msgs : IF y \in S /\ n.row[y].known
                  THEN b.row[y].known /\ b.row[y].failed /\ ~b.row[y].queued
                  ELSE b.row[y] = n.row[y]

LEMMA MarkFailedIs ==
  ASSUME NEW n \in Nows, NEW S, NEW b, b = MarkFailed(n, S)
  PROVE  /\ b \in Nows
         /\ b.status = n.status /\ b.queue = n.queue /\ b.turn = n.turn
         /\ FailedRows(b, n, S)
<1> DEFINE cells == [m \in Msgs |->
              IF m \in S /\ n.row[m].known
              THEN [known |-> TRUE, queued |-> FALSE, composer |-> FALSE, failed |-> TRUE]
              ELSE n.row[m]]
<1>1. cells \in [Msgs -> Cells]
  BY DEF Nows, Cells
<1>2. b = [n EXCEPT !.row = cells]
  BY DEF MarkFailed
<1>3. \A x \in Msgs : IF x \in S /\ n.row[x].known
                      THEN cells[x].known /\ cells[x].failed /\ ~cells[x].queued
                      ELSE cells[x] = n.row[x]
  OBVIOUS
<1> HIDE DEF cells
<1>4. /\ b \in Nows
      /\ b.status = n.status /\ b.queue = n.queue /\ b.turn = n.turn /\ b.row = cells
  BY <1>1, <1>2 DEF Nows
<1> QED BY <1>3, <1>4 DEF FailedRows

----------------------------------------------------------------------------
(* The steps keep the record sound.                                         *)

\* A turn begins on a message that neither waits nor was handed over.
LEMMA BegunIsSound ==
  ASSUME NEW n, NEW p, NEW h, NEW s, NEW r, NEW m \in Msgs,
         NEW kind \in Kinds,
         Sound(n, IF kind = "steer" THEN NoMsg ELSE p, m, h, s, r),
         n.status # "ended", m \notin Waiting(n.queue), h[m] <= r, OnRecord(n, s, m),
         kind = "steer" => p = m /\ (m \notin Wakes => n.row[m].queued),
         kind # "steer" => p # m
  PROVE  Sound(Begun(n, m, kind), p, NoMsg, h, s, r)
<1> DEFINE b == Begun(n, m, kind)
<1>1. n \in Nows /\ h \in [Msgs -> Nat] /\ r \in Nat
  BY DEF Sound
<1>0. b = Begun(n, m, kind)
  OBVIOUS
<1> HIDE DEF b
<1>2. /\ b \in Nows
      /\ b.status = "streaming" /\ b.queue = n.queue
      /\ b.turn = [n.turn EXCEPT ![m] = [pc |-> "sent", kind |-> kind, aborted |-> FALSE]]
      /\ \A x \in Msgs : /\ b.row[x].known = n.row[x].known
                         /\ b.row[x].failed = n.row[x].failed
                         /\ b.row[x].queued <=> n.row[x].queued /\ (x # m \/ kind = "steer")
  BY <1>0, <1>1, BegunIs
<1>3. \A x \in Msgs : b.turn[x].pc = IF x = m THEN "sent" ELSE n.turn[x].pc
  BY <1>1, <1>2 DEF Nows
<1>4. TakenIsOnRecord(b, h, s, r)
  BY <1>2, <1>3 DEF Sound, TakenIsOnRecord, Taken, OnRecord
<1>5. OnePlace(b, h, r)
  BY <1>1, <1>2, <1>3 DEF Sound, OnePlace, Waiting, Nows
<1>6. RowsAreMarked(b, p, NoMsg, h)
  <2>1. \A x \in Msgs : b.row[x].queued => b.row[x].known
    BY <1>2 DEF Sound, RowsAreMarked
  <2>2. ASSUME NEW x \in Msgs \ Wakes
        PROVE  /\ Pending(b, p, x) => b.row[x].queued
               /\ b.row[x].queued => Pending(b, p, x) \/ h[x] > 0
    <3>1. CASE x # m /\ kind = "steer"
      BY <3>1, <1>2, WakesAreMessages DEF Sound, RowsAreMarked, Pending
    <3>2. CASE x # m /\ kind # "steer"
      BY <3>2, <1>2 DEF Sound, RowsAreMarked, Pending
    <3>3. CASE x = m
      BY <3>3, <1>2 DEF Pending
    <3> QED BY <3>1, <3>2, <3>3
  <2> QED BY <2>1, <2>2 DEF RowsAreMarked
<1> QED BY <1>1, <1>2, <1>4, <1>5, <1>6 DEF Sound, b

\* The head of the queue begins.
LEMMA BegunHeadIsSound ==
  ASSUME NEW n, NEW p, NEW h, NEW s, NEW r,
         Sound(n, p, NoMsg, h, s, r), n.queue # <<>>, n.status # "ended",
         p \notin Waiting(n.queue)
  PROVE  LET b == BegunHead(n)  m == Head(n.queue) IN
         /\ Sound(b, p, NoMsg, h, s, r)
         /\ m \in Waiting(n.queue)
         /\ b.status = "streaming"
         /\ b.turn = [n.turn EXCEPT ![m] = [pc |-> "sent", kind |-> "plain", aborted |-> FALSE]]
<1> DEFINE m == Head(n.queue)
           q == Tail(n.queue)
           c == [n EXCEPT !.queue = q]
<1>1. n \in Nows /\ n.queue \in Seq(Msgs) /\ h \in [Msgs -> Nat] /\ r \in Nat
  BY DEF Sound, Nows
<1>2. /\ m \in Msgs /\ q \in Seq(Msgs) /\ Waiting(n.queue) = Waiting(q) \cup {m}
      /\ Distinct(q) /\ m \notin Waiting(q)
  BY <1>1, TailWaits DEF Sound, OnePlace
<1>3. c \in Nows /\ c.status = n.status /\ c.queue = q /\ c.row = n.row /\ c.turn = n.turn
  BY <1>1, <1>2, QueueIs
<1>4. m # NoMsg /\ m # p
  BY <1>2, WakesAreMessages
<1>5. OnRecord(c, s, m) /\ h[m] <= r
  BY <1>1, <1>2, <1>3 DEF Sound, TakenIsOnRecord, Taken, OnRecord, OnePlace
<1>6. Sound(c, p, m, h, s, r)
  <2>1. TakenIsOnRecord(c, h, s, r)
    BY <1>2, <1>3 DEF Sound, TakenIsOnRecord, Taken, OnRecord
  <2>2. OnePlace(c, h, r)
    BY <1>2, <1>3 DEF Sound, OnePlace
  <2>3. RowsAreMarked(c, p, m, h)
    BY <1>2, <1>3, WakesAreMessages DEF Sound, RowsAreMarked, Pending
  <2> QED BY <1>1, <1>3, <2>1, <2>2, <2>3 DEF Sound
<1>7. BegunHead(n) = Begun(c, m, "plain")
  BY DEF BegunHead
<1> HIDE DEF m, q, c
<1>8. Sound(Begun(c, m, "plain"), p, NoMsg, h, s, r)
  BY <1>2, <1>3, <1>4, <1>5, <1>6, BegunIsSound DEF Kinds
<1>9. /\ Begun(c, m, "plain").status = "streaming"
      /\ Begun(c, m, "plain").turn = [c.turn EXCEPT ![m] = [pc |-> "sent", kind |-> "plain",
                                                           aborted |-> FALSE]]
  <2> DEFINE b == Begun(c, m, "plain")
  <2>1. b = Begun(c, m, "plain")
    OBVIOUS
  <2> HIDE DEF b
  <2>2. "plain" \in Kinds
    BY DEF Kinds
  <2>3. b.status = "streaming" /\ b.turn = [c.turn EXCEPT ![m] = [pc |-> "sent", kind |-> "plain",
                                                                 aborted |-> FALSE]]
    BY <1>2, <1>3, <2>1, <2>2, BegunIs
  <2> QED BY <2>1, <2>3
<1> QED BY <1>2, <1>3, <1>7, <1>8, <1>9 DEF m

\* Messages that are neither taken elsewhere nor waited for are marked failed,
\* among them those the queue loses.
LEMMA MarkedIsSound ==
  ASSUME NEW n, NEW p, NEW x, NEW h, NEW s, NEW r, NEW S, NEW b \in Nows,
         Sound(n, p, x, h, s, r), Distinct(b.queue),
         Waiting(b.queue) \subseteq Waiting(n.queue), Waiting(n.queue) \ Waiting(b.queue) \subseteq S,
         \A m \in S : m \notin Waiting(b.queue) /\ m # p
                      /\ (m \in Msgs => n.turn[m].pc = "none" /\ h[m] <= r),
         b.status = n.status, b.turn = n.turn, FailedRows(b, n, S)
  PROVE  Sound(b, p, x, h, s, r)
<1>1. n \in Nows /\ h \in [Msgs -> Nat] /\ r \in Nat
  BY DEF Sound
<1>2. \A m \in Msgs : Taken(b, h, r, m) => Taken(n, h, r, m) /\ m \notin S
  BY <1>1 DEF Taken
<1>3. TakenIsOnRecord(b, h, s, r)
  BY <1>2 DEF Sound, TakenIsOnRecord, OnRecord, FailedRows
<1>4. OnePlace(b, h, r)
  BY DEF Sound, OnePlace
<1>5. RowsAreMarked(b, p, x, h)
  <2>1. \A m \in Msgs : b.row[m].queued => b.row[m].known
    BY DEF Sound, RowsAreMarked, FailedRows
  <2>2. \A m \in Msgs : Pending(b, p, m) => Pending(n, p, m) /\ m \notin S
    BY DEF Pending
  <2>3. \A m \in Msgs \ S : Pending(n, p, m) => Pending(b, p, m)
    BY DEF Pending
  <2>4. \A m \in Msgs : b.row[m].queued => n.row[m].queued /\ m \notin S
    BY DEF Sound, RowsAreMarked, FailedRows
  <2>5. \A m \in Msgs \ S : b.row[m] = n.row[m]
    BY DEF FailedRows
  <2> QED BY <2>1, <2>2, <2>3, <2>4, <2>5 DEF Sound, RowsAreMarked
<1> QED BY <1>1, <1>3, <1>4, <1>5 DEF Sound

\* A turn that stays what it was, or is only started, or is over.
LEMMA TurnIsSound ==
  ASSUME NEW n, NEW p, NEW x, NEW h, NEW s, NEW r, NEW m \in Msgs, NEW t \in Turns,
         Sound(n, p, x, h, s, r), m \notin Waiting(n.queue),
         t.pc \in {"none", "started", n.turn[m].pc}, n.turn[m].pc # "none"
  PROVE  LET b == [n EXCEPT !.turn[m] = t] IN
         /\ Sound(b, p, x, h, s, r)
         /\ b.status = n.status /\ b.queue = n.queue /\ b.row = n.row
         /\ b.turn = [n.turn EXCEPT ![m] = t]
<1> DEFINE b == [n EXCEPT !.turn[m] = t]
<1>1. n \in Nows /\ n.turn \in [Msgs -> Turns]
  BY DEF Sound, Nows
<1>2. /\ b \in Nows
      /\ b.status = n.status /\ b.queue = n.queue /\ b.row = n.row
      /\ b.turn = [n.turn EXCEPT ![m] = t]
  BY <1>1, TurnIs
<1> HIDE DEF b
<1>3. \A y \in Msgs : b.turn[y] = IF y = m THEN t ELSE n.turn[y]
  BY <1>1, <1>2
<1>4. \A y \in Msgs : Taken(b, h, r, y) => Taken(n, h, r, y)
  BY <1>2, <1>3 DEF Taken
<1>5. TakenIsOnRecord(b, h, s, r)
  BY <1>2, <1>4 DEF Sound, TakenIsOnRecord, OnRecord
<1>6. OnePlace(b, h, r)
  BY <1>1, <1>2, <1>3 DEF Sound, OnePlace, Waiting, Nows
<1>7. RowsAreMarked(b, p, x, h)
  BY <1>2 DEF Sound, RowsAreMarked, Pending
<1> QED BY <1>2, <1>5, <1>6, <1>7 DEF Sound, b

\* A message whose turn is past its input, or over, was handed over.
LEMMA HandIsSound ==
  ASSUME NEW n, NEW p, NEW x, NEW h, NEW s, NEW r, NEW m \in Msgs,
         Sound(n, p, x, h, s, r), h[m] <= r, OnRecord(n, s, m),
         m \notin Waiting(n.queue), n.turn[m].pc # "sent"
  PROVE  Sound(n, p, x, [h EXCEPT ![m] = @ + 1], s, r)
<1> DEFINE g == [h EXCEPT ![m] = @ + 1]
<1>1. /\ h \in [Msgs -> Nat] /\ r \in Nat /\ g \in [Msgs -> Nat]
      /\ \A y \in Msgs : g[y] = IF y = m THEN h[m] + 1 ELSE h[y]
  BY DEF Sound
<1> HIDE DEF g
<1>2. TakenIsOnRecord(n, g, s, r)
  BY <1>1 DEF Sound, TakenIsOnRecord, Taken
<1>3. OnePlace(n, g, r)
  BY <1>1 DEF Sound, OnePlace
<1>4. \A y \in Msgs : h[y] > 0 => g[y] > 0
  BY <1>1
<1>5. RowsAreMarked(n, p, x, g)
  BY <1>4 DEF Sound, RowsAreMarked
<1> QED BY <1>1, <1>2, <1>3, <1>5 DEF Sound, g

\* The places of the messages and their rows stay; a closed session stays closed.
LEMMA SamePlacesIsSound ==
  ASSUME NEW n, NEW p, NEW x, NEW h, NEW s, NEW r, NEW b \in Nows,
         Sound(n, p, x, h, s, r), b.queue = n.queue, b.row = n.row,
         \A m \in Msgs : b.turn[m].pc = n.turn[m].pc,
         n.status = "ended" => b.status = "ended"
  PROVE  Sound(b, p, x, h, s, r)
<1>1. TakenIsOnRecord(b, h, s, r)
  BY DEF Sound, TakenIsOnRecord, Taken, OnRecord
<1>2. OnePlace(b, h, r)
  <2>1. \A m \in Waiting(b.queue) : m \in Msgs
    BY DEF Nows, Waiting
  <2> QED BY <2>1 DEF Sound, OnePlace
<1>3. RowsAreMarked(b, p, x, h)
  BY DEF Sound, RowsAreMarked, Pending
<1> QED BY <1>1, <1>2, <1>3 DEF Sound

\* The promotion of m settles: its row is no longer answered for.
LEMMA ReleasedIsSound ==
  ASSUME NEW n, NEW p, NEW h, NEW s, NEW r, NEW m \in Msgs, Sound(n, p, NoMsg, h, s, r)
  PROVE  Sound(n, IF p = m THEN NoMsg ELSE p, m, h, s, r)
  BY WakesAreMessages DEF Sound, RowsAreMarked, Pending

\* A message that was handed over, or whose row is off the queue, is as any other.
LEMMA ExemptIsSound ==
  ASSUME NEW n, NEW p, NEW h, NEW s, NEW r, NEW m \in Msgs, Sound(n, p, m, h, s, r),
         m \notin Waiting(n.queue), p # m, h[m] > 0 \/ ~n.row[m].queued
  PROVE  Sound(n, p, NoMsg, h, s, r)
  BY WakesAreMessages DEF Sound, RowsAreMarked, Pending

\* A card of a message that waits nowhere is taken off the queue.
LEMMA ConsumedIsSound ==
  ASSUME NEW n, NEW p, NEW x, NEW h, NEW s, NEW r, NEW m \in Msgs, Sound(n, p, x, h, s, r),
         m \notin Waiting(n.queue), p # m
  PROVE  LET b == Consumed(n, m) IN
         /\ Sound(b, p, x, h, s, r)
         /\ b.status = n.status /\ b.queue = n.queue /\ b.turn = n.turn
<1> DEFINE b == Consumed(n, m)
           u == [n.row[m] EXCEPT !.queued = FALSE, !.composer = FALSE]
           cell == IF n.row[m].composer THEN u ELSE n.row[m]
<1>1. n \in Nows /\ n.row \in [Msgs -> Cells] /\ n.row[m] \in Cells
  BY DEF Sound, Nows
<1>2. u \in Cells /\ u.known = n.row[m].known /\ u.failed = n.row[m].failed /\ ~u.queued
  BY <1>1, UnqueuedIs
<1>3. b = [n EXCEPT !.row = [n.row EXCEPT ![m] = cell]]
  BY <1>1 DEF Consumed, Nows
<1> HIDE DEF u, b
<1>4. [n.row EXCEPT ![m] = cell] \in [Msgs -> Cells]
  BY <1>1, <1>2
<1>5. /\ b \in Nows
      /\ b.status = n.status /\ b.queue = n.queue /\ b.turn = n.turn
      /\ b.row = [n.row EXCEPT ![m] = cell]
  BY <1>1, <1>3, <1>4 DEF Nows
<1>6. \A y \in Msgs : /\ b.row[y].known = n.row[y].known
                      /\ b.row[y].failed = n.row[y].failed
                      /\ b.row[y].queued => n.row[y].queued
                      /\ y # m => b.row[y] = n.row[y]
  BY <1>1, <1>2, <1>5
<1>7. TakenIsOnRecord(b, h, s, r)
  BY <1>5, <1>6 DEF Sound, TakenIsOnRecord, Taken, OnRecord
<1>8. OnePlace(b, h, r)
  BY <1>5 DEF Sound, OnePlace
<1>9. RowsAreMarked(b, p, x, h)
  <2>1. \A y \in Msgs : b.row[y].queued => b.row[y].known
    BY <1>6 DEF Sound, RowsAreMarked
  <2>2. \A y \in Msgs : Pending(b, p, y) <=> Pending(n, p, y)
    BY <1>5 DEF Pending
  <2>3. ~Pending(n, p, m)
    BY DEF Pending
  <2> QED BY <1>5, <1>6, <2>1, <2>2, <2>3 DEF Sound, RowsAreMarked
<1> QED BY <1>5, <1>7, <1>8, <1>9 DEF Sound, b

\* A message that is on record and waits nowhere is put into the queue.
LEMMA PlacedIsSound ==
  ASSUME NEW n, NEW p, NEW h, NEW s, NEW r, NEW m \in Msgs, NEW q \in Seq(Msgs), NEW b \in Nows,
         Sound(n, p, m, h, s, r), OnRecord(n, s, m), p # m,
         m \notin Waiting(n.queue), n.turn[m].pc = "none", h[m] <= r,
         Distinct(q), Waiting(q) = Waiting(n.queue) \cup {m},
         b.status = n.status, b.queue = q, b.turn = n.turn,
         \A y \in Msgs \ {m} : b.row[y] = n.row[y],
         b.row[m].known = n.row[m].known, b.row[m].failed = n.row[m].failed,
         b.row[m].queued => b.row[m].known,
         m \notin Wakes => b.row[m].queued
  PROVE  Sound(b, p, NoMsg, h, s, r)
<1>1. TakenIsOnRecord(b, h, s, r)
  BY DEF Sound, TakenIsOnRecord, Taken, OnRecord
<1>2. OnePlace(b, h, r)
  BY DEF Sound, OnePlace
<1>3. RowsAreMarked(b, p, NoMsg, h)
  <2>1. \A y \in Msgs : b.row[y].queued => b.row[y].known
    BY DEF Sound, RowsAreMarked
  <2>2. \A y \in Msgs : Pending(b, p, y) <=> Pending(n, p, y) \/ y = m
    BY DEF Pending
  <2> QED BY <2>1, <2>2 DEF Sound, RowsAreMarked
<1> QED BY <1>1, <1>2, <1>3 DEF Sound

LEMMA EnqueuedIsSound ==
  ASSUME NEW n, NEW p, NEW h, NEW s, NEW r, NEW m \in Msgs,
         Sound(n, p, m, h, s, r), OnRecord(n, s, m), p # m,
         m \notin Waiting(n.queue), n.turn[m].pc = "none", h[m] <= r
  PROVE  LET b == Enqueued(n, m) IN
         /\ Sound(b, p, NoMsg, h, s, r)
         /\ b.status = n.status /\ b.queue = Append(n.queue, m) /\ b.turn = n.turn
<1> DEFINE b == Enqueued(n, m)
           q == Append(n.queue, m)
           cell == [n.row[m] EXCEPT !.queued = n.row[m].known]
<1>1. n \in Nows /\ n.row \in [Msgs -> Cells] /\ n.row[m] \in Cells /\ n.queue \in Seq(Msgs)
  BY DEF Sound, Nows
<1>2. q \in Seq(Msgs) /\ Waiting(q) = Waiting(n.queue) \cup {m} /\ Distinct(q)
  BY <1>1, AppendWaits DEF Sound, OnePlace
<1>3. cell \in Cells /\ cell.known = n.row[m].known /\ cell.failed = n.row[m].failed
      /\ (cell.queued <=> n.row[m].known)
  BY <1>1 DEF Cells
<1>4. b = [n EXCEPT !.queue = q, !.row = [n.row EXCEPT ![m] = cell]]
  BY <1>1 DEF Enqueued, Nows
<1> HIDE DEF cell, q, b
<1>5. [n.row EXCEPT ![m] = cell] \in [Msgs -> Cells]
  BY <1>1, <1>3
<1>6. /\ b \in Nows
      /\ b.status = n.status /\ b.queue = q /\ b.turn = n.turn
      /\ b.row = [n.row EXCEPT ![m] = cell]
  BY <1>1, <1>2, <1>4, <1>5 DEF Nows
<1>7. b.row[m] = cell /\ \A y \in Msgs \ {m} : b.row[y] = n.row[y]
  BY <1>1, <1>6
<1>8. m \notin Wakes => b.row[m].queued
  BY <1>3, <1>7 DEF OnRecord
<1>9. Sound(b, p, NoMsg, h, s, r)
  BY <1>2, <1>3, <1>6, <1>7, <1>8, PlacedIsSound
<1> QED BY <1>6, <1>9 DEF b, q

Accepts(b, n, m) == \E parks \in BOOLEAN : b = Accepted(n, m, parks)

\* The row of a message the node does not have yet.
LEMMA AcceptedIsSound ==
  ASSUME NEW n, NEW p, NEW h, NEW s, NEW r, NEW m \in Msgs \ Wakes, Sound(n, p, NoMsg, h, s, r),
         NEW b, Accepts(b, n, m)
  PROVE  /\ Sound(b, p, m, h, s, r)
         /\ OnRecord(b, s, m)
         /\ b.status = n.status /\ b.queue = n.queue /\ b.turn = n.turn
<1>0. PICK parks \in BOOLEAN : b = Accepted(n, m, parks)
  BY DEF Accepts
<1> DEFINE old == [n.row[m] EXCEPT !.failed = FALSE]
           new == [known |-> TRUE, queued |-> parks, composer |-> parks, failed |-> FALSE]
           cell == IF n.row[m].known THEN old ELSE new
<1>1. n \in Nows /\ n.row \in [Msgs -> Cells] /\ n.row[m] \in Cells
  BY DEF Sound, Nows
<1>2. old \in Cells /\ old.known = n.row[m].known /\ ~old.failed
  BY <1>1 DEF Cells
<1>3. new \in Cells /\ new.known /\ ~new.failed
  BY DEF Cells
<1>4. b = [n EXCEPT !.row = [n.row EXCEPT ![m] = cell]]
  BY <1>0, <1>1 DEF Accepted, Nows
<1> HIDE DEF old, new
<1>5. cell \in Cells /\ cell.known /\ ~cell.failed /\ [n.row EXCEPT ![m] = cell] \in [Msgs -> Cells]
  BY <1>1, <1>2, <1>3
<1>6. /\ b \in Nows
      /\ b.status = n.status /\ b.queue = n.queue /\ b.turn = n.turn
      /\ b.row = [n.row EXCEPT ![m] = cell]
  BY <1>1, <1>4, <1>5 DEF Nows
<1>7. b.row[m] = cell /\ \A y \in Msgs \ {m} : b.row[y] = n.row[y]
  BY <1>1, <1>6
<1>8. TakenIsOnRecord(b, h, s, r) /\ OnRecord(b, s, m)
  BY <1>5, <1>6, <1>7 DEF Sound, TakenIsOnRecord, Taken, OnRecord
<1>9. OnePlace(b, h, r)
  BY <1>6 DEF Sound, OnePlace
<1>10. RowsAreMarked(b, p, m, h)
  BY <1>5, <1>6, <1>7, WakesAreMessages DEF Sound, RowsAreMarked, Pending
<1> QED BY <1>6, <1>8, <1>9, <1>10 DEF Sound

\* A waiting message leaves the queue, and nothing else is said of it yet.
LEMMA TakenOutIsSound ==
  ASSUME NEW n, NEW p, NEW h, NEW s, NEW r, NEW i \in DOMAIN n.queue,
         Sound(n, p, NoMsg, h, s, r)
  PROVE  LET b == [n EXCEPT !.queue = Without(@, i)]  m == n.queue[i] IN
         /\ Sound(b, p, m, h, s, r)
         /\ b.status = n.status /\ b.row = n.row /\ b.turn = n.turn
         /\ m \in Msgs /\ m \in Waiting(n.queue) /\ m \notin Waiting(b.queue)
         /\ OnRecord(b, s, m) /\ n.turn[m].pc = "none" /\ h[m] <= r
         /\ n.status # "ended" /\ m \notin Wakes => b.row[m].queued
<1> DEFINE q == Without(n.queue, i)
           b == [n EXCEPT !.queue = q]
           m == n.queue[i]
<1>1. n \in Nows /\ n.queue \in Seq(Msgs) /\ h \in [Msgs -> Nat] /\ r \in Nat
  BY DEF Sound, Nows
<1>2. /\ m \in Msgs /\ q \in Seq(Msgs) /\ Waiting(n.queue) = Waiting(q) \cup {m}
      /\ Distinct(q) /\ m \notin Waiting(q)
  BY <1>1, WithoutWaits DEF Sound, OnePlace
<1>3. b \in Nows /\ b.status = n.status /\ b.queue = q /\ b.row = n.row /\ b.turn = n.turn
  BY <1>1, <1>2, QueueIs
<1>4. [n EXCEPT !.queue = Without(@, i)] = b
  BY <1>1 DEF Nows
<1> HIDE DEF b, q, m
<1>5. TakenIsOnRecord(b, h, s, r)
  BY <1>2, <1>3 DEF Sound, TakenIsOnRecord, Taken, OnRecord
<1>6. OnePlace(b, h, r)
  BY <1>2, <1>3 DEF Sound, OnePlace
<1>7. RowsAreMarked(b, p, m, h)
  BY <1>2, <1>3, WakesAreMessages DEF Sound, RowsAreMarked, Pending
<1>8. OnRecord(b, s, m) /\ n.turn[m].pc = "none" /\ h[m] <= r
  BY <1>1, <1>2, <1>3 DEF Sound, TakenIsOnRecord, Taken, OnRecord, OnePlace
<1>9. n.status # "ended" /\ m \notin Wakes => b.row[m].queued
  BY <1>2, <1>3, WakesAreMessages DEF Sound, RowsAreMarked, Pending
<1>10. Sound(b, p, m, h, s, r)
  BY <1>1, <1>3, <1>5, <1>6, <1>7 DEF Sound
<1> QED BY <1>2, <1>3, <1>4, <1>8, <1>9, <1>10 DEF m

LEMMA PromotedIsSound ==
  ASSUME NEW n, NEW h, NEW s, NEW r, NEW i \in DOMAIN n.queue,
         Sound(n, NoMsg, NoMsg, h, s, r), n.status # "ended"
  PROVE  LET b == Promoted(n, i)  m == n.queue[i] IN
         /\ Sound(b, m, NoMsg, h, s, r)
         /\ b.status = "streaming"
         /\ b.turn = [n.turn EXCEPT ![m] = [pc |-> "sent", kind |-> "steer", aborted |-> FALSE]]
         /\ m \in Msgs /\ n.turn[m].pc = "none"
<1> DEFINE c == [n EXCEPT !.queue = Without(@, i)]
           m == n.queue[i]
           b == Begun(c, m, "steer")
<1>1. /\ Sound(c, NoMsg, m, h, s, r)
      /\ c.status = n.status /\ c.row = n.row /\ c.turn = n.turn
      /\ m \in Msgs /\ m \in Waiting(n.queue) /\ m \notin Waiting(c.queue)
      /\ OnRecord(c, s, m) /\ n.turn[m].pc = "none" /\ h[m] <= r
      /\ n.status # "ended" /\ m \notin Wakes => c.row[m].queued
  BY TakenOutIsSound
<1>2. Promoted(n, i) = b
  BY DEF Promoted
<1>3. "steer" \in Kinds /\ c \in Nows
  BY <1>1 DEF Kinds, Sound
<1>4. b = Begun(c, m, "steer")
  OBVIOUS
<1> HIDE DEF b, c, m
<1>5. /\ b.status = "streaming"
      /\ b.turn = [c.turn EXCEPT ![m] = [pc |-> "sent", kind |-> "steer", aborted |-> FALSE]]
  BY <1>1, <1>3, <1>4, BegunIs
<1>6. Sound(b, m, NoMsg, h, s, r)
  BY <1>1, <1>3, <1>4, BegunIsSound
<1> QED BY <1>1, <1>2, <1>5, <1>6 DEF m

\* What a dequeue makes of the record.
Removed(n, i) == [n EXCEPT !.queue = Without(@, i), !.row[n.queue[i]] = NoRow]

LEMMA DequeuedIsSound ==
  ASSUME NEW n, NEW p, NEW h, NEW s, NEW r, NEW i \in DOMAIN n.queue,
         Sound(n, p, NoMsg, h, s, r), n.queue[i] \notin Wakes, p # n.queue[i],
         NEW b, b = Removed(n, i)
  PROVE  Sound(b, p, NoMsg, h, s, r) /\ b.status = n.status /\ b.turn = n.turn
<1> DEFINE c == [n EXCEPT !.queue = Without(@, i)]
           m == n.queue[i]
<1>1. /\ Sound(c, p, m, h, s, r)
      /\ c.status = n.status /\ c.row = n.row /\ c.turn = n.turn
      /\ m \in Msgs /\ m \notin Waiting(c.queue)
      /\ n.turn[m].pc = "none" /\ h[m] <= r
  BY TakenOutIsSound
<1>2. NoRow \in Cells /\ ~NoRow.queued
  BY DEF NoRow, Cells
<1>3. n \in Nows /\ c \in Nows /\ n.row \in [Msgs -> Cells]
  BY <1>1 DEF Sound, Nows
<1>4. b = [c EXCEPT !.row = [c.row EXCEPT ![m] = NoRow]]
  BY <1>1, <1>3 DEF Nows, Removed
<1> HIDE DEF c, m, NoRow
<1>5. [c.row EXCEPT ![m] = NoRow] \in [Msgs -> Cells]
  BY <1>1, <1>2, <1>3
<1>6. /\ b \in Nows
      /\ b.status = c.status /\ b.queue = c.queue /\ b.turn = c.turn
      /\ b.row = [c.row EXCEPT ![m] = NoRow]
  BY <1>3, <1>4, <1>5 DEF Nows
<1>7. b.row[m] = NoRow /\ \A y \in Msgs \ {m} : b.row[y] = c.row[y]
  BY <1>1, <1>3, <1>6
<1>8. h \in [Msgs -> Nat] /\ r \in Nat
  BY DEF Sound
<1>9. ~Taken(c, h, r, m)
  BY <1>1, <1>8 DEF Taken
<1>10. TakenIsOnRecord(b, h, s, r)
  <2> SUFFICES ASSUME NEW y \in Msgs, Taken(b, h, r, y) PROVE OnRecord(b, s, y)
    BY DEF TakenIsOnRecord
  <2>1. Taken(c, h, r, y) /\ y # m
    BY <1>6, <1>9 DEF Taken
  <2> QED BY <2>1, <1>1, <1>7 DEF Sound, TakenIsOnRecord, OnRecord
<1>11. OnePlace(b, h, r)
  BY <1>1, <1>6 DEF Sound, OnePlace
<1>12. RowsAreMarked(b, p, m, h)
  BY <1>1, <1>2, <1>6, <1>7 DEF Sound, RowsAreMarked, Pending
<1>13. Sound(b, p, m, h, s, r)
  BY <1>6, <1>8, <1>10, <1>11, <1>12 DEF Sound
<1>14. p # m /\ m \notin Waiting(b.queue) /\ ~b.row[m].queued
  BY <1>1, <1>2, <1>6, <1>7 DEF m
<1>15. Sound(b, p, NoMsg, h, s, r)
  BY <1>1, <1>13, <1>14, ExemptIsSound
<1> QED BY <1>1, <1>6, <1>15

\* The turn of m is over, and what failed with it is m or nothing.
Dropped(b, n, m, S) ==
  /\ b.status = n.status /\ b.queue = n.queue
  /\ b.turn = [n.turn EXCEPT ![m] = NoTurn]
  /\ S = {} => b.row[m] = n.row[m]

TurnGone(n, m, S) == [MarkFailed(n, S) EXCEPT !.turn[m] = NoTurn]

LEMMA FailedTurnIsSound ==
  ASSUME NEW n, NEW p, NEW x, NEW h, NEW s, NEW r, NEW m \in Msgs, NEW S, S \subseteq {m},
         Sound(n, p, x, h, s, r), p # m, n.turn[m].pc # "none", S = {} \/ h[m] <= r,
         NEW b, b = TurnGone(n, m, S)
  PROVE  Sound(b, p, x, h, s, r) /\ Dropped(b, n, m, S)
<1> DEFINE f == MarkFailed(n, S)
           c == [f EXCEPT !.turn[m] = NoTurn]
<1>0. b = c
  BY DEF TurnGone
<1>1. n \in Nows /\ h \in [Msgs -> Nat] /\ r \in Nat /\ n.turn \in [Msgs -> Turns]
  BY DEF Sound, Nows
<1>2. /\ f \in Nows
      /\ f.status = n.status /\ f.queue = n.queue /\ f.turn = n.turn
      /\ FailedRows(f, n, S)
  BY <1>1, MarkFailedIs
<1>3. NoTurn \in Turns /\ NoTurn.pc = "none"
  BY DEF NoTurn, Turns, Kinds
<1> HIDE DEF f, NoTurn
<1>4. /\ b \in Nows /\ b.status = n.status /\ b.queue = n.queue /\ b.row = f.row
      /\ b.turn = [n.turn EXCEPT ![m] = NoTurn]
  <2>1. /\ c \in Nows
        /\ c.status = f.status /\ c.queue = f.queue /\ c.row = f.row
        /\ c.turn = [f.turn EXCEPT ![m] = NoTurn]
    BY <1>2, <1>3, TurnIs
  <2> HIDE DEF c
  <2> QED BY <1>0, <1>2, <2>1
<1>5. \A y \in Msgs : b.turn[y] = IF y = m THEN NoTurn ELSE n.turn[y]
  BY <1>1, <1>4
<1>6. m \notin Waiting(n.queue)
  BY DEF Sound, OnePlace
<1>7. \A y \in Msgs : Taken(b, h, r, y) => Taken(n, h, r, y) /\ y \notin S
  <2> SUFFICES ASSUME NEW y \in Msgs, Taken(b, h, r, y) PROVE Taken(n, h, r, y) /\ y \notin S
    OBVIOUS
  <2>1. Taken(n, h, r, y)
    BY <1>3, <1>4, <1>5 DEF Taken
  <2>2. CASE y = m
    <3>1. h[m] > r
      BY <2>2, <1>3, <1>4, <1>5, <1>6 DEF Taken
    <3> QED BY <2>1, <3>1, <1>1
  <2> QED BY <2>1, <2>2
<1>8. TakenIsOnRecord(b, h, s, r)
  BY <1>2, <1>4, <1>7 DEF Sound, TakenIsOnRecord, OnRecord, FailedRows
<1>9. OnePlace(b, h, r)
  <2>1. \A y \in Waiting(b.queue) : y \in Msgs
    BY <1>4 DEF Nows, Waiting
  <2> QED BY <1>3, <1>4, <1>5, <2>1 DEF Sound, OnePlace
<1>10. RowsAreMarked(b, p, x, h)
  <2>1. \A y \in Msgs : b.row[y].queued => b.row[y].known
    BY <1>2, <1>4 DEF Sound, RowsAreMarked, FailedRows
  <2>2. \A y \in Msgs : Pending(b, p, y) <=> Pending(n, p, y)
    BY <1>4 DEF Pending
  <2>3. \A y \in S : ~Pending(n, p, y)
    BY <1>6 DEF Pending
  <2>4. \A y \in Msgs : b.row[y].queued => n.row[y].queued
    BY <1>2, <1>4 DEF Sound, RowsAreMarked, FailedRows
  <2>5. \A y \in Msgs \ S : b.row[y] = n.row[y]
    BY <1>2, <1>4 DEF FailedRows
  <2> QED BY <1>4, <2>1, <2>2, <2>3, <2>4, <2>5 DEF Sound, RowsAreMarked
<1>11. S = {} => b.row[m] = n.row[m]
  BY <1>2, <1>4 DEF FailedRows
<1> QED BY <1>1, <1>4, <1>8, <1>9, <1>10, <1>11 DEF Sound, Dropped

\* The queue is dropped with a closed session.
LEMMA ClosedIsSound ==
  ASSUME NEW n, NEW p, NEW x, NEW h, NEW s, NEW r, Sound(n, p, x, h, s, r), n.status = "ended"
  PROVE  LET b == [n EXCEPT !.queue = <<>>] IN
         Sound(b, p, x, h, s, r) /\ b.status = n.status /\ b.queue = <<>>
         /\ b.row = n.row /\ b.turn = n.turn
<1> DEFINE b == [n EXCEPT !.queue = <<>>]
<1>1. n \in Nows /\ <<>> \in Seq(Msgs) /\ Waiting(<<>>) = {} /\ Distinct(<<>>)
  BY EmptyWaits DEF Sound
<1>2. b \in Nows /\ b.status = n.status /\ b.queue = <<>> /\ b.row = n.row /\ b.turn = n.turn
  BY <1>1, QueueIs
<1> HIDE DEF b
<1>3. TakenIsOnRecord(b, h, s, r)
  BY <1>1, <1>2 DEF Sound, TakenIsOnRecord, Taken, OnRecord
<1>4. OnePlace(b, h, r)
  BY <1>1, <1>2 DEF Sound, OnePlace
<1>5. RowsAreMarked(b, p, x, h)
  BY <1>2 DEF Sound, RowsAreMarked
<1> QED BY <1>2, <1>3, <1>4, <1>5 DEF Sound, b

\* The turns t once the head of the queue, or nothing, has begun.
Drained(t, u) ==
  \/ t = u
  \/ /\ \A y \in Msgs : u[y].pc = "none"
     /\ \E m \in Msgs : t = [u EXCEPT ![m] = [pc |-> "sent", kind |-> "plain", aborted |-> FALSE]]

\* Finished, of a record in which the turn is over.
QueueDone(n, m, over) ==
  CASE n.status \in {"idle", "streaming"} /\ Others(m) = {} /\ steer = NoSteer ->
         IF n.queue # <<>> THEN BegunHead(over) ELSE [over EXCEPT !.status = "idle"]
    [] n.status \in Over ->
         [(IF n.status = "ended" THEN over ELSE MarkFailed(over, Waiting(n.queue)))
            EXCEPT !.queue = <<>>]
    [] OTHER -> over

LEMMA FinishedIs ==
  ASSUME NEW n, NEW m, NEW over, over = [n EXCEPT !.turn[m] = NoTurn]
  PROVE  Finished(n, m) = QueueDone(n, m, over)
  BY DEF Finished, QueueDone

Drains(b, n, m, over) ==
  /\ m \notin Waiting(b.queue) \/ steer = NoSteer
  /\ steer # NoSteer => b.turn = over.turn /\ b.status = n.status /\ b.row[m] = over.row[m]
  /\ steer # NoSteer /\ b.status \notin Over => b.queue = n.queue
  /\ Drained(b.turn, over.turn)
  /\ b.status = "streaming" /\ steer = NoSteer => \E y \in Msgs : b.turn[y].pc # "none"
  /\ b.status = "ended" => n.status = "ended"

\* What the end of a turn does with the queue.
LEMMA FinishedIsSound ==
  ASSUME NEW n, NEW p, NEW x, NEW h, NEW s, NEW r, NEW m \in Msgs, NEW over,
         over.status = n.status, over.queue = n.queue,
         Sound(over, p, x, h, s, r), p \notin Waiting(n.queue),
         m \notin Waiting(n.queue), steer = NoSteer => x = NoMsg,
         \A y \in Msgs : over.turn[y].pc # "none" <=> y \in Others(m),
         NEW b, b = QueueDone(n, m, over)
  PROVE  /\ Sound(b, p, x, h, s, r)
         /\ Drains(b, n, m, over)
<1>b. \A st \in {"idle", "streaming"} : st \notin Over
  BY DEF Over
<1>0. over \in Nows /\ n.status \in Statuses /\ over.turn \in [Msgs -> Turns] /\ n.queue \in Seq(Msgs)
  BY DEF Sound, Nows
<1>1. CASE n.status \in {"idle", "streaming"} /\ Others(m) = {} /\ steer = NoSteer /\ n.queue # <<>>
  <2>1. b = BegunHead(over)
    BY <1>1, <1>b DEF QueueDone
  <2>2. over.status # "ended" /\ x = NoMsg /\ over.queue = n.queue /\ over.queue # <<>>
    BY <1>1
  <2>2a. PICK y : y = Head(over.queue)
    OBVIOUS
  <2>2b. Sound(over, p, NoMsg, h, s, r) /\ p \notin Waiting(over.queue)
    BY <2>2
  <2>3. /\ Sound(b, p, NoMsg, h, s, r) /\ y \in Waiting(n.queue)
        /\ b.turn = [over.turn EXCEPT ![y] = [pc |-> "sent", kind |-> "plain", aborted |-> FALSE]]
    BY <2>1, <2>2, <2>2a, <2>2b, BegunHeadIsSound
  <2>3a. b.status = "streaming"
    BY <2>1, <2>2, <2>2b, BegunHeadIsSound
  <2>4. y \in Msgs
    BY <1>0, <1>1, <2>2a, TailWaits
  <2>5. b.turn[y].pc = "sent"
    BY <1>0, <2>3, <2>4
  <2>6. \A z \in Msgs : over.turn[z].pc = "none"
    BY <1>1
  <2> QED BY <1>1, <2>2, <2>3, <2>3a, <2>4, <2>5, <2>6 DEF Drains, Drained
<1>2. CASE n.status \in {"idle", "streaming"} /\ Others(m) = {} /\ steer = NoSteer /\ n.queue = <<>>
  <2>1. b = [over EXCEPT !.status = "idle"]
    BY <1>2, <1>b DEF QueueDone
  <2>2. "idle" \in Statuses /\ over.status # "ended"
    BY <1>2 DEF Statuses
  <2>3. b \in Nows /\ b.status = "idle" /\ b.queue = over.queue /\ b.row = over.row /\ b.turn = over.turn
    BY <1>0, <2>1, <2>2 DEF Nows
  <2>4. Sound(b, p, x, h, s, r)
    BY <2>2, <2>3, SamePlacesIsSound
  <2> QED BY <1>2, <2>3, <2>4 DEF Drains, Drained
<1>3. CASE n.status = "ended"
  <2>1. b = [over EXCEPT !.queue = <<>>]
    BY <1>3, <1>b DEF QueueDone, Over
  <2>2. /\ Sound(b, p, x, h, s, r) /\ b.status = over.status /\ b.queue = <<>>
        /\ b.row = over.row /\ b.turn = over.turn
    BY <1>3, <2>1, ClosedIsSound
  <2> QED BY <1>3, <2>2, EmptyWaits DEF Drains, Drained, Over
<1>4. CASE n.status \in Over /\ n.status # "ended"
  <2>1. b = [MarkFailed(over, Waiting(n.queue)) EXCEPT !.queue = <<>>]
    BY <1>4, <1>b DEF QueueDone, Over
  <2>2. \A y \in Waiting(n.queue) : y # p /\ (y \in Msgs => over.turn[y].pc = "none" /\ h[y] <= r)
    <3>1. \A y \in Waiting(n.queue) : y \in Msgs
      BY <1>0 DEF Waiting
    <3>2. h \in [Msgs -> Nat] /\ r \in Nat
      BY DEF Sound
    <3> QED BY <3>1, <3>2, EmptyWaits DEF Sound, OnePlace
  <2> DEFINE f == MarkFailed(over, Waiting(n.queue))
  <2>4. b = [f EXCEPT !.queue = <<>>]
    BY <2>1
  <2>1a. f = MarkFailed(over, Waiting(n.queue))
    OBVIOUS
  <2> HIDE DEF f
  <2>3. /\ f \in Nows
        /\ f.status = over.status /\ f.queue = over.queue /\ f.turn = over.turn
        /\ FailedRows(f, over, Waiting(n.queue))
    BY <1>0, <2>1a, MarkFailedIs
  <2>5. b \in Nows /\ b.status = over.status /\ b.queue = <<>> /\ b.row = f.row /\ b.turn = over.turn
    BY <2>3, <2>4, EmptyWaits DEF Nows
  <2>6. FailedRows(b, over, Waiting(n.queue))
    BY <2>3, <2>5 DEF FailedRows
  <2>7. /\ Distinct(b.queue) /\ Waiting(b.queue) = {}
        /\ Waiting(over.queue) \ Waiting(b.queue) \subseteq Waiting(n.queue)
    BY <2>5, EmptyWaits
  <2>8. Sound(b, p, x, h, s, r)
    BY <2>2, <2>5, <2>6, <2>7, MarkedIsSound
  <2> QED BY <1>4, <2>5, <2>6, <2>7, <2>8 DEF Drains, Drained, Over, FailedRows
<1>5. CASE n.status \in {"idle", "streaming"} /\ ~(Others(m) = {} /\ steer = NoSteer)
  <2>1. b = over
    BY <1>5, <1>b DEF QueueDone, Over
  <2>2. steer = NoSteer => \E y \in Msgs : over.turn[y].pc # "none"
    <3>1. \A y \in Others(m) : y \in Msgs
      BY DEF Others, Running
    <3> QED BY <1>5, <3>1
  <2> QED BY <1>5, <2>1, <2>2 DEF Drains, Drained
<1> QED BY <1>0, <1>1, <1>2, <1>3, <1>4, <1>5 DEF Statuses, Over

\* The end of a promotion drains what its turn could not.
LEMMA SettledIsSound ==
  ASSUME NEW n, NEW h, NEW s, NEW r, Sound(n, NoMsg, NoMsg, h, s, r)
  PROVE  LET b == Settled(n) IN
         /\ Sound(b, NoMsg, NoMsg, h, s, r)
         /\ Drained(b.turn, n.turn)
         /\ b.status = "ended" => n.status = "ended"
         /\ b.status = "streaming" => \/ \E y \in Msgs : b.turn[y].pc # "none"
                                      \/ ambient
                                      \/ n.status = "streaming" /\ n.queue = <<>>
<1> DEFINE b == Settled(n)
<1>0. n \in Nows /\ n.turn \in [Msgs -> Turns] /\ n.queue \in Seq(Msgs)
  BY DEF Sound, Nows
<1>1. CASE n.status \in {"idle", "streaming"} /\ Running(n.turn) = {} /\ ~ambient /\ n.queue # <<>>
  <2>1. b = BegunHead(n)
    BY <1>1 DEF Settled
  <2> HIDE DEF b
  <2>2a. PICK y : y = Head(n.queue)
    OBVIOUS
  <2>2. NoMsg \notin Waiting(n.queue)
    BY <1>0, WakesAreMessages DEF Waiting
  <2>3. /\ Sound(b, NoMsg, NoMsg, h, s, r) /\ y \in Waiting(n.queue)
        /\ b.turn = [n.turn EXCEPT ![y] = [pc |-> "sent", kind |-> "plain", aborted |-> FALSE]]
    BY <1>1, <2>1, <2>2, <2>2a, BegunHeadIsSound
  <2>3a. b.status = "streaming"
    BY <1>1, <2>1, <2>2, BegunHeadIsSound
  <2>4. y \in Msgs
    BY <1>0, <1>1, <2>2a, TailWaits
  <2>5. b.turn[y].pc = "sent"
    BY <1>0, <2>3, <2>4
  <2>6. \A z \in Msgs : n.turn[z].pc = "none"
    BY <1>1 DEF Running
  <2> QED BY <2>3, <2>3a, <2>4, <2>5, <2>6 DEF Drained, b
<1>2. CASE ~(n.status \in {"idle", "streaming"} /\ Running(n.turn) = {} /\ ~ambient /\ n.queue # <<>>)
  <2>1. b = n
    BY <1>2 DEF Settled
  <2>2. Running(n.turn) # {} => \E y \in Msgs : n.turn[y].pc # "none"
    BY DEF Running
  <2> HIDE DEF b
  <2> QED BY <1>2, <2>1, <2>2 DEF Drained, b
<1> QED BY <1>1, <1>2

\* A refused promotion goes back into the queue, or is marked failed.
LEMMA PutBackIsSound ==
  ASSUME NEW n, NEW h, NEW s, NEW r, NEW m \in Msgs, Sound(n, NoMsg, m, h, s, r),
         OnRecord(n, s, m), m \notin Waiting(n.queue), n.turn[m].pc = "none", h[m] <= r,
         m \notin Wakes, n.status # "ended" => n.row[m].queued, steer.index \in Nat \ {0}
  PROVE  LET b == PutBack(n, m) IN
         /\ Sound(b, NoMsg, NoMsg, h, s, r)
         /\ b.status = n.status /\ b.turn = n.turn
         /\ n.status \notin Over => b.queue # <<>>
<1> DEFINE b == PutBack(n, m)
<1>0. n \in Nows /\ n.queue \in Seq(Msgs) /\ n.row \in [Msgs -> Cells] /\ m # NoMsg
  BY WakesAreMessages DEF Sound, Nows
<1>1. CASE n.status \in Over
  <2> DEFINE f == MarkFailed(n, {m})
  <2>1. b = f
    BY <1>1 DEF PutBack
  <2>2. /\ f \in Nows
        /\ f.status = n.status /\ f.queue = n.queue /\ f.turn = n.turn
        /\ FailedRows(f, n, {m})
    BY <1>0, MarkFailedIs
  <2> HIDE DEF f
  <2>3. Distinct(f.queue)
    BY <2>2 DEF Sound, OnePlace
  <2>4. \A y \in {m} : y \notin Waiting(f.queue) /\ y # NoMsg
                        /\ (y \in Msgs => n.turn[y].pc = "none" /\ h[y] <= r)
    BY <1>0, <2>2
  <2>5. Waiting(f.queue) = Waiting(n.queue)
    BY <2>2
  <2>6. Sound(f, NoMsg, m, h, s, r)
    BY <2>2, <2>3, <2>4, <2>5, MarkedIsSound
  <2> HIDE DEF b
  <2>7. ~f.row[m].queued
    BY <2>2 DEF Sound, RowsAreMarked, FailedRows
  <2>8. Sound(f, NoMsg, NoMsg, h, s, r)
    BY <1>0, <2>2, <2>6, <2>7, ExemptIsSound
  <2> QED BY <1>1, <2>1, <2>2, <2>8 DEF b
<1>2. CASE n.status \notin Over
  <2> DEFINE i == Smaller(steer.index, Len(n.queue) + 1)
             q == With(n.queue, i, m)
  <2>1. i \in 1..Len(n.queue) + 1
    BY <1>0 DEF Smaller
  <2> HIDE DEF i
  <2>2. /\ q \in Seq(Msgs) /\ q # <<>> /\ Waiting(q) = Waiting(n.queue) \cup {m} /\ Distinct(q)
    BY <1>0, <2>1, WithWaits DEF Sound, OnePlace
  <2>3. b = [n EXCEPT !.queue = q]
    BY <1>2, <1>0 DEF PutBack, Nows, i
  <2> HIDE DEF b, q
  <2>4. b \in Nows /\ b.status = n.status /\ b.queue = q /\ b.row = n.row /\ b.turn = n.turn
    BY <1>0, <2>2, <2>3, QueueIs
  <2>5. n.row[m].queued /\ (n.row[m].queued => n.row[m].known)
    BY <1>2 DEF Over, Sound, RowsAreMarked
  <2>6. Sound(b, NoMsg, NoMsg, h, s, r)
    BY <1>0, <2>2, <2>4, <2>5, PlacedIsSound
  <2> QED BY <2>2, <2>4, <2>6 DEF b
<1> QED BY <1>1, <1>2

----------------------------------------------------------------------------
(* The end of a turn.                                                       *)

LEMMA NowIsSound ==
  ASSUME IInv
  PROVE  /\ now \in Nows
         /\ now.status = status /\ now.queue = queue /\ now.row = row /\ now.turn = turn
         /\ Sound(now, steer.msg, NoMsg, handed, sent, restarts)
         /\ steer.msg \in Msgs => /\ turn[steer.msg].pc = "sent" /\ turn[steer.msg].kind = "steer"
                                  /\ steer.msg \notin Wakes /\ steer.index \in Nat \ {0}
         /\ steer = NoSteer <=> steer.msg = NoMsg
         /\ steer.msg \notin Waiting(queue)
         /\ Waiting(queue) \subseteq Msgs
<1>1. /\ now \in Nows
      /\ now.status = status /\ now.queue = queue /\ now.row = row /\ now.turn = turn
  BY DEF IInv, Sound, now
<1>2. Sound(now, steer.msg, NoMsg, handed, sent, restarts)
  BY DEF IInv
<1>3. \A m \in Waiting(queue) : m \in Msgs /\ turn[m].pc = "none"
  BY <1>1, <1>2 DEF Sound, OnePlace, Waiting, Nows
<1>4. NoSteer.msg = NoMsg
  BY DEF NoSteer
<1> QED BY <1>1, <1>2, <1>3, <1>4, WakesAreMessages DEF IInv, SteerIsSent

\* The verdict on the session when the turn of m is over: only the status changes,
\* and it says that the session streams when something else will end that.
VerdictIs(j, m) ==
  /\ j \in Nows /\ j.queue = queue /\ j.row = row /\ j.turn = turn
  /\ j.status = "ended" <=> status = "ended"
  /\ j.status = "streaming" => Others(m) # {} \/ queue # <<>> \/ ambient

LEMMA VerdictOn ==
  ASSUME IInv, NEW m \in Msgs, NEW st \in Statuses, NEW j, j = [now EXCEPT !.status = st],
         st = "ended" <=> status = "ended",
         st = "streaming" => Others(m) # {} \/ queue # <<>> \/ ambient
  PROVE  VerdictIs(j, m)
<1>1. /\ now \in Nows
      /\ now.queue = queue /\ now.row = row /\ now.turn = turn
  BY NowIsSound
<1>2. j \in Nows /\ j.status = st /\ j.queue = now.queue /\ j.row = now.row /\ j.turn = now.turn
  BY <1>1 DEF Nows
<1> QED BY <1>1, <1>2 DEF VerdictIs

LEMMA JudgedIs ==
  ASSUME IInv, NEW m \in Msgs, NEW j, j = Judged(m)
  PROVE  VerdictIs(j, m)
<1>1. now \in Nows /\ now.status = status /\ status \in Statuses
  BY NowIsSound DEF Nows
<1> DEFINE st == CASE status = "ended"   -> "ended"
       [] status # "ended" /\ turn[m].aborted
                             -> IF Others(m) = {} THEN "interrupted" ELSE status
       [] OTHER              -> IF Others(m) # {} \/ queue # <<>> \/ ambient
                                THEN "streaming" ELSE "idle"
<1>2. j = [now EXCEPT !.status = st]
  BY <1>1 DEF Judged
<1>3. CASE status = "ended"
  <2>1. st = "ended"
    BY <1>3
  <2> QED BY <1>1, <1>2, <1>3, <2>1, VerdictOn
<1>4. CASE status # "ended" /\ turn[m].aborted
  <2>1. st = IF Others(m) = {} THEN "interrupted" ELSE status
    BY <1>4
  <2> HIDE DEF st
  <2>2. st \in Statuses /\ st # "ended" /\ (st = "streaming" => Others(m) # {})
    BY <1>1, <1>4, <2>1 DEF Statuses, Over
  <2> QED BY <1>2, <1>4, <2>2, VerdictOn
<1>5. CASE status # "ended" /\ ~turn[m].aborted
  <2>1. st = IF Others(m) # {} \/ queue # <<>> \/ ambient THEN "streaming" ELSE "idle"
    BY <1>5
  <2> HIDE DEF st
  <2>2. /\ st \in Statuses /\ st # "ended"
        /\ st = "streaming" => Others(m) # {} \/ queue # <<>> \/ ambient
    BY <1>1, <1>5, <2>1 DEF Statuses, Over
  <2> QED BY <1>2, <1>5, <2>2, VerdictOn
<1> QED BY <1>3, <1>4, <1>5

LEMMA NothingFails ==
  ASSUME NEW n \in Nows
  PROVE  MarkFailed(n, {}) = n
<1> DEFINE b == MarkFailed(n, {})
<1>1. b = MarkFailed(n, {})
  OBVIOUS
<1> HIDE DEF b
<1>2. /\ b \in Nows
      /\ b.status = n.status /\ b.queue = n.queue /\ b.turn = n.turn
      /\ \A y \in Msgs : b.row[y] = n.row[y]
  BY <1>1, MarkFailedIs DEF FailedRows
<1>3. b.row = n.row
  BY <1>2 DEF Nows
<1>4. b = n
  BY <1>2, <1>3 DEF Nows
<1> QED BY <1>1, <1>4

LEMMA JudgedFailedIs ==
  ASSUME IInv, NEW m \in Msgs, NEW j, j = JudgedFailed(m)
  PROVE  \E k \in Nows, S \in {{}, {m}} :
           /\ VerdictIs(k, m) /\ j = MarkFailed(k, S)
           /\ S # {} => turn[m].pc = "sent" /\ turn[m].kind # "steer"
<1>1. now \in Nows /\ now.status = status /\ status \in Statuses
  BY NowIsSound DEF Nows
<1> DEFINE quiet == IF Others(m) # {} THEN status ELSE IF queue = <<>> THEN "idle" ELSE "streaming"
           loud == IF Others(m) = {} THEN "error" ELSE status
           S == IF turn[m].kind = "steer" THEN {} ELSE {m}
<1>2. CASE status = "ended" \/ turn[m].aborted
  <2>1. j = Judged(m)
    BY <1>2 DEF JudgedFailed
  <2>2. VerdictIs(j, m)
    BY <2>1, JudgedIs
  <2>3. j \in Nows
    BY <2>2 DEF VerdictIs
  <2>4. j = MarkFailed(j, {})
    BY <2>3, NothingFails
  <2> WITNESS j \in Nows, {} \in {{}, {m}}
  <2> QED BY <2>2, <2>4
<1>3. CASE status # "ended" /\ ~turn[m].aborted /\ Refused(m)
  <2> DEFINE k == [now EXCEPT !.status = quiet]
  <2>1. j = MarkFailed(k, S)
    BY <1>1, <1>3 DEF JudgedFailed
  <2>2. /\ quiet \in Statuses /\ quiet # "ended"
        /\ quiet = "streaming" => Others(m) # {} \/ queue # <<>> \/ ambient
    BY <1>1, <1>3 DEF Statuses, Over
  <2>3. turn[m].pc = "sent"
    BY <1>3 DEF Refused
  <2> HIDE DEF quiet
  <2>4. VerdictIs(k, m)
    BY <1>3, <2>2, VerdictOn
  <2>5. k \in Nows
    BY <2>4 DEF VerdictIs
  <2>6. S \in {{}, {m}} /\ (S = {} \/ turn[m].kind # "steer")
    OBVIOUS
  <2> HIDE DEF k, S
  <2> QED BY <2>1, <2>3, <2>4, <2>5, <2>6
<1>4. CASE status # "ended" /\ ~turn[m].aborted /\ ~Refused(m)
  <2> DEFINE k == [now EXCEPT !.status = loud]
  <2>1. j = k
    BY <1>1, <1>4 DEF JudgedFailed
  <2>2. /\ loud \in Statuses /\ loud # "ended"
        /\ loud = "streaming" => Others(m) # {}
    BY <1>1, <1>4 DEF Statuses, Over
  <2> HIDE DEF loud
  <2>4. VerdictIs(k, m)
    BY <1>4, <2>2, VerdictOn
  <2>5. k \in Nows
    BY <2>4 DEF VerdictIs
  <2>6. j = MarkFailed(k, {})
    BY <2>1, <2>5, NothingFails
  <2> HIDE DEF k
  <2> WITNESS k \in Nows, {} \in {{}, {m}}
  <2> QED BY <2>4, <2>6
<1> QED BY <1>2, <1>3, <1>4

\* The promotion that still waits for its input when the turn of m is over.
Awaited(m) == IF steer.msg = m THEN NoMsg ELSE steer.msg

Turnless(m) == [turn EXCEPT ![m] = NoTurn]

\* What the end of the turn of m leaves behind.
EndOf(b, m, h) ==
  /\ Sound(b, Awaited(m), NoMsg, h, sent, restarts)
  /\ Drained(b.turn, Turnless(m))
  /\ b.status = "streaming" => (\E y \in Msgs : b.turn[y].pc # "none") \/ ambient
  /\ steer.msg # NoMsg /\ steer.msg # m => b.turn = Turnless(m)
  /\ b.status = "ended" => status = "ended"

LEMMA RunningIsSound ==
  ASSUME IInv, NEW m \in Msgs, turn[m].pc # "none"
  PROVE  /\ m \notin Waiting(queue) /\ Awaited(m) \notin Waiting(queue) /\ Awaited(m) # m
         /\ OnRecord(now, sent, m)
         /\ turn[m].pc = "sent" => handed[m] <= restarts
         /\ turn[m].pc # "sent" => steer.msg # m
         /\ Turnless(m) \in [Msgs -> Turns] /\ Turnless(m)[m].pc = "none"
         /\ \A y \in Msgs : Turnless(m)[y].pc # "none" <=> y \in Others(m)
         /\ handed \in [Msgs -> Nat] /\ restarts \in Nat /\ turn[m].pc \in {"sent", "started"}
<1>1. /\ now \in Nows
      /\ now.queue = queue /\ now.row = row /\ now.turn = turn
      /\ Sound(now, steer.msg, NoMsg, handed, sent, restarts)
      /\ steer.msg \notin Waiting(queue) /\ Waiting(queue) \subseteq Msgs
      /\ steer.msg \in Msgs => turn[steer.msg].pc = "sent"
  BY NowIsSound
<1>2. /\ handed \in [Msgs -> Nat] /\ restarts \in Nat /\ turn \in [Msgs -> Turns]
      /\ turn[m].pc \in {"sent", "started"}
  BY <1>1 DEF Sound, Nows, Turns
<1>3. m \notin Waiting(queue)
  BY <1>1 DEF Sound, OnePlace
<1>4. Awaited(m) \notin Waiting(queue) /\ Awaited(m) # m
  BY <1>1, WakesAreMessages DEF Awaited
<1>5. OnRecord(now, sent, m)
  BY <1>1 DEF Sound, TakenIsOnRecord, Taken
<1>6. turn[m].pc = "sent" => handed[m] <= restarts
  BY <1>1, <1>2 DEF Sound, OnePlace
<1>7. NoTurn \in Turns /\ NoTurn.pc = "none"
  BY DEF NoTurn, Turns, Kinds
<1>8. Turnless(m) \in [Msgs -> Turns] /\ \A y \in Msgs : Turnless(m)[y] = IF y = m THEN NoTurn ELSE turn[y]
  BY <1>2, <1>7 DEF Turnless
<1>9. \A y \in Msgs : Turnless(m)[y].pc # "none" <=> y \in Others(m)
  BY <1>7, <1>8 DEF Others, Running
<1> QED BY <1>1, <1>2, <1>3, <1>4, <1>5, <1>6, <1>7, <1>8, <1>9

\* The turn of m ended well, and its input was taken.
LEMMA OverIsSound ==
  ASSUME IInv, NEW m \in Msgs, turn[m].pc # "none", NEW j, j.queue = queue, j.turn = turn,
         Sound(j, Awaited(m), m, handed, sent, restarts),
         steer.msg # m => Sound(j, steer.msg, NoMsg, handed, sent, restarts),
         NEW h, h = IF turn[m].pc = "sent" THEN [handed EXCEPT ![m] = @ + 1] ELSE handed,
         NEW over, over = [j EXCEPT !.turn[m] = NoTurn]
  PROVE  /\ Sound(over, Awaited(m), NoMsg, h, sent, restarts)
         /\ over.status = j.status /\ over.queue = queue /\ over.turn = Turnless(m)
<1>1. /\ m \notin Waiting(queue) /\ Awaited(m) # m
      /\ turn[m].pc = "sent" => handed[m] <= restarts
      /\ turn[m].pc # "sent" => steer.msg # m
      /\ handed \in [Msgs -> Nat] /\ restarts \in Nat
  BY RunningIsSound
<1>2. NoTurn \in Turns /\ NoTurn.pc = "none"
  BY DEF NoTurn, Turns, Kinds
<1>3. j \in Nows /\ OnRecord(j, sent, m)
  BY DEF Sound, TakenIsOnRecord, Taken
<1>4. NoTurn.pc \in {"none", "started", j.turn[m].pc} /\ m \notin Waiting(j.queue)
  BY <1>1, <1>2
<1> HIDE DEF NoTurn
<1>5. /\ over \in Nows /\ over.status = j.status /\ over.queue = j.queue /\ over.row = j.row
      /\ over.turn = Turnless(m)
  BY <1>2, <1>3, TurnIs DEF Turnless
<1>6. Turnless(m)[m].pc = "none"
  BY RunningIsSound
<1>7. CASE turn[m].pc # "sent"
  <2>1. Sound(j, Awaited(m), NoMsg, handed, sent, restarts)
    BY <1>1, <1>7 DEF Awaited
  <2>2. Sound(over, Awaited(m), NoMsg, handed, sent, restarts)
    BY <1>2, <1>4, <2>1, TurnIsSound
  <2> QED BY <1>5, <1>7, <2>2
<1>8. CASE turn[m].pc = "sent"
  <2>1. Sound(over, Awaited(m), m, handed, sent, restarts)
    BY <1>2, <1>4, TurnIsSound
  <2>2. OnRecord(over, sent, m)
    BY <1>3, <1>5 DEF OnRecord
  <2>3. m \notin Waiting(over.queue) /\ over.turn[m].pc # "sent"
    BY <1>1, <1>5, <1>6
  <2>4. Sound(over, Awaited(m), m, [handed EXCEPT ![m] = @ + 1], sent, restarts)
    BY <1>1, <1>8, <2>1, <2>2, <2>3, HandIsSound
  <2>5. h = [handed EXCEPT ![m] = @ + 1] /\ h[m] > 0
    BY <1>1, <1>8
  <2> QED BY <1>1, <1>5, <2>3, <2>4, <2>5, ExemptIsSound
<1> QED BY <1>7, <1>8

\* The end of a turn nobody promoted, or whose promotion has settled.
LEMMA EndIsSound ==
  ASSUME IInv, NEW m \in Msgs, turn[m].pc # "none", steer.msg # m,
         NEW j, j.queue = queue, j.status = "ended" => status = "ended", NEW h, NEW over, NEW b, b = QueueDone(j, m, over),
         over.status = j.status, over.queue = queue, over.turn = Turnless(m),
         Sound(over, Awaited(m), NoMsg, h, sent, restarts)
  PROVE  EndOf(b, m, h)
<1>1. /\ m \notin Waiting(queue) /\ Awaited(m) \notin Waiting(queue)
      /\ \A y \in Msgs : Turnless(m)[y].pc # "none" <=> y \in Others(m)
  BY RunningIsSound
<1>2. /\ steer = NoSteer <=> steer.msg = NoMsg
      /\ steer.msg \in Msgs => turn[steer.msg].pc = "sent"
  BY NowIsSound
<1>4. /\ Sound(b, Awaited(m), NoMsg, h, sent, restarts)
      /\ steer # NoSteer => b.turn = over.turn
      /\ Drained(b.turn, over.turn)
      /\ b.status = "streaming" /\ steer = NoSteer => \E y \in Msgs : b.turn[y].pc # "none"
      /\ b.status = "ended" => status = "ended"
  <2> DEFINE p == Awaited(m)
  <2>1. p \notin Waiting(j.queue) /\ m \notin Waiting(j.queue) /\ over.queue = j.queue
        /\ Sound(over, p, NoMsg, h, sent, restarts)
        /\ \A y \in Msgs : over.turn[y].pc # "none" <=> y \in Others(m)
    BY <1>1
  <2> HIDE DEF p
  <2>2. /\ Sound(b, p, NoMsg, h, sent, restarts)
        /\ Drains(b, j, m, over)
    BY <2>1, FinishedIsSound
  <2> QED BY <2>2 DEF p, Drains
<1>5. steer # NoSteer => \E y \in Msgs : b.turn[y].pc # "none"
  <2> SUFFICES ASSUME steer # NoSteer PROVE \E y \in Msgs : b.turn[y].pc # "none"
    OBVIOUS
  <2>1. steer.msg \in Msgs \ {m}
    BY <1>2 DEF IInv, SteerIsSent
  <2>2. steer.msg \in Others(m)
    BY <1>2, <2>1 DEF Others, Running
  <2> QED BY <1>1, <1>4, <2>1, <2>2
<1> QED BY <1>2, <1>4, <1>5 DEF EndOf

\* The turn of a promotion whose input was not taken is over: nothing is drained yet.
LEMMA PromotionEnds ==
  ASSUME IInv, NEW m \in Msgs, turn[m].pc # "none", steer.msg = m,
         NEW j, j.queue = queue, NEW h, NEW x, NEW over, NEW b, b = QueueDone(j, m, over),
         over.status = j.status, over.queue = queue, over.turn = Turnless(m),
         Sound(over, NoMsg, x, h, sent, restarts)
  PROVE  /\ Sound(b, NoMsg, x, h, sent, restarts)
         /\ m \notin Waiting(b.queue) /\ b.turn = Turnless(m) /\ b.status = j.status
         /\ b.row[m] = over.row[m]
         /\ b.status \notin Over => b.queue = queue
<1>1. /\ m \notin Waiting(queue) /\ m # NoMsg
      /\ \A y \in Msgs : over.turn[y].pc # "none" <=> y \in Others(m)
  BY RunningIsSound, WakesAreMessages
<1>2. steer # NoSteer
  BY <1>1, NowIsSound
<1>3. NoMsg \notin Waiting(queue)
  BY NowIsSound, WakesAreMessages
<1>4. Sound(b, NoMsg, x, h, sent, restarts) /\ Drains(b, j, m, over)
  BY <1>1, <1>2, <1>3, FinishedIsSound
<1> QED BY <1>2, <1>4 DEF Drains

LEMMA PromotionSettles ==
  ASSUME IInv, NEW m \in Msgs, turn[m].pc # "none", steer.msg = m,
         NEW h, NEW g, Sound(g, NoMsg, NoMsg, h, sent, restarts), g.turn = Turnless(m),
         g.status = "streaming" /\ g.queue = <<>> => Others(m) # {} \/ ambient,
         g.status = "ended" => status = "ended"
  PROVE  EndOf(Settled(g), m, h)
<1> DEFINE b == Settled(g)
<1>1. /\ Sound(b, NoMsg, NoMsg, h, sent, restarts)
      /\ Drained(b.turn, Turnless(m))
      /\ b.status = "ended" => g.status = "ended"
      /\ b.status = "streaming" => \/ \E y \in Msgs : b.turn[y].pc # "none"
                                   \/ ambient
                                   \/ g.status = "streaming" /\ g.queue = <<>>
  BY SettledIsSound
<1> HIDE DEF b
<1>2. Others(m) # {} => \E y \in Msgs : Turnless(m)[y].pc # "none"
  <2>1. \A y \in Others(m) : y \in Msgs
    BY DEF Others, Running
  <2> QED BY <2>1, RunningIsSound
<1>3. (\E y \in Msgs : Turnless(m)[y].pc # "none") => \E y \in Msgs : b.turn[y].pc # "none"
  BY <1>1 DEF Drained
<1>4. Awaited(m) = NoMsg
  BY DEF Awaited
<1> QED BY <1>1, <1>2, <1>3, <1>4 DEF EndOf, b

LEMMA TurnEndsIsSound ==
  ASSUME IInv, NEW m \in Msgs, turn[m].pc # "none",
         NEW h, h = IF turn[m].pc = "sent" THEN [handed EXCEPT ![m] = @ + 1] ELSE handed
  PROVE  /\ steer.msg # m => EndOf(Finished(Judged(m), m), m, h)
         /\ steer.msg = m => EndOf(Settled(Finished(Consumed(Judged(m), m), m)), m, h)
<1> DEFINE j == Judged(m)
<1>1. VerdictIs(j, m)
  BY JudgedIs
<1>2. /\ now \in Nows /\ now.status = status
      /\ now.queue = queue /\ now.row = row /\ now.turn = turn
      /\ Sound(now, steer.msg, NoMsg, handed, sent, restarts)
  BY NowIsSound
<1> HIDE DEF j
<1>3. /\ j \in Nows /\ j.queue = now.queue /\ j.row = now.row
      /\ \A y \in Msgs : j.turn[y].pc = now.turn[y].pc
      /\ now.status = "ended" => j.status = "ended"
  BY <1>1, <1>2 DEF VerdictIs
<1>4. Sound(now, Awaited(m), m, handed, sent, restarts)
  BY <1>2, ReleasedIsSound DEF Awaited
<1>5. /\ Sound(j, steer.msg, NoMsg, handed, sent, restarts)
      /\ Sound(j, Awaited(m), m, handed, sent, restarts)
  BY <1>2, <1>3, <1>4, SamePlacesIsSound
<1>6. ASSUME steer.msg # m
      PROVE  EndOf(Finished(j, m), m, h)
  <2>1. PICK over : over = [j EXCEPT !.turn[m] = NoTurn]
    OBVIOUS
  <2>2. /\ Sound(over, Awaited(m), NoMsg, h, sent, restarts)
        /\ over.status = j.status /\ over.queue = queue /\ over.turn = Turnless(m)
    BY <1>1, <1>5, <2>1, OverIsSound DEF VerdictIs
  <2>3. PICK b : b = Finished(j, m)
    OBVIOUS
  <2>4. b = QueueDone(j, m, over)
    BY <2>1, <2>3, FinishedIs
  <2>5. EndOf(b, m, h)
    BY <1>1, <1>6, <2>2, <2>4, EndIsSound DEF VerdictIs
  <2> QED BY <2>3, <2>5
<1>7. ASSUME steer.msg = m
      PROVE  EndOf(Settled(Finished(Consumed(j, m), m)), m, h)
  <2>1. PICK c : c = Consumed(j, m)
    OBVIOUS
  <2>2. m \notin Waiting(j.queue) /\ Awaited(m) # m
    BY <1>1, RunningIsSound DEF VerdictIs
  <2>3. /\ Sound(c, Awaited(m), m, handed, sent, restarts)
        /\ c.status = j.status /\ c.queue = queue /\ c.turn = turn
    BY <1>1, <1>5, <2>1, <2>2, ConsumedIsSound DEF VerdictIs
  <2>4. PICK over : over = [c EXCEPT !.turn[m] = NoTurn]
    OBVIOUS
  <2>5. /\ Sound(over, Awaited(m), NoMsg, h, sent, restarts)
        /\ over.status = c.status /\ over.queue = queue /\ over.turn = Turnless(m)
    <3>1. steer.msg # m => Sound(c, steer.msg, NoMsg, handed, sent, restarts)
      BY <1>7
    <3> QED BY <2>3, <2>4, <3>1, OverIsSound
  <2>6. PICK b : b = Finished(c, m)
    OBVIOUS
  <2>7. b = QueueDone(c, m, over)
    BY <2>4, <2>6, FinishedIs
  <2>8. Sound(over, NoMsg, NoMsg, h, sent, restarts)
    BY <1>7, <2>5 DEF Awaited
  <2>9. /\ Sound(b, NoMsg, NoMsg, h, sent, restarts)
        /\ b.turn = Turnless(m) /\ b.status = c.status
        /\ b.status \notin Over => b.queue = queue
    BY <1>7, <2>3, <2>5, <2>7, <2>8, PromotionEnds
  <2>10. b.status = "streaming" /\ b.queue = <<>> => Others(m) # {} \/ ambient
    BY <1>1, <2>3, <2>9 DEF VerdictIs, Over
  <2>11. b.status = "ended" => status = "ended"
    BY <1>1, <2>3, <2>9 DEF VerdictIs
  <2>12. EndOf(Settled(b), m, h)
    BY <1>7, <2>9, <2>10, <2>11, PromotionSettles
  <2> QED BY <2>1, <2>6, <2>12
<1> QED BY <1>6, <1>7 DEF j

LEMMA TurnFailsIsSound ==
  ASSUME IInv, NEW m \in Msgs, turn[m].pc # "none"
  PROVE  /\ steer.msg # m => EndOf(Finished(JudgedFailed(m), m), m, handed)
         /\ steer.msg = m => EndOf(Settled(PutBack(Finished(JudgedFailed(m), m), m)), m, handed)
<1>1. PICK j : j = JudgedFailed(m)
  OBVIOUS
<1>2. PICK k \in Nows, S \in {{}, {m}} :
        /\ VerdictIs(k, m) /\ j = MarkFailed(k, S)
        /\ S # {} => turn[m].pc = "sent" /\ turn[m].kind # "steer"
  BY <1>1, JudgedFailedIs
<1>3. /\ now \in Nows /\ now.status = status
      /\ now.queue = queue /\ now.row = row /\ now.turn = turn
      /\ Sound(now, steer.msg, NoMsg, handed, sent, restarts)
      /\ steer.msg \in Msgs => /\ turn[steer.msg].pc = "sent" /\ turn[steer.msg].kind = "steer"
                               /\ steer.msg \notin Wakes /\ steer.index \in Nat \ {0}
  BY NowIsSound
<1>4. /\ k.queue = now.queue /\ k.row = now.row
      /\ \A y \in Msgs : k.turn[y].pc = now.turn[y].pc
      /\ now.status = "ended" => k.status = "ended"
  BY <1>2, <1>3 DEF VerdictIs
<1>5. Sound(now, Awaited(m), m, handed, sent, restarts)
  BY <1>3, ReleasedIsSound DEF Awaited
<1>6. /\ Sound(k, steer.msg, NoMsg, handed, sent, restarts)
      /\ Sound(k, Awaited(m), m, handed, sent, restarts)
  BY <1>3, <1>4, <1>5, SamePlacesIsSound
<1>7. /\ Awaited(m) # m /\ k.turn[m].pc # "none" /\ S \subseteq {m}
      /\ S = {} \/ handed[m] <= restarts
      /\ j.queue = queue /\ j.status = k.status
      /\ k.status = "ended" => status = "ended"
  <2>1. j.queue = k.queue /\ j.status = k.status
    BY <1>2, MarkFailedIs
  <2> QED BY <1>2, <1>3, <1>4, <2>1, RunningIsSound DEF VerdictIs
<1>8. PICK over : over = [j EXCEPT !.turn[m] = NoTurn]
  OBVIOUS
<1>9. over = TurnGone(k, m, S)
  BY <1>2, <1>8 DEF TurnGone
<1>10. /\ over.status = k.status /\ over.queue = queue /\ over.turn = Turnless(m)
       /\ S = {} => over.row[m] = row[m]
  <2>1. k.queue = queue /\ k.row = row /\ k.turn = turn
    BY <1>2 DEF VerdictIs
  <2>2. Dropped(over, k, m, S)
    BY <1>6, <1>7, <1>9, FailedTurnIsSound
  <2> QED BY <2>1, <2>2 DEF Dropped, Turnless
<1>11. PICK b : b = Finished(j, m)
  OBVIOUS
<1>12. b = QueueDone(j, m, over)
  BY <1>8, <1>11, FinishedIs
<1>13. ASSUME steer.msg # m
       PROVE  EndOf(b, m, handed)
  <2>1. Sound(k, Awaited(m), NoMsg, handed, sent, restarts)
    BY <1>6, <1>13 DEF Awaited
  <2>2. Sound(over, Awaited(m), NoMsg, handed, sent, restarts)
    BY <1>7, <1>9, <2>1, FailedTurnIsSound
  <2> QED BY <1>7, <1>10, <1>12, <1>13, <2>2, EndIsSound
<1>14. ASSUME steer.msg = m
       PROVE  EndOf(Settled(PutBack(b, m)), m, handed)
  <2>1. /\ turn[m].pc = "sent" /\ m \notin Wakes /\ steer.index \in Nat \ {0}
        /\ S = {} /\ over.row[m] = row[m] /\ Awaited(m) = NoMsg
    BY <1>2, <1>3, <1>10, <1>14 DEF Awaited
  <2>2. Sound(over, NoMsg, m, handed, sent, restarts)
    BY <1>6, <1>7, <1>9, <2>1, FailedTurnIsSound
  <2>3. /\ Sound(b, NoMsg, m, handed, sent, restarts)
        /\ m \notin Waiting(b.queue) /\ b.turn = Turnless(m) /\ b.status = k.status
        /\ b.row[m] = row[m]
        /\ b.status \notin Over => b.queue = queue
    BY <1>7, <1>10, <1>12, <1>14, <2>1, <2>2, PromotionEnds
  <2>4. OnRecord(b, sent, m) /\ handed[m] <= restarts /\ b.turn[m].pc = "none"
    BY <1>3, <2>1, <2>3, RunningIsSound DEF OnRecord
  <2>5. b.status # "ended" => b.row[m].queued
    <3>1. b.status # "ended" => now.status # "ended"
      BY <1>4, <2>3
    <3>2. m # NoMsg /\ Pending(now, steer.msg, m)
      BY <1>14, WakesAreMessages DEF Pending
    <3> QED BY <1>3, <2>1, <2>3, <3>1, <3>2 DEF Sound, RowsAreMarked
  <2>6. PICK g : g = PutBack(b, m)
    OBVIOUS
  <2>7. /\ Sound(g, NoMsg, NoMsg, handed, sent, restarts)
        /\ g.status = b.status /\ g.turn = Turnless(m)
        /\ b.status \notin Over => g.queue # <<>>
    BY <2>1, <2>3, <2>4, <2>5, <2>6, PutBackIsSound
  <2>8. ~(g.status = "streaming" /\ g.queue = <<>>)
    BY <2>7 DEF Over
  <2>9. EndOf(Settled(g), m, handed)
    BY <1>7, <1>14, <2>3, <2>7, <2>8, PromotionSettles
  <2> QED BY <2>6, <2>9
<1> QED BY <1>1, <1>11, <1>13, <1>14

----------------------------------------------------------------------------
(* The invariant holds.                                                     *)

LEMMA BecomesIs ==
  ASSUME NEW n \in Nows, Becomes(n)
  PROVE  now' = n
<1>1. now' = [status |-> n.status, queue |-> n.queue, row |-> n.row, turn |-> n.turn]
  BY DEF Becomes, now
<1> QED BY <1>1 DEF Nows

\* The types of what the record leaves out.
OtherTypes ==
  /\ harness \in Harnesses
  /\ steer \in [msg : Msgs \cup {NoMsg}, index : Nat]
  /\ stop \in [pc : {"none", "asking", "joining"}, waits : SUBSET Msgs, overtaken : BOOLEAN]
  /\ ambient \in BOOLEAN /\ disposing \in BOOLEAN
  /\ sent \subseteq Wakes /\ resends \in Nat

LEMMA TypeIs ==
  /\ TypeOK => OtherTypes
  /\ OtherTypes /\ Sound(now, steer.msg, NoMsg, handed, sent, restarts) => TypeOK
<1>1. now = [status |-> status, queue |-> queue, row |-> row, turn |-> turn]
  BY DEF now
<1>2. now \in Nows => /\ status \in Statuses /\ queue \in Seq(Msgs)
                      /\ row \in [Msgs -> Cells] /\ turn \in [Msgs -> Turns]
  BY <1>1 DEF Nows
<1> QED BY <1>2 DEF TypeOK, OtherTypes, Sound, Statuses, Cells, Turns, Kinds

\* The queue runs alone, as a step.
Alone == \A m \in Waiting(queue) :
           turn'[m].pc = "sent" /\ turn'[m].kind = "plain" => Running(turn') = {m}

\* What an action must leave behind.
Good == IInv' /\ Alone

\* A status that does not close the session, or keeps it closed.
Opens(st) == st = "ended" => (status = "ended" /\ ambient' = ambient) \/ ambient' = FALSE

LEMMA GoodIs ==
  ASSUME IInv, OtherTypes', NEW b, Becomes(b),
         Sound(b, steer'.msg, NoMsg, handed', sent', restarts'), SteerIsSent',
         b.status = "streaming" => (\E y \in Msgs : b.turn[y].pc # "none") \/ ambient',
         \A w \in Waiting(queue) : b.turn[w].pc = "sent" /\ b.turn[w].kind = "plain"
                                     => Running(b.turn) = {w},
         Opens(b.status)
  PROVE  Good
<1>1. b \in Nows /\ status' = b.status /\ turn' = b.turn
  BY DEF Sound, Becomes
<1>2. Sound(now, steer.msg, NoMsg, handed, sent, restarts)'
  BY <1>1, BecomesIs
<1>3. TypeOK'
  BY <1>2, TypeIs, PTL
<1>4. StreamingIsAlive'
  BY <1>1 DEF StreamingIsAlive, Running
<1>5. Alone
  BY <1>1 DEF Alone
<1>6. AmbientIsOpen'
  BY <1>1 DEF IInv, AmbientIsOpen, Opens
<1> QED BY <1>2, <1>3, <1>4, <1>5, <1>6 DEF Good, IInv

LEMMA SteerStays ==
  ASSUME IInv, steer' = steer, steer.msg \in Msgs => turn'[steer.msg].pc = "sent" /\ turn'[steer.msg].kind = "steer"
  PROVE  SteerIsSent'
  BY DEF IInv, SteerIsSent

\* A message the node has no record of is nowhere.
LEMMA FreshIs ==
  ASSUME IInv, NEW m \in Msgs, ~OnRecord(now, sent, m)
  PROVE  /\ m \notin Waiting(queue) /\ turn[m].pc = "none" /\ handed[m] <= restarts
         /\ steer.msg # m
<1>1. /\ now.queue = queue /\ now.turn = turn
      /\ Sound(now, steer.msg, NoMsg, handed, sent, restarts)
      /\ steer.msg \in Msgs => turn[steer.msg].pc = "sent"
  BY NowIsSound
<1>2. ~Taken(now, handed, restarts, m)
  BY <1>1 DEF Sound, TakenIsOnRecord
<1>3. handed \in [Msgs -> Nat] /\ restarts \in Nat
  BY <1>1 DEF Sound
<1> QED BY <1>1, <1>2, <1>3 DEF Taken

LEMMA TurnOverIsGood ==
  ASSUME IInv, NEW m \in Msgs, turn[m].pc # "none", TurnOver(m),
         NEW b, Becomes(b), EndOf(b, m, handed')
  PROVE  Good
<1>1. /\ Sound(b, Awaited(m), NoMsg, handed', sent, restarts)
      /\ Drained(b.turn, Turnless(m))
      /\ b.status = "streaming" => (\E y \in Msgs : b.turn[y].pc # "none") \/ ambient
      /\ steer.msg # NoMsg /\ steer.msg # m => b.turn = Turnless(m)
      /\ b.status = "ended" => status = "ended"
  BY DEF EndOf
<1>2. /\ steer.msg \in Msgs => turn[steer.msg].pc = "sent" /\ turn[steer.msg].kind = "steer"
      /\ steer = NoSteer <=> steer.msg = NoMsg
      /\ Waiting(queue) \subseteq Msgs
  BY NowIsSound
<1>3. turn \in [Msgs -> Turns]
  BY NowIsSound DEF Nows
<1>4. NoSteer.msg = NoMsg /\ NoSteer \in [msg : Msgs \cup {NoMsg}, index : Nat]
      /\ NoTurn.pc = "none" /\ NoTurn \in Turns
  BY DEF NoSteer, NoTurn, Turns, Kinds
<1>5. OtherTypes'
  BY <1>4 DEF IInv, TypeOK, OtherTypes, TurnOver
<1>6. steer'.msg = Awaited(m) /\ sent' = sent /\ restarts' = restarts /\ ambient' = ambient
  BY <1>4 DEF TurnOver, Awaited
<1> HIDE DEF NoTurn, NoSteer
<1>7. turn' = b.turn /\ Turnless(m) \in [Msgs -> Turns]
      /\ \A y \in Msgs : Turnless(m)[y] = IF y = m THEN NoTurn ELSE turn[y]
  BY <1>3, <1>4 DEF Becomes, Turnless
<1>8. SteerIsSent'
  <2>1. CASE steer.msg = m \/ steer = NoSteer
    BY <2>1 DEF TurnOver, SteerIsSent
  <2>2. CASE steer.msg # m /\ steer # NoSteer
    BY <1>1, <1>2, <1>7, <2>2, SteerStays DEF TurnOver
  <2> QED BY <2>1, <2>2
<1>9. ASSUME NEW w \in Waiting(queue), b.turn[w].pc = "sent"
      PROVE  Running(b.turn) = {w}
  <2>1. w \in Msgs /\ Turnless(m)[w].pc = "none"
    BY <1>2, <1>4, <1>7, NowIsSound DEF Sound, OnePlace
  <2>2. PICK y \in Msgs : /\ b.turn = [Turnless(m) EXCEPT ![y] = [pc |-> "sent", kind |-> "plain", aborted |-> FALSE]]
                          /\ \A z \in Msgs : Turnless(m)[z].pc = "none"
    BY <1>1, <1>9, <2>1 DEF Drained
  <2>3. w = y
    BY <1>9, <2>1, <2>2, <1>7
  <2> QED BY <1>7, <2>1, <2>2, <2>3 DEF Running
<1>10. Opens(b.status)
  BY <1>1, <1>6 DEF Opens
<1> QED BY <1>1, <1>5, <1>6, <1>8, <1>9, <1>10, GoodIs

\* A turn begins on a message that is accepted, with nothing promoted by it.
LEMMA BeginIsGood ==
  ASSUME IInv, OtherTypes', NEW m \in Msgs, NEW kind \in {"plain", "inject"},
         NEW n, NEW b, b = Begun(n, m, kind), Becomes(b),
         Sound(n, steer.msg, m, handed, sent', restarts), n.status # "ended",
         n.queue = queue, n.turn = turn, OnRecord(n, sent', m),
         m \notin Waiting(queue), turn[m].pc = "none", handed[m] <= restarts,
         steer' = steer, handed' = handed, restarts' = restarts
  PROVE  Good
<1>1. /\ steer.msg \in Msgs => turn[steer.msg].pc = "sent" /\ turn[steer.msg].kind = "steer"
      /\ turn \in [Msgs -> Turns] /\ Waiting(queue) \subseteq Msgs
  BY NowIsSound DEF Nows
<1>2. \A w \in Waiting(queue) : turn[w].pc = "none"
  BY NowIsSound DEF Sound, OnePlace
<1>3. n \in Nows /\ kind \in Kinds /\ kind # "steer" /\ steer.msg # m
  BY <1>1 DEF Sound, Kinds
<1>4. /\ b.turn = [turn EXCEPT ![m] = [pc |-> "sent", kind |-> kind, aborted |-> FALSE]]
      /\ b.status = "streaming"
  BY <1>3, BegunIs
<1>5. Sound(b, steer.msg, NoMsg, handed, sent', restarts)
  BY <1>3, BegunIsSound
<1>6. b.turn[m].pc = "sent" /\ \A y \in Msgs \ {m} : b.turn[y] = turn[y]
  BY <1>1, <1>4
<1>7. SteerIsSent'
  BY <1>1, <1>3, <1>6, SteerStays DEF Becomes
<1>8. \A w \in Waiting(queue) : b.turn[w].pc # "sent"
  BY <1>1, <1>2, <1>6
<1>9. Opens(b.status)
  BY <1>4 DEF Opens
<1> QED BY <1>5, <1>6, <1>7, <1>8, <1>9, GoodIs

\* A message that is accepted waits.
LEMMA EnqueueIsGood ==
  ASSUME IInv, OtherTypes', NEW m \in Msgs,
         NEW n, NEW b, b = Enqueued(n, m), Becomes(b),
         Sound(n, steer.msg, m, handed, sent', restarts), n.status = "streaming",
         n.queue = queue, n.turn = turn, OnRecord(n, sent', m), status = "streaming",
         m \notin Waiting(queue), turn[m].pc = "none", handed[m] <= restarts,
         steer' = steer, handed' = handed, restarts' = restarts, ambient' = ambient
  PROVE  Good
<1>1. steer.msg \in Msgs => turn[steer.msg].pc = "sent" /\ turn[steer.msg].kind = "steer"
  BY NowIsSound
<1>2. \A w \in Waiting(queue) : turn[w].pc = "none"
  BY NowIsSound DEF Sound, OnePlace
<1>3. steer.msg # m
  BY <1>1
<1>4. Sound(b, steer.msg, NoMsg, handed, sent', restarts) /\ b.turn = turn
  BY <1>3, EnqueuedIsSound
<1>5. SteerIsSent'
  BY <1>1, <1>4, SteerStays DEF Becomes
<1>6. (\E y \in Msgs : turn[y].pc # "none") \/ ambient
  BY DEF IInv, StreamingIsAlive, Running
<1>7. Opens(b.status)
  <2>1. b.status = "streaming"
    BY <1>3, EnqueuedIsSound
  <2> QED BY <2>1 DEF Opens
<1> QED BY <1>2, <1>4, <1>5, <1>6, <1>7, GoodIs

\* A waiting message is promoted.
LEMMA PromoteIsGood ==
  ASSUME IInv, OtherTypes', steer = NoSteer,
         NEW n, NEW i \in DOMAIN n.queue, NEW b, b = Promoted(n, i), Becomes(b),
         Sound(n, NoMsg, NoMsg, handed, sent, restarts), n.status # "ended", n.turn = turn,
         n.queue[i] \notin Wakes, i \in Nat \ {0},
         steer' = Admits(n.queue[i], i), handed' = handed, restarts' = restarts, sent' = sent
  PROVE  Good
<1> DEFINE m == n.queue[i]
<1>1. /\ Sound(b, m, NoMsg, handed, sent, restarts)
      /\ b.status = "streaming"
      /\ b.turn = [turn EXCEPT ![m] = [pc |-> "sent", kind |-> "steer", aborted |-> FALSE]]
      /\ m \in Msgs
  BY PromotedIsSound
<1>2. steer'.msg = m /\ steer'.index = i
  BY DEF Admits
<1>3. turn \in [Msgs -> Turns] /\ Waiting(queue) \subseteq Msgs
      /\ \A w \in Waiting(queue) : turn[w].pc = "none"
  BY NowIsSound DEF Nows, Sound, OnePlace
<1> HIDE DEF m
<1>4. /\ b.turn[m].pc = "sent" /\ b.turn[m].kind = "steer"
      /\ \A y \in Msgs \ {m} : b.turn[y] = turn[y]
  BY <1>1, <1>3
<1>5. SteerIsSent'
  BY <1>1, <1>2, <1>4 DEF SteerIsSent, Becomes, m
<1>6. \A w \in Waiting(queue) : ~(b.turn[w].pc = "sent" /\ b.turn[w].kind = "plain")
  BY <1>3, <1>4
<1>7. Opens(b.status)
  BY <1>1 DEF Opens
<1> QED BY <1>1, <1>2, <1>4, <1>5, <1>6, <1>7, GoodIs

LEMMA SendIsGood ==
  ASSUME IInv, NEW m \in Msgs, Send(m)
  PROVE  Good
<1>1. /\ now \in Nows /\ now.status = status /\ now.queue = queue /\ now.turn = turn /\ now.row = row
      /\ Sound(now, steer.msg, NoMsg, handed, sent, restarts)
      /\ steer = NoSteer <=> steer.msg = NoMsg
  BY NowIsSound
<1>2. m \in Msgs \ Wakes /\ status # "ended"
  BY DEF Send, Open
<1>3. ~OnRecord(now, sent, m)
  BY <1>1, <1>2 DEF Send, OnRecord
<1>4. m \notin Waiting(queue) /\ turn[m].pc = "none" /\ handed[m] <= restarts /\ steer.msg # m
  BY <1>3, FreshIs
<1>5. /\ handed' = handed /\ sent' = sent /\ restarts' = restarts /\ ambient' = ambient
  BY DEF Send
<1>6. resends' \in Nat /\ queue \in Seq(Msgs)
  BY DEF Send, IInv, TypeOK
<1>7. ASSUME steer' \in [msg : Msgs \cup {NoMsg}, index : Nat]
      PROVE  OtherTypes'
  BY <1>6, <1>7 DEF Send, IInv, TypeOK, OtherTypes
<1>8. steer \in [msg : Msgs \cup {NoMsg}, index : Nat]
  BY DEF IInv, TypeOK
<1>9. PICK a : a = Accepted(now, m, FALSE)
  OBVIOUS
<1>9a. PICK n : n = now
  OBVIOUS
<1>9b. /\ Sound(n, steer.msg, NoMsg, handed, sent, restarts)
       /\ n.status = status /\ n.queue = queue /\ n.turn = turn
  BY <1>1, <1>9a
<1>9c. Accepts(a, n, m)
  BY <1>9, <1>9a, Zenon DEF Accepts
<1>10. /\ Sound(a, steer.msg, m, handed, sent, restarts) /\ OnRecord(a, sent, m)
       /\ a.status = status /\ a.queue = queue /\ a.turn = turn
  BY <1>2, <1>9b, <1>9c, AcceptedIsSound
<1>11. PICK c : c = Accepted(now, m, TRUE)
  OBVIOUS
<1>11b. Accepts(c, n, m)
  BY <1>9a, <1>11, Zenon DEF Accepts
<1>12. /\ Sound(c, steer.msg, m, handed, sent, restarts) /\ OnRecord(c, sent, m)
       /\ c.status = status /\ c.queue = queue /\ c.turn = turn
  BY <1>2, <1>9b, <1>11b, AcceptedIsSound
<1>13. PICK w : w = Enqueued(c, m)
  OBVIOUS
<1>14. CASE steer' = steer /\ \E kind \in {"plain", "inject"} : Becomes(Begun(a, m, kind))
  <2>1. PICK kind \in {"plain", "inject"} : Becomes(Begun(a, m, kind))
    BY <1>14
  <2>2. PICK b : b = Begun(a, m, kind)
    OBVIOUS
  <2> QED BY <1>2, <1>4, <1>5, <1>7, <1>8, <1>10, <1>14, <2>1, <2>2, BeginIsGood
<1>15. CASE steer' = steer /\ Becomes(w) /\ status = "streaming"
  BY <1>4, <1>5, <1>7, <1>8, <1>12, <1>13, <1>15, EnqueueIsGood
<1>16. CASE /\ steer = NoSteer
            /\ Becomes(Promoted(w, Len(w.queue)))
            /\ steer' = Admits(m, Len(w.queue))
  <2>1. /\ Sound(w, NoMsg, NoMsg, handed, sent, restarts)
        /\ w.status = status /\ w.queue = Append(queue, m) /\ w.turn = turn
    <3>1. steer.msg = NoMsg
      BY <1>1, <1>16
    <3>2. /\ Sound(w, steer.msg, NoMsg, handed, sent, restarts)
          /\ w.status = c.status /\ w.queue = Append(c.queue, m) /\ w.turn = c.turn
      BY <1>4, <1>12, <1>13, EnqueuedIsSound
    <3> QED BY <1>12, <3>1, <3>2
  <2>2. PICK i : i = Len(w.queue)
    OBVIOUS
  <2>3. i \in DOMAIN w.queue /\ w.queue[i] = m /\ i \in Nat \ {0}
    BY <1>6, <2>1, <2>2
  <2>4. OtherTypes'
    BY <1>7, <1>16, <2>2, <2>3 DEF Admits
  <2>5. PICK b : b = Promoted(w, i)
    OBVIOUS
  <2>6. Becomes(b) /\ steer' = Admits(w.queue[i], i)
    BY <1>16, <2>2, <2>3, <2>5
  <2> QED BY <1>2, <1>5, <1>16, <2>1, <2>3, <2>4, <2>5, <2>6, PromoteIsGood
<1> QED BY <1>9, <1>11, <1>13, <1>14, <1>15, <1>16 DEF Send

LEMMA SendWakeIsGood ==
  ASSUME IInv, NEW m \in Msgs, SendWake(m)
  PROVE  Good
<1>1. /\ now \in Nows /\ now.status = status /\ now.queue = queue /\ now.turn = turn
      /\ Sound(now, steer.msg, NoMsg, handed, sent, restarts)
  BY NowIsSound
<1>2. /\ m \in Wakes /\ m \notin sent /\ status # "ended"
      /\ sent' = sent \cup {m} /\ steer' = steer /\ handed' = handed /\ restarts' = restarts
      /\ ambient' = ambient
  BY DEF SendWake, Open
<1>3. m \notin Waiting(queue) /\ turn[m].pc = "none" /\ handed[m] <= restarts
  BY <1>2, FreshIs DEF OnRecord
<1>4. OtherTypes'
  BY DEF SendWake, IInv, TypeOK, OtherTypes
<1>5. Sound(now, steer.msg, m, handed, sent', restarts) /\ OnRecord(now, sent', m)
  <2>1. TakenIsOnRecord(now, handed, sent', restarts) /\ OnRecord(now, sent', m)
    BY <1>1, <1>2 DEF Sound, TakenIsOnRecord, OnRecord
  <2>2. RowsAreMarked(now, steer.msg, m, handed)
    BY <1>1, WakesAreMessages DEF Sound, RowsAreMarked
  <2> QED BY <1>1, <2>1, <2>2 DEF Sound
<1>6. CASE \E kind \in {"plain", "inject"} : Becomes(Begun(now, m, kind))
  <2>1. PICK kind \in {"plain", "inject"} : Becomes(Begun(now, m, kind))
    BY <1>6
  <2>2. PICK b : b = Begun(now, m, kind)
    OBVIOUS
  <2>3. PICK n : n = now
    OBVIOUS
  <2> QED BY <1>1, <1>2, <1>3, <1>4, <1>5, <2>1, <2>2, <2>3, BeginIsGood
<1>7. CASE Becomes(Enqueued(now, m)) /\ status = "streaming"
  <2>1. PICK b : b = Enqueued(now, m)
    OBVIOUS
  <2>2. PICK n : n = now
    OBVIOUS
  <2> QED BY <1>1, <1>2, <1>3, <1>4, <1>5, <1>7, <2>1, <2>2, EnqueueIsGood
<1> QED BY <1>6, <1>7 DEF SendWake

LEMMA SteerIsGood ==
  ASSUME IInv, NEW i \in DOMAIN queue, Steer(i)
  PROVE  Good
<1>1. /\ now \in Nows /\ now.status = status /\ now.queue = queue /\ now.turn = turn
      /\ Sound(now, NoMsg, NoMsg, handed, sent, restarts)
  BY NowIsSound DEF Steer
<1>2. queue \in Seq(Msgs) /\ i \in Nat \ {0} /\ queue[i] \in Msgs
  BY <1>1 DEF Nows
<1>3. OtherTypes'
  BY <1>2 DEF Steer, IInv, TypeOK, OtherTypes, Admits
<1>4. PICK n : n = now
  OBVIOUS
<1>5. PICK b : b = Promoted(n, i)
  OBVIOUS
<1>6. i \in DOMAIN n.queue /\ n.queue[i] = queue[i]
  BY <1>1, <1>4
<1> QED BY <1>1, <1>2, <1>3, <1>4, <1>5, <1>6, PromoteIsGood DEF Steer

LEMMA DequeueIsGood ==
  ASSUME IInv, NEW i \in DOMAIN queue, Dequeue(i)
  PROVE  Good
<1>1. /\ now \in Nows /\ now.status = status /\ now.queue = queue /\ now.turn = turn
      /\ Sound(now, steer.msg, NoMsg, handed, sent, restarts)
      /\ steer.msg \in Msgs => turn[steer.msg].pc = "sent" /\ turn[steer.msg].kind = "steer"
      /\ steer.msg \notin Waiting(queue)
  BY NowIsSound
<1>2. /\ queue[i] \notin Wakes /\ queue[i] # steer.msg
      /\ sent' = sent /\ steer' = steer /\ handed' = handed /\ restarts' = restarts
      /\ ambient' = ambient
  BY <1>1 DEF Dequeue, Waiting
<1>3. OtherTypes'
  BY DEF Dequeue, IInv, TypeOK, OtherTypes
<1>4. PICK n : n = now
  OBVIOUS
<1>5. PICK b : b = Removed(n, i)
  OBVIOUS
<1>6. Becomes(b)
  <2>1. Becomes([now EXCEPT !.queue = Without(@, i), !.row[queue[i]] = NoRow])
    BY DEF Dequeue
  <2> QED BY <1>1, <1>4, <1>5, <2>1 DEF Removed
<1>7. i \in DOMAIN n.queue /\ n.queue[i] \notin Wakes /\ steer.msg # n.queue[i]
      /\ Sound(n, steer.msg, NoMsg, handed, sent, restarts)
  BY <1>1, <1>2, <1>4
<1>8. Sound(b, steer.msg, NoMsg, handed, sent, restarts) /\ b.status = n.status /\ b.turn = n.turn
  BY <1>5, <1>7, DequeuedIsSound
<1>9. b.status = status /\ b.turn = turn /\ turn' = turn
  BY <1>1, <1>4, <1>6, <1>8 DEF Becomes
<1>10. SteerIsSent'
  BY <1>1, <1>2, <1>9, SteerStays
<1>11. status = "streaming" => (\E y \in Msgs : turn[y].pc # "none") \/ ambient
  BY DEF IInv, StreamingIsAlive, Running
<1>12. \A w \in Waiting(queue) : turn[w].pc = "none"
  BY <1>1 DEF Sound, OnePlace
<1>13. Opens(b.status)
  BY <1>2, <1>9 DEF Opens
<1> QED BY <1>2, <1>3, <1>6, <1>8, <1>9, <1>10, <1>11, <1>12, <1>13, GoodIs

LEMMA InputAcceptedIsGood ==
  ASSUME IInv, NEW m \in Msgs, InputAccepted(m)
  PROVE  Good
<1>1. /\ now \in Nows /\ now.status = status /\ now.queue = queue /\ now.turn = turn
      /\ Sound(now, steer.msg, NoMsg, handed, sent, restarts)
      /\ steer.msg \in Msgs => turn[steer.msg].pc = "sent" /\ turn[steer.msg].kind = "steer"
  BY NowIsSound
<1>2. turn[m].pc = "sent"
  BY DEF InputAccepted
<1>3. /\ m \notin Waiting(queue) /\ Awaited(m) # m /\ handed[m] <= restarts
      /\ handed \in [Msgs -> Nat] /\ restarts \in Nat
  BY <1>2, RunningIsSound
<1>4. /\ sent' = sent /\ restarts' = restarts /\ ambient' = ambient
      /\ handed' = [handed EXCEPT ![m] = @ + 1]
      /\ steer' = IF steer.msg = m THEN NoSteer ELSE steer
  BY DEF InputAccepted, Hand
<1>5. NoSteer.msg = NoMsg /\ NoSteer \in [msg : Msgs \cup {NoMsg}, index : Nat]
  BY DEF NoSteer
<1>6. OtherTypes' /\ steer'.msg = Awaited(m)
  BY <1>4, <1>5 DEF InputAccepted, IInv, TypeOK, OtherTypes, Awaited
<1>7. PICK n : n = now
  OBVIOUS
<1>8. PICK t : t = [turn[m] EXCEPT !.pc = "started"]
  OBVIOUS
<1>9. t \in Turns /\ t.pc = "started" /\ turn \in [Msgs -> Turns]
  <2>1. turn \in [Msgs -> Turns] /\ turn[m] \in Turns
    BY <1>1 DEF Nows
  <2>2. t \in Turns /\ t.pc = "started"
    BY <1>8, <2>1 DEF Turns
  <2> QED BY <2>1, <2>2
<1>10. PICK b : b = [n EXCEPT !.turn[m] = t]
  OBVIOUS
<1>11. b = [now EXCEPT !.turn[m].pc = "started"]
  BY <1>1, <1>7, <1>8, <1>10
<1>12. Sound(n, Awaited(m), m, handed, sent, restarts)
  BY <1>1, <1>7, ReleasedIsSound DEF Awaited
<1>13. /\ Sound(b, Awaited(m), m, handed, sent, restarts)
       /\ b.status = status /\ b.queue = queue /\ b.turn = [turn EXCEPT ![m] = t]
  <2>1. /\ n.status = status /\ n.queue = queue /\ n.turn = turn
        /\ m \notin Waiting(n.queue) /\ t.pc \in {"none", "started", n.turn[m].pc}
        /\ n.turn[m].pc # "none"
    BY <1>1, <1>2, <1>3, <1>7, <1>9
  <2>2. /\ Sound(b, Awaited(m), m, handed, sent, restarts)
        /\ b.status = n.status /\ b.queue = n.queue /\ b.turn = [n.turn EXCEPT ![m] = t]
    BY <1>9, <1>10, <1>12, <2>1, TurnIsSound
  <2> QED BY <2>1, <2>2
<1>14. PICK c : c = IF turn[m].kind = "steer" THEN Consumed(b, m) ELSE b
  OBVIOUS
<1>15. Becomes(c)
  BY <1>11, <1>14 DEF InputAccepted
<1>16. /\ Sound(c, Awaited(m), m, handed, sent, restarts)
       /\ c.status = status /\ c.queue = queue /\ c.turn = [turn EXCEPT ![m] = t]
  <2>1. CASE turn[m].kind = "steer"
    BY <1>3, <1>13, <1>14, <2>1, ConsumedIsSound
  <2>2. CASE turn[m].kind # "steer"
    BY <1>13, <1>14, <2>2
  <2> QED BY <2>1, <2>2
<1>17. c.turn[m] = t /\ \A y \in Msgs \ {m} : c.turn[y] = turn[y]
  BY <1>9, <1>16
<1>18. OnRecord(c, sent, m)
  BY <1>9, <1>16, <1>17 DEF Sound, TakenIsOnRecord, Taken
<1>19. m \notin Waiting(c.queue) /\ c.turn[m].pc # "sent"
  BY <1>3, <1>9, <1>16, <1>17
<1>20. Sound(c, Awaited(m), m, handed', sent, restarts)
  BY <1>3, <1>4, <1>16, <1>18, <1>19, HandIsSound
<1>21. handed'[m] > 0
  BY <1>3, <1>4
<1>22. Sound(c, Awaited(m), NoMsg, handed', sent, restarts)
  BY <1>3, <1>19, <1>20, <1>21, ExemptIsSound
<1>23. SteerIsSent'
  <2>1. CASE steer.msg = m
    BY <1>4, <2>1 DEF SteerIsSent
  <2>2. CASE steer.msg # m
    BY <1>1, <1>4, <1>15, <1>17, <2>2, SteerStays DEF Becomes
  <2> QED BY <2>1, <2>2
<1>24. \A w \in Waiting(queue) : w \in Msgs \ {m} /\ turn[w].pc = "none"
  BY <1>1, <1>3, NowIsSound DEF Sound, OnePlace
<1>25. \A w \in Waiting(queue) : c.turn[w].pc # "sent"
  BY <1>17, <1>24
<1>26. \E y \in Msgs : c.turn[y].pc # "none"
  BY <1>9, <1>17
<1>27. Opens(c.status)
  BY <1>4, <1>16 DEF Opens
<1> QED BY <1>4, <1>6, <1>15, <1>22, <1>23, <1>25, <1>26, <1>27, GoodIs

LEMMA TurnEndsIsGood ==
  ASSUME IInv, NEW m \in Msgs, TurnEnds(m)
  PROVE  Good
<1>1. turn[m].pc # "none" /\ TurnOver(m)
  BY DEF TurnEnds
<1>2. PICK h : h = IF turn[m].pc = "sent" THEN [handed EXCEPT ![m] = @ + 1] ELSE handed
  OBVIOUS
<1>3. handed' = h
  BY <1>2 DEF TurnEnds, Hand
<1>4. CASE steer.msg # m
  <2>1. PICK b : b = Finished(Judged(m), m)
    OBVIOUS
  <2>2. EndOf(b, m, h)
    BY <1>1, <1>2, <1>4, <2>1, TurnEndsIsSound
  <2>3. Becomes(b)
    BY <1>4, <2>1 DEF TurnEnds
  <2> QED BY <1>1, <1>3, <2>2, <2>3, TurnOverIsGood
<1>5. CASE steer.msg = m
  <2>1. PICK b : b = Settled(Finished(Consumed(Judged(m), m), m))
    OBVIOUS
  <2>2. EndOf(b, m, h)
    BY <1>1, <1>2, <1>5, <2>1, TurnEndsIsSound
  <2>3. Becomes(b)
    BY <1>5, <2>1 DEF TurnEnds
  <2> QED BY <1>1, <1>3, <2>2, <2>3, TurnOverIsGood
<1> QED BY <1>4, <1>5

LEMMA TurnFailsIsGood ==
  ASSUME IInv, NEW m \in Msgs, TurnFails(m)
  PROVE  Good
<1>1. turn[m].pc # "none" /\ TurnOver(m) /\ handed' = handed
  BY DEF TurnFails
<1>2. CASE steer.msg # m
  <2>1. PICK b : b = Finished(JudgedFailed(m), m)
    OBVIOUS
  <2>2. EndOf(b, m, handed)
    BY <1>1, <1>2, <2>1, TurnFailsIsSound
  <2>3. Becomes(b)
    BY <1>2, <2>1 DEF TurnFails
  <2> QED BY <1>1, <2>2, <2>3, TurnOverIsGood
<1>3. CASE steer.msg = m
  <2>1. PICK b : b = Settled(PutBack(Finished(JudgedFailed(m), m), m))
    OBVIOUS
  <2>2. EndOf(b, m, handed)
    BY <1>1, <1>3, <2>1, TurnFailsIsSound
  <2>3. Becomes(b)
    BY <1>3, <2>1 DEF TurnFails
  <2> QED BY <1>1, <2>2, <2>3, TurnOverIsGood
<1> QED BY <1>2, <1>3

\* The places of the messages do not change, only what is said of them.
LEMMA StillIsGood ==
  ASSUME IInv, OtherTypes', queue' = queue, row' = row, steer' = steer,
         sent' = sent, handed' = handed, restarts' = restarts,
         turn' \in [Msgs -> Turns],
         \A m \in Msgs : turn'[m].pc = turn[m].pc /\ turn'[m].kind = turn[m].kind,
         status' \in Statuses, status = "ended" => status' = "ended",
         status' = "streaming" => \/ status = "streaming" /\ (ambient' = ambient \/ Running(turn) # {})
                                  \/ ambient',
         Opens(status')
  PROVE  Good
<1>1. /\ now \in Nows /\ now.status = status /\ now.queue = queue /\ now.turn = turn /\ now.row = row
      /\ Sound(now, steer.msg, NoMsg, handed, sent, restarts)
      /\ steer.msg \in Msgs => turn[steer.msg].pc = "sent" /\ turn[steer.msg].kind = "steer"
      /\ Waiting(queue) \subseteq Msgs
  BY NowIsSound
<1>2. PICK b : b = [status |-> status', queue |-> queue, row |-> row, turn |-> turn']
  OBVIOUS
<1>3. /\ b \in Nows /\ b.status = status' /\ b.queue = now.queue /\ b.row = now.row /\ b.turn = turn'
  BY <1>1, <1>2 DEF Nows
<1>4. Becomes(b)
  BY <1>1, <1>3 DEF Becomes
<1>5. \A m \in Msgs : b.turn[m].pc = now.turn[m].pc
  BY <1>1, <1>3
<1>6. Sound(b, steer.msg, NoMsg, handed, sent, restarts)
  BY <1>1, <1>3, <1>5, SamePlacesIsSound
<1>7. SteerIsSent'
  BY <1>1, SteerStays
<1>8. status' = "streaming" => (\E y \in Msgs : turn'[y].pc # "none") \/ ambient'
  BY DEF IInv, StreamingIsAlive, Running
<1>9. \A w \in Waiting(queue) : turn'[w].pc = "none"
  BY <1>1 DEF Sound, OnePlace
<1> QED BY <1>3, <1>4, <1>6, <1>7, <1>8, <1>9, GoodIs

LEMMA AbortedIs ==
  ASSUME NEW t \in [Msgs -> Turns]
  PROVE  /\ Aborted(t) \in [Msgs -> Turns]
         /\ \A m \in Msgs : Aborted(t)[m].pc = t[m].pc /\ Aborted(t)[m].kind = t[m].kind
<1>1. ASSUME NEW m \in Msgs
      PROVE  /\ [t[m] EXCEPT !.aborted = TRUE] \in Turns
             /\ [t[m] EXCEPT !.aborted = TRUE].pc = t[m].pc
             /\ [t[m] EXCEPT !.aborted = TRUE].kind = t[m].kind
  <2>1. t[m] \in Turns
    OBVIOUS
  <2> QED BY <2>1 DEF Turns
<1> QED BY <1>1 DEF Aborted

LEMMA HarnessStepIsGood ==
  ASSUME IInv, Interrupt \/ StopSettles \/ Close \/ AmbientStarts \/ AmbientEnds \/ Dispose
  PROVE  Good
<1>1. /\ turn \in [Msgs -> Turns] /\ status \in Statuses
  BY NowIsSound DEF Nows
<1>2. /\ Aborted(turn) \in [Msgs -> Turns]
      /\ \A m \in Msgs : Aborted(turn)[m].pc = turn[m].pc /\ Aborted(turn)[m].kind = turn[m].kind
  BY <1>1, AbortedIs
<1>3. OtherTypes
  BY TypeIs DEF IInv
<1>4. CASE Interrupt
  <2>1. OtherTypes'
    BY <1>3, <1>4 DEF Interrupt, OtherTypes, Running
  <2> QED BY <1>1, <1>2, <1>4, <2>1, StillIsGood DEF Interrupt, Opens
<1>5. CASE StopSettles
  <2>1. OtherTypes'
    BY <1>3, <1>5 DEF StopSettles, OtherTypes, NoStop
  <2> QED BY <1>1, <1>5, <2>1, StillIsGood DEF StopSettles, Opens, Statuses, Over
<1>6. CASE Close
  <2>1. OtherTypes'
    BY <1>3, <1>6 DEF Close, OtherTypes
  <2> QED BY <1>1, <1>2, <1>6, <2>1, StillIsGood DEF Close, Opens, Statuses, Over
<1>7. CASE AmbientStarts
  <2>1. OtherTypes'
    BY <1>3, <1>7 DEF AmbientStarts, OtherTypes
  <2> QED BY <1>1, <1>7, <2>1, StillIsGood DEF AmbientStarts, Opens, Statuses, Over
<1>8. CASE AmbientEnds
  <2>1. OtherTypes'
    BY <1>3, <1>8 DEF AmbientEnds, OtherTypes
  <2>2. status # "ended"
    BY <1>8 DEF AmbientEnds, IInv, AmbientIsOpen
  <2>3. status' \in Statuses /\ (status' = "streaming" => status = "streaming" /\ Running(turn) # {})
    BY <1>1, <1>8 DEF AmbientEnds, Statuses, Over
  <2> QED BY <1>1, <1>8, <2>1, <2>2, <2>3, StillIsGood DEF AmbientEnds, Opens
<1>9. CASE Dispose
  <2>1. OtherTypes'
    BY <1>3, <1>9 DEF Dispose, OtherTypes
  <2> QED BY <1>1, <1>2, <1>9, <2>1, StillIsGood DEF Dispose, Opens
<1> QED BY <1>4, <1>5, <1>6, <1>7, <1>8, <1>9

\* A restart marks what waited as failed and forgets the queue and the turns.
LEMMA RestartIsGood ==
  ASSUME IInv, Restart
  PROVE  Good
<1>1. /\ now \in Nows /\ now.status = status /\ now.queue = queue /\ now.turn = turn /\ now.row = row
      /\ Sound(now, steer.msg, NoMsg, handed, sent, restarts)
      /\ Waiting(queue) \subseteq Msgs
  BY NowIsSound
<1>2. PICK S : S = {m \in Msgs : row[m].queued}
  OBVIOUS
<1>3. PICK f : f = MarkFailed(now, S)
  OBVIOUS
<1>4. f \in Nows /\ f.status = status /\ FailedRows(f, now, S)
  BY <1>1, <1>2, <1>3, MarkFailedIs
<1>5. PICK b : b = [f EXCEPT !.status = IF @ = "streaming" THEN "interrupted" ELSE @,
                             !.queue = <<>>,
                             !.turn = [m \in Msgs |-> NoTurn]]
  OBVIOUS
<1>6. Becomes(b)
  BY <1>2, <1>3, <1>5 DEF Restart
<1>7. NoTurn \in Turns /\ NoTurn.pc = "none"
  BY DEF NoTurn, Turns, Kinds
<1>8. PICK t : t = [m \in Msgs |-> NoTurn]
  OBVIOUS
<1>9. t \in [Msgs -> Turns] /\ \A m \in Msgs : t[m].pc = "none"
  BY <1>7, <1>8
<1>10. PICK st : st = IF f.status = "streaming" THEN "interrupted" ELSE f.status
  OBVIOUS
<1>11. st \in Statuses /\ st # "streaming" /\ (st = "ended" => status = "ended")
  BY <1>4, <1>10 DEF Nows, Statuses, Over
<1>12. b = [f EXCEPT !.status = st, !.queue = <<>>, !.turn = t]
  BY <1>5, <1>8, <1>10
<1>13. b \in Nows /\ b.status = st /\ b.queue = <<>> /\ b.row = f.row /\ b.turn = t
  BY <1>4, <1>9, <1>11, <1>12, EmptyWaits DEF Nows
<1>14. /\ sent' = sent /\ handed' = handed /\ restarts' = restarts + 1
       /\ steer' = NoSteer /\ ambient' = FALSE /\ disposing' = FALSE
       /\ stop' = NoStop /\ harness' = harness /\ resends' = resends
  BY DEF Restart
<1>15. NoSteer.msg = NoMsg /\ NoSteer \in [msg : Msgs \cup {NoMsg}, index : Nat]
  BY DEF NoSteer
<1>16. OtherTypes'
  BY <1>14, <1>15 DEF IInv, TypeOK, OtherTypes, NoStop
<1>17. Waiting(b.queue) = {} /\ Distinct(b.queue)
  BY <1>13, EmptyWaits
<1>18. handed \in [Msgs -> Nat] /\ restarts \in Nat /\ restarts + 1 \in Nat
       /\ \A m \in Msgs : handed[m] <= restarts + 1
  BY <1>1 DEF Sound, OnePlace
<1>19. TakenIsOnRecord(b, handed, sent, restarts + 1)
  BY <1>9, <1>13, <1>17, <1>18 DEF TakenIsOnRecord, Taken
<1>20. OnePlace(b, handed, restarts + 1)
  BY <1>9, <1>13, <1>17, <1>18 DEF OnePlace
<1>21. \A m \in Msgs : ~b.row[m].queued
  <2>1. \A m \in Msgs : row[m].queued => row[m].known
    BY <1>1 DEF Sound, RowsAreMarked
  <2> QED BY <1>1, <1>2, <1>4, <1>13, <2>1 DEF FailedRows
<1>22. RowsAreMarked(b, NoMsg, NoMsg, handed)
  BY <1>17, <1>21, WakesAreMessages DEF RowsAreMarked, Pending
<1>23. Sound(b, NoMsg, NoMsg, handed, sent, restarts + 1)
  BY <1>13, <1>18, <1>19, <1>20, <1>22 DEF Sound
<1>24. SteerIsSent'
  BY <1>14 DEF SteerIsSent
<1>25. Sound(b, steer'.msg, NoMsg, handed', sent', restarts')
  BY <1>14, <1>15, <1>23
<1>26. \A w \in Waiting(queue) : b.turn[w].pc # "sent"
  BY <1>1, <1>9, <1>13
<1>27. Opens(b.status)
  BY <1>14 DEF Opens
<1> QED BY <1>6, <1>11, <1>13, <1>16, <1>24, <1>25, <1>26, <1>27, GoodIs

LEMMA StutterIsGood ==
  ASSUME IInv, UNCHANGED vars
  PROVE  Good
<1>1. UNCHANGED <<harness, status, queue, row, turn, steer, stop, ambient, disposing,
                  sent, handed, restarts, resends>>
  BY DEF vars
<1>2. turn \in [Msgs -> Turns] /\ status \in Statuses
  BY NowIsSound DEF Nows
<1>3. OtherTypes'
  <2>1. OtherTypes
    BY TypeIs DEF IInv
  <2> QED BY <1>1, <2>1 DEF OtherTypes
<1>4. Opens(status')
  BY <1>1 DEF Opens
<1> QED BY <1>1, <1>2, <1>3, <1>4, StillIsGood

LEMMA NextIsGood ==
  ASSUME IInv, [Next]_vars
  PROVE  Good
<1>1. ASSUME NEW m \in Msgs,
             Send(m) \/ SendWake(m) \/ InputAccepted(m) \/ TurnEnds(m) \/ TurnFails(m)
      PROVE  Good
  BY <1>1, SendIsGood, SendWakeIsGood, InputAcceptedIsGood, TurnEndsIsGood, TurnFailsIsGood
<1>2. ASSUME NEW i \in DOMAIN queue, Steer(i) \/ Dequeue(i)
      PROVE  Good
  BY <1>2, SteerIsGood, DequeueIsGood
<1>3. CASE Interrupt \/ StopSettles \/ Close \/ AmbientStarts \/ AmbientEnds \/ Dispose
  BY <1>3, HarnessStepIsGood
<1>4. CASE Restart
  BY <1>4, RestartIsGood
<1>5. CASE UNCHANGED vars
  BY <1>5, StutterIsGood
<1> QED BY <1>1, <1>2, <1>3, <1>4, <1>5 DEF Next

LEMMA InitIsSound == Init => IInv
<1> SUFFICES ASSUME Init PROVE IInv
  OBVIOUS
<1>1. NoRow \in Cells /\ NoRow.queued = FALSE
  BY DEF NoRow, Cells
<1>2. NoTurn \in Turns /\ NoTurn.pc = "none"
  BY DEF NoTurn, Turns, Kinds
<1>3. NoSteer.msg = NoMsg /\ NoSteer \in [msg : Msgs \cup {NoMsg}, index : Nat]
  BY DEF NoSteer
<1>4. now = [status |-> status, queue |-> queue, row |-> row, turn |-> turn]
  BY DEF now
<1>5. /\ row \in [Msgs -> Cells] /\ \A m \in Msgs : row[m].queued = FALSE
      /\ turn \in [Msgs -> Turns] /\ \A m \in Msgs : turn[m].pc = "none"
      /\ handed \in [Msgs -> Nat] /\ \A m \in Msgs : handed[m] = 0
  BY <1>1, <1>2 DEF Init
<1>6. /\ now.status = "idle" /\ now.queue = <<>> /\ now.row = row /\ now.turn = turn
      /\ now \in Nows
  BY <1>4, <1>5, EmptyWaits DEF Init, Nows, Statuses
<1>7. TakenIsOnRecord(now, handed, sent, 0) /\ OnePlace(now, handed, 0)
  BY <1>5, <1>6, EmptyWaits DEF TakenIsOnRecord, Taken, OnePlace
<1>8. RowsAreMarked(now, NoMsg, NoMsg, handed)
  BY <1>5, <1>6, EmptyWaits, WakesAreMessages DEF RowsAreMarked, Pending
<1>9. Sound(now, steer.msg, NoMsg, handed, sent, restarts)
  BY <1>3, <1>5, <1>6, <1>7, <1>8 DEF Init, Sound
<1>10. OtherTypes
  BY <1>3 DEF Init, OtherTypes, NoStop
<1>11. TypeOK
  BY <1>9, <1>10, TypeIs
<1>12. SteerIsSent /\ StreamingIsAlive /\ AmbientIsOpen
  BY DEF Init, SteerIsSent, StreamingIsAlive, AmbientIsOpen
<1> QED BY <1>9, <1>11, <1>12 DEF IInv

LEMMA Invariance == Spec => []IInv
<1>1. Init => IInv
  BY InitIsSound
<1>2. IInv /\ [Next]_vars => IInv'
  BY NextIsGood DEF Good
<1> QED BY <1>1, <1>2, PTL DEF Spec

----------------------------------------------------------------------------
(* The theorems.                                                            *)

\* Every variable keeps its type, whatever is sent, steered, dequeued, stopped,
\* closed or restarted, and in whatever order the turns end.
THEOREM TypeCorrect == Spec => []TypeOK
<1>1. IInv => TypeOK
  BY DEF IInv
<1> QED BY <1>1, Invariance, PTL

\* A session that says it streams has a turn, or a message of its harness, that
\* will end that: no later send is queued behind nothing.
THEOREM StreamingAlive == Spec => []StreamingIsAlive
<1>1. IInv => StreamingIsAlive
  BY DEF IInv
<1> QED BY <1>1, Invariance, PTL

\* A message that waited begins in a turn of its own only when nothing else
\* runs, however the ends of turns and of promotions interleave.
THEOREM QueueAlone == Spec => QueueRunsAlone
<1>1. IInv /\ [Next]_vars => [Alone]_vars
  BY NextIsGood DEF Good
<1>2. [Alone]_vars => [\A m \in Waiting(queue) :
         turn'[m].pc = "sent" /\ turn'[m].kind = "plain" => Running(turn') = {m}]_vars
  BY DEF Alone
<1> QED BY <1>1, <1>2, Invariance, PTL DEF Spec, QueueRunsAlone

\* Between two restarts of the node an agent is given a message at most once,
\* whatever is sent again, steered, put back or resent.
THEOREM OneHandOver == Spec => []HandedOnce
<1>1. IInv => HandedOnce
  <2> SUFFICES ASSUME IInv, NEW m \in Msgs PROVE handed[m] <= 1 + restarts
    BY DEF HandedOnce
  <2>1. handed[m] <= restarts + 1 /\ restarts \in Nat
    BY DEF IInv, Sound, OnePlace
  <2> QED BY <2>1
<1> QED BY <1>1, Invariance, PTL

\* The queue in memory and the marks of the durable rows agree while the session
\* lives, and no message waits twice.
THEOREM RowsAndQueue == Spec => []RowsMatchQueue
<1>1. ASSUME IInv PROVE RowsMatchQueue
  <2>1. /\ now.status = status /\ now.queue = queue /\ now.turn = turn /\ now.row = row
        /\ Sound(now, steer.msg, NoMsg, handed, sent, restarts)
    BY <1>1, NowIsSound
  <2>2. queue \in Seq(Msgs) /\ Distinct(queue)
    BY <2>1 DEF Sound, OnePlace, Nows
  <2>3. Cardinality(Waiting(queue)) = Len(queue)
    BY <2>2, DistinctCounts
  <2>4. ASSUME status # "ended", NEW m \in Msgs \ Wakes
        PROVE  /\ m \in Waiting(queue) => row[m].queued /\ ~row[m].failed /\ turn[m].pc = "none"
               /\ row[m].queued => m \in Waiting(queue) \/ steer.msg = m \/ handed[m] > 0
    <3>1. m # NoMsg
      BY WakesAreMessages
    <3>2. /\ Pending(now, steer.msg, m) => row[m].queued
          /\ row[m].queued => Pending(now, steer.msg, m) \/ handed[m] > 0
      BY <2>1, <2>4, <3>1 DEF Sound, RowsAreMarked
    <3>3. m \in Waiting(queue) => ~row[m].failed
      BY <2>1, <2>4 DEF Sound, TakenIsOnRecord, Taken, OnRecord
    <3>4. m \in Waiting(queue) => turn[m].pc = "none"
      BY <2>1 DEF Sound, OnePlace
    <3> QED BY <2>1, <3>2, <3>3, <3>4 DEF Pending
  <2> QED BY <2>3, <2>4 DEF RowsMatchQueue
<1> QED BY <1>1, Invariance, PTL
=============================================================================
