--------------------------- MODULE SessionFeedProofs ---------------------------
(***************************************************************************)
(* Theorems about SessionFeed for any number of events, evictions, lost    *)
(* connections and restarts of the node.                                   *)
(***************************************************************************)
EXTENDS SessionFeed, FiniteSetTheorems, TLAPS

--------------------------------------------------------------------------------
(* Numbers in order, and parts of a sequence.                               *)

Rising(s) == \A i, j \in DOMAIN s : i < j => s[i] < s[j]

\* The ascending enumeration of a finite set of numbers.
LEMMA AscendingIs ==
  ASSUME NEW S, IsFiniteSet(S), S \subseteq Nat
  PROVE  /\ Cardinality(S) \in Nat /\ DOMAIN Ascending(S) = 1..Cardinality(S)
         /\ Ascending(S) \in Seq(S) /\ Rising(Ascending(S))
         /\ \A u \in S : \E i \in 1..Cardinality(S) : Ascending(S)[i] = u
<1> DEFINE r(u) == Cardinality({w \in S : w <= u})
           n == Cardinality(S)
           A == Ascending(S)
<1>0. n \in Nat
  BY FS_CardinalityType
<1>1. \A u \in S : IsFiniteSet({w \in S : w <= u}) /\ r(u) \in 1..n
  <2> SUFFICES ASSUME NEW u \in S
               PROVE  IsFiniteSet({w \in S : w <= u}) /\ r(u) \in 1..n
    OBVIOUS
  <2>1. {w \in S : w <= u} \in SUBSET S
    OBVIOUS
  <2>2. IsFiniteSet({w \in S : w <= u}) /\ r(u) <= n
    BY <2>1, FS_Subset
  <2>3. u \in {w \in S : w <= u}
    OBVIOUS
  <2>4. r(u) # 0 /\ r(u) \in Nat
    BY <2>2, <2>3, FS_EmptySet, FS_CardinalityType
  <2> HIDE DEF r
  <2> QED BY <1>0, <2>2, <2>4
<1>2. \A u, v \in S : u < v => r(u) < r(v)
  <2> SUFFICES ASSUME NEW u \in S, NEW v \in S, u < v PROVE r(u) < r(v)
    OBVIOUS
  <2>1. {w \in S : w <= u} \in SUBSET {w \in S : w <= v}
    <3>1. \A w \in S : w <= u => w <= v
      OBVIOUS
    <3> QED BY <3>1
  <2>2. v \in {w \in S : w <= v} /\ v \notin {w \in S : w <= u}
    OBVIOUS
  <2>3. r(u) <= r(v) /\ r(u) # r(v)
    BY <1>1, <2>1, <2>2, FS_Subset
  <2>4. r(u) \in Nat /\ r(v) \in Nat
    BY <1>1, FS_CardinalityType
  <2> HIDE DEF r
  <2> QED BY <2>3, <2>4
<1> HIDE DEF r, n
<1>14. \A u, v \in S : r(u) = r(v) => u = v
  <2> SUFFICES ASSUME NEW u \in S, NEW v \in S, r(u) = r(v), u # v PROVE FALSE
    OBVIOUS
  <2>1. u \in Nat /\ v \in Nat /\ r(u) \in Nat
    <3>1. r(u) \in 1..n
      BY <1>1
    <3>2. u \in Nat /\ v \in Nat
      OBVIOUS
    <3> QED BY <1>0, <3>1, <3>2
  <2>2. CASE u < v
    BY <1>2, <2>1, <2>2
  <2>3. CASE v < u
    BY <1>2, <2>1, <2>3
  <2> QED BY <2>1, <2>2, <2>3
<1>3. PICK f : f = [u \in S |-> r(u)]
  OBVIOUS
<1>4. f \in Injection(S, 1..n)
  <2>0. \A u, v \in S : r(u) = r(v) => u = v
    BY <1>14
  <2>1. f \in [S -> 1..n]
    BY <1>1, <1>3
  <2>2. \A u, v \in S : f[u] = f[v] => u = v
    <3>1. \A u \in S : f[u] = r(u)
      BY <1>3
    <3> QED BY <2>0, <3>1
  <2> QED BY <2>1, <2>2 DEF Injection, IsInjective
<1>5. f \in Surjection(S, 1..n)
  <2>1. IsFiniteSet(1..n) /\ Cardinality(1..n) = n
    BY <1>0, FS_Interval
  <2> QED BY <1>4, <2>1, FS_Injection DEF n
<1>6. \A i \in 1..n : \E u \in S : r(u) = i
  BY <1>3, <1>5 DEF Surjection
<1>7. A = [i \in 1..n |-> CHOOSE u \in S : r(u) = i]
  BY DEF Ascending, r, n
<1> HIDE DEF A
<1>8. \A i \in 1..n : A[i] \in S /\ r(A[i]) = i
  BY <1>6, <1>7
<1>9. \A i, j \in 1..n : i < j => A[i] < A[j]
  <2> SUFFICES ASSUME NEW i \in 1..n, NEW j \in 1..n, i < j, ~(A[i] < A[j]) PROVE FALSE
    OBVIOUS
  <2>1. A[i] \in S /\ A[j] \in S /\ A[i] \in Nat /\ A[j] \in Nat
    BY <1>8
  <2>2. CASE A[i] = A[j]
    BY <1>0, <1>8, <2>2
  <2>3. CASE A[j] < A[i]
    <3>1. r(A[j]) < r(A[i])
      BY <1>2, <2>1, <2>3
    <3> QED BY <1>0, <1>8, <3>1
  <2> QED BY <2>1, <2>2, <2>3
<1>10. \A u \in S : A[r(u)] = u
  BY <1>1, <1>14, <1>8
<1>11. DOMAIN A = 1..n /\ A \in Seq(S)
  BY <1>0, <1>7, <1>8
<1>12. Rising(A)
  BY <1>9, <1>11 DEF Rising
<1>13. \A u \in S : \E i \in 1..n : A[i] = u
  BY <1>1, <1>10
<1> QED BY <1>0, <1>11, <1>12, <1>13 DEF A, n

\* The elements of a sequence that are in D, in their order.
LEMMA OnlyIs ==
  ASSUME NEW T, T \subseteq Nat, NEW s \in Seq(T), NEW D
  PROVE  /\ Only(s, D) \in Seq(T) /\ ToSet(Only(s, D)) = ToSet(s) \cap D
         /\ Rising(s) => Rising(Only(s, D))
<1> DEFINE ps == {i \in DOMAIN s : s[i] \in D}
           n == Cardinality(ps)
           o == Picked(s, ps)
<1>0. Only(s, D) = o
  BY DEF Only
<1>1. Len(s) \in Nat /\ DOMAIN s = 1..Len(s) /\ \A i \in 1..Len(s) : s[i] \in T
  OBVIOUS
<1>2. IsFiniteSet(ps) /\ ps \subseteq Nat
  <2>1. IsFiniteSet(1..Len(s))
    BY <1>1, FS_Interval
  <2>2. ps \in SUBSET (1..Len(s))
    BY <1>1
  <2> QED BY <2>1, <2>2, FS_Subset
<1>4. \A p \in ps : p \in 1..Len(s) /\ s[p] \in D /\ s[p] \in T
  <2> SUFFICES ASSUME NEW p \in DOMAIN s, s[p] \in D PROVE p \in 1..Len(s) /\ s[p] \in T
    OBVIOUS
  <2> QED BY <1>1
<1>5. \A p \in DOMAIN s : s[p] \in D => p \in ps
  OBVIOUS
<1> HIDE DEF ps
<1>6. PICK at : at = Ascending(ps)
  OBVIOUS
<1>7. /\ n \in Nat /\ DOMAIN at = 1..n /\ at \in Seq(ps) /\ Rising(at)
      /\ \A p \in ps : \E k \in 1..n : at[k] = p
  BY <1>2, <1>6, AscendingIs
<1>3. o = [k \in 1..n |-> s[at[k]]]
  BY <1>6, <1>7 DEF Picked
<1> HIDE DEF n, o
<1>8. /\ at \in [1..n -> ps] /\ DOMAIN o = 1..n
      /\ \A k \in 1..n : o[k] = s[at[k]]
  BY <1>3, <1>7
<1>9. \A k \in 1..n : at[k] \in 1..Len(s) /\ o[k] \in D /\ o[k] \in T
  BY <1>4, <1>8
<1>10. o \in Seq(T)
  <2>1. o \in [1..n -> T]
    BY <1>3, <1>8, <1>9
  <2> QED BY <1>7, <2>1
<1>11. Rising(s) => Rising(o)
  <2> SUFFICES ASSUME Rising(s), NEW i \in 1..n, NEW j \in 1..n, i < j PROVE o[i] < o[j]
    BY <1>8 DEF Rising
  <2>1. at[i] < at[j]
    BY <1>7 DEF Rising
  <2>2. at[i] \in DOMAIN s /\ at[j] \in DOMAIN s
    BY <1>1, <1>9
  <2>3. s[at[i]] < s[at[j]]
    BY <2>1, <2>2 DEF Rising
  <2> QED BY <1>8, <2>3
<1>12. ToSet(o) = ToSet(s) \cap D
  <2>1. ASSUME NEW x \in ToSet(o) PROVE x \in ToSet(s) \cap D
    <3>1. PICK k \in 1..n : x = o[k]
      BY <1>8, <2>1 DEF ToSet
    <3>2. o[k] = s[at[k]] /\ at[k] \in DOMAIN s /\ o[k] \in D
      BY <1>1, <1>8, <1>9, <3>1
    <3> QED BY <3>1, <3>2 DEF ToSet
  <2>2. ASSUME NEW x \in ToSet(s) \cap D PROVE x \in ToSet(o)
    <3>1. PICK p \in DOMAIN s : x = s[p]
      BY <2>2 DEF ToSet
    <3>2. p \in ps
      BY <1>5, <2>2, <3>1
    <3>3. PICK k \in 1..n : at[k] = p
      BY <1>7, <3>2
    <3>4. x = o[k] /\ k \in DOMAIN o
      BY <1>8, <3>1, <3>3
    <3> QED BY <3>4 DEF ToSet
  <2> QED BY <2>1, <2>2
<1> QED BY <1>0, <1>10, <1>11, <1>12

\* A finite set of numbers has a highest one.
LEMMA HighestExists ==
  ASSUME NEW S, IsFiniteSet(S), S \subseteq Nat, S # {}
  PROVE  \E m \in S : \A k \in S : k <= m
<1> DEFINE n == Cardinality(S)
           A == Ascending(S)
<1>1. /\ n \in Nat /\ DOMAIN A = 1..n /\ A \in Seq(S) /\ Rising(A)
      /\ \A u \in S : \E i \in 1..n : A[i] = u
  BY AscendingIs
<1> HIDE DEF A
<1>2. n # 0
  BY FS_EmptySet
<1> HIDE DEF n
<1>3. n \in 1..n /\ A[n] \in S
  BY <1>1, <1>2
<1>4. ASSUME NEW k \in S PROVE k <= A[n]
  <2>1. PICK i \in 1..n : A[i] = k
    BY <1>1
  <2>2. A[i] \in Nat /\ A[n] \in Nat
    BY <1>3, <2>1
  <2>3. CASE i = n
    BY <2>1, <2>2, <2>3
  <2>4. CASE i # n
    <3>1. i < n
      BY <1>1, <2>4
    <3>2. A[i] < A[n]
      BY <1>1, <1>3, <3>1 DEF Rising
    <3> QED BY <2>1, <2>2, <3>2
  <2> QED BY <2>3, <2>4
<1> QED BY <1>3, <1>4

\* ... and a lowest one.
LEMMA LowestExists ==
  ASSUME NEW S, IsFiniteSet(S), S \subseteq Nat, S # {}
  PROVE  \E m \in S : \A k \in S : m <= k
<1> DEFINE n == Cardinality(S)
           A == Ascending(S)
<1>1. /\ n \in Nat /\ DOMAIN A = 1..n /\ A \in Seq(S) /\ Rising(A)
      /\ \A u \in S : \E i \in 1..n : A[i] = u
  BY AscendingIs
<1> HIDE DEF A
<1>2. n # 0
  BY FS_EmptySet
<1> HIDE DEF n
<1>3. 1 \in 1..n /\ A[1] \in S
  BY <1>1, <1>2
<1>4. ASSUME NEW k \in S PROVE A[1] <= k
  <2>1. PICK i \in 1..n : A[i] = k
    BY <1>1
  <2>2. A[i] \in Nat /\ A[1] \in Nat
    BY <1>3, <2>1
  <2>3. CASE i = 1
    BY <2>1, <2>2, <2>3
  <2>4. CASE i # 1
    <3>1. 1 < i
      BY <1>1, <2>4
    <3>2. A[1] < A[i]
      BY <1>1, <1>3, <3>1 DEF Rising
    <3> QED BY <2>1, <2>2, <3>2
  <2> QED BY <2>3, <2>4
<1> QED BY <1>3, <1>4

\* `Highest` is the number or one of the set, and none is higher.
LEMMA HighestIs ==
  ASSUME NEW v \in Nat, NEW S, IsFiniteSet(S), S \subseteq Nat
  PROVE  /\ Highest(v, S) \in {v} \cup S /\ Highest(v, S) \in Nat
         /\ v <= Highest(v, S) /\ \A k \in S : k <= Highest(v, S)
<1> DEFINE U == {v} \cup S
           Top(m) == \A k \in U : k <= m
<1>1. IsFiniteSet(U) /\ U \subseteq Nat /\ U # {}
  <2>1. U = S \cup {v}
    OBVIOUS
  <2> QED BY <2>1, FS_AddElement
<1>2. \E m \in U : Top(m)
  BY <1>1, HighestExists
<1>3. Highest(v, S) = CHOOSE m \in U : Top(m)
  BY DEF Highest
<1> HIDE DEF Top
<1>4. Highest(v, S) \in U /\ Top(Highest(v, S))
  BY <1>2, <1>3
<1> QED BY <1>1, <1>4 DEF Top

\* The values of a function on a finite set are finite.
LEMMA ImageFinite ==
  ASSUME NEW T, IsFiniteSet(T), NEW f
  PROVE  IsFiniteSet({f[x] : x \in T})
<1>1. PICK g : g = [x \in T |-> f[x]]
  OBVIOUS
<1>2. g \in Surjection(T, {f[x] : x \in T})
  BY <1>1 DEF Surjection
<1> QED BY <1>2, FS_Surjection

--------------------------------------------------------------------------------
(* The invariant.  The node's history gives the versions and sequences their *)
(* order; the wire carries it to the reader; and what the follower does not  *)
(* have is not behind any of them.                                           *)

Frames == [events : Seq(Events), seq : Nat, ep : Nat, gone : BOOLEAN]

\* u lies after the durable sequence q.
NewDurable(u, q) == Durable(u) => hist[u].seq > q
After(u, q) == hist[u].seq >= q /\ NewDurable(u, q)

\* What precedes what, in the node's history.
Earlier(u, w) ==
  /\ hist[u].seq <= hist[w].seq /\ (Durable(w) => hist[u].seq < hist[w].seq)
  /\ hist[u].ep <= hist[w].ep
  /\ Session(u) /\ Session(w) /\ (Durable(u) \/ hist[u].ep = hist[w].ep) => hist[u].ver < hist[w].ver

\* The node's counters are ahead of its events.
Counted(u) ==
  /\ hist[u].seq <= head /\ hist[u].ep >= 1 /\ hist[u].ep <= epoch
  /\ Session(u) => hist[u].ver >= 1
  /\ Session(u) /\ (Durable(u) \/ hist[u].ep = epoch) => hist[u].ver <= ver

HistInv ==
  /\ epoch >= 1
  /\ \A u \in Events : Counted(u)
  /\ \A u, w \in Events : u < w => Earlier(u, w)
  /\ \A u \in ring : ~Durable(u) /\ hist[u].ep = epoch
  /\ \A u \in Streaming : u \in ring \/ hist[u].ver <= floor

Recording == [kind : Kinds, ver : Nat, ep : Nat, seq : Nat]

\* What the history says of an event.
LEMMA Recorded ==
  ASSUME TypeOK, NEW u \in Events
  PROVE  /\ u \in Nat /\ u >= 1 /\ u <= Len(hist) /\ Len(hist) \in Nat
         /\ hist[u].kind \in Kinds /\ hist[u].ver \in Nat /\ hist[u].ep \in Nat /\ hist[u].seq \in Nat
<1>1. hist \in Seq(Recording)
  BY DEF TypeOK, Recording
<1>2. Len(hist) \in Nat /\ u \in 1..Len(hist)
  BY <1>1 DEF Events
<1>3. hist[u] \in Recording
  BY <1>1, <1>2
<1> QED BY <1>2, <1>3 DEF Recording

\* u is older than what is durable after q.
Reached(u, q) == \A d \in Events : Durable(d) /\ hist[d].seq > q => u < d

\* What a catch-up sends.
CatchesUp(F, sent, gone) ==
  /\ F \in Seq(Frames)
  /\ \A i \in DOMAIN F :
       /\ Rising(F[i].events) /\ ToSet(F[i].events) \subseteq sent
       /\ F[i].ep = epoch /\ cSeq <= F[i].seq /\ F[i].seq <= head /\ (F[i].gone => gone)
       /\ \A u \in ToSet(F[i].events) : Reached(u, F[i].seq)
  /\ \A i, j \in DOMAIN F : i < j => F[i].seq <= F[j].seq
  /\ \A i, j \in DOMAIN F : i < j => \A w \in ToSet(F[j].events) :
       After(w, F[i].seq) /\ \A u \in ToSet(F[i].events) : u < w
  /\ \A u \in sent : \E m \in DOMAIN F : u \in ToSet(F[m].events)
  /\ gone => 1 \in DOMAIN F /\ F[1].gone

\* The pages of a catch-up hold every event once, in the order of the history,
\* and each page lies after the sequence of the ones before it.
LEMMA CatchUpIs ==
  ASSUME TypeOK, HistInv, cSeq <= head, NEW sent, sent \subseteq Events, NEW gone \in BOOLEAN
  PROVE  CatchesUp(CatchUp(sent, gone), sent, gone)
<1> DEFINE pages == InOrder(LogAfter)
           n == Len(pages)
           page(i) == {u \in sent : (i > 1 => u > pages[i - 1]) /\ (i <= n => u <= pages[i])}
           frames == [i \in 1..(n + 1) |->
                       [events |-> InOrder(page(i)),
                        seq    |-> IF n = 0 THEN cSeq ELSE hist[pages[IF i <= n THEN i ELSE n]].seq,
                        ep     |-> epoch,
                        gone   |-> gone /\ i = 1]]
           ps == {i \in 1..(n + 1) : page(i) # {} \/ frames[i].gone}
           F == CatchUp(sent, gone)
<1>1. F = Picked(frames, ps)
  BY DEF CatchUp
<1>2. Len(hist) \in Nat /\ IsFiniteSet(Events) /\ Events \subseteq Nat
  <2>1. Len(hist) \in Nat
    BY DEF TypeOK
  <2> QED BY <2>1, FS_Interval DEF Events
<1>3. /\ n \in Nat /\ DOMAIN pages = 1..n /\ Rising(pages)
      /\ \A i \in 1..n : pages[i] \in Events /\ pages[i] \in LogAfter
      /\ \A d \in LogAfter : \E i \in 1..n : pages[i] = d
  <2>1. LogAfter \in SUBSET Events
    BY DEF LogAfter
  <2>2. IsFiniteSet(LogAfter) /\ LogAfter \subseteq Nat
    BY <1>2, <2>1, FS_Subset
  <2>3. /\ pages \in Seq(LogAfter) /\ Rising(pages)
        /\ \A d \in LogAfter : \E i \in DOMAIN pages : pages[i] = d
    BY <2>2, AscendingIs DEF InOrder
  <2> HIDE DEF pages
  <2> QED BY <2>1, <2>3
<1>4. \A i \in 1..(n + 1) : IsFiniteSet(page(i)) /\ page(i) \subseteq sent /\ page(i) \subseteq Nat
  <2> SUFFICES ASSUME NEW i \in 1..(n + 1)
               PROVE  IsFiniteSet(page(i)) /\ page(i) \subseteq sent /\ page(i) \subseteq Nat
    OBVIOUS
  <2>1. page(i) \in SUBSET sent
    OBVIOUS
  <2> HIDE DEF page
  <2>2. page(i) \in SUBSET Events
    BY <2>1
  <2> QED BY <1>2, <2>1, <2>2, FS_Subset
<1>5. \A i \in 1..n : \A u \in page(i) : u <= pages[i]
  <2> HIDE DEF pages, n
  <2> SUFFICES ASSUME NEW i \in 1..n, NEW u \in page(i) PROVE u <= pages[i]
    OBVIOUS
  <2>1. i <= n
    BY <1>3
  <2> QED BY <2>1
<1>6. \A i, j \in 1..(n + 1) : i < j => i \in 1..n /\ \A w \in page(j) : pages[i] < w
  <2> HIDE DEF pages, n
  <2> SUFFICES ASSUME NEW i \in 1..(n + 1), NEW j \in 1..(n + 1), i < j, NEW w \in page(j)
               PROVE  pages[i] < w
    <3>1. n \in Nat
      BY <1>3
    <3>2. \A i, j \in 1..(n + 1) : i < j => i \in 1..n
      BY <3>1
    <3> HIDE DEF page
    <3> QED BY <3>2
  <2>1. i \in 1..n /\ j - 1 \in 1..n /\ j > 1
    BY <1>3
  <2>2. pages[j - 1] < w
    BY <2>1
  <2> HIDE DEF page
  <2>3. pages[i] \in Nat /\ pages[j - 1] \in Nat /\ w \in Nat
    BY <1>2, <1>3, <1>4, <2>1
  <2>4. CASE i = j - 1
    BY <2>2, <2>4
  <2>5. CASE i # j - 1
    <3>1. i < j - 1
      BY <1>3, <2>1, <2>5
    <3>2. pages[i] < pages[j - 1]
      BY <1>3, <2>1, <3>1 DEF Rising
    <3> QED BY <2>2, <2>3, <3>2
  <2> QED BY <2>4, <2>5
<1>7. \A u \in sent : \E i \in 1..(n + 1) : u \in page(i)
  <2> HIDE DEF pages, n
  <2> SUFFICES ASSUME NEW u \in sent PROVE \E i \in 1..(n + 1) : u \in page(i)
    OBVIOUS
  <2>1. PICK C : C = {i \in 1..(n + 1) : i <= n => u <= pages[i]}
    OBVIOUS
  <2>2. n + 1 \in C /\ C \in SUBSET (1..(n + 1))
    BY <1>3, <2>1
  <2>3. IsFiniteSet(1..(n + 1))
    BY <1>3, FS_Interval
  <2>9. 1..(n + 1) \subseteq Nat
    BY <1>3
  <2>4. IsFiniteSet(C) /\ C \subseteq Nat
    BY <2>2, <2>3, <2>9, FS_Subset
  <2>8. C # {}
    BY <2>2
  <2>5. PICK i \in C : \A k \in C : i <= k
    BY <2>4, <2>8, LowestExists
  <2>6. i \in 1..(n + 1) /\ (i <= n => u <= pages[i])
    BY <2>1
  <2>7. i > 1 => u > pages[i - 1]
    <3> SUFFICES ASSUME i > 1, ~(u > pages[i - 1]) PROVE FALSE
      OBVIOUS
    <3>1. i - 1 \in 1..n /\ u \in Nat
      BY <1>2, <1>3, <2>6
    <3>2. pages[i - 1] \in Nat
      BY <1>2, <1>3, <3>1
    <3>3. u <= pages[i - 1]
      BY <3>1, <3>2
    <3>4. i - 1 \in C
      BY <1>3, <2>1, <3>1, <3>3
    <3> QED BY <2>5, <2>6, <3>1, <3>4
  <2> QED BY <2>6, <2>7
<1>8. \A i \in 1..(n + 1) :
        /\ frames[i] \in Frames /\ Rising(frames[i].events) /\ ToSet(frames[i].events) = page(i)
        /\ frames[i].ep = epoch /\ frames[i].seq <= head
        /\ (i \in 1..n => frames[i].seq = hist[pages[i]].seq) /\ frames[i].gone = (gone /\ i = 1)
        /\ (i = n + 1 => frames[i].seq = IF n = 0 THEN cSeq ELSE hist[pages[n]].seq)
  <2> HIDE DEF pages, n, page
  <2> SUFFICES ASSUME NEW i \in 1..(n + 1)
               PROVE  /\ frames[i] \in Frames /\ Rising(frames[i].events)
                      /\ ToSet(frames[i].events) = page(i)
                      /\ frames[i].ep = epoch /\ frames[i].seq <= head
                      /\ (i \in 1..n => frames[i].seq = hist[pages[i]].seq)
                      /\ frames[i].gone = (gone /\ i = 1)
                      /\ (i = n + 1 => frames[i].seq = IF n = 0 THEN cSeq ELSE hist[pages[n]].seq)
    OBVIOUS
  <2>1. PICK events : events = InOrder(page(i))
    OBVIOUS
  <2>2. events \in Seq(page(i)) /\ Rising(events) /\ \A u \in page(i) : \E k \in DOMAIN events : events[k] = u
    BY <1>4, <2>1, AscendingIs DEF InOrder
  <2>3. events \in Seq(Events)
    <3>1. page(i) \subseteq Events
      BY <1>4
    <3> QED BY <2>2, <3>1
  <2>4. ToSet(events) = page(i)
    BY <2>2 DEF ToSet
  <2>5. PICK seq : seq = IF n = 0 THEN cSeq ELSE hist[pages[IF i <= n THEN i ELSE n]].seq
    OBVIOUS
  <2>6. seq \in Nat /\ seq <= head
    <3>1. CASE n = 0
      BY <2>5, <3>1 DEF TypeOK
    <3>2. CASE n # 0
      <4>1. (IF i <= n THEN i ELSE n) \in 1..n
        BY <1>3, <3>2
      <4>2. PICK u \in Events : seq = hist[u].seq
        BY <1>3, <2>5, <3>2, <4>1
      <4>3. hist[u].seq \in Nat
        BY Recorded
      <4>4. Counted(u)
        BY DEF HistInv
      <4> QED BY <4>2, <4>3, <4>4 DEF Counted
    <3> QED BY <3>1, <3>2
  <2>7. /\ i \in 1..n => seq = hist[pages[i]].seq
        /\ i = n + 1 => seq = IF n = 0 THEN cSeq ELSE hist[pages[n]].seq
    BY <1>3, <2>5
  <2>8. frames[i] = [events |-> events, seq |-> seq, ep |-> epoch, gone |-> gone /\ i = 1]
    BY <2>1, <2>5
  <2>9. epoch \in Nat
    BY DEF TypeOK
  <2> HIDE DEF frames
  <2> QED BY <2>2, <2>3, <2>4, <2>6, <2>7, <2>8, <2>9 DEF Frames
<1>21. \A i \in 1..(n + 1) : \A u \in page(i) : Reached(u, frames[i].seq)
  <2> HIDE DEF pages, n, page, frames
  <2> SUFFICES ASSUME NEW i \in 1..(n + 1), NEW u \in page(i), NEW d \in Events,
                      Durable(d), hist[d].seq > frames[i].seq
               PROVE  u < d
    BY DEF Reached
  <2>1. ASSUME NEW k \in 1..n, hist[d].seq > hist[pages[k]].seq PROVE pages[k] < d
    <3>1. pages[k] \in Events /\ pages[k] \in Nat /\ d \in Nat
      BY <1>2, <1>3
    <3>2. hist[d].seq \in Nat /\ hist[pages[k]].seq \in Nat
      BY <3>1, Recorded
    <3>3. d # pages[k]
      BY <2>1, <3>2
    <3>4. ~(d < pages[k])
      <4> SUFFICES ASSUME d < pages[k] PROVE FALSE
        OBVIOUS
      <4>1. Earlier(d, pages[k])
        BY <3>1 DEF HistInv
      <4> QED BY <2>1, <3>2, <4>1 DEF Earlier
    <3> QED BY <3>1, <3>3, <3>4
  <2>2. CASE i \in 1..n
    <3>1. pages[i] < d /\ u <= pages[i]
      BY <1>5, <1>8, <2>1, <2>2
    <3>2. pages[i] \in Nat /\ d \in Nat /\ u \in Nat
      BY <1>2, <1>3, <1>4, <2>2
    <3> QED BY <3>1, <3>2
  <2>3. CASE i = n + 1
    <3>1. frames[i].seq = IF n = 0 THEN cSeq ELSE hist[pages[n]].seq
      BY <1>8, <2>3
    <3>2. hist[d].seq \in Nat /\ cSeq \in Nat
      BY Recorded DEF TypeOK
    <3>3. hist[d].seq > cSeq
      <4>1. CASE n = 0
        BY <3>1, <4>1
      <4>2. CASE n # 0
        <5>1. n \in 1..n
          BY <1>3, <4>2
        <5>2. hist[pages[n]].seq > cSeq /\ hist[pages[n]].seq \in Nat
          BY <1>3, <5>1, Recorded DEF LogAfter
        <5>3. hist[d].seq > hist[pages[n]].seq
          BY <3>1, <4>2
        <5> QED BY <3>2, <5>2, <5>3
      <4> QED BY <4>1, <4>2
    <3>4. PICK k \in 1..n : pages[k] = d
      BY <1>3, <3>3 DEF LogAfter
    <3>5. n \in 1..n /\ hist[d].seq > hist[pages[n]].seq
      BY <1>3, <3>1, <3>4
    <3>6. pages[n] < pages[k] /\ pages[n] \in Nat /\ pages[k] \in Nat
      BY <1>2, <1>3, <2>1, <3>4, <3>5
    <3>7. k = n \/ k < n
      BY <1>3
    <3>8. ~(k < n)
      BY <1>3, <3>5, <3>6 DEF Rising
    <3> QED BY <3>6, <3>7, <3>8
  <2> QED BY <1>3, <2>2, <2>3
<1>22. \A i \in 1..(n + 1) : cSeq <= frames[i].seq /\ \A j \in 1..(n + 1) : i < j => frames[i].seq <= frames[j].seq
  <2> HIDE DEF pages, n, page, frames
  <2>1. \A k \in 1..n : cSeq <= hist[pages[k]].seq /\ hist[pages[k]].seq \in Nat /\ pages[k] \in Events
    <3> SUFFICES ASSUME NEW k \in 1..n
                 PROVE  cSeq <= hist[pages[k]].seq /\ hist[pages[k]].seq \in Nat /\ pages[k] \in Events
      OBVIOUS
    <3>1. hist[pages[k]].seq > cSeq /\ pages[k] \in Events
      BY <1>3 DEF LogAfter
    <3>2. hist[pages[k]].seq \in Nat /\ cSeq \in Nat
      BY <3>1, Recorded DEF TypeOK
    <3> QED BY <3>1, <3>2
  <2>2. \A k, m \in 1..n : k <= m => hist[pages[k]].seq <= hist[pages[m]].seq
    <3> SUFFICES ASSUME NEW k \in 1..n, NEW m \in 1..n, k <= m
                 PROVE  hist[pages[k]].seq <= hist[pages[m]].seq
      OBVIOUS
    <3>1. CASE k = m
      BY <2>1, <3>1
    <3>2. CASE k < m
      <4>1. pages[k] < pages[m]
        BY <1>3, <3>2 DEF Rising
      <4>2. Earlier(pages[k], pages[m])
        BY <2>1, <4>1 DEF HistInv
      <4> QED BY <4>2 DEF Earlier
    <3>3. k = m \/ k < m
      BY <1>3
    <3> QED BY <3>1, <3>2, <3>3
  <2>3. ASSUME NEW i \in 1..(n + 1)
        PROVE  \/ n = 0 /\ i = 1 /\ frames[i].seq = cSeq
               \/ \E k \in 1..n : /\ frames[i].seq = hist[pages[k]].seq
                                  /\ (i = k /\ i \in 1..n) \/ (i = n + 1 /\ k = n)
    <3>1. CASE i \in 1..n
      BY <1>8, <3>1
    <3>2. CASE i = n + 1 /\ n # 0
      <4>1. n \in 1..n
        BY <1>3, <3>2
      <4> QED BY <1>8, <3>2, <4>1
    <3>3. CASE i = n + 1 /\ n = 0
      BY <1>8, <3>3
    <3>4. i \in 1..n \/ i = n + 1
      BY <1>3
    <3> QED BY <3>1, <3>2, <3>3, <3>4
  <2>4. cSeq <= cSeq
    BY DEF TypeOK
  <2>5. ASSUME NEW i \in 1..(n + 1) PROVE cSeq <= frames[i].seq
    BY <2>1, <2>3, <2>4
  <2>6. ASSUME NEW i \in 1..(n + 1), NEW j \in 1..(n + 1), i < j PROVE frames[i].seq <= frames[j].seq
    <3>1. n # 0
      BY <1>3, <2>6
    <3>2. PICK k \in 1..n : frames[i].seq = hist[pages[k]].seq /\ ((i = k /\ i \in 1..n) \/ (i = n + 1 /\ k = n))
      BY <2>3, <3>1
    <3>3. PICK m \in 1..n : frames[j].seq = hist[pages[m]].seq /\ ((j = m /\ j \in 1..n) \/ (j = n + 1 /\ m = n))
      BY <2>3, <3>1
    <3>4. k <= m
      BY <1>3, <2>6, <3>2, <3>3
    <3> QED BY <2>2, <3>2, <3>3, <3>4
  <2> QED BY <2>5, <2>6
<1>9. ps = {i \in 1..(n + 1) : page(i) # {} \/ (gone /\ i = 1)}
  <2> HIDE DEF pages, n, page
  <2> QED BY <1>8
<1> HIDE DEF pages, n, page, frames, ps, F
<1>10. IsFiniteSet(ps) /\ ps \subseteq 1..(n + 1) /\ ps \subseteq Nat
  <2>1. ps \in SUBSET (1..(n + 1))
    BY <1>9
  <2>2. IsFiniteSet(1..(n + 1)) /\ 1..(n + 1) \subseteq Nat
    BY <1>3, FS_Interval
  <2> QED BY <2>1, <2>2, FS_Subset
<1>11. PICK at : at = Ascending(ps)
  OBVIOUS
<1>12. PICK m \in Nat : /\ DOMAIN at = 1..m /\ at \in Seq(ps) /\ Rising(at)
                        /\ \A p \in ps : \E k \in 1..m : at[k] = p
  BY <1>10, <1>11, AscendingIs
<1>13. F = [k \in 1..m |-> frames[at[k]]]
  BY <1>1, <1>11, <1>12 DEF Picked
<1>14. /\ DOMAIN F = 1..m
       /\ \A k \in 1..m : at[k] \in ps /\ at[k] \in 1..(n + 1) /\ F[k] = frames[at[k]]
  <2>1. \A k \in 1..m : at[k] \in ps
    BY <1>12
  <2>2. \A k \in 1..m : at[k] \in 1..(n + 1)
    BY <1>10, <2>1
  <2> QED BY <1>13, <2>1, <2>2
<1>15. F \in Seq(Frames)
  <2>1. F \in [1..m -> Frames]
    BY <1>8, <1>13, <1>14
  <2> QED BY <2>1
<1>16. \A i \in DOMAIN F : /\ Rising(F[i].events) /\ ToSet(F[i].events) \subseteq sent
                           /\ F[i].ep = epoch /\ cSeq <= F[i].seq /\ F[i].seq <= head /\ (F[i].gone => gone)
                           /\ \A u \in ToSet(F[i].events) : Reached(u, F[i].seq)
  <2> SUFFICES ASSUME NEW i \in 1..m
               PROVE  /\ Rising(F[i].events) /\ ToSet(F[i].events) \subseteq sent
                      /\ F[i].ep = epoch /\ cSeq <= F[i].seq /\ F[i].seq <= head /\ (F[i].gone => gone)
                      /\ \A u \in ToSet(F[i].events) : Reached(u, F[i].seq)
    BY <1>14
  <2>1. at[i] \in 1..(n + 1) /\ F[i] = frames[at[i]] /\ ToSet(F[i].events) = page(at[i])
    BY <1>8, <1>14
  <2>2. Rising(F[i].events) /\ F[i].ep = epoch /\ F[i].seq <= head /\ (F[i].gone => gone)
    BY <1>8, <2>1
  <2> QED BY <1>4, <1>21, <1>22, <2>1, <2>2
<1>17. ASSUME NEW i \in DOMAIN F, NEW j \in DOMAIN F, i < j, NEW w \in ToSet(F[j].events)
       PROVE  After(w, F[i].seq) /\ \A u \in ToSet(F[i].events) : u < w
  <2>1. at[i] < at[j]
    BY <1>12, <1>14, <1>17 DEF Rising
  <2>2. w \in page(at[j]) /\ ToSet(F[i].events) = page(at[i])
    BY <1>8, <1>14, <1>17
  <2>3. at[i] \in 1..n /\ pages[at[i]] < w
    BY <1>6, <1>14, <2>1, <2>2
  <2>4. w \in Events /\ pages[at[i]] \in Events
    BY <1>3, <1>4, <1>14, <2>2, <2>3
  <2>5. Earlier(pages[at[i]], w)
    BY <2>3, <2>4 DEF HistInv
  <2>6. F[i].seq = hist[pages[at[i]]].seq
    BY <1>8, <1>14, <2>3
  <2>7. hist[w].seq \in Nat /\ hist[pages[at[i]]].seq \in Nat
    BY <2>4, Recorded
  <2>8. After(w, F[i].seq)
    <3>1. hist[pages[at[i]]].seq <= hist[w].seq
      BY <2>5 DEF Earlier
    <3>2. Durable(w) => hist[pages[at[i]]].seq < hist[w].seq
      BY <2>5 DEF Earlier
    <3>3. \A x, y \in Nat : (x <= y => y >= x) /\ (x < y => y > x)
      OBVIOUS
    <3>4. hist[w].seq >= hist[pages[at[i]]].seq /\ (Durable(w) => hist[w].seq > hist[pages[at[i]]].seq)
      BY <2>7, <3>1, <3>2, <3>3
    <3> QED BY <2>6, <3>4, Zenon DEF After, NewDurable
  <2>9. ASSUME NEW u \in ToSet(F[i].events) PROVE u < w
    <3>1. u \in page(at[i])
      BY <2>2
    <3>2. u <= pages[at[i]]
      BY <1>5, <2>3, <3>1
    <3>3. u \in Nat /\ w \in Nat /\ pages[at[i]] \in Nat
      BY <1>2, <1>4, <1>14, <2>4, <3>1
    <3> QED BY <2>3, <3>2, <3>3
  <2> QED BY <2>8, <2>9
<1>18. ASSUME NEW u \in sent PROVE \E k \in DOMAIN F : u \in ToSet(F[k].events)
  <2>1. PICK i \in 1..(n + 1) : u \in page(i)
    BY <1>7
  <2>2. i \in ps
    BY <1>9, <2>1
  <2>3. PICK k \in 1..m : at[k] = i
    BY <1>12, <2>2
  <2>4. ToSet(F[k].events) = page(i)
    BY <1>8, <1>14, <2>1, <2>3
  <2> QED BY <1>14, <2>1, <2>4
<1>19. gone => 1 \in DOMAIN F /\ F[1].gone
  <2> SUFFICES ASSUME gone PROVE 1 \in DOMAIN F /\ F[1].gone
    OBVIOUS
  <2>1. 1 \in ps
    BY <1>3, <1>9
  <2>2. PICK k \in 1..m : at[k] = 1
    BY <1>12, <2>1
  <2>3. 1 \in 1..m /\ at[1] \in 1..(n + 1)
    BY <1>14, <2>2
  <2>4. k = 1
    <3> SUFFICES ASSUME k # 1 PROVE FALSE
      OBVIOUS
    <3>1. 1 < k
      BY <2>2
    <3>2. at[1] < at[k]
      BY <1>12, <2>3, <3>1 DEF Rising
    <3> QED BY <2>2, <2>3, <3>2
  <2>5. F[1] = frames[1] /\ frames[1].gone
    BY <1>8, <1>10, <1>14, <2>1, <2>2, <2>4
  <2> QED BY <1>14, <2>3, <2>5
<1>23. \A i, j \in DOMAIN F : i < j => F[i].seq <= F[j].seq
  <2> SUFFICES ASSUME NEW i \in 1..m, NEW j \in 1..m, i < j PROVE F[i].seq <= F[j].seq
    BY <1>14
  <2>1. at[i] < at[j]
    BY <1>12 DEF Rising
  <2> QED BY <1>14, <1>22, <2>1
<1>20. CatchesUp(F, sent, gone)
  BY <1>15, <1>16, <1>23, <1>17, <1>18, <1>19 DEF CatchesUp
<1> QED BY <1>20 DEF F
--------------------------------------------------------------------------------
(* The types.                                                               *)

\* The empty snapshot, and the parts of it.
LEMMA NoSnapIs == NoSnap \in [ver : Nat, ep : Nat, shows : SUBSET Events] /\ NoSnap.ep = 0
  BY DEF NoSnap

\* There are finitely many events.
LEMMA EventsFinite ==
  ASSUME TypeOK
  PROVE  /\ IsFiniteSet(Events) /\ Events \subseteq Nat
         /\ \A u \in Events : hist[u].ver \in Nat /\ hist[u].seq \in Nat /\ hist[u].ep \in Nat
<1>1. Len(hist) \in Nat
  BY DEF TypeOK
<1>2. IsFiniteSet(Events) /\ Events \subseteq Nat
  BY <1>1, FS_Interval DEF Events
<1>3. \A u \in Events : hist[u].ver \in Nat /\ hist[u].seq \in Nat /\ hist[u].ep \in Nat
  BY Recorded
<1> QED BY <1>2, <1>3

\* The highest of a finite set of versions.
LEMMA VersionsFinite ==
  ASSUME TypeOK, NEW S \in SUBSET Events
  PROVE  IsFiniteSet(Versions(S)) /\ Versions(S) \subseteq Nat
<1>1. {w \in S : Session(w)} \in SUBSET Events
  OBVIOUS
<1>2. IsFiniteSet(Events) /\ \A u \in Events : hist[u].ver \in Nat
  BY EventsFinite
<1>3. PICK T : T = {w \in S : Session(w)}
  OBVIOUS
<1>4. IsFiniteSet(T) /\ T \subseteq Events
  BY <1>1, <1>2, <1>3, FS_Subset
<1>5. PICK f : f = [u \in T |-> hist[u].ver]
  OBVIOUS
<1>6. Versions(S) = {f[u] : u \in T}
  BY <1>3, <1>5 DEF Versions
<1>7. IsFiniteSet({f[u] : u \in T})
  BY <1>4, ImageFinite
<1>8. Versions(S) \subseteq Nat
  BY <1>2, <1>4, <1>5, <1>6
<1> QED BY <1>6, <1>7, <1>8

\* A version above which nothing of S lies.
LEMMA HighestVersion ==
  ASSUME TypeOK, NEW S \in SUBSET Events, NEW v \in Nat
  PROVE  /\ Highest(v, Versions(S)) \in Nat /\ v <= Highest(v, Versions(S))
         /\ \A u \in S : Session(u) => hist[u].ver <= Highest(v, Versions(S))
         /\ Highest(v, Versions(S)) = v \/ \E u \in S : Session(u) /\ Highest(v, Versions(S)) = hist[u].ver
<1>1. IsFiniteSet(Versions(S)) /\ Versions(S) \subseteq Nat
  BY VersionsFinite
<1>2. /\ Highest(v, Versions(S)) \in {v} \cup Versions(S) /\ Highest(v, Versions(S)) \in Nat
      /\ v <= Highest(v, Versions(S)) /\ \A k \in Versions(S) : k <= Highest(v, Versions(S))
  BY <1>1, HighestIs
<1>3. \A u \in S : Session(u) => hist[u].ver \in Versions(S)
  BY DEF Versions
<1>4. \A k \in Versions(S) : \E u \in S : Session(u) /\ k = hist[u].ver
  BY DEF Versions
<1> HIDE DEF Highest
<1> QED BY <1>2, <1>3, <1>4

\* ... and the highest durable sequence among the events of a set.
LEMMA HighestSeq ==
  ASSUME TypeOK, NEW S \in SUBSET Events, NEW q \in Nat
  PROVE  LET h == Highest(q, {hist[u].seq : u \in {w \in S : Durable(w)}}) IN
         /\ h \in Nat /\ q <= h
         /\ \A u \in S : Durable(u) => hist[u].seq <= h
         /\ h = q \/ \E u \in S : Durable(u) /\ h = hist[u].seq
<1>1. PICK T : T = {w \in S : Durable(w)}
  OBVIOUS
<1>2. PICK Q : Q = {hist[u].seq : u \in T}
  OBVIOUS
<1>3. IsFiniteSet(T) /\ T \subseteq Events
  <2>2. IsFiniteSet(Events)
    BY EventsFinite
  <2>3. T \in SUBSET Events
    BY <1>1
  <2> QED BY <2>2, <2>3, FS_Subset
<1>4. PICK f : f = [u \in T |-> hist[u].seq]
  OBVIOUS
<1>5. Q = {f[u] : u \in T}
  BY <1>2, <1>4
<1>6. IsFiniteSet(Q) /\ Q \subseteq Nat
  <2>1. \A u \in T : hist[u].seq \in Nat
    BY <1>3, EventsFinite
  <2>2. IsFiniteSet({f[u] : u \in T})
    BY <1>3, ImageFinite
  <2> QED BY <1>2, <1>5, <2>1, <2>2
<1>7. /\ Highest(q, Q) \in {q} \cup Q /\ Highest(q, Q) \in Nat
      /\ q <= Highest(q, Q) /\ \A k \in Q : k <= Highest(q, Q)
  BY <1>6, HighestIs
<1>8. \A u \in S : Durable(u) => hist[u].seq \in Q
  BY <1>1, <1>2
<1>9. \A k \in Q : \E u \in S : Durable(u) /\ k = hist[u].seq
  BY <1>1, <1>2
<1>10. Q = {hist[u].seq : u \in {w \in S : Durable(w)}}
  BY <1>1, <1>2
<1> QED BY <1>7, <1>8, <1>9, <1>10

Snapshots == [ver : Nat, ep : Nat, shows : SUBSET Events]

NodeTypes == /\ hist \in Seq(Recording) /\ head \in Nat /\ epoch \in Nat /\ ver \in Nat
             /\ floor \in Nat /\ ring \subseteq Events
StreamTypes == /\ open \in BOOLEAN /\ topic \in BOOLEAN /\ sSeq \in Nat /\ sVer \in Nat
               /\ live \in Seq(Events)
               /\ due \in BOOLEAN /\ congested \in BOOLEAN /\ degraded \in BOOLEAN
WireTypes == up \in BOOLEAN /\ net \in Seq(Frames) /\ drops \in Nat
CursorTypes == started \in BOOLEAN /\ cSeq \in Nat /\ cEp \in Nat /\ cVer \in Nat
FollowerTypes == /\ fol \in {"none", "joining", "on"} /\ from \in Nat /\ held \subseteq Events
                 /\ snap \in Snapshots /\ reread \in BOOLEAN /\ fromEp \in Nat
                 /\ known \subseteq Events /\ lost \in BOOLEAN

\* The type invariant, part by part.
LEMMA TypesAre ==
  TypeOK <=> NodeTypes /\ StreamTypes /\ WireTypes /\ CursorTypes /\ FollowerTypes
BY Zenon DEF TypeOK, NodeTypes, StreamTypes, WireTypes, CursorTypes, FollowerTypes, Frames, Recording, Snapshots

\* ... and in the state after a step.
LEMMA TypesAreNext ==
  TypeOK' <=> NodeTypes' /\ StreamTypes' /\ WireTypes' /\ CursorTypes' /\ FollowerTypes'
BY Zenon DEF TypeOK, NodeTypes, StreamTypes, WireTypes, CursorTypes, FollowerTypes, Frames, Recording, Snapshots
\* Nothing about the events changes while the history does not.
LEMMA SameHistory ==
  ASSUME hist' = hist
  PROVE  Events' = Events /\ Frames' = Frames /\ Snapshots' = Snapshots
BY DEF Events, Frames, Snapshots

\* What a flush takes of the waiting events, and what it sends.
Due(u) == IF Session(u) THEN hist[u].ver > (IF degraded THEN 0 ELSE sVer) ELSE hist[u].seq > sSeq
LiveTaken == {u \in ToSet(live) : Due(u)}
LiveSent  == Only(live, {u \in LiveTaken : Session(u) => topic})

Sends(sent) ==
  /\ sent \in Seq(Events) /\ (Rising(live) => Rising(sent))
  /\ ToSet(sent) = {u \in LiveTaken : Session(u) => topic}
  /\ net' = IF sent = <<>> /\ ~degraded THEN net
            ELSE Append(net, [events |-> sent, seq |-> sSeq', ep |-> epoch, gone |-> degraded])
  /\ sVer' \in Nat
  /\ sVer' = 0 \/ sVer' = sVer \/ \E u \in ToSet(live) : Session(u) /\ sVer' = hist[u].ver
  /\ sSeq' \in Nat /\ sSeq <= sSeq'
  /\ sSeq' = sSeq \/ \E u \in ToSet(live) : Durable(u) /\ sSeq' = hist[u].seq
  /\ \A u \in ToSet(live) : Durable(u) => hist[u].seq <= sSeq'
  /\ live' = <<>> /\ degraded' = FALSE /\ due' = FALSE

\* The elements of a sequence of events are events.
LEMMA Elements ==
  ASSUME NEW T, NEW s \in Seq(T)
  PROVE  /\ ToSet(s) \subseteq T /\ \A i \in DOMAIN s : s[i] \in ToSet(s) /\ s[i] \in T
         /\ \A u \in ToSet(s) : \E i \in DOMAIN s : s[i] = u
<1>1. DOMAIN s = 1..Len(s) /\ \A i \in 1..Len(s) : s[i] \in T
  OBVIOUS
<1> QED BY <1>1 DEF ToSet

\* What a flush does.
LEMMA SendLiveIs ==
  ASSUME TypeOK, SendLive
  PROVE  Sends(LiveSent)
<1>1. live \in Seq(Events) /\ sSeq \in Nat /\ sVer \in Nat
  BY TypesAre DEF StreamTypes
<1>2. ToSet(live) \subseteq Events /\ ToSet(live) \in SUBSET Events
  BY <1>1, Elements
<1>3. PICK taken : taken = {u \in ToSet(live) : IF Session(u) THEN hist[u].ver > (IF degraded THEN 0 ELSE sVer)
                                                             ELSE hist[u].seq > sSeq}
  OBVIOUS
<1>4. taken = LiveTaken /\ taken \in SUBSET Events
  BY <1>2, <1>3 DEF LiveTaken, Due
<1>5. PICK v0 : v0 = IF degraded THEN 0 ELSE sVer
  OBVIOUS
<1>6. v0 \in Nat /\ (v0 = 0 \/ v0 = sVer)
  BY <1>1, <1>5
<1>7. sVer' = Highest(v0, Versions(taken))
  BY <1>3, <1>5, Zenon DEF SendLive
<1>8. sSeq' = Highest(sSeq, {hist[u].seq : u \in {w \in ToSet(live) : Durable(w)}})
  BY DEF SendLive
<1>9. /\ live' = <<>> /\ degraded' = FALSE /\ due' = FALSE
      /\ net' = IF LiveSent = <<>> /\ ~degraded THEN net
                ELSE Append(net, [events |-> LiveSent, seq |-> sSeq', ep |-> epoch, gone |-> degraded])
  BY Zenon DEF SendLive, LiveSent, LiveTaken, Due
<1>10. /\ sVer' \in Nat
       /\ sVer' = 0 \/ sVer' = sVer \/ \E u \in ToSet(live) : Session(u) /\ sVer' = hist[u].ver
  <2>1. /\ Highest(v0, Versions(taken)) \in Nat
        /\ \/ Highest(v0, Versions(taken)) = v0
           \/ \E u \in taken : Session(u) /\ Highest(v0, Versions(taken)) = hist[u].ver
    BY <1>4, <1>6, HighestVersion
  <2>2. taken \subseteq ToSet(live)
    BY <1>3
  <2> QED BY <1>6, <1>7, <2>1, <2>2
<1>11. /\ sSeq' \in Nat /\ sSeq <= sSeq'
       /\ sSeq' = sSeq \/ \E u \in ToSet(live) : Durable(u) /\ sSeq' = hist[u].seq
       /\ \A u \in ToSet(live) : Durable(u) => hist[u].seq <= sSeq'
  BY <1>1, <1>2, <1>8, HighestSeq
<1>12. /\ LiveSent \in Seq(Events) /\ (Rising(live) => Rising(LiveSent))
       /\ ToSet(LiveSent) = {u \in LiveTaken : Session(u) => topic}
  <2>1. Events \subseteq Nat
    BY EventsFinite
  <2>2. PICK D : D = {u \in LiveTaken : Session(u) => topic}
    OBVIOUS
  <2>3. LiveSent = Only(live, D)
    BY <2>2 DEF LiveSent
  <2>4. /\ Only(live, D) \in Seq(Events) /\ ToSet(Only(live, D)) = ToSet(live) \cap D
        /\ Rising(live) => Rising(Only(live, D))
    BY <1>1, <2>1, OnlyIs
  <2>5. ToSet(live) \cap D = D
    BY <2>2 DEF LiveTaken
  <2> QED BY <2>2, <2>3, <2>4, <2>5
<1> QED BY <1>9, <1>10, <1>11, <1>12 DEF Sends

\* What a catch-up is asked to send.
Wanted     == fol # "none"
CaughtUp   == {u \in Taken : Session(u) => Wanted}
Renewed    == MustResnap /\ Wanted

\* Its events are events, and the version it counts from is one.
LEMMA TakenIs ==
  ASSUME TypeOK
  PROVE  Taken \in SUBSET Events /\ CaughtUp \in SUBSET Events /\ KnownVer \in Nat
<1>1. ring \subseteq Events /\ cVer \in Nat
  BY TypesAre DEF NodeTypes, CursorTypes
<1>2. LogAfter \subseteq Events /\ RingAfter \subseteq Events
  BY <1>1 DEF LogAfter, RingAfter
<1>3. Taken \in SUBSET Events
  BY <1>2 DEF Taken
<1>4. KnownVer \in Nat
  BY <1>1 DEF KnownVer
<1> QED BY <1>3, <1>4 DEF CaughtUp

\* What a subscription does.
LEMMA SubscribeIs ==
  ASSUME TypeOK, HistInv, cSeq <= head, Subscribe
  PROVE  /\ CatchesUp(net', CaughtUp, Renewed) /\ net' \in Seq(Frames)
         /\ topic' = Wanted /\ sSeq' = head /\ sVer' \in Nat
         /\ sVer' = 0 \/ sVer' = KnownVer \/ \E u \in Taken : Session(u) /\ sVer' = hist[u].ver
<1>1. net' = CatchUp(CaughtUp, Renewed)
  BY Zenon DEF Subscribe, CaughtUp, Renewed, Wanted
<1>2. CaughtUp \subseteq Events /\ Renewed \in BOOLEAN /\ Taken \in SUBSET Events /\ KnownVer \in Nat
  BY TakenIs DEF Renewed
<1>3. CatchesUp(CatchUp(CaughtUp, Renewed), CaughtUp, Renewed)
  BY <1>2, CatchUpIs
<1>4. CatchesUp(net', CaughtUp, Renewed) /\ net' \in Seq(Frames)
  BY <1>1, <1>3 DEF CatchesUp
<1>5. topic' = Wanted /\ sSeq' = head
  BY DEF Subscribe, Wanted
<1>6. sVer' = IF MustResnap THEN 0 ELSE Highest(KnownVer, Versions(Taken))
  BY DEF Subscribe
<1>7. /\ Highest(KnownVer, Versions(Taken)) \in Nat
      /\ \/ Highest(KnownVer, Versions(Taken)) = KnownVer
         \/ \E u \in Taken : Session(u) /\ Highest(KnownVer, Versions(Taken)) = hist[u].ver
  BY <1>2, HighestVersion
<1> QED BY <1>4, <1>5, <1>6, <1>7
\* One more number at the end of a sequence.
LEMMA AppendIs ==
  ASSUME NEW T, T \subseteq Nat, NEW s \in Seq(T), NEW u \in T
  PROVE  /\ Append(s, u) \in Seq(T) /\ ToSet(Append(s, u)) = ToSet(s) \cup {u}
         /\ Rising(s) /\ (\A w \in ToSet(s) : w < u) => Rising(Append(s, u))
<1>1. PICK a : a = Append(s, u)
  OBVIOUS
<1>2. /\ Len(s) \in Nat /\ DOMAIN s = 1..Len(s) /\ DOMAIN a = 1..(Len(s) + 1) /\ a \in Seq(T)
      /\ \A i \in 1..Len(s) : a[i] = s[i]
      /\ a[Len(s) + 1] = u
  BY <1>1
<1>3. \A i \in 1..(Len(s) + 1) : i \in 1..Len(s) \/ i = Len(s) + 1
  BY <1>2
<1>4. ToSet(a) = ToSet(s) \cup {u}
  <2>1. \A x \in ToSet(a) : x \in ToSet(s) \cup {u}
    BY <1>2, <1>3 DEF ToSet
  <2>2. \A x \in ToSet(s) : x \in ToSet(a)
    <3>1. \A i \in 1..Len(s) : i \in DOMAIN a
      BY <1>2
    <3> QED BY <1>2, <3>1 DEF ToSet
  <2>3. u \in ToSet(a)
    <3>1. Len(s) + 1 \in DOMAIN a
      BY <1>2
    <3> QED BY <1>2, <3>1 DEF ToSet
  <2> QED BY <2>1, <2>2, <2>3
<1>5. ASSUME Rising(s), \A w \in ToSet(s) : w < u PROVE Rising(a)
  <2> SUFFICES ASSUME NEW i \in DOMAIN a, NEW j \in DOMAIN a, i < j PROVE a[i] < a[j]
    BY DEF Rising
  <2>1. i \in 1..Len(s)
    BY <1>2
  <2>2. CASE j \in 1..Len(s)
    BY <1>2, <1>5, <2>1, <2>2 DEF Rising
  <2>3. CASE j = Len(s) + 1
    <3>1. s[i] \in ToSet(s)
      BY <1>2, <2>1 DEF ToSet
    <3> QED BY <1>2, <1>5, <2>1, <2>3, <3>1
  <2> QED BY <1>2, <1>3, <2>2, <2>3
<1> QED BY <1>1, <1>2, <1>4, <1>5

\* The event a step of the node makes.
NewOne == Len(hist) + 1

Makes(n, kind) ==
  /\ n \in Nat /\ n \notin Events /\ \A u \in Events : u < n
  /\ Events' = Events \cup {n} /\ Events' \subseteq Nat
  /\ \A u \in Events : hist'[u] = hist[u]
  /\ hist'[n].kind = kind
  /\ hist'[n].ver = IF kind = "foreign" THEN 0 ELSE ver + 1
  /\ hist'[n].ep = epoch
  /\ hist'[n].seq = IF kind = "stream" THEN head ELSE head + 1
  /\ hist' \in Seq(Recording) /\ head' = hist'[n].seq /\ head' \in Nat
  /\ ver' = (IF kind = "foreign" THEN ver ELSE ver + 1) /\ ver' \in Nat

\* What a step that makes an event adds to the history.
LEMMA MakeEventIs ==
  ASSUME TypeOK, NEW kind \in Kinds, MakeEvent(kind)
  PROVE  Makes(NewOne, kind)
<1>1. hist \in Seq(Recording) /\ head \in Nat /\ epoch \in Nat /\ ver \in Nat
  BY TypesAre DEF NodeTypes
<1>2. PICK r : r = [kind |-> kind, ver |-> IF kind = "foreign" THEN 0 ELSE ver + 1, ep |-> epoch,
                    seq |-> IF kind = "stream" THEN head ELSE head + 1]
  OBVIOUS
<1>3. /\ r \in Recording /\ r.kind = kind /\ r.ver = IF kind = "foreign" THEN 0 ELSE ver + 1
      /\ r.ep = epoch /\ r.seq = IF kind = "stream" THEN head ELSE head + 1
  BY <1>1, <1>2 DEF Recording
<1>4. hist' = Append(hist, r)
  BY <1>2 DEF MakeEvent
<1>5. /\ Len(hist) \in Nat /\ hist' \in Seq(Recording) /\ Len(hist') = Len(hist) + 1
      /\ \A u \in 1..Len(hist) : hist'[u] = hist[u]
      /\ hist'[Len(hist) + 1] = r
  BY <1>1, <1>3, <1>4
<1>6. /\ NewOne \in Nat /\ NewOne \notin Events /\ \A u \in Events : u < NewOne
      /\ Events' = Events \cup {NewOne} /\ Events' \subseteq Nat
  BY <1>5 DEF NewOne, Events
<1>7. head' = r.seq /\ ver' = IF kind = "foreign" THEN ver ELSE ver + 1
  BY <1>3 DEF MakeEvent
<1>8. (\A u \in Events : hist'[u] = hist[u]) /\ hist'[NewOne] = r
  BY <1>5 DEF NewOne, Events
<1>9. head' \in Nat /\ ver' \in Nat
  BY <1>1, <1>3, <1>7
<1> QED BY <1>3, <1>5, <1>6, <1>7, <1>8, <1>9 DEF Makes

\* What the stream holds once it has heard of an event.
Hearing(n) ==
  /\ live' \in Seq(Events') /\ degraded' \in BOOLEAN /\ due' \in BOOLEAN
  /\ UNCHANGED <<open, topic, sSeq, sVer, congested>>
  /\ ~open => UNCHANGED <<live, due, degraded>>
  /\ ToSet(live') \subseteq ToSet(live) \cup {n}
  /\ Rising(live) => Rising(live')
  /\ open => \A w \in ToSet(live) \cup {n} :
               w \in ToSet(live') \/ (degraded' /\ hist'[w].kind = "stream")
  /\ degraded => degraded'
  /\ degraded' => degraded \/ congested
  /\ due => due'
  /\ open => due' \/ congested

\* What an append does to an open stream: it is buffered, and a flush is due.
LEMMA HearsIs ==
  ASSUME TypeOK, NEW kind \in Kinds, MakeEvent(kind)
  PROVE  Hearing(NewOne)
<1>1. Hears(NewOne)
  BY DEF MakeEvent, NewOne
<1>2. live \in Seq(Events) /\ open \in BOOLEAN /\ degraded \in BOOLEAN /\ due \in BOOLEAN
  BY TypesAre DEF StreamTypes
<1>3. Makes(NewOne, kind)
  BY MakeEventIs
<1>4. /\ live \in Seq(Events') /\ NewOne \in Events' /\ Events' \subseteq Nat
      /\ \A w \in ToSet(live) : w < NewOne
  <2>1. ToSet(live) \subseteq Events
    BY <1>2, Elements
  <2>2. /\ Events \subseteq Events' /\ NewOne \in Events' /\ Events' \subseteq Nat
        /\ \A w \in Events : w < NewOne
    BY <1>3 DEF Makes
  <2>3. live \in Seq(Events')
    <3>1. Events \subseteq Events'
      BY <2>2
    <3>2. \A s \in Seq(Events) : s \in Seq(Events')
      BY <3>1
    <3> QED BY <1>2, <3>2
  <2> QED BY <2>1, <2>2, <2>3
<1>5. PICK l : l = Append(live, NewOne)
  OBVIOUS
<1>6. /\ l \in Seq(Events') /\ ToSet(l) = ToSet(live) \cup {NewOne}
      /\ Rising(live) => Rising(l)
  <2>1. PICK T : T = Events'
    OBVIOUS
  <2>2. T \subseteq Nat /\ live \in Seq(T) /\ NewOne \in T
    BY <1>4, <2>1
  <2>3. /\ Append(live, NewOne) \in Seq(T) /\ ToSet(Append(live, NewOne)) = ToSet(live) \cup {NewOne}
        /\ Rising(live) /\ (\A w \in ToSet(live) : w < NewOne) => Rising(Append(live, NewOne))
    BY <2>2, AppendIs
  <2> QED BY <1>4, <1>5, <2>1, <2>3
<1>7. CASE ~open
  <2>1. UNCHANGED stream
    BY <1>1, <1>7 DEF Hears
  <2>2. /\ UNCHANGED <<open, topic, sSeq, sVer, congested>> /\ live' = live /\ due' = due
        /\ degraded' = degraded
    BY <2>1 DEF stream
  <2> QED BY <1>2, <1>4, <1>7, <2>2 DEF Hearing
<1>8. CASE open /\ ~congested
  BY <1>1, <1>2, <1>5, <1>6, <1>8 DEF Hears, Hearing
<1>9. CASE open /\ congested
  <2>0. UNCHANGED <<open, topic, sSeq, sVer, due, congested>>
    BY <1>1, <1>9 DEF Hears
  <2>1. CASE UNCHANGED <<live, degraded>> /\ hist'[NewOne].kind = "stream" /\ degraded
    BY <1>2, <1>4, <1>9, <2>0, <2>1 DEF Hearing
  <2>2. CASE live' = l /\ UNCHANGED degraded
    BY <1>2, <1>6, <1>9, <2>0, <2>2 DEF Hearing
  <2>3. ASSUME NEW drop, drop = {w \in ToSet(l) : topic /\ hist'[w].kind = "stream"},
               live' = Only(l, ToSet(l) \ drop), degraded' = (degraded \/ drop # {})
        PROVE  Hearing(NewOne)
    <3>1. PICK D : D = ToSet(l) \ drop
      OBVIOUS
    <3>2. /\ Only(l, D) \in Seq(Events') /\ ToSet(Only(l, D)) = ToSet(l) \cap D
          /\ Rising(l) => Rising(Only(l, D))
      BY <1>4, <1>6, OnlyIs
    <3>3. live' \in Seq(Events') /\ ToSet(live') = ToSet(l) \ drop /\ (Rising(live) => Rising(live'))
      BY <1>6, <2>3, <3>1, <3>2
    <3>4. \A w \in ToSet(l) : w \in ToSet(live') \/ (degraded' /\ hist'[w].kind = "stream")
      BY <2>3, <3>3
    <3>5. degraded' \in BOOLEAN /\ (degraded => degraded')
      BY <1>2, <2>3
    <3> QED BY <1>2, <1>6, <1>9, <2>0, <3>3, <3>4, <3>5 DEF Hearing
  <2>4. \/ UNCHANGED <<live, degraded>> /\ hist'[NewOne].kind = "stream" /\ degraded
        \/ live' = l /\ UNCHANGED degraded
        \/ \E drop : /\ drop = {w \in ToSet(l) : topic /\ hist'[w].kind = "stream"}
                     /\ live' = Only(l, ToSet(l) \ drop) /\ degraded' = (degraded \/ drop # {})
    BY <1>1, <1>5, <1>9 DEF Hears
  <2> QED BY <2>1, <2>2, <2>3, <2>4
<1> QED BY <1>7, <1>8, <1>9
\* The frame the reader reads next, and the events of the session in it.
NextFrame == net[1]
Seen == {u \in ToSet(NextFrame.events) : Session(u)}

\* What reading a frame does to the wire and to the cursor.
Reads ==
  /\ 1 \in DOMAIN net /\ NextFrame \in Frames /\ Seen \subseteq Events
  /\ net' \in Seq(Frames) /\ Len(net') = Len(net) - 1 /\ Len(net) \in Nat
  /\ \A i \in DOMAIN net' : i + 1 \in DOMAIN net /\ net'[i] = net[i + 1]
  /\ \A i \in DOMAIN net : i = 1 \/ (i - 1 \in DOMAIN net' /\ net'[i - 1] = net[i])
  /\ cEp' = NextFrame.ep /\ cSeq' = NextFrame.seq /\ cVer' \in Nat
  /\ \/ Seen = {} /\ cVer' = IF NextFrame.ep = cEp THEN cVer ELSE 0
     \/ \E h \in Seen : (\A w \in Seen : w <= h) /\ cVer' = hist[h].ver

\* The cursor's version after a frame.
VersionRead(f, us) == IF us = {} THEN (IF f.ep = cEp THEN cVer ELSE 0)
                      ELSE hist[CHOOSE u \in us : \A w \in us : w <= u].ver

\* What the reader does with the oldest frame, told with the frame's events as a set.
LEMMA ReceiveIs ==
  ASSUME TypeOK, Receive
  PROVE  Reads
<1>1. net \in Seq(Frames) /\ net # <<>> /\ cVer \in Nat
  BY TypesAre DEF WireTypes, CursorTypes, Receive
<1>2. Len(net) \in Nat /\ DOMAIN net = 1..Len(net) /\ Len(net) # 0 /\ Head(net) = net[1] /\ net[1] \in Frames
  BY <1>1
<1>3. PICK f : f = net[1]
  OBVIOUS
<1>4. PICK us : us = {u \in ToSet(f.events) : Session(u)}
  OBVIOUS
<1>5. f \in Frames /\ f.events \in Seq(Events) /\ us \in SUBSET Events /\ us = Seen /\ f = NextFrame
  <2>1. f \in Frames /\ f.events \in Seq(Events)
    BY <1>2, <1>3 DEF Frames
  <2>2. ToSet(f.events) \subseteq Events
    BY <2>1, Elements
  <2> QED BY <1>3, <1>4, <2>1, <2>2 DEF Seen, NextFrame
<1>6. /\ net' = Tail(net) /\ cEp' = f.ep /\ cSeq' = f.seq
      /\ cVer' = IF us = {} THEN (IF f.ep = cEp THEN cVer ELSE 0)
                 ELSE hist[CHOOSE u \in us : \A w \in us : w <= u].ver
  <2>1. f = Head(net)
    BY <1>2, <1>3
  <2>2. us = {u \in ToSet(Head(net).events) : Session(u)}
    BY <1>4, <2>1
  <2>3. net' = Tail(net) /\ cEp' = Head(net).ep /\ cSeq' = Head(net).seq
    BY Zenon DEF Receive
  <2>4. cVer' = VersionRead(Head(net), {u \in ToSet(Head(net).events) : Session(u)})
    BY Zenon DEF Receive, VersionRead
  <2>5. cVer' = VersionRead(f, us)
    BY <2>1, <2>2, <2>4
  <2>6. cVer' = IF us = {} THEN (IF f.ep = cEp THEN cVer ELSE 0)
                ELSE hist[CHOOSE u \in us : \A w \in us : w <= u].ver
    BY <2>5, Zenon DEF VersionRead
  <2> QED BY <2>1, <2>3, <2>6
<1>7. /\ net' \in Seq(Frames) /\ Len(net') = Len(net) - 1
      /\ \A i \in DOMAIN net' : i + 1 \in DOMAIN net /\ net'[i] = net[i + 1]
      /\ \A i \in DOMAIN net : i = 1 \/ (i - 1 \in DOMAIN net' /\ net'[i - 1] = net[i])
  <2>1. PICK t : t = Tail(net)
    OBVIOUS
  <2>2. /\ t \in Seq(Frames) /\ Len(t) = Len(net) - 1 /\ DOMAIN t = 1..(Len(net) - 1)
        /\ \A i \in 1..(Len(net) - 1) : t[i] = net[i + 1]
    BY <1>1, <1>2, <2>1
  <2>3. \A i \in 1..(Len(net) - 1) : i + 1 \in 1..Len(net)
    BY <1>2
  <2>4. \A i \in 1..Len(net) : i = 1 \/ (i - 1 \in 1..(Len(net) - 1) /\ (i - 1) + 1 = i)
    BY <1>2
  <2>5. \A i \in 1..Len(net) : i = 1 \/ (i - 1 \in 1..(Len(net) - 1) /\ t[i - 1] = net[i])
    BY <2>2, <2>4
  <2> QED BY <1>2, <1>6, <2>1, <2>2, <2>3, <2>5
<1>8. ASSUME us # {} PROVE \E h \in us : (\A w \in us : w <= h) /\ cVer' = hist[h].ver
  <2>1. IsFiniteSet(us) /\ us \subseteq Nat
    BY <1>5, EventsFinite, FS_Subset
  <2> DEFINE Top(h) == \A w \in us : w <= h
  <2>2. \E h \in us : Top(h)
    BY <1>8, <2>1, HighestExists
  <2>3. cVer' = hist[CHOOSE u \in us : Top(u)].ver
    BY <1>6, <1>8
  <2> HIDE DEF Top
  <2>4. (CHOOSE u \in us : Top(u)) \in us /\ Top(CHOOSE u \in us : Top(u))
    BY <2>2
  <2>5. PICK h : h = CHOOSE u \in us : Top(u)
    OBVIOUS
  <2>6. h \in us /\ Top(h) /\ cVer' = hist[h].ver
    BY <2>3, <2>4, <2>5
  <2> QED BY <2>6 DEF Top
<1>9. \/ us = {} /\ cVer' = IF f.ep = cEp THEN cVer ELSE 0
      \/ \E h \in us : (\A w \in us : w <= h) /\ cVer' = hist[h].ver
  BY <1>6, <1>8
<1>10. cVer' \in Nat
  BY <1>1, <1>5, <1>9, EventsFinite
<1> QED BY <1>2, <1>5, <1>6, <1>7, <1>9, <1>10 DEF Reads

\* What is left on the wire of a connection that ends.
Cut(k) ==
  /\ k \in Nat /\ k <= Len(net) /\ Len(net) \in Nat
  /\ net' \in Seq(Frames) /\ DOMAIN net' = 1..k
  /\ \A i \in 1..k : i \in DOMAIN net /\ net'[i] = net[i]

\* A lost connection leaves the frames that had already arrived, a prefix.
LEMMA LinkEndsIs ==
  ASSUME TypeOK, LinkEnds
  PROVE  \E k \in Nat : Cut(k)
<1>1. net \in Seq(Frames)
  BY TypesAre DEF WireTypes
<1>2. Len(net) \in Nat /\ DOMAIN net = 1..Len(net)
  BY <1>1
<1>3. PICK k \in 0..Len(net) : net' = SubSeq(net, 1, k)
  BY DEF LinkEnds
<1>4. k \in Nat /\ k <= Len(net)
  BY <1>2
<1>5. SubSeq(net, 1, k) = [i \in 1..k |-> net[i]]
  BY <1>1, <1>4
<1>6. \A i \in 1..k : i \in 1..Len(net) /\ net[i] \in Frames
  BY <1>1, <1>2, <1>4
<1>7. net' \in [1..k -> Frames]
  BY <1>3, <1>5, <1>6
<1>8. net' \in Seq(Frames)
  BY <1>4, <1>7
<1> QED BY <1>2, <1>3, <1>4, <1>5, <1>6, <1>8 DEF Cut
\* Longer histories have the sequences of the shorter ones.
LEMMA MoreEvents ==
  ASSUME Events \subseteq Events'
  PROVE  Seq(Frames) \subseteq Seq(Frames') /\ Snapshots \subseteq Snapshots'
<1>1. \A s \in Seq(Events) : s \in Seq(Events')
  OBVIOUS
<1>2. Frames \subseteq Frames'
  <2> SUFFICES ASSUME NEW f \in Frames PROVE f \in Frames'
    OBVIOUS
  <2>1. f.events \in Seq(Events')
    BY <1>1 DEF Frames
  <2> QED BY <2>1 DEF Frames
<1>3. \A s \in Seq(Frames) : s \in Seq(Frames')
  BY <1>2
<1>4. Snapshots \subseteq Snapshots'
  <2> SUFFICES ASSUME NEW f \in Snapshots PROVE f \in Snapshots'
    OBVIOUS
  <2>1. f.shows \in SUBSET Events'
    BY DEF Snapshots
  <2> QED BY <2>1 DEF Snapshots
<1> QED BY <1>3, <1>4

\* The node's steps keep the types.
LEMMA TypesMakeEvent ==
  ASSUME TypeOK, NEW kind \in Kinds, MakeEvent(kind)
  PROVE  TypeOK'
<1>1. NodeTypes /\ StreamTypes /\ WireTypes /\ CursorTypes /\ FollowerTypes
  BY TypesAre
<1>2. Makes(NewOne, kind) /\ Hearing(NewOne)
  BY MakeEventIs, HearsIs
<1>3. Events \subseteq Events' /\ NewOne \in Events'
  BY <1>2 DEF Makes
<1>4. floor' \in Nat
  <2>1. ring \in SUBSET Events /\ floor \in Nat
    BY <1>1 DEF NodeTypes
  <2>2. LetGo(ring) \in Nat
    BY <2>1, HighestVersion DEF LetGo
  <2>3. floor' = IF kind = "commit" THEN LetGo(ring) ELSE floor
    BY DEF MakeEvent
  <2> QED BY <2>1, <2>2, <2>3
<1>5. ring' \subseteq Events'
  <2>1. ring' = ring \cup {NewOne} \/ ring' = {} \/ ring' = ring
    BY DEF MakeEvent, NewOne
  <2> QED BY <1>1, <1>3, <2>1 DEF NodeTypes
<1>6. NodeTypes'
  <2>1. epoch' = epoch
    BY DEF MakeEvent
  <2> QED BY <1>1, <1>2, <1>4, <1>5, <2>1 DEF NodeTypes, Makes, Recording
<1>7. StreamTypes'
  BY <1>1, <1>2 DEF StreamTypes, Hearing
<1>8. WireTypes'
  <2>1. up' = up /\ net' = net /\ drops' = drops
    BY DEF MakeEvent
  <2>2. net \in Seq(Frames')
    BY <1>1, <1>3, MoreEvents DEF WireTypes
  <2> QED BY <1>1, <2>1, <2>2 DEF WireTypes
<1>9. CursorTypes'
  BY <1>1 DEF MakeEvent, cursor, CursorTypes
<1>10. FollowerTypes'
  <2>1. UNCHANGED <<fol, from, held, snap, reread, fromEp, known, lost>>
    BY DEF MakeEvent, follower
  <2>2. snap \in Snapshots'
    BY <1>1, <1>3, MoreEvents DEF FollowerTypes
  <2> QED BY <1>1, <1>3, <2>1, <2>2 DEF FollowerTypes
<1> QED BY <1>6, <1>7, <1>8, <1>9, <1>10, TypesAreNext

\* A flush keeps the types.
LEMMA TypesSendLive ==
  ASSUME TypeOK, SendLive
  PROVE  /\ sSeq' \in Nat /\ sVer' \in Nat /\ live' \in Seq(Events) /\ net' \in Seq(Frames)
         /\ due' \in BOOLEAN /\ degraded' \in BOOLEAN
<1>1. NodeTypes /\ StreamTypes /\ WireTypes
  BY TypesAre
<1>2. Sends(LiveSent)
  BY SendLiveIs
<1>3. PICK f : f = [events |-> LiveSent, seq |-> sSeq', ep |-> epoch, gone |-> degraded]
  OBVIOUS
<1>4. f \in Frames
  BY <1>1, <1>2, <1>3 DEF Sends, Frames, NodeTypes, StreamTypes
<1>5. net' = net \/ net' = Append(net, f)
  BY <1>2, <1>3 DEF Sends
<1>6. Append(net, f) \in Seq(Frames)
  BY <1>1, <1>4 DEF WireTypes
<1>7. net' \in Seq(Frames)
  BY <1>1, <1>5, <1>6 DEF WireTypes
<1>8. live' \in Seq(Events)
  BY <1>2 DEF Sends
<1> QED BY <1>2, <1>7, <1>8 DEF Sends

\* Nothing but the stream and the wire changes.
StreamStep == UNCHANGED <<node, up, cursor, follower, drops>>

\* A step of the stream and the wire keeps the rest typed.
LEMMA TypesStreamStep ==
  ASSUME TypeOK, StreamStep, StreamTypes', net' \in Seq(Frames)
  PROVE  TypeOK'
<1>1. NodeTypes /\ StreamTypes /\ WireTypes /\ CursorTypes /\ FollowerTypes
  BY TypesAre
<1>2. /\ UNCHANGED <<hist, head, epoch, ver, ring, floor>> /\ UNCHANGED <<up, drops>>
      /\ UNCHANGED <<started, cSeq, cEp, cVer>>
      /\ UNCHANGED <<fol, from, held, snap, reread, fromEp, known, lost>>
  BY DEF StreamStep, node, cursor, follower
<1>3. Events' = Events /\ Frames' = Frames /\ Snapshots' = Snapshots
  BY <1>2, SameHistory
<1>4. NodeTypes'
  BY <1>1, <1>2, <1>3 DEF NodeTypes
<1>5. WireTypes'
  BY <1>1, <1>2, <1>3 DEF WireTypes
<1>6. CursorTypes'
  BY <1>1, <1>2 DEF CursorTypes
<1>7. FollowerTypes'
  BY <1>1, <1>2, <1>3 DEF FollowerTypes
<1> QED BY <1>4, <1>5, <1>6, <1>7, TypesAreNext

\* The stream's own steps keep the types.
LEMMA TypesStream ==
  ASSUME TypeOK, Flush \/ Congest \/ Drain \/ UpdateTopics
  PROVE  TypeOK'
<1>1. NodeTypes /\ StreamTypes /\ WireTypes /\ CursorTypes /\ FollowerTypes
  BY TypesAre
<1>2. hist' = hist /\ StreamStep
  BY DEF Flush, Congest, Drain, UpdateTopics, StreamStep, node
<1>3. Events' = Events
  BY <1>2, SameHistory
<1>4. SendLive => /\ sSeq' \in Nat /\ sVer' \in Nat /\ live' \in Seq(Events) /\ net' \in Seq(Frames)
                  /\ due' \in BOOLEAN /\ degraded' \in BOOLEAN
  BY TypesSendLive
<1>5. StreamTypes' /\ net' \in Seq(Frames)
  <2>1. CASE Flush
    <3>1. /\ UNCHANGED <<open, topic, congested>>
          /\ (due' = FALSE /\ UNCHANGED <<live, degraded, sVer, sSeq, net>>) \/ SendLive
      BY <2>1 DEF Flush
    <3> QED BY <1>1, <1>3, <1>4, <3>1 DEF StreamTypes, WireTypes
  <2>2. CASE Congest
    BY <1>1, <1>3, <2>2 DEF Congest, StreamTypes, WireTypes
  <2>3. CASE Drain
    <3>1. /\ UNCHANGED <<open, topic>> /\ congested' = FALSE
          /\ UNCHANGED <<live, due, degraded, sVer, sSeq, net>> \/ SendLive
      BY <2>3 DEF Drain
    <3> QED BY <1>1, <1>3, <1>4, <3>1 DEF StreamTypes, WireTypes
  <2>4. CASE UpdateTopics
    BY <1>1, <1>3, <2>4 DEF UpdateTopics, StreamTypes, WireTypes
  <2> QED BY <2>1, <2>2, <2>3, <2>4
<1> QED BY <1>2, <1>5, TypesStreamStep

\* An eviction keeps the types; its event is the oldest of the ring.
Evicted == CHOOSE w \in ring : \A x \in ring : w <= x

\* The ring lets its oldest event go, and the floor rises to its version.
LEMMA EvictIs ==
  ASSUME TypeOK, Evict
  PROVE  /\ Evicted \in ring /\ ring' = ring \ {Evicted} /\ ring \subseteq Events /\ floor' \in Nat
         /\ floor <= floor' /\ floor \in Nat
         /\ Session(Evicted) => hist[Evicted].ver <= floor'
<1>1. ring \subseteq Events /\ ring \in SUBSET Events /\ floor \in Nat
  BY TypesAre DEF NodeTypes
<1>2. Evicted \in ring
  <2>1. IsFiniteSet(ring) /\ ring \subseteq Nat /\ ring # {}
    BY <1>1, EventsFinite, FS_Subset DEF Evict
  <2> DEFINE Low(w) == \A x \in ring : w <= x
  <2>2. \E w \in ring : Low(w)
    BY <2>1, LowestExists
  <2> HIDE DEF Low
  <2>3. (CHOOSE w \in ring : Low(w)) \in ring
    BY <2>2
  <2> QED BY <2>3 DEF Low, Evicted
<1>3. ring' = ring \ {Evicted} /\ floor' = Highest(floor, Versions({Evicted}))
  BY DEF Evict, Evicted, LetGo
<1>4. {Evicted} \in SUBSET Events
  BY <1>1, <1>2
<1> QED BY <1>1, <1>2, <1>3, <1>4, HighestVersion

\* The reader's and the follower's steps, and those of the connection, keep the types.
LEMMA TypesReader ==
  ASSUME TypeOK, HistInv, cSeq <= head, Evict \/ Start \/ Subscribe \/ Receive \/ Reconnect
  PROVE  TypeOK'
<1>1. NodeTypes /\ StreamTypes /\ WireTypes /\ CursorTypes /\ FollowerTypes
  BY TypesAre
<1>2. hist' = hist
  BY DEF Evict, Start, Subscribe, Receive, Reconnect, node
<1>3. Events' = Events /\ Frames' = Frames /\ Snapshots' = Snapshots
  BY <1>2, SameHistory
<1>4. CASE Evict
  <2>1. ring' \subseteq Events /\ floor' \in Nat
    BY <1>4, EvictIs
  <2>2. /\ UNCHANGED <<hist, head, epoch, ver>>
        /\ UNCHANGED <<open, topic, sSeq, sVer, live, due, congested, degraded>>
        /\ UNCHANGED <<up, net, drops>> /\ UNCHANGED <<started, cSeq, cEp, cVer>>
        /\ UNCHANGED <<fol, from, held, snap, reread, fromEp, known, lost>>
    BY <1>4 DEF Evict, stream, cursor, follower
  <2>3. NodeTypes'
    BY <1>1, <1>3, <2>1, <2>2 DEF NodeTypes
  <2>4. StreamTypes' /\ CursorTypes'
    BY <1>1, <1>3, <2>2 DEF StreamTypes, CursorTypes
  <2>5. WireTypes' /\ FollowerTypes'
    BY <1>1, <1>3, <2>2 DEF WireTypes, FollowerTypes
  <2> QED BY <2>3, <2>4, <2>5, TypesAreNext
<1>5. CASE Start
  <2>2. /\ UNCHANGED <<hist, head, epoch, ver, ring, floor>>
        /\ UNCHANGED <<open, topic, sSeq, sVer, live, due, congested, degraded>>
        /\ UNCHANGED <<up, net, drops>> /\ UNCHANGED <<cEp, cVer>>
        /\ UNCHANGED <<fol, from, held, snap, reread, fromEp, known, lost>>
        /\ cSeq' = head /\ started' = TRUE
    BY <1>5 DEF Start, node, stream, follower
  <2>3. NodeTypes' /\ StreamTypes'
    BY <1>1, <1>3, <2>2 DEF NodeTypes, StreamTypes
  <2>4. CursorTypes'
    BY <1>1, <2>2 DEF CursorTypes, NodeTypes
  <2>5. WireTypes' /\ FollowerTypes'
    BY <1>1, <1>3, <2>2 DEF WireTypes, FollowerTypes
  <2> QED BY <2>3, <2>4, <2>5, TypesAreNext
<1>6. CASE Subscribe
  <2>1. net' \in Seq(Frames) /\ topic' = Wanted /\ sSeq' = head /\ sVer' \in Nat
    BY <1>6, SubscribeIs
  <2>2. /\ UNCHANGED <<hist, head, epoch, ver, ring, floor>>
        /\ UNCHANGED <<live, due, congested, degraded>> /\ open' = TRUE
        /\ UNCHANGED <<up, drops>> /\ UNCHANGED <<started, cSeq, cEp, cVer>>
        /\ UNCHANGED <<fol, from, held, snap, reread, fromEp, known>>
    BY <1>6 DEF Subscribe, node, cursor
  <2>3. lost' \in BOOLEAN
    BY <1>6, Zenon DEF Subscribe
  <2>4. NodeTypes' /\ CursorTypes'
    BY <1>1, <1>3, <2>2 DEF NodeTypes, CursorTypes
  <2>5. StreamTypes'
    BY <1>1, <1>3, <2>1, <2>2 DEF StreamTypes, NodeTypes, Wanted
  <2>6. WireTypes' /\ FollowerTypes'
    BY <1>1, <1>3, <2>1, <2>2, <2>3 DEF WireTypes, FollowerTypes
  <2> QED BY <2>4, <2>5, <2>6, TypesAreNext
<1>7. CASE Receive
  <2>1. Reads
    BY <1>7, ReceiveIs
  <2>2. /\ UNCHANGED <<hist, head, epoch, ver, ring, floor>>
        /\ UNCHANGED <<open, topic, sSeq, sVer, live, due, congested, degraded>>
        /\ UNCHANGED <<up, drops>> /\ UNCHANGED started
        /\ UNCHANGED <<fol, from, snap, fromEp>>
    BY <1>7 DEF Receive, node, stream
  <2>3. reread' \in BOOLEAN /\ lost' \in BOOLEAN
    BY <1>7, Zenon DEF Receive
  <2>4. held' \subseteq Events /\ known' \subseteq Events
    <3>1. PICK us : us = Seen
      OBVIOUS
    <3>2. Head(net) = NextFrame
      BY <1>1, <2>1 DEF WireTypes, NextFrame, Reads
    <3>3. Deliver(Seen)
      BY <1>7, <3>2 DEF Receive, Seen
    <3>4. us \subseteq Events /\ Deliver(us)
      BY <2>1, <3>1, <3>3 DEF Reads
    <3> QED BY <1>1, <3>4 DEF Deliver, FollowerTypes
  <2>5. NodeTypes' /\ StreamTypes'
    BY <1>1, <1>3, <2>2 DEF NodeTypes, StreamTypes
  <2>6. CursorTypes'
    BY <1>1, <2>1, <2>2 DEF CursorTypes, Reads, Frames
  <2>7. WireTypes' /\ FollowerTypes'
    BY <1>1, <1>3, <2>1, <2>2, <2>3, <2>4 DEF WireTypes, FollowerTypes, Reads
  <2> QED BY <2>5, <2>6, <2>7, TypesAreNext
<1>8. CASE Reconnect
  <2>2. /\ UNCHANGED <<hist, head, epoch, ver, ring, floor>>
        /\ UNCHANGED <<open, topic, sSeq, sVer, live, due, congested, degraded>>
        /\ UNCHANGED <<net, drops>> /\ UNCHANGED <<started, cSeq, cEp, cVer>>
        /\ UNCHANGED <<fol, from, held, snap, reread, fromEp, known, lost>> /\ up' = TRUE
    BY <1>8 DEF Reconnect, node, stream, cursor, follower
  <2>3. NodeTypes' /\ StreamTypes'
    BY <1>1, <1>3, <2>2 DEF NodeTypes, StreamTypes
  <2>4. CursorTypes'
    BY <1>1, <2>2 DEF CursorTypes
  <2>5. WireTypes' /\ FollowerTypes'
    BY <1>1, <1>3, <2>2 DEF WireTypes, FollowerTypes
  <2> QED BY <2>3, <2>4, <2>5, TypesAreNext
<1> QED BY <1>4, <1>5, <1>6, <1>7, <1>8

\* What a chat should show are events.
LEMMA ShownAre == Shown \in SUBSET Events
  BY DEF Shown, Streaming

\* The steps of the follower keep the types.
LEMMA TypesFollower ==
  ASSUME TypeOK, Follow \/ ReadBarrier \/ BarrierArrives \/ ReadAgain \/ Unfollow
  PROVE  TypeOK'
<1>1. NodeTypes /\ StreamTypes /\ WireTypes /\ CursorTypes /\ FollowerTypes
  BY TypesAre
<1>2. /\ UNCHANGED <<hist, head, epoch, ver, ring, floor>>
      /\ UNCHANGED <<open, topic, sSeq, sVer, live, due, congested, degraded>>
      /\ UNCHANGED <<up, net, drops>> /\ UNCHANGED <<started, cSeq, cEp, cVer>>
  BY DEF Follow, ReadBarrier, BarrierArrives, ReadAgain, Unfollow, node, stream, cursor
<1>3. Events' = Events /\ Frames' = Frames /\ Snapshots' = Snapshots
  BY <1>2, SameHistory
<1>4. NodeTypes' /\ StreamTypes' /\ WireTypes' /\ CursorTypes'
  <2>1. NodeTypes' /\ StreamTypes'
    BY <1>1, <1>2, <1>3 DEF NodeTypes, StreamTypes
  <2>2. WireTypes' /\ CursorTypes'
    BY <1>1, <1>2, <1>3 DEF WireTypes, CursorTypes
  <2> QED BY <2>1, <2>2
<1>5. FollowerTypes'
  <2>1. CASE Follow
    BY <1>1, <1>3, <2>1 DEF Follow, FollowerTypes
  <2>2. CASE ReadBarrier
    <3>1. snap' \in Snapshots
      BY <1>1, <2>2, ShownAre DEF ReadBarrier, Snapshots, NodeTypes
    <3> QED BY <1>1, <1>3, <2>2, <3>1 DEF ReadBarrier, FollowerTypes
  <2>3. CASE BarrierArrives
    <3>1. NoSnap \in Snapshots
      BY NoSnapIs DEF Snapshots
    <3>2. snap.ver \in Nat /\ snap.ep \in Nat /\ snap.shows \subseteq Events
      BY <1>1 DEF FollowerTypes, Snapshots
    <3>3. known' \subseteq Events
      BY <1>1, <2>3, <3>2 DEF BarrierArrives, FollowerTypes
    <3> QED BY <1>1, <1>3, <2>3, <3>1, <3>2, <3>3 DEF BarrierArrives, FollowerTypes
  <2>4. CASE ReadAgain
    BY <1>1, <1>3, <2>4, ShownAre DEF ReadAgain, FollowerTypes
  <2>5. CASE Unfollow
    <3>1. NoSnap \in Snapshots
      BY NoSnapIs DEF Snapshots
    <3> QED BY <1>3, <2>5, <3>1 DEF Unfollow, Become, NoFollower, FollowerTypes
  <2> QED BY <2>1, <2>2, <2>3, <2>4, <2>5
<1> QED BY <1>4, <1>5, TypesAreNext

\* A dropped connection and a restart of the node keep the types.
LEMMA TypesLink ==
  ASSUME TypeOK, Drop \/ Restart
  PROVE  TypeOK'
<1>1. NodeTypes /\ StreamTypes /\ WireTypes /\ CursorTypes /\ FollowerTypes
  BY TypesAre
<1>2. hist' = hist /\ head' = head /\ LinkEnds
  BY DEF Drop, Restart, node
<1>3. Events' = Events /\ Frames' = Frames /\ Snapshots' = Snapshots
  BY <1>2, SameHistory
<1>4. NodeTypes'
  <2>1. CASE Drop
    BY <1>1, <1>3, <2>1 DEF Drop, node, NodeTypes
  <2>2. CASE Restart
    <3>1. {u \in Events : Durable(u)} \in SUBSET Events
      OBVIOUS
    <3>2. ver' \in Nat
      BY <2>2, <3>1, HighestVersion DEF Restart
    <3> QED BY <1>1, <1>2, <1>3, <2>2, <3>2 DEF Restart, NodeTypes
  <2> QED BY <2>1, <2>2
<1>5. StreamTypes'
  <2>1. <<>> \in Seq(Events')
    OBVIOUS
  <2>2. /\ open' = FALSE /\ topic' = FALSE /\ sSeq' = 0 /\ sVer' = 0 /\ live' = <<>>
        /\ due' = FALSE /\ congested' = FALSE /\ degraded' = FALSE
    BY <1>2 DEF LinkEnds
  <2> QED BY <2>1, <2>2 DEF StreamTypes
<1>6. CursorTypes'
  BY <1>1, <1>2 DEF LinkEnds, cursor, CursorTypes
<1>7. WireTypes'
  <2>1. PICK k \in Nat : Cut(k)
    BY <1>2, LinkEndsIs
  <2>2. up' = FALSE /\ drops' \in Nat
    BY <1>1, <1>2 DEF Drop, Restart, LinkEnds, WireTypes
  <2> QED BY <1>3, <2>1, <2>2 DEF Cut, WireTypes
<1>8. FollowerTypes'
  <2>1. NoSnap \in Snapshots
    BY NoSnapIs DEF Snapshots
  <2>2. CASE Become(NoFollower)
    BY <1>3, <2>1, <2>2 DEF Become, NoFollower, FollowerTypes
  <2>3. CASE /\ reread' = FALSE /\ lost' = (lost \/ reread)
             /\ UNCHANGED <<fol, from, held, snap, fromEp, known>>
    BY <1>1, <1>3, <2>3 DEF FollowerTypes
  <2> QED BY <1>2, <2>2, <2>3 DEF LinkEnds
<1> QED BY <1>4, <1>5, <1>6, <1>7, <1>8, TypesAreNext

\* The initial state has the types, and a step that changes nothing keeps them.
LEMMA TypesInit == Init => TypeOK
<1> SUFFICES ASSUME Init PROVE TypeOK
  OBVIOUS
<1>1. hist = <<>> /\ <<>> \in Seq(Recording) /\ <<>> \in Seq(Events) /\ <<>> \in Seq(Frames)
  BY DEF Init
<1>2. NodeTypes
  BY <1>1 DEF Init, NodeTypes
<1>3. StreamTypes
  BY <1>1 DEF Init, StreamTypes
<1>4. WireTypes
  BY <1>1 DEF Init, WireTypes
<1>5. CursorTypes
  BY DEF Init, CursorTypes
<1>6. FollowerTypes
  BY NoSnapIs DEF Init, FollowerTypes, Snapshots
<1> QED BY <1>2, <1>3, <1>4, <1>5, <1>6, TypesAre

\* A step of nobody keeps the types.
LEMMA TypesStutter == TypeOK /\ UNCHANGED vars => TypeOK'
<1> SUFFICES ASSUME TypeOK, UNCHANGED vars PROVE TypeOK'
  OBVIOUS
<1>1. /\ UNCHANGED <<hist, head, epoch, ver, ring, floor>>
      /\ UNCHANGED <<open, topic, sSeq, sVer, live, due, congested, degraded>>
      /\ UNCHANGED <<up, net, drops>> /\ UNCHANGED <<started, cSeq, cEp, cVer>>
      /\ UNCHANGED <<fol, from, held, snap, reread, fromEp, known, lost>>
  BY DEF vars, node, stream, cursor, follower
<1>2. Events' = Events /\ Frames' = Frames /\ Snapshots' = Snapshots
  BY <1>1, SameHistory
<1>3. NodeTypes /\ StreamTypes /\ WireTypes /\ CursorTypes /\ FollowerTypes
  BY TypesAre
<1>4. NodeTypes' /\ StreamTypes'
  BY <1>1, <1>2, <1>3 DEF NodeTypes, StreamTypes
<1>5. WireTypes' /\ CursorTypes' /\ FollowerTypes'
  BY <1>1, <1>2, <1>3 DEF WireTypes, CursorTypes, FollowerTypes
<1> QED BY <1>4, <1>5, TypesAreNext

\* Every step keeps the types, given where the cursor and the history stand.
LEMMA TypesNext == TypeOK /\ HistInv /\ cSeq <= head /\ [Next]_vars => TypeOK'
<1> SUFFICES ASSUME TypeOK, HistInv, cSeq <= head, [Next]_vars PROVE TypeOK'
  OBVIOUS
<1>1. CASE \E kind \in Kinds : MakeEvent(kind)
  BY <1>1, TypesMakeEvent
<1>2. CASE Flush \/ Congest \/ Drain \/ UpdateTopics
  BY <1>2, TypesStream
<1>3. CASE Evict \/ Start \/ Subscribe \/ Receive \/ Reconnect
  BY <1>3, TypesReader
<1>4. CASE Follow \/ ReadBarrier \/ BarrierArrives \/ ReadAgain \/ Unfollow
  BY <1>4, TypesFollower
<1>5. CASE Drop \/ Restart
  BY <1>5, TypesLink
<1>6. CASE UNCHANGED vars
  BY <1>6, TypesStutter
<1> QED BY <1>1, <1>2, <1>3, <1>4, <1>5, <1>6 DEF Next

--------------------------------------------------------------------------------
(* Nothing is stranded.                                                     *)

\* What the stream has heard and not sent has a scheduled flush or a drain that
\* will send it, whatever the two do of each other's work (openEventStream's
\* `flush` and `onDrain`).
THEOREM NothingStranded == Spec => []NothingIsStranded
<1>1. Init => NothingIsStranded
  BY DEF Init, NothingIsStranded
<1>2. NothingIsStranded /\ [Next]_vars => NothingIsStranded'
  <2> SUFFICES ASSUME NothingIsStranded, [Next]_vars PROVE NothingIsStranded'
    OBVIOUS
  <2>1. SendLive => live' = <<>> /\ degraded' = FALSE
    BY DEF SendLive
  <2>2. CASE \E kind \in Kinds : MakeEvent(kind)
    <3>1. \E u : Hears(u)
      BY <2>2 DEF MakeEvent
    <3> QED BY <3>1 DEF Hears, stream, NothingIsStranded
  <2>3. CASE Flush
    <3>1. UNCHANGED congested /\ (congested \/ SendLive)
      BY <2>3 DEF Flush
    <3> QED BY <2>1, <3>1 DEF NothingIsStranded
  <2>4. CASE Drain
    <3>1. /\ Waiting => SendLive \/ (due /\ UNCHANGED <<live, due, degraded>>)
          /\ ~Waiting => UNCHANGED <<live, due, degraded>>
      BY <2>4 DEF Drain
    <3> QED BY <2>1, <3>1 DEF Waiting, NothingIsStranded
  <2>5. CASE Congest
    BY <2>5 DEF Congest, NothingIsStranded
  <2>6. CASE Drop \/ Restart
    BY <2>6 DEF Drop, Restart, LinkEnds, NothingIsStranded
  <2>7. CASE Subscribe
    BY <2>7 DEF Subscribe, NothingIsStranded
  <2>8. CASE UpdateTopics
    BY <2>8 DEF UpdateTopics, NothingIsStranded
  <2>9. CASE UNCHANGED stream
    BY <2>9 DEF stream, NothingIsStranded
  <2>10. CASE \/ Evict \/ Start \/ Receive \/ Follow \/ ReadBarrier \/ BarrierArrives
              \/ ReadAgain \/ Unfollow \/ Reconnect \/ UNCHANGED vars
    <3>1. UNCHANGED stream
      BY <2>10 DEF Evict, Start, Receive, Follow, ReadBarrier, BarrierArrives, ReadAgain, Unfollow, Reconnect, vars
    <3> QED BY <2>9, <3>1
  <2> QED BY <2>2, <2>3, <2>4, <2>5, <2>6, <2>7, <2>8, <2>9, <2>10 DEF Next
<1> QED BY <1>1, <1>2, PTL DEF Spec
--------------------------------------------------------------------------------
(* The history, the ring and the node's counters.                           *)

\* What an event says stays what it said.
LEMMA SameEvent ==
  ASSUME NEW u, hist'[u] = hist[u]
  PROVE  Durable(u)' = Durable(u) /\ Session(u)' = Session(u)
BY DEF Durable, Session

\* Streaming events are of the session, and of the running process.
LEMMA StreamingIs ==
  ASSUME NEW u \in Streaming
  PROVE  /\ u \in Events /\ ~Durable(u) /\ Session(u) /\ hist[u].ep = epoch
         /\ \A w \in Events : w > u => hist[w].kind # "commit"
BY DEF Streaming, Durable, Session

\* The streaming events after an event is made: a commit leaves none.
LEMMA StreamingMakes ==
  ASSUME TypeOK, NEW kind \in Kinds, MakeEvent(kind)
  PROVE  \A u \in Streaming' : /\ kind # "commit"
                               /\ u \in Streaming \/ (u = NewOne /\ kind = "stream")
<1> SUFFICES ASSUME NEW u \in Streaming'
             PROVE  kind # "commit" /\ (u \in Streaming \/ (u = NewOne /\ kind = "stream"))
  OBVIOUS
<1>1. Makes(NewOne, kind) /\ epoch' = epoch
  BY MakeEventIs DEF MakeEvent
<1>2. /\ u \in Events' /\ hist'[u].kind = "stream" /\ hist'[u].ep = epoch
      /\ \A w \in Events' : w > u => hist'[w].kind # "commit"
  BY <1>1 DEF Streaming, Durable
<1>3. CASE u = NewOne
  BY <1>1, <1>2, <1>3 DEF Makes
<1>4. CASE u \in Events
  <2>1. u < NewOne /\ NewOne \in Events' /\ hist'[NewOne].kind = kind /\ u \in Nat /\ NewOne \in Nat
    BY <1>1, <1>4 DEF Makes
  <2>2. kind # "commit"
    BY <1>2, <2>1
  <2>3. hist[u].kind = "stream" /\ hist[u].ep = epoch
    BY <1>1, <1>2, <1>4 DEF Makes
  <2>4. \A w \in Events : w > u => hist[w].kind # "commit"
    BY <1>1, <1>2 DEF Makes
  <2> QED BY <1>4, <2>2, <2>3, <2>4 DEF Streaming, Durable
<1> QED BY <1>1, <1>2, <1>3, <1>4 DEF Makes

\* A step that leaves the node alone leaves its history alone.
LEMMA SameNode ==
  ASSUME UNCHANGED <<hist, head, epoch, ver, ring, floor>>, HistInv
  PROVE  HistInv'
BY DEF HistInv, Counted, Earlier, Streaming, Durable, Session, Events

\* An append gets the next version, and a durable one the next sequence.
LEMMA HistMakeEvent ==
  ASSUME TypeOK, HistInv, NEW kind \in Kinds, MakeEvent(kind)
  PROVE  HistInv'
<1>0. PICK n : n = NewOne
  OBVIOUS
<1>1. Makes(n, kind) /\ epoch' = epoch
  BY <1>0, MakeEventIs DEF MakeEvent
<1>2. epoch \in Nat /\ epoch >= 1 /\ head \in Nat /\ ver \in Nat /\ floor \in Nat
  BY TypesAre DEF NodeTypes, HistInv
<1>3. \A u \in Events : /\ u \in Nat /\ u < n /\ hist'[u] = hist[u]
                        /\ Durable(u)' = Durable(u) /\ Session(u)' = Session(u)
  BY <1>1, EventsFinite, SameEvent DEF Makes
<1>4. /\ Durable(n)' <=> kind # "stream"
      /\ Session(n)' <=> kind # "foreign"
  BY <1>1 DEF Makes, Durable, Session
<1>5. head <= head' /\ ver <= ver'
  BY <1>1, <1>2 DEF Makes
<1>6. ASSUME NEW u \in Events PROVE Counted(u)'
  <2>1. Counted(u)
    BY DEF HistInv
  <2>2. hist[u].seq \in Nat /\ hist[u].ver \in Nat /\ hist[u].ep \in Nat /\ head' \in Nat /\ ver' \in Nat
    BY <1>1, EventsFinite DEF Makes
  <2> QED BY <1>1, <1>2, <1>3, <1>5, <2>1, <2>2 DEF Counted
<1>7. Counted(n)'
  BY <1>1, <1>2, <1>4 DEF Counted, Makes
<1>8. ASSUME NEW u \in Events PROVE Earlier(u, n)'
  <2>1. Counted(u)
    BY DEF HistInv
  <2>2. hist[u].seq \in Nat /\ hist[u].ver \in Nat /\ hist[u].ep \in Nat /\ hist'[u] = hist[u]
    BY <1>3, EventsFinite
  <2>3. /\ hist[u].seq <= hist'[n].seq /\ (Durable(n)' => hist[u].seq < hist'[n].seq)
        /\ hist[u].ep <= hist'[n].ep
    BY <1>1, <1>2, <1>4, <2>1, <2>2 DEF Makes, Counted
  <2>4. Session(u) /\ Session(n)' /\ (Durable(u) \/ hist[u].ep = hist'[n].ep)
          => hist[u].ver < hist'[n].ver
    BY <1>1, <1>2, <1>4, <2>1, <2>2 DEF Makes, Counted
  <2> QED BY <1>3, <2>2, <2>3, <2>4 DEF Earlier
<1>9. ASSUME NEW u \in Events, NEW w \in Events, u < w PROVE Earlier(u, w)'
  <2>1. Earlier(u, w)
    BY <1>9 DEF HistInv
  <2> QED BY <1>3, <2>1 DEF Earlier
<1>10. \A u, w \in Events' : u < w => Earlier(u, w)'
  <2> SUFFICES ASSUME NEW u \in Events', NEW w \in Events', u < w PROVE Earlier(u, w)'
    OBVIOUS
  <2>1. n \in Nat /\ (u \in Events \/ u = n) /\ (w \in Events \/ w = n)
    BY <1>1 DEF Makes
  <2>2. u # n
    BY <1>3, <2>1
  <2> QED BY <1>8, <1>9, <2>1, <2>2
<1>11. \A u \in ring' : (~Durable(u) /\ hist[u].ep = epoch)'
  <2>1. \/ ring' = ring \cup {n} /\ kind = "stream"
        \/ ring' = {}
        \/ ring' = ring
    BY <1>0 DEF MakeEvent, NewOne
  <2>2. \A u \in ring : u \in Events /\ ~Durable(u) /\ hist[u].ep = epoch
    BY TypesAre DEF NodeTypes, HistInv
  <2>3. \A u \in ring : (~Durable(u) /\ hist[u].ep = epoch)'
    BY <1>1, <1>3, <2>2
  <2>4. kind = "stream" => (~Durable(n) /\ hist[n].ep = epoch)'
    BY <1>1, <1>4 DEF Makes
  <2> QED BY <2>1, <2>3, <2>4
<1>12. \A u \in Streaming' : (u \in ring \/ hist[u].ver <= floor)'
  <2> SUFFICES ASSUME NEW u \in Streaming' PROVE (u \in ring \/ hist[u].ver <= floor)'
    OBVIOUS
  <2>1. kind # "commit" /\ (u \in Streaming \/ (u = n /\ kind = "stream"))
    BY <1>0, StreamingMakes
  <2>2. /\ floor' = floor
        /\ kind = "stream" => ring' = ring \cup {n}
        /\ kind # "stream" => ring' = ring
    BY <1>0, <2>1 DEF MakeEvent, NewOne
  <2>3. CASE u \in Streaming
    <3>1. u \in Events /\ (u \in ring \/ hist[u].ver <= floor)
      BY <2>3, StreamingIs DEF HistInv
    <3> QED BY <1>3, <2>2, <3>1
  <2> QED BY <2>1, <2>2, <2>3
<1>13. \A u \in Events' : Counted(u)'
  BY <1>1, <1>6, <1>7 DEF Makes
<1>14. (epoch >= 1)'
  BY <1>1, <1>2
<1> QED BY <1>10, <1>11, <1>12, <1>13, <1>14 DEF HistInv

\* An eviction leaves the order of the history alone.
LEMMA HistEvict ==
  ASSUME TypeOK, HistInv, Evict
  PROVE  HistInv'
<1>1. UNCHANGED <<hist, head, epoch, ver>>
  BY DEF Evict
<1>2. Events' = Events /\ Streaming' = Streaming
  BY <1>1 DEF Events, Streaming, Durable
<1>3. \A u \in Events : Counted(u)'
  BY <1>1 DEF HistInv, Counted, Durable, Session
<1>4. \A u, w \in Events : u < w => Earlier(u, w)'
  BY <1>1 DEF HistInv, Earlier, Durable, Session
<1>5. /\ Evicted \in ring /\ ring' = ring \ {Evicted} /\ ring \subseteq Events
      /\ floor' \in Nat /\ floor \in Nat /\ floor <= floor'
      /\ Session(Evicted) => hist[Evicted].ver <= floor'
  BY EvictIs
<1>6. \A u \in ring' : (~Durable(u) /\ hist[u].ep = epoch)'
  BY <1>1, <1>5 DEF HistInv, Durable
<1>7. ASSUME NEW u \in Streaming PROVE (u \in ring \/ hist[u].ver <= floor)'
  <2>1. u \in Events /\ Session(u) /\ (u \in ring \/ hist[u].ver <= floor) /\ hist[u].ver \in Nat
    BY StreamingIs, EventsFinite DEF HistInv
  <2> QED BY <1>1, <1>5, <2>1
<1> QED BY <1>1, <1>2, <1>3, <1>4, <1>6, <1>7 DEF HistInv

\* After a restart versions count on from the highest durable one.
LEMMA HistRestart ==
  ASSUME TypeOK, HistInv, Restart
  PROVE  HistInv'
<1>1. UNCHANGED <<hist, head>> /\ epoch' = epoch + 1 /\ ring' = {} /\ floor' = 0
  BY DEF Restart
<1>2. epoch \in Nat /\ epoch >= 1
  BY TypesAre DEF NodeTypes, HistInv
<1>3. PICK D : D = {u \in Events : Durable(u)}
  OBVIOUS
<1>4. /\ D \in SUBSET Events /\ ver' = Highest(0, Versions(D))
      /\ \A u \in Events : Durable(u) => u \in D
  BY <1>3 DEF Restart
<1>5. ver' \in Nat /\ \A u \in D : Session(u) => hist[u].ver <= ver'
  BY <1>4, HighestVersion
<1>6. Events' = Events /\ \A u \in Events : Durable(u)' = Durable(u) /\ Session(u)' = Session(u)
  BY <1>1 DEF Events, Durable, Session
<1>7. \A u \in Events : hist[u].ep \in Nat /\ hist[u].ep <= epoch
  BY EventsFinite DEF HistInv, Counted
<1>8. ASSUME NEW u \in Events PROVE Counted(u)'
  <2>1. Counted(u) /\ hist[u].ep # epoch'
    BY <1>1, <1>2, <1>7 DEF HistInv
  <2>2. Durable(u) /\ Session(u) => hist[u].ver <= ver'
    BY <1>4, <1>5
  <2> QED BY <1>1, <1>2, <1>6, <1>7, <2>1, <2>2 DEF Counted
<1>9. \A u, w \in Events : u < w => Earlier(u, w)'
  BY <1>1, <1>6 DEF HistInv, Earlier
<1>10. Streaming' = {}
  BY <1>1, <1>2, <1>6, <1>7 DEF Streaming
<1>11. (epoch >= 1)'
  BY <1>1, <1>2
<1> QED BY <1>1, <1>6, <1>8, <1>9, <1>10, <1>11 DEF HistInv

\* The order of the history and the node's counters survive every step.
LEMMA HistNext == TypeOK /\ HistInv /\ [Next]_vars => HistInv'
<1> SUFFICES ASSUME TypeOK, HistInv, [Next]_vars PROVE HistInv'
  OBVIOUS
<1>1. CASE \E kind \in Kinds : MakeEvent(kind)
  BY <1>1, HistMakeEvent
<1>2. CASE Evict
  BY <1>2, HistEvict
<1>3. CASE Restart
  BY <1>3, HistRestart
<1>4. CASE \/ Flush \/ Congest \/ Drain \/ Start \/ Subscribe \/ Receive \/ Follow \/ UpdateTopics
           \/ ReadBarrier \/ BarrierArrives \/ ReadAgain \/ Unfollow \/ Drop \/ Reconnect \/ UNCHANGED vars
  <2>1. UNCHANGED node
    BY <1>4 DEF Flush, Congest, Drain, Start, Subscribe, Receive, Follow, UpdateTopics, ReadBarrier,
                BarrierArrives, ReadAgain, Unfollow, Drop, Reconnect, vars
  <2> QED BY <2>1, SameNode DEF node
<1> QED BY <1>1, <1>2, <1>3, <1>4 DEF Next
--------------------------------------------------------------------------------
(* The wire: what the reader and the stream still have to come.             *)

\* u is news to the cursor.
Unread(u) == NewDurable(u, cSeq) /\ (Session(u) /\ hist[u].ep = cEp => hist[u].ver > cVer)

\* The cursor is not ahead of the node, and durable events after its sequence
\* are above its version.
CursorInv ==
  /\ cSeq <= head /\ cEp <= epoch /\ (cEp = epoch => cVer <= ver)
  /\ \A d \in Events : Durable(d) /\ Session(d) /\ hist[d].seq > cSeq /\ hist[d].ep = cEp
                         => hist[d].ver > cVer
  /\ ~started => ~open /\ net = <<>>

\* A frame holds news in order, all of it older than what follows its sequence.
FrameOK(f) ==
  /\ Rising(f.events) /\ f.ep <= epoch
  /\ cSeq <= f.seq /\ f.seq <= head /\ (open => f.seq <= sSeq)
  /\ \A u \in ToSet(f.events) :
       (Durable(u) \/ hist[u].ep = f.ep) /\ Unread(u) /\ Reached(u, f.seq)

\* ... and follows the frames before it.
WireInv ==
  /\ \A i \in DOMAIN net : FrameOK(net[i])
  /\ \A i, j \in DOMAIN net : i < j => net[i].seq <= net[j].seq
  /\ \A i, j \in DOMAIN net : i < j => \A w \in ToSet(net[j].events) :
       NewDurable(w, net[i].seq) /\ \A u \in ToSet(net[i].events) : u < w

\* What the stream has heard and not sent is news to the reader and to the
\* stream, and follows all that is on the wire.
Heard(u) ==
  /\ hist[u].ep = epoch /\ Unread(u) /\ NewDurable(u, sSeq) /\ (Session(u) => hist[u].ver > sVer)
  /\ \A i \in DOMAIN net : \A w \in ToSet(net[i].events) : w < u

LiveInv ==
  /\ ~open => live = <<>> /\ ~due /\ ~congested /\ ~degraded
  /\ Rising(live)
  /\ \A u \in ToSet(live) : Heard(u)
  /\ open => /\ cSeq <= sSeq /\ sSeq <= head /\ sVer <= ver
             /\ \A d \in Events : Durable(d) /\ hist[d].seq > sSeq => d \in ToSet(live)

Ordered == CursorInv /\ WireInv /\ LiveInv

\* Everything the order is about stays.
SameFeed ==
  /\ UNCHANGED <<hist, head, epoch, ver, cSeq, cEp, cVer, started, net, open, live, sSeq, sVer, degraded>>
  /\ ~open => UNCHANGED <<due, congested>>

\* The empty sequence has no elements.
LEMMA EmptyIs == Rising(<<>>) /\ ToSet(<<>>) = {}
  BY DEF Rising, ToSet

\* Steps about something else.
LEMMA OrderedSame ==
  ASSUME Ordered, SameFeed
  PROVE  Ordered'
<1>1. UNCHANGED <<hist, head, epoch, ver, cSeq, cEp, cVer, started, net, open, live, sSeq, sVer, degraded>>
  BY DEF SameFeed
<1>2. Events' = Events
  BY <1>1, SameHistory
<1>3. CursorInv'
  BY <1>1, <1>2 DEF Ordered, CursorInv, Durable, Session
<1>4. \A u : Unread(u) => Unread(u)'
  BY <1>1 DEF Unread, NewDurable, Durable, Session
<1>5. \A u, q : Reached(u, q) => Reached(u, q)'
  BY <1>1, <1>2 DEF Reached, Durable
<1>6. \A i \in DOMAIN net' : FrameOK(net[i])'
  BY <1>1, <1>4, <1>5 DEF Ordered, WireInv, FrameOK, Durable
<1>7. WireInv'
  BY <1>1, <1>6 DEF Ordered, WireInv, NewDurable, Durable
<1>8. \A u \in ToSet(live') : Heard(u)'
  BY <1>1, <1>4 DEF Ordered, LiveInv, Heard, NewDurable, Durable, Session
<1>9. LiveInv'
  BY <1>1, <1>2, <1>8 DEF Ordered, LiveInv, SameFeed, Durable
<1> QED BY <1>3, <1>7, <1>9 DEF Ordered

\* The types of what the order is about.
LEMMA OrderedTypes ==
  ASSUME TypeOK
  PROVE  /\ head \in Nat /\ epoch \in Nat /\ ver \in Nat /\ cSeq \in Nat /\ cEp \in Nat /\ cVer \in Nat
         /\ sSeq \in Nat /\ sVer \in Nat /\ floor \in Nat
         /\ \A i \in DOMAIN net : /\ net[i] \in Frames /\ net[i].seq \in Nat /\ net[i].ep \in Nat
                                  /\ ToSet(net[i].events) \subseteq Events
                                  /\ i \in Nat /\ i >= 1
         /\ ToSet(live) \subseteq Events /\ Len(net) \in Nat /\ DOMAIN net = 1..Len(net)
<1>1. NodeTypes /\ StreamTypes /\ WireTypes /\ CursorTypes
  BY TypesAre
<1>2. DOMAIN net = 1..Len(net) /\ Len(net) \in Nat /\ \A i \in DOMAIN net : net[i] \in Frames
  BY <1>1 DEF WireTypes
<1>3. \A i \in DOMAIN net : net[i].seq \in Nat /\ net[i].ep \in Nat /\ net[i].events \in Seq(Events)
  BY <1>2 DEF Frames
<1>4. \A i \in DOMAIN net : ToSet(net[i].events) \subseteq Events
  BY <1>3, Elements
<1>5. ToSet(live) \subseteq Events
  BY <1>1, Elements DEF StreamTypes
<1>6. \A i \in DOMAIN net : i \in Nat /\ i >= 1
  BY <1>2
<1> QED BY <1>1, <1>2, <1>3, <1>4, <1>5, <1>6 DEF NodeTypes, StreamTypes, CursorTypes

\* A new event is news to everybody.
LEMMA OrderedMakeEvent ==
  ASSUME TypeOK, HistInv, Ordered, NEW kind \in Kinds, MakeEvent(kind)
  PROVE  Ordered'
<1>0. PICK n : n = NewOne
  OBVIOUS
<1>1. Makes(n, kind) /\ Hearing(n) /\ UNCHANGED <<epoch, cSeq, cEp, cVer, started, net>>
  BY <1>0, MakeEventIs, HearsIs DEF MakeEvent, cursor
<1>2. CursorInv /\ WireInv /\ LiveInv
  BY DEF Ordered
<1>3. \A u \in Events : /\ hist'[u] = hist[u] /\ u < n
                        /\ Durable(u)' = Durable(u) /\ Session(u)' = Session(u)
  BY <1>1, SameEvent DEF Makes
<1>4. /\ Durable(n)' <=> kind # "stream"
      /\ Session(n)' <=> kind # "foreign"
  BY <1>1 DEF Makes, Durable, Session
<1>5. /\ head <= head' /\ ver <= ver' /\ head' \in Nat /\ ver' \in Nat
      /\ Durable(n)' => hist'[n].seq > head
      /\ Session(n)' => hist'[n].ver > ver
      /\ hist'[n].seq \in Nat /\ hist'[n].ver \in Nat /\ hist'[n].ep = epoch
      /\ Events' = Events \cup {n}
  BY <1>1, <1>4, OrderedTypes DEF Makes
<1>6. UNCHANGED <<open, sSeq, sVer>>
  BY <1>1 DEF Hearing
<1>7. \A u \in Events : Unread(u) => Unread(u)'
  BY <1>1, <1>3 DEF Unread, NewDurable
<1>8. Unread(n)'
  <2>1. Durable(n)' => hist'[n].seq > cSeq
    BY <1>2, <1>5, OrderedTypes DEF CursorInv
  <2>2. Session(n)' /\ epoch = cEp => hist'[n].ver > cVer
    BY <1>2, <1>5, OrderedTypes DEF CursorInv
  <2> QED BY <1>1, <1>5, <2>1, <2>2 DEF Unread, NewDurable
<1>9. \A u \in Events : \A q : Reached(u, q) => Reached(u, q)'
  BY <1>3, <1>5 DEF Reached
<1>10. CursorInv'
  <2>1. cSeq' <= head' /\ cEp' <= epoch' /\ (cEp' = epoch' => cVer' <= ver')
    BY <1>1, <1>2, <1>5, OrderedTypes DEF CursorInv
  <2>2. ASSUME NEW d \in Events', (Durable(d) /\ Session(d))', hist'[d].seq > cSeq', hist'[d].ep = cEp'
        PROVE  hist'[d].ver > cVer'
    <3>1. CASE d = n
      BY <1>1, <1>8, <2>2, <3>1 DEF Unread
    <3>2. CASE d \in Events
      BY <1>1, <1>2, <1>3, <2>2, <3>2 DEF CursorInv
    <3> QED BY <1>5, <3>1, <3>2
  <2>3. ~started' => ~open' /\ net' = <<>>
    BY <1>1, <1>2, <1>6 DEF CursorInv
  <2> QED BY <2>1, <2>2, <2>3 DEF CursorInv
<1>11. \A i \in DOMAIN net : ToSet(net[i].events) \subseteq Events
  BY OrderedTypes
<1>12. ASSUME NEW i \in DOMAIN net' PROVE FrameOK(net[i])'
  <2>1. net'[i] = net[i] /\ i \in DOMAIN net /\ FrameOK(net[i]) /\ net[i].seq \in Nat
    BY <1>1, <1>2, OrderedTypes DEF WireInv
  <2>2. net[i].seq <= head'
    BY <1>5, <2>1, OrderedTypes DEF FrameOK
  <2>3. ASSUME NEW u \in ToSet(net[i].events)
        PROVE  (Durable(u)' \/ hist'[u].ep = net[i].ep) /\ Unread(u)' /\ Reached(u, net[i].seq)'
    <3>1. u \in Events /\ (Durable(u) \/ hist[u].ep = net[i].ep) /\ Unread(u) /\ Reached(u, net[i].seq)
      BY <1>11, <2>1 DEF FrameOK
    <3>2. PICK q : q = net[i].seq
      OBVIOUS
    <3>3. Reached(u, q)'
      BY <1>9, <3>1, <3>2
    <3>4. Reached(u, net[i].seq)'
      BY <1>1, <3>2, <3>3
    <3> QED BY <1>3, <1>7, <3>1, <3>4
  <2> QED BY <1>1, <1>6, <2>1, <2>2, <2>3 DEF FrameOK
<1>13. WireInv'
  <2>1. ASSUME NEW i \in DOMAIN net, NEW j \in DOMAIN net, i < j, NEW w \in ToSet(net[j].events)
        PROVE  NewDurable(w, net[i].seq)' /\ \A u \in ToSet(net[i].events) : u < w
    <3>1. w \in Events /\ NewDurable(w, net[i].seq) /\ \A u \in ToSet(net[i].events) : u < w
      BY <1>2, <1>11, <2>1 DEF WireInv
    <3> QED BY <1>1, <1>3, <3>1 DEF NewDurable
  <2>2. \A i, j \in DOMAIN net : i < j => net[i].seq <= net[j].seq
    BY <1>2 DEF WireInv
  <2> QED BY <1>1, <1>12, <2>1, <2>2 DEF WireInv
<1>14. \A u \in ToSet(live) : u \in Events /\ Heard(u)
  BY <1>2, OrderedTypes DEF LiveInv
<1>15. ASSUME NEW u \in ToSet(live') PROVE Heard(u)'
  <2>1. u \in ToSet(live) \/ u = n
    BY <1>1 DEF Hearing
  <2>2. CASE u \in ToSet(live)
    BY <1>1, <1>3, <1>6, <1>7, <1>14, <2>2 DEF Heard, NewDurable
  <2>3. CASE u = n /\ u \notin ToSet(live)
    <3>1. open
      <4>1. live' # live
        BY <2>3
      <4> QED BY <1>1, <4>1 DEF Hearing
    <3>2. Durable(n)' => hist'[n].seq > sSeq
      BY <1>2, <1>5, <3>1, OrderedTypes DEF LiveInv
    <3>3. Session(n)' => hist'[n].ver > sVer
      BY <1>2, <1>5, <3>1, OrderedTypes DEF LiveInv
    <3>4. \A i \in DOMAIN net : \A w \in ToSet(net[i].events) : w < n
      BY <1>3, <1>11
    <3> QED BY <1>1, <1>5, <1>6, <1>8, <2>3, <3>2, <3>3, <3>4 DEF Heard, NewDurable
  <2> QED BY <2>1, <2>2, <2>3
<1>16. LiveInv'
  <2>1. ~open' => live' = <<>> /\ ~due' /\ ~congested' /\ ~degraded'
    BY <1>1, <1>2, <1>6 DEF LiveInv, Hearing
  <2>2. Rising(live')
    BY <1>1, <1>2 DEF LiveInv, Hearing
  <2>3. ASSUME open', NEW d \in Events', Durable(d)', hist'[d].seq > sSeq' PROVE d \in ToSet(live')
    <3>1. d = n \/ d \in ToSet(live)
      BY <1>2, <1>3, <1>5, <1>6, <2>3 DEF LiveInv
    <3>2. hist'[d].kind # "stream"
      BY <2>3 DEF Durable
    <3> QED BY <1>1, <1>6, <2>3, <3>1, <3>2 DEF Hearing
  <2>4. open' => cSeq' <= sSeq' /\ sSeq' <= head' /\ sVer' <= ver'
    BY <1>1, <1>2, <1>5, <1>6, OrderedTypes DEF LiveInv
  <2> QED BY <1>15, <2>1, <2>2, <2>3, <2>4 DEF LiveInv
<1> QED BY <1>10, <1>13, <1>16 DEF Ordered

\* A flush puts what was heard behind what is on the wire.
LEMMA OrderedSendLive ==
  ASSUME TypeOK, HistInv, Ordered, open, SendLive,
         UNCHANGED <<node, open, cursor>>
  PROVE  Ordered'
<1>1. /\ UNCHANGED <<hist, head, epoch, ver, ring, floor>> /\ UNCHANGED <<started, cSeq, cEp, cVer>>
      /\ open' = open
  BY DEF node, cursor
<1>2. CursorInv /\ WireInv /\ LiveInv /\ Events' = Events
  BY <1>1, SameHistory DEF Ordered
<1>3. PICK sent : sent = LiveSent
  OBVIOUS
<1>4. Sends(sent)
  BY <1>3, SendLiveIs
<1>5. PICK f : f = [events |-> sent, seq |-> sSeq', ep |-> epoch, gone |-> degraded]
  OBVIOUS
<1>6. f.events = sent /\ f.seq = sSeq' /\ f.ep = epoch
  BY <1>5
<1>7. net' = net \/ net' = Append(net, f)
  BY <1>4, <1>5 DEF Sends
<1>20. PICK n : n = Len(net)
  OBVIOUS
<1>8. /\ DOMAIN net = 1..n /\ net \in Seq(Frames) /\ n \in Nat
      /\ \A i \in DOMAIN net' : (i \in 1..n /\ net'[i] = net[i]) \/ (i = n + 1 /\ net'[i] = f)
  <2>1. net \in Seq(Frames)
    BY TypesAre DEF WireTypes
  <2>2. Len(net) \in Nat /\ DOMAIN net = 1..Len(net)
    BY <2>1
  <2>3. CASE net' = net
    BY <1>20, <2>1, <2>2, <2>3
  <2>4. CASE net' = Append(net, f)
    <3>1. DOMAIN net' = 1..(Len(net) + 1)
      BY <2>1, <2>2, <2>4
    <3>2. \A i \in 1..Len(net) : net'[i] = net[i]
      BY <2>1, <2>2, <2>4
    <3>3. net'[Len(net) + 1] = f
      BY <2>1, <2>2, <2>4
    <3>4. \A i \in 1..(Len(net) + 1) : i \in 1..Len(net) \/ i = Len(net) + 1
      BY <2>2
    <3> QED BY <1>20, <2>1, <2>2, <3>1, <3>2, <3>3, <3>4
  <2> QED BY <1>7, <2>3, <2>4
<1>9. /\ \A u \in ToSet(sent) : u \in ToSet(live) /\ u \in Events /\ Heard(u)
      /\ Rising(sent)
      /\ sSeq' \in Nat /\ sSeq <= sSeq' /\ sSeq' <= head /\ sVer' <= ver /\ cSeq <= sSeq'
  <2>1. \A u \in ToSet(live) : u \in Events /\ Heard(u) /\ Counted(u) /\ hist[u].ep = epoch
    BY <1>2, OrderedTypes DEF LiveInv, HistInv, Heard
  <2>2. \A u \in ToSet(sent) : u \in ToSet(live)
    BY <1>4 DEF Sends, LiveTaken
  <2>3. \A u \in ToSet(live) : hist[u].seq <= head /\ (Session(u) => hist[u].ver <= ver)
    BY <2>1 DEF Counted
  <2>4. sSeq' <= head
    BY <1>2, <1>4, <2>3 DEF Sends, LiveInv
  <2>5. sVer' <= ver
    BY <1>2, <1>4, <2>3, OrderedTypes DEF Sends, LiveInv
  <2>6. sSeq <= sSeq' /\ sSeq' \in Nat /\ cSeq <= sSeq
    BY <1>2, <1>4 DEF Sends, LiveInv
  <2>7. cSeq <= sSeq'
    BY <2>6, OrderedTypes
  <2>8. Rising(sent)
    BY <1>2, <1>4 DEF Sends, LiveInv
  <2> QED BY <2>1, <2>2, <2>4, <2>5, <2>6, <2>7, <2>8
<1>10. \A d \in Events : Durable(d) => ~(hist[d].seq > sSeq')
  <2> SUFFICES ASSUME NEW d \in Events, Durable(d), hist[d].seq > sSeq' PROVE FALSE
    OBVIOUS
  <2>1. hist[d].seq > sSeq /\ hist[d].seq \in Nat
    BY <1>9, EventsFinite, OrderedTypes
  <2>2. d \in ToSet(live)
    BY <1>2, <2>1 DEF LiveInv
  <2>3. hist[d].seq <= sSeq'
    BY <1>4, <2>2 DEF Sends
  <2> QED BY <1>9, <2>1, <2>3
<1>11. \A u : Unread(u)' <=> Unread(u)
  BY <1>1 DEF Unread, NewDurable, Durable, Session
<1>12. \A u, q : Reached(u, q) => Reached(u, q)'
  BY <1>1, <1>2 DEF Reached, Durable
<1>13. \A i \in 1..n : FrameOK(net[i]) /\ net[i].seq <= sSeq /\ net[i].seq \in Nat
  BY <1>2, <1>8, OrderedTypes DEF WireInv, FrameOK
<1>14. ASSUME NEW g, g = f, NEW u \in ToSet(g.events)
       PROVE  (Durable(u)' \/ hist'[u].ep = g.ep) /\ Unread(u)' /\ Reached(u, g.seq)'
  <2>1. hist'[u].ep = g.ep /\ Unread(u)'
    BY <1>1, <1>6, <1>9, <1>11, <1>14 DEF Heard
  <2>2. \A d \in Events : Durable(d)' => ~(hist'[d].seq > g.seq)
    BY <1>1, <1>6, <1>10, <1>14 DEF Durable
  <2> QED BY <1>2, <2>1, <2>2 DEF Reached
<1>15. ASSUME NEW i \in DOMAIN net' PROVE FrameOK(net[i])'
  <2>0. PICK g : g = net'[i]
    OBVIOUS
  <2>1. CASE i \in 1..n /\ g = net[i]
    <3>1. FrameOK(g) /\ g.seq <= sSeq /\ g.seq \in Nat
      BY <1>13, <2>1
    <3>2. g.seq <= sSeq'
      BY <1>9, <3>1, OrderedTypes
    <3>3. \A u \in ToSet(g.events) : (Durable(u)' \/ hist'[u].ep = g.ep) /\ Unread(u)' /\ Reached(u, g.seq)'
      BY <1>1, <1>11, <1>12, <3>1 DEF FrameOK, Durable
    <3> QED BY <1>1, <2>0, <3>1, <3>2, <3>3 DEF FrameOK
  <2>2. CASE g = f
    <3>1. Rising(g.events) /\ g.ep = epoch /\ g.seq <= head /\ g.seq = sSeq'
      BY <1>6, <1>9, <2>2
    <3>2. epoch <= epoch /\ g.seq <= sSeq' /\ cSeq <= g.seq
      BY <1>9, <3>1, OrderedTypes
    <3> QED BY <1>1, <1>14, <2>0, <2>2, <3>1, <3>2 DEF FrameOK
  <2> QED BY <1>8, <2>0, <2>1, <2>2
<1>16. ASSUME NEW i \in DOMAIN net', NEW j \in DOMAIN net', i < j, NEW w \in ToSet(net'[j].events)
       PROVE  NewDurable(w, net[i].seq)' /\ \A u \in ToSet(net'[i].events) : u < w
  <2>1. i \in 1..n /\ net'[i] = net[i]
    BY <1>8, <1>16
  <2>2. CASE j \in 1..n /\ net'[j] = net[j]
    <3>1. NewDurable(w, net[i].seq) /\ \A u \in ToSet(net[i].events) : u < w
      BY <1>2, <1>8, <1>16, <2>1, <2>2 DEF WireInv
    <3> QED BY <1>1, <2>1, <3>1 DEF NewDurable, Durable
  <2>3. CASE net'[j] = f
    <3>1. Heard(w) /\ w \in Events
      BY <1>6, <1>9, <1>16, <2>3
    <3>2. \A u \in ToSet(net[i].events) : u < w
      BY <1>8, <2>1, <3>1 DEF Heard
    <3>3. Durable(w) => hist[w].seq > sSeq
      BY <3>1 DEF Heard, NewDurable
    <3>4. Durable(w) => hist[w].seq > net[i].seq
      BY <1>13, <2>1, <3>1, <3>3, EventsFinite, OrderedTypes
    <3> QED BY <1>1, <2>1, <3>2, <3>4 DEF NewDurable, Durable
  <2> QED BY <1>8, <2>2, <2>3
<1>17. WireInv'
  <2>1. \A i, j \in DOMAIN net' : i < j => \A w \in ToSet(net'[j].events) :
           NewDurable(w, net[i].seq)' /\ \A u \in ToSet(net'[i].events) : u < w
    BY <1>16
  <2>2. ASSUME NEW i \in DOMAIN net', NEW j \in DOMAIN net', i < j PROVE net'[i].seq <= net'[j].seq
    <3>1. i \in 1..n /\ net'[i] = net[i]
      BY <1>8, <2>2
    <3>2. CASE j \in 1..n /\ net'[j] = net[j]
      BY <1>2, <1>8, <2>2, <3>1, <3>2 DEF WireInv
    <3>3. CASE net'[j] = f
      BY <1>6, <1>9, <1>13, <3>1, <3>3, OrderedTypes
    <3> QED BY <1>8, <3>2, <3>3
  <2> QED BY <1>15, <2>1, <2>2, Zenon DEF WireInv, NewDurable, Durable
<1>18. CursorInv'
  <2>1. ~started' => ~open' /\ net' = <<>>
    BY <1>1, <1>2 DEF CursorInv
  <2> QED BY <1>1, <1>2, <2>1 DEF CursorInv, Durable, Session
<1>19. LiveInv'
  <2>1. live' = <<>> /\ ToSet(live') = {} /\ Rising(live')
    BY <1>4, EmptyIs DEF Sends
  <2>2. \A d \in Events' : Durable(d)' => ~(hist'[d].seq > sSeq')
    BY <1>1, <1>2, <1>10 DEF Durable
  <2> QED BY <1>1, <1>9, <2>1, <2>2 DEF LiveInv
<1> QED BY <1>17, <1>18, <1>19 DEF Ordered

\* The steps of a flush, and of a drain.
LEMMA OrderedFlush ==
  ASSUME TypeOK, HistInv, Ordered, Flush \/ Drain
  PROVE  Ordered'
<1>1. open /\ UNCHANGED <<node, open, cursor>>
  BY DEF Ordered, LiveInv, Flush, Drain
<1>2. SendLive \/ UNCHANGED <<live, degraded, sVer, sSeq, net>>
  BY DEF Flush, Drain
<1>3. CASE SendLive
  BY <1>1, <1>3, OrderedSendLive
<1>4. CASE UNCHANGED <<live, degraded, sVer, sSeq, net>>
  <2>1. SameFeed
    BY <1>1, <1>4 DEF SameFeed, node, cursor
  <2> QED BY <2>1, OrderedSame
<1> QED BY <1>2, <1>3, <1>4

\* The feed starts after the node's head: nothing durable is news yet.
LEMMA OrderedStart ==
  ASSUME TypeOK, HistInv, Ordered, Start
  PROVE  Ordered'
<1>1. /\ UNCHANGED <<hist, head, epoch, ver, ring, floor>> /\ cSeq' = head /\ started' = TRUE
      /\ UNCHANGED <<open, topic, sSeq, sVer, live, due, congested, degraded>>
      /\ UNCHANGED <<cEp, cVer, net>>
  BY DEF Start, node, stream
<1>2. CursorInv /\ WireInv /\ LiveInv /\ Events' = Events /\ ~open /\ net = <<>>
  BY <1>1, SameHistory DEF Ordered, CursorInv, Start
<1>3. \A d \in Events : hist[d].seq <= head /\ hist[d].seq \in Nat
  BY EventsFinite DEF HistInv, Counted
<1>4. CursorInv'
  BY <1>1, <1>2, <1>3, OrderedTypes DEF CursorInv
<1>5. DOMAIN net' = {}
  BY <1>1, <1>2
<1>6. WireInv'
  BY <1>5 DEF WireInv
<1>7. LiveInv'
  BY <1>1, <1>2, EmptyIs DEF LiveInv
<1> QED BY <1>4, <1>6, <1>7 DEF Ordered

\* What a catch-up takes is news, durable or of the running process.
LEMMA TakenIsNews ==
  ASSUME TypeOK, HistInv, CursorInv, NEW u \in Taken
  PROVE  /\ u \in Events /\ Unread(u) /\ (Durable(u) \/ hist[u].ep = epoch)
         /\ Session(u) => hist[u].ver <= ver
<1>1. u \in Events /\ (u \in LogAfter \/ u \in RingAfter) /\ (Session(u) => hist[u].ver > KnownVer)
  BY TakenIs DEF Taken
<1>2. u \in RingAfter => ~Durable(u) /\ hist[u].ep = epoch
  BY DEF RingAfter, HistInv
<1>3. u \in LogAfter => Durable(u) /\ hist[u].seq > cSeq
  BY DEF LogAfter
<1>4. Durable(u) \/ hist[u].ep = epoch
  BY <1>1, <1>2, <1>3
<1>5. NewDurable(u, cSeq)
  BY <1>1, <1>2, <1>3 DEF NewDurable
<1>6. ASSUME Session(u), hist[u].ep = cEp PROVE hist[u].ver > cVer
  <2>1. CASE cEp = epoch
    BY <1>1, <1>6, <2>1 DEF KnownVer
  <2>2. CASE cEp # epoch
    <3>1. Durable(u) /\ hist[u].seq > cSeq
      BY <1>1, <1>2, <1>3, <1>6, <2>2
    <3> QED BY <1>1, <1>6, <3>1 DEF CursorInv
  <2> QED BY <2>1, <2>2
<1>7. Session(u) => hist[u].ver <= ver
  BY <1>1, <1>4 DEF HistInv, Counted
<1> QED BY <1>1, <1>4, <1>5, <1>6, <1>7 DEF Unread

\* A new stream catches up on an empty wire.
LEMMA OrderedSubscribe ==
  ASSUME TypeOK, HistInv, Ordered, Subscribe
  PROVE  Ordered'
<1>1. /\ UNCHANGED <<hist, head, epoch, ver, ring, floor>> /\ UNCHANGED <<started, cSeq, cEp, cVer>>
      /\ UNCHANGED <<live, due, congested, degraded>> /\ open' = TRUE /\ started /\ ~open
  BY DEF Subscribe, node, cursor
<1>2. CursorInv /\ WireInv /\ LiveInv /\ Events' = Events /\ cSeq <= head
  BY <1>1, SameHistory DEF Ordered, CursorInv
<1>3. /\ CatchesUp(net', CaughtUp, Renewed) /\ sSeq' = head
      /\ sVer' = 0 \/ sVer' = KnownVer \/ \E u \in Taken : Session(u) /\ sVer' = hist[u].ver
  BY <1>2, SubscribeIs
<1>4. \A u \in CaughtUp : u \in Events /\ Unread(u) /\ (Durable(u) \/ hist[u].ep = epoch)
  BY <1>2, TakenIsNews DEF CaughtUp
<1>5. sVer' <= ver
  <2>1. KnownVer <= ver
    BY <1>2, OrderedTypes DEF KnownVer, CursorInv
  <2>2. \A u \in Taken : Session(u) => hist[u].ver <= ver
    BY <1>2, TakenIsNews
  <2> QED BY <1>3, <2>1, <2>2, OrderedTypes
<1>6. \A u : Unread(u)' <=> Unread(u)
  BY <1>1 DEF Unread, NewDurable, Durable, Session
<1>7. \A u, q : Reached(u, q) => Reached(u, q)'
  BY <1>1, <1>2 DEF Reached, Durable
<1>8. ASSUME NEW i \in DOMAIN net' PROVE FrameOK(net[i])'
  <2>0. PICK g : g = net'[i]
    OBVIOUS
  <2>1. /\ Rising(g.events) /\ ToSet(g.events) \subseteq CaughtUp
        /\ g.ep = epoch /\ cSeq <= g.seq /\ g.seq <= head
        /\ \A u \in ToSet(g.events) : Reached(u, g.seq)
    BY <1>3, <1>8, <2>0 DEF CatchesUp
  <2>2. \A u \in ToSet(g.events) : (Durable(u)' \/ hist'[u].ep = g.ep) /\ Unread(u)' /\ Reached(u, g.seq)'
    BY <1>1, <1>4, <1>6, <1>7, <2>1 DEF Durable
  <2>3. epoch <= epoch
    BY OrderedTypes
  <2> QED BY <1>1, <1>3, <2>0, <2>1, <2>2, <2>3 DEF FrameOK
<1>9. ASSUME NEW i \in DOMAIN net', NEW j \in DOMAIN net', i < j, NEW w \in ToSet(net'[j].events)
      PROVE  NewDurable(w, net[i].seq)' /\ \A u \in ToSet(net'[i].events) : u < w
  <2>1. After(w, net'[i].seq) /\ \A u \in ToSet(net'[i].events) : u < w
    BY <1>3, <1>9 DEF CatchesUp
  <2> QED BY <1>1, <2>1 DEF After, NewDurable, Durable
<1>10. WireInv'
  <2>1. \A i, j \in DOMAIN net' : i < j => \A w \in ToSet(net'[j].events) :
           NewDurable(w, net[i].seq)' /\ \A u \in ToSet(net'[i].events) : u < w
    BY <1>9
  <2>2. \A i, j \in DOMAIN net' : i < j => net'[i].seq <= net'[j].seq
    BY <1>3 DEF CatchesUp
  <2> QED BY <1>8, <2>1, <2>2, Zenon DEF WireInv, NewDurable, Durable
<1>11. CursorInv'
  <2>1. started'
    BY <1>1
  <2> QED BY <1>1, <1>2, <2>1 DEF CursorInv, Durable, Session
<1>12. LiveInv'
  <2>1. live' = <<>> /\ ToSet(live') = {} /\ Rising(live')
    BY <1>1, <1>2, EmptyIs DEF LiveInv
  <2>2. \A d \in Events' : Durable(d)' => ~(hist'[d].seq > sSeq')
    BY <1>1, <1>2, <1>3, EventsFinite, OrderedTypes DEF HistInv, Counted, Durable
  <2>3. cSeq' <= sSeq' /\ sSeq' <= head' /\ sVer' <= ver'
    BY <1>1, <1>2, <1>3, <1>5, OrderedTypes
  <2> QED BY <1>1, <2>1, <2>2, <2>3 DEF LiveInv
<1> QED BY <1>10, <1>11, <1>12 DEF Ordered

\* What follows a frame is news to a cursor that has read it.
LEMMA ReadIsBehind ==
  ASSUME TypeOK, HistInv, CursorInv, Reads, FrameOK(NextFrame), NEW u \in Events,
         Session(u), hist[u].ep = NextFrame.ep,
         \A w \in Seen : w < u, Unread(u)
  PROVE  hist[u].ver > cVer'
<1>1. hist[u].ver \in Nat /\ hist[u].ep \in Nat /\ NextFrame.ep \in Nat /\ cVer \in Nat
  BY EventsFinite, OrderedTypes DEF Reads, Frames
<1>2. hist[u].ver >= 1
  BY <1>1 DEF HistInv, Counted
<1>3. CASE Seen = {} /\ cVer' = IF NextFrame.ep = cEp THEN cVer ELSE 0
  BY <1>1, <1>2, <1>3 DEF Unread
<1>4. CASE \E h \in Seen : (\A w \in Seen : w <= h) /\ cVer' = hist[h].ver
  <2>1. PICK h \in Seen : cVer' = hist[h].ver
    BY <1>4
  <2>2. h \in Events /\ Session(h) /\ h < u /\ h \in ToSet(NextFrame.events)
    BY <2>1 DEF Seen, Reads
  <2>3. Durable(h) \/ hist[h].ep = hist[u].ep
    BY <2>2 DEF FrameOK
  <2>4. Earlier(h, u)
    BY <2>2 DEF HistInv
  <2>5. hist[h].ver < hist[u].ver /\ hist[h].ver \in Nat
    BY <2>2, <2>3, <2>4, EventsFinite DEF Earlier
  <2> QED BY <1>1, <2>1, <2>5
<1> QED BY <1>3, <1>4 DEF Reads

\* Reading a frame moves the cursor up to what follows it.
LEMMA OrderedReceive ==
  ASSUME TypeOK, HistInv, Ordered, Receive
  PROVE  Ordered'
<1>1. /\ UNCHANGED <<hist, head, epoch, ver, ring, floor>> /\ started' = started
      /\ UNCHANGED <<open, topic, sSeq, sVer, live, due, congested, degraded>> /\ net # <<>>
  BY DEF Receive, node, stream
<1>2. CursorInv /\ WireInv /\ LiveInv /\ Events' = Events /\ started
  BY <1>1, SameHistory DEF Ordered, CursorInv
<1>3. Reads
  BY ReceiveIs
<1>4. /\ FrameOK(NextFrame) /\ NextFrame = net[1] /\ 1 \in DOMAIN net
      /\ cEp' = NextFrame.ep /\ cSeq' = NextFrame.seq
      /\ NextFrame.seq \in Nat /\ NextFrame.ep \in Nat
      /\ \A u \in ToSet(NextFrame.events) : u \in Events /\ u \in Nat
      /\ Seen \subseteq ToSet(NextFrame.events)
  <2>1. ToSet(NextFrame.events) \subseteq Events
    BY <1>3, OrderedTypes DEF Reads, NextFrame
  <2>2. NextFrame.seq \in Nat /\ NextFrame.ep \in Nat
    BY <1>3, OrderedTypes DEF Reads, NextFrame
  <2>3. FrameOK(NextFrame)
    BY <1>2, <1>3 DEF WireInv, Reads, NextFrame
  <2>4. Seen \subseteq ToSet(NextFrame.events)
    BY DEF Seen
  <2> QED BY <1>3, <2>1, <2>2, <2>3, <2>4, EventsFinite DEF Reads, NextFrame
<1>5. ASSUME NEW u \in Events, Unread(u), NewDurable(u, NextFrame.seq),
             \A w \in ToSet(NextFrame.events) : w < u
      PROVE  Unread(u)'
  <2>1. \A w \in Seen : w < u
    BY <1>4, <1>5
  <2>2. Session(u) /\ hist[u].ep = NextFrame.ep => hist[u].ver > cVer'
    BY <1>2, <1>3, <1>4, <1>5, <2>1, ReadIsBehind
  <2> QED BY <1>1, <1>4, <1>5, <2>2 DEF Unread, NewDurable, Durable, Session
<1>6. CursorInv'
  <2>1. cSeq' <= head' /\ cEp' <= epoch'
    BY <1>1, <1>4 DEF FrameOK
  <2>2. ASSUME NEW d \in Events, Durable(d), Session(d), hist[d].seq > NextFrame.seq, hist[d].ep = NextFrame.ep
        PROVE  hist[d].ver > cVer'
    <3>1. \A w \in ToSet(NextFrame.events) : w < d
      BY <1>4, <2>2 DEF FrameOK, Reached
    <3>2. \A w \in Seen : w < d
      BY <1>4, <3>1
    <3>3. CASE Unread(d)
      BY <1>2, <1>3, <1>4, <2>2, <3>2, <3>3, ReadIsBehind
    <3>4. CASE ~Unread(d)
      <4>1. CASE hist[d].seq > cSeq
        <5>1. hist[d].ep = cEp /\ ~(hist[d].ver > cVer)
          BY <3>4, <4>1 DEF Unread, NewDurable
        <5> QED BY <1>2, <2>2, <4>1, <5>1 DEF CursorInv
      <4>2. CASE ~(hist[d].seq > cSeq)
        <5>1. cSeq <= NextFrame.seq
          BY <1>4 DEF FrameOK
        <5> QED BY <1>4, <2>2, <4>2, <5>1, EventsFinite, OrderedTypes
      <4> QED BY <4>1, <4>2
    <3> QED BY <3>3, <3>4
  <2>3. cEp' = epoch' => cVer' <= ver'
    <3> SUFFICES ASSUME NextFrame.ep = epoch PROVE cVer' <= ver
      BY <1>1, <1>4
    <3>1. CASE Seen = {} /\ cVer' = IF NextFrame.ep = cEp THEN cVer ELSE 0
      BY <1>2, <3>1, OrderedTypes DEF CursorInv
    <3>2. CASE \E h \in Seen : (\A w \in Seen : w <= h) /\ cVer' = hist[h].ver
      <4>1. PICK h \in Seen : cVer' = hist[h].ver
        BY <3>2
      <4>2. h \in Events /\ Session(h) /\ (Durable(h) \/ hist[h].ep = epoch)
        BY <1>4, <4>1 DEF Seen, FrameOK
      <4> QED BY <4>1, <4>2 DEF HistInv, Counted
    <3> QED BY <1>3, <3>1, <3>2 DEF Reads
  <2>4. started'
    BY <1>1, <1>2
  <2> QED BY <1>1, <1>2, <1>4, <2>1, <2>2, <2>3, <2>4 DEF CursorInv, Durable, Session
<1>7. \A u, q : Reached(u, q) => Reached(u, q)'
  BY <1>1, <1>2 DEF Reached, Durable
<1>8. \A i \in DOMAIN net' : i + 1 \in DOMAIN net /\ net'[i] = net[i + 1] /\ i \in Nat /\ i >= 1
  <2>1. \A i \in DOMAIN net' : i \in Nat /\ i >= 1
    <3>1. net' \in Seq(Frames)
      BY <1>3 DEF Reads
    <3> QED BY <3>1
  <2> QED BY <1>3, <2>1 DEF Reads
<1>9. ASSUME NEW i \in DOMAIN net', NEW u \in ToSet(net'[i].events)
      PROVE  Unread(u)' /\ u \in Events /\ Reached(u, net'[i].seq) /\ (Durable(u) \/ hist[u].ep = net'[i].ep)
  <2>1. PICK j : j = i + 1
    OBVIOUS
  <2>2. j \in DOMAIN net /\ net'[i] = net[j] /\ 1 < j
    BY <1>8, <2>1
  <2>3. /\ u \in Events /\ Unread(u) /\ Reached(u, net[j].seq) /\ (Durable(u) \/ hist[u].ep = net[j].ep)
    BY <1>2, <1>9, <2>2, OrderedTypes DEF WireInv, FrameOK
  <2>4. NewDurable(u, NextFrame.seq) /\ \A w \in ToSet(NextFrame.events) : w < u
    BY <1>2, <1>4, <1>9, <2>2 DEF WireInv
  <2> QED BY <1>5, <2>2, <2>3, <2>4
<1>10. ASSUME NEW i \in DOMAIN net' PROVE FrameOK(net[i])'
  <2>0. PICK g : g = net'[i]
    OBVIOUS
  <2>1. FrameOK(g)
    BY <1>2, <1>8, <2>0 DEF WireInv
  <2>3. cSeq' <= g.seq
    <3>1. i + 1 \in DOMAIN net /\ 1 < i + 1 /\ g = net[i + 1]
      BY <1>8, <2>0
    <3>2. NextFrame.seq <= g.seq
      BY <1>2, <1>4, <3>1 DEF WireInv
    <3> QED BY <1>4, <3>2
  <2>2. \A u \in ToSet(g.events) : (Durable(u)' \/ hist'[u].ep = g.ep) /\ Unread(u)' /\ Reached(u, g.seq)'
    BY <1>1, <1>7, <1>9, <2>0 DEF Durable
  <2> QED BY <1>1, <2>0, <2>1, <2>2, <2>3 DEF FrameOK
<1>11. ASSUME NEW i \in DOMAIN net', NEW j \in DOMAIN net', i < j, NEW w \in ToSet(net'[j].events)
       PROVE  NewDurable(w, net[i].seq)' /\ \A u \in ToSet(net'[i].events) : u < w
  <2>1. i + 1 < j + 1
    BY <1>8, <1>11
  <2>2. NewDurable(w, net[i + 1].seq) /\ \A u \in ToSet(net[i + 1].events) : u < w
    BY <1>2, <1>8, <1>11, <2>1 DEF WireInv
  <2> QED BY <1>1, <1>8, <2>2 DEF NewDurable, Durable
<1>12. WireInv'
  <2>1. \A i, j \in DOMAIN net' : i < j => \A w \in ToSet(net'[j].events) :
           NewDurable(w, net[i].seq)' /\ \A u \in ToSet(net'[i].events) : u < w
    BY <1>11
  <2>2. ASSUME NEW i \in DOMAIN net', NEW j \in DOMAIN net', i < j PROVE net'[i].seq <= net'[j].seq
    <3>1. i + 1 < j + 1
      BY <1>8, <2>2
    <3> QED BY <1>2, <1>8, <2>2, <3>1 DEF WireInv
  <2> QED BY <1>10, <2>1, <2>2, Zenon DEF WireInv, NewDurable, Durable
<1>13. ASSUME NEW u \in ToSet(live) PROVE Heard(u)'
  <2>1. u \in Events /\ Heard(u) /\ open
    BY <1>2, <1>13, OrderedTypes, EmptyIs DEF LiveInv
  <2>2. NewDurable(u, NextFrame.seq)
    <3>1. NextFrame.seq <= sSeq
      BY <1>4, <2>1 DEF FrameOK
    <3> QED BY <1>4, <2>1, <3>1, EventsFinite, OrderedTypes DEF Heard, NewDurable
  <2>3. \A w \in ToSet(NextFrame.events) : w < u
    BY <1>4, <2>1 DEF Heard
  <2>4. Unread(u)'
    BY <1>5, <2>1, <2>2, <2>3 DEF Heard
  <2>5. \A i \in DOMAIN net' : \A w \in ToSet(net'[i].events) : w < u
    BY <1>8, <2>1 DEF Heard
  <2> QED BY <1>1, <2>1, <2>4, <2>5 DEF Heard, NewDurable, Durable, Session
<1>14. LiveInv'
  <2>1. open => cSeq' <= sSeq
    BY <1>4 DEF FrameOK
  <2> QED BY <1>1, <1>2, <1>13, <2>1 DEF LiveInv, Durable
<1> QED BY <1>6, <1>12, <1>14 DEF Ordered

\* A connection that ends leaves the first frames of the wire, and no stream.
LEMMA OrderedLink ==
  ASSUME TypeOK, HistInv, Ordered, Drop \/ Restart
  PROVE  Ordered'
<1>1. /\ UNCHANGED <<hist, head>> /\ UNCHANGED <<started, cSeq, cEp, cVer>> /\ LinkEnds
      /\ open' = FALSE /\ live' = <<>> /\ due' = FALSE /\ congested' = FALSE /\ degraded' = FALSE
  BY DEF Drop, Restart, LinkEnds, node, cursor
<1>2. CursorInv /\ WireInv /\ LiveInv /\ Events' = Events
  BY <1>1, SameHistory DEF Ordered
<1>3. PICK k \in Nat : Cut(k)
  BY <1>1, LinkEndsIs
<1>4. \A i \in DOMAIN net' : i \in DOMAIN net /\ net'[i] = net[i]
  BY <1>3 DEF Cut
<1>5. epoch <= epoch' /\ epoch' \in Nat /\ (epoch' = epoch => ver' = ver)
  BY OrderedTypes DEF Drop, Restart, node
<1>6. \A u : Unread(u) => Unread(u)'
  BY <1>1 DEF Unread, NewDurable, Durable, Session
<1>7. \A u, q : Reached(u, q) => Reached(u, q)'
  BY <1>1, <1>2 DEF Reached, Durable
<1>8. CursorInv'
  <2>1. cEp <= epoch /\ cEp \in Nat /\ epoch \in Nat
    BY <1>2, OrderedTypes DEF CursorInv
  <2>2. cEp <= epoch' /\ (cEp = epoch' => cVer <= ver')
    <3>1. CASE epoch' = epoch
      BY <1>2, <1>5, <3>1 DEF CursorInv
    <3>2. CASE epoch' # epoch
      BY <1>5, <2>1, <3>2
    <3> QED BY <3>1, <3>2
  <2>3. ~started => net' = <<>>
    <3> SUFFICES ASSUME ~started PROVE net' = <<>>
      OBVIOUS
    <3>1. net = <<>>
      BY <1>2 DEF CursorInv
    <3>2. DOMAIN net' = {} /\ net' \in Seq(Frames)
      BY <1>3, <1>4, <3>1 DEF Cut
    <3> QED BY <3>2
  <2> QED BY <1>1, <1>2, <2>2, <2>3 DEF CursorInv, Durable, Session
<1>9. ASSUME NEW i \in DOMAIN net' PROVE FrameOK(net[i])'
  <2>0. PICK g : g = net'[i]
    OBVIOUS
  <2>1. FrameOK(g) /\ g.ep \in Nat
    BY <1>2, <1>4, <2>0, OrderedTypes DEF WireInv
  <2>2. \A u \in ToSet(g.events) : (Durable(u)' \/ hist'[u].ep = g.ep) /\ Unread(u)' /\ Reached(u, g.seq)'
    BY <1>1, <1>6, <1>7, <2>1 DEF FrameOK, Durable
  <2>3. g.ep <= epoch'
    BY <1>5, <2>1, OrderedTypes DEF FrameOK
  <2> QED BY <1>1, <2>0, <2>1, <2>2, <2>3 DEF FrameOK
<1>10. WireInv'
  <2>1. ASSUME NEW i \in DOMAIN net', NEW j \in DOMAIN net', i < j
        PROVE  /\ net'[i].seq <= net'[j].seq
               /\ \A w \in ToSet(net'[j].events) :
                    NewDurable(w, net[i].seq)' /\ \A u \in ToSet(net'[i].events) : u < w
    <3>1. /\ net[i].seq <= net[j].seq
          /\ \A w \in ToSet(net[j].events) :
               NewDurable(w, net[i].seq) /\ \A u \in ToSet(net[i].events) : u < w
      BY <1>2, <1>4, <2>1 DEF WireInv
    <3> QED BY <1>1, <1>4, <2>1, <3>1 DEF NewDurable, Durable
  <2> QED BY <1>9, <2>1, Zenon DEF WireInv, NewDurable, Durable
<1>11. LiveInv'
  BY <1>1, EmptyIs DEF LiveInv
<1> QED BY <1>8, <1>10, <1>11 DEF Ordered

\* The order of the wire survives every step.
LEMMA OrderedNext == TypeOK /\ HistInv /\ Ordered /\ [Next]_vars => Ordered'
<1> SUFFICES ASSUME TypeOK, HistInv, Ordered, [Next]_vars PROVE Ordered'
  OBVIOUS
<1>1. CASE \E kind \in Kinds : MakeEvent(kind)
  BY <1>1, OrderedMakeEvent
<1>2. CASE Flush \/ Drain
  BY <1>2, OrderedFlush
<1>3. CASE Start
  BY <1>3, OrderedStart
<1>4. CASE Subscribe
  BY <1>4, OrderedSubscribe
<1>5. CASE Receive
  BY <1>5, OrderedReceive
<1>6. CASE Drop \/ Restart
  BY <1>6, OrderedLink
<1>7. CASE \/ Evict \/ Congest \/ Follow \/ UpdateTopics \/ ReadBarrier \/ BarrierArrives \/ ReadAgain
           \/ Unfollow \/ Reconnect \/ UNCHANGED vars
  <2>1. SameFeed
    <3>1. CASE Evict
      BY <3>1 DEF Evict, SameFeed, stream, cursor
    <3>2. CASE Congest
      BY <3>2 DEF Congest, SameFeed, node, cursor
    <3>3. CASE UpdateTopics
      BY <3>3 DEF UpdateTopics, SameFeed, node, cursor
    <3>4. CASE \/ Follow \/ ReadBarrier \/ BarrierArrives \/ ReadAgain \/ Unfollow \/ Reconnect
               \/ UNCHANGED vars
      <4>1. UNCHANGED <<node, stream, net, cursor>>
        BY <3>4 DEF Follow, ReadBarrier, BarrierArrives, ReadAgain, Unfollow, Reconnect, vars
      <4> QED BY <4>1 DEF SameFeed, node, stream, cursor
    <3> QED BY <1>7, <3>1, <3>2, <3>3, <3>4
  <2> QED BY <2>1, OrderedSame
<1> QED BY <1>1, <1>2, <1>3, <1>4, <1>5, <1>6, <1>7 DEF Next

\* The feed begins in order.
LEMMA OrderedInit == Init => HistInv /\ Ordered
<1> SUFFICES ASSUME Init PROVE HistInv /\ Ordered
  OBVIOUS
<1>1. Events = {} /\ DOMAIN net = {}
  BY DEF Init, Events
<1>2. HistInv
  BY <1>1 DEF Init, HistInv, Streaming
<1>3. CursorInv
  BY <1>1 DEF Init, CursorInv
<1>4. WireInv
  BY <1>1 DEF WireInv
<1>5. LiveInv
  BY <1>1, EmptyIs DEF Init, LiveInv
<1> QED BY <1>2, <1>3, <1>4, <1>5 DEF Ordered

\* The three parts carry each other.
LEMMA FeedInvariant == Spec => [](TypeOK /\ HistInv /\ Ordered)
<1>1. Init => TypeOK /\ HistInv /\ Ordered
  BY TypesInit, OrderedInit
<1>2. TypeOK /\ HistInv /\ Ordered /\ [Next]_vars => TypeOK' /\ HistInv' /\ Ordered'
  BY TypesNext, HistNext, OrderedNext DEF Ordered, CursorInv
<1> QED BY <1>1, <1>2, PTL DEF Spec

\* Every variable keeps its shape.
THEOREM TypeCorrect == Spec => []TypeOK
<1>1. TypeOK /\ HistInv /\ Ordered => TypeOK
  OBVIOUS
<1> QED BY <1>1, FeedInvariant, PTL

\* Events reach the reader in the order the node made them, none twice and none
\* that its cursor has: not after a reconnect, a catch-up or a drain.
THEOREM FramesInOrder == Spec => []FramesAreInOrder
<1>1. TypeOK /\ HistInv /\ Ordered => FramesAreInOrder
  <2> SUFFICES ASSUME TypeOK, Ordered, NEW i \in DOMAIN net, NEW j \in DOMAIN net,
                      NEW k \in DOMAIN net[i].events, NEW l \in DOMAIN net[j].events
               PROVE  LET u == net[i].events[k]
                          w == net[j].events[l]
                      IN /\ i < j \/ (i = j /\ k < l) => u < w
                         /\ Durable(u) => hist[u].seq > cSeq
                         /\ Session(u) /\ hist[u].ep = cEp => hist[u].ver > cVer
    BY DEF FramesAreInOrder
  <2>1. net[i].events[k] \in ToSet(net[i].events) /\ net[j].events[l] \in ToSet(net[j].events)
    BY DEF ToSet
  <2>2. WireInv /\ FrameOK(net[i])
    BY DEF Ordered, WireInv
  <2>3. Unread(net[i].events[k])
    BY <2>1, <2>2 DEF FrameOK
  <2>4. i < j => net[i].events[k] < net[j].events[l]
    BY <2>1, <2>2 DEF WireInv
  <2>5. i = j /\ k < l => net[i].events[k] < net[j].events[l]
    BY <2>2 DEF FrameOK, Rising
  <2> QED BY <2>3, <2>4, <2>5 DEF Unread, NewDurable
<1> QED BY <1>1, FeedInvariant, PTL
--------------------------------------------------------------------------------
(* The follower: what its chat does not show is still to come.              *)

\* What a follower starts from, and what it has of what a chat should show.
BaseEp == IF fol = "on" THEN fromEp ELSE snap.ep
Base   == IF fol = "on" THEN from ELSE snap.ver
Has    == IF fol = "on" THEN known ELSE snap.shows
Had    == IF fol = "on" THEN known ELSE snap.shows \cup held

\* Once the first i frames are read, the follower has u or is told to read again.
Covered(u, i) == \E j \in DOMAIN net : j <= i /\ (net[j].gone \/ u \in ToSet(net[j].events))

\* u comes after everything the frame holds and reaches.
Beyond(u, f) == After(u, f.seq) /\ \A w \in ToSet(f.events) : Session(w) => w < u

\* A cursor that has read the first i frames has not passed u, or the follower
\* has it; and while a stream is open something is going to bring it.
NotPassed(u) == /\ After(u, cSeq) /\ (cEp = epoch => hist[u].ver > cVer)
                /\ \A i \in DOMAIN net : Covered(u, i) \/ Beyond(u, net[i])
ComesYet(u)  == Covered(u, Len(net)) \/ u \in ToSet(live) \/ (degraded /\ ~Durable(u))
Ahead(u)     == NotPassed(u) /\ (open => ComesYet(u))

\* The follower's states.
ModeInv ==
  /\ fol # "none" => started
  /\ snap # NoSnap => fol = "joining"
  /\ fol # "on" => known = {}
  /\ (fol = "on" \/ snap # NoSnap) /\ open => topic
  /\ fromEp <= epoch /\ snap.ep <= epoch

\* Its barrier's snapshot has what was shown up to its version.
BaseInv == BaseEp = epoch => Base <= ver /\ \A u \in Shown : u \in Has \/ hist[u].ver > Base

\* What it does not have is ahead of it.
AheadInv == BaseEp = epoch /\ ~lost /\ ~reread => \A u \in Shown \ Had : Ahead(u)

Followed == ModeInv /\ BaseInv /\ AheadInv

\* What a chat shows is of the session, and is counted.
LEMMA ShownIs ==
  ASSUME TypeOK, HistInv, NEW u \in Shown
  PROVE  /\ u \in Events /\ u \in Nat /\ Session(u) /\ (Durable(u) \/ u \in Streaming)
         /\ Durable(u) \/ hist[u].ep = epoch
         /\ hist[u].ver \in Nat /\ hist[u].seq \in Nat /\ hist[u].ep \in Nat /\ hist[u].ver >= 1
         /\ hist[u].ver <= ver /\ hist[u].seq <= head /\ hist[u].ep <= epoch
<1>1. u \in Events /\ Session(u) /\ (Durable(u) \/ u \in Streaming)
  BY StreamingIs DEF Shown
<1>2. Durable(u) \/ hist[u].ep = epoch
  BY <1>1, StreamingIs
<1>3. Counted(u)
  BY <1>1 DEF HistInv
<1> QED BY <1>1, <1>2, <1>3, EventsFinite DEF Counted

\* The shown events depend on the history and on the process alone.
LEMMA SameShown ==
  ASSUME UNCHANGED <<hist, epoch>>
  PROVE  /\ Events' = Events /\ Streaming' = Streaming /\ Shown' = Shown
         /\ \A u : Durable(u)' = Durable(u) /\ Session(u)' = Session(u)
<1>1. Events' = Events
  BY SameHistory
<1>2. \A u : Durable(u)' = Durable(u) /\ Session(u)' = Session(u)
  BY SameEvent
<1>3. Streaming' = Streaming
  BY <1>1, <1>2 DEF Streaming
<1> QED BY <1>1, <1>2, <1>3 DEF Shown

\* A follower with a barrier of the running process has joined.
LEMMA BasedIsJoined ==
  ASSUME TypeOK, HistInv, ModeInv, BaseEp = epoch
  PROVE  /\ fol = "on" \/ (fol = "joining" /\ snap # NoSnap)
         /\ open => topic
<1>1. epoch >= 1 /\ NoSnap.ep = 0 /\ epoch \in Nat
  BY NoSnapIs, OrderedTypes DEF HistInv
<1>2. fol # "on" => snap # NoSnap
  BY <1>1 DEF BaseEp
<1> QED BY <1>2 DEF ModeInv

\* The parts the follower's invariant is about stay.
SameView == UNCHANGED <<hist, epoch, ver, cSeq, cEp, cVer, started, net, open, live, degraded>>

\* What is ahead of the reader stays ahead when its view does not change.
LEMMA AheadSame ==
  ASSUME SameView, NEW u, Ahead(u)
  PROVE  Ahead(u)'
<1>1. /\ UNCHANGED <<hist, epoch, cSeq, cEp, cVer, net, open, live, degraded>>
      /\ \A w : Durable(w)' = Durable(w) /\ Session(w)' = Session(w)
  BY SameShown DEF SameView
<1>2. \A q : After(u, q)' = After(u, q)
  BY <1>1 DEF After, NewDurable
<1>3. \A i : Covered(u, i)' = Covered(u, i)
  BY <1>1 DEF Covered
<1>4. \A f : Beyond(u, f)' = Beyond(u, f)
  BY <1>1, <1>2 DEF Beyond
<1>5. NotPassed(u)'
  BY <1>1, <1>2, <1>3, <1>4 DEF Ahead, NotPassed
<1>6. open' => ComesYet(u)'
  BY <1>1, <1>3 DEF Ahead, ComesYet
<1> QED BY <1>5, <1>6 DEF Ahead

\* Steps of others.
LEMMA FollowedSame ==
  ASSUME Followed, SameView, UNCHANGED <<fol, from, held, snap, reread, fromEp, known, lost>>,
         topic' = topic
  PROVE  Followed'
<1>1. Shown' = Shown /\ BaseEp' = BaseEp /\ Base' = Base /\ Has' = Has /\ Had' = Had
  BY SameShown DEF SameView, BaseEp, Base, Has, Had
<1>2. ModeInv'
  BY NoSnapIs DEF Followed, ModeInv, SameView, NoSnap
<1>3. BaseInv'
  BY <1>1 DEF Followed, BaseInv, SameView
<1>4. AheadInv'
  BY <1>1, AheadSame DEF Followed, AheadInv, SameView
<1> QED BY <1>2, <1>3, <1>4 DEF Followed

\* A new event is ahead of everybody.
LEMMA FollowedMakeEvent ==
  ASSUME TypeOK, HistInv, Ordered, Followed, NEW kind \in Kinds, MakeEvent(kind)
  PROVE  Followed'
<1>0. PICK n : n = NewOne
  OBVIOUS
<1>1. /\ Makes(n, kind) /\ Hearing(n) /\ UNCHANGED <<epoch, cSeq, cEp, cVer, started, net>>
      /\ UNCHANGED <<fol, from, held, snap, reread, fromEp, known, lost>>
  BY <1>0, MakeEventIs, HearsIs DEF MakeEvent, cursor, follower
<1>2. CursorInv /\ WireInv /\ LiveInv /\ ModeInv /\ BaseInv /\ AheadInv
  BY DEF Ordered, Followed
<1>3. \A u \in Events : /\ hist'[u] = hist[u] /\ u < n
                        /\ Durable(u)' = Durable(u) /\ Session(u)' = Session(u)
  BY <1>1, SameEvent DEF Makes
<1>4. /\ Durable(n)' <=> kind # "stream"
      /\ Session(n)' <=> kind # "foreign"
  BY <1>1 DEF Makes, Durable, Session
<1>5. UNCHANGED <<open, topic>>
  BY <1>1 DEF Hearing
<1>6. BaseEp' = BaseEp /\ Base' = Base /\ Has' = Has /\ Had' = Had
  BY <1>1 DEF BaseEp, Base, Has, Had
<1>7. ASSUME NEW u \in Shown' PROVE u \in Shown \/ (u = n /\ Session(n)')
  <2>1. (u \in Events' /\ Session(u)' /\ Durable(u)') \/ u \in Streaming'
    BY DEF Shown
  <2>2. CASE u \in Streaming'
    <3>1. u \in Streaming \/ (u = n /\ kind = "stream")
      BY <1>0, <2>2, StreamingMakes
    <3> QED BY <1>4, <3>1 DEF Shown
  <2>3. CASE u \in Events' /\ Session(u)' /\ Durable(u)'
    <3>1. u \in Events \/ u = n
      BY <1>1, <2>3 DEF Makes
    <3>2. CASE u \in Events
      BY <1>3, <2>3, <3>2 DEF Shown
    <3>3. CASE u = n
      BY <2>3, <3>3
    <3> QED BY <3>1, <3>2, <3>3
  <2> QED BY <2>1, <2>2, <2>3
<1>8. ASSUME Session(n)' PROVE hist'[n].ver = ver + 1 /\ ver' = ver + 1
  BY <1>1, <1>4, <1>8 DEF Makes
<1>9. ModeInv'
  BY <1>1, <1>2, <1>5 DEF ModeInv, NoSnap
<1>10. BaseInv'
  <2> SUFFICES ASSUME BaseEp = epoch
               PROVE  Base <= ver' /\ \A u \in Shown' : u \in Has \/ hist'[u].ver > Base
    BY <1>1, <1>6 DEF BaseInv
  <2>1. Base <= ver /\ \A u \in Shown : u \in Has \/ hist[u].ver > Base
    BY <1>2 DEF BaseInv
  <2>2. Base \in Nat /\ ver \in Nat
    BY TypesAre DEF Base, FollowerTypes, Snapshots, NodeTypes
  <2>3. Base <= ver'
    BY <1>1, <2>1, <2>2 DEF Makes
  <2>4. Session(n)' => hist'[n].ver > Base
    BY <1>8, <2>1, <2>2
  <2>5. \A u \in Shown : u \in Events
    BY ShownIs
  <2> QED BY <1>3, <1>7, <2>1, <2>3, <2>4, <2>5
<1>11. \A i \in DOMAIN net : ToSet(net[i].events) \subseteq Events /\ net[i].seq \in Nat /\ net[i].seq <= head
  BY <1>2, OrderedTypes DEF WireInv, FrameOK
<1>12. \A i \in DOMAIN net : \A w \in ToSet(net[i].events) : w < n /\ Session(w)' = Session(w)
  BY <1>3, <1>11
<1>13. ASSUME NEW u \in Events, Ahead(u) PROVE Ahead(u)'
  <2>1. \A q : After(u, q)' = After(u, q)
    BY <1>3 DEF After, NewDurable
  <2>2. \A i : Covered(u, i)' = Covered(u, i)
    BY <1>1 DEF Covered
  <2>3. \A i \in DOMAIN net : Beyond(u, net[i]) => Beyond(u, net[i])'
    BY <1>1, <1>12, <2>1 DEF Beyond
  <2>4. NotPassed(u)'
    BY <1>1, <1>3, <1>13, <2>1, <2>2, <2>3 DEF Ahead, NotPassed
  <2>5. open' => ComesYet(u)'
    <3> SUFFICES ASSUME open PROVE ComesYet(u)'
      BY <1>5
    <3>1. Covered(u, Len(net)) \/ u \in ToSet(live) \/ (degraded /\ ~Durable(u))
      BY <1>13 DEF Ahead, ComesYet
    <3>2. Covered(u, Len(net)) => Covered(u, Len(net))'
      BY <1>1, <2>2
    <3>3. u \in ToSet(live) => u \in ToSet(live') \/ (degraded' /\ ~Durable(u)')
      BY <1>1 DEF Hearing, Durable
    <3>4. degraded => degraded'
      BY <1>1 DEF Hearing
    <3> QED BY <1>3, <3>1, <3>2, <3>3, <3>4 DEF ComesYet
  <2> QED BY <2>4, <2>5 DEF Ahead
<1>14. ASSUME Session(n)' PROVE Ahead(n)'
  <2>1. /\ hist'[n].seq \in Nat /\ hist'[n].seq >= head /\ (Durable(n)' => hist'[n].seq > head)
        /\ hist'[n].ver > ver
    BY <1>1, <1>4, <1>8, <1>14, OrderedTypes DEF Makes
  <2>2. \A q \in Nat : q <= head => After(n, q)'
    BY <2>1, OrderedTypes DEF After, NewDurable
  <2>3. After(n, cSeq)'
    <3>1. PICK q \in Nat : q = cSeq
      BY OrderedTypes
    <3> QED BY <1>1, <1>2, <2>2, <3>1 DEF CursorInv
  <2>4. cEp' = epoch' => hist'[n].ver > cVer'
    BY <1>1, <1>2, <2>1, OrderedTypes DEF CursorInv, Makes
  <2>5. \A i \in DOMAIN net : Beyond(n, net[i])'
    <3> SUFFICES ASSUME NEW i \in DOMAIN net PROVE Beyond(n, net[i])'
      OBVIOUS
    <3>1. PICK q \in Nat : q = net[i].seq /\ q <= head
      BY <1>11
    <3>2. After(n, q)' /\ net'[i].seq = q
      BY <1>1, <2>2, <3>1
    <3> QED BY <1>1, <1>12, <3>2 DEF Beyond
  <2>6. NotPassed(n)'
    BY <1>1, <2>3, <2>4, <2>5 DEF NotPassed
  <2>7. open' => n \in ToSet(live') \/ (degraded' /\ ~Durable(n)')
    BY <1>1, <1>5 DEF Hearing, Durable
  <2> QED BY <2>6, <2>7 DEF Ahead, ComesYet
<1>15. AheadInv'
  <2> SUFFICES ASSUME BaseEp = epoch, ~lost, ~reread, NEW u \in Shown', u \notin Had PROVE Ahead(u)'
    BY <1>1, <1>6 DEF AheadInv
  <2>1. CASE u \in Shown
    <3>1. u \in Events /\ Ahead(u)
      BY <1>2, <2>1, ShownIs DEF AheadInv
    <3> QED BY <1>13, <3>1
  <2>2. CASE u = n /\ Session(n)'
    BY <1>14, <2>2
  <2> QED BY <1>7, <2>1, <2>2
<1> QED BY <1>9, <1>10, <1>15 DEF Followed

\* A flush sends what was heard, or names the session.
LEMMA FollowedSendLive ==
  ASSUME TypeOK, HistInv, Ordered, Followed, open, SendLive,
         UNCHANGED <<node, open, topic, cursor, follower>>
  PROVE  Followed'
<1>1. /\ UNCHANGED <<hist, head, epoch, ver, ring, floor>> /\ UNCHANGED <<started, cSeq, cEp, cVer>>
      /\ UNCHANGED <<open, topic>> /\ UNCHANGED <<fol, from, held, snap, reread, fromEp, known, lost>>
  BY DEF node, cursor, follower
<1>2. LiveInv /\ ModeInv /\ BaseInv /\ AheadInv
  BY DEF Ordered, Followed
<1>3. /\ Shown' = Shown /\ BaseEp' = BaseEp /\ Base' = Base /\ Has' = Has /\ Had' = Had
      /\ \A w : Durable(w)' = Durable(w) /\ Session(w)' = Session(w)
  BY <1>1, SameShown DEF BaseEp, Base, Has, Had
<1>4. ModeInv'
  BY <1>1, <1>2 DEF ModeInv, NoSnap
<1>5. BaseInv'
  BY <1>1, <1>2, <1>3 DEF BaseInv
<1>6. PICK sent : sent = LiveSent
  OBVIOUS
<1>7. Sends(sent)
  BY <1>6, SendLiveIs
<1>8. PICK f : f = [events |-> sent, seq |-> sSeq', ep |-> epoch, gone |-> degraded]
  OBVIOUS
<1>9. f.events = sent /\ f.gone = degraded
  BY <1>8
<1>10. PICK n : n = Len(net)
  OBVIOUS
<1>11. n \in Nat /\ DOMAIN net = 1..n /\ net \in Seq(Frames)
  BY <1>10, OrderedTypes, TypesAre DEF WireTypes
<1>12. PICK m : m = Len(net')
  OBVIOUS
<1>13. /\ m \in Nat /\ n <= m /\ DOMAIN net' = 1..m
       /\ \A i \in 1..n : net'[i] = net[i] /\ i \in 1..m
       /\ (sent # <<>> \/ degraded) => m = n + 1 /\ net'[m] = f /\ m \in 1..m
       /\ m = n \/ m = n + 1
  <2>1. net' = IF sent = <<>> /\ ~degraded THEN net ELSE Append(net, f)
    BY <1>7, <1>8 DEF Sends
  <2>2. CASE sent = <<>> /\ ~degraded
    BY <1>10, <1>11, <1>12, <2>1, <2>2
  <2>3. CASE sent # <<>> \/ degraded
    <3>1. net' = Append(net, f)
      BY <2>1, <2>3
    <3>2. m = n + 1 /\ m \in Nat
      BY <1>10, <1>11, <1>12, <3>1
    <3>3. DOMAIN net' = 1..m
      BY <1>10, <1>11, <1>12, <3>1
    <3>4. \A i \in 1..n : net'[i] = net[i] /\ i \in 1..m
      BY <1>10, <1>11, <3>1, <3>2
    <3>5. net'[m] = f
      BY <1>10, <1>11, <3>1, <3>2
    <3> QED BY <1>11, <3>2, <3>3, <3>4, <3>5
  <2> QED BY <2>2, <2>3
<1>14. ASSUME BaseEp = epoch, NEW u \in Shown, Ahead(u) PROVE Ahead(u)'
  <2>1. \A q : After(u, q)' = After(u, q)
    BY <1>1, <1>3 DEF After, NewDurable
  <2>2. ASSUME NEW i, Covered(u, i) PROVE Covered(u, i)'
    BY <1>11, <1>13, <2>2 DEF Covered
  <2>3. \A i \in 1..n : Beyond(u, net[i]) => Beyond(u, net[i])'
    BY <1>3, <1>13, <2>1 DEF Beyond
  <2>4. Covered(u, m)'
    <3>1. ComesYet(u)
      BY <1>14 DEF Ahead
    <3>2. CASE Covered(u, n)
      <4>1. PICK j \in 1..n : net[j].gone \/ u \in ToSet(net[j].events)
        BY <1>11, <3>2 DEF Covered
      <4>2. j \in 1..m /\ j <= m
        BY <1>13
      <4> QED BY <1>13, <4>1, <4>2 DEF Covered
    <3>3. CASE u \in ToSet(live)
      <4>1. Session(u) /\ hist[u].ver >= 1 /\ hist[u].ver \in Nat /\ topic
        BY <1>2, <1>14, ShownIs, BasedIsJoined
      <4>2. hist[u].ver > sVer
        BY <1>2, <3>3, <4>1 DEF LiveInv, Heard
      <4>3. Due(u)
        BY <4>1, <4>2 DEF Due
      <4>4. u \in ToSet(sent)
        BY <1>7, <3>3, <4>1, <4>3 DEF Sends, LiveTaken
      <4>5. sent # <<>>
        BY <4>4, EmptyIs
      <4>6. m \in DOMAIN net' /\ m <= m /\ u \in ToSet(net'[m].events)
        BY <1>9, <1>13, <4>4, <4>5
      <4> QED BY <4>6 DEF Covered
    <3>4. CASE degraded
      <4>0. m \in DOMAIN net' /\ m <= m /\ net'[m] = f
        BY <1>13, <3>4
      <4>1. m \in DOMAIN net' /\ m <= m /\ net'[m].gone
        <5>1. f.gone
          BY <1>9, <3>4
        <5>2. net'[m].gone
          BY <4>0, <5>1
        <5> QED BY <4>0, <5>2
      <4> QED BY <4>1 DEF Covered
    <3> QED BY <1>10, <3>1, <3>2, <3>3, <3>4 DEF ComesYet
  <2>5. NotPassed(u)'
    <3>1. ASSUME NEW i \in DOMAIN net' PROVE Covered(u, i)' \/ Beyond(u, net[i])'
      <4>1. i \in 1..n \/ i = m
        BY <1>11, <1>13
      <4>2. CASE i \in 1..n
        BY <1>11, <1>14, <2>2, <2>3, <4>2 DEF Ahead, NotPassed
      <4> QED BY <2>4, <4>1, <4>2
    <3> QED BY <1>1, <1>14, <2>1, <3>1 DEF Ahead, NotPassed
  <2> QED BY <1>12, <2>4, <2>5 DEF Ahead, ComesYet
<1>15. AheadInv'
  BY <1>1, <1>2, <1>3, <1>14 DEF AheadInv
<1> QED BY <1>4, <1>5, <1>15 DEF Followed

\* A flush or a drain takes nothing from the follower: what leaves the buffer is
\* on the wire, or named there as a gap.
LEMMA FollowedFlush ==
  ASSUME TypeOK, HistInv, Ordered, Followed, Flush \/ Drain
  PROVE  Followed'
<1>1. open /\ UNCHANGED <<node, open, topic, cursor, follower>>
  BY DEF Ordered, LiveInv, Flush, Drain
<1>2. SendLive \/ UNCHANGED <<live, degraded, sVer, sSeq, net>>
  BY DEF Flush, Drain
<1>3. CASE SendLive
  BY <1>1, <1>3, FollowedSendLive
<1>4. CASE UNCHANGED <<live, degraded, sVer, sSeq, net>>
  BY <1>1, <1>4, FollowedSame DEF SameView, node, cursor, follower
<1> QED BY <1>2, <1>3, <1>4

\* Nobody follows a feed that has not started.
LEMMA FollowedStart ==
  ASSUME TypeOK, HistInv, Ordered, Followed, Start
  PROVE  Followed'
<1>1. /\ UNCHANGED <<hist, epoch, ver>> /\ UNCHANGED <<open, topic>> /\ started' = TRUE
      /\ UNCHANGED <<fol, from, held, snap, reread, fromEp, known, lost>> /\ ~started
  BY DEF Start, node, stream, follower
<1>2. ModeInv
  BY DEF Followed
<1>3. BaseEp # epoch
  BY <1>1, <1>2, BasedIsJoined DEF ModeInv
<1>4. BaseEp' # epoch'
  BY <1>1, <1>3 DEF BaseEp
<1>5. ModeInv'
  BY <1>1, <1>2 DEF ModeInv, NoSnap
<1> QED BY <1>4, <1>5 DEF Followed, BaseInv, AheadInv

\* A catch-up brings what is ahead of the cursor, or names the session.
LEMMA FollowedSubscribe ==
  ASSUME TypeOK, HistInv, Ordered, Followed, Subscribe
  PROVE  Followed'
<1>1. /\ UNCHANGED <<hist, head, epoch, ver, ring, floor>> /\ UNCHANGED <<started, cSeq, cEp, cVer>>
      /\ UNCHANGED <<fol, from, held, snap, reread, fromEp, known>> /\ net = <<>>
      /\ lost' = (lost \/ (/\ Wanted /\ KnownVer = 0 /\ ~MustResnap
                           /\ ~(Streaming \subseteq ring \cup known \cup snap.shows)))
      /\ started /\ up
  BY Zenon DEF Subscribe, node, cursor, Wanted
<1>2. CursorInv /\ ModeInv /\ BaseInv /\ AheadInv /\ cSeq <= head
  BY DEF Ordered, Followed, CursorInv
<1>3. /\ Shown' = Shown /\ BaseEp' = BaseEp /\ Base' = Base /\ Has' = Has /\ Had' = Had
      /\ \A w : Durable(w)' = Durable(w) /\ Session(w)' = Session(w)
  BY <1>1, SameShown DEF BaseEp, Base, Has, Had
<1>4. CatchesUp(net', CaughtUp, Renewed) /\ topic' = Wanted
  BY <1>2, SubscribeIs
<1>5. ModeInv'
  BY <1>1, <1>2, <1>4 DEF ModeInv, NoSnap, Wanted
<1>6. BaseInv'
  BY <1>1, <1>2, <1>3 DEF BaseInv
<1>7. ASSUME BaseEp = epoch, ~lost', ~reread, NEW u \in Shown, u \notin Had
      PROVE  Ahead(u)'
  <2>1. /\ u \in Events /\ Session(u) /\ (Durable(u) \/ u \in Streaming)
        /\ hist[u].ver \in Nat /\ hist[u].ver >= 1 /\ hist[u].seq \in Nat
    BY ShownIs
  <2>2. Ahead(u)
    BY <1>1, <1>2, <1>7 DEF AheadInv
  <2>3. After(u, cSeq) /\ (cEp = epoch => hist[u].ver > cVer)
    BY <2>2 DEF Ahead, NotPassed
  <2>4. Wanted
    BY <1>2, <1>7, BasedIsJoined DEF Wanted
  <2>5. \A q : After(u, q)' = After(u, q)
    BY <1>1, <1>3 DEF After, NewDurable
  <2>6. PICK m : m = Len(net')
    OBVIOUS
  <2>7. net' \in Seq(Frames) /\ m \in Nat /\ DOMAIN net' = 1..m
    BY <1>4, <2>6 DEF CatchesUp
  <2>8. CASE MustResnap
    <3>1. 1 \in DOMAIN net' /\ net'[1].gone
      BY <1>4, <2>4, <2>8 DEF CatchesUp, Renewed
    <3>2. \A i \in DOMAIN net' : Covered(u, i)'
      <4>1. \A i \in DOMAIN net' : 1 <= i
        BY <2>7
      <4> QED BY <3>1, <4>1 DEF Covered
    <3>3. Covered(u, m)'
      <4>1. m \in DOMAIN net'
        BY <2>7, <3>1
      <4> QED BY <3>2, <4>1
    <3> QED BY <1>1, <2>3, <2>5, <2>6, <3>2, <3>3 DEF Ahead, NotPassed, ComesYet
  <2>9. CASE ~MustResnap
    <3>1. hist[u].ver > KnownVer
      BY <2>1, <2>3 DEF KnownVer
    <3>2. u \in LogAfter \/ u \in RingAfter
      <4>1. CASE Durable(u)
        BY <2>1, <2>3, <4>1 DEF LogAfter, After, NewDurable
      <4>2. CASE u \in Streaming /\ KnownVer # 0
        <5>1. cEp = epoch /\ KnownVer = cVer /\ ~(cVer < floor)
          BY <2>9, <4>2 DEF KnownVer, MustResnap, TooOld
        <5>2. u \in ring \/ hist[u].ver <= floor
          BY <4>2 DEF HistInv
        <5>3. u \in ring
          BY <2>1, <3>1, <5>1, <5>2, OrderedTypes
        <5> QED BY <2>9, <3>1, <4>2, <5>3 DEF RingAfter
      <4>3. CASE u \in Streaming /\ KnownVer = 0
        <5>1. u \in ring \/ u \in known \/ u \in snap.shows
          BY <1>1, <1>7, <2>4, <2>9, <4>3
        <5>2. fol = "on" \/ (fol = "joining" /\ snap # NoSnap)
          BY <1>2, <1>7, BasedIsJoined
        <5>3. u \in ring
          <6>1. CASE fol = "on"
            <7>1. snap.shows = {}
              BY <1>2, <6>1 DEF ModeInv, NoSnap
            <7> QED BY <1>7, <5>1, <6>1, <7>1 DEF Had
          <6>2. CASE fol = "joining"
            <7>1. known = {}
              BY <1>2, <6>2 DEF ModeInv
            <7> QED BY <1>7, <5>1, <6>2, <7>1 DEF Had
          <6> QED BY <5>2, <6>1, <6>2
        <5>4. hist[u].seq >= cSeq
          BY <2>3 DEF After
        <5> QED BY <2>9, <4>3, <5>3, <5>4 DEF RingAfter
      <4> QED BY <2>1, <4>1, <4>2, <4>3
    <3>3. u \in CaughtUp
      BY <2>4, <2>9, <3>1, <3>2 DEF Taken, CaughtUp
    <3>4. PICK k \in DOMAIN net' : u \in ToSet(net'[k].events)
      BY <1>4, <3>3 DEF CatchesUp
    <3>5. ASSUME NEW i \in DOMAIN net' PROVE Covered(u, i)' \/ Beyond(u, net[i])'
      <4>1. CASE k <= i
        BY <3>4, <4>1 DEF Covered
      <4>2. CASE i < k
        <5>1. After(u, net'[i].seq) /\ \A w \in ToSet(net'[i].events) : w < u
          BY <1>4, <3>4, <3>5, <4>2 DEF CatchesUp
        <5>2. PICK q : q = net'[i].seq
          OBVIOUS
        <5>3. After(u, q)'
          BY <2>5, <5>1, <5>2
        <5>4. After(u, net[i].seq)'
          BY <5>2, <5>3 DEF After, NewDurable
        <5> QED BY <5>1, <5>4 DEF Beyond
      <4> QED BY <2>7, <3>4, <4>1, <4>2
    <3>6. Covered(u, m)'
      <4>1. k <= m
        BY <2>7
      <4> QED BY <3>4, <4>1 DEF Covered
    <3> QED BY <1>1, <2>3, <2>5, <2>6, <3>5, <3>6 DEF Ahead, NotPassed, ComesYet
  <2> QED BY <2>8, <2>9
<1>8. AheadInv'
  BY <1>1, <1>3, <1>7 DEF AheadInv
<1> QED BY <1>5, <1>6, <1>8 DEF Followed

\* A frame that is read brings its events, tells of a gap, or lies before what
\* the follower does not have.
LEMMA FollowedReceive ==
  ASSUME TypeOK, HistInv, Ordered, Followed, Receive
  PROVE  Followed'
<1>1. /\ UNCHANGED <<hist, head, epoch, ver, ring, floor>> /\ started' = started
      /\ UNCHANGED <<open, topic, sSeq, sVer, live, due, congested, degraded>>
      /\ UNCHANGED <<fol, from, snap, fromEp>>
  BY DEF Receive, node, stream
<1>2. CursorInv /\ WireInv /\ ModeInv /\ BaseInv /\ AheadInv
  BY DEF Ordered, Followed
<1>3. /\ Shown' = Shown /\ BaseEp' = BaseEp /\ Base' = Base
      /\ \A w : Durable(w)' = Durable(w) /\ Session(w)' = Session(w)
  BY <1>1, SameShown DEF BaseEp, Base
<1>4. Reads /\ 1 \in DOMAIN net /\ NextFrame = net[1]
  BY ReceiveIs DEF Reads, NextFrame
<1>5. PICK f : f = NextFrame
  OBVIOUS
<1>6. PICK us : us = Seen
  OBVIOUS
<1>7. /\ f = Head(net) /\ us = {u \in ToSet(f.events) : Session(u)}
      /\ cSeq' = f.seq /\ cEp' = f.ep /\ FrameOK(f) /\ us \subseteq Events
  <2>1. f = Head(net)
    BY <1>4, <1>5, TypesAre DEF WireTypes
  <2>2. FrameOK(f)
    BY <1>2, <1>4, <1>5 DEF WireInv
  <2> QED BY <1>4, <1>5, <1>6, <2>1, <2>2 DEF Reads, Seen
<1>8. Deliver(us)
  <2>1. Deliver({u \in ToSet(Head(net).events) : Session(u)})
    BY DEF Receive
  <2> QED BY <1>7, <2>1
<1>9. /\ ~reread' => ~reread /\ ~(Head(net).gone /\ fol # "none" /\ up)
      /\ ~lost' => ~lost /\ ~(Head(net).gone /\ fol # "none" /\ ~up)
  BY Zenon DEF Receive
<1>10. ModeInv'
  <2>1. fol # "on" => known' = known
    BY <1>8 DEF Deliver
  <2> QED BY <1>1, <1>2, <2>1 DEF ModeInv, NoSnap
<1>11. BaseInv'
  <2>1. Has \subseteq Has'
    BY <1>1, <1>8 DEF Has, Deliver
  <2> QED BY <1>1, <1>2, <1>3, <2>1 DEF BaseInv
<1>12. ASSUME BaseEp = epoch, ~lost', ~reread', NEW u \in Shown, u \notin Had'
       PROVE  Ahead(u)'
  <2>1. /\ u \in Events /\ u \in Nat /\ Session(u) /\ hist[u].ver \in Nat /\ hist[u].ver >= 1
        /\ hist[u].seq \in Nat /\ hist[u].ep \in Nat /\ hist[u].ep <= epoch
        /\ Durable(u) \/ hist[u].ep = epoch
    BY ShownIs
  <2>2. fol = "on" \/ fol = "joining"
    BY <1>2, <1>12, BasedIsJoined
  <2>3. u \notin Had /\ u \notin us
    <3>1. CASE fol = "on"
      <4>1. known' = known \cup {w \in us : hist[w].ver > from} /\ Had = known /\ Had' = known'
        BY <1>1, <1>8, <3>1 DEF Deliver, Had
      <4>2. u \in known \/ hist[u].ver > from
        BY <1>2, <1>12, <3>1 DEF BaseInv, Has, Base
      <4> QED BY <1>12, <4>1, <4>2
    <3>2. CASE fol = "joining"
      <4>1. held' = held \cup us /\ Had = snap.shows \cup held /\ Had' = snap.shows \cup held'
        BY <1>1, <1>8, <3>2 DEF Deliver, Had
      <4> QED BY <1>12, <4>1
    <3> QED BY <2>2, <3>1, <3>2
  <2>4. ~f.gone /\ u \notin ToSet(f.events)
    BY <1>7, <1>9, <1>12, <2>1, <2>2, <2>3
  <2>5. Ahead(u)
    BY <1>2, <1>9, <1>12, <2>3 DEF AheadInv
  <2>6. \A j \in DOMAIN net : j \in Nat /\ j >= 1
    BY OrderedTypes
  <2>7. Beyond(u, f)
    <3>1. ~Covered(u, 1)
      <4> SUFFICES ASSUME NEW j \in DOMAIN net, j <= 1, net[j].gone \/ u \in ToSet(net[j].events) PROVE FALSE
        BY DEF Covered
      <4>1. j = 1
        BY <2>6
      <4> QED BY <1>4, <1>5, <2>4, <4>1
    <3> QED BY <1>4, <1>5, <2>5, <3>1 DEF Ahead, NotPassed
  <2>8. \A q : After(u, q)' = After(u, q)
    BY <1>1, <1>3 DEF After, NewDurable
  <2>9. After(u, cSeq)'
    <3>1. PICK q : q = cSeq'
      OBVIOUS
    <3>2. After(u, q)'
      BY <1>7, <2>7, <2>8, <3>1 DEF Beyond
    <3> QED BY <3>1, <3>2 DEF After, NewDurable
  <2>10. cEp' = epoch' => hist'[u].ver > cVer'
    <3> SUFFICES ASSUME f.ep = epoch PROVE hist[u].ver > cVer'
      BY <1>1, <1>7
    <3>1. CASE us = {} /\ cVer' = IF f.ep = cEp THEN cVer ELSE 0
      <4>1. cEp = epoch => hist[u].ver > cVer
        BY <2>5 DEF Ahead, NotPassed
      <4> QED BY <2>1, <3>1, <4>1
    <3>2. CASE \E h \in us : (\A w \in us : w <= h) /\ cVer' = hist[h].ver
      <4>1. PICK h \in us : cVer' = hist[h].ver
        BY <3>2
      <4>2. h \in ToSet(f.events) /\ Session(h) /\ h \in Events
        BY <1>7, <4>1
      <4>3. h < u
        BY <2>7, <4>2 DEF Beyond
      <4>4. Earlier(h, u) /\ hist[h].ep <= epoch
        BY <2>1, <4>2, <4>3 DEF HistInv, Counted
      <4>5. Durable(h) \/ hist[h].ep = epoch
        BY <1>7, <4>2 DEF FrameOK
      <4>6. Durable(h) \/ hist[h].ep = hist[u].ep
        <5>1. hist[h].ep <= hist[u].ep /\ hist[h].ep \in Nat
          BY <4>2, <4>4, EventsFinite DEF Earlier
        <5> QED BY <2>1, <4>5, <5>1, OrderedTypes
      <4>7. hist[h].ver < hist[u].ver /\ hist[h].ver \in Nat
        BY <2>1, <4>2, <4>4, <4>6, EventsFinite DEF Earlier
      <4> QED BY <2>1, <4>1, <4>7
    <3> QED BY <1>4, <1>5, <1>6, <3>1, <3>2 DEF Reads
  <2>11. \A i \in DOMAIN net' : i + 1 \in DOMAIN net /\ net'[i] = net[i + 1] /\ i \in Nat
    <3>1. \A i \in DOMAIN net' : i \in Nat
      <4>1. net' \in Seq(Frames)
        BY <1>4 DEF Reads
      <4> QED BY <4>1
    <3> QED BY <1>4, <3>1 DEF Reads
  <2>12. ASSUME NEW i \in Nat, Covered(u, i + 1) PROVE Covered(u, i)'
    <3>1. PICK j \in DOMAIN net : j <= i + 1 /\ (net[j].gone \/ u \in ToSet(net[j].events))
      BY <2>12 DEF Covered
    <3>2. j # 1 /\ j \in Nat /\ j >= 1
      BY <1>4, <1>5, <2>4, <2>6, <3>1
    <3>3. j - 1 \in DOMAIN net' /\ net'[j - 1] = net[j]
      BY <1>4, <3>2 DEF Reads
    <3>4. j - 1 <= i
      BY <3>1, <3>2
    <3>5. PICK p : p = j - 1
      OBVIOUS
    <3> QED BY <3>1, <3>3, <3>4, <3>5 DEF Covered
  <2>13. ASSUME NEW i \in DOMAIN net' PROVE Covered(u, i)' \/ Beyond(u, net[i])'
    <3>1. Covered(u, i + 1) \/ Beyond(u, net[i + 1])
      BY <2>5, <2>11 DEF Ahead, NotPassed
    <3>2. CASE Covered(u, i + 1)
      BY <2>11, <2>12, <3>2
    <3>3. CASE Beyond(u, net[i + 1])
      <4>1. PICK g : g = net'[i]
        OBVIOUS
      <4>2. Beyond(u, g)
        BY <2>11, <3>3, <4>1
      <4>3. After(u, g.seq)'
        <5>1. PICK q : q = g.seq
          OBVIOUS
        <5>2. After(u, q)'
          BY <2>8, <4>2, <5>1 DEF Beyond
        <5> QED BY <5>1, <5>2
      <4> QED BY <1>3, <4>1, <4>2, <4>3 DEF Beyond, After, NewDurable
    <3> QED BY <3>1, <3>2, <3>3
  <2>14. NotPassed(u)'
    BY <2>9, <2>10, <2>13 DEF NotPassed
  <2>15. open' => ComesYet(u)'
    <3> SUFFICES ASSUME open PROVE ComesYet(u)'
      BY <1>1
    <3>1. Covered(u, Len(net)) \/ u \in ToSet(live) \/ (degraded /\ ~Durable(u))
      BY <2>5 DEF Ahead, ComesYet
    <3>2. CASE Covered(u, Len(net))
      <4>1. PICK m : m = Len(net')
        OBVIOUS
      <4>2. m \in Nat /\ m + 1 = Len(net)
        BY <1>4, <4>1 DEF Reads
      <4>3. Covered(u, m)'
        BY <2>12, <3>2, <4>2
      <4> QED BY <4>1, <4>3 DEF ComesYet, Covered
    <3> QED BY <1>1, <1>3, <3>1, <3>2 DEF ComesYet
  <2> QED BY <2>14, <2>15 DEF Ahead
<1>13. AheadInv'
  BY <1>1, <1>3, <1>12 DEF AheadInv
<1> QED BY <1>10, <1>11, <1>13 DEF Followed

\* The follower's own steps: a snapshot has all there is to show, a barrier that
\* arrives takes what was held, a session that is read again is current.
LEMMA FollowedFollower ==
  ASSUME TypeOK, HistInv, Ordered, Followed,
         Follow \/ UpdateTopics \/ ReadBarrier \/ BarrierArrives \/ ReadAgain \/ Unfollow
  PROVE  Followed'
<1>1. SameView
  <2>1. CASE UpdateTopics
    BY <2>1 DEF UpdateTopics, SameView, node, cursor
  <2>2. CASE Follow \/ ReadBarrier \/ BarrierArrives \/ ReadAgain \/ Unfollow
    <3>1. UNCHANGED <<node, stream, net, cursor>>
      BY <2>2 DEF Follow, ReadBarrier, BarrierArrives, ReadAgain, Unfollow
    <3> QED BY <3>1 DEF SameView, node, stream, cursor
  <2> QED BY <2>1, <2>2
<1>2. /\ Shown' = Shown /\ UNCHANGED <<hist, epoch, ver, started, open>>
      /\ ModeInv /\ BaseInv /\ AheadInv
  BY <1>1, SameShown DEF SameView, Followed
<1>3. epoch >= 1 /\ epoch \in Nat /\ epoch <= epoch /\ NoSnap' = NoSnap /\ NoSnap.ep = 0 /\ 0 <= epoch
  BY OrderedTypes, NoSnapIs DEF HistInv, NoSnap
<1>4. CASE Follow
  <2>1. /\ started /\ fol = "none" /\ fol' = "joining" /\ topic' = topic
        /\ UNCHANGED <<from, held, snap, reread, fromEp, known, lost>>
    BY <1>4 DEF Follow, stream
  <2>2. snap = NoSnap
    BY <1>2, <2>1 DEF ModeInv
  <2>3. BaseEp' # epoch'
    BY <1>2, <1>3, <2>1, <2>2 DEF BaseEp
  <2>4. ModeInv'
    BY <1>2, <1>3, <2>1, <2>2 DEF ModeInv
  <2> QED BY <2>3, <2>4 DEF Followed, BaseInv, AheadInv
<1>5. CASE UpdateTopics
  <2>1. /\ UNCHANGED <<fol, from, held, snap, reread, fromEp, known, lost>> /\ topic' = (fol # "none")
    BY <1>5 DEF UpdateTopics, follower
  <2>2. ModeInv'
    BY <1>2, <1>3, <2>1 DEF ModeInv
  <2>3. BaseEp' = BaseEp /\ Base' = Base /\ Has' = Has /\ Had' = Had
    BY <2>1 DEF BaseEp, Base, Has, Had
  <2>4. BaseInv'
    BY <1>2, <2>3 DEF BaseInv
  <2>5. AheadInv'
    BY <1>1, <1>2, <2>1, <2>3, AheadSame DEF AheadInv
  <2> QED BY <2>2, <2>4, <2>5 DEF Followed
<1>6. CASE ReadBarrier
  <2>1. /\ fol = "joining" /\ (open => topic) /\ topic' = topic
        /\ UNCHANGED <<fol, from, held, reread, fromEp, known, lost>>
        /\ snap' = [ver |-> ver, ep |-> epoch, shows |-> Shown]
    BY <1>6 DEF ReadBarrier, stream
  <2>2. snap'.ver = ver /\ snap'.ep = epoch /\ snap'.shows = Shown
    BY <2>1
  <2>3. ModeInv'
    BY <1>2, <1>3, <2>1, <2>2 DEF ModeInv
  <2>4. BaseInv'
    BY <1>2, <2>1, <2>2, OrderedTypes DEF BaseInv, Base, Has
  <2>5. AheadInv'
    BY <1>2, <2>1, <2>2 DEF AheadInv, Had
  <2> QED BY <2>3, <2>4, <2>5 DEF Followed
<1>7. CASE BarrierArrives
  <2>1. /\ snap # NoSnap /\ fol' = "on" /\ from' = snap.ver /\ fromEp' = snap.ep
        /\ known' = snap.shows \cup {u \in held : hist[u].ver > snap.ver}
        /\ snap' = NoSnap /\ UNCHANGED <<reread, lost>> /\ topic' = topic
    BY <1>7 DEF BarrierArrives, stream
  <2>2. fol = "joining" /\ started /\ (open => topic) /\ snap.ep <= epoch
    BY <1>2, <2>1 DEF ModeInv
  <2>3. ModeInv'
    BY <1>2, <1>3, <2>1, <2>2 DEF ModeInv
  <2>4. BaseEp' = BaseEp /\ Base' = Base /\ Has' = known' /\ Had' = known'
    BY <2>1, <2>2 DEF BaseEp, Base, Has, Had
  <2>5. snap.shows = Has /\ Had = snap.shows \cup held /\ Base = snap.ver
    BY <2>2 DEF Has, Had, Base
  <2>6. BaseInv'
    BY <1>2, <2>1, <2>4, <2>5 DEF BaseInv
  <2>7. BaseEp = epoch => Shown \ known' \subseteq Shown \ Had
    BY <1>2, <2>1, <2>5 DEF BaseInv
  <2>8. AheadInv'
    BY <1>1, <1>2, <2>1, <2>4, <2>7, AheadSame DEF AheadInv
  <2> QED BY <2>3, <2>6, <2>8 DEF Followed
<1>8. CASE ReadAgain
  <2>1. /\ fol = "on" /\ known' = known \cup Shown /\ UNCHANGED <<fol, from, held, snap, fromEp>>
        /\ topic' = topic
    BY <1>8 DEF ReadAgain, stream
  <2>2. ModeInv'
    BY <1>2, <1>3, <2>1 DEF ModeInv
  <2>3. BaseEp' = BaseEp /\ Base' = Base /\ Has' = known' /\ Had' = known'
    BY <2>1 DEF BaseEp, Base, Has, Had
  <2>4. BaseInv'
    BY <1>2, <2>1, <2>3 DEF BaseInv
  <2>5. AheadInv'
    BY <1>2, <2>1, <2>3 DEF AheadInv
  <2> QED BY <2>2, <2>4, <2>5 DEF Followed
<1>9. CASE Unfollow
  <2>1. fol' = "none" /\ snap' = NoSnap /\ known' = {} /\ fromEp' = 0 /\ topic' = topic
    BY <1>9 DEF Unfollow, Become, NoFollower, stream
  <2>2. ModeInv'
    BY <1>2, <1>3, <2>1 DEF ModeInv
  <2>3. BaseEp' # epoch'
    BY <1>2, <1>3, <2>1 DEF BaseEp
  <2> QED BY <2>2, <2>3 DEF Followed, BaseInv, AheadInv
<1> QED BY <1>4, <1>5, <1>6, <1>7, <1>8, <1>9

\* A connection that ends fails a barrier on its way, and is counted as a loss
\* when a read was; a restart ends the epoch of every barrier.
LEMMA FollowedLink ==
  ASSUME TypeOK, HistInv, Ordered, Followed, Drop \/ Restart
  PROVE  Followed'
<1>1. /\ UNCHANGED hist /\ UNCHANGED <<started, cSeq, cEp, cVer>> /\ LinkEnds /\ open' = FALSE
  BY DEF Drop, Restart, LinkEnds, node, cursor
<1>2. ModeInv /\ BaseInv /\ AheadInv
  BY DEF Followed
<1>3. epoch \in Nat /\ epoch >= 1 /\ epoch' \in Nat /\ epoch <= epoch' /\ fromEp \in Nat /\ snap.ep \in Nat
  BY OrderedTypes, TypesAre DEF Drop, Restart, node, HistInv, FollowerTypes, Snapshots
<1>4. NoSnap' = NoSnap /\ NoSnap.ep = 0
  BY NoSnapIs DEF NoSnap
<1>5. CASE fol = "joining" /\ Become(NoFollower)
  <2>1. fol' = "none" /\ snap' = NoSnap /\ known' = {} /\ fromEp' = 0
    BY <1>5 DEF Become, NoFollower
  <2>2. ModeInv'
    BY <1>1, <1>3, <1>4, <2>1 DEF ModeInv
  <2>3. BaseEp' # epoch'
    BY <1>3, <1>4, <2>1 DEF BaseEp
  <2> QED BY <2>2, <2>3 DEF Followed, BaseInv, AheadInv
<1>6. CASE /\ snap = NoSnap /\ reread' = FALSE /\ lost' = (lost \/ reread)
           /\ UNCHANGED <<fol, from, held, snap, fromEp, known>>
  <2>1. ModeInv'
    BY <1>1, <1>2, <1>3, <1>4, <1>6 DEF ModeInv
  <2>2. BaseEp' = BaseEp /\ Base' = Base /\ Has' = Has /\ Had' = Had
    BY <1>6 DEF BaseEp, Base, Has, Had
  <2>3. CASE epoch' # epoch
    <3>1. fromEp < epoch' /\ snap.ep < epoch'
      BY <1>2, <1>3, <2>3 DEF ModeInv
    <3>2. BaseEp' # epoch'
      BY <1>3, <2>2, <3>1 DEF BaseEp
    <3> QED BY <2>1, <3>2 DEF Followed, BaseInv, AheadInv
  <2>4. CASE epoch' = epoch
    <3>1. ver' = ver
      BY <1>3, <2>4 DEF Drop, Restart, node
    <3>2. Shown' = Shown /\ \A w : Durable(w)' = Durable(w) /\ Session(w)' = Session(w)
      BY <1>1, <2>4, SameShown
    <3>3. BaseInv'
      BY <1>1, <1>2, <2>2, <2>4, <3>1, <3>2 DEF BaseInv
    <3>4. PICK k \in Nat : Cut(k)
      BY <1>1, LinkEndsIs
    <3>5. ASSUME NEW u, Ahead(u) PROVE Ahead(u)'
      <4>1. \A q : After(u, q)' = After(u, q)
        BY <1>1, <3>2 DEF After, NewDurable
      <4>2. ASSUME NEW i \in DOMAIN net' PROVE Covered(u, i)' \/ Beyond(u, net[i])'
        <5>1. i \in DOMAIN net /\ net'[i] = net[i] /\ i \in Nat /\ i <= k /\ i >= 1
          BY <3>4 DEF Cut
        <5>2. CASE Beyond(u, net[i])
          <6>1. PICK g : g = net[i]
            OBVIOUS
          <6>2. After(u, g.seq) /\ \A w \in ToSet(g.events) : Session(w) => w < u
            BY <5>2, <6>1 DEF Beyond
          <6>3. PICK q : q = g.seq
            OBVIOUS
          <6>4. After(u, q)'
            BY <4>1, <6>2, <6>3
          <6> QED BY <3>2, <5>1, <6>1, <6>2, <6>3, <6>4 DEF Beyond, After, NewDurable
        <5>3. CASE Covered(u, i)
          <6>1. PICK j \in DOMAIN net : j <= i /\ (net[j].gone \/ u \in ToSet(net[j].events))
            BY <5>3 DEF Covered
          <6>2. j \in Nat /\ j >= 1
            BY OrderedTypes
          <6>3. j \in 1..k
            BY <3>4, <5>1, <6>1, <6>2 DEF Cut
          <6>4. j \in DOMAIN net' /\ net'[j] = net[j]
            BY <3>4, <6>3 DEF Cut
          <6> QED BY <6>1, <6>4 DEF Covered
        <5> QED BY <3>5, <5>1, <5>2, <5>3 DEF Ahead, NotPassed
      <4>3. NotPassed(u)'
        BY <1>1, <2>4, <3>5, <4>1, <4>2 DEF Ahead, NotPassed
      <4> QED BY <1>1, <4>3 DEF Ahead
    <3>6. ~lost' => ~lost /\ ~reread
      BY <1>6
    <3>7. AheadInv'
      BY <1>2, <2>2, <2>4, <3>2, <3>5, <3>6 DEF AheadInv
    <3> QED BY <2>1, <3>3, <3>7 DEF Followed
  <2> QED BY <2>3, <2>4
<1> QED BY <1>1, <1>5, <1>6 DEF LinkEnds

\* What a follower misses stays ahead of it, whatever happens.
LEMMA FollowedNext == TypeOK /\ HistInv /\ Ordered /\ Followed /\ [Next]_vars => Followed'
<1> SUFFICES ASSUME TypeOK, HistInv, Ordered, Followed, [Next]_vars PROVE Followed'
  OBVIOUS
<1>1. CASE \E kind \in Kinds : MakeEvent(kind)
  BY <1>1, FollowedMakeEvent
<1>2. CASE Flush \/ Drain
  BY <1>2, FollowedFlush
<1>3. CASE Start
  BY <1>3, FollowedStart
<1>4. CASE Subscribe
  BY <1>4, FollowedSubscribe
<1>5. CASE Receive
  BY <1>5, FollowedReceive
<1>6. CASE Follow \/ UpdateTopics \/ ReadBarrier \/ BarrierArrives \/ ReadAgain \/ Unfollow
  BY <1>6, FollowedFollower
<1>7. CASE Drop \/ Restart
  BY <1>7, FollowedLink
<1>8. CASE Evict \/ Congest \/ Reconnect \/ UNCHANGED vars
  <2>1. /\ UNCHANGED <<hist, epoch, ver, cSeq, cEp, cVer, started, net, open, live, degraded>>
        /\ UNCHANGED <<fol, from, held, snap, reread, fromEp, known, lost>> /\ topic' = topic
    <3>1. CASE Evict
      BY <3>1 DEF Evict, stream, cursor, follower
    <3>2. CASE Congest
      BY <3>2 DEF Congest, node, cursor, follower
    <3>3. CASE Reconnect \/ UNCHANGED vars
      BY <3>3 DEF Reconnect, vars, node, stream, cursor, follower
    <3> QED BY <1>8, <3>1, <3>2, <3>3
  <2> QED BY <2>1, FollowedSame DEF SameView
<1> QED BY <1>1, <1>2, <1>3, <1>4, <1>5, <1>6, <1>7, <1>8 DEF Next

\* Nobody follows at first.
LEMMA FollowedInit == Init => Followed
<1> SUFFICES ASSUME Init PROVE Followed
  OBVIOUS
<1>1. BaseEp = 0 /\ epoch = 1 /\ snap = NoSnap /\ snap.ep = 0
  BY NoSnapIs DEF Init, BaseEp
<1>2. ModeInv
  BY <1>1 DEF Init, ModeInv
<1>3. BaseInv /\ AheadInv
  BY <1>1 DEF BaseInv, AheadInv
<1> QED BY <1>2, <1>3 DEF Followed

\* Once nothing is under way, a follower of the running process that lost
\* nothing beyond repair shows all there is to show: what was dropped with a
\* connection, degraded, evicted or committed away was caught up or read again.
THEOREM FollowerCurrent == Spec => []FollowerIsCurrent
<1>1. TypeOK /\ HistInv /\ Followed => FollowerIsCurrent
  <2> SUFFICES ASSUME TypeOK, HistInv, Followed, Quiet, ~lost, fromEp = epoch, NEW u \in Shown, u \notin known
               PROVE  FALSE
    BY DEF FollowerIsCurrent
  <2>1. fol = "on" /\ open /\ net = <<>> /\ live = <<>> /\ ~degraded /\ ~reread
    BY DEF Quiet
  <2>2. Ahead(u)
    BY <2>1 DEF Followed, AheadInv, BaseEp, Had
  <2>3. Covered(u, Len(net)) \/ u \in ToSet(live) \/ (degraded /\ ~Durable(u))
    BY <2>1, <2>2 DEF Ahead, ComesYet
  <2>4. ~Covered(u, Len(net))
    BY <2>1 DEF Covered
  <2>5. u \notin ToSet(live)
    BY <2>1, EmptyIs
  <2> QED BY <2>1, <2>3, <2>4, <2>5
<1>2. Init => TypeOK /\ HistInv /\ Ordered /\ Followed
  BY TypesInit, OrderedInit, FollowedInit
<1>3. TypeOK /\ HistInv /\ Ordered /\ Followed /\ [Next]_vars => TypeOK' /\ HistInv' /\ Ordered' /\ Followed'
  BY TypesNext, HistNext, OrderedNext, FollowedNext DEF Ordered, CursorInv
<1> QED BY <1>1, <1>2, <1>3, PTL DEF Spec

=============================================================================
